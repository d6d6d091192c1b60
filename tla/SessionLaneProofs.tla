-------------------------- MODULE SessionLaneProofs --------------------------
(***************************************************************************)
(* Machine-checked facts about SessionLane.tla, for any numbers of Inputs, *)
(* links of the chain, crashes and failed appends.                         *)
(***************************************************************************)
EXTENDS SessionLane, FiniteSetTheorems, SequenceTheorems, TLAPS

-----------------------------------------------------------------------------
(* The inductive invariants.                                               *)

\* The stage of an entry whose append is on #appendTail.
AskedAt(type) ==
  CASE type = "input/accepted" -> "accepting"
    [] type = "turn/started" -> "starting"
    [] type \in TryEnd -> "ending"
    [] OTHER -> "catching"

\* Each append on #appendTail is one an entry of the lane awaits, and each entry
\* awaits one at most.
OpsAwaited ==
  /\ \A n \in 1..Len(ops) : /\ ops[n].type # "turn/interrupted"
                            /\ lane[ops[n].turn].stage = AskedAt(ops[n].type)
  /\ \A n, m \in 1..Len(ops) : ops[n].turn = ops[m].turn => n = m

\* Without a Session object nothing is under way.
GoneIdle ==
  ~open => /\ ops = <<>> /\ reading = <<>> /\ activeTurn = 0
           /\ \A k \in 1..Len(lane) : lane[k].stage \in Settled

\* Only Inputs that were sent are scheduled and recorded.
OnlySent ==
  /\ \A k \in 1..Len(lane) : lane[k].input <= sent
  /\ \A n \in 1..Len(journal) : journal[n].input <= sent
  /\ \A n \in 1..Len(reading) : reading[n] <= sent

LaneInv == TypeOK /\ OpsAwaited /\ GoneIdle /\ OnlySent

\* While no append failed, the chain runs its entries in their order, and
\* #activeTurn is the one that runs.
InOrder ==
  failures = 0 => \A k \in 1..Len(lane) :
    /\ lane[k].stage \in Running \cup Settled =>
         \A j \in 1..(k - 1) : lane[j].stage \in Settled
    /\ lane[k].stage \in Running <=> activeTurn = k

\* The Turn has a durable start and no durable end.
Begun == {"working", "ending", "catching"}

\* While no append failed, the record ends with the start of the Turn that is
\* between its start and its end, and with no open Turn if there is none.
RecordFollows ==
  failures = 0 =>
    /\ \A k \in 1..Len(lane) : lane[k].stage \in Begun =>
         \E n \in LatestTurn : journal[n].type = "turn/started" /\ journal[n].turn = k
    /\ open /\ (\A k \in 1..Len(lane) : lane[k].stage \notin Begun) => ~LatestTurnActive

\* While no append failed, the Turn of an Input that has run consumed it.
RunConsumes ==
  failures = 0 => \A k \in 1..Len(lane) :
    lane[k].stage \in Begun \cup {"ended"} => Consumed(lane[k].input)

Accepted(i) == \E m \in 1..Len(journal) :
                 journal[m].type = "input/accepted" /\ journal[m].input = i

\* An Input is accepted once, before it is queued or read as pending; the entry
\* that waits for its acceptance is its only one.
AcceptedFirst ==
  /\ \A n, m \in 1..Len(journal) :
       /\ journal[n].type = "input/accepted" /\ journal[m].type = "input/accepted"
       /\ journal[n].input = journal[m].input
       => n = m
  /\ \A k \in 1..Len(lane) : lane[k].stage \notin Settled \cup {"accepting"}
       => Accepted(lane[k].input)
  /\ \A n \in 1..Len(reading) : Accepted(reading[n])
  /\ \A n, m \in 1..Len(reading) : reading[n] = reading[m] => n = m
  /\ \A k \in 1..Len(lane) : lane[k].stage = "accepting" =>
       /\ ~Accepted(lane[k].input)
       /\ \A j \in 1..Len(lane) : lane[j].input = lane[k].input => j = k

\* No Input has two entries on the chain, and none that waits for its Turn was
\* consumed before, unless a read was outrun.
WaitingOnce ==
  /\ \A j, k \in 1..Len(lane) :
       /\ lane[j].stage \notin Settled /\ lane[k].stage \notin Settled
       /\ lane[j].input = lane[k].input
       => j = k
  /\ \A k \in 1..Len(lane) :
       /\ lane[k].stage \in {"accepting", "queued", "starting"}
       /\ lane[k].input \notin outrun
       => ~Consumed(lane[k].input)

-----------------------------------------------------------------------------
(* What the steps do to the lane, to the chain of appends and to the       *)
(* record.                                                                 *)

LaneEntry == [input : 1..MaxInputs, stage : Stage, cancelled : BOOLEAN]

Append1 == [type : EventType, turn : 1..Len(lane)]

LEMMA EntryType ==
  ASSUME TypeOK, NEW k \in 1..Len(lane)
  PROVE  /\ lane \in Seq(LaneEntry) /\ Len(lane) \in Nat
         /\ lane[k] \in LaneEntry
         /\ lane[k].input \in 1..MaxInputs /\ lane[k].input \in Nat
         /\ lane[k].stage \in Stage /\ lane[k].cancelled \in BOOLEAN
<1>1. lane \in Seq(LaneEntry) /\ Len(lane) \in Nat
  BY LenProperties DEF TypeOK, LaneEntry
<1>2. lane[k] \in LaneEntry
  BY <1>1, ElementOfSeq
<1> QED BY <1>1, <1>2, BoundsAssumption DEF LaneEntry

\* One entry of the lane goes on to another stage.
LEMMA StageMoves ==
  ASSUME TypeOK, NEW k \in 1..Len(lane), NEW to \in Stage,
         lane' = [lane EXCEPT ![k].stage = to]
  PROVE  /\ lane' \in Seq(LaneEntry) /\ Len(lane') = Len(lane)
         /\ \A j \in 1..Len(lane) : /\ lane'[j].input = lane[j].input
                                    /\ lane'[j].stage = IF j = k THEN to ELSE lane[j].stage
<1>1. lane \in Seq(LaneEntry) /\ lane[k] \in LaneEntry
  BY EntryType
<1>2. PICK e \in LaneEntry : e = [lane[k] EXCEPT !.stage = to]
  BY <1>1 DEF LaneEntry
<1>3. e.input = lane[k].input /\ e.stage = to
  BY <1>1, <1>2 DEF LaneEntry
<1>4. lane' = [lane EXCEPT ![k] = e]
  BY <1>2
<1>5. /\ lane' \in Seq(LaneEntry) /\ Len(lane') = Len(lane)
      /\ \A j \in 1..Len(lane) : lane'[j] = IF j = k THEN e ELSE lane[j]
  BY <1>1, <1>4, ExceptSeq
<1> QED BY <1>3, <1>5

\* The signal of an entry is aborted, or of none.
LEMMA CancelKeeps ==
  ASSUME TypeOK, lane' = Cancelled(activeTurn)
  PROVE  /\ lane' \in Seq(LaneEntry) /\ Len(lane') = Len(lane)
         /\ \A j \in 1..Len(lane) : /\ lane'[j].input = lane[j].input
                                    /\ lane'[j].stage = lane[j].stage
<1>1. lane \in Seq(LaneEntry) /\ Len(lane) \in Nat
  BY LenProperties DEF TypeOK, LaneEntry
<1>2. CASE activeTurn = 0
  BY <1>1, <1>2 DEF Cancelled
<1>3. CASE activeTurn # 0
  <2>1. activeTurn \in 1..Len(lane)
    BY <1>1, <1>3 DEF TypeOK
  <2>2. lane[activeTurn] \in LaneEntry
    BY <2>1, EntryType
  <2>3. PICK e \in LaneEntry : e = [lane[activeTurn] EXCEPT !.cancelled = TRUE]
    BY <2>2 DEF LaneEntry
  <2>4. e.input = lane[activeTurn].input /\ e.stage = lane[activeTurn].stage
    BY <2>2, <2>3 DEF LaneEntry
  <2>5. lane' = [lane EXCEPT ![activeTurn] = e]
    BY <1>3, <2>3 DEF Cancelled
  <2>6. /\ lane' \in Seq(LaneEntry) /\ Len(lane') = Len(lane)
        /\ \A j \in 1..Len(lane) : lane'[j] = IF j = activeTurn THEN e ELSE lane[j]
    BY <1>1, <2>1, <2>5, ExceptSeq
  <2> QED BY <2>4, <2>6
<1> QED BY <1>2, <1>3

LEMMA SentEntry ==
  ASSUME TypeOK, Send
  PROVE  /\ lane' \in Seq(LaneEntry) /\ Len(lane') = Len(lane) + 1
         /\ \A j \in 1..Len(lane) : lane'[j] = lane[j]
         /\ lane'[Len(lane) + 1].input = sent + 1
         /\ lane'[Len(lane) + 1].stage = "accepting"
<1>1. lane \in Seq(LaneEntry)
  BY DEF TypeOK, LaneEntry
<1>2. PICK e \in LaneEntry : e = Entry(sent + 1, "accepting")
  <2>1. sent + 1 \in 1..MaxInputs
    BY BoundsAssumption DEF Send, TypeOK
  <2>2. "accepting" \in Stage
    BY DEF Stage
  <2> QED BY <2>1, <2>2 DEF Entry, LaneEntry
<1>3. e.input = sent + 1 /\ e.stage = "accepting"
  BY <1>2 DEF Entry
<1>4. lane' = Append(lane, e)
  BY <1>2 DEF Send
<1> QED BY <1>1, <1>3, <1>4, AppendProperties

\* The entries a resumption adds: one for each Input that is not scheduled.
LEMMA ResumedEntries ==
  ASSUME TypeOK, Resume
  PROVE  \E at \in [1..(Len(lane') - Len(lane)) -> 1..Len(reading)] :
           /\ lane' \in Seq(LaneEntry)
           /\ Len(lane) \in Nat /\ Len(lane') \in Nat
           /\ Len(lane) <= Len(lane') /\ Len(lane') <= MaxEntries
           /\ \A j \in 1..Len(lane) : lane'[j] = lane[j]
           /\ \A k \in 1..Len(lane') : k > Len(lane) =>
                /\ lane'[k].input = reading[at[k - Len(lane)]]
                /\ lane'[k].stage = "queued"
                /\ ~Scheduled(reading[at[k - Len(lane)]])
           /\ \A a, b \in 1..(Len(lane') - Len(lane)) : at[a] = at[b] => a = b
<1> DEFINE fresh == {m \in 1..Len(reading) : ~Scheduled(reading[m])}
           c == Cardinality(fresh)
<1>1. /\ lane \in Seq(LaneEntry) /\ Len(lane) \in Nat
      /\ reading \in Seq(1..MaxInputs) /\ Len(reading) \in Nat
  BY LenProperties DEF TypeOK, LaneEntry
<1>2. c \in Nat
  <2>1. IsFiniteSet(1..Len(reading))
    BY <1>1, FS_Interval
  <2> QED BY <2>1, FS_Subset, FS_CardinalityType
<1>3. Len(lane) + c <= MaxEntries
  BY DEF Resume
<1>4. PICK at \in Ascending(fresh) :
        lane' = lane \o [n \in 1..c |-> Entry(reading[at[n]], "queued")]
  BY DEF Resume
<1>5. at \in [1..c -> fresh] /\ \A a, b \in 1..c : a < b => at[a] < at[b]
  BY <1>4 DEF Ascending
<1> DEFINE more == [n \in 1..c |-> Entry(reading[at[n]], "queued")]
<1>6. \A n \in 1..c : /\ at[n] \in 1..Len(reading) /\ ~Scheduled(reading[at[n]])
                      /\ reading[at[n]] \in 1..MaxInputs
  <2> SUFFICES ASSUME NEW n \in 1..c
               PROVE  /\ at[n] \in 1..Len(reading) /\ ~Scheduled(reading[at[n]])
                      /\ reading[at[n]] \in 1..MaxInputs
    OBVIOUS
  <2>1. at[n] \in fresh
    BY <1>5
  <2> QED BY <1>1, <2>1, ElementOfSeq
<1> HIDE DEF fresh, c
<1>7. \A n \in 1..c : /\ more[n] \in LaneEntry /\ more[n].input = reading[at[n]]
                      /\ more[n].stage = "queued"
  BY <1>6 DEF Entry, LaneEntry, Stage
<1>8. more \in Seq(LaneEntry) /\ Len(more) = c
  <2>1. more \in [1..c -> LaneEntry]
    BY <1>7
  <2> QED BY <1>2, <2>1, LenProperties
<1>9. lane' = lane \o more
  BY <1>4
<1> HIDE DEF more
<1>10. /\ lane' \in Seq(LaneEntry) /\ Len(lane') = Len(lane) + c
       /\ \A k \in 1..(Len(lane) + c) :
            lane'[k] = IF k <= Len(lane) THEN lane[k] ELSE more[k - Len(lane)]
  BY <1>1, <1>8, <1>9, ConcatProperties
<1>11. Len(lane') - Len(lane) = c
  BY <1>1, <1>2, <1>10
<1>12. at \in [1..c -> 1..Len(reading)]
  BY <1>5, <1>6
<1>13. \A a, b \in 1..c : at[a] = at[b] => a = b
  <2> SUFFICES ASSUME NEW a \in 1..c, NEW b \in 1..c, at[a] = at[b] PROVE a = b
    OBVIOUS
  <2>1. at[a] \in Nat /\ a \in Nat /\ b \in Nat
    BY <1>1, <1>2, <1>6
  <2> QED BY <1>5, <2>1
<1>14. ASSUME NEW k \in 1..Len(lane'), k > Len(lane)
       PROVE  /\ lane'[k].input = reading[at[k - Len(lane)]]
              /\ lane'[k].stage = "queued"
              /\ ~Scheduled(reading[at[k - Len(lane)]])
  <2>1. k - Len(lane) \in 1..c /\ lane'[k] = more[k - Len(lane)]
    BY <1>1, <1>2, <1>10, <1>14
  <2> QED BY <1>6, <1>7, <2>1
<1>15. Len(lane') \in Nat /\ Len(lane) <= Len(lane') /\ Len(lane') <= MaxEntries
       /\ \A j \in 1..Len(lane) : lane'[j] = lane[j]
  BY <1>1, <1>2, <1>3, <1>10
<1>16. at \in [1..(Len(lane') - Len(lane)) -> 1..Len(reading)]
       /\ \A a, b \in 1..(Len(lane') - Len(lane)) : at[a] = at[b] => a = b
  BY <1>11, <1>12, <1>13
<1> QED BY <1>1, <1>10, <1>14, <1>15, <1>16

LEMMA CrashedEntries ==
  ASSUME TypeOK, Crash
  PROVE  /\ lane' \in Seq(LaneEntry) /\ Len(lane') = Len(lane)
         /\ \A j \in 1..Len(lane) :
              /\ lane'[j].input = lane[j].input
              /\ lane'[j].stage = IF lane[j].stage \in Settled THEN lane[j].stage ELSE "lost"
<1>1. lane \in Seq(LaneEntry) /\ Len(lane) \in Nat /\ DOMAIN lane = 1..Len(lane)
  BY LenProperties DEF TypeOK, LaneEntry
<1>2. lane' = [k \in 1..Len(lane) |-> IF lane[k].stage \in Settled THEN lane[k]
                                      ELSE [lane[k] EXCEPT !.stage = "lost"]]
  BY <1>1 DEF Crash
<1>3. ASSUME NEW j \in 1..Len(lane)
      PROVE  /\ lane'[j] \in LaneEntry
             /\ lane'[j].input = lane[j].input
             /\ lane'[j].stage = IF lane[j].stage \in Settled THEN lane[j].stage ELSE "lost"
  <2>1. lane[j] \in LaneEntry
    BY EntryType
  <2>2. lane'[j] = IF lane[j].stage \in Settled THEN lane[j]
                   ELSE [lane[j] EXCEPT !.stage = "lost"]
    BY <1>2
  <2> QED BY <2>1, <2>2 DEF LaneEntry, Stage, Settled
<1>4. lane' \in [1..Len(lane) -> LaneEntry]
  <2>1. DOMAIN lane' = 1..Len(lane) /\ lane' = [k \in 1..Len(lane) |-> lane'[k]]
    BY <1>2
  <2> QED BY <1>3, <2>1
<1>5. lane' \in Seq(LaneEntry) /\ Len(lane') = Len(lane)
  BY <1>1, <1>4, LenProperties
<1> QED BY <1>3, <1>5

\* The append at the head of the chain, and those behind it.
LEMMA HeadOp ==
  ASSUME LaneInv, ops # <<>>
  PROVE  /\ Head(ops).turn \in 1..Len(lane)
         /\ Head(ops).type \in EventType \ {"turn/interrupted"}
         /\ lane[Head(ops).turn].stage = AskedAt(Head(ops).type)
         /\ Tail(ops) \in Seq(Append1) /\ Len(ops) \in Nat
         /\ Len(Tail(ops)) = Len(ops) - 1
         /\ \A n \in 1..Len(Tail(ops)) : /\ n + 1 \in 1..Len(ops)
                                         /\ Tail(ops)[n] = ops[n + 1]
                                         /\ ops[n + 1].turn # Head(ops).turn
<1>1. ops \in Seq(Append1) /\ Len(ops) \in Nat
  BY LenProperties DEF LaneInv, TypeOK, Append1
<1>2. /\ Len(ops) # 0 /\ Head(ops) = ops[1]
      /\ Tail(ops) \in Seq(Append1) /\ Len(Tail(ops)) = Len(ops) - 1
      /\ \A n \in 1..Len(Tail(ops)) : Tail(ops)[n] = ops[n + 1]
  BY <1>1, EmptySeq, HeadTailProperties
<1>3. 1 \in 1..Len(ops) /\ ops[1] \in Append1
  BY <1>1, <1>2, ElementOfSeq
<1>4. /\ ops[1].type # "turn/interrupted"
      /\ lane[ops[1].turn].stage = AskedAt(ops[1].type)
      /\ \A n \in 1..Len(ops) : ops[n].turn = ops[1].turn => n = 1
  BY <1>3 DEF LaneInv, OpsAwaited
<1>5. ops[1].turn \in 1..Len(lane) /\ ops[1].type \in EventType
  BY <1>3 DEF Append1
<1> QED BY <1>1, <1>2, <1>4, <1>5

LEMMA HeadEvent ==
  ASSUME LaneInv, ops # <<>>
  PROVE  /\ EventOf(Head(ops)) \in Event
         /\ EventOf(Head(ops)).type = Head(ops).type
         /\ EventOf(Head(ops)).turn = Head(ops).turn
         /\ EventOf(Head(ops)).input = lane[Head(ops).turn].input
<1>1. Head(ops).turn \in 1..Len(lane) /\ Head(ops).type \in EventType
  BY HeadOp
<1>2. lane[Head(ops).turn].input \in 1..MaxInputs /\ Len(lane) \in Nat
  BY <1>1, EntryType DEF LaneInv
<1>3. Head(ops).turn \in 1..MaxEntries
  BY <1>1, <1>2, BoundsAssumption, SMTT(20) DEF LaneInv, TypeOK
<1> QED BY <1>1, <1>2, <1>3 DEF EventOf, Event

\* An event is recorded: what was recorded keeps its place.
LEMMA Recorded ==
  ASSUME TypeOK, NEW e \in Event, journal' = Append(journal, e)
  PROVE  /\ journal' \in Seq(Event) /\ Len(journal) \in Nat
         /\ Len(journal') = Len(journal) + 1
         /\ \A n \in 1..Len(journal) : journal'[n] = journal[n]
         /\ journal'[Len(journal) + 1] = e
  BY AppendProperties, LenProperties DEF TypeOK

LEMMA TurnsBeforeKept ==
  ASSUME TypeOK, NEW e \in Event, journal' = Append(journal, e),
         NEW m \in 1..(Len(journal) + 1)
  PROVE  TurnEventBefore(m)' = TurnEventBefore(m)
<1>1. /\ Len(journal) \in Nat
      /\ \A n \in 1..Len(journal) : journal'[n] = journal[n]
  BY Recorded
<1>2. \A n \in 1..(m - 1) : n \in 1..Len(journal)
  BY <1>1
<1>3. ASSUME NEW n \in 1..(m - 1)
      PROVE  \A i \in (n + 1)..(m - 1) : i \in 1..Len(journal)
  BY <1>1
<1> QED BY <1>1, <1>2, <1>3 DEF TurnEventBefore, IsTurnEvent

LEMMA LatestRecorded ==
  ASSUME TypeOK, NEW e \in Event, journal' = Append(journal, e)
  PROVE  LatestTurn' = IF IsTurnEvent(e) THEN {Len(journal) + 1} ELSE LatestTurn
<1> DEFINE N == Len(journal) + 1
<1>1. /\ Len(journal) \in Nat /\ Len(journal') = N
      /\ \A n \in 1..Len(journal) : journal'[n] = journal[n]
      /\ journal'[N] = e
  BY Recorded
<1>2. LatestTurn' = {n \in 1..N : /\ IsTurnEvent(journal'[n])
                                  /\ \A i \in (n + 1)..N : ~IsTurnEvent(journal'[i])}
  BY <1>1 DEF LatestTurn, TurnEventBefore, IsTurnEvent
<1>3. LatestTurn = {n \in 1..Len(journal) :
                      /\ IsTurnEvent(journal[n])
                      /\ \A i \in (n + 1)..Len(journal) : ~IsTurnEvent(journal[i])}
  BY <1>1 DEF LatestTurn, TurnEventBefore
<1>4. CASE IsTurnEvent(e)
  <2>1. \A n \in 1..Len(journal) : N \in (n + 1)..N
    BY <1>1
  <2>2. 1..N = 1..Len(journal) \cup {N} /\ (N + 1)..N = {}
    BY <1>1
  <2> QED BY <1>1, <1>2, <1>4, <2>1, <2>2
<1>5. CASE ~IsTurnEvent(e)
  <2>1. 1..N = 1..Len(journal) \cup {N}
    BY <1>1
  <2>2. \A n \in 1..Len(journal) : (n + 1)..N = (n + 1)..Len(journal) \cup {N}
    BY <1>1
  <2>3. \A n \in 1..Len(journal) : \A i \in (n + 1)..Len(journal) : i \in 1..Len(journal)
    BY <1>1
  <2> QED BY <1>1, <1>2, <1>3, <1>5, <2>1, <2>2, <2>3 DEF IsTurnEvent
<1> QED BY <1>4, <1>5

LEMMA InputRecorded ==
  ASSUME TypeOK, NEW e \in Event, journal' = Append(journal, e), NEW i
  PROVE  /\ Consumed(i)' <=> Consumed(i) \/ (e.type = "turn/started" /\ e.input = i)
         /\ Accepted(i)' <=> Accepted(i) \/ (e.type = "input/accepted" /\ e.input = i)
<1>1. /\ Len(journal) \in Nat /\ Len(journal') = Len(journal) + 1
      /\ \A n \in 1..Len(journal) : journal'[n] = journal[n]
      /\ journal'[Len(journal) + 1] = e
  BY Recorded
<1>2. 1..Len(journal') = 1..Len(journal) \cup {Len(journal) + 1}
  BY <1>1
<1> QED BY <1>1, <1>2 DEF Consumed, Accepted

\* `rest` are appends of other entries than k.
OthersAwaited(rest, k) ==
  /\ rest \in Seq(Append1)
  /\ \A n \in 1..Len(rest) : /\ rest[n].type # "turn/interrupted"
                             /\ lane[rest[n].turn].stage = AskedAt(rest[n].type)
                             /\ rest[n].turn # k
  /\ \A n, m \in 1..Len(rest) : rest[n].turn = rest[m].turn => n = m

LEMMA AllAreOthers ==
  ASSUME LaneInv, NEW k \in 1..Len(lane), lane[k].stage \in {"queued", "working", "ended"}
  PROVE  OthersAwaited(ops, k)
<1>1. \A n \in 1..Len(ops) : ops[n].turn # k
  BY DEF LaneInv, OpsAwaited, AskedAt
<1> QED BY <1>1 DEF LaneInv, TypeOK, OpsAwaited, OthersAwaited, Append1

LEMMA TailAreOthers ==
  ASSUME LaneInv, ops # <<>>
  PROVE  OthersAwaited(Tail(ops), Head(ops).turn)
<1>1. /\ Tail(ops) \in Seq(Append1) /\ Len(Tail(ops)) = Len(ops) - 1 /\ Len(ops) \in Nat
      /\ \A n \in 1..Len(Tail(ops)) : /\ n + 1 \in 1..Len(ops)
                                      /\ Tail(ops)[n] = ops[n + 1]
                                      /\ ops[n + 1].turn # Head(ops).turn
  BY HeadOp
<1>2. \A n \in 1..Len(Tail(ops)) : /\ Tail(ops)[n].type # "turn/interrupted"
                                   /\ lane[Tail(ops)[n].turn].stage = AskedAt(Tail(ops)[n].type)
                                   /\ Tail(ops)[n].turn # Head(ops).turn
  BY <1>1 DEF LaneInv, OpsAwaited
<1>3. \A n, m \in 1..Len(Tail(ops)) : Tail(ops)[n].turn = Tail(ops)[m].turn => n = m
  <2> SUFFICES ASSUME NEW n \in 1..Len(Tail(ops)), NEW m \in 1..Len(Tail(ops)),
                      Tail(ops)[n].turn = Tail(ops)[m].turn
               PROVE  n = m
    OBVIOUS
  <2>1. n + 1 = m + 1
    BY <1>1 DEF LaneInv, OpsAwaited
  <2> QED BY <1>1, <2>1
<1> QED BY <1>1, <1>2, <1>3 DEF OthersAwaited

\* Entry k goes on, and asks for no append or for the one of its new stage.
LEMMA OpsFollowLane ==
  ASSUME TypeOK, NEW k \in 1..Len(lane), NEW to \in Stage, NEW rest, OthersAwaited(rest, k),
         lane' = [lane EXCEPT ![k].stage = to],
         \/ ops' = rest
         \/ \E t \in EventType \ {"turn/interrupted"} :
              ops' = Append(rest, Op(t, k)) /\ to = AskedAt(t)
  PROVE  ops' \in Seq(Append1) /\ OpsAwaited'
<1>1. /\ Len(lane') = Len(lane)
      /\ \A j \in 1..Len(lane) : lane'[j].stage = IF j = k THEN to ELSE lane[j].stage
  BY StageMoves
<1>2. /\ rest \in Seq(Append1) /\ Len(rest) \in Nat
      /\ \A n \in 1..Len(rest) : /\ rest[n].type # "turn/interrupted"
                                 /\ lane[rest[n].turn].stage = AskedAt(rest[n].type)
                                 /\ rest[n].turn # k
      /\ \A n, m \in 1..Len(rest) : rest[n].turn = rest[m].turn => n = m
  BY LenProperties DEF OthersAwaited
<1>3. \A n \in 1..Len(rest) : rest[n].turn \in 1..Len(lane)
  <2> SUFFICES ASSUME NEW n \in 1..Len(rest) PROVE rest[n].turn \in 1..Len(lane)
    OBVIOUS
  <2>1. rest[n] \in Append1
    BY <1>2, ElementOfSeq
  <2> QED BY <2>1 DEF Append1
<1>4. \A n \in 1..Len(rest) : lane'[rest[n].turn].stage = AskedAt(rest[n].type)
  BY <1>1, <1>2, <1>3
<1>5. CASE ops' = rest
  BY <1>2, <1>4, <1>5 DEF OpsAwaited, AskedAt
<1>6. CASE ops' # rest
  <2>1. PICK t \in EventType \ {"turn/interrupted"} :
          ops' = Append(rest, Op(t, k)) /\ to = AskedAt(t)
    BY <1>6
  <2>2. PICK x \in Append1 : x = Op(t, k)
    BY DEF Append1, Op
  <2>3. x.type = t /\ x.turn = k
    BY <2>2 DEF Op
  <2>4. /\ ops' \in Seq(Append1) /\ Len(ops') = Len(rest) + 1
        /\ \A n \in 1..Len(rest) : ops'[n] = rest[n]
        /\ ops'[Len(rest) + 1] = x
    BY <1>2, <2>1, <2>2, AppendProperties
  <2>5. \A n \in 1..Len(ops') : n \in 1..Len(rest) \/ n = Len(rest) + 1
    BY <1>2, <2>4
  <2>6. \A n \in 1..Len(ops') : /\ ops'[n].type # "turn/interrupted"
                                /\ lane'[ops'[n].turn].stage = AskedAt(ops'[n].type)
    BY <1>1, <1>2, <1>4, <2>1, <2>3, <2>4, <2>5
  <2>7. \A n, m \in 1..Len(ops') : ops'[n].turn = ops'[m].turn => n = m
    BY <1>2, <2>3, <2>4, <2>5
  <2> QED BY <2>4, <2>6, <2>7 DEF OpsAwaited, AskedAt
<1> QED BY <1>5, <1>6

-----------------------------------------------------------------------------
(* Types, the appends awaited, and the Inputs that were sent.              *)

\* An entry goes on, alone or with the request of an append, and nothing is
\* recorded: what is left to show of LaneInv.
LEMMA EntryGoesOn ==
  ASSUME LaneInv, NEW k \in 1..Len(lane), NEW to \in Stage, NEW rest, OthersAwaited(rest, k),
         lane' = [lane EXCEPT ![k].stage = to],
         \/ ops' = rest
         \/ \E t \in EventType \ {"turn/interrupted"} :
              ops' = Append(rest, Op(t, k)) /\ to = AskedAt(t),
         lane[k].stage \notin Settled,
         \/ UNCHANGED journal
         \/ \E e \in Event : journal' = Append(journal, e) /\ e.input = lane[k].input,
         activeTurn' \in {0, k, activeTurn}, failures' \in 0..MaxFailures,
         UNCHANGED <<stopping, stopWait, stopped, open, sent, crashes, resumption>>
  PROVE  LaneInv'
<1>1. TypeOK
  BY DEF LaneInv
<1>2. /\ lane' \in Seq(LaneEntry) /\ Len(lane') = Len(lane) /\ Len(lane) \in Nat
      /\ \A j \in 1..Len(lane) : /\ lane'[j].input = lane[j].input
                                 /\ lane'[j].stage = IF j = k THEN to ELSE lane[j].stage
  BY <1>1, StageMoves, EntryType
<1>3. ops' \in Seq(Append1) /\ OpsAwaited'
  BY <1>1, OpsFollowLane
<1>4. /\ journal' \in Seq(Event)
      /\ \A n \in 1..Len(journal') : journal'[n].input <= sent
  <2>1. lane[k].input <= sent
    BY DEF LaneInv, OnlySent
  <2>2. CASE UNCHANGED journal
    BY <1>1, <2>2 DEF LaneInv, OnlySent, TypeOK
  <2>3. CASE \E e \in Event : journal' = Append(journal, e) /\ e.input = lane[k].input
    <3>1. PICK e \in Event : journal' = Append(journal, e) /\ e.input = lane[k].input
      BY <2>3
    <3>2. /\ journal' \in Seq(Event) /\ Len(journal) \in Nat
          /\ Len(journal') = Len(journal) + 1
          /\ \A n \in 1..Len(journal) : journal'[n] = journal[n]
          /\ journal'[Len(journal) + 1] = e
      BY <1>1, <3>1, Recorded
    <3>3. \A n \in 1..Len(journal') : n \in 1..Len(journal) \/ n = Len(journal) + 1
      BY <3>2
    <3> QED BY <2>1, <3>1, <3>2, <3>3 DEF LaneInv, OnlySent
  <2> QED BY <2>2, <2>3
<1>5. activeTurn' \in 0..Len(lane)
  BY <1>1, <1>2, SMTT(20) DEF TypeOK
<1>6. TypeOK'
  BY <1>1, <1>2, <1>3, <1>4, <1>5 DEF TypeOK, LaneEntry, Append1, resumption
<1>7. open'
  BY DEF LaneInv, GoneIdle
<1>8. OnlySent'
  BY <1>2, <1>4 DEF LaneInv, OnlySent, resumption
<1> QED BY <1>3, <1>6, <1>7, <1>8 DEF LaneInv, GoneIdle

LEMMA CaughtType ==
  ASSUME NEW k
  PROVE  \E t \in EventType \ {"turn/interrupted"} : CatchOp(k) = Op(t, k) /\ "catching" = AskedAt(t)
<1>1. PICK t \in CatchEnd : CatchOp(k) = Op(t, k)
  BY DEF CatchOp, CatchEnd
<1>2. t \in EventType \ {"turn/interrupted"}
  BY DEF EventType, Terminal, CatchEnd
<1>3. "catching" = AskedAt(t)
  BY DEF AskedAt, TryEnd, CatchEnd
<1> QED BY <1>1, <1>2, <1>3

LEMMA LaneEntryStep ==
  ASSUME LaneInv, NEW k \in 1..Len(lane), EntryStep(k)
  PROVE  LaneInv'
<1>1. failures \in 0..MaxFailures /\ UNCHANGED failures
  BY DEF EntryStep, Refuse, Execute, Finish, Throw, Settle, LaneInv, TypeOK
<1>2. CASE Refuse(k)
  <2>1. OthersAwaited(ops, k)
    BY <1>2, AllAreOthers DEF Refuse
  <2>2. "stopped" \in Stage /\ lane[k].stage \notin Settled
    BY <1>2 DEF Stage, Settled, Refuse
  <2> QED BY <1>1, <1>2, <2>1, <2>2, EntryGoesOn DEF Refuse
<1>3. CASE Execute(k)
  <2>1. OthersAwaited(ops, k)
    BY <1>3, AllAreOthers DEF Execute
  <2>2. "starting" \in Stage /\ lane[k].stage \notin Settled
    BY <1>3 DEF Stage, Running, Settled, Execute
  <2>3. \E t \in EventType \ {"turn/interrupted"} :
          ops' = Append(ops, Op(t, k)) /\ "starting" = AskedAt(t)
    BY <1>3 DEF Execute, AskedAt, EventType, Terminal, TryEnd, CatchEnd
  <2> QED BY <1>1, <1>3, <2>1, <2>2, <2>3, EntryGoesOn DEF Execute
<1>4. CASE Finish(k)
  <2>1. OthersAwaited(ops, k)
    BY <1>4, AllAreOthers DEF Finish
  <2>2. "ending" \in Stage /\ lane[k].stage \notin Settled
    BY <1>4 DEF Stage, Running, Settled, Finish
  <2>3. \E t \in EventType \ {"turn/interrupted"} :
          ops' = Append(ops, Op(t, k)) /\ "ending" = AskedAt(t)
    BY <1>4 DEF Finish, AskedAt, EventType, Terminal, TryEnd
  <2> QED BY <1>1, <1>4, <2>1, <2>2, <2>3, EntryGoesOn DEF Finish
<1>5. CASE Throw(k)
  <2>1. OthersAwaited(ops, k)
    BY <1>5, AllAreOthers DEF Throw
  <2>2. "catching" \in Stage /\ lane[k].stage \notin Settled
    BY <1>5 DEF Stage, Running, Settled, Throw
  <2>3. \E t \in EventType \ {"turn/interrupted"} :
          ops' = Append(ops, Op(t, k)) /\ "catching" = AskedAt(t)
    BY <1>5, CaughtType DEF Throw
  <2> QED BY <1>1, <1>5, <2>1, <2>2, <2>3, EntryGoesOn DEF Throw
<1>6. CASE Settle(k)
  <2>1. OthersAwaited(ops, k)
    BY <1>6, AllAreOthers DEF Settle
  <2>2. "settled" \in Stage /\ lane[k].stage \notin Settled
    BY <1>6 DEF Stage, Running, Settled, Settle
  <2> QED BY <1>1, <1>6, <2>1, <2>2, EntryGoesOn DEF Settle
<1> QED BY <1>2, <1>3, <1>4, <1>5, <1>6 DEF EntryStep

LEMMA LaneCommit ==
  ASSUME LaneInv, Commit
  PROVE  LaneInv'
<1>1. PICK k \in 1..Len(lane) : k = Head(ops).turn
  BY HeadOp DEF Commit
<1>2. OthersAwaited(Tail(ops), k)
  BY <1>1, TailAreOthers DEF Commit
<1>3. lane[k].stage \notin Settled
  BY <1>1, HeadOp DEF Commit, AskedAt, Settled
<1>4. PICK to \in Stage : to = AfterCommit(Head(ops).type)
  BY DEF AfterCommit, Stage, Running
<1>5. lane' = [lane EXCEPT ![k].stage = to]
  BY <1>1, <1>4 DEF Commit
<1>6. \E e \in Event : journal' = Append(journal, e) /\ e.input = lane[k].input
  BY <1>1, HeadEvent DEF Commit
<1>7. failures' \in 0..MaxFailures
  BY DEF Commit, LaneInv, TypeOK
<1> QED BY <1>2, <1>3, <1>5, <1>6, <1>7, EntryGoesOn DEF Commit

LEMMA LaneFailAppend ==
  ASSUME LaneInv, FailAppend
  PROVE  LaneInv'
<1>1. PICK k \in 1..Len(lane) : k = Head(ops).turn
  BY HeadOp DEF FailAppend
<1>2. OthersAwaited(Tail(ops), k)
  BY <1>1, TailAreOthers DEF FailAppend
<1>3. lane[k].stage \notin Settled
  BY <1>1, HeadOp DEF FailAppend, AskedAt, Settled
<1>4. failures' \in 0..MaxFailures
  <2>1. failures \in 0..MaxFailures
    BY DEF LaneInv, TypeOK
  <2>2. failures < MaxFailures /\ failures' = failures + 1
    BY DEF FailAppend
  <2> QED BY <2>1, <2>2, BoundsAssumption
<1>5. \E to \in Stage :
        /\ lane' = [lane EXCEPT ![k].stage = to]
        /\ \/ ops' = Tail(ops)
           \/ \E t \in EventType \ {"turn/interrupted"} :
                ops' = Append(Tail(ops), Op(t, k)) /\ to = AskedAt(t)
  <2>1. "settled" \in Stage /\ "catching" \in Stage /\ "ended" \in Stage
    BY DEF Stage, Running, Settled
  <2>2. \E t \in EventType \ {"turn/interrupted"} : CatchOp(k) = Op(t, k) /\ "catching" = AskedAt(t)
    BY CaughtType
  <2>3. \/ lane' = [lane EXCEPT ![k].stage = "settled"] /\ ops' = Tail(ops)
        \/ lane' = [lane EXCEPT ![k].stage = "catching"] /\ ops' = Append(Tail(ops), CatchOp(k))
        \/ lane' = [lane EXCEPT ![k].stage = "ended"] /\ ops' = Tail(ops)
    BY <1>1, Zenon DEF FailAppend
  <2>4. CASE lane' = [lane EXCEPT ![k].stage = "settled"] /\ ops' = Tail(ops)
    BY <2>1, <2>4
  <2>5. CASE lane' = [lane EXCEPT ![k].stage = "catching"] /\ ops' = Append(Tail(ops), CatchOp(k))
    <3>1. \E t \in EventType \ {"turn/interrupted"} :
            ops' = Append(Tail(ops), Op(t, k)) /\ "catching" = AskedAt(t)
      BY <2>2, <2>5
    <3> QED BY <2>1, <2>5, <3>1
  <2>6. CASE lane' = [lane EXCEPT ![k].stage = "ended"] /\ ops' = Tail(ops)
    BY <2>1, <2>6
  <2> QED BY <2>3, <2>4, <2>5, <2>6
<1> QED BY <1>2, <1>3, <1>4, <1>5, EntryGoesOn DEF FailAppend

LEMMA OpsTyped ==
  ASSUME TypeOK
  PROVE  /\ ops \in Seq(Append1) /\ Len(ops) \in Nat
         /\ \A n \in 1..Len(ops) : ops[n].turn \in 1..Len(lane) /\ ops[n].type \in EventType
<1>1. ops \in Seq(Append1) /\ Len(ops) \in Nat
  BY LenProperties DEF TypeOK, Append1
<1>2. ASSUME NEW n \in 1..Len(ops) PROVE ops[n].turn \in 1..Len(lane) /\ ops[n].type \in EventType
  <2>1. ops[n] \in Append1
    BY <1>1, ElementOfSeq
  <2> QED BY <2>1 DEF Append1
<1> QED BY <1>1, <1>2

LEMMA EventTyped ==
  ASSUME TypeOK
  PROVE  /\ journal \in Seq(Event) /\ Len(journal) \in Nat
         /\ \A n \in 1..Len(journal) : /\ journal[n] \in Event
                                       /\ journal[n].type \in EventType
                                       /\ journal[n].input \in 1..MaxInputs
<1>1. journal \in Seq(Event) /\ Len(journal) \in Nat
  BY LenProperties DEF TypeOK
<1>2. ASSUME NEW n \in 1..Len(journal)
      PROVE  /\ journal[n] \in Event /\ journal[n].type \in EventType
             /\ journal[n].input \in 1..MaxInputs
  <2>1. journal[n] \in Event
    BY <1>1, ElementOfSeq
  <2> QED BY <2>1 DEF Event
<1> QED BY <1>1, <1>2

\* The chain of appends stays as it is while the lane grows.
LEMMA OpsWiden ==
  ASSUME LaneInv, Len(lane') \in Nat, Len(lane) <= Len(lane'),
         \A j \in 1..Len(lane) : lane'[j].stage = lane[j].stage
  PROVE  /\ ops \in Seq([type : EventType, turn : 1..Len(lane')])
         /\ ops' = ops => OpsAwaited'
<1>1. /\ ops \in Seq(Append1) /\ Len(ops) \in Nat
      /\ \A n \in 1..Len(ops) : ops[n].turn \in 1..Len(lane) /\ ops[n].type \in EventType
  BY OpsTyped DEF LaneInv
<1> DEFINE W == [type : EventType, turn : 1..Len(lane')]
<1>2. Len(lane) \in Nat
  BY LenProperties DEF LaneInv, TypeOK
<1>3. ASSUME NEW x \in Append1 PROVE x \in W
  BY <1>2, <1>3 DEF Append1
<1>4. ops \in Seq(W)
  <2>1. ops \in [1..Len(ops) -> Append1]
    BY <1>1, LenProperties
  <2>2. ops \in [1..Len(ops) -> W]
    <3> HIDE DEF W
    <3> QED BY <2>1, <1>3
  <2> HIDE DEF W
  <2> QED BY <1>1, <2>2, LenProperties
<1>5. ops' = ops => OpsAwaited'
  BY <1>1 DEF LaneInv, OpsAwaited, AskedAt
<1> QED BY <1>4, <1>5

LEMMA LaneSend ==
  ASSUME LaneInv, Send
  PROVE  LaneInv'
<1>1. TypeOK
  BY DEF LaneInv
<1>2. /\ lane' \in Seq(LaneEntry) /\ Len(lane') = Len(lane) + 1
      /\ \A j \in 1..Len(lane) : lane'[j] = lane[j]
      /\ lane'[Len(lane) + 1].input = sent + 1
      /\ lane'[Len(lane) + 1].stage = "accepting"
  BY <1>1, SentEntry
<1>3. Len(lane) \in Nat /\ Len(lane) < MaxEntries /\ sent \in Nat /\ sent' = sent + 1
      /\ sent < MaxInputs
  BY <1>1, LenProperties DEF TypeOK, Send
<1> DEFINE N == Len(lane) + 1
<1>4. PICK x \in [type : EventType, turn : 1..Len(lane')] : x = Op("input/accepted", N)
  <2>1. N \in 1..Len(lane')
    BY <1>2, <1>3
  <2> QED BY <2>1 DEF Op, EventType
<1>5. x.type = "input/accepted" /\ x.turn = N
  BY <1>4 DEF Op
<1>6. /\ ops \in Seq([type : EventType, turn : 1..Len(lane')]) /\ Len(ops) \in Nat
      /\ \A n \in 1..Len(ops) : ops[n].turn \in 1..Len(lane)
  BY <1>1, <1>2, <1>3, OpsWiden, OpsTyped
<1>7. /\ ops' \in Seq([type : EventType, turn : 1..Len(lane')]) /\ Len(ops') = Len(ops) + 1
      /\ \A n \in 1..Len(ops) : ops'[n] = ops[n]
      /\ ops'[Len(ops) + 1] = x
  BY <1>4, <1>6, AppendProperties DEF Send
<1>8. \A n \in 1..Len(ops') : n \in 1..Len(ops) \/ n = Len(ops) + 1
  BY <1>6, <1>7
<1>9. ASSUME NEW n \in 1..Len(ops)
      PROVE  /\ ops'[n].turn # N /\ ops'[n].type # "turn/interrupted"
             /\ lane'[ops'[n].turn].stage = AskedAt(ops'[n].type)
  <2>1. ops'[n] = ops[n] /\ ops[n].turn \in 1..Len(lane)
    BY <1>6, <1>7
  <2>2. ops[n].type # "turn/interrupted" /\ lane[ops[n].turn].stage = AskedAt(ops[n].type)
    BY DEF LaneInv, OpsAwaited
  <2> QED BY <1>2, <1>3, <2>1, <2>2
<1>10. AskedAt(x.type) = "accepting"
  BY <1>5 DEF AskedAt, TryEnd
<1>11. OpsAwaited'
  <2>1. \A n \in 1..Len(ops') : /\ ops'[n].type # "turn/interrupted"
                                /\ lane'[ops'[n].turn].stage = AskedAt(ops'[n].type)
    BY <1>2, <1>5, <1>7, <1>8, <1>9, <1>10
  <2>2. \A n, m \in 1..Len(ops') : ops'[n].turn = ops'[m].turn => n = m
    BY <1>5, <1>6, <1>7, <1>8, <1>9 DEF LaneInv, OpsAwaited
  <2> QED BY <2>1, <2>2 DEF OpsAwaited, AskedAt
<1>12. sent' \in 0..MaxInputs
  BY <1>3, BoundsAssumption
<1>13. Len(lane') <= MaxEntries /\ Len(lane) <= Len(lane') /\ Len(lane') \in Nat
  BY <1>2, <1>3, BoundsAssumption
<1>14. TypeOK'
  <2>1. activeTurn' \in 0..Len(lane') /\ stopWait' \in 0..Len(lane')
    BY <1>1, <1>3, <1>13 DEF TypeOK, Send
  <2> QED BY <1>1, <1>2, <1>7, <1>12, <1>13, <2>1 DEF TypeOK, LaneEntry, Send, resumption
<1>15. OnlySent'
  <2>1. \A k \in 1..Len(lane') : k \in 1..Len(lane) \/ k = N
    BY <1>2, <1>3
  <2>2. ASSUME NEW k \in 1..Len(lane') PROVE lane'[k].input <= sent'
    <3>1. CASE k \in 1..Len(lane)
      <4>1. lane[k].input <= sent /\ lane[k].input \in Nat
        BY <1>1, <3>1, EntryType DEF LaneInv, OnlySent
      <4> QED BY <1>2, <1>3, <3>1, <4>1
    <3> QED BY <1>2, <1>3, <2>1, <3>1
  <2>3. ASSUME NEW n \in 1..Len(journal) PROVE journal[n].input <= sent'
    <3>1. journal[n].input <= sent /\ journal[n].input \in Nat
      BY <1>1, EventTyped, BoundsAssumption DEF LaneInv, OnlySent
    <3> QED BY <1>3, <3>1
  <2>4. ASSUME NEW n \in 1..Len(reading) PROVE reading[n] <= sent'
    <3>1. reading \in Seq(1..MaxInputs)
      BY <1>1 DEF TypeOK
    <3>2. reading[n] \in 1..MaxInputs
      BY <3>1, ElementOfSeq
    <3>3. reading[n] <= sent
      BY DEF LaneInv, OnlySent
    <3> QED BY <1>3, <3>2, <3>3, BoundsAssumption
  <2> QED BY <2>2, <2>3, <2>4 DEF OnlySent, Send, resumption
<1>16. open'
  BY DEF Send
<1> QED BY <1>11, <1>14, <1>15, <1>16 DEF LaneInv, GoneIdle

LEMMA IsSequence ==
  ASSUME NEW S, NEW n \in Nat, NEW r \in [1..n -> S]
  PROVE  r \in Seq(S) /\ Len(r) = n
BY LenProperties

\* What a resumption reads: the Input of each pending position, once.
LEMMA ReadEntries ==
  ASSUME TypeOK, ReadPending
  PROVE  /\ reading' \in Seq(1..MaxInputs) /\ Len(reading') \in Nat
         /\ \E at \in [1..Len(reading') -> PendingInputs] :
              /\ \A n \in 1..Len(reading') : reading'[n] = journal[at[n]].input
              /\ \A a, b \in 1..Len(reading') : at[a] = at[b] => a = b
<1> DEFINE c == Cardinality(PendingInputs)
<1>1. c \in Nat
  <2>1. IsFiniteSet(1..Len(journal))
    BY EventTyped, FS_Interval
  <2> QED BY <2>1, FS_Subset, FS_CardinalityType DEF PendingInputs
<1>2. PICK at \in Ascending(PendingInputs) : reading' = [n \in 1..c |-> journal[at[n]].input]
  BY DEF ReadPending
<1>3. at \in [1..c -> PendingInputs] /\ \A a, b \in 1..c : a < b => at[a] < at[b]
  BY <1>2 DEF Ascending
<1> HIDE DEF c
<1>4. ASSUME NEW n \in 1..c
      PROVE  at[n] \in 1..Len(journal) /\ journal[at[n]].input \in 1..MaxInputs
  <2>1. at[n] \in PendingInputs
    BY <1>3
  <2>2. at[n] \in 1..Len(journal)
    BY <2>1 DEF PendingInputs
  <2> QED BY <2>2, EventTyped
<1>5. reading' \in [1..c -> 1..MaxInputs]
  BY <1>2, <1>4
<1>6. reading' \in Seq(1..MaxInputs) /\ Len(reading') = c
  BY <1>1, <1>5, IsSequence
<1>7. ASSUME NEW a \in 1..c, NEW b \in 1..c, at[a] = at[b] PROVE a = b
  <2>1. at[a] \in Nat /\ a \in Nat /\ b \in Nat
    BY <1>1, <1>4, EventTyped
  <2> QED BY <1>3, <1>7, <2>1
<1>8. \A n \in 1..c : reading'[n] = journal[at[n]].input
  BY <1>2
<1>9. c = Len(reading') /\ Len(reading') \in Nat
  BY <1>1, <1>6
<1> QED BY <1>3, <1>6, <1>7, <1>8, <1>9

LEMMA LaneRead ==
  ASSUME LaneInv, ReadPending
  PROVE  LaneInv'
<1>1. TypeOK
  BY DEF LaneInv
<1>2. /\ reading' \in Seq(1..MaxInputs)
      /\ \E at \in [1..Len(reading') -> PendingInputs] :
           \A n \in 1..Len(reading') : reading'[n] = journal[at[n]].input
  BY <1>1, ReadEntries
<1>3. ASSUME NEW n \in 1..Len(reading') PROVE reading'[n] <= sent
  <2>1. PICK p \in PendingInputs : reading'[n] = journal[p].input
    BY <1>2
  <2> QED BY <2>1 DEF PendingInputs, LaneInv, OnlySent
<1>4. TypeOK'
  BY <1>1, <1>2 DEF TypeOK, ReadPending
<1>5. OnlySent'
  BY <1>3 DEF LaneInv, OnlySent, ReadPending
<1>6. OpsAwaited' /\ open'
  BY DEF LaneInv, OpsAwaited, ReadPending, AskedAt
<1> QED BY <1>4, <1>5, <1>6 DEF LaneInv, GoneIdle

LEMMA LaneResume ==
  ASSUME LaneInv, Resume
  PROVE  LaneInv'
<1>1. TypeOK
  BY DEF LaneInv
<1>2. PICK at \in [1..(Len(lane') - Len(lane)) -> 1..Len(reading)] :
        /\ lane' \in Seq(LaneEntry)
        /\ Len(lane) \in Nat /\ Len(lane') \in Nat
        /\ Len(lane) <= Len(lane') /\ Len(lane') <= MaxEntries
        /\ \A j \in 1..Len(lane) : lane'[j] = lane[j]
        /\ \A k \in 1..Len(lane') : k > Len(lane) =>
             /\ lane'[k].input = reading[at[k - Len(lane)]]
             /\ lane'[k].stage = "queued"
  BY <1>1, ResumedEntries
<1>3. /\ ops \in Seq([type : EventType, turn : 1..Len(lane')]) /\ OpsAwaited'
  BY <1>2, OpsWiden DEF Resume
<1>4. reading \in Seq(1..MaxInputs) /\ \A n \in 1..Len(reading) : reading[n] \in 1..MaxInputs
  BY <1>1, ElementOfSeq DEF TypeOK
<1>5. outrun' \subseteq 1..MaxInputs
  BY <1>1, <1>4 DEF TypeOK, Resume
<1>6. /\ reading' = <<>> /\ <<>> \in Seq(1..MaxInputs) /\ Len(<<>>) = 0
      /\ UNCHANGED <<journal, ops, activeTurn, stopping, stopWait, stopped, open, sent,
                     crashes, failures>>
  BY EmptySeq DEF Resume
<1>7. TypeOK'
  <2>1. activeTurn' \in 0..Len(lane') /\ stopWait' \in 0..Len(lane')
    BY <1>1, <1>2, <1>6 DEF TypeOK
  <2> QED BY <1>1, <1>2, <1>3, <1>5, <1>6, <2>1 DEF TypeOK, LaneEntry
<1>8. ASSUME NEW k \in 1..Len(lane') PROVE lane'[k].input <= sent
  <2>1. CASE k <= Len(lane)
    <3>1. k \in 1..Len(lane)
      BY <1>2, <2>1
    <3> QED BY <1>2, <3>1 DEF LaneInv, OnlySent
  <2>2. CASE k > Len(lane)
    <3>1. k - Len(lane) \in 1..(Len(lane') - Len(lane))
      BY <1>2, <2>2
    <3>2. at[k - Len(lane)] \in 1..Len(reading)
      BY <1>2, <3>1
    <3> QED BY <1>2, <2>2, <3>2 DEF LaneInv, OnlySent
  <2> QED BY <1>2, <2>1, <2>2
<1>9. OnlySent'
  <2>1. \A n \in 1..Len(journal) : journal[n].input <= sent
    BY DEF LaneInv, OnlySent
  <2>2. \A n \in 1..Len(reading') : reading'[n] <= sent
    BY <1>6
  <2> QED BY <1>6, <1>8, <2>1, <2>2 DEF OnlySent
<1>10. GoneIdle'
  <2>1. ASSUME ~open PROVE FALSE
    BY <2>1 DEF LaneInv, GoneIdle, Resume
  <2> QED BY <1>6, <2>1 DEF GoneIdle
<1> QED BY <1>3, <1>7, <1>9, <1>10 DEF LaneInv

\* The signal of one entry is aborted.
LEMMA LaneCancel ==
  ASSUME LaneInv, lane' = Cancelled(activeTurn), open', stopping' \in BOOLEAN,
         stopWait' \in 0..Len(lane),
         UNCHANGED <<journal, ops, activeTurn, stopped, sent, crashes, failures, resumption>>
  PROVE  LaneInv'
<1>1. TypeOK
  BY DEF LaneInv
<1>2. /\ lane' \in Seq(LaneEntry) /\ Len(lane') = Len(lane)
      /\ \A j \in 1..Len(lane) : /\ lane'[j].input = lane[j].input
                                 /\ lane'[j].stage = lane[j].stage
  BY <1>1, CancelKeeps
<1>3. Len(lane) \in Nat /\ Len(lane) <= Len(lane')
  BY <1>1, <1>2, LenProperties DEF TypeOK
<1>4. OpsAwaited'
  BY <1>2, <1>3, OpsWiden
<1>5. TypeOK'
  BY <1>1, <1>2 DEF TypeOK, LaneEntry, resumption
<1>6. OnlySent'
  BY <1>2 DEF LaneInv, OnlySent, resumption
<1> QED BY <1>4, <1>5, <1>6 DEF LaneInv, GoneIdle

LEMMA LaneStops ==
  ASSUME LaneInv, Cancel \/ Shutdown
  PROVE  LaneInv'
<1>1. Len(lane) \in Nat /\ stopping \in BOOLEAN /\ stopWait \in 0..Len(lane)
  BY LenProperties DEF LaneInv, TypeOK
<1>2. CASE Cancel
  BY <1>1, <1>2, LaneCancel DEF Cancel
<1>3. CASE Shutdown
  BY <1>1, <1>3, LaneCancel DEF Shutdown
<1> QED BY <1>2, <1>3

\* The end of a process: the append in progress is recorded or it is not.
LEMMA CrashedRecord ==
  ASSUME LaneInv, Crash
  PROVE  \/ journal' = journal
         \/ /\ ops # <<>> /\ journal' = Append(journal, EventOf(Head(ops)))
            /\ EventOf(Head(ops)) \in Event
  BY HeadEvent DEF Crash

LEMMA LaneCrash ==
  ASSUME LaneInv, Crash
  PROVE  LaneInv'
<1>1. TypeOK
  BY DEF LaneInv
<1>2. /\ lane' \in Seq(LaneEntry) /\ Len(lane') = Len(lane) /\ Len(lane) \in Nat
      /\ \A j \in 1..Len(lane) :
           /\ lane'[j].input = lane[j].input
           /\ lane'[j].stage = IF lane[j].stage \in Settled THEN lane[j].stage ELSE "lost"
  BY <1>1, CrashedEntries, LenProperties DEF TypeOK
<1>3. journal' \in Seq(Event) /\ \A n \in 1..Len(journal') : journal'[n].input <= sent
  <2>1. CASE journal' = journal
    BY <1>1, <2>1 DEF LaneInv, OnlySent, TypeOK
  <2>2. CASE journal' # journal
    <3>1. PICK e \in Event : journal' = Append(journal, e) /\ e = EventOf(Head(ops))
      BY <2>2, CrashedRecord
    <3>2. e.input <= sent
      BY <2>2, <3>1, HeadOp, HeadEvent, CrashedRecord DEF LaneInv, OnlySent
    <3>3. /\ journal' \in Seq(Event) /\ Len(journal) \in Nat
          /\ Len(journal') = Len(journal) + 1
          /\ \A n \in 1..Len(journal) : journal'[n] = journal[n]
          /\ journal'[Len(journal) + 1] = e
      BY <1>1, <3>1, Recorded
    <3>4. \A n \in 1..Len(journal') : n \in 1..Len(journal) \/ n = Len(journal) + 1
      BY <3>3
    <3> QED BY <3>2, <3>3, <3>4 DEF LaneInv, OnlySent
  <2> QED BY <2>1, <2>2
<1>4. /\ ops' = <<>> /\ reading' = <<>> /\ activeTurn' = 0 /\ stopping' = FALSE
      /\ stopWait' = 0 /\ stopped' = FALSE /\ open' = FALSE
      /\ UNCHANGED <<sent, outrun, failures>>
  BY DEF Crash
<1>5. <<>> \in Seq(1..MaxInputs) /\ <<>> \in Seq([type : EventType, turn : 1..Len(lane')])
      /\ Len(<<>>) = 0
  BY EmptySeq
<1>6. crashes' \in 0..MaxCrashes
  <2>1. crashes \in 0..MaxCrashes
    BY <1>1 DEF TypeOK
  <2>2. crashes < MaxCrashes /\ crashes' = crashes + 1
    BY DEF Crash
  <2> QED BY <2>1, <2>2, BoundsAssumption
<1>7. TypeOK'
  <2>1. lane' \in Seq(LaneEntry) /\ Len(lane') <= MaxEntries
    BY <1>1, <1>2 DEF TypeOK
  <2>2. /\ ops' \in Seq([type : EventType, turn : 1..Len(lane')])
        /\ reading' \in Seq(1..MaxInputs)
    BY <1>4, <1>5
  <2>3. activeTurn' \in 0..Len(lane') /\ stopWait' \in 0..Len(lane')
    BY <1>2, <1>4
  <2>4. /\ {stopping', stopped', open'} \subseteq BOOLEAN /\ sent' \in 0..MaxInputs
        /\ outrun' \subseteq 1..MaxInputs /\ failures' \in 0..MaxFailures
    BY <1>1, <1>4 DEF TypeOK
  <2> QED BY <1>3, <1>6, <2>1, <2>2, <2>3, <2>4 DEF TypeOK, LaneEntry
<1>8. OpsAwaited' /\ OnlySent'
  <2>1. Len(ops') = 0 /\ Len(reading') = 0
    BY <1>4, <1>5
  <2>2. \A k \in 1..Len(lane) : lane[k].input <= sent
    BY DEF LaneInv, OnlySent
  <2>3. OpsAwaited'
    BY <2>1 DEF OpsAwaited
  <2> QED BY <1>2, <1>3, <1>4, <2>1, <2>2, <2>3 DEF OnlySent
<1>9. GoneIdle'
  BY <1>2, <1>4 DEF GoneIdle, Settled
<1> QED BY <1>7, <1>8, <1>9 DEF LaneInv

\* The end of the latest Turn that open() records.
LEMMA OpenedRecord ==
  ASSUME LaneInv, Open
  PROVE  \/ ~LatestTurnActive /\ journal' = journal
         \/ \E e \in Event : \E n \in LatestTurn :
              /\ journal' = Append(journal, e) /\ n \in 1..Len(journal)
              /\ e.type = "turn/interrupted" /\ e.turn = journal[n].turn
              /\ e.input = journal[n].input
<1>1. SUFFICES ASSUME LatestTurnActive
               PROVE  \E e \in Event : \E n \in LatestTurn :
                        /\ journal' = Append(journal, e) /\ n \in 1..Len(journal)
                        /\ e.type = "turn/interrupted" /\ e.turn = journal[n].turn
                        /\ e.input = journal[n].input
  BY DEF Open
<1>2. PICK n \in LatestTurn :
        journal' = Append(journal, [journal[n] EXCEPT !.type = "turn/interrupted"])
  BY <1>1 DEF Open
<1>3. n \in 1..Len(journal) /\ Len(journal) \in Nat /\ journal[n] \in Event
  <2>1. Len(journal) \in Nat
    BY EventTyped DEF LaneInv
  <2>2. n \in 1..Len(journal)
    BY <1>2, <2>1 DEF LatestTurn, TurnEventBefore
  <2> QED BY <2>1, <2>2, EventTyped DEF LaneInv
<1>4. PICK e \in Event : e = [journal[n] EXCEPT !.type = "turn/interrupted"]
  BY <1>3 DEF Event, EventType, Terminal
<1>5. /\ e.type = "turn/interrupted" /\ e.turn = journal[n].turn
      /\ e.input = journal[n].input
  BY <1>3, <1>4 DEF Event
<1> QED BY <1>2, <1>3, <1>4, <1>5

LEMMA LaneOpen ==
  ASSUME LaneInv, Open
  PROVE  LaneInv'
<1>1. TypeOK
  BY DEF LaneInv
<1>2. journal' \in Seq(Event) /\ \A n \in 1..Len(journal') : journal'[n].input <= sent
  <2>1. CASE journal' = journal
    BY <1>1, <2>1 DEF LaneInv, OnlySent, TypeOK
  <2>2. CASE journal' # journal
    <3>1. PICK e \in Event : \E n \in LatestTurn :
            /\ journal' = Append(journal, e) /\ n \in 1..Len(journal)
            /\ e.input = journal[n].input
      BY <2>2, OpenedRecord
    <3>2. e.input <= sent
      BY <3>1 DEF LaneInv, OnlySent
    <3>3. /\ journal' \in Seq(Event) /\ Len(journal) \in Nat
          /\ Len(journal') = Len(journal) + 1
          /\ \A n \in 1..Len(journal) : journal'[n] = journal[n]
          /\ journal'[Len(journal) + 1] = e
      BY <1>1, <3>1, Recorded
    <3>4. \A n \in 1..Len(journal') : n \in 1..Len(journal) \/ n = Len(journal) + 1
      BY <3>3
    <3> QED BY <3>2, <3>3, <3>4 DEF LaneInv, OnlySent
  <2> QED BY <2>1, <2>2
<1>3. TypeOK'
  BY <1>1, <1>2 DEF TypeOK, Open, resumption
<1>4. OpsAwaited' /\ GoneIdle'
  BY DEF LaneInv, OpsAwaited, GoneIdle, Open, resumption, AskedAt
<1>5. OnlySent'
  BY <1>2 DEF LaneInv, OnlySent, Open, resumption
<1> QED BY <1>3, <1>4, <1>5 DEF LaneInv

LEMMA LaneInit == Init => LaneInv
<1> SUFFICES ASSUME Init PROVE LaneInv
  OBVIOUS
<1>1. /\ journal = <<>> /\ lane = <<>> /\ ops = <<>> /\ reading = <<>>
      /\ Len(<<>>) = 0 /\ <<>> \in Seq(1..MaxInputs) /\ <<>> \in Seq(Event)
      /\ <<>> \in Seq(LaneEntry) /\ <<>> \in Seq([type : EventType, turn : 1..0])
  BY EmptySeq DEF Init
<1>2. TypeOK
  <2>1. /\ journal \in Seq(Event) /\ lane \in Seq(LaneEntry) /\ Len(lane) = 0
        /\ ops \in Seq([type : EventType, turn : 1..Len(lane)])
        /\ reading \in Seq(1..MaxInputs)
    BY <1>1
  <2>2. /\ Len(lane) <= MaxEntries /\ activeTurn \in 0..Len(lane)
        /\ stopWait \in 0..Len(lane) /\ {stopping, stopped, open} \subseteq BOOLEAN
        /\ sent \in 0..MaxInputs /\ outrun \subseteq 1..MaxInputs
        /\ crashes \in 0..MaxCrashes /\ failures \in 0..MaxFailures
    <3>1. /\ 0 \in 0..MaxInputs /\ 0 \in 0..MaxCrashes /\ 0 \in 0..MaxFailures
          /\ 0 <= MaxEntries /\ 0 \in 0..0
      BY BoundsAssumption
    <3>2. /\ activeTurn = 0 /\ stopWait = 0 /\ sent = 0 /\ crashes = 0 /\ failures = 0
          /\ outrun = {} /\ stopping = FALSE /\ stopped = FALSE /\ open = TRUE
      BY DEF Init
    <3> QED BY <2>1, <3>1, <3>2
  <2> QED BY <2>1, <2>2 DEF TypeOK, LaneEntry
<1> QED BY <1>1, <1>2 DEF Init, LaneInv, OpsAwaited, GoneIdle, OnlySent

LEMMA LaneStep == LaneInv /\ [Next]_vars => LaneInv'
<1> SUFFICES ASSUME LaneInv, [Next]_vars PROVE LaneInv'
  OBVIOUS
<1>1. CASE UNCHANGED vars
  BY <1>1 DEF vars, LaneInv, TypeOK, OpsAwaited, GoneIdle, OnlySent, AskedAt
<1>2. CASE ShutdownReturns
  BY <1>2 DEF ShutdownReturns, resumption, LaneInv, TypeOK, OpsAwaited, GoneIdle, OnlySent, AskedAt
<1> QED BY <1>1, <1>2, LaneSend, LaneRead, LaneResume, LaneEntryStep, LaneCommit,
           LaneFailAppend, LaneStops, LaneCrash, LaneOpen DEF Next

\* Of every reachable state: TypeOK.
THEOREM LaneTypes == Spec => []TypeOK
<1>1. LaneInv => TypeOK
  BY DEF LaneInv
<1> QED BY LaneInit, LaneStep, <1>1, PTL DEF Spec

-----------------------------------------------------------------------------
(* What each step does to one entry and to the record, for the invariants  *)
(* below.                                                                  *)

\* Entry k goes to stage `to` and no other entry changes.
Moves(k, to) ==
  /\ Len(lane') = Len(lane)
  /\ \A j \in 1..Len(lane) : /\ lane'[j].input = lane[j].input
                             /\ lane'[j].stage = IF j = k THEN to ELSE lane[j].stage

\* e is the event entry k awaits.
Asked(k, e) ==
  /\ e.turn = k /\ e.input = lane[k].input
  /\ \/ e.type = "input/accepted" /\ lane[k].stage = "accepting"
     \/ e.type = "turn/started" /\ lane[k].stage = "starting"
     \/ e.type \in TryEnd \cup CatchEnd /\ lane[k].stage \in {"ending", "catching"}

LEMMA EntryMoves ==
  ASSUME LaneInv, NEW k \in 1..Len(lane), EntryStep(k)
  PROVE  /\ UNCHANGED <<journal, open, sent, failures, resumption>>
         /\ \/ Moves(k, "stopped") /\ Refuse(k)
            \/ Moves(k, "starting") /\ Execute(k)
            \/ /\ lane[k].stage = "working" /\ UNCHANGED activeTurn
               /\ Moves(k, "ending") \/ Moves(k, "catching")
            \/ Moves(k, "settled") /\ Settle(k)
<1>1. TypeOK
  BY DEF LaneInv
<1>2. {"stopped", "starting", "ending", "catching", "settled"} \subseteq Stage
  BY DEF Stage, Running, Settled
<1>3. \A to \in Stage : lane' = [lane EXCEPT ![k].stage = to] => Moves(k, to)
  BY <1>1, StageMoves DEF Moves
<1>4. CASE Refuse(k)
  BY <1>2, <1>3, <1>4 DEF Refuse
<1>5. CASE Execute(k)
  BY <1>2, <1>3, <1>5 DEF Execute
<1>6. CASE Finish(k)
  BY <1>2, <1>3, <1>6 DEF Finish
<1>7. CASE Throw(k)
  BY <1>2, <1>3, <1>7 DEF Throw
<1>8. CASE Settle(k)
  BY <1>2, <1>3, <1>8 DEF Settle
<1> QED BY <1>4, <1>5, <1>6, <1>7, <1>8 DEF EntryStep

LEMMA HeadAsked ==
  ASSUME LaneInv, ops # <<>>
  PROVE  /\ open /\ Head(ops).turn \in 1..Len(lane) /\ EventOf(Head(ops)) \in Event
         /\ Asked(Head(ops).turn, EventOf(Head(ops)))
<1>1. open
  BY DEF LaneInv, GoneIdle
<1>2. /\ Head(ops).turn \in 1..Len(lane)
      /\ Head(ops).type \in EventType \ {"turn/interrupted"}
      /\ lane[Head(ops).turn].stage = AskedAt(Head(ops).type)
  BY HeadOp
<1>3. /\ EventOf(Head(ops)) \in Event
      /\ EventOf(Head(ops)).type = Head(ops).type
      /\ EventOf(Head(ops)).turn = Head(ops).turn
      /\ EventOf(Head(ops)).input = lane[Head(ops).turn].input
  BY HeadEvent
<1>4. \/ Head(ops).type = "input/accepted" /\ AskedAt(Head(ops).type) = "accepting"
      \/ Head(ops).type = "turn/started" /\ AskedAt(Head(ops).type) = "starting"
      \/ /\ Head(ops).type \in TryEnd \cup CatchEnd
         /\ AskedAt(Head(ops).type) \in {"ending", "catching"}
  BY <1>2 DEF AskedAt, EventType, Terminal, TryEnd, CatchEnd
<1> QED BY <1>1, <1>2, <1>3, <1>4 DEF Asked

LEMMA CommitMoves ==
  ASSUME LaneInv, Commit
  PROVE  /\ open /\ UNCHANGED <<activeTurn, open, sent, failures, resumption>>
         /\ \E k \in 1..Len(lane) : \E e \in Event :
              /\ Asked(k, e)
              /\ journal' = Append(journal, e)
              /\ Moves(k, AfterCommit(e.type))
<1>1. TypeOK
  BY DEF LaneInv
<1>2. /\ open /\ Head(ops).turn \in 1..Len(lane) /\ EventOf(Head(ops)) \in Event
      /\ Asked(Head(ops).turn, EventOf(Head(ops)))
      /\ EventOf(Head(ops)).type = Head(ops).type
  BY HeadAsked, HeadEvent DEF Commit
<1>3. AfterCommit(Head(ops).type) \in Stage
  BY DEF AfterCommit, Stage, Running
<1>4. /\ lane' = [lane EXCEPT ![Head(ops).turn].stage = AfterCommit(Head(ops).type)]
      /\ journal' = Append(journal, EventOf(Head(ops)))
      /\ UNCHANGED <<activeTurn, open, sent, failures, resumption>>
  BY DEF Commit
<1>5. Moves(Head(ops).turn, AfterCommit(Head(ops).type))
  <2>1. PICK k \in 1..Len(lane) : k = Head(ops).turn
    BY <1>2
  <2>2. PICK to \in Stage : to = AfterCommit(Head(ops).type)
    BY <1>3
  <2>3. lane' = [lane EXCEPT ![k].stage = to]
    BY <1>4, <2>1, <2>2
  <2> QED BY <1>1, <2>1, <2>2, <2>3, StageMoves DEF Moves
<1> QED BY <1>2, <1>4, <1>5

LEMMA FailMoves ==
  ASSUME LaneInv, FailAppend
  PROVE  /\ failures' # 0 /\ UNCHANGED <<journal, activeTurn, open, sent, resumption>>
         /\ \E k \in 1..Len(lane) :
              \/ lane[k].stage = "accepting" /\ Moves(k, "settled")
              \/ lane[k].stage \in {"starting", "ending", "catching"} /\
                   (Moves(k, "catching") \/ Moves(k, "ended"))
<1>1. TypeOK
  BY DEF LaneInv
<1>2. PICK k \in 1..Len(lane) : k = Head(ops).turn
  BY HeadOp DEF FailAppend
<1>3. /\ Head(ops).type \in EventType \ {"turn/interrupted"}
      /\ lane[k].stage = AskedAt(Head(ops).type)
  BY <1>2, HeadOp DEF FailAppend
<1>4. failures' # 0
  <2>1. failures \in 0..MaxFailures /\ failures' = failures + 1
    BY <1>1 DEF TypeOK, FailAppend
  <2> QED BY <2>1, BoundsAssumption
<1>5. {"settled", "catching", "ended"} \subseteq Stage
  BY DEF Stage, Running, Settled
<1>6. \A to \in Stage : lane' = [lane EXCEPT ![k].stage = to] => Moves(k, to)
  BY <1>1, StageMoves DEF Moves
<1>7. \/ Head(ops).type = "input/accepted" /\ lane' = [lane EXCEPT ![k].stage = "settled"]
      \/ /\ Head(ops).type \in TryEnd \cup {"turn/started"}
         /\ lane' = [lane EXCEPT ![k].stage = "catching"]
      \/ Head(ops).type \in CatchEnd /\ lane' = [lane EXCEPT ![k].stage = "ended"]
  BY <1>2 DEF FailAppend
<1>8. \/ lane[k].stage = "accepting" /\ lane' = [lane EXCEPT ![k].stage = "settled"]
      \/ /\ lane[k].stage \in {"starting", "ending", "catching"}
         /\ \/ lane' = [lane EXCEPT ![k].stage = "catching"]
            \/ lane' = [lane EXCEPT ![k].stage = "ended"]
  <2>1. Head(ops).type = "input/accepted" => AskedAt(Head(ops).type) = "accepting"
    BY DEF AskedAt, TryEnd
  <2>2. Head(ops).type # "input/accepted" =>
          AskedAt(Head(ops).type) \in {"starting", "ending", "catching"}
    BY <1>3 DEF AskedAt, EventType, Terminal, TryEnd, CatchEnd
  <2> QED BY <1>3, <1>7, <2>1, <2>2 DEF TryEnd, CatchEnd
<1>9. UNCHANGED <<journal, activeTurn, open, sent, resumption>>
  BY DEF FailAppend
<1> QED BY <1>4, <1>5, <1>6, <1>8, <1>9

LEMMA CrashMoves ==
  ASSUME LaneInv, Crash
  PROVE  /\ open /\ ~open' /\ reading' = <<>> /\ Len(reading') = 0
         /\ activeTurn' = 0 /\ Len(lane') = Len(lane)
         /\ UNCHANGED <<sent, outrun, failures>>
         /\ \A j \in 1..Len(lane) :
              /\ lane'[j].input = lane[j].input
              /\ lane'[j].stage = IF lane[j].stage \in Settled THEN lane[j].stage ELSE "lost"
         /\ \/ journal' = journal
            \/ \E k \in 1..Len(lane) : \E e \in Event :
                 Asked(k, e) /\ journal' = Append(journal, e)
<1>1. TypeOK
  BY DEF LaneInv
<1>2. /\ Len(lane') = Len(lane)
      /\ \A j \in 1..Len(lane) :
           /\ lane'[j].input = lane[j].input
           /\ lane'[j].stage = IF lane[j].stage \in Settled THEN lane[j].stage ELSE "lost"
  BY <1>1, CrashedEntries
<1>3. /\ open /\ ~open' /\ reading' = <<>> /\ activeTurn' = 0
      /\ UNCHANGED <<sent, outrun, failures>>
  BY DEF Crash
<1>4. Len(reading') = 0
  BY <1>3, EmptySeq
<1>5. \/ journal' = journal
      \/ \E k \in 1..Len(lane) : \E e \in Event : Asked(k, e) /\ journal' = Append(journal, e)
  BY CrashedRecord, HeadAsked
<1> QED BY <1>2, <1>3, <1>4, <1>5

\* The steps that leave the entries and the record as they are.
LEMMA QuietMoves ==
  ASSUME LaneInv, Cancel \/ Shutdown \/ ShutdownReturns \/ ReadPending \/ UNCHANGED vars
  PROVE  /\ UNCHANGED <<journal, activeTurn, open, sent, outrun, failures>>
         /\ ReadPending \/ UNCHANGED reading
         /\ Len(lane') = Len(lane)
         /\ \A j \in 1..Len(lane) : /\ lane'[j].input = lane[j].input
                                    /\ lane'[j].stage = lane[j].stage
<1>1. CASE Cancel \/ Shutdown
  <2>1. TypeOK /\ lane' = Cancelled(activeTurn)
    BY <1>1 DEF LaneInv, Cancel, Shutdown
  <2>2. /\ Len(lane') = Len(lane)
        /\ \A j \in 1..Len(lane) : /\ lane'[j].input = lane[j].input
                                   /\ lane'[j].stage = lane[j].stage
    BY <2>1, CancelKeeps
  <2> QED BY <1>1, <2>2 DEF Cancel, Shutdown, resumption
<1>2. CASE ShutdownReturns \/ ReadPending \/ UNCHANGED vars
  BY <1>2 DEF ShutdownReturns, ReadPending, vars, resumption
<1> QED BY <1>1, <1>2

LEMMA OpenMoves ==
  ASSUME LaneInv, Open
  PROVE  /\ ~open /\ open' /\ UNCHANGED <<lane, activeTurn, sent, failures, resumption>>
         /\ \A k \in 1..Len(lane) : lane[k].stage \in Settled
         /\ Len(reading) = 0
         /\ \/ ~LatestTurnActive /\ journal' = journal
            \/ \E e \in Event : \E n \in LatestTurn :
                 /\ journal' = Append(journal, e) /\ n \in 1..Len(journal)
                 /\ e.type = "turn/interrupted" /\ e.turn = journal[n].turn
                 /\ e.input = journal[n].input
<1>1. ~open /\ reading = <<>> /\ \A k \in 1..Len(lane) : lane[k].stage \in Settled
  BY DEF LaneInv, GoneIdle, Open
<1>2. Len(reading) = 0
  BY <1>1, EmptySeq
<1> QED BY <1>1, <1>2, OpenedRecord DEF Open

LEMMA SendMoves ==
  ASSUME LaneInv, Send
  PROVE  /\ open /\ UNCHANGED <<journal, activeTurn, open, failures, resumption>>
         /\ sent' = sent + 1 /\ sent \in Nat /\ Len(lane) \in Nat
         /\ Len(lane') = Len(lane) + 1
         /\ \A j \in 1..Len(lane) : lane'[j] = lane[j]
         /\ lane'[Len(lane) + 1].input = sent + 1
         /\ lane'[Len(lane) + 1].stage = "accepting"
<1>1. TypeOK
  BY DEF LaneInv
<1>2. /\ Len(lane') = Len(lane) + 1
      /\ \A j \in 1..Len(lane) : lane'[j] = lane[j]
      /\ lane'[Len(lane) + 1].input = sent + 1
      /\ lane'[Len(lane) + 1].stage = "accepting"
  BY <1>1, SentEntry
<1>3. sent \in Nat /\ Len(lane) \in Nat
  BY <1>1, LenProperties DEF TypeOK
<1> QED BY <1>2, <1>3 DEF Send

-----------------------------------------------------------------------------
(* The order of the lane.                                                  *)

\* No entry starts to run, stops running or is settled.
LEMMA OrderKept ==
  ASSUME InOrder, Len(lane) \in Nat, Len(lane) <= Len(lane'), Len(lane') \in Nat,
         activeTurn \in 0..Len(lane), activeTurn' = activeTurn, failures' = 0 => failures = 0,
         \A j \in 1..Len(lane) : /\ lane'[j].stage \in Running <=> lane[j].stage \in Running
                                 /\ lane'[j].stage \in Settled <=> lane[j].stage \in Settled,
         \A j \in 1..Len(lane') : j > Len(lane) => lane'[j].stage \notin Running \cup Settled
  PROVE  InOrder'
<1> SUFFICES ASSUME failures' = 0, NEW k \in 1..Len(lane')
             PROVE  /\ lane'[k].stage \in Running \cup Settled =>
                         \A j \in 1..(k - 1) : lane'[j].stage \in Settled
                    /\ lane'[k].stage \in Running <=> activeTurn = k
  BY DEF InOrder
<1>1. CASE k \in 1..Len(lane)
  <2>1. \A j \in 1..(k - 1) : j \in 1..Len(lane)
    BY <1>1
  <2> QED BY <1>1, <2>1 DEF InOrder
<1>2. CASE k \notin 1..Len(lane)
  BY <1>2
<1> QED BY <1>1, <1>2

LEMMA OrderStep ==
  ASSUME LaneInv, InOrder, [Next]_vars
  PROVE  InOrder'
<1>1. /\ Len(lane) \in Nat /\ activeTurn \in 0..Len(lane)
      /\ Len(lane) <= Len(lane)
  BY LenProperties DEF LaneInv, TypeOK
<1>2. CASE Send
  <2>1. /\ activeTurn' = activeTurn /\ failures' = failures
        /\ Len(lane') = Len(lane) + 1
        /\ \A j \in 1..Len(lane) : lane'[j] = lane[j]
        /\ lane'[Len(lane) + 1].stage = "accepting"
    BY <1>2, SendMoves
  <2>2. \A j \in 1..Len(lane') : j > Len(lane) => lane'[j].stage \notin Running \cup Settled
    BY <1>1, <2>1 DEF Running, Settled
  <2>3. Len(lane) <= Len(lane') /\ Len(lane') \in Nat
    BY <1>1, <2>1
  <2> QED BY <1>1, <2>1, <2>2, <2>3, OrderKept
<1>3. CASE Resume
  <2>1. /\ Len(lane) <= Len(lane') /\ Len(lane') \in Nat
        /\ \A j \in 1..Len(lane) : lane'[j] = lane[j]
        /\ \A j \in 1..Len(lane') : j > Len(lane) => lane'[j].stage = "queued"
    BY <1>3, ResumedEntries DEF LaneInv
  <2>2. \A j \in 1..Len(lane') : j > Len(lane) => lane'[j].stage \notin Running \cup Settled
    BY <2>1 DEF Running, Settled
  <2>3. activeTurn' = activeTurn /\ failures' = failures
    BY <1>3 DEF Resume
  <2> QED BY <1>1, <2>1, <2>2, <2>3, OrderKept
<1>4. CASE Cancel \/ Shutdown \/ ShutdownReturns \/ ReadPending \/ UNCHANGED vars
  <2>1. /\ activeTurn' = activeTurn /\ failures' = failures /\ Len(lane') = Len(lane)
        /\ \A j \in 1..Len(lane) : lane'[j].stage = lane[j].stage
    BY <1>4, QuietMoves
  <2> QED BY <1>1, <2>1 DEF InOrder
<1>5. CASE Open
  <2>1. UNCHANGED <<lane, activeTurn, failures>>
    BY <1>5, OpenMoves
  <2> QED BY <2>1 DEF InOrder
<1>6. CASE FailAppend
  BY <1>6, FailMoves DEF InOrder
<1>7. CASE Crash
  <2>1. /\ activeTurn' = 0 /\ Len(lane') = Len(lane)
        /\ \A j \in 1..Len(lane) :
             lane'[j].stage = IF lane[j].stage \in Settled THEN lane[j].stage ELSE "lost"
    BY <1>7, CrashMoves
  <2>2. \A j \in 1..Len(lane) : lane'[j].stage \in Settled /\ lane'[j].stage \notin Running
    BY <2>1 DEF Settled, Running
  <2>3. \A k \in 1..Len(lane) : \A j \in 1..(k - 1) : j \in 1..Len(lane)
    BY <1>1
  <2> QED BY <1>1, <2>1, <2>2, <2>3 DEF InOrder
<1>8. CASE Commit
  <2>1. PICK k \in 1..Len(lane) : \E e \in Event :
          /\ activeTurn' = activeTurn /\ failures' = failures
          /\ Asked(k, e) /\ Moves(k, AfterCommit(e.type))
    BY <1>8, CommitMoves
  <2>2. \A j \in 1..Len(lane) : /\ lane'[j].stage \in Running <=> lane[j].stage \in Running
                                /\ lane'[j].stage \in Settled <=> lane[j].stage \in Settled
    BY <2>1 DEF Asked, Moves, AfterCommit, Running, Settled, TryEnd, CatchEnd
  <2>3. Len(lane') = Len(lane)
    BY <2>1 DEF Moves
  <2> QED BY <1>1, <2>1, <2>2, <2>3, OrderKept
<1>9. CASE \E k \in 1..Len(lane) : EntryStep(k)
  <2>1. PICK k \in 1..Len(lane) : EntryStep(k)
    BY <1>9
  <2>2. failures' = failures
    BY <2>1, EntryMoves
  <2>3. SUFFICES ASSUME failures = 0 PROVE InOrder'
    BY <2>2 DEF InOrder
  <2>4. \A j \in 1..Len(lane) :
          /\ lane[j].stage \in Running \cup Settled =>
               \A i \in 1..(j - 1) : lane[i].stage \in Settled
          /\ lane[j].stage \in Running <=> activeTurn = j
    BY <2>3 DEF InOrder
  <2>5. CASE lane[k].stage = "working" /\ (Moves(k, "ending") \/ Moves(k, "catching"))
               /\ activeTurn' = activeTurn
    <3>1. /\ Len(lane') = Len(lane)
          /\ \A j \in 1..Len(lane) : /\ lane'[j].stage \in Running <=> lane[j].stage \in Running
                                     /\ lane'[j].stage \in Settled <=> lane[j].stage \in Settled
      BY <2>5 DEF Moves, Running, Settled
    <3> QED BY <1>1, <2>2, <2>5, <3>1, OrderKept
  \* The earlier entries of one whose predecessor is settled are settled.
  <2>6. PreviousSettled(k) => \A j \in 1..(k - 1) : lane[j].stage \in Settled
    <3> SUFFICES ASSUME PreviousSettled(k), NEW j \in 1..(k - 1) PROVE lane[j].stage \in Settled
      OBVIOUS
    <3>1. k - 1 \in 1..Len(lane) /\ lane[k - 1].stage \in Settled
      BY <1>1 DEF PreviousSettled
    <3>2. \A i \in 1..(k - 1 - 1) : lane[i].stage \in Settled
      BY <2>4, <3>1
    <3>3. j = k - 1 \/ j \in 1..(k - 1 - 1)
      BY <1>1
    <3> QED BY <3>1, <3>2, <3>3
  <2>7. \A j \in 1..Len(lane) : \A i \in 1..(j - 1) : i \in 1..Len(lane) /\ i # j
    BY <1>1
  <2>8. CASE Moves(k, "stopped") /\ Refuse(k)
    <3>1. /\ lane[k].stage = "queued" /\ activeTurn' = activeTurn
          /\ \A j \in 1..(k - 1) : lane[j].stage \in Settled
      BY <2>6, <2>8 DEF Refuse
    <3>2. /\ Len(lane') = Len(lane)
          /\ \A j \in 1..Len(lane) : lane'[j].stage = IF j = k THEN "stopped" ELSE lane[j].stage
      BY <2>8 DEF Moves
    <3>3. \A j \in 1..Len(lane) : /\ lane'[j].stage \in Running <=> lane[j].stage \in Running
                                  /\ lane'[j].stage \in Settled <=> j = k \/ lane[j].stage \in Settled
      BY <3>1, <3>2 DEF Running, Settled
    <3>4. ASSUME NEW j \in 1..Len(lane), lane'[j].stage \in Running \cup Settled,
                 NEW i \in 1..(j - 1)
          PROVE  lane'[i].stage \in Settled
      BY <2>4, <2>7, <3>1, <3>3, <3>4
    <3> QED BY <2>4, <3>1, <3>2, <3>3, <3>4 DEF InOrder
  <2>9. CASE Moves(k, "starting") /\ Execute(k)
    <3>1. /\ lane[k].stage = "queued" /\ activeTurn' = k
          /\ \A j \in 1..(k - 1) : lane[j].stage \in Settled
      BY <2>6, <2>9 DEF Execute
    <3>2. /\ Len(lane') = Len(lane)
          /\ \A j \in 1..Len(lane) : lane'[j].stage = IF j = k THEN "starting" ELSE lane[j].stage
      BY <2>9 DEF Moves
    <3>3. \A j \in 1..Len(lane) :
            /\ lane'[j].stage \in Running <=> j = k \/ lane[j].stage \in Running
            /\ lane'[j].stage \in Settled <=> lane[j].stage \in Settled
      BY <3>1, <3>2 DEF Running, Settled
    <3>4. ASSUME NEW j \in 1..Len(lane), lane[j].stage \in Running PROVE FALSE
      <4>1. CASE j < k
        <5>1. j \in 1..(k - 1)
          BY <1>1, <4>1
        <5> QED BY <3>1, <3>4, <5>1 DEF Running, Settled
      <4>2. CASE j > k
        <5>1. k \in 1..(j - 1)
          BY <1>1, <4>2
        <5> QED BY <2>4, <3>1, <3>4, <5>1 DEF Settled
      <4>3. j # k
        BY <3>1, <3>4 DEF Running
      <4> QED BY <1>1, <4>1, <4>2, <4>3
    <3>5. ASSUME NEW j \in 1..Len(lane), lane'[j].stage \in Running \cup Settled,
                 NEW i \in 1..(j - 1)
          PROVE  lane'[i].stage \in Settled
      BY <2>4, <2>7, <3>1, <3>3, <3>5
    <3> QED BY <3>1, <3>2, <3>3, <3>4, <3>5 DEF InOrder
  <2>10. CASE Moves(k, "settled") /\ Settle(k)
    <3>1. lane[k].stage \in Running /\ lane[k].stage \notin Settled
      BY <2>10 DEF Settle, Running, Settled
    <3>2. activeTurn = k /\ activeTurn' = 0
      BY <2>4, <2>10, <3>1 DEF Settle
    <3>3. /\ Len(lane') = Len(lane)
          /\ \A j \in 1..Len(lane) : lane'[j].stage = IF j = k THEN "settled" ELSE lane[j].stage
      BY <2>10 DEF Moves
    <3>4. \A j \in 1..Len(lane) :
            /\ lane'[j].stage \in Running <=> j # k /\ lane[j].stage \in Running
            /\ lane'[j].stage \in Settled <=> j = k \/ lane[j].stage \in Settled
      BY <3>3 DEF Running, Settled
    <3>5. ASSUME NEW j \in 1..Len(lane), lane'[j].stage \in Running \cup Settled,
                 NEW i \in 1..(j - 1)
          PROVE  lane'[i].stage \in Settled
      BY <2>4, <2>7, <3>1, <3>4, <3>5
    <3>6. \A j \in 1..Len(lane) : lane'[j].stage \notin Running /\ j # 0
      BY <1>1, <2>4, <3>2, <3>4
    <3> QED BY <3>2, <3>3, <3>5, <3>6 DEF InOrder
  <2> QED BY <2>1, <2>5, <2>8, <2>9, <2>10, EntryMoves
<1> QED BY <1>2, <1>3, <1>4, <1>5, <1>6, <1>7, <1>8, <1>9 DEF Next

LEMMA OrderInit == Init => InOrder
<1> SUFFICES ASSUME Init PROVE InOrder
  OBVIOUS
<1>1. Len(lane) = 0
  BY EmptySeq DEF Init
<1> QED BY <1>1 DEF InOrder

\* FifoTurns, of every behaviour: the Turns of a Session run one at a time in
\* the order of their Inputs, and cancel and shutdown abort the one that runs.
THEOREM TurnsInOrder == Spec => []FifoTurns
<1>1. LaneInv /\ InOrder => FifoTurns
  BY DEF InOrder, FifoTurns
<1>2. LaneInv /\ InOrder /\ [Next]_vars => LaneInv' /\ InOrder'
  BY LaneStep, OrderStep
<1> QED BY LaneInit, OrderInit, <1>1, <1>2, PTL DEF Spec

\* OneActiveTurn, where the journal accepts every append: without a failed append
\* no two Turns of a Session run at a time.
THEOREM OneTurnAtATime == MaxFailures = 0 => (Spec => []OneActiveTurn)
<1> SUFFICES ASSUME MaxFailures = 0 PROVE Spec => []OneActiveTurn
  OBVIOUS
<1>1. LaneInv /\ InOrder => OneActiveTurn
  <2> SUFFICES ASSUME LaneInv, InOrder PROVE OneActiveTurn
    OBVIOUS
  <2>1. failures = 0
    BY DEF LaneInv, TypeOK
  <2> QED BY <2>1 DEF InOrder, OneActiveTurn
<1>2. LaneInv /\ InOrder /\ [Next]_vars => LaneInv' /\ InOrder'
  BY LaneStep, OrderStep
<1> QED BY LaneInit, OrderInit, <1>1, <1>2, PTL DEF Spec

-----------------------------------------------------------------------------
(* The record of Turns.                                                    *)

LEMMA LatestIsTurn ==
  ASSUME TypeOK
  PROVE  /\ LatestTurn = TurnEventBefore(Len(journal) + 1)
         /\ \A n \in LatestTurn : /\ n \in 1..Len(journal)
                                  /\ journal[n].type \in {"turn/started"} \cup Terminal
         /\ \A n, m \in LatestTurn : n = m
<1>1. /\ Len(journal) \in Nat
      /\ \A n \in 1..Len(journal) : journal[n].type \in EventType
  BY EventTyped
<1>2. \A n \in LatestTurn : /\ n \in 1..Len(journal) /\ IsTurnEvent(journal[n])
                            /\ \A i \in (n + 1)..Len(journal) : ~IsTurnEvent(journal[i])
  BY <1>1 DEF LatestTurn, TurnEventBefore
<1>3. ASSUME NEW n \in LatestTurn, NEW m \in LatestTurn PROVE n = m
  <2>1. n < m => m \in (n + 1)..Len(journal)
    BY <1>1, <1>2
  <2>2. m < n => n \in (m + 1)..Len(journal)
    BY <1>1, <1>2
  <2>3. n \in 1..Len(journal) /\ m \in 1..Len(journal) /\ ~(n < m) /\ ~(m < n)
    BY <1>2, <2>1, <2>2
  <2> QED BY <1>1, <2>3
<1>4. \A n \in LatestTurn : journal[n].type \in {"turn/started"} \cup Terminal
  BY <1>1, <1>2 DEF IsTurnEvent, EventType
<1> QED BY <1>2, <1>3, <1>4 DEF LatestTurn

\* What the record of Turns is after one more event.
LEMMA RecordGrows ==
  ASSUME TypeOK, NEW e \in Event, journal' = Append(journal, e)
  PROVE  /\ e.type = "input/accepted" =>
              /\ LatestTurn' = LatestTurn
              /\ \A n \in LatestTurn : journal'[n] = journal[n]
         /\ e.type # "input/accepted" =>
              /\ LatestTurn' = {Len(journal) + 1}
              /\ journal'[Len(journal) + 1] = e
<1>1. LatestTurn' = IF IsTurnEvent(e) THEN {Len(journal) + 1} ELSE LatestTurn
  BY LatestRecorded
<1> QED BY <1>1, Recorded, LatestIsTurn DEF IsTurnEvent

\* No other Turn runs, while no append failed.
LEMMA OneBegun ==
  ASSUME LaneInv, InOrder, failures = 0, NEW k \in 1..Len(lane), lane[k].stage \in Running
  PROVE  \A j \in 1..Len(lane) : lane[j].stage \in Begun => j = k
BY DEF InOrder, Begun, Running

\* Nothing of the Turns' record changes and no Turn begins or ends.
LEMMA RecordKept ==
  ASSUME RecordFollows, failures' = 0 => failures = 0, open' => open,
         Len(lane) \in Nat, Len(lane) <= Len(lane'), Len(lane') \in Nat,
         LatestTurn' = LatestTurn, \A n \in LatestTurn : journal'[n] = journal[n],
         \A j \in 1..Len(lane) : lane'[j].stage \in Begun <=> lane[j].stage \in Begun,
         \A j \in 1..Len(lane') : j > Len(lane) => lane'[j].stage \notin Begun
  PROVE  RecordFollows'
<1> SUFFICES ASSUME failures' = 0 PROVE RecordFollows'
  BY DEF RecordFollows
<1>1. \A k \in 1..Len(lane') : lane'[k].stage \in Begun =>
        k \in 1..Len(lane) /\ lane[k].stage \in Begun
  <2> SUFFICES ASSUME NEW k \in 1..Len(lane'), lane'[k].stage \in Begun
               PROVE  k \in 1..Len(lane) /\ lane[k].stage \in Begun
    OBVIOUS
  <2>1. k \in 1..Len(lane)
    OBVIOUS
  <2> QED BY <2>1
<1>2. \A k \in 1..Len(lane) : k \in 1..Len(lane')
  OBVIOUS
<1>3. LatestTurnActive' <=> LatestTurnActive
  BY DEF LatestTurnActive
<1>4. \A k \in 1..Len(lane') : lane'[k].stage \in Begun =>
        \E n \in LatestTurn' : journal'[n].type = "turn/started" /\ journal'[n].turn = k
  BY <1>1 DEF RecordFollows
<1>5. open' /\ (\A k \in 1..Len(lane') : lane'[k].stage \notin Begun) => ~LatestTurnActive'
  BY <1>2, <1>3 DEF RecordFollows
<1> QED BY <1>4, <1>5 DEF RecordFollows, Begun

LEMMA RecordStep ==
  ASSUME LaneInv, InOrder, RecordFollows, [Next]_vars
  PROVE  RecordFollows'
<1>1. TypeOK /\ Len(lane) \in Nat /\ Len(lane) <= Len(lane) /\ Len(journal) \in Nat
  BY LenProperties, EventTyped DEF LaneInv, TypeOK
<1>2. journal' = journal => LatestTurn' = LatestTurn /\ \A n \in LatestTurn : journal'[n] = journal[n]
  BY DEF LatestTurn, TurnEventBefore, IsTurnEvent
<1>3. CASE Send
  <2>1. /\ journal' = journal /\ failures' = failures /\ open' = open
        /\ Len(lane') = Len(lane) + 1
        /\ \A j \in 1..Len(lane) : lane'[j] = lane[j]
        /\ lane'[Len(lane) + 1].stage = "accepting"
    BY <1>3, SendMoves
  <2>2. \A j \in 1..Len(lane') : j > Len(lane) => lane'[j].stage \notin Begun
    BY <1>1, <2>1 DEF Begun
  <2>3. Len(lane) <= Len(lane') /\ Len(lane') \in Nat
    BY <1>1, <2>1
  <2> QED BY <1>1, <1>2, <2>1, <2>2, <2>3, RecordKept
<1>4. CASE Resume
  <2>1. /\ Len(lane) <= Len(lane') /\ Len(lane') \in Nat
        /\ \A j \in 1..Len(lane) : lane'[j] = lane[j]
        /\ \A j \in 1..Len(lane') : j > Len(lane) => lane'[j].stage = "queued"
    BY <1>1, <1>4, ResumedEntries
  <2>2. \A j \in 1..Len(lane') : j > Len(lane) => lane'[j].stage \notin Begun
    BY <2>1 DEF Begun
  <2>3. journal' = journal /\ failures' = failures /\ open' = open
    BY <1>4 DEF Resume
  <2> QED BY <1>1, <1>2, <2>1, <2>2, <2>3, RecordKept
<1>5. CASE Cancel \/ Shutdown \/ ShutdownReturns \/ ReadPending \/ UNCHANGED vars
  <2>1. /\ journal' = journal /\ failures' = failures /\ Len(lane') = Len(lane) /\ open' = open
        /\ \A j \in 1..Len(lane) : lane'[j].stage = lane[j].stage
    BY <1>5, QuietMoves
  <2>2. \A j \in 1..Len(lane') : j > Len(lane) => lane'[j].stage \notin Begun
    BY <1>1, <2>1
  <2> QED BY <1>1, <1>2, <2>1, <2>2, RecordKept
<1>6. CASE FailAppend
  BY <1>6, FailMoves DEF RecordFollows
<1>7. CASE Crash
  <2>1. /\ ~open' /\ Len(lane') = Len(lane)
        /\ \A j \in 1..Len(lane) :
             lane'[j].stage = IF lane[j].stage \in Settled THEN lane[j].stage ELSE "lost"
    BY <1>7, CrashMoves
  <2>2. \A j \in 1..Len(lane) : lane'[j].stage \notin Begun
    BY <2>1 DEF Settled, Begun
  <2> QED BY <2>1, <2>2 DEF RecordFollows, Begun
<1>8. CASE Open
  <2>1. /\ UNCHANGED <<lane, failures>>
        /\ \A k \in 1..Len(lane) : lane[k].stage \in Settled
        /\ \/ ~LatestTurnActive /\ journal' = journal
           \/ \E e \in Event : journal' = Append(journal, e) /\ e.type = "turn/interrupted"
    BY <1>8, OpenMoves
  <2>2. \A k \in 1..Len(lane') : lane'[k].stage \notin Begun
    BY <2>1 DEF Settled, Begun
  <2>3. ~LatestTurnActive'
    <3>1. CASE ~LatestTurnActive /\ journal' = journal
      BY <1>2, <3>1 DEF LatestTurnActive
    <3>2. CASE \E e \in Event : journal' = Append(journal, e) /\ e.type = "turn/interrupted"
      <4>1. PICK e \in Event : journal' = Append(journal, e) /\ e.type = "turn/interrupted"
        BY <3>2
      <4>2. LatestTurn' = {Len(journal) + 1} /\ journal'[Len(journal) + 1] = e
        BY <1>1, <4>1, RecordGrows
      <4> QED BY <4>1, <4>2 DEF LatestTurnActive
    <3> QED BY <2>1, <3>1, <3>2
  <2> QED BY <2>2, <2>3 DEF RecordFollows, Begun
<1>9. CASE Commit
  <2>1. PICK k \in 1..Len(lane) : \E e \in Event :
          /\ failures' = failures /\ open' = open
          /\ Asked(k, e) /\ journal' = Append(journal, e) /\ Moves(k, AfterCommit(e.type))
    BY <1>9, CommitMoves
  <2>2. PICK e \in Event :
          /\ failures' = failures /\ open' = open
          /\ Asked(k, e) /\ journal' = Append(journal, e) /\ Moves(k, AfterCommit(e.type))
    BY <2>1
  <2>3. SUFFICES ASSUME failures = 0 PROVE RecordFollows'
    BY <2>2 DEF RecordFollows
  <2>4. /\ Len(lane') = Len(lane)
        /\ \A j \in 1..Len(lane) :
             lane'[j].stage = IF j = k THEN AfterCommit(e.type) ELSE lane[j].stage
    BY <2>2 DEF Moves
  <2>5. CASE e.type = "input/accepted" /\ lane[k].stage = "accepting"
    <3>1. LatestTurn' = LatestTurn /\ \A n \in LatestTurn : journal'[n] = journal[n]
      BY <1>1, <2>2, <2>5, RecordGrows
    <3>2. \A j \in 1..Len(lane) : lane'[j].stage \in Begun <=> lane[j].stage \in Begun
      BY <2>4, <2>5 DEF AfterCommit, Begun
    <3>3. \A j \in 1..Len(lane') : j > Len(lane) => lane'[j].stage \notin Begun
      BY <1>1, <2>4
    <3> QED BY <1>1, <2>2, <2>4, <3>1, <3>2, <3>3, RecordKept
  <2>6. CASE e.type = "turn/started" /\ lane[k].stage = "starting"
    <3>1. LatestTurn' = {Len(journal) + 1} /\ journal'[Len(journal) + 1] = e
      BY <1>1, <2>2, <2>6, RecordGrows
    <3>2. \A j \in 1..Len(lane) : lane[j].stage \in Begun => j = k
      BY <2>3, <2>6, OneBegun DEF Running
    <3>3. \A j \in 1..Len(lane) : lane'[j].stage \in Begun <=> j = k
      BY <2>4, <2>6, <3>2 DEF AfterCommit, Begun
    <3>4. e.turn = k
      BY <2>2 DEF Asked
    <3> QED BY <2>4, <2>6, <3>1, <3>3, <3>4 DEF RecordFollows, Begun
  <2>7. CASE e.type \in TryEnd \cup CatchEnd /\ lane[k].stage \in {"ending", "catching"}
    <3>1. e.type \notin {"input/accepted", "turn/started"}
      BY <2>7 DEF TryEnd, CatchEnd
    <3>2. LatestTurn' = {Len(journal) + 1} /\ journal'[Len(journal) + 1] = e
      BY <1>1, <2>2, <3>1, RecordGrows
    <3>3. \A j \in 1..Len(lane) : lane[j].stage \in Begun => j = k
      BY <2>3, <2>7, OneBegun DEF Running
    <3>4. AfterCommit(e.type) = "ended"
      BY <3>1 DEF AfterCommit
    <3>5. \A j \in 1..Len(lane) : lane'[j].stage \notin Begun
      BY <2>4, <3>3, <3>4 DEF Begun
    <3>6. ~LatestTurnActive'
      BY <3>1, <3>2 DEF LatestTurnActive
    <3> QED BY <2>4, <3>5, <3>6 DEF RecordFollows, Begun
  <2> QED BY <2>2, <2>5, <2>6, <2>7 DEF Asked
<1>10. CASE \E k \in 1..Len(lane) : EntryStep(k)
  <2>1. PICK k \in 1..Len(lane) : EntryStep(k)
    BY <1>10
  <2>2. /\ UNCHANGED <<journal, open, failures>>
        /\ \/ Moves(k, "stopped") /\ Refuse(k)
           \/ Moves(k, "starting") /\ Execute(k)
           \/ /\ lane[k].stage = "working"
              /\ Moves(k, "ending") \/ Moves(k, "catching")
           \/ Moves(k, "settled") /\ Settle(k)
    BY <2>1, EntryMoves
  <2>3. Len(lane') = Len(lane)
    BY <2>2 DEF Moves
  <2>4. \A j \in 1..Len(lane) : lane'[j].stage \in Begun <=> lane[j].stage \in Begun
    BY <2>2 DEF Moves, Refuse, Execute, Settle, Begun
  <2>5. \A j \in 1..Len(lane') : j > Len(lane) => lane'[j].stage \notin Begun
    BY <1>1, <2>3
  <2> QED BY <1>1, <1>2, <2>2, <2>3, <2>4, <2>5, RecordKept
<1> QED BY <1>3, <1>4, <1>5, <1>6, <1>7, <1>8, <1>9, <1>10 DEF Next

LEMMA RecordInit == Init => RecordFollows /\ TurnsSequential
<1> SUFFICES ASSUME Init PROVE RecordFollows /\ TurnsSequential
  OBVIOUS
<1>1. Len(lane) = 0 /\ Len(journal) = 0
  BY EmptySeq DEF Init
<1>2. ~LatestTurnActive
  BY <1>1 DEF LatestTurnActive, LatestTurn, TurnEventBefore
<1> QED BY <1>1, <1>2 DEF RecordFollows, TurnsSequential

\* One more event keeps the Turns of the record apart if it fits the latest one.
LEMMA SequentialGrows ==
  ASSUME TypeOK, TurnsSequential, NEW e \in Event, journal' = Append(journal, e),
         failures' = failures,
         failures = 0 /\ e.type = "turn/started" =>
           \A n \in LatestTurn : journal[n].type \in Terminal,
         failures = 0 /\ e.type \notin {"input/accepted", "turn/started"} =>
           \E n \in LatestTurn : journal[n].type = "turn/started" /\ journal[n].turn = e.turn
  PROVE  TurnsSequential'
<1> SUFFICES ASSUME failures = 0, NEW m \in 1..Len(journal'), IsTurnEvent(journal'[m])
             PROVE  IF journal'[m].type = "turn/started"
                    THEN \A n \in TurnEventBefore(m)' : journal'[n].type \in Terminal
                    ELSE \E n \in TurnEventBefore(m)' : /\ journal'[n].type = "turn/started"
                                                        /\ journal'[n].turn = journal'[m].turn
  BY DEF TurnsSequential, IsTurnEvent, Terminal, TryEnd, CatchEnd
<1>1. /\ Len(journal) \in Nat /\ Len(journal') = Len(journal) + 1
      /\ \A n \in 1..Len(journal) : journal'[n] = journal[n]
      /\ journal'[Len(journal) + 1] = e
  BY Recorded
<1>2. TurnEventBefore(m)' = TurnEventBefore(m)
  BY <1>1, TurnsBeforeKept
<1>3. \A n \in TurnEventBefore(m) : n \in 1..Len(journal) /\ journal'[n] = journal[n]
  BY <1>1 DEF TurnEventBefore
<1>4. CASE m = Len(journal) + 1
  <2>1. TurnEventBefore(m) = LatestTurn /\ journal'[m] = e
    BY <1>1, <1>4, LatestIsTurn
  <2>2. e.type # "input/accepted"
    BY <2>1 DEF IsTurnEvent
  <2> QED BY <1>2, <1>3, <2>1, <2>2
<1>5. CASE m # Len(journal) + 1
  <2>1. m \in 1..Len(journal) /\ journal'[m] = journal[m]
    BY <1>1, <1>5
  <2>2. IF journal[m].type = "turn/started"
        THEN \A n \in TurnEventBefore(m) : journal[n].type \in Terminal
        ELSE \E n \in TurnEventBefore(m) : /\ journal[n].type = "turn/started"
                                           /\ journal[n].turn = journal[m].turn
    BY <2>1 DEF TurnsSequential
  <2> QED BY <1>2, <1>3, <2>1, <2>2
<1> QED BY <1>4, <1>5

\* The event an entry awaits fits the record.
LEMMA AskedFits ==
  ASSUME LaneInv, InOrder, RecordFollows, open, NEW k \in 1..Len(lane), NEW e \in Event,
         Asked(k, e)
  PROVE  /\ failures = 0 /\ e.type = "turn/started" =>
              \A n \in LatestTurn : journal[n].type \in Terminal
         /\ failures = 0 /\ e.type \notin {"input/accepted", "turn/started"} =>
              \E n \in LatestTurn : journal[n].type = "turn/started" /\ journal[n].turn = e.turn
<1>1. ASSUME failures = 0, e.type = "turn/started"
      PROVE  \A n \in LatestTurn : journal[n].type \in Terminal
  <2>1. lane[k].stage = "starting"
    BY <1>1 DEF Asked, TryEnd, CatchEnd
  <2>2. \A j \in 1..Len(lane) : lane[j].stage \in Begun => j = k
    BY <1>1, <2>1, OneBegun DEF Running
  <2>3. \A j \in 1..Len(lane) : lane[j].stage \notin Begun
    BY <2>1, <2>2 DEF Begun
  <2>4. ~LatestTurnActive
    BY <1>1, <2>3 DEF RecordFollows
  <2> QED BY <2>4, LatestIsTurn DEF LatestTurnActive, LaneInv
<1>2. ASSUME failures = 0, e.type \notin {"input/accepted", "turn/started"}
      PROVE  \E n \in LatestTurn : journal[n].type = "turn/started" /\ journal[n].turn = e.turn
  <2>1. lane[k].stage \in Begun /\ e.turn = k
    BY <1>2 DEF Asked, Begun
  <2> QED BY <1>2, <2>1 DEF RecordFollows
<1> QED BY <1>1, <1>2

LEMMA SequentialStep ==
  ASSUME LaneInv, InOrder, RecordFollows, TurnsSequential, [Next]_vars
  PROVE  TurnsSequential'
<1>1. TypeOK
  BY DEF LaneInv
<1>2. ASSUME journal' = journal, failures' = failures PROVE TurnsSequential'
  BY <1>2 DEF TurnsSequential, TurnEventBefore, IsTurnEvent
<1>3. CASE FailAppend
  BY <1>3, FailMoves DEF TurnsSequential
<1>4. CASE Commit \/ Crash
  <2>1. /\ open /\ failures' = failures
        /\ \/ journal' = journal
           \/ \E k \in 1..Len(lane) : \E e \in Event :
                Asked(k, e) /\ journal' = Append(journal, e)
    <3>1. CASE Commit
      BY <3>1, CommitMoves
    <3>2. CASE Crash
      BY <3>2, CrashMoves
    <3> QED BY <1>4, <3>1, <3>2
  <2>2. ASSUME NEW k \in 1..Len(lane), NEW e \in Event, Asked(k, e), journal' = Append(journal, e)
        PROVE  TurnsSequential'
    BY <1>1, <2>1, <2>2, AskedFits, SequentialGrows
  <2> QED BY <1>2, <2>1, <2>2
<1>5. CASE Open
  <2>1. /\ failures' = failures
        /\ \/ journal' = journal
           \/ \E e \in Event : \E n \in LatestTurn :
                /\ journal' = Append(journal, e)
                /\ e.type = "turn/interrupted" /\ e.turn = journal[n].turn
                /\ LatestTurnActive
    BY <1>5, OpenMoves DEF Open
  <2>2. ASSUME NEW e \in Event, NEW n \in LatestTurn, journal' = Append(journal, e),
               e.type = "turn/interrupted", e.turn = journal[n].turn, LatestTurnActive
        PROVE  TurnsSequential'
    <3>1. journal[n].type = "turn/started"
      BY <1>1, <2>2, LatestIsTurn DEF LatestTurnActive
    <3> QED BY <1>1, <2>1, <2>2, <3>1, SequentialGrows
  <2> QED BY <1>2, <2>1, <2>2
<1>6. CASE \/ Send \/ Resume \/ Cancel \/ Shutdown \/ ShutdownReturns \/ ReadPending
           \/ UNCHANGED vars \/ \E k \in 1..Len(lane) : EntryStep(k)
  <2>1. journal' = journal /\ failures' = failures
    BY <1>6, SendMoves, QuietMoves, EntryMoves DEF Resume
  <2> QED BY <1>2, <2>1
<1> QED BY <1>3, <1>4, <1>5, <1>6 DEF Next

\* TurnsSequential, of every behaviour: while no append failed, the record of
\* Turns is a sequence of closed Turns, across crashes and reopenings.
THEOREM RecordIsSequential == Spec => []TurnsSequential
<1>1. /\ LaneInv /\ InOrder /\ RecordFollows /\ TurnsSequential /\ [Next]_vars
           => LaneInv' /\ InOrder' /\ RecordFollows' /\ TurnsSequential'
  BY LaneStep, OrderStep, RecordStep, SequentialStep
<1> QED BY LaneInit, OrderInit, RecordInit, <1>1, PTL DEF Spec

-----------------------------------------------------------------------------
(* Inputs are accepted once and start one Turn.                            *)

AcceptedAt(n) == n \in 1..Len(journal) /\ journal[n].type = "input/accepted"

\* Nothing else is accepted, and no entry goes back.
LEMMA AcceptedKept ==
  ASSUME AcceptedFirst,
         \A n : AcceptedAt(n)' <=> AcceptedAt(n),
         \A n : AcceptedAt(n) => journal'[n] = journal[n],
         Len(lane') = Len(lane),
         \A j \in 1..Len(lane) :
           /\ lane'[j].input = lane[j].input
           /\ lane'[j].stage = "accepting" => lane[j].stage = "accepting"
           /\ lane'[j].stage \notin Settled \cup {"accepting"} =>
                lane[j].stage \notin Settled \cup {"accepting"},
         reading' = reading \/ Len(reading') = 0
  PROVE  AcceptedFirst'
<1>1. \A i : Accepted(i)' <=> Accepted(i)
  BY DEF Accepted, AcceptedAt
<1>2. \A n, m \in 1..Len(journal') :
        /\ journal'[n].type = "input/accepted" /\ journal'[m].type = "input/accepted"
        /\ journal'[n].input = journal'[m].input
        => n = m
  BY DEF AcceptedFirst, AcceptedAt
<1>3. \A k \in 1..Len(lane') : lane'[k].stage \notin Settled \cup {"accepting"}
        => Accepted(lane[k].input)'
  BY <1>1 DEF AcceptedFirst
<1>4. /\ \A n \in 1..Len(reading') : Accepted(reading[n])'
      /\ \A n, m \in 1..Len(reading') : reading'[n] = reading'[m] => n = m
  BY <1>1 DEF AcceptedFirst
<1>5. \A k \in 1..Len(lane') : lane'[k].stage = "accepting" =>
       /\ ~Accepted(lane[k].input)'
       /\ \A j \in 1..Len(lane') : lane'[j].input = lane'[k].input => j = k
  BY <1>1 DEF AcceptedFirst
<1> QED BY <1>2, <1>3, <1>4, <1>5 DEF AcceptedFirst, Accepted, Settled

LEMMA OthersRecorded ==
  ASSUME TypeOK, \/ journal' = journal
                 \/ \E e \in Event : journal' = Append(journal, e) /\ e.type # "input/accepted"
  PROVE  /\ \A n : AcceptedAt(n)' <=> AcceptedAt(n)
         /\ \A n : AcceptedAt(n) => journal'[n] = journal[n]
<1>1. CASE journal' = journal
  BY <1>1 DEF AcceptedAt
<1>2. CASE \E e \in Event : journal' = Append(journal, e) /\ e.type # "input/accepted"
  <2>1. PICK e \in Event : journal' = Append(journal, e) /\ e.type # "input/accepted"
    BY <1>2
  <2>2. /\ Len(journal) \in Nat /\ Len(journal') = Len(journal) + 1
        /\ \A n \in 1..Len(journal) : journal'[n] = journal[n]
        /\ journal'[Len(journal) + 1] = e
    BY <2>1, Recorded
  <2>3. \A n : n \in 1..Len(journal') <=> n \in 1..Len(journal) \/ n = Len(journal) + 1
    BY <2>2
  <2> QED BY <2>1, <2>2, <2>3 DEF AcceptedAt
<1> QED BY <1>1, <1>2

\* The acceptance of entry k is recorded, and k goes on.
LEMMA AcceptanceRecorded ==
  ASSUME LaneInv, AcceptedFirst, NEW k \in 1..Len(lane), NEW e \in Event,
         journal' = Append(journal, e), e.type = "input/accepted", Asked(k, e),
         Len(lane') = Len(lane),
         \A j \in 1..Len(lane) :
           /\ lane'[j].input = lane[j].input
           /\ lane'[j].stage = "accepting" => lane[j].stage = "accepting" /\ j # k
           /\ lane'[j].stage \notin Settled \cup {"accepting"} =>
                lane[j].stage \notin Settled \cup {"accepting"} \/ j = k,
         reading' = reading \/ Len(reading') = 0
  PROVE  AcceptedFirst'
<1>1. TypeOK
  BY DEF LaneInv
<1>2. /\ Len(journal) \in Nat /\ Len(journal') = Len(journal) + 1
      /\ \A n \in 1..Len(journal) : journal'[n] = journal[n]
      /\ journal'[Len(journal) + 1] = e
  BY <1>1, Recorded
<1>3. \A n \in 1..Len(journal') : n \in 1..Len(journal) \/ n = Len(journal) + 1
  BY <1>2
<1>4. /\ e.input = lane[k].input /\ ~Accepted(lane[k].input)
      /\ \A j \in 1..Len(lane) : lane[j].input = lane[k].input => j = k
  BY DEF Asked, AcceptedFirst, TryEnd, CatchEnd
<1>5. \A i : Accepted(i)' <=> Accepted(i) \/ e.input = i
  BY <1>1, InputRecorded
<1>6. \A n, m \in 1..Len(journal') :
        /\ journal'[n].type = "input/accepted" /\ journal'[m].type = "input/accepted"
        /\ journal'[n].input = journal'[m].input
        => n = m
  <2>1. \A n \in 1..Len(journal) : journal[n].type = "input/accepted" => journal[n].input # e.input
    BY <1>4 DEF Accepted
  <2> QED BY <1>2, <1>3, <2>1 DEF AcceptedFirst
<1>7. \A j \in 1..Len(lane') : lane'[j].stage \notin Settled \cup {"accepting"}
        => Accepted(lane[j].input)'
  BY <1>4, <1>5 DEF AcceptedFirst
<1>8. /\ \A n \in 1..Len(reading') : Accepted(reading[n])'
      /\ \A n, m \in 1..Len(reading') : reading'[n] = reading'[m] => n = m
  BY <1>5 DEF AcceptedFirst
<1>9. \A j \in 1..Len(lane') : lane'[j].stage = "accepting" =>
       /\ ~Accepted(lane[j].input)'
       /\ \A i \in 1..Len(lane') : lane'[i].input = lane'[j].input => i = j
  BY <1>4, <1>5 DEF AcceptedFirst
<1> QED BY <1>6, <1>7, <1>8, <1>9 DEF AcceptedFirst, Accepted, Settled

LEMMA AcceptedStep ==
  ASSUME LaneInv, AcceptedFirst, [Next]_vars
  PROVE  AcceptedFirst'
<1>1. TypeOK /\ Len(lane) \in Nat
  BY LenProperties DEF LaneInv, TypeOK
<1>2. CASE Send
  <2>1. /\ UNCHANGED <<journal, reading>>
        /\ sent \in Nat
        /\ Len(lane') = Len(lane) + 1
        /\ \A j \in 1..Len(lane) : lane'[j] = lane[j]
        /\ lane'[Len(lane) + 1].input = sent + 1
        /\ lane'[Len(lane) + 1].stage = "accepting"
    BY <1>2, SendMoves DEF resumption
  <2>2. \A k \in 1..Len(lane') : k \in 1..Len(lane) \/ k = Len(lane) + 1
    BY <1>1, <2>1
  <2>3. \A k \in 1..Len(lane) : lane[k].input # sent + 1
    <3> SUFFICES ASSUME NEW k \in 1..Len(lane) PROVE lane[k].input # sent + 1
      OBVIOUS
    <3>1. lane[k].input <= sent /\ lane[k].input \in Nat
      BY <1>1, EntryType DEF LaneInv, OnlySent
    <3> QED BY <2>1, <3>1
  <2>4. ~Accepted(sent + 1)
    <3> SUFFICES ASSUME NEW n \in 1..Len(journal) PROVE journal[n].input # sent + 1
      BY DEF Accepted
    <3>1. journal[n].input <= sent /\ journal[n].input \in 1..MaxInputs
      BY <1>1, EventTyped DEF LaneInv, OnlySent
    <3> QED BY <2>1, <3>1, BoundsAssumption
  <2>5. \A i : Accepted(i)' <=> Accepted(i)
    BY <2>1 DEF Accepted
  <2>6. \A k \in 1..Len(lane') : lane'[k].stage \notin Settled \cup {"accepting"}
          => Accepted(lane[k].input)'
    BY <2>1, <2>2, <2>5 DEF AcceptedFirst
  <2>7. ASSUME NEW k \in 1..Len(lane'), lane'[k].stage = "accepting"
        PROVE  /\ ~Accepted(lane[k].input)'
               /\ \A j \in 1..Len(lane') : lane'[j].input = lane'[k].input => j = k
    BY <2>1, <2>2, <2>3, <2>4, <2>5, <2>7 DEF AcceptedFirst
  <2> QED BY <2>1, <2>5, <2>6, <2>7 DEF AcceptedFirst, Accepted, Settled
<1>3. CASE ReadPending
  <2>1. /\ UNCHANGED journal /\ Len(lane') = Len(lane)
        /\ \A j \in 1..Len(lane) : /\ lane'[j].input = lane[j].input
                                   /\ lane'[j].stage = lane[j].stage
    BY <1>3, QuietMoves
  <2>2. PICK at \in [1..Len(reading') -> PendingInputs] :
          /\ \A n \in 1..Len(reading') : reading'[n] = journal[at[n]].input
          /\ \A a, b \in 1..Len(reading') : at[a] = at[b] => a = b
    BY <1>1, <1>3, ReadEntries
  <2>3. \A n \in 1..Len(reading') : /\ at[n] \in 1..Len(journal)
                                    /\ journal[at[n]].type = "input/accepted"
    BY <2>2 DEF PendingInputs
  <2>4. \A i : Accepted(i)' <=> Accepted(i)
    BY <2>1 DEF Accepted
  <2>5. \A n \in 1..Len(reading') : Accepted(reading[n])'
    BY <2>2, <2>3, <2>4 DEF Accepted
  <2>6. \A n, m \in 1..Len(reading') : reading'[n] = reading'[m] => n = m
    <3> SUFFICES ASSUME NEW n \in 1..Len(reading'), NEW m \in 1..Len(reading'),
                        reading'[n] = reading'[m]
                 PROVE  n = m
      OBVIOUS
    <3>1. journal[at[n]].input = journal[at[m]].input
      BY <2>2
    <3>2. at[n] = at[m]
      BY <2>3, <3>1 DEF AcceptedFirst
    <3> QED BY <2>2, <3>2
  <2>7. /\ \A k \in 1..Len(lane') : lane'[k].stage \notin Settled \cup {"accepting"}
             => Accepted(lane[k].input)'
        /\ \A k \in 1..Len(lane') : lane'[k].stage = "accepting" =>
             /\ ~Accepted(lane[k].input)'
             /\ \A j \in 1..Len(lane') : lane'[j].input = lane'[k].input => j = k
    BY <2>1, <2>4 DEF AcceptedFirst
  <2> QED BY <2>1, <2>5, <2>6, <2>7 DEF AcceptedFirst, Accepted, Settled
<1>4. CASE Resume
  <2>1. PICK at \in [1..(Len(lane') - Len(lane)) -> 1..Len(reading)] :
          /\ Len(lane) <= Len(lane') /\ Len(lane') \in Nat
          /\ \A j \in 1..Len(lane) : lane'[j] = lane[j]
          /\ \A k \in 1..Len(lane') : k > Len(lane) =>
               /\ lane'[k].input = reading[at[k - Len(lane)]]
               /\ lane'[k].stage = "queued"
    BY <1>1, <1>4, ResumedEntries
  <2>2. UNCHANGED journal /\ reading' = <<>>
    BY <1>4 DEF Resume
  <2>3. \A i : Accepted(i)' <=> Accepted(i)
    BY <2>2 DEF Accepted
  <2>4. Len(reading') = 0
    BY <2>2, EmptySeq
  <2>5. \A k \in 1..Len(lane') : k \in 1..Len(lane) \/ k > Len(lane)
    BY <1>1, <2>1
  <2>6. ASSUME NEW k \in 1..Len(lane'), k > Len(lane)
        PROVE  Accepted(lane'[k].input) /\ lane'[k].stage = "queued"
    <3>1. k - Len(lane) \in 1..(Len(lane') - Len(lane))
      BY <1>1, <2>1, <2>6
    <3>2. at[k - Len(lane)] \in 1..Len(reading)
      BY <2>1, <3>1
    <3> QED BY <2>1, <2>6, <3>2 DEF AcceptedFirst
  <2>7. \A k \in 1..Len(lane') : lane'[k].stage \notin Settled \cup {"accepting"}
          => Accepted(lane[k].input)'
    BY <2>1, <2>3, <2>5, <2>6 DEF AcceptedFirst
  <2>8. ASSUME NEW k \in 1..Len(lane'), lane'[k].stage = "accepting"
        PROVE  /\ ~Accepted(lane[k].input)'
               /\ \A j \in 1..Len(lane') : lane'[j].input = lane'[k].input => j = k
    <3>1. k \in 1..Len(lane) /\ lane'[k] = lane[k] /\ lane[k].stage = "accepting"
      BY <2>1, <2>5, <2>6, <2>8
    <3>2. ~Accepted(lane[k].input)
      BY <3>1 DEF AcceptedFirst
    <3> QED BY <2>1, <2>3, <2>5, <2>6, <3>1, <3>2 DEF AcceptedFirst
  <2> QED BY <2>2, <2>3, <2>4, <2>7, <2>8 DEF AcceptedFirst, Accepted, Settled
<1>5. CASE Cancel \/ Shutdown \/ ShutdownReturns \/ UNCHANGED vars
  <2>1. UNCHANGED reading
    BY <1>5 DEF Cancel, Shutdown, ShutdownReturns, vars, resumption
  <2> QED BY <1>1, <1>5, <2>1, QuietMoves, OthersRecorded, AcceptedKept
<1>6. CASE Open
  <2>1. /\ UNCHANGED <<lane, reading>>
        /\ \/ journal' = journal
           \/ \E e \in Event : journal' = Append(journal, e) /\ e.type # "input/accepted"
    BY <1>6, OpenMoves DEF resumption
  <2> QED BY <1>1, <2>1, OthersRecorded, AcceptedKept
<1>7. CASE FailAppend
  <2>1. /\ UNCHANGED <<journal, reading>> /\ Len(lane') = Len(lane)
        /\ \A j \in 1..Len(lane) :
             /\ lane'[j].input = lane[j].input
             /\ lane'[j].stage = "accepting" => lane[j].stage = "accepting"
             /\ lane'[j].stage \notin Settled \cup {"accepting"} =>
                  lane[j].stage \notin Settled \cup {"accepting"}
    BY <1>7, FailMoves DEF Moves, Settled, resumption
  <2> QED BY <1>1, <2>1, OthersRecorded, AcceptedKept
<1>8. CASE Crash
  <2>1. /\ Len(reading') = 0 /\ Len(lane') = Len(lane)
        /\ \A j \in 1..Len(lane) :
             /\ lane'[j].input = lane[j].input
             /\ lane'[j].stage = IF lane[j].stage \in Settled THEN lane[j].stage ELSE "lost"
        /\ \/ journal' = journal
           \/ \E k \in 1..Len(lane) : \E e \in Event : Asked(k, e) /\ journal' = Append(journal, e)
    BY <1>8, CrashMoves
  <2>2. \A j \in 1..Len(lane) : lane'[j].stage \in Settled /\ lane'[j].stage # "accepting"
    BY <2>1 DEF Settled
  <2>3. CASE \E k \in 1..Len(lane) : \E e \in Event :
               Asked(k, e) /\ journal' = Append(journal, e) /\ e.type = "input/accepted"
    BY <2>1, <2>2, <2>3, AcceptanceRecorded
  <2>4. CASE \/ journal' = journal
             \/ \E e \in Event : journal' = Append(journal, e) /\ e.type # "input/accepted"
    BY <1>1, <2>1, <2>2, <2>4, OthersRecorded, AcceptedKept
  <2> QED BY <2>1, <2>3, <2>4
<1>9. CASE Commit
  <2>1. PICK k \in 1..Len(lane) : \E e \in Event :
          /\ UNCHANGED reading
          /\ Asked(k, e) /\ journal' = Append(journal, e) /\ Moves(k, AfterCommit(e.type))
    BY <1>9, CommitMoves DEF resumption
  <2>2. PICK e \in Event :
          /\ UNCHANGED reading
          /\ Asked(k, e) /\ journal' = Append(journal, e) /\ Moves(k, AfterCommit(e.type))
    BY <2>1
  <2>3. /\ Len(lane') = Len(lane)
        /\ \A j \in 1..Len(lane) : lane'[j].input = lane[j].input
        /\ \A j \in 1..Len(lane) :
             lane'[j].stage = IF j = k THEN AfterCommit(e.type) ELSE lane[j].stage
    BY <2>2 DEF Moves
  <2>4. AfterCommit(e.type) \notin Settled \cup {"accepting"}
    BY DEF AfterCommit, Settled
  <2>5. CASE e.type = "input/accepted"
    BY <2>2, <2>3, <2>4, <2>5, AcceptanceRecorded
  <2>6. CASE e.type # "input/accepted"
    <3>1. lane[k].stage \notin Settled \cup {"accepting"}
      BY <2>2, <2>6 DEF Asked, Settled
    <3> QED BY <1>1, <2>2, <2>3, <2>4, <2>6, <3>1, OthersRecorded, AcceptedKept
  <2> QED BY <2>5, <2>6
<1>10. CASE \E k \in 1..Len(lane) : EntryStep(k)
  <2>1. PICK k \in 1..Len(lane) : EntryStep(k)
    BY <1>10
  <2>2. /\ UNCHANGED <<journal, reading>>
        /\ \/ Moves(k, "stopped") /\ Refuse(k)
           \/ Moves(k, "starting") /\ Execute(k)
           \/ /\ lane[k].stage = "working"
              /\ Moves(k, "ending") \/ Moves(k, "catching")
           \/ Moves(k, "settled") /\ Settle(k)
    BY <2>1, EntryMoves DEF resumption
  <2>3. /\ Len(lane') = Len(lane)
        /\ \A j \in 1..Len(lane) :
             /\ lane'[j].input = lane[j].input
             /\ lane'[j].stage = "accepting" => lane[j].stage = "accepting"
             /\ lane'[j].stage \notin Settled \cup {"accepting"} =>
                  lane[j].stage \notin Settled \cup {"accepting"}
    BY <2>2 DEF Moves, Refuse, Execute, Settle, Settled
  <2> QED BY <1>1, <2>2, <2>3, OthersRecorded, AcceptedKept
<1> QED BY <1>2, <1>3, <1>4, <1>5, <1>6, <1>7, <1>8, <1>9, <1>10 DEF Next

LEMMA AcceptedInit == Init => AcceptedFirst /\ WaitingOnce /\ ConsumedOnce
<1> SUFFICES ASSUME Init PROVE AcceptedFirst /\ WaitingOnce /\ ConsumedOnce
  OBVIOUS
<1>1. Len(lane) = 0 /\ Len(journal) = 0 /\ Len(reading) = 0
  BY EmptySeq DEF Init
<1> QED BY <1>1 DEF AcceptedFirst, WaitingOnce, ConsumedOnce

Waiting == {"accepting", "queued", "starting"}

\* No entry is added, and what waits has not been consumed since.
LEMMA WaitingKept ==
  ASSUME WaitingOnce, outrun \subseteq outrun', Len(lane') = Len(lane),
         \A j \in 1..Len(lane) :
           /\ lane'[j].input = lane[j].input
           /\ lane'[j].stage \notin Settled => lane[j].stage \notin Settled
           /\ lane'[j].stage \in Waiting => lane[j].stage \in Waiting,
         \A j \in 1..Len(lane) : \A i :
           lane'[j].stage \in Waiting /\ i = lane[j].input => (Consumed(i)' => Consumed(i))
  PROVE  WaitingOnce'
<1>1. \A j, k \in 1..Len(lane') :
        /\ lane'[j].stage \notin Settled /\ lane'[k].stage \notin Settled
        /\ lane'[j].input = lane'[k].input
        => j = k
  BY DEF WaitingOnce
<1>2. ASSUME NEW k \in 1..Len(lane'), lane'[k].stage \in Waiting, lane'[k].input \notin outrun'
      PROVE  ~Consumed(lane[k].input)'
  <2>1. PICK i : i = lane[k].input
    OBVIOUS
  <2>2. ~Consumed(i)
    BY <1>2, <2>1 DEF WaitingOnce, Waiting
  <2>3. ~Consumed(i)' /\ lane'[k].input = i
    BY <1>2, <2>1, <2>2
  <2> QED BY <2>3 DEF Consumed
<1> QED BY <1>1, <1>2 DEF WaitingOnce, Waiting, Settled, Consumed

LEMMA WaitingStep ==
  ASSUME LaneInv, AcceptedFirst, WaitingOnce, [Next]_vars
  PROVE  WaitingOnce'
<1>1. TypeOK /\ Len(lane) \in Nat
  BY LenProperties DEF LaneInv, TypeOK
<1>2. journal' = journal => \A i : Consumed(i)' <=> Consumed(i)
  BY DEF Consumed
<1>3. CASE Send
  <2>1. /\ UNCHANGED <<journal, outrun>>
        /\ sent \in Nat
        /\ Len(lane') = Len(lane) + 1
        /\ \A j \in 1..Len(lane) : lane'[j] = lane[j]
        /\ lane'[Len(lane) + 1].input = sent + 1
        /\ lane'[Len(lane) + 1].stage = "accepting"
    BY <1>3, SendMoves DEF resumption
  <2>2. \A k \in 1..Len(lane') : k \in 1..Len(lane) \/ k = Len(lane) + 1
    BY <1>1, <2>1
  <2>3. \A k \in 1..Len(lane) : lane[k].input # sent + 1
    <3> SUFFICES ASSUME NEW k \in 1..Len(lane) PROVE lane[k].input # sent + 1
      OBVIOUS
    <3>1. lane[k].input <= sent /\ lane[k].input \in Nat
      BY <1>1, EntryType DEF LaneInv, OnlySent
    <3> QED BY <2>1, <3>1
  <2>4. ~Consumed(sent + 1)
    <3> SUFFICES ASSUME NEW n \in 1..Len(journal) PROVE journal[n].input # sent + 1
      BY DEF Consumed
    <3>1. journal[n].input <= sent /\ journal[n].input \in 1..MaxInputs
      BY <1>1, EventTyped DEF LaneInv, OnlySent
    <3> QED BY <2>1, <3>1, BoundsAssumption
  <2>5. \A j, k \in 1..Len(lane') :
          /\ lane'[j].stage \notin Settled /\ lane'[k].stage \notin Settled
          /\ lane'[j].input = lane'[k].input
          => j = k
    BY <2>1, <2>2, <2>3 DEF WaitingOnce
  <2>6. ASSUME NEW k \in 1..Len(lane'), lane'[k].stage \in Waiting, lane'[k].input \notin outrun'
        PROVE  ~Consumed(lane[k].input)'
    <3>1. PICK i : i = lane'[k].input
      OBVIOUS
    <3>2. ~Consumed(i)
      BY <2>1, <2>2, <2>4, <2>6, <3>1 DEF WaitingOnce, Waiting
    <3>3. ~Consumed(i)'
      BY <1>2, <2>1, <3>2
    <3> QED BY <3>1, <3>3 DEF Consumed
  <2> QED BY <2>5, <2>6 DEF WaitingOnce, Waiting, Settled, Consumed
<1>4. CASE Resume
  <2>1. PICK at \in [1..(Len(lane') - Len(lane)) -> 1..Len(reading)] :
          /\ Len(lane) <= Len(lane') /\ Len(lane') \in Nat
          /\ \A j \in 1..Len(lane) : lane'[j] = lane[j]
          /\ \A k \in 1..Len(lane') : k > Len(lane) =>
               /\ lane'[k].input = reading[at[k - Len(lane)]]
               /\ lane'[k].stage = "queued"
               /\ ~Scheduled(reading[at[k - Len(lane)]])
          /\ \A a, b \in 1..(Len(lane') - Len(lane)) : at[a] = at[b] => a = b
    BY <1>1, <1>4, ResumedEntries
  <2>2. /\ UNCHANGED journal
        /\ outrun' = outrun \cup {i \in {reading[m] : m \in {n \in 1..Len(reading) : ~Scheduled(reading[n])}} :
                                    Consumed(i)}
    BY <1>4 DEF Resume
  <2>3. \A k \in 1..Len(lane') : k \in 1..Len(lane) \/ k > Len(lane)
    BY <1>1, <2>1
  <2>4. ASSUME NEW k \in 1..Len(lane'), k > Len(lane)
        PROVE  /\ k - Len(lane) \in 1..(Len(lane') - Len(lane))
               /\ at[k - Len(lane)] \in 1..Len(reading)
               /\ ~Scheduled(lane'[k].input)
               /\ lane'[k].input = reading[at[k - Len(lane)]]
               /\ lane'[k].input \notin outrun' => ~Consumed(lane'[k].input)
    <3>1. k - Len(lane) \in 1..(Len(lane') - Len(lane))
      BY <1>1, <2>1, <2>4
    <3>2. at[k - Len(lane)] \in 1..Len(reading)
      BY <2>1, <3>1
    <3>3. lane'[k].input = reading[at[k - Len(lane)]] /\ ~Scheduled(lane'[k].input)
      BY <2>1, <2>4
    <3> QED BY <2>2, <3>1, <3>2, <3>3
  <2>5. ASSUME NEW j \in 1..Len(lane'), NEW k \in 1..Len(lane'),
               lane'[j].stage \notin Settled, lane'[k].stage \notin Settled,
               lane'[j].input = lane'[k].input
        PROVE  j = k
    <3>1. CASE j \in 1..Len(lane) /\ k \in 1..Len(lane)
      BY <2>1, <2>5, <3>1 DEF WaitingOnce
    <3>2. CASE j \in 1..Len(lane) /\ k > Len(lane)
      BY <2>1, <2>4, <2>5, <3>2 DEF Scheduled
    <3>3. CASE j > Len(lane) /\ k \in 1..Len(lane)
      BY <2>1, <2>4, <2>5, <3>3 DEF Scheduled
    <3>4. CASE j > Len(lane) /\ k > Len(lane)
      <4>1. reading[at[j - Len(lane)]] = reading[at[k - Len(lane)]]
        BY <2>4, <2>5, <3>4
      <4>2. at[j - Len(lane)] = at[k - Len(lane)]
        BY <2>4, <3>4, <4>1 DEF AcceptedFirst
      <4>3. j - Len(lane) = k - Len(lane)
        BY <2>1, <2>4, <3>4, <4>2
      <4> QED BY <1>1, <2>1, <4>3
    <3> QED BY <2>3, <3>1, <3>2, <3>3, <3>4
  <2>6. ASSUME NEW k \in 1..Len(lane'), lane'[k].stage \in Waiting, lane'[k].input \notin outrun'
        PROVE  ~Consumed(lane[k].input)'
    <3>1. PICK i : i = lane'[k].input
      OBVIOUS
    <3>2. ~Consumed(i)
      <4>1. CASE k \in 1..Len(lane)
        BY <2>1, <2>2, <2>6, <3>1, <4>1 DEF WaitingOnce, Waiting
      <4>2. CASE k > Len(lane)
        BY <2>4, <2>6, <3>1, <4>2
      <4> QED BY <2>3, <4>1, <4>2
    <3>3. ~Consumed(i)'
      BY <1>2, <2>2, <3>2
    <3> QED BY <3>1, <3>3 DEF Consumed
  <2> QED BY <2>5, <2>6 DEF WaitingOnce, Waiting, Settled, Consumed
<1>5. CASE Cancel \/ Shutdown \/ ShutdownReturns \/ ReadPending \/ UNCHANGED vars
  BY <1>2, <1>5, QuietMoves, WaitingKept
<1>6. CASE Open
  <2>1. /\ UNCHANGED <<lane, outrun>>
        /\ \A k \in 1..Len(lane) : lane[k].stage \in Settled
    BY <1>6, OpenMoves DEF resumption
  <2>2. \A k \in 1..Len(lane) : lane[k].stage \notin Waiting
    BY <2>1 DEF Settled, Waiting
  <2> QED BY <2>1, <2>2, WaitingKept
<1>7. CASE FailAppend
  <2>1. /\ UNCHANGED <<journal, outrun>> /\ Len(lane') = Len(lane)
        /\ \A j \in 1..Len(lane) :
             /\ lane'[j].input = lane[j].input
             /\ lane'[j].stage \notin Settled => lane[j].stage \notin Settled
             /\ lane'[j].stage \in Waiting => lane[j].stage \in Waiting
    BY <1>7, FailMoves DEF Moves, Settled, Waiting, resumption
  <2> QED BY <1>2, <2>1, WaitingKept
<1>8. CASE Crash
  <2>1. /\ Len(lane') = Len(lane) /\ outrun' = outrun
        /\ \A j \in 1..Len(lane) :
             /\ lane'[j].input = lane[j].input
             /\ lane'[j].stage = IF lane[j].stage \in Settled THEN lane[j].stage ELSE "lost"
    BY <1>8, CrashMoves
  <2>2. \A j \in 1..Len(lane) : lane'[j].stage \in Settled /\ lane'[j].stage \notin Waiting
    BY <2>1 DEF Settled, Waiting
  <2> QED BY <2>1, <2>2, WaitingKept
<1>9. CASE Commit
  <2>1. PICK k \in 1..Len(lane) : \E e \in Event :
          /\ UNCHANGED outrun
          /\ Asked(k, e) /\ journal' = Append(journal, e) /\ Moves(k, AfterCommit(e.type))
    BY <1>9, CommitMoves DEF resumption
  <2>2. PICK e \in Event :
          /\ UNCHANGED outrun
          /\ Asked(k, e) /\ journal' = Append(journal, e) /\ Moves(k, AfterCommit(e.type))
    BY <2>1
  <2>3. /\ Len(lane') = Len(lane)
        /\ \A j \in 1..Len(lane) : lane'[j].input = lane[j].input
        /\ \A j \in 1..Len(lane) :
             lane'[j].stage = IF j = k THEN AfterCommit(e.type) ELSE lane[j].stage
    BY <2>2 DEF Moves
  <2>4. /\ lane[k].stage \notin Settled /\ e.input = lane[k].input
        /\ AfterCommit(e.type) \in Waiting => lane[k].stage \in Waiting
        /\ e.type = "turn/started" => AfterCommit(e.type) \notin Waiting
    BY <2>2 DEF Asked, AfterCommit, Settled, Waiting, TryEnd, CatchEnd
  <2>5. ASSUME NEW j \in 1..Len(lane), NEW i, lane'[j].stage \in Waiting, i = lane[j].input,
               Consumed(i)'
        PROVE  Consumed(i)
    <3>1. Consumed(i) \/ (e.type = "turn/started" /\ e.input = i)
      BY <1>1, <2>2, <2>5, InputRecorded
    <3>2. ASSUME e.type = "turn/started", e.input = i PROVE FALSE
      <4>1. j # k /\ lane[j].stage \in Waiting
        BY <2>3, <2>4, <2>5, <3>2
      <4>2. lane[j].stage \notin Settled
        BY <4>1 DEF Waiting, Settled
      <4> QED BY <2>4, <2>5, <3>2, <4>1, <4>2 DEF WaitingOnce
    <3> QED BY <3>1, <3>2
  <2> QED BY <2>2, <2>3, <2>4, <2>5, WaitingKept
<1>10. CASE \E k \in 1..Len(lane) : EntryStep(k)
  <2>1. PICK k \in 1..Len(lane) : EntryStep(k)
    BY <1>10
  <2>2. /\ UNCHANGED <<journal, outrun>>
        /\ \/ Moves(k, "stopped") /\ Refuse(k)
           \/ Moves(k, "starting") /\ Execute(k)
           \/ /\ lane[k].stage = "working"
              /\ Moves(k, "ending") \/ Moves(k, "catching")
           \/ Moves(k, "settled") /\ Settle(k)
    BY <2>1, EntryMoves DEF resumption
  <2>3. /\ Len(lane') = Len(lane)
        /\ \A j \in 1..Len(lane) :
             /\ lane'[j].input = lane[j].input
             /\ lane'[j].stage \notin Settled => lane[j].stage \notin Settled
             /\ lane'[j].stage \in Waiting => lane[j].stage \in Waiting
    BY <2>2 DEF Moves, Refuse, Execute, Settle, Settled, Waiting
  <2> QED BY <1>2, <2>2, <2>3, WaitingKept
<1> QED BY <1>3, <1>4, <1>5, <1>6, <1>7, <1>8, <1>9, <1>10 DEF Next

\* The record grows by one event, which starts no Turn of a consumed Input.
LEMMA ConsumedGrows ==
  ASSUME TypeOK, ConsumedOnce, NEW e \in Event, journal' = Append(journal, e),
         outrun \subseteq outrun',
         e.type = "turn/started" =>
           Accepted(e.input) /\ (e.input \notin outrun => ~Consumed(e.input))
  PROVE  ConsumedOnce'
<1>1. /\ Len(journal) \in Nat /\ Len(journal') = Len(journal) + 1
      /\ \A n \in 1..Len(journal) : journal'[n] = journal[n]
      /\ journal'[Len(journal) + 1] = e
  BY Recorded
<1> SUFFICES ASSUME NEW n \in 1..Len(journal'), journal'[n].type = "turn/started"
             PROVE  /\ \E m \in 1..(n - 1) : /\ journal'[m].type = "input/accepted"
                                             /\ journal'[m].input = journal'[n].input
                    /\ \A m \in 1..(n - 1) :
                         journal'[m].type = "turn/started" /\ journal'[n].input \notin outrun'
                           => journal'[m].input # journal'[n].input
  BY DEF ConsumedOnce
<1>2. \A m \in 1..(n - 1) : m \in 1..Len(journal) /\ journal'[m] = journal[m]
  BY <1>1
<1>3. CASE n \in 1..Len(journal)
  <2>1. /\ \E m \in 1..(n - 1) : /\ journal[m].type = "input/accepted"
                                 /\ journal[m].input = journal[n].input
        /\ \A m \in 1..(n - 1) :
             journal[m].type = "turn/started" /\ journal[n].input \notin outrun
               => journal[m].input # journal[n].input
    BY <1>1, <1>3 DEF ConsumedOnce
  <2> QED BY <1>1, <1>2, <1>3, <2>1
<1>4. CASE n = Len(journal) + 1
  <2>1. 1..(n - 1) = 1..Len(journal) /\ journal'[n] = e
    BY <1>1, <1>4
  <2> QED BY <1>2, <2>1 DEF Accepted, Consumed
<1> QED BY <1>1, <1>3, <1>4

LEMMA ConsumedStep ==
  ASSUME LaneInv, AcceptedFirst, WaitingOnce, ConsumedOnce, [Next]_vars
  PROVE  ConsumedOnce'
<1>1. TypeOK
  BY DEF LaneInv
<1>2. ASSUME journal' = journal, outrun \subseteq outrun' PROVE ConsumedOnce'
  BY <1>2 DEF ConsumedOnce
<1>3. CASE Commit \/ Crash
  <2>1. /\ outrun' = outrun
        /\ \/ journal' = journal
           \/ \E k \in 1..Len(lane) : \E e \in Event :
                Asked(k, e) /\ journal' = Append(journal, e)
    <3>1. CASE Commit
      BY <3>1, CommitMoves DEF resumption
    <3>2. CASE Crash
      BY <3>2, CrashMoves
    <3> QED BY <1>3, <3>1, <3>2
  <2>2. ASSUME NEW k \in 1..Len(lane), NEW e \in Event, Asked(k, e), journal' = Append(journal, e)
        PROVE  ConsumedOnce'
    <3>1. ASSUME e.type = "turn/started"
          PROVE  Accepted(e.input) /\ (e.input \notin outrun => ~Consumed(e.input))
      <4>1. e.input = lane[k].input /\ lane[k].stage = "starting"
        BY <2>2, <3>1 DEF Asked, TryEnd, CatchEnd
      <4>2. lane[k].stage \notin Settled \cup {"accepting"}
        BY <4>1 DEF Settled
      <4> QED BY <4>1, <4>2 DEF AcceptedFirst, WaitingOnce
    <3> QED BY <1>1, <2>1, <2>2, <3>1, ConsumedGrows
  <2> QED BY <1>2, <2>1, <2>2
<1>4. CASE Open
  <2>1. /\ outrun' = outrun
        /\ \/ journal' = journal
           \/ \E e \in Event : journal' = Append(journal, e) /\ e.type = "turn/interrupted"
    BY <1>4, OpenMoves DEF resumption
  <2> QED BY <1>1, <1>2, <2>1, ConsumedGrows
<1>5. CASE \/ Send \/ Resume \/ FailAppend \/ Cancel \/ Shutdown \/ ShutdownReturns \/ ReadPending
           \/ UNCHANGED vars \/ \E k \in 1..Len(lane) : EntryStep(k)
  <2>1. journal' = journal /\ outrun \subseteq outrun'
    BY <1>5, SendMoves, FailMoves, QuietMoves, EntryMoves DEF Resume, resumption
  <2> QED BY <1>2, <2>1
<1> QED BY <1>3, <1>4, <1>5 DEF Next

\* ConsumedOnce, of every behaviour: an Input is durably accepted before its Turn,
\* and starts one Turn only, across crashes, reopenings and resumptions, unless a
\* whole Turn passed while the journal answered a resumption's read.
THEOREM InputsRunOnce == Spec => []ConsumedOnce
<1>1. /\ LaneInv /\ AcceptedFirst /\ WaitingOnce /\ ConsumedOnce /\ [Next]_vars
           => LaneInv' /\ AcceptedFirst' /\ WaitingOnce' /\ ConsumedOnce'
  BY LaneStep, AcceptedStep, WaitingStep, ConsumedStep
<1> QED BY LaneInit, AcceptedInit, <1>1, PTL DEF Spec

-----------------------------------------------------------------------------
(* No accepted Input is forgotten.                                         *)

\* The latest entry of Input i is not settled by a Turn.
Remembered(i) ==
  \E k \in 1..Len(lane) : /\ lane[k].input = i
                          /\ lane[k].stage # "settled"
                          /\ \A j \in (k + 1)..Len(lane) : lane[j].input # i

\* PendingNotForgotten, said of the Inputs.
NotForgotten ==
  failures = 0 => \A i \in 1..MaxInputs : Accepted(i) /\ ~Consumed(i) => Remembered(i)

LEMMA ForgottenInit == Init => RunConsumes /\ NotForgotten
<1> SUFFICES ASSUME Init PROVE RunConsumes /\ NotForgotten
  OBVIOUS
<1>1. Len(lane) = 0 /\ Len(journal) = 0
  BY EmptySeq DEF Init
<1> QED BY <1>1 DEF RunConsumes, NotForgotten, Accepted

\* No Turn starts to work, and what was consumed stays so.
LEMMA RunKept ==
  ASSUME RunConsumes, failures' = 0 => failures = 0, Len(lane) \in Nat,
         Len(lane) <= Len(lane'), Len(lane') \in Nat,
         \A i : Consumed(i) => Consumed(i)',
         \A j \in 1..Len(lane) :
           /\ lane'[j].input = lane[j].input
           /\ lane'[j].stage \in Begun \cup {"ended"} => lane[j].stage \in Begun \cup {"ended"},
         \A j \in 1..Len(lane') : j > Len(lane) => lane'[j].stage \notin Begun \cup {"ended"}
  PROVE  RunConsumes'
<1> SUFFICES ASSUME failures' = 0, NEW k \in 1..Len(lane'),
                    lane'[k].stage \in Begun \cup {"ended"}
             PROVE  Consumed(lane[k].input)'
  BY DEF RunConsumes, Begun, Consumed
<1>1. k \in 1..Len(lane)
  OBVIOUS
<1>2. PICK i : i = lane[k].input
  OBVIOUS
<1>3. Consumed(i)'
  BY <1>1, <1>2 DEF RunConsumes
<1>4. lane'[k].input = i
  BY <1>1, <1>2
<1> QED BY <1>3, <1>4 DEF Consumed

LEMMA RecordOnlyGrows ==
  ASSUME TypeOK, journal' = journal \/ \E e \in Event : journal' = Append(journal, e)
  PROVE  \A i : (Consumed(i) => Consumed(i)') /\ (Accepted(i) => Accepted(i)')
<1>1. CASE journal' = journal
  BY <1>1 DEF Consumed, Accepted
<1>2. CASE \E e \in Event : journal' = Append(journal, e)
  BY <1>2, InputRecorded
<1> QED BY <1>1, <1>2

LEMMA RunStep ==
  ASSUME LaneInv, RunConsumes, [Next]_vars
  PROVE  RunConsumes'
<1>1. TypeOK /\ Len(lane) \in Nat /\ Len(lane) <= Len(lane)
  BY LenProperties DEF LaneInv, TypeOK
<1>2. CASE Send
  <2>1. /\ journal' = journal /\ failures' = failures
        /\ Len(lane') = Len(lane) + 1
        /\ \A j \in 1..Len(lane) : lane'[j] = lane[j]
        /\ lane'[Len(lane) + 1].stage = "accepting"
    BY <1>2, SendMoves
  <2>2. \A j \in 1..Len(lane') : j > Len(lane) => lane'[j].stage \notin Begun \cup {"ended"}
    BY <1>1, <2>1 DEF Begun
  <2>3. Len(lane) <= Len(lane') /\ Len(lane') \in Nat
    BY <1>1, <2>1
  <2> QED BY <1>1, <2>1, <2>2, <2>3, RecordOnlyGrows, RunKept
<1>3. CASE Resume
  <2>1. /\ Len(lane) <= Len(lane') /\ Len(lane') \in Nat
        /\ \A j \in 1..Len(lane) : lane'[j] = lane[j]
        /\ \A j \in 1..Len(lane') : j > Len(lane) => lane'[j].stage = "queued"
    BY <1>1, <1>3, ResumedEntries
  <2>2. \A j \in 1..Len(lane') : j > Len(lane) => lane'[j].stage \notin Begun \cup {"ended"}
    BY <2>1 DEF Begun
  <2>3. journal' = journal /\ failures' = failures
    BY <1>3 DEF Resume
  <2> QED BY <1>1, <2>1, <2>2, <2>3, RecordOnlyGrows, RunKept
<1>4. CASE Cancel \/ Shutdown \/ ShutdownReturns \/ ReadPending \/ UNCHANGED vars
  <2>1. /\ journal' = journal /\ failures' = failures /\ Len(lane') = Len(lane)
        /\ \A j \in 1..Len(lane) : /\ lane'[j].input = lane[j].input
                                   /\ lane'[j].stage = lane[j].stage
    BY <1>4, QuietMoves
  <2>2. \A j \in 1..Len(lane') : j > Len(lane) => lane'[j].stage \notin Begun \cup {"ended"}
    BY <1>1, <2>1
  <2> QED BY <1>1, <2>1, <2>2, RecordOnlyGrows, RunKept
<1>5. CASE FailAppend
  BY <1>5, FailMoves DEF RunConsumes
<1>6. CASE Crash \/ Open
  <2>1. /\ Len(lane') = Len(lane)
        /\ \A j \in 1..Len(lane) : lane'[j].stage \in Settled
    <3>1. CASE Crash
      <4>1. /\ Len(lane') = Len(lane)
            /\ \A j \in 1..Len(lane) :
                 lane'[j].stage = IF lane[j].stage \in Settled THEN lane[j].stage ELSE "lost"
        BY <3>1, CrashMoves
      <4> QED BY <4>1 DEF Settled
    <3>2. CASE Open
      BY <3>2, OpenMoves
    <3> QED BY <1>6, <3>1, <3>2
  <2>2. \A j \in 1..Len(lane') : lane'[j].stage \notin Begun \cup {"ended"}
    BY <2>1 DEF Settled, Begun
  <2> QED BY <2>2 DEF RunConsumes, Begun
<1>7. CASE Commit
  <2>1. PICK k \in 1..Len(lane) : \E e \in Event :
          /\ failures' = failures
          /\ Asked(k, e) /\ journal' = Append(journal, e) /\ Moves(k, AfterCommit(e.type))
    BY <1>7, CommitMoves
  <2>2. PICK e \in Event :
          /\ failures' = failures
          /\ Asked(k, e) /\ journal' = Append(journal, e) /\ Moves(k, AfterCommit(e.type))
    BY <2>1
  <2>3. /\ Len(lane') = Len(lane)
        /\ \A j \in 1..Len(lane) : lane'[j].input = lane[j].input
        /\ \A j \in 1..Len(lane) :
             lane'[j].stage = IF j = k THEN AfterCommit(e.type) ELSE lane[j].stage
    BY <2>2 DEF Moves
  <2>4. ASSUME NEW j \in 1..Len(lane), failures = 0, lane'[j].stage \in Begun \cup {"ended"}
        PROVE  \A i : i = lane[j].input => Consumed(i)'
    <3>1. \A i : Consumed(i)' <=> Consumed(i) \/ (e.type = "turn/started" /\ e.input = i)
      BY <1>1, <2>2, InputRecorded
    <3>2. CASE j # k
      BY <2>3, <2>4, <3>1, <3>2 DEF RunConsumes
    <3>3. CASE j = k
      <4>1. e.type # "input/accepted" /\ e.input = lane[k].input
        BY <2>2, <2>3, <2>4, <3>3 DEF AfterCommit, Begun, Asked
      <4>2. CASE e.type = "turn/started"
        BY <3>1, <3>3, <4>1, <4>2
      <4>3. CASE lane[k].stage \in {"ending", "catching"}
        BY <2>4, <3>1, <3>3, <4>3 DEF RunConsumes, Begun
      <4> QED BY <2>2, <4>1, <4>2, <4>3 DEF Asked
    <3> QED BY <3>2, <3>3
  <2> SUFFICES ASSUME failures = 0, NEW j \in 1..Len(lane),
                      lane'[j].stage \in Begun \cup {"ended"}
               PROVE  Consumed(lane[j].input)'
    BY <2>2, <2>3 DEF RunConsumes, Begun, Consumed
  <2>5. PICK i : i = lane[j].input
    OBVIOUS
  <2>6. Consumed(i)' /\ lane'[j].input = i
    BY <2>3, <2>4, <2>5
  <2> QED BY <2>6 DEF Consumed
<1>8. CASE \E k \in 1..Len(lane) : EntryStep(k)
  <2>1. PICK k \in 1..Len(lane) : EntryStep(k)
    BY <1>8
  <2>2. /\ UNCHANGED <<journal, failures>>
        /\ \/ Moves(k, "stopped") /\ Refuse(k)
           \/ Moves(k, "starting") /\ Execute(k)
           \/ /\ lane[k].stage = "working"
              /\ Moves(k, "ending") \/ Moves(k, "catching")
           \/ Moves(k, "settled") /\ Settle(k)
    BY <2>1, EntryMoves
  <2>3. /\ Len(lane') = Len(lane)
        /\ \A j \in 1..Len(lane) :
             /\ lane'[j].input = lane[j].input
             /\ lane'[j].stage \in Begun \cup {"ended"} => lane[j].stage \in Begun \cup {"ended"}
    BY <2>2 DEF Moves, Refuse, Execute, Settle, Begun
  <2>4. \A j \in 1..Len(lane') : j > Len(lane) => lane'[j].stage \notin Begun \cup {"ended"}
    BY <1>1, <2>3
  <2> QED BY <1>1, <2>2, <2>3, <2>4, RecordOnlyGrows, RunKept
<1> QED BY <1>2, <1>3, <1>4, <1>5, <1>6, <1>7, <1>8 DEF Next

LEMMA RememberedKept ==
  ASSUME NEW i, Remembered(i), Len(lane') = Len(lane), Len(lane) \in Nat,
         \A j \in 1..Len(lane) :
           /\ lane'[j].input = lane[j].input
           /\ lane[j].input = i /\ lane[j].stage # "settled" => lane'[j].stage # "settled"
  PROVE  Remembered(i)'
<1>1. PICK k \in 1..Len(lane) : /\ lane[k].input = i
                                /\ lane[k].stage # "settled"
                                /\ \A j \in (k + 1)..Len(lane) : lane[j].input # i
  BY DEF Remembered
<1>2. \A j \in (k + 1)..Len(lane) : j \in 1..Len(lane)
  OBVIOUS
<1> QED BY <1>1, <1>2 DEF Remembered

\* The entry that waits for the acceptance of its Input is remembered.
LEMMA AcceptingRemembered ==
  ASSUME AcceptedFirst, NEW k \in 1..Len(lane), lane[k].stage = "accepting", Len(lane) \in Nat
  PROVE  Remembered(lane[k].input)
<1>1. \A j \in (k + 1)..Len(lane) : j \in 1..Len(lane) /\ j # k
  OBVIOUS
<1> QED BY <1>1 DEF AcceptedFirst, Remembered

\* What an append in progress leaves pending was pending or was being accepted.
LEMMA AppendRemembers ==
  ASSUME LaneInv, AcceptedFirst, NotForgotten, failures = 0,
         \/ journal' = journal
         \/ \E k \in 1..Len(lane) : \E e \in Event : Asked(k, e) /\ journal' = Append(journal, e),
         NEW i \in 1..MaxInputs, Accepted(i)', ~Consumed(i)'
  PROVE  Remembered(i)
<1>1. TypeOK /\ Len(lane) \in Nat
  BY LenProperties DEF LaneInv, TypeOK
<1>2. CASE journal' = journal
  BY <1>2 DEF NotForgotten, Accepted, Consumed
<1>3. CASE \E k \in 1..Len(lane) : \E e \in Event : Asked(k, e) /\ journal' = Append(journal, e)
  <2>1. PICK k \in 1..Len(lane) : \E e \in Event : Asked(k, e) /\ journal' = Append(journal, e)
    BY <1>3
  <2>2. PICK e \in Event : Asked(k, e) /\ journal' = Append(journal, e)
    BY <2>1
  <2>3. /\ Accepted(i) \/ (e.type = "input/accepted" /\ e.input = i)
        /\ ~Consumed(i)
    BY <1>1, <2>2, InputRecorded
  <2>4. CASE Accepted(i)
    BY <2>3, <2>4 DEF NotForgotten
  <2>5. CASE e.type = "input/accepted" /\ e.input = i
    <3>1. lane[k].stage = "accepting" /\ lane[k].input = i
      BY <2>2, <2>5 DEF Asked, TryEnd, CatchEnd
    <3> QED BY <1>1, <3>1, AcceptingRemembered
  <2> QED BY <2>3, <2>4, <2>5
<1> QED BY <1>2, <1>3

LEMMA ForgottenStep ==
  ASSUME LaneInv, AcceptedFirst, RunConsumes, NotForgotten, [Next]_vars
  PROVE  NotForgotten'
<1>1. TypeOK /\ Len(lane) \in Nat
  BY LenProperties DEF LaneInv, TypeOK
<1> SUFFICES ASSUME failures' = 0, NEW i \in 1..MaxInputs, Accepted(i)', ~Consumed(i)'
             PROVE  Remembered(i)'
  BY DEF NotForgotten
<1>2. journal' = journal /\ failures' = failures => Remembered(i)
  BY DEF NotForgotten, Accepted, Consumed
<1>3. CASE Send
  <2>1. /\ journal' = journal /\ failures' = failures
        /\ sent \in Nat
        /\ Len(lane') = Len(lane) + 1
        /\ \A j \in 1..Len(lane) : lane'[j] = lane[j]
        /\ lane'[Len(lane) + 1].input = sent + 1
    BY <1>3, SendMoves
  <2>2. PICK k \in 1..Len(lane) : /\ lane[k].input = i
                                  /\ lane[k].stage # "settled"
                                  /\ \A j \in (k + 1)..Len(lane) : lane[j].input # i
    BY <1>2, <2>1 DEF Remembered
  <2>3. i # sent + 1
    <3>1. lane[k].input <= sent /\ lane[k].input \in Nat
      BY <1>1, EntryType DEF LaneInv, OnlySent
    <3> QED BY <2>1, <2>2, <3>1
  <2>4. \A j \in (k + 1)..Len(lane') : lane'[j].input # i
    <3> SUFFICES ASSUME NEW j \in (k + 1)..Len(lane') PROVE lane'[j].input # i
      OBVIOUS
    <3>1. (j \in (k + 1)..Len(lane) /\ j \in 1..Len(lane)) \/ j = Len(lane) + 1
      BY <1>1, <2>1
    <3> QED BY <2>1, <2>2, <2>3, <3>1
  <2>5. k \in 1..Len(lane')
    BY <1>1, <2>1
  <2> QED BY <2>1, <2>2, <2>4, <2>5 DEF Remembered
<1>4. CASE Resume
  <2>1. PICK at \in [1..(Len(lane') - Len(lane)) -> 1..Len(reading)] :
          /\ Len(lane) <= Len(lane') /\ Len(lane') \in Nat
          /\ \A j \in 1..Len(lane) : lane'[j] = lane[j]
          /\ \A k \in 1..Len(lane') : k > Len(lane) =>
               /\ lane'[k].input = reading[at[k - Len(lane)]]
               /\ lane'[k].stage = "queued"
          /\ \A a, b \in 1..(Len(lane') - Len(lane)) : at[a] = at[b] => a = b
    BY <1>1, <1>4, ResumedEntries
  <2>2. journal' = journal /\ failures' = failures
    BY <1>4 DEF Resume
  <2>3. \A k \in 1..Len(lane') : k > Len(lane) =>
          /\ k - Len(lane) \in 1..(Len(lane') - Len(lane))
          /\ at[k - Len(lane)] \in 1..Len(reading)
    <3> SUFFICES ASSUME NEW k \in 1..Len(lane'), k > Len(lane)
                 PROVE  /\ k - Len(lane) \in 1..(Len(lane') - Len(lane))
                        /\ at[k - Len(lane)] \in 1..Len(reading)
      OBVIOUS
    <3>1. k - Len(lane) \in 1..(Len(lane') - Len(lane))
      BY <1>1, <2>1
    <3> QED BY <2>1, <3>1
  <2>4. CASE \E k \in 1..Len(lane') : k > Len(lane) /\ lane'[k].input = i
    <3>1. PICK k \in 1..Len(lane') : k > Len(lane) /\ lane'[k].input = i
      BY <2>4
    <3>2. ASSUME NEW j \in (k + 1)..Len(lane'), lane'[j].input = i PROVE FALSE
      <4>1. j \in 1..Len(lane') /\ j > Len(lane) /\ j # k
        BY <1>1, <2>1, <3>1
      <4>2. reading[at[j - Len(lane)]] = reading[at[k - Len(lane)]]
        BY <2>1, <3>1, <3>2, <4>1
      <4>3. at[j - Len(lane)] = at[k - Len(lane)]
        BY <2>3, <3>1, <4>1, <4>2 DEF AcceptedFirst
      <4>4. j - Len(lane) = k - Len(lane)
        BY <2>1, <2>3, <3>1, <4>1, <4>3
      <4> QED BY <1>1, <2>1, <4>1, <4>4
    <3> QED BY <2>1, <3>1, <3>2 DEF Remembered
  <2>5. CASE ~\E k \in 1..Len(lane') : k > Len(lane) /\ lane'[k].input = i
    <3>1. PICK k \in 1..Len(lane) : /\ lane[k].input = i
                                    /\ lane[k].stage # "settled"
                                    /\ \A j \in (k + 1)..Len(lane) : lane[j].input # i
      BY <1>2, <2>2 DEF Remembered
    <3>2. \A j \in (k + 1)..Len(lane') : lane'[j].input # i
      <4> SUFFICES ASSUME NEW j \in (k + 1)..Len(lane') PROVE lane'[j].input # i
        OBVIOUS
      <4>1. \/ j \in (k + 1)..Len(lane) /\ j \in 1..Len(lane)
            \/ j \in 1..Len(lane') /\ j > Len(lane)
        BY <1>1, <2>1
      <4> QED BY <2>1, <2>5, <3>1, <4>1
    <3>3. k \in 1..Len(lane')
      BY <1>1, <2>1
    <3> QED BY <2>1, <3>1, <3>2, <3>3 DEF Remembered
  <2> QED BY <2>4, <2>5
<1>5. CASE Cancel \/ Shutdown \/ ShutdownReturns \/ ReadPending \/ UNCHANGED vars
  BY <1>1, <1>2, <1>5, QuietMoves, RememberedKept
<1>6. CASE FailAppend
  BY <1>6, FailMoves
<1>7. CASE Open
  <2>1. /\ UNCHANGED <<lane, failures>>
        /\ \/ journal' = journal
           \/ \E e \in Event : journal' = Append(journal, e) /\ e.type = "turn/interrupted"
    BY <1>7, OpenMoves
  <2>2. Accepted(i) /\ ~Consumed(i)
    <3>1. CASE journal' = journal
      BY <3>1 DEF Accepted, Consumed
    <3>2. CASE \E e \in Event : journal' = Append(journal, e) /\ e.type = "turn/interrupted"
      BY <1>1, <3>2, InputRecorded
    <3> QED BY <2>1, <3>1, <3>2
  <2>3. Remembered(i)
    BY <2>1, <2>2 DEF NotForgotten
  <2> QED BY <2>1, <2>3 DEF Remembered
<1>8. CASE Crash
  <2>1. /\ failures' = failures /\ Len(lane') = Len(lane)
        /\ \A j \in 1..Len(lane) :
             /\ lane'[j].input = lane[j].input
             /\ lane'[j].stage = IF lane[j].stage \in Settled THEN lane[j].stage ELSE "lost"
        /\ \/ journal' = journal
           \/ \E k \in 1..Len(lane) : \E e \in Event : Asked(k, e) /\ journal' = Append(journal, e)
    BY <1>8, CrashMoves
  <2>2. Remembered(i)
    BY <2>1, AppendRemembers
  <2> QED BY <1>1, <2>1, <2>2, RememberedKept
<1>9. CASE Commit
  <2>1. PICK k \in 1..Len(lane) : \E e \in Event :
          /\ failures' = failures
          /\ Asked(k, e) /\ journal' = Append(journal, e) /\ Moves(k, AfterCommit(e.type))
    BY <1>9, CommitMoves
  <2>2. PICK e \in Event :
          /\ failures' = failures
          /\ Asked(k, e) /\ journal' = Append(journal, e) /\ Moves(k, AfterCommit(e.type))
    BY <2>1
  <2>3. Remembered(i)
    BY <2>2, AppendRemembers
  <2>4. AfterCommit(e.type) # "settled"
    BY DEF AfterCommit
  <2> QED BY <1>1, <2>2, <2>3, <2>4, RememberedKept DEF Moves
<1>10. CASE \E k \in 1..Len(lane) : EntryStep(k)
  <2>1. PICK k \in 1..Len(lane) : EntryStep(k)
    BY <1>10
  <2>2. /\ UNCHANGED <<journal, failures>>
        /\ \/ Moves(k, "stopped") /\ Refuse(k)
           \/ Moves(k, "starting") /\ Execute(k)
           \/ /\ lane[k].stage = "working"
              /\ Moves(k, "ending") \/ Moves(k, "catching")
           \/ Moves(k, "settled") /\ Settle(k)
    BY <2>1, EntryMoves
  <2>3. Settle(k) => lane[k].input # i
    <3>1. SUFFICES ASSUME Settle(k) PROVE Consumed(lane[k].input) /\ ~Consumed(i)
      OBVIOUS
    <3>2. Consumed(lane[k].input)
      BY <2>2, <3>1 DEF Settle, RunConsumes
    <3> QED BY <2>2, <3>2 DEF Consumed
  <2>4. /\ Len(lane') = Len(lane)
        /\ \A j \in 1..Len(lane) :
             /\ lane'[j].input = lane[j].input
             /\ lane[j].input = i /\ lane[j].stage # "settled" => lane'[j].stage # "settled"
    BY <2>2, <2>3 DEF Moves
  <2> QED BY <1>1, <1>2, <2>2, <2>4, RememberedKept
<1> QED BY <1>3, <1>4, <1>5, <1>6, <1>7, <1>8, <1>9, <1>10 DEF Next

\* PendingNotForgotten, of every behaviour: while no append failed, an accepted
\* Input that no Turn consumed has a promise that is pending, refused or lost.
THEOREM PendingIsRemembered == Spec => []PendingNotForgotten
<1>1. LaneInv /\ NotForgotten => PendingNotForgotten
  <2> SUFFICES ASSUME LaneInv, NotForgotten, NEW n \in PendingInputs, failures = 0
               PROVE  Remembered(journal[n].input)
    BY DEF PendingNotForgotten, Remembered
  <2>1. /\ n \in 1..Len(journal) /\ journal[n].type = "input/accepted"
        /\ ~Consumed(journal[n].input)
    BY DEF PendingInputs
  <2>2. journal[n].input \in 1..MaxInputs /\ Accepted(journal[n].input)
    BY <2>1, EventTyped DEF LaneInv, Accepted
  <2> QED BY <2>1, <2>2 DEF NotForgotten
<1>2. /\ LaneInv /\ AcceptedFirst /\ RunConsumes /\ NotForgotten /\ [Next]_vars
           => LaneInv' /\ AcceptedFirst' /\ RunConsumes' /\ NotForgotten'
  BY LaneStep, AcceptedStep, RunStep, ForgottenStep
<1> QED BY LaneInit, AcceptedInit, ForgottenInit, <1>1, <1>2, PTL DEF Spec
=============================================================================
