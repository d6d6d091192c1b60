------------------------- MODULE JsonlJournalProofs -------------------------
(***************************************************************************)
(* Machine-checked facts about JsonlJournal.tla, for any appends, batches  *)
(* and revisions.  The facts on contents suppose what the architecture     *)
(* has: one JsonlSessionJournal object on a directory.                     *)
(***************************************************************************)
EXTENDS JsonlJournal, SequenceTheorems, TLAPS

\* One object at a time works on the directory.
OneObject == \A i, j \in Instances : i = j

LEMMA BatchType ==
  ASSUME TypeOK, NEW r \in Requests
  PROVE  /\ Batch(r) \in Seq(Event)
         /\ Len(Batch(r)) = request[r].size
         /\ \A k \in 1..request[r].size : Batch(r)[k] = <<r, k>>
<1>1. request[r].size \in 1..MaxBatch /\ request[r].size \in Nat
  BY BoundsAssumption DEF TypeOK
<1>2. \A k \in 1..request[r].size : <<r, k>> \in Event
  BY <1>1, BoundsAssumption DEF Event
<1>3. Batch(r) \in [1..request[r].size -> Event]
  BY <1>2 DEF Batch
<1>4. Batch(r) \in Seq(Event)
  BY <1>1, <1>3
<1> QED
  BY <1>1, <1>3, <1>4, LenProperties DEF Batch

ChainInv == TypeOK /\ QueuesAsked /\ HeadRuns

\* The head of a chain settles.
LEMMA Settling ==
  ASSUME ChainInv, NEW i \in Instances, queue[i] # <<>>,
         NEW s \in {"appended", "conflict", "failed"}, Settle(i, s)
  PROVE  /\ Head(queue[i]) \in Requests /\ status[Head(queue[i])] = "asked"
         /\ status' \in [Requests -> {"none", "asked", "appended", "conflict", "failed"}]
         /\ queue' \in [Instances -> Seq(Requests)]
         /\ stage' \in [Instances -> {"idle", "writing", "renaming"}]
         /\ complete' \in [Instances -> Seq(Event)]
         /\ QueuesAsked' /\ HeadRuns'
<1> USE DEF ChainInv
<1>1. /\ queue[i] \in Seq(Requests)
      /\ Head(queue[i]) \in Requests
      /\ Len(queue[i]) \in Nat \ {0}
      /\ Head(queue[i]) = queue[i][1]
      /\ Tail(queue[i]) \in Seq(Requests)
      /\ Len(Tail(queue[i])) = Len(queue[i]) - 1
      /\ \A k \in 1..Len(Tail(queue[i])) : Tail(queue[i])[k] = queue[i][k + 1]
  BY HeadTailProperties, EmptySeq DEF TypeOK
<1>2. status[Head(queue[i])] = "asked"
  BY <1>1 DEF QueuesAsked
<1>3. /\ status' \in [Requests -> {"none", "asked", "appended", "conflict", "failed"}]
      /\ queue' \in [Instances -> Seq(Requests)]
      /\ stage' \in [Instances -> {"idle", "writing", "renaming"}]
  BY <1>1 DEF TypeOK, Settle
<1>4. complete' \in [Instances -> Seq(Event)]
  BY EmptySeq DEF TypeOK, Settle
<1>5. ASSUME NEW j \in Instances, NEW k \in 1..Len(queue'[j])
      PROVE  \E m \in 1..Len(queue[j]) :
               /\ queue'[j][k] = queue[j][m]
               /\ m = IF j = i THEN k + 1 ELSE k
  <2>1. CASE j = i
    BY <1>1, <1>5, <2>1 DEF TypeOK, Settle
  <2>2. CASE j # i
    BY <1>5, <2>2 DEF TypeOK, Settle
  <2> QED BY <2>1, <2>2
<1>6. ASSUME NEW j \in Instances, NEW k \in 1..Len(queue'[j])
      PROVE  status'[queue'[j][k]] = "asked"
  <2>1. PICK m \in 1..Len(queue[j]) :
          queue'[j][k] = queue[j][m] /\ m = IF j = i THEN k + 1 ELSE k
    BY <1>5
  <2>2. queue[j][m] \in Requests /\ status[queue[j][m]] = "asked"
    BY ElementOfSeq DEF TypeOK, QueuesAsked
  <2>3. k \in Nat \ {0} /\ 1 \in 1..Len(queue[i])
    BY <1>1, <1>3, LenProperties
  <2>4. j = i => m # 1
    BY <2>1, <2>3
  <2>5. queue[j][m] # queue[i][1]
    BY <2>3, <2>4 DEF QueuesAsked
  <2> QED BY <1>1, <2>1, <2>2, <2>5 DEF TypeOK, Settle
<1>7. ASSUME NEW j \in Instances, NEW l \in Instances,
             NEW k \in 1..Len(queue'[j]), NEW n \in 1..Len(queue'[l]),
             queue'[j][k] = queue'[l][n]
      PROVE  j = l /\ k = n
  <2>1. PICK m \in 1..Len(queue[j]) :
          queue'[j][k] = queue[j][m] /\ m = IF j = i THEN k + 1 ELSE k
    BY <1>5
  <2>2. PICK p \in 1..Len(queue[l]) :
          queue'[l][n] = queue[l][p] /\ p = IF l = i THEN n + 1 ELSE n
    BY <1>5
  <2>3. j = l /\ m = p
    <3>1. queue[j][m] = queue[l][p]
      BY <1>7, <2>1, <2>2
    <3> QED BY <3>1 DEF QueuesAsked
  <2>4. k \in Nat /\ n \in Nat
    BY <1>3, LenProperties
  <2> QED BY <2>1, <2>2, <2>3, <2>4
<1>8. HeadRuns'
  BY DEF HeadRuns, Settle, TypeOK
<1> QED
  BY <1>1, <1>2, <1>3, <1>4, <1>6, <1>7, <1>8 DEF QueuesAsked

-----------------------------------------------------------------------------
(* Types, and the chains: each append asked for is in one place.           *)

LEMMA AppendCallChain ==
  ASSUME ChainInv, NEW i \in Instances, NEW r \in Requests, AppendCall(i, r)
  PROVE  ChainInv'
<1> USE DEF ChainInv
<1>1. /\ queue[i] \in Seq(Requests)
      /\ Len(queue[i]) \in Nat
      /\ Append(queue[i], r) \in Seq(Requests)
      /\ Len(Append(queue[i], r)) = Len(queue[i]) + 1
      /\ \A k \in 1..Len(queue[i]) : Append(queue[i], r)[k] = queue[i][k]
      /\ Append(queue[i], r)[Len(queue[i]) + 1] = r
  BY AppendProperties, LenProperties DEF TypeOK
<1>2. TypeOK'
  <2>1. PICK n \in 1..MaxBatch, v \in 0..MaxRevision :
          request' = [request EXCEPT ![r] = [size |-> n, expected |-> v]]
    BY DEF AppendCall
  <2>2. request' \in [Requests -> [size : 1..MaxBatch, expected : 0..MaxRevision]]
    BY <2>1 DEF TypeOK
  <2>3. queue' \in [Instances -> Seq(Requests)]
    BY <1>1 DEF TypeOK, AppendCall
  <2> QED BY <2>2, <2>3 DEF TypeOK, AppendCall
<1>3. ASSUME NEW j \in Instances, NEW k \in 1..Len(queue'[j])
      PROVE  \/ k \in 1..Len(queue[j]) /\ queue'[j][k] = queue[j][k] /\ queue[j][k] # r
             \/ j = i /\ k = Len(queue[i]) + 1 /\ queue'[j][k] = r
  <2>1. Len(queue[j]) \in Nat
    BY LenProperties DEF TypeOK
  <2>2. \A m \in 1..Len(queue[j]) : queue[j][m] # r
    BY DEF AppendCall, QueuesAsked
  <2>3. CASE j = i
    BY <1>1, <1>3, <2>1, <2>2, <2>3, SMTT(20) DEF TypeOK, AppendCall
  <2>4. CASE j # i
    BY <1>3, <2>2, <2>4 DEF TypeOK, AppendCall
  <2> QED BY <2>3, <2>4
<1>4. ASSUME NEW j \in Instances, NEW k \in 1..Len(queue'[j])
      PROVE  status'[queue'[j][k]] = "asked"
  <2>1. CASE k \in 1..Len(queue[j]) /\ queue'[j][k] = queue[j][k] /\ queue[j][k] # r
    <3>1. queue[j][k] \in Requests /\ status[queue[j][k]] = "asked"
      BY <2>1, ElementOfSeq DEF TypeOK, QueuesAsked
    <3>2. status'[queue[j][k]] = "asked"
      BY <3>1 DEF TypeOK, AppendCall
    <3> QED BY <2>1, <3>2
  <2>2. CASE queue'[j][k] = r
    <3>1. status'[r] = "asked"
      BY DEF TypeOK, AppendCall
    <3> QED BY <2>2, <3>1
  <2>3. \/ k \in 1..Len(queue[j]) /\ queue'[j][k] = queue[j][k] /\ queue[j][k] # r
        \/ queue'[j][k] = r
    BY <1>3, <1>4
  <2> QED BY <2>1, <2>2, <2>3
<1>5. ASSUME NEW j \in Instances, NEW l \in Instances,
             NEW k \in 1..Len(queue'[j]), NEW n \in 1..Len(queue'[l]),
             queue'[j][k] = queue'[l][n]
      PROVE  j = l /\ k = n
  <2>1. \/ k \in 1..Len(queue[j]) /\ queue'[j][k] = queue[j][k] /\ queue[j][k] # r
        \/ j = i /\ k = Len(queue[i]) + 1 /\ queue'[j][k] = r
    BY <1>3
  <2>2. \/ n \in 1..Len(queue[l]) /\ queue'[l][n] = queue[l][n] /\ queue[l][n] # r
        \/ l = i /\ n = Len(queue[i]) + 1 /\ queue'[l][n] = r
    BY <1>3
  <2>3. CASE queue'[j][k] = r
    BY <1>5, <2>1, <2>2, <2>3
  <2>4. CASE queue'[j][k] # r
    <3>1. k \in 1..Len(queue[j]) /\ n \in 1..Len(queue[l]) /\ queue[j][k] = queue[l][n]
      BY <1>5, <2>1, <2>2, <2>4
    <3> QED BY <3>1 DEF QueuesAsked
  <2> QED BY <2>3, <2>4
<1>6. HeadRuns'
  <2>1. Append(queue[i], r) # <<>>
    <3>1. Len(Append(queue[i], r)) # 0
      BY <1>1
    <3>2. Len(<<>>) = 0
      OBVIOUS
    <3> HIDE DEF ChainInv
    <3> QED BY <3>1, <3>2, Zenon
  <2> QED BY <2>1 DEF HeadRuns, AppendCall, TypeOK
<1> QED
  BY <1>2, <1>4, <1>5, <1>6 DEF QueuesAsked

\* The contents an append writes: what it has read, and its batch.
LEMMA ContentsType ==
  ASSUME TypeOK, NEW r \in Requests
  PROVE  file \o Batch(r) \in Seq(Event)
BY BatchType, ConcatProperties DEF TypeOK

LEMMA AppendStepChain ==
  ASSUME ChainInv, NEW i \in Instances, AppendStep(i)
  PROVE  ChainInv'
<1> USE DEF ChainInv
<1>1. CASE CheckRevision(i)
  <2>1. queue[i] # <<>> /\ Head(queue[i]) \in Requests
    BY <1>1, HeadTailProperties DEF CheckRevision, TypeOK
  <2>2. CASE Settle(i, "conflict")
    BY <1>1, <2>1, <2>2, Settling DEF CheckRevision, TypeOK
  <2>3. CASE ~Settle(i, "conflict")
    <3>1. /\ stage' = [stage EXCEPT ![i] = "writing"]
          /\ complete' = [complete EXCEPT ![i] = file \o Batch(Head(queue[i]))]
          /\ UNCHANGED <<status, queue, file, request, reader, crashes>>
      BY <1>1, <2>3 DEF CheckRevision
    <3>2. file \o Batch(Head(queue[i])) \in Seq(Event)
      BY <2>1, ContentsType
    <3>3. TypeOK'
      BY <3>1, <3>2 DEF TypeOK
    <3>4. QueuesAsked' /\ HeadRuns'
      BY <2>1, <3>1, SMTT(20) DEF TypeOK, QueuesAsked, HeadRuns
    <3> QED BY <3>3, <3>4
  <2> QED BY <2>2, <2>3
<1>2. CASE WriteTemporary(i)
  <2>1. TypeOK'
    BY <1>2 DEF WriteTemporary, TypeOK
  <2> QED BY <1>2, <2>1 DEF WriteTemporary, TypeOK, QueuesAsked, HeadRuns
<1>3. CASE Rename(i)
  <2>1. complete[i] \in Seq(Event) /\ queue[i] # <<>>
    BY <1>3 DEF TypeOK, HeadRuns, Rename
  <2> QED BY <1>3, <2>1, Settling DEF Rename, TypeOK
<1>4. CASE IoError(i)
  BY <1>4, Settling DEF IoError, TypeOK
<1> QED
  BY <1>1, <1>2, <1>3, <1>4 DEF AppendStep

LEMMA ChainStep == ChainInv /\ [Next]_vars => ChainInv'
<1> SUFFICES ASSUME ChainInv, [Next]_vars
             PROVE  ChainInv'
  OBVIOUS
<1>1. CASE UNCHANGED vars
  BY <1>1 DEF vars, ChainInv, TypeOK, QueuesAsked, HeadRuns
<1>2. CASE Crash
  <2>1. TypeOK'
    <3>1. \A S : <<>> \in Seq(S)
      BY EmptySeq
    <3>2. crashes' \in 0..MaxCrashes
      BY <1>2, BoundsAssumption DEF Crash, ChainInv, TypeOK
    <3> QED BY <1>2, <3>1, <3>2 DEF Crash, ChainInv, TypeOK, Idle
  <2>2. \A i \in Instances : queue'[i] = <<>> /\ stage'[i] = "idle"
    BY <1>2 DEF Crash
  <2>3. \A i \in Instances : 1..Len(queue'[i]) = {}
    BY <2>2
  <2>4. QueuesAsked'
    BY <2>3 DEF QueuesAsked
  <2>5. HeadRuns'
    BY <2>2 DEF HeadRuns
  <2> QED BY <2>1, <2>4, <2>5 DEF ChainInv
<1>3. ASSUME NEW i \in Instances, ReadStep(i)
      PROVE  ChainInv'
  <2>1. TypeOK'
    <3>1. Range(queue[i]) \in SUBSET Requests
      BY RangeOfSeq DEF ChainInv, TypeOK
    <3>2. <<>> \in Seq(Event)
      BY EmptySeq
    <3>3. reader' \in [Instances -> [stage : {"idle", "waiting", "done"},
                                    past : SUBSET Requests, awaits : SUBSET Requests,
                                    seen : Seq(Event)]]
      <4>1. CASE ReadCall(i)
        BY <4>1, <3>1, <3>2 DEF ReadCall, ChainInv, TypeOK
      <4>2. CASE ReadFile(i)
        BY <4>2, ZenonT(60) DEF ReadFile, ChainInv, TypeOK
      <4>3. CASE ReadReturns(i)
        BY <4>3, <3>2 DEF ReadReturns, Idle, ChainInv, TypeOK
      <4> QED BY <1>3, <4>1, <4>2, <4>3 DEF ReadStep
    <3> QED BY <1>3, <3>3 DEF ReadStep, ReadCall, ReadFile, ReadReturns, ChainInv, TypeOK
  <2>2. UNCHANGED <<status, queue, stage>>
    BY <1>3 DEF ReadStep, ReadCall, ReadFile, ReadReturns
  <2> QED BY <2>1, <2>2 DEF ChainInv, QueuesAsked, HeadRuns
<1> QED
  BY <1>1, <1>2, <1>3, AppendCallChain, AppendStepChain DEF Next

LEMMA ChainInit == Init => ChainInv
<1> SUFFICES ASSUME Init PROVE ChainInv
  OBVIOUS
<1>1. \A S : <<>> \in Seq(S)
  BY EmptySeq
<1>2. TypeOK
  BY <1>1, BoundsAssumption DEF Init, TypeOK, Idle
<1>3. \A i \in Instances : 1..Len(queue[i]) = {} /\ stage[i] = "idle"
  BY DEF Init
<1> QED
  BY <1>2, <1>3 DEF ChainInv, QueuesAsked, HeadRuns

LEMMA ChainAlways == Spec => []ChainInv
BY ChainInit, ChainStep, PTL DEF Spec

\* The type invariant, with any number of objects on the directory.
THEOREM JournalTypes == Spec => []TypeOK
<1>1. ChainInv => TypeOK
  BY DEF ChainInv
<1> QED
  BY <1>1, ChainAlways, PTL

-----------------------------------------------------------------------------
(* One object implements the atomic journal: what it renames is the        *)
(* history as it is at the rename, and its batch.                          *)

LEMMA FreshStep ==
  ASSUME OneObject, ChainInv, FreshContents, [Next]_vars
  PROVE  FreshContents'
<1>1. CASE UNCHANGED vars
  BY <1>1 DEF vars, FreshContents, Batch
<1>2. CASE Crash
  BY <1>2 DEF Crash, FreshContents
<1>3. ASSUME NEW i \in Instances, NEW r \in Requests, AppendCall(i, r)
      PROVE  FreshContents'
  <2> SUFFICES ASSUME NEW j \in Instances, stage'[j] # "idle"
               PROVE  /\ complete'[j] = file' \o Batch(Head(queue[j]))'
                      /\ Head(queue'[j]) = Head(queue[j])
                      /\ Len(file') = request'[Head(queue[j])].expected
    BY DEF FreshContents, Batch
  <2>1. /\ stage[j] # "idle" /\ UNCHANGED <<stage, complete, file>>
        /\ complete[j] = file \o Batch(Head(queue[j]))
        /\ Len(file) = request[Head(queue[j])].expected
    BY <1>3 DEF AppendCall, FreshContents
  <2>2. queue[j] \in Seq(Requests) /\ queue[j] # <<>>
    BY <2>1 DEF ChainInv, TypeOK, HeadRuns
  <2>3. Head(Append(queue[j], r)) = Head(queue[j])
    BY <2>2, HeadTailAppend
  <2>4. 1 \in 1..Len(queue[j]) /\ Head(queue[j]) = queue[j][1]
    BY <2>2, EmptySeq
  <2>5. status[Head(queue[j])] = "asked"
    BY <2>4 DEF ChainInv, QueuesAsked
  <2>6. Head(queue[j]) # r
    BY <1>3, <2>5 DEF AppendCall
  <2>7. Head(queue'[j]) = Head(queue[j])
    BY <1>3, <2>3 DEF AppendCall, ChainInv, TypeOK
  <2>8. request'[Head(queue[j])] = request[Head(queue[j])]
    BY <1>3, <2>6 DEF AppendCall, ChainInv, TypeOK
  <2>9. Batch(Head(queue[j]))' = Batch(Head(queue[j]))
    BY <2>7, <2>8 DEF Batch
  <2> QED BY <2>1, <2>7, <2>8, <2>9
<1>4. ASSUME NEW i \in Instances, AppendStep(i)
      PROVE  FreshContents'
  <2>1. \A j \in Instances : j = i
    BY DEF OneObject
  <2>2. CASE stage'[i] = "idle"
    BY <2>1, <2>2, SMTT(30) DEF FreshContents
  <2>3. CASE stage'[i] # "idle" /\ CheckRevision(i)
    <3>1. /\ Len(file) = request[Head(queue[i])].expected
          /\ complete' = [complete EXCEPT ![i] = file \o Batch(Head(queue[i]))]
          /\ UNCHANGED <<file, request, queue>>
      BY <2>3 DEF CheckRevision, Settle, ChainInv, TypeOK
    <3>2. complete'[i] = file \o Batch(Head(queue[i]))
      BY <3>1 DEF ChainInv, TypeOK
    <3> QED BY <2>1, <3>1, <3>2 DEF FreshContents, Batch
  <2>4. CASE WriteTemporary(i)
    BY <2>1, <2>4 DEF FreshContents, WriteTemporary, ChainInv, TypeOK, Batch
  <2>5. CASE Rename(i) \/ IoError(i)
    BY <2>1, <2>5 DEF FreshContents, Rename, IoError, Settle, ChainInv, TypeOK
  <2> QED BY <1>4, <2>2, <2>3, <2>4, <2>5 DEF AppendStep
<1>5. ASSUME NEW i \in Instances, ReadStep(i)
      PROVE  FreshContents'
  BY <1>5 DEF ReadStep, ReadCall, ReadFile, ReadReturns, FreshContents, Batch
<1> QED
  BY <1>1, <1>2, <1>3, <1>4, <1>5 DEF Next

LEMMA FreshAlways == OneObject => (Spec => []FreshContents)
<1> SUFFICES ASSUME OneObject PROVE Spec => []FreshContents
  OBVIOUS
<1>1. Init => FreshContents
  BY DEF Init, FreshContents
<1>2. ChainInv /\ FreshContents /\ [Next]_vars => FreshContents'
  BY FreshStep
<1> QED
  BY <1>1, <1>2, ChainAlways, PTL DEF Spec

\* The head of the chain of i is asked for; its batch is one of the abstract
\* journal's.
LEMMA HeadAsked ==
  ASSUME ChainInv, NEW i \in Instances, queue[i] # <<>>
  PROVE  /\ Head(queue[i]) \in Requests
         /\ status[Head(queue[i])] = "asked"
         /\ request[Head(queue[i])].size \in 1..MaxBatch
         /\ Batch(Head(queue[i])) = Atomic!Batch(Head(queue[i]), request[Head(queue[i])].size)
<1>1. queue[i] \in Seq(Requests) /\ 1 \in 1..Len(queue[i]) /\ Head(queue[i]) = queue[i][1]
  BY EmptySeq DEF ChainInv, TypeOK
<1>2. Head(queue[i]) \in Requests
  BY <1>1, ElementOfSeq
<1> QED
  BY <1>1, <1>2 DEF ChainInv, TypeOK, QueuesAsked, Batch, Atomic!Batch

LEMMA AtomicStep ==
  ASSUME ChainInv, FreshContents, [Next]_vars
  PROVE  [Atomic!Next]_(Atomic!jvars)
<1>1. CASE UNCHANGED vars
  BY <1>1 DEF vars, Atomic!jvars
<1>2. CASE Crash
  BY <1>2 DEF Crash, Atomic!Next, Atomic!Crash
<1>3. ASSUME NEW i \in Instances, NEW r \in Requests, AppendCall(i, r)
      PROVE  Atomic!Next
  BY <1>3 DEF AppendCall, Atomic!Next, Atomic!Ask
<1>4. ASSUME NEW i \in Instances, ReadStep(i) \/ WriteTemporary(i)
      PROVE  UNCHANGED Atomic!jvars
  BY <1>4 DEF ReadStep, ReadCall, ReadFile, ReadReturns, WriteTemporary, Atomic!jvars
<1>5. ASSUME NEW i \in Instances, Rename(i)
      PROVE  Atomic!Next
  <2>1. queue[i] # <<>> /\ complete[i] = file \o Batch(Head(queue[i]))
    BY <1>5 DEF Rename, FreshContents, ChainInv, HeadRuns
  <2>2. /\ file' = file \o Batch(Head(queue[i]))
        /\ status' = [status EXCEPT ![Head(queue[i])] = "appended"]
    BY <1>5, <2>1 DEF Rename, Settle
  <2>3. Atomic!Extend(Head(queue[i]))
    BY <2>1, <2>2, HeadAsked DEF Atomic!Extend
  <2> QED BY <2>1, <2>3, HeadAsked DEF Atomic!Next
<1>6. ASSUME NEW i \in Instances, NEW s \in {"conflict", "failed"},
             queue[i] # <<>>, Settle(i, s), UNCHANGED file
      PROVE  Atomic!Next
  <2>1. Atomic!Refuse(Head(queue[i]))
    BY <1>6, HeadAsked DEF Settle, Atomic!Refuse
  <2> QED BY <1>6, <2>1, HeadAsked DEF Atomic!Next
<1>7. ASSUME NEW i \in Instances, CheckRevision(i) \/ IoError(i)
      PROVE  [Atomic!Next]_(Atomic!jvars)
  <2>1. CASE UNCHANGED status
    BY <1>7, <2>1 DEF CheckRevision, IoError, Atomic!jvars
  <2>2. CASE ~UNCHANGED status
    <3>1. queue[i] # <<>> /\ UNCHANGED file /\ (Settle(i, "conflict") \/ Settle(i, "failed"))
      BY <1>7, <2>2 DEF CheckRevision, IoError
    <3> QED BY <3>1, <1>6
  <2> QED BY <2>1, <2>2
<1> QED
  BY <1>1, <1>2, <1>3, <1>4, <1>5, <1>7 DEF Next, AppendStep

\* docs/ARCHITECTURE.md section 8: whatever fails or crashes between reading the
\* file, writing the temporary one and renaming it, the history grows by whole
\* batches, in one step each, when their authors are told so.
THEOREM JournalIsAtomic == OneObject => (Spec => ImplementsAtomic)
<1> SUFFICES ASSUME OneObject PROVE Spec => ImplementsAtomic
  OBVIOUS
<1>1. Init => Atomic!Init
  BY DEF Init, Atomic!Init
<1>2. ChainInv /\ FreshContents /\ [Next]_vars => [Atomic!Next]_(Atomic!jvars)
  BY AtomicStep
<1>3. Spec => []FreshContents
  BY FreshAlways
<1> QED
  BY <1>1, <1>2, <1>3, ChainAlways, PTL DEF Spec, ImplementsAtomic, Atomic!Spec

-----------------------------------------------------------------------------
(* A read sees what was acknowledged.                                      *)

\* The history only grows.
LEMMA RecordedStays ==
  ASSUME ChainInv, NEW r \in Requests, NEW q \in Requests, Recorded(r, file)
  PROVE  Recorded(r, file \o Batch(q))
<1>1. file \in Seq(Event) /\ Len(file) \in Nat
  BY LenProperties DEF ChainInv, TypeOK
<1>2. Batch(q) \in Seq(Event) /\ Len(Batch(q)) \in Nat
  BY BatchType, LenProperties DEF ChainInv
<1>3. /\ Len(file \o Batch(q)) = Len(file) + Len(Batch(q))
      /\ \A m \in 1..Len(file) : (file \o Batch(q))[m] = file[m]
  BY <1>1, <1>2, ConcatProperties
<1>4. 1..Len(file) \subseteq 1..Len(file \o Batch(q))
  BY <1>1, <1>2, <1>3
<1> QED BY <1>3, <1>4 DEF Recorded

\* The batch that is appended is recorded.
LEMMA BatchRecorded ==
  ASSUME ChainInv, NEW r \in Requests
  PROVE  Recorded(r, file \o Batch(r))
<1> SUFFICES ASSUME NEW k \in 1..request[r].size
             PROVE  \E m \in 1..Len(file \o Batch(r)) : (file \o Batch(r))[m] = <<r, k>>
  BY DEF Recorded
<1>1. file \in Seq(Event) /\ Len(file) \in Nat
  BY LenProperties DEF ChainInv, TypeOK
<1>2. /\ Batch(r) \in Seq(Event) /\ Len(Batch(r)) \in Nat
      /\ k \in 1..Len(Batch(r)) /\ Batch(r)[k] = <<r, k>>
  BY BatchType, LenProperties DEF ChainInv
<1>3. /\ Len(file \o Batch(r)) = Len(file) + Len(Batch(r))
      /\ (file \o Batch(r))[Len(file) + k] = Batch(r)[Len(file) + k - Len(file)]
  BY <1>1, <1>2, ConcatProperties
<1>4. Len(file) + k - Len(file) = k /\ Len(file) + k \in 1..Len(file \o Batch(r))
  BY <1>1, <1>2, <1>3
<1> QED BY <1>2, <1>3, <1>4

\* A request that was asked for keeps its arguments.
LEMMA RequestStays ==
  ASSUME ChainInv, [Next]_vars, NEW r \in Requests, status[r] # "none"
  PROVE  request'[r] = request[r] /\ status'[r] # "none"
<1>1. ASSUME NEW i \in Instances, NEW q \in Requests, AppendCall(i, q)
      PROVE  request'[r] = request[r] /\ status'[r] # "none"
  BY <1>1 DEF AppendCall, ChainInv, TypeOK
<1>2. ASSUME NEW i \in Instances, NEW s \in {"appended", "conflict", "failed"}, Settle(i, s)
      PROVE  status'[r] # "none"
  BY <1>2 DEF Settle, ChainInv, TypeOK
<1>3. ASSUME NEW i \in Instances, AppendStep(i)
      PROVE  request'[r] = request[r] /\ status'[r] # "none"
  BY <1>2, <1>3 DEF AppendStep, CheckRevision, WriteTemporary, Rename, IoError
<1>4. ASSUME NEW i \in Instances, ReadStep(i)
      PROVE  request'[r] = request[r] /\ status'[r] # "none"
  BY <1>4 DEF ReadStep, ReadCall, ReadFile, ReadReturns
<1>5. CASE Crash
  BY <1>5 DEF Crash, ChainInv, TypeOK
<1>6. CASE UNCHANGED vars
  BY <1>6 DEF vars
<1> QED
  BY <1>1, <1>3, <1>4, <1>5, <1>6 DEF Next

\* A settled append stays as it is.
LEMMA SettledStays ==
  ASSUME ChainInv, [Next]_vars, NEW r \in Requests, status[r] \notin {"none", "asked"}
  PROVE  status'[r] = status[r]
<1>1. ASSUME NEW i \in Instances, NEW q \in Requests, AppendCall(i, q)
      PROVE  status'[r] = status[r]
  BY <1>1 DEF AppendCall, ChainInv, TypeOK
<1>2. ASSUME NEW i \in Instances, queue[i] # <<>>,
             NEW s \in {"appended", "conflict", "failed"}, Settle(i, s)
      PROVE  status'[r] = status[r]
  <2>1. Head(queue[i]) # r
    BY <1>2, HeadAsked
  <2> QED BY <1>2, <2>1 DEF Settle, ChainInv, TypeOK
<1>3. ASSUME NEW i \in Instances, AppendStep(i)
      PROVE  status'[r] = status[r]
  <2>1. Rename(i) => queue[i] # <<>>
    BY DEF Rename, ChainInv, HeadRuns
  <2> QED BY <1>2, <1>3, <2>1 DEF AppendStep, CheckRevision, WriteTemporary, Rename, IoError
<1>4. ASSUME NEW i \in Instances, ReadStep(i)
      PROVE  status'[r] = status[r]
  BY <1>4 DEF ReadStep, ReadCall, ReadFile, ReadReturns
<1>5. CASE Crash
  BY <1>5 DEF Crash, ChainInv, TypeOK
<1>6. CASE UNCHANGED vars
  BY <1>6 DEF vars
<1> QED
  BY <1>1, <1>3, <1>4, <1>5, <1>6 DEF Next

\* The history changes only by the batch of the append that settles.
LEMMA FileGrows ==
  ASSUME ChainInv, FreshContents, [Next]_vars
  PROVE  \/ file' = file /\ \A r \in Requests : status'[r] = "appended" => status[r] = "appended"
         \/ \E q \in Requests :
              /\ file' = file \o Batch(q)
              /\ \A r \in Requests : status'[r] = "appended" => r = q \/ status[r] = "appended"
<1> DEFINE Same == /\ file' = file
                   /\ \A r \in Requests : status'[r] = "appended" => status[r] = "appended"
<1>1. ASSUME NEW i \in Instances, NEW r \in Requests, AppendCall(i, r)
      PROVE  Same
  BY <1>1 DEF AppendCall, ChainInv, TypeOK
<1>2. ASSUME NEW i \in Instances, ReadStep(i) \/ WriteTemporary(i)
      PROVE  Same
  BY <1>2 DEF ReadStep, ReadCall, ReadFile, ReadReturns, WriteTemporary
<1>3. ASSUME NEW i \in Instances, CheckRevision(i) \/ IoError(i)
      PROVE  Same
  <2>1. CASE status' = status
    BY <1>3, <2>1 DEF CheckRevision, IoError
  <2>2. CASE queue[i] # <<>> /\ (Settle(i, "conflict") \/ Settle(i, "failed"))
    <3>1. Head(queue[i]) \in Requests
      BY <2>2, HeadAsked
    <3>2. \A r \in Requests : status'[r] = "appended" => status[r] = "appended"
      BY <2>2, <3>1 DEF Settle, ChainInv, TypeOK
    <3> QED BY <1>3, <3>2 DEF CheckRevision, IoError
  <2> QED BY <1>3, <2>1, <2>2 DEF CheckRevision, IoError
<1>4. CASE Crash
  BY <1>4 DEF Crash
<1>5. CASE UNCHANGED vars
  BY <1>5 DEF vars
<1>6. ASSUME NEW i \in Instances, Rename(i)
      PROVE  \E q \in Requests :
               /\ file' = file \o Batch(q)
               /\ \A r \in Requests : status'[r] = "appended" => r = q \/ status[r] = "appended"
  <2>1. queue[i] # <<>> /\ complete[i] = file \o Batch(Head(queue[i]))
    BY <1>6 DEF Rename, FreshContents, ChainInv, HeadRuns
  <2>2. Head(queue[i]) \in Requests
    BY <2>1, HeadAsked
  <2>3. file' = file \o Batch(Head(queue[i]))
    BY <1>6, <2>1 DEF Rename
  <2>4. \A r \in Requests : status'[r] = "appended" => r = Head(queue[i]) \/ status[r] = "appended"
    BY <1>6, <2>2 DEF Rename, Settle, ChainInv, TypeOK
  <2> QED BY <2>2, <2>3, <2>4
<1> QED
  BY <1>1, <1>2, <1>3, <1>4, <1>5, <1>6 DEF Next, AppendStep

\* Whether a batch is recorded depends on the arguments of its append only.
LEMMA RecordedKept ==
  ASSUME NEW r \in Requests, request'[r] = request[r], NEW events, Recorded(r, events)
  PROVE  Recorded(r, events)'
BY DEF Recorded

LEMMA AcknowledgedStep ==
  ASSUME ChainInv, FreshContents, AcknowledgedStays, [Next]_vars
  PROVE  AcknowledgedStays'
<1> SUFFICES ASSUME NEW r \in Requests, status'[r] = "appended"
             PROVE  Recorded(r, file)'
  BY DEF AcknowledgedStays
<1>1. status[r] # "none"
  <2>1. ASSUME NEW q \in Requests, status[q] = "appended"
        PROVE  status[q] # "none"
    BY <2>1
  <2>2. ASSUME NEW i \in Instances, queue[i] # <<>>, NEW s \in {"appended", "conflict", "failed"},
               Settle(i, s), status[r] = "none"
        PROVE  status'[r] = "none"
    <3>1. Head(queue[i]) # r
      BY <2>2, HeadAsked
    <3> QED BY <2>2, <3>1 DEF Settle, ChainInv, TypeOK
  <2>3. ASSUME NEW i \in Instances, NEW q \in Requests, AppendCall(i, q), status[r] = "none"
        PROVE  status'[r] # "appended"
    BY <2>3 DEF AppendCall, ChainInv, TypeOK
  <2>4. ASSUME NEW i \in Instances, AppendStep(i), status[r] = "none"
        PROVE  status'[r] = "none"
    <3>1. Rename(i) => queue[i] # <<>>
      BY DEF Rename, ChainInv, HeadRuns
    <3> QED BY <2>2, <2>4, <3>1 DEF AppendStep, CheckRevision, WriteTemporary, Rename, IoError
  <2>5. ASSUME NEW i \in Instances, ReadStep(i)
        PROVE  status' = status
    BY <2>5 DEF ReadStep, ReadCall, ReadFile, ReadReturns
  <2>6. Crash /\ status[r] = "none" => status'[r] = "none"
    BY DEF Crash, ChainInv, TypeOK
  <2> QED BY <2>3, <2>4, <2>5, <2>6 DEF Next, vars
<1>2. request'[r] = request[r]
  BY <1>1, RequestStays
<1>3. Recorded(r, file')
  <2>1. CASE file' = file /\ status[r] = "appended"
    BY <2>1 DEF AcknowledgedStays
  <2>2. ASSUME NEW q \in Requests, file' = file \o Batch(q), r = q \/ status[r] = "appended"
        PROVE  Recorded(r, file')
    BY <2>2, BatchRecorded, RecordedStays DEF AcknowledgedStays
  <2> QED BY <2>1, <2>2, FileGrows
<1> QED BY <1>2, <1>3 DEF Recorded

LEMMA AcknowledgedAlways == OneObject => (Spec => []AcknowledgedStays)
<1> SUFFICES ASSUME OneObject PROVE Spec => []AcknowledgedStays
  OBVIOUS
<1>1. Init => AcknowledgedStays
  BY DEF Init, AcknowledgedStays
<1>2. ChainInv /\ FreshContents /\ AcknowledgedStays /\ [Next]_vars => AcknowledgedStays'
  BY AcknowledgedStep
<1>3. Spec => []FreshContents
  BY FreshAlways
<1> QED
  BY <1>1, <1>2, <1>3, ChainAlways, PTL DEF Spec

\* What a read waits for, and what it has seen, outlives a step that leaves the
\* read alone.
LEMMA ReaderKept ==
  ASSUME ChainInv, ReadersAwait, [Next]_vars,
         NEW i \in Instances, reader'[i] = reader[i],
         NEW r \in reader[i].past \cup reader[i].awaits
  PROVE  /\ status'[r] # "none"
         /\ r \in reader[i].past => status'[r] = "appended"
         /\ reader'[i].stage = "done" =>
              /\ status'[r] # "asked"
              /\ status'[r] = "appended" => Recorded(r, reader[i].seen)'
<1>1. r \in Requests
  BY DEF ChainInv, TypeOK
<1>2. status[r] # "none"
  BY DEF ReadersAwait
<1>3. request'[r] = request[r] /\ status'[r] # "none"
  BY <1>1, <1>2, RequestStays
<1>4. r \in reader[i].past => status'[r] = "appended"
  <2>1. r \in reader[i].past => status[r] = "appended"
    BY DEF ReadersAwait
  <2> QED BY <1>1, <2>1, SettledStays
<1>5. CASE reader[i].stage = "done"
  <2>1. status[r] # "asked" /\ (status[r] = "appended" => Recorded(r, reader[i].seen))
    BY <1>5 DEF ReadersAwait
  <2>2. status'[r] = status[r]
    BY <1>1, <1>2, <2>1, SettledStays
  <2>3. Recorded(r, reader[i].seen) => Recorded(r, reader[i].seen)'
    BY <1>3 DEF Recorded
  <2> QED BY <1>3, <1>4, <2>1, <2>2, <2>3
<1> QED BY <1>3, <1>4, <1>5

LEMMA ReadersStep ==
  ASSUME ChainInv, AcknowledgedStays, ReadersAwait, [Next]_vars
  PROVE  ReadersAwait'
<1> SUFFICES ASSUME NEW j \in Instances, NEW r \in reader'[j].past \cup reader'[j].awaits
             PROVE  /\ status'[r] # "none"
                    /\ r \in reader'[j].past => status'[r] = "appended"
                    /\ reader'[j].stage = "done" =>
                         /\ status'[r] # "asked"
                         /\ status'[r] = "appended" => Recorded(r, reader[j].seen)'
  BY DEF ReadersAwait
<1>1. CASE reader'[j] = reader[j]
  BY <1>1, ReaderKept
<1>2. ASSUME ReadCall(j)
      PROVE  /\ reader'[j].stage = "waiting" /\ status'[r] # "none"
             /\ r \in reader'[j].past => status'[r] = "appended"
  <2>1. /\ reader'[j] = [stage |-> "waiting", past |-> {q \in Requests : status[q] = "appended"},
                         awaits |-> Range(queue[j]), seen |-> <<>>]
        /\ status' = status
    BY <1>2 DEF ReadCall, ChainInv, TypeOK
  <2>2. CASE r \in reader'[j].past
    BY <2>1, <2>2
  <2>3. CASE r \notin reader'[j].past
    <3>1. r \in Range(queue[j]) /\ queue[j] \in Seq(Requests)
      BY <2>1, <2>3 DEF ChainInv, TypeOK
    <3>2. PICK k \in 1..Len(queue[j]) : queue[j][k] = r
      BY <3>1 DEF Range
    <3> QED BY <2>1, <2>3, <3>2 DEF ChainInv, QueuesAsked
  <2> QED BY <2>2, <2>3
<1>3. ASSUME ReadFile(j)
      PROVE  /\ status'[r] \notin {"none", "asked"}
             /\ r \in reader'[j].past => status'[r] = "appended"
             /\ status'[r] = "appended" => Recorded(r, reader[j].seen)'
  <2>1. /\ reader'[j].awaits = reader[j].awaits /\ reader'[j].past = reader[j].past
        /\ reader'[j].seen = file /\ status' = status /\ request' = request
    BY <1>3 DEF ReadFile, ChainInv, TypeOK
  <2>2. r \in Requests /\ (r \in reader[j].past => status[r] = "appended")
    BY <2>1 DEF ReadersAwait, ChainInv, TypeOK
  <2>3. status[r] \notin {"none", "asked"}
    <3>1. status[r] # "none" /\ (r \in reader[j].awaits => status[r] # "asked")
      BY <1>3, <2>1 DEF ReadFile, TailSettled, ReadersAwait
    <3> QED BY <2>1, <2>2, <3>1
  <2>4. status[r] = "appended" => Recorded(r, file)
    BY <2>2 DEF AcknowledgedStays
  <2> QED BY <2>1, <2>2, <2>3, <2>4 DEF Recorded
<1>4. reader'[j] # reader[j] => ReadCall(j) \/ ReadFile(j)
  <2>1. ASSUME NEW i \in Instances, ReadStep(i), i # j
        PROVE  reader'[j] = reader[j]
    BY <2>1 DEF ReadStep, ReadCall, ReadFile, ReadReturns, ChainInv, TypeOK
  <2>2. ASSUME NEW i \in Instances, NEW q \in Requests, AppendCall(i, q)
        PROVE  reader'[j] = reader[j]
    BY <2>2 DEF AppendCall
  <2>3. ASSUME Crash \/ ReadReturns(j)
        PROVE  FALSE
    <3>1. reader'[j] = Idle
      BY <2>3 DEF Crash, ReadReturns, ChainInv, TypeOK
    <3>2. reader'[j].past = {} /\ reader'[j].awaits = {}
      BY <3>1 DEF Idle
    <3> QED BY <3>2
  <2>4. UNCHANGED vars => reader'[j] = reader[j]
    BY DEF vars
  <2>5. ~Crash /\ ~ReadReturns(j)
    BY <2>3
  <2>6. ReadStep(j) => ReadCall(j) \/ ReadFile(j)
    BY <2>5 DEF ReadStep
  <2>7. Next => \E i \in Instances : \/ \E q \in Requests : AppendCall(i, q)
                                     \/ AppendStep(i) \/ ReadStep(i)
    BY <2>5 DEF Next
  <2>8. ASSUME NEW i \in Instances, AppendStep(i)
        PROVE  reader'[j] = reader[j]
    BY <2>8 DEF AppendStep, CheckRevision, WriteTemporary, Rename, IoError
  <2> QED BY <2>1, <2>2, <2>4, <2>6, <2>7, <2>8
<1> QED BY <1>1, <1>2, <1>3, <1>4

\* ReadYourWrites: a read that finished saw every append that was acknowledged
\* before its call, which nothing removes from the file, and every append that
\* was under way in its object then and succeeded, for which it waited; whatever
\* fails or crashes in between.
THEOREM ReadsSeeWrites == OneObject => (Spec => []ReadYourWrites)
<1> SUFFICES ASSUME OneObject PROVE Spec => []ReadYourWrites
  OBVIOUS
<1>1. Init => ReadersAwait
  BY DEF Init, ReadersAwait, Idle
<1>2. ChainInv /\ AcknowledgedStays /\ ReadersAwait /\ [Next]_vars => ReadersAwait'
  BY ReadersStep
<1>3. ReadersAwait => ReadYourWrites
  BY DEF ReadersAwait, ReadYourWrites
<1>4. Spec => []AcknowledgedStays
  BY AcknowledgedAlways
<1> QED
  BY <1>1, <1>2, <1>3, <1>4, ChainAlways, PTL DEF Spec
=============================================================================
