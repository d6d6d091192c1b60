-------------------------- MODULE ModelCallsProofs --------------------------
(***************************************************************************)
(* Machine-checked facts about Semaphore.tla, for every set of callers and *)
(* every positive limit, and about ModelCalls.tla, which uses it, for any  *)
(* attempts, deltas and retry delays.                                      *)
(***************************************************************************)
EXTENDS ModelCalls, FiniteSetTheorems, SequenceTheorems, TLAPS

-----------------------------------------------------------------------------
(* Semaphore: acquire and its release closure.                             *)

\* Splicing position k out of a sequence, as AbortQueued does: the result is
\* one shorter and keeps the order of the other elements.
LEMMA RemoveAtProps ==
  ASSUME NEW S, NEW s \in Seq(S), NEW k \in 1..Len(s)
  PROVE  /\ RemoveAt(s, k) \in Seq(S)
         /\ Len(RemoveAt(s, k)) = Len(s) - 1
         /\ \A i \in 1..(Len(s) - 1) :
              RemoveAt(s, k)[i] = IF i < k THEN s[i] ELSE s[i + 1]
<1> DEFINE l == SubSeq(s, 1, k - 1)
           r == SubSeq(s, k + 1, Len(s))
<1>1. /\ l \in Seq(S) /\ Len(l) = k - 1
      /\ \A i \in 1..(k - 1) : l[i] = s[i]
  BY SubSeqProperties
<1>2. /\ r \in Seq(S) /\ Len(r) = Len(s) - k
      /\ \A i \in 1..(Len(s) - k) : r[i] = s[k + i]
  BY SubSeqProperties
<1>3. RemoveAt(s, k) = l \o r
  BY DEF RemoveAt
<1> HIDE DEF l, r
<1>4. /\ l \o r \in Seq(S)
      /\ Len(l \o r) = Len(l) + Len(r)
      /\ \A i \in 1..(Len(l) + Len(r)) :
           (l \o r)[i] = IF i <= Len(l) THEN l[i] ELSE r[i - Len(l)]
  BY <1>1, <1>2, ConcatProperties
<1>5. ASSUME NEW i \in 1..(Len(s) - 1)
      PROVE  RemoveAt(s, k)[i] = IF i < k THEN s[i] ELSE s[i + 1]
  <2>1. i \in 1..(Len(l) + Len(r))
    BY <1>1, <1>2
  <2>2. (l \o r)[i] = IF i <= Len(l) THEN l[i] ELSE r[i - Len(l)]
    BY <2>1, <1>4
  <2>3. CASE i < k
    <3>1. i <= Len(l) /\ i \in 1..(k - 1)
      BY <2>3, <1>1
    <3> QED BY <3>1, <2>2, <2>3, <1>1, <1>3
  <2>4. CASE ~(i < k)
    <3>1. ~(i <= Len(l)) /\ i - Len(l) = i - k + 1 /\ i - k + 1 \in 1..(Len(s) - k)
      BY <2>4, <1>1
    <3>2. r[i - k + 1] = s[k + (i - k + 1)]
      BY <3>1, <1>2
    <3>3. k + (i - k + 1) = i + 1
      OBVIOUS
    <3> QED BY <3>1, <3>2, <3>3, <2>2, <2>4, <1>3
  <2> QED BY <2>3, <2>4
<1> QED
  BY <1>1, <1>2, <1>3, <1>4, <1>5

-----------------------------------------------------------------------------
(* Each operation preserves the inductive invariant.                       *)

LEMMA AcquireAbortedInv ==
  ASSUME NEW c \in Callers, IInv, AcquireAborted(c)
  PROVE  IInv'
<1>1. Holders' = Holders
  BY DEF IInv, TypeOK, AcquireAborted, Holders, CallState
<1>2. TypeOK'
  BY DEF IInv, TypeOK, AcquireAborted, CallState
<1>3. QueueIsWaiters'
  BY DEF IInv, TypeOK, QueueIsWaiters, AcquireAborted, CallState
<1> QED
  BY <1>1, <1>2, <1>3 DEF IInv, PermitAccounting, NoIdlePermit, AcquireAborted

LEMMA AcquireFreeInv ==
  ASSUME NEW c \in Callers, IInv, AcquireFree(c)
  PROVE  IInv'
<1>1. Holders' = Holders \cup {c} /\ c \notin Holders
  BY DEF IInv, TypeOK, AcquireFree, Holders, CallState
<1>2. TypeOK'
  BY DEF IInv, TypeOK, AcquireFree, CallState
<1>3. QueueIsWaiters'
  BY DEF IInv, TypeOK, QueueIsWaiters, AcquireFree, CallState
<1>4. PermitAccounting'
  <2>1. IsFiniteSet(Holders') /\ Cardinality(Holders') = Cardinality(Holders) + 1
    BY <1>1, FS_AddElement DEF IInv, PermitAccounting
  <2> QED
    BY <2>1, LimitAssumption DEF IInv, TypeOK, PermitAccounting, AcquireFree
<1>5. NoIdlePermit'
  BY LimitAssumption DEF IInv, TypeOK, NoIdlePermit, AcquireFree
<1> QED
  BY <1>2, <1>3, <1>4, <1>5 DEF IInv

LEMMA AcquireQueuedInv ==
  ASSUME NEW c \in Callers, IInv, AcquireQueued(c)
  PROVE  IInv'
<1> USE DEF IInv
<1>1. /\ queue' \in Seq(Callers)
      /\ Len(queue') = Len(queue) + 1
      /\ \A i \in 1..Len(queue) : queue'[i] = queue[i]
      /\ queue'[Len(queue) + 1] = c
  BY AppendProperties DEF TypeOK, AcquireQueued
<1>2. Len(queue) \in Nat
  BY LenProperties DEF TypeOK
<1>3. Holders' = Holders
  BY DEF TypeOK, AcquireQueued, Holders, CallState
<1>4. TypeOK'
  BY <1>1 DEF TypeOK, AcquireQueued, CallState
<1>5. QueueIsWaiters'
  <2>1. \A i \in 1..Len(queue) : queue[i] # c
    BY DEF QueueIsWaiters, AcquireQueued
  <2>2. \A i, j \in 1..Len(queue') : queue'[i] = queue'[j] => i = j
    BY <1>1, <1>2, <2>1 DEF QueueIsWaiters
  <2>3. \A d \in Callers : call'[d] = "waiting" <=> (d = c \/ call[d] = "waiting")
    BY DEF TypeOK, AcquireQueued, CallState
  <2>4. \A d \in Callers : (\E i \in 1..Len(queue') : queue'[i] = d)
                             <=> (d = c \/ \E i \in 1..Len(queue) : queue[i] = d)
    BY <1>1, <1>2
  <2> QED BY <2>2, <2>3, <2>4 DEF QueueIsWaiters
<1>6. PermitAccounting'
  BY <1>3 DEF PermitAccounting, AcquireQueued
<1>7. NoIdlePermit'
  BY LimitAssumption DEF TypeOK, PermitAccounting, NoIdlePermit, AcquireQueued
<1> QED
  BY <1>4, <1>5, <1>6, <1>7

LEMMA AbortQueuedInv ==
  ASSUME NEW c \in Callers, IInv, AbortQueued(c)
  PROVE  IInv'
<1> USE DEF IInv
<1>1. PICK k \in 1..Len(queue) : queue[k] = c /\ queue' = RemoveAt(queue, k)
  BY DEF AbortQueued
<1>2. Len(queue) \in Nat
  BY LenProperties DEF TypeOK
<1>3. /\ queue' \in Seq(Callers)
      /\ Len(queue') = Len(queue) - 1
      /\ \A i \in 1..Len(queue') :
           queue'[i] = IF i < k THEN queue[i] ELSE queue[i + 1]
  BY <1>1, RemoveAtProps DEF TypeOK
<1>4. call[c] = "waiting"
  BY <1>1 DEF QueueIsWaiters
<1>5. Holders' = Holders
  BY <1>4 DEF TypeOK, AbortQueued, Holders, CallState
<1>6. TypeOK'
  BY <1>3 DEF TypeOK, AbortQueued, CallState
<1>7. QueueIsWaiters'
  <2> DEFINE old(i) == IF i < k THEN i ELSE i + 1
  <2>1. \A i \in 1..Len(queue') : /\ old(i) \in 1..Len(queue)
                                  /\ old(i) # k
                                  /\ queue'[i] = queue[old(i)]
    BY <1>2, <1>3
  <2>2. \A i, j \in 1..Len(queue') : old(i) = old(j) => i = j
    BY <1>2, <1>3
  <2>3. \A n \in 1..Len(queue) : n # k =>
          \E i \in 1..Len(queue') : old(i) = n
    <3> TAKE n \in 1..Len(queue)
    <3> HAVE n # k
    <3>1. CASE n < k
      BY <3>1, <1>2, <1>3
    <3>2. CASE n > k
      <4>1. n - 1 \in 1..Len(queue') /\ old(n - 1) = n
        BY <3>2, <1>2, <1>3
      <4> QED BY <4>1
    <3> QED BY <3>1, <3>2
  <2> HIDE DEF old
  <2>4. \A i, j \in 1..Len(queue') : queue'[i] = queue'[j] => i = j
    BY <2>1, <2>2 DEF QueueIsWaiters
  <2>5. \A d \in Callers : call'[d] = "waiting" <=> (d # c /\ call[d] = "waiting")
    BY DEF TypeOK, AbortQueued, CallState
  <2>6. \A d \in Callers : (\E i \in 1..Len(queue') : queue'[i] = d)
                             <=> (d # c /\ \E n \in 1..Len(queue) : queue[n] = d)
    <3> TAKE d \in Callers
    <3>1. (\E i \in 1..Len(queue') : queue'[i] = d)
            => (d # c /\ \E n \in 1..Len(queue) : queue[n] = d)
      BY <1>1, <2>1 DEF QueueIsWaiters
    <3>2. ASSUME d # c, NEW n \in 1..Len(queue), queue[n] = d
          PROVE  \E i \in 1..Len(queue') : queue'[i] = d
      BY <3>2, <1>1, <2>1, <2>3
    <3> QED BY <3>1, <3>2
  <2> QED BY <2>4, <2>5, <2>6 DEF QueueIsWaiters
<1>8. PermitAccounting'
  BY <1>5 DEF PermitAccounting, AbortQueued
<1>9. NoIdlePermit'
  BY <1>1, <1>2, <1>3 DEF NoIdlePermit, AbortQueued
<1> QED
  BY <1>6, <1>7, <1>8, <1>9

LEMMA AbortElsewhereInv ==
  ASSUME NEW c \in Callers, IInv, AbortElsewhere(c)
  PROVE  IInv'
BY DEF IInv, TypeOK, QueueIsWaiters, PermitAccounting, Holders, NoIdlePermit,
       AbortElsewhere

LEMMA HandOffInv ==
  ASSUME NEW c \in Callers, IInv, call[c] = "holding", HandOff(c),
         UNCHANGED aborted
  PROVE  /\ IInv'
         /\ Head(queue) \in Callers
         /\ call[Head(queue)] = "waiting"
         /\ Holders' = (Holders \ {c}) \cup {Head(queue)}
         /\ Waiters' = Waiters \ {Head(queue)}
<1> USE DEF IInv
<1> DEFINE h == Head(queue)
<1>1. /\ queue # <<>> /\ h = queue[1] /\ h \in Callers
      /\ queue' = Tail(queue) /\ queue' \in Seq(Callers)
      /\ Len(queue) \in Nat /\ Len(queue) >= 1
      /\ Len(queue') = Len(queue) - 1
      /\ \A i \in 1..Len(queue') : queue'[i] = queue[i + 1]
  BY HeadTailProperties, LenProperties, EmptySeq DEF TypeOK, HandOff
<1>2. call[h] = "waiting" /\ h # c
  BY <1>1 DEF QueueIsWaiters
<1>3. call' = [call EXCEPT ![c] = "released", ![h] = "holding"]
  BY DEF HandOff
<1> HIDE DEF h
<1>4. Holders' = (Holders \ {c}) \cup {h} /\ Waiters' = Waiters \ {h}
  BY <1>1, <1>2, <1>3 DEF TypeOK, Holders, Waiters, CallState
<1>5. TypeOK'
  BY <1>1, <1>3 DEF TypeOK, HandOff, CallState
<1>6. QueueIsWaiters'
  <2>1. \A i, j \in 1..Len(queue') : queue'[i] = queue'[j] => i = j
    BY <1>1 DEF QueueIsWaiters
  <2>2. \A d \in Callers : call'[d] = "waiting" <=> (d # h /\ call[d] = "waiting")
    BY <1>1, <1>2, <1>3 DEF TypeOK, CallState
  <2>3. \A d \in Callers : (\E i \in 1..Len(queue') : queue'[i] = d)
                             <=> (d # h /\ \E n \in 1..Len(queue) : queue[n] = d)
    <3> TAKE d \in Callers
    <3>1. ASSUME NEW i \in 1..Len(queue'), queue'[i] = d
          PROVE  d # h /\ \E n \in 1..Len(queue) : queue[n] = d
      <4>1. i + 1 \in 1..Len(queue) /\ i + 1 # 1 /\ 1 \in 1..Len(queue)
        BY <1>1
      <4> QED BY <3>1, <4>1, <1>1 DEF QueueIsWaiters
    <3>2. ASSUME d # h, NEW n \in 1..Len(queue), queue[n] = d
          PROVE  \E i \in 1..Len(queue') : queue'[i] = d
      <4>1. n # 1
        BY <3>2, <1>1
      <4>2. n - 1 \in 1..Len(queue') /\ (n - 1) + 1 = n
        BY <4>1, <1>1
      <4> QED BY <3>2, <4>2, <1>1
    <3> QED BY <3>1, <3>2
  <2> QED BY <2>1, <2>2, <2>3 DEF QueueIsWaiters
<1>7. PermitAccounting'
  <2>1. c \in Holders /\ h \notin Holders
    BY <1>2 DEF Holders
  <2>2. /\ IsFiniteSet(Holders \ {c})
        /\ Cardinality(Holders \ {c}) = Cardinality(Holders) - 1
        /\ h \notin Holders \ {c}
    BY <2>1, FS_RemoveElement DEF PermitAccounting
  <2>3. /\ IsFiniteSet(Holders')
        /\ Cardinality(Holders') = (Cardinality(Holders) - 1) + 1
    BY <2>2, <1>4, FS_AddElement
  <2> QED
    BY <2>3 DEF TypeOK, PermitAccounting, HandOff
<1>8. NoIdlePermit'
  BY DEF NoIdlePermit, HandOff
<1> QED
  BY <1>1, <1>2, <1>4, <1>5, <1>6, <1>7, <1>8 DEF h

LEMMA GiveBackInv ==
  ASSUME NEW c \in Callers, IInv, call[c] = "holding", GiveBack(c),
         UNCHANGED aborted
  PROVE  /\ IInv'
         /\ Holders' = Holders \ {c}
         /\ Waiters' = Waiters
<1> USE DEF IInv
<1>1. c \in Holders /\ Holders' = Holders \ {c} /\ Waiters' = Waiters
  BY DEF TypeOK, GiveBack, Holders, Waiters, CallState
<1>2. /\ IsFiniteSet(Holders')
      /\ Cardinality(Holders') = Cardinality(Holders) - 1
      /\ Cardinality(Holders') \in Nat
  BY <1>1, FS_RemoveElement, FS_CardinalityType DEF PermitAccounting
<1>3. TypeOK' /\ PermitAccounting'
  BY <1>2, LimitAssumption DEF TypeOK, PermitAccounting, GiveBack, CallState
<1>4. QueueIsWaiters'
  BY DEF TypeOK, QueueIsWaiters, GiveBack, CallState
<1>5. NoIdlePermit'
  BY DEF NoIdlePermit, GiveBack
<1> QED
  BY <1>1, <1>3, <1>4, <1>5

LEMMA NextCallInv ==
  ASSUME NEW c \in Callers, IInv, NextCall(c)
  PROVE  IInv'
<1>1. Holders' = Holders
  BY DEF IInv, TypeOK, NextCall, Holders, CallState
<1>2. TypeOK' /\ QueueIsWaiters'
  BY DEF IInv, TypeOK, QueueIsWaiters, NextCall, CallState
<1> QED
  BY <1>1, <1>2 DEF IInv, PermitAccounting, NoIdlePermit, NextCall

LEMMA NextInv == IInv /\ [Next]_vars => IInv'
<1> SUFFICES ASSUME IInv, [Next]_vars
             PROVE  IInv'
  OBVIOUS
<1>1. CASE UNCHANGED vars
  BY <1>1 DEF IInv, TypeOK, QueueIsWaiters, PermitAccounting, Holders,
              NoIdlePermit, vars
<1>2. ASSUME NEW c \in Callers, Acquire(c)
      PROVE  IInv'
  BY <1>2, AcquireAbortedInv, AcquireFreeInv, AcquireQueuedInv DEF Acquire
<1>3. ASSUME NEW c \in Callers, Abort(c)
      PROVE  IInv'
  BY <1>3, AbortQueuedInv, AbortElsewhereInv DEF Abort
<1>4. ASSUME NEW c \in Callers, Release(c)
      PROVE  IInv'
  <2>1. CASE Spent(c)
    BY <1>1, <1>4, <2>1 DEF Release, HandOff, GiveBack, Spent, vars
  <2>2. CASE ~Spent(c)
    BY <1>4, <2>2, HandOffInv, GiveBackInv DEF Release, Spent
  <2> QED BY <2>1, <2>2
<1>5. ASSUME NEW c \in Callers, NextCall(c)
      PROVE  IInv'
  BY <1>5, NextCallInv
<1> QED
  BY <1>1, <1>2, <1>3, <1>4, <1>5 DEF Next

\* The inductive invariant holds in every state: types, the queue as the set of
\* waiting calls, the accounting of permits and the absence of idle ones.
THEOREM Invariance == Spec => []IInv
<1>1. Init => IInv
  <2> SUFFICES ASSUME Init PROVE IInv
    OBVIOUS
  <2>1. Holders = {}
    BY DEF Init, Holders
  <2> QED
    BY <2>1, FS_EmptySet, LimitAssumption
    DEF Init, IInv, TypeOK, QueueIsWaiters, PermitAccounting, NoIdlePermit, CallState
<1> QED
  BY <1>1, NextInv, PTL DEF Spec

\* semaphore.ts keeps #active equal to the number of permit holders and within
\* #limit, for every interleaving of acquire, abort and (repeated) release.
THEOREM PermitsAccounted == Spec => []PermitAccounting
BY Invariance, PTL DEF IInv

\* No permit is idle while a call waits for one.
THEOREM PermitsNotIdle == Spec => []NoIdlePermit
BY Invariance, PTL DEF IInv

-----------------------------------------------------------------------------
(* Action properties.                                                      *)

\* Only a hand-off grants a permit to a queued call, and it grants the head.
LEMMA GrantIsHead ==
  ASSUME IInv, [Next]_vars, NEW d \in Callers,
         call[d] = "waiting", call'[d] = "holding"
  PROVE  queue # <<>> /\ d = Head(queue)
<1>1. call' # call
  OBVIOUS
<1>2. PICK c \in Callers : Acquire(c) \/ Abort(c) \/ Release(c) \/ NextCall(c)
  BY <1>1 DEF Next, vars
<1>3. ~Acquire(c) /\ ~NextCall(c)
  BY DEF IInv, TypeOK, CallState, Acquire, AcquireAborted, AcquireFree,
         AcquireQueued, NextCall
<1>4. ~Abort(c)
  BY DEF IInv, TypeOK, CallState, Abort, AbortQueued, AbortElsewhere
<1> QED
  BY <1>1, <1>2, <1>3, <1>4
  DEF IInv, TypeOK, CallState, Release, Spent, HandOff, GiveBack

\* Queued calls are granted first in, first out (semaphore.ts:44).
THEOREM Fifo == Spec => NoOvertaking
<1>1. ASSUME IInv, [Next]_vars,
             NEW i \in 1..Len(queue), NEW j \in 1..Len(queue),
             i < j, call'[queue[j]] = "holding"
      PROVE  call'[queue[i]] # "waiting"
  <2>1. Len(queue) \in Nat /\ queue[j] \in Callers /\ call[queue[j]] = "waiting"
    BY <1>1, LenProperties, ElementOfSeq DEF IInv, TypeOK, QueueIsWaiters
  <2>2. queue # <<>> /\ queue[j] = Head(queue)
    BY <1>1, <2>1, GrantIsHead
  <2>3. Head(queue) = queue[1] /\ 1 \in 1..Len(queue) /\ j # 1
    BY <1>1, <2>1, <2>2
  <2>4. queue[j] = queue[1] => j = 1
    BY <1>1, <2>3 DEF IInv, QueueIsWaiters
  <2> QED BY <2>2, <2>3, <2>4
<1>2. IInv /\ [Next]_vars =>
        [\A i, j \in 1..Len(queue) :
           (i < j /\ call'[queue[j]] = "holding") => call'[queue[i]] # "waiting"]_vars
  BY <1>1
<1> QED
  BY <1>2, Invariance, PTL DEF Spec, NoOvertaking

-----------------------------------------------------------------------------
(* Refinement: every step of the semaphore is a step of BoundedPermits.    *)

LEMMA FullIsActive == IInv => (Permits!Full <=> active >= Limit)
BY DEF IInv, PermitAccounting, Permits!Full, Cardinality, Permits!Cardinality

LEMMA EmptyQueueNoWaiters == IInv => (queue = <<>> <=> Waiters = {})
<1> SUFFICES ASSUME IInv PROVE queue = <<>> <=> Waiters = {}
  OBVIOUS
<1>1. ASSUME queue # <<>> PROVE Waiters # {}
  <2>1. queue[1] \in Callers /\ 1 \in 1..Len(queue)
    BY <1>1, LenProperties, EmptySeq, ElementOfSeq DEF IInv, TypeOK
  <2> QED BY <2>1 DEF IInv, QueueIsWaiters, Waiters
<1>2. ASSUME queue = <<>> PROVE Waiters = {}
  BY <1>2 DEF IInv, QueueIsWaiters, Waiters
<1> QED BY <1>1, <1>2

LEMMA StepRefines == IInv /\ [Next]_vars => [Permits!Next]_(Permits!vars)
<1> SUFFICES ASSUME IInv, [Next]_vars
             PROVE  [Permits!Next]_(Permits!vars)
  OBVIOUS
<1>1. CASE UNCHANGED vars
  BY <1>1 DEF vars, Permits!vars, Waiters, Holders
<1>2. ASSUME NEW c \in Callers, AcquireAborted(c) \/ AbortElsewhere(c) \/ NextCall(c)
      PROVE  UNCHANGED <<Waiters, Holders>>
  BY <1>2 DEF IInv, TypeOK, CallState, Waiters, Holders, AcquireAborted,
              AbortElsewhere, NextCall
<1>3. ASSUME NEW c \in Callers, AcquireFree(c)
      PROVE  Permits!Admit(c)
  <2>1. queue = <<>>
    BY <1>3, LimitAssumption DEF IInv, TypeOK, NoIdlePermit, AcquireFree
  <2>2. Waiters = {} /\ ~Permits!Full
    BY <1>3, <2>1, FullIsActive, EmptyQueueNoWaiters, LimitAssumption
    DEF IInv, TypeOK, AcquireFree
  <2>3. c \notin Waiters \cup Holders /\ Holders' = Holders \cup {c} /\ Waiters' = Waiters
    BY <1>3 DEF IInv, TypeOK, CallState, AcquireFree, Waiters, Holders
  <2> QED BY <2>2, <2>3 DEF Permits!Admit
<1>4. ASSUME NEW c \in Callers, AcquireQueued(c)
      PROVE  Permits!Enqueue(c)
  <2>1. c \notin Waiters \cup Holders /\ Waiters' = Waiters \cup {c} /\ Holders' = Holders
    BY <1>4 DEF IInv, TypeOK, CallState, AcquireQueued, Waiters, Holders
  <2> QED BY <1>4, <2>1, FullIsActive DEF AcquireQueued, Permits!Enqueue
<1>5. ASSUME NEW c \in Callers, AbortQueued(c)
      PROVE  Permits!Withdraw(c)
  <2>1. call[c] = "waiting"
    BY <1>5 DEF IInv, QueueIsWaiters, AbortQueued
  <2> QED BY <1>5, <2>1 DEF IInv, TypeOK, CallState, AbortQueued, Waiters, Holders,
                            Permits!Withdraw
<1>6. ASSUME NEW c \in Callers, Release(c)
      PROVE  [Permits!Next]_(Permits!vars)
  <2>1. CASE Spent(c)
    BY <1>6, <2>1 DEF Release, HandOff, GiveBack, Spent, Permits!vars, Waiters, Holders
  <2>2. CASE ~Spent(c) /\ HandOff(c)
    <3>1. Permits!HandOver(c, Head(queue)) /\ Head(queue) \in Callers
      BY <1>6, <2>2, HandOffInv DEF Release, Spent, Waiters, Holders, Permits!HandOver
    <3> QED BY <3>1 DEF Permits!Next
  <2>3. CASE ~Spent(c) /\ GiveBack(c)
    <3>1. Permits!Leave(c)
      BY <1>6, <2>3, GiveBackInv, EmptyQueueNoWaiters
      DEF Release, Spent, GiveBack, Waiters, Holders, Permits!Leave
    <3> QED BY <3>1 DEF Permits!Next
  <2> QED BY <1>6, <2>1, <2>2, <2>3 DEF Release
<1> QED
  BY <1>1, <1>2, <1>3, <1>4, <1>5, <1>6
  DEF Next, Acquire, Abort, Permits!Next, Permits!vars

\* The semaphore implements the bounded permits of BoundedPermits.tla.
THEOREM Refinement == Spec => ImplementsPermits
<1>1. Init => Permits!Init
  BY DEF Init, Permits!Init, Waiters, Holders
<1> QED
  BY <1>1, StepRefines, Invariance, PTL DEF Spec, ImplementsPermits, Permits!Spec

-----------------------------------------------------------------------------
(* ModelCalls: generate and generateAttempt.                               *)

CallStep(c) ==
  \/ Generate(c) \/ Advance(c) \/ Receive(c)
  \/ RecordingFails(c) \/ CancelTurn(c)

\* The steps of a ModelCall that leave its permit alone.
KeepsPermit(c) ==
  \/ Generate(c) \/ RecordingFails(c) \/ PermitRefused(c) \/ OpenStream(c)
  \/ Delta(c) \/ ResponseCompleted(c) \/ AttemptFailed(c) \/ DelayAborted(c)

\* The steps that end an attempt which was streaming.
EndsAttempt(c) == StreamFails(c) \/ Interrupted(c) \/ StreamDone(c)

LEMMA StepKinds ==
  ASSUME NEW c \in Callers, CallStep(c)
  PROVE  \/ KeepsPermit(c) \/ AttemptStarted(c) \/ EndsAttempt(c)
         \/ NextAttempt(c) \/ CancelTurn(c)
BY DEF CallStep, Advance, Receive, KeepsPermit, EndsAttempt

-----------------------------------------------------------------------------
(* The permits of the attempts.                                            *)

\* The end of an attempt gives its permit up, to the first waiter if there is one.
LEMMA LettingGo ==
  ASSUME CallsInv, NEW c \in Callers, EndsAttempt(c)
  PROVE  /\ pc[c] = "streaming" /\ call[c] = "holding"
         /\ LetGo(c) /\ UNCHANGED aborted
         /\ call'[c] = "released"
         /\ \A d \in Callers : d # c =>
              call'[d] = call[d] \/ (call[d] = "waiting" /\ call'[d] = "holding")
<1>1. pc[c] = "streaming" /\ LetGo(c) /\ UNCHANGED aborted
  BY DEF EndsAttempt, StreamFails, Interrupted, StreamDone, WinsRace, Fails
<1>2. call[c] = "holding"
  BY <1>1 DEF CallsInv, PermitPlace
<1>3. CASE HandOff(c)
  <2>1. Head(queue) \in Callers /\ call[Head(queue)] = "waiting"
    BY <1>1, <1>2, <1>3, HandOffInv DEF CallsInv
  <2>2. call' = [call EXCEPT ![c] = "released", ![Head(queue)] = "holding"]
    BY <1>3 DEF HandOff
  <2>3. call \in [Callers -> CallState]
    BY DEF CallsInv, CallsTypeOK, TypeOK
  <2> QED BY <1>1, <1>2, <2>1, <2>2, <2>3
<1>4. CASE GiveBack(c)
  BY <1>1, <1>2, <1>4 DEF GiveBack, CallsInv, CallsTypeOK, TypeOK
<1> QED BY <1>1, <1>3, <1>4 DEF LetGo

\* The next attempt asks again, with the signal as it is.
Rejoin(c) ==
  /\ call[c] = "released"
  /\ call' = [call EXCEPT ![c] = "idle"]
  /\ UNCHANGED <<active, queue, aborted>>

\* To the semaphore, every step of a ModelCall is one of its own, or Rejoin.
LEMMA PermitStep ==
  ASSUME CallsInv, [CallsNext]_allVars
  PROVE  [Next]_vars \/ \E c \in Callers : Rejoin(c)
<1>1. CASE UNCHANGED allVars
  BY <1>1 DEF allVars, vars
<1>2. ASSUME NEW c \in Callers, KeepsPermit(c)
      PROVE  UNCHANGED vars
  BY <1>2 DEF KeepsPermit, Generate, RecordingFails, PermitRefused, OpenStream, Delta,
              ResponseCompleted, AttemptFailed, DelayAborted
<1>3. ASSUME NEW c \in Callers, AttemptStarted(c)
      PROVE  Next
  BY <1>3 DEF AttemptStarted, Next
<1>4. ASSUME NEW c \in Callers, EndsAttempt(c)
      PROVE  Next
  <2>1. Release(c)
    BY <1>4, LettingGo DEF Release, Spent, LetGo
  <2> QED BY <2>1 DEF Next
<1>5. ASSUME NEW c \in Callers, NextAttempt(c)
      PROVE  Rejoin(c)
  <2>1. call[c] = "released"
    BY <1>5 DEF NextAttempt, CallsInv, PermitPlace
  <2> QED BY <1>5, <2>1 DEF NextAttempt, Rejoin
<1>6. ASSUME NEW c \in Callers, CancelTurn(c)
      PROVE  Next
  BY <1>6 DEF CancelTurn, Next
<1> QED
  BY <1>1, <1>2, <1>3, <1>4, <1>5, <1>6, StepKinds DEF CallsNext, CallStep

LEMMA RejoinInv ==
  ASSUME NEW c \in Callers, IInv, Rejoin(c)
  PROVE  IInv' /\ Holders' = Holders /\ Waiters' = Waiters
<1>1. Holders' = Holders /\ Waiters' = Waiters
  BY DEF IInv, TypeOK, Rejoin, Holders, Waiters, CallState
<1>2. TypeOK' /\ QueueIsWaiters'
  BY DEF IInv, TypeOK, QueueIsWaiters, Rejoin, CallState
<1> QED
  BY <1>1, <1>2 DEF IInv, PermitAccounting, NoIdlePermit, Rejoin

LEMMA PermitInv ==
  ASSUME CallsInv, [CallsNext]_allVars
  PROVE  IInv'
BY PermitStep, RejoinInv, NextInv DEF CallsInv

-----------------------------------------------------------------------------
(* The inductive invariant.                                                *)

\* A step of one ModelCall leaves the others where they are; a waiting one may be
\* handed the permit.
LEMMA OthersStay ==
  ASSUME CallsInv, NEW c \in Callers, CallStep(c), NEW d \in Callers, d # c
  PROVE  /\ pc'[d] = pc[d] /\ attempt'[d] = attempt[d] /\ text'[d] = text[d]
         /\ completed'[d] = completed[d] /\ retryable'[d] = retryable[d]
         /\ stream'[d] = stream[d]
         /\ call'[d] = call[d] \/ (call[d] = "waiting" /\ call'[d] = "holding")
<1> USE DEF CallsInv, CallsTypeOK
<1>1. CASE KeepsPermit(c)
  BY <1>1 DEF KeepsPermit, Generate, RecordingFails, PermitRefused, OpenStream, Delta,
              ResponseCompleted, AttemptFailed, DelayAborted, Goto, vars
<1>2. CASE AttemptStarted(c)
  BY <1>2 DEF AttemptStarted, Goto, Acquire, AcquireAborted, AcquireFree, AcquireQueued, TypeOK
<1>3. CASE EndsAttempt(c)
  <2>1. call'[d] = call[d] \/ (call[d] = "waiting" /\ call'[d] = "holding")
    BY <1>3, LettingGo
  <2> QED BY <1>3, <2>1 DEF EndsAttempt, StreamFails, Interrupted, StreamDone, Fails, Forget, Goto
<1>4. CASE NextAttempt(c)
  BY <1>4 DEF NextAttempt, Goto, TypeOK
<1>5. CASE CancelTurn(c)
  BY <1>5 DEF CancelTurn, callVars, Abort, AbortQueued, AbortElsewhere, TypeOK
<1> QED BY <1>1, <1>2, <1>3, <1>4, <1>5, StepKinds

LEMMA CallsTypeStep ==
  ASSUME CallsInv, [CallsNext]_allVars
  PROVE  CallsTypeOK'
<1> USE DEF CallsInv, CallsTypeOK
<1>1. TypeOK'
  BY PermitInv DEF IInv
<1>2. CASE UNCHANGED allVars
  BY <1>1, <1>2 DEF allVars, callVars
<1>3. ASSUME NEW c \in Callers, KeepsPermit(c)
      PROVE  CallsTypeOK'
  <2>1. pc' \in [Callers -> Await \cup Over \cup {"idle"}]
    BY <1>3 DEF KeepsPermit, Generate, RecordingFails, PermitRefused, OpenStream, Delta,
                ResponseCompleted, AttemptFailed, DelayAborted, Goto, Await, Over
  <2>2. attempt' \in [Callers -> 0..MaxAttempts]
    <3>1. 1 \in 0..MaxAttempts
      BY ModelCallAssumption
    <3>2. attempt' = attempt \/ attempt' = [attempt EXCEPT ![c] = 1]
      BY <1>3 DEF KeepsPermit, Generate, RecordingFails, PermitRefused, OpenStream, Delta,
                  ResponseCompleted, AttemptFailed, DelayAborted
    <3> QED BY <3>1, <3>2
  <2>3. text' \in [Callers -> Seq(1..MaxAttempts)]
    <3>1. CASE Delta(c)
      <4>1. attempt[c] \in 1..MaxAttempts
        BY <3>1, ModelCallAssumption DEF Delta, WinsRace, PermitPlace
      <4>2. Append(text[c], attempt[c]) \in Seq(1..MaxAttempts)
        BY <4>1, AppendProperties
      <4> QED BY <3>1, <4>2 DEF Delta
    <3>2. CASE ~Delta(c)
      BY <1>3, <3>2
      DEF KeepsPermit, Generate, RecordingFails, PermitRefused, OpenStream,
          ResponseCompleted, AttemptFailed, DelayAborted
    <3> QED BY <3>1, <3>2
  <2>4. /\ completed' \in [Callers -> BOOLEAN] /\ retryable' \in [Callers -> BOOLEAN]
        /\ stream' \in [Callers -> Stream]
    BY <1>3 DEF KeepsPermit, Generate, RecordingFails, PermitRefused, OpenStream, Delta,
                ResponseCompleted, AttemptFailed, DelayAborted, Stream
  <2> QED BY <1>1, <2>1, <2>2, <2>3, <2>4
<1>4. ASSUME NEW c \in Callers, EndsAttempt(c)
      PROVE  CallsTypeOK'
  <2>1. pc' \in [Callers -> Await \cup Over \cup {"idle"}] /\ attempt' = attempt
    BY <1>4 DEF EndsAttempt, StreamFails, Interrupted, StreamDone, Fails, Goto, Await, Over
  <2>2. text' \in [Callers -> Seq(1..MaxAttempts)]
    <3>1. <<>> \in Seq(1..MaxAttempts)
      BY EmptySeq
    <3> QED BY <1>4, <3>1 DEF EndsAttempt, StreamFails, Interrupted, StreamDone, Fails, Forget
  <2>3. completed' \in [Callers -> BOOLEAN] /\ stream' \in [Callers -> Stream]
    BY <1>4 DEF EndsAttempt, StreamFails, Interrupted, StreamDone, Fails, Forget, Stream
  <2>4. retryable' \in [Callers -> BOOLEAN]
    <3>1. (~aborted[c]) \in BOOLEAN
      OBVIOUS
    <3> QED BY <1>4, <3>1 DEF EndsAttempt, StreamFails, Interrupted, StreamDone, Fails
  <2> QED BY <1>1, <2>1, <2>2, <2>3, <2>4
<1>5. ASSUME NEW c \in Callers, AttemptStarted(c) \/ CancelTurn(c)
      PROVE  CallsTypeOK'
  BY <1>1, <1>5 DEF AttemptStarted, CancelTurn, callVars, Goto, Await
<1>6. ASSUME NEW c \in Callers, NextAttempt(c)
      PROVE  CallsTypeOK'
  <2>1. attempt[c] \in Nat /\ attempt[c] < MaxAttempts
    BY <1>6 DEF NextAttempt, PermitPlace
  <2>2. attempt' \in [Callers -> 0..MaxAttempts]
    BY <1>6, <2>1, ModelCallAssumption DEF NextAttempt
  <2> QED BY <1>1, <1>6, <2>2 DEF NextAttempt, Goto, Await
<1> QED
  BY <1>2, <1>3, <1>4, <1>5, <1>6, StepKinds DEF CallsNext, CallStep

\* The places of the caller that steps.
LEMMA PlacesOfStep ==
  ASSUME CallsInv, NEW c \in Callers, CallStep(c)
  PROVE  PermitPlace(c)' /\ AnswerPlace(c)'
<1> USE DEF CallsInv, CallsTypeOK
<1>0. PermitPlace(c) /\ AnswerPlace(c)
  OBVIOUS
<1>1. CASE KeepsPermit(c) /\ ~Delta(c)
  <2>1. UNCHANGED call
    BY <1>1 DEF KeepsPermit, Generate, RecordingFails, PermitRefused, OpenStream,
                ResponseCompleted, AttemptFailed, DelayAborted, vars
  <2>2. PermitPlace(c)'
    BY <1>0, <1>1, <2>1 DEF KeepsPermit, Generate, RecordingFails, PermitRefused, OpenStream,
         ResponseCompleted, AttemptFailed, DelayAborted, Goto, PermitPlace, WinsRace, RetryAllowed
  <2>3. UNCHANGED text /\ (UNCHANGED attempt \/ Generate(c))
    BY <1>1 DEF KeepsPermit, RecordingFails, Generate, PermitRefused, OpenStream,
                ResponseCompleted, AttemptFailed, DelayAborted
  <2>4. \A k \in 1..Len(text[c]) : text[c][k] = attempt'[c]
    <3>1. Generate(c) => text[c] = <<>>
      BY <1>0 DEF Generate, AnswerPlace
    <3>2. text[c] = <<>> => 1..Len(text[c]) = {}
      OBVIOUS
    <3> QED BY <1>0, <2>3, <3>1, <3>2 DEF AnswerPlace
  <2>5. /\ pc'[c] \notin {"streaming", "answered"} => text[c] = <<>> /\ stream'[c] = "none"
        /\ pc'[c] # "answered" => (completed'[c] <=> stream'[c] = "completed")
        /\ pc'[c] = "streaming" => stream'[c] \in {"open", "completed"}
        /\ pc'[c] = "answered" => stream'[c] = "ended"
    BY <1>0, <1>1 DEF KeepsPermit, Generate, RecordingFails, PermitRefused, OpenStream,
         ResponseCompleted, AttemptFailed, DelayAborted, Goto, AnswerPlace, WinsRace, Stream
  <2> QED BY <2>2, <2>3, <2>4, <2>5 DEF AnswerPlace
<1>2. CASE Delta(c)
  <2>1. /\ UNCHANGED <<call, pc, attempt, completed, retryable, stream>>
        /\ pc[c] = "streaming"
        /\ text'[c] = Append(text[c], attempt[c])
    BY <1>2 DEF Delta, WinsRace, vars
  <2>2. /\ Len(text'[c]) = Len(text[c]) + 1 /\ Len(text[c]) \in Nat
        /\ \A k \in 1..Len(text[c]) : text'[c][k] = text[c][k]
        /\ text'[c][Len(text[c]) + 1] = attempt[c]
    <3>1. attempt[c] \in 1..MaxAttempts
      BY <1>0, <2>1, ModelCallAssumption DEF PermitPlace
    <3> QED BY <2>1, <3>1, AppendProperties, LenProperties
  <2>3. \A k \in 1..Len(text'[c]) : text'[c][k] = attempt'[c]
    BY <1>0, <2>1, <2>2 DEF AnswerPlace
  <2> QED BY <1>0, <2>1, <2>3 DEF AnswerPlace, PermitPlace
<1>3. CASE AttemptStarted(c)
  <2>1. call'[c] \in {"waiting", "holding", "rejected"}
    BY <1>3 DEF AttemptStarted, Acquire, AcquireAborted, AcquireFree, AcquireQueued, TypeOK
  <2> QED BY <1>0, <1>3, <2>1 DEF AttemptStarted, Goto, PermitPlace, AnswerPlace
<1>4. CASE EndsAttempt(c)
  <2>1. pc[c] = "streaming" /\ call'[c] = "released" /\ attempt' = attempt
    BY <1>4, LettingGo DEF EndsAttempt, StreamFails, Interrupted, StreamDone, Fails
  <2>2. PermitPlace(c)'
    BY <1>0, <1>4, <2>1
    DEF EndsAttempt, StreamFails, Interrupted, StreamDone, Fails, Goto, PermitPlace
  <2>3. CASE pc'[c] = "answered"
    <3>1. /\ text' = text /\ completed[c]
          /\ stream'[c] = IF stream[c] = "completed" THEN "ended" ELSE "cut"
      BY <1>4, <2>3
      DEF EndsAttempt, StreamFails, Interrupted, StreamDone, Fails, Goto, Acceptable
    <3> QED BY <1>0, <2>1, <2>2, <2>3, <3>1 DEF AnswerPlace
  <2>4. CASE pc'[c] # "answered"
    <3>1. /\ pc'[c] = "failing" /\ text'[c] = <<>> /\ completed'[c] = FALSE
          /\ stream'[c] = "none"
      BY <1>4, <2>4
      DEF EndsAttempt, StreamFails, Interrupted, StreamDone, Fails, Forget, Goto
    <3>2. 1..Len(text'[c]) = {}
      BY <3>1
    <3> QED BY <2>2, <3>1, <3>2 DEF AnswerPlace
  <2> QED BY <2>3, <2>4
<1>5. CASE NextAttempt(c)
  <2>1. /\ pc'[c] = "recording" /\ call'[c] = "idle" /\ attempt'[c] >= 1
        /\ UNCHANGED <<text, completed, retryable, stream>>
    BY <1>0, <1>5 DEF NextAttempt, Goto, PermitPlace, TypeOK
  <2>2. text[c] = <<>> /\ 1..Len(text[c]) = {}
    <3>1. text[c] = <<>>
      BY <1>0, <1>5 DEF NextAttempt, AnswerPlace
    <3> QED BY <3>1
  <2> QED BY <1>0, <1>5, <2>1, <2>2 DEF PermitPlace, AnswerPlace, NextAttempt
<1>6. CASE CancelTurn(c)
  <2>1. UNCHANGED callVars
    BY <1>6 DEF CancelTurn
  <2>2. call'[c] = call[c] \/ (call[c] = "waiting" /\ call'[c] = "rejected")
    BY <1>6 DEF CancelTurn, Abort, AbortQueued, AbortElsewhere, IInv, QueueIsWaiters, TypeOK
  <2> QED BY <1>0, <2>1, <2>2 DEF callVars, PermitPlace, AnswerPlace
<1> QED BY <1>1, <1>2, <1>3, <1>4, <1>5, <1>6, StepKinds DEF KeepsPermit

LEMMA CallsStepInv == CallsInv /\ [CallsNext]_allVars => CallsInv'
<1> SUFFICES ASSUME CallsInv, [CallsNext]_allVars
             PROVE  CallsInv'
  OBVIOUS
<1>1. ASSUME NEW d \in Callers
      PROVE  PermitPlace(d)' /\ AnswerPlace(d)'
  <2>1. PermitPlace(d) /\ AnswerPlace(d)
    BY DEF CallsInv
  <2>2. CASE UNCHANGED allVars
    BY <2>1, <2>2 DEF allVars, vars, callVars, PermitPlace, AnswerPlace
  <2>3. CASE CallStep(d)
    BY <2>3, PlacesOfStep
  <2>4. ASSUME NEW c \in Callers, CallStep(c), d # c
        PROVE  PermitPlace(d)' /\ AnswerPlace(d)'
    <3>1. /\ pc'[d] = pc[d] /\ attempt'[d] = attempt[d] /\ text'[d] = text[d]
          /\ completed'[d] = completed[d] /\ retryable'[d] = retryable[d]
          /\ stream'[d] = stream[d]
          /\ call'[d] = call[d] \/ (call[d] = "waiting" /\ call'[d] = "holding")
      BY <2>4, OthersStay
    <3>2. pc[d] \in Await \cup Over \cup {"idle"}
      BY DEF CallsInv, CallsTypeOK
    <3>3. call[d] = "waiting" => pc[d] = "acquiring"
      BY <2>1, <3>2 DEF PermitPlace, Await, Over
    <3> QED BY <2>1, <3>1, <3>3 DEF PermitPlace, AnswerPlace
  <2> QED BY <2>2, <2>3, <2>4 DEF CallsNext, CallStep
<1> QED BY <1>1, CallsTypeStep, PermitInv DEF CallsInv

\* The inductive invariant holds in every state of the ModelCalls.
THEOREM CallsInvariance == CallsSpec => []CallsInv
<1>1. CallsInit => CallsInv
  <2> SUFFICES ASSUME CallsInit PROVE CallsInv
    OBVIOUS
  <2>1. IInv
    <3>1. Holders = {}
      BY DEF CallsInit, Init, Holders
    <3> QED
      BY <3>1, FS_EmptySet, LimitAssumption
      DEF CallsInit, Init, IInv, TypeOK, QueueIsWaiters, PermitAccounting, NoIdlePermit, CallState
  <2>2. CallsTypeOK
    <3>1. <<>> \in Seq(1..MaxAttempts) /\ 0 \in 0..MaxAttempts
      BY EmptySeq, ModelCallAssumption
    <3> QED BY <2>1, <3>1 DEF CallsInit, CallsTypeOK, IInv, Stream
  <2>3. \A c \in Callers : PermitPlace(c) /\ AnswerPlace(c)
    BY DEF CallsInit, Init, PermitPlace, AnswerPlace
  <2> QED BY <2>1, <2>2, <2>3 DEF CallsInv
<1> QED
  BY <1>1, CallsStepInv, PTL DEF CallsSpec

-----------------------------------------------------------------------------
(* What the runs check.                                                    *)

\* The type invariant of generate() and its attempts.
THEOREM CallTypes == CallsSpec => []CallsTypeOK
<1>1. CallsInv => CallsTypeOK
  BY DEF CallsInv
<1> QED BY <1>1, CallsInvariance, PTL

\* PermitAccounting: however the ModelCalls of all Turns are retried, cut off,
\* cancelled and refused, the permits in use are those the attempts hold, and at
\* most maxConcurrentCalls.
THEOREM AttemptsAccounted == CallsSpec => []PermitAccounting
<1>1. CallsInv => PermitAccounting
  BY DEF CallsInv, IInv
<1> QED BY <1>1, CallsInvariance, PTL

\* PermitsAreStreams: a permit is held by an attempt that streams or has just
\* been handed it, and by no call that is over, delayed or recording.
THEOREM PermitsFollowStreams == CallsSpec => []PermitsAreStreams
<1>1. CallsInv => PermitsAreStreams
  <2> SUFFICES ASSUME CallsInv, NEW c \in Callers
               PROVE  /\ pc[c] = "streaming" => call[c] = "holding"
                      /\ call[c] = "holding" => pc[c] \in {"streaming", "acquiring"}
    BY DEF PermitsAreStreams
  <2>1. PermitPlace(c) /\ pc[c] \in Await \cup Over \cup {"idle"}
    BY DEF CallsInv, CallsTypeOK
  <2> QED BY <2>1 DEF PermitPlace, Await, Over
<1> QED BY <1>1, CallsInvariance, PTL

\* WholeAnswers, ARCHITECTURE Kernel invariant 9: an answer is the whole stream of
\* the last attempt and holds nothing of an attempt that failed.
THEOREM AnswersAreWhole == CallsSpec => []WholeAnswers
<1>1. CallsInv => WholeAnswers
  BY DEF CallsInv, AnswerPlace, WholeAnswers
<1> QED BY <1>1, CallsInvariance, PTL

\* NoOvertaking: the attempts are served in the order in which they queued, also
\* when some of them are cancelled or retried.
THEOREM AttemptsFifo == CallsSpec => NoOvertaking
<1>1. ASSUME CallsInv, [CallsNext]_allVars,
             NEW i \in 1..Len(queue), NEW j \in 1..Len(queue),
             i < j, call'[queue[j]] = "holding"
      PROVE  call'[queue[i]] # "waiting"
  <2>1. /\ Len(queue) \in Nat /\ queue[j] \in Callers /\ call[queue[j]] = "waiting"
    BY <1>1, LenProperties, ElementOfSeq DEF CallsInv, IInv, TypeOK, QueueIsWaiters
  <2>2. ASSUME NEW c \in Callers, Rejoin(c)
        PROVE  FALSE
    BY <1>1, <2>1, <2>2 DEF Rejoin, CallsInv, IInv, TypeOK
  <2>3. [Next]_vars
    BY <1>1, <2>2, PermitStep
  <2>4. queue # <<>> /\ queue[j] = Head(queue)
    BY <1>1, <2>1, <2>3, GrantIsHead DEF CallsInv
  <2>5. Head(queue) = queue[1] /\ 1 \in 1..Len(queue) /\ j # 1
    BY <1>1, <2>1, <2>4
  <2> QED BY <1>1, <2>4, <2>5 DEF CallsInv, IInv, QueueIsWaiters
<1>2. CallsInv /\ [CallsNext]_allVars =>
        [\A i, j \in 1..Len(queue) :
           (i < j /\ call'[queue[j]] = "holding") => call'[queue[i]] # "waiting"]_vars
  BY <1>1
<1> QED
  BY <1>2, CallsInvariance, PTL DEF CallsSpec, NoOvertaking

\* ImplementsPermits: the ModelCalls use their semaphore as the bounded permits of
\* BoundedPermits.tla.
THEOREM CallsRefinePermits == CallsSpec => ImplementsPermits
<1>1. CallsInit => Permits!Init
  BY DEF CallsInit, Init, Permits!Init, Waiters, Holders
<1>2. CallsInv /\ [CallsNext]_allVars => [Permits!Next]_(Permits!vars)
  <2> SUFFICES ASSUME CallsInv, [CallsNext]_allVars
               PROVE  [Permits!Next]_(Permits!vars)
    OBVIOUS
  <2>1. CASE [Next]_vars
    BY <2>1, StepRefines DEF CallsInv
  <2>2. CASE \E c \in Callers : Rejoin(c)
    BY <2>2, RejoinInv DEF CallsInv, Permits!vars
  <2> QED BY <2>1, <2>2, PermitStep
<1> QED
  BY <1>1, <1>2, CallsInvariance, PTL DEF CallsSpec, ImplementsPermits, Permits!Spec

\* CancelledNotAnswered: a cancelled ModelCall is never answered, at whichever
\* await the abort finds it.
THEOREM CancelledStaysUnanswered == CallsSpec => CancelledNotAnswered
<1>1. CallsInv /\ [CallsNext]_allVars =>
        [\A c \in Callers : (aborted[c] /\ pc[c] # "answered") => pc'[c] # "answered"]_allVars
  <2> SUFFICES ASSUME CallsInv, CallsNext, NEW d \in Callers, aborted[d],
                      pc[d] # "answered"
               PROVE  pc'[d] # "answered"
    OBVIOUS
  <2>1. PICK c \in Callers : CallStep(c)
    BY DEF CallsNext, CallStep
  <2>2. CASE c # d
    BY <2>1, <2>2, OthersStay
  <2>3. CASE c = d
    <3>1. ~StreamDone(d)
      BY DEF StreamDone, WinsRace
    <3>2. pc \in [Callers -> Await \cup Over \cup {"idle"}]
      BY DEF CallsInv, CallsTypeOK
    <3> QED
      BY <2>1, <2>3, <3>1, <3>2, StepKinds
      DEF KeepsPermit, Generate, RecordingFails, PermitRefused, OpenStream, Delta,
          ResponseCompleted, AttemptFailed, DelayAborted, EndsAttempt, StreamFails,
          Interrupted, Fails, AttemptStarted, NextAttempt, CancelTurn, callVars, Goto
  <2> QED BY <2>2, <2>3
<1> QED
  BY <1>1, CallsInvariance, PTL DEF CallsSpec, CancelledNotAnswered
=============================================================================
