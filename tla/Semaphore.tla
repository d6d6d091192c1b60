------------------------------ MODULE Semaphore ------------------------------
(***************************************************************************)
(* src/src/kernel/semaphore.ts: the counting semaphore that bounds active  *)
(* Turns (sessions/session.ts:168), ModelCall attempts (models/model.ts:   *)
(* 255) and Tool executions (tools/tool.ts:149).                           *)
(*                                                                         *)
(* A caller makes one acquire() after another, each with a fresh           *)
(* AbortSignal.  JavaScript runs acquire, an abort listener and a release  *)
(* to completion, so each is one step; what interleaves is their order.    *)
(* The listeners of a signal shared by several waiters run one after the   *)
(* other, each of them one Abort step.                                     *)
(***************************************************************************)
EXTENDS Naturals, Sequences, FiniteSets, SequencesExt

CONSTANTS Callers,  \* the code paths that call acquire()
          Limit     \* #limit

\* The constructor throws a RangeError for anything else.
ASSUME LimitAssumption == Limit \in Nat \ {0}

VARIABLES
  active,   \* #active
  queue,    \* #queue: the callers whose waiter is queued, first in first out
  call,     \* where the caller's current acquire() call stands
  aborted   \* whether the AbortSignal of that call is aborted

vars == <<active, queue, call, aborted>>

CallState == {"idle", "waiting", "holding", "released", "rejected"}

Holders == {c \in Callers : call[c] = "holding"}
Waiters == {c \in Callers : call[c] = "waiting"}

Init ==
  /\ active = 0
  /\ queue = <<>>
  /\ call = [c \in Callers |-> "idle"]
  /\ aborted = [c \in Callers |-> FALSE]

-----------------------------------------------------------------------------

\* acquire(): refuse an aborted signal, grant a free permit, or queue.
AcquireAborted(c) ==
  /\ call[c] = "idle"
  /\ aborted[c]
  /\ call' = [call EXCEPT ![c] = "rejected"]
  /\ UNCHANGED <<active, queue, aborted>>

AcquireFree(c) ==
  /\ call[c] = "idle"
  /\ ~aborted[c]
  /\ active < Limit
  /\ active' = active + 1
  /\ call' = [call EXCEPT ![c] = "holding"]
  /\ UNCHANGED <<queue, aborted>>

AcquireQueued(c) ==
  /\ call[c] = "idle"
  /\ ~aborted[c]
  /\ active >= Limit
  /\ queue' = Append(queue, c)
  /\ call' = [call EXCEPT ![c] = "waiting"]
  /\ UNCHANGED <<active, aborted>>

\* Mutant of AbortQueued: reject the call but leave its waiter in the queue.
AbortLeavesWaiter(c) ==
  /\ ~aborted[c]
  /\ call[c] = "waiting"
  /\ call' = [call EXCEPT ![c] = "rejected"]
  /\ aborted' = [aborted EXCEPT ![c] = TRUE]
  /\ UNCHANGED <<active, queue>>

\* onAbort(): the listener of a queued waiter removes it and rejects the call.
AbortQueued(c) ==
  /\ ~aborted[c]
  /\ \E k \in 1..Len(queue) :
       /\ queue[k] = c
       /\ queue' = RemoveAt(queue, k)
  /\ call' = [call EXCEPT ![c] = "rejected"]
  /\ aborted' = [aborted EXCEPT ![c] = TRUE]
  /\ UNCHANGED active

\* The signal of a call that is not queued aborts: no listener is registered,
\* and a caller that already holds the permit keeps it until it releases.
AbortElsewhere(c) ==
  /\ ~aborted[c]
  /\ call[c] # "waiting"
  /\ aborted' = [aborted EXCEPT ![c] = TRUE]
  /\ UNCHANGED <<active, queue, call>>

\* Mutant of HandOff: the permit is handed over and returned as well.
HandOffAndReturn(c) ==
  /\ queue # <<>>
  /\ call' = [call EXCEPT ![c] = "released", ![Head(queue)] = "holding"]
  /\ queue' = Tail(queue)
  /\ active' = active - 1

\* Mutant of HandOff: pop() instead of shift().
HandOffLast(c) ==
  /\ queue # <<>>
  /\ call' = [call EXCEPT ![c] = "released", ![Last(queue)] = "holding"]
  /\ queue' = Front(queue)
  /\ UNCHANGED active

\* The release closure hands the permit to the first waiter or returns it.
HandOff(c) ==
  /\ queue # <<>>
  /\ call' = [call EXCEPT ![c] = "released", ![Head(queue)] = "holding"]
  /\ queue' = Tail(queue)
  /\ UNCHANGED active

GiveBack(c) ==
  /\ queue = <<>>
  /\ active' = active - 1
  /\ call' = [call EXCEPT ![c] = "released"]
  /\ UNCHANGED queue

\* `if (released) return`: a closure that was already called does nothing.
Spent(c) == call[c] = "released"

\* release(): the caller may call its closure again after the first time.
Release(c) ==
  /\ call[c] \in {"holding", "released"}
  /\ \/ Spent(c) /\ UNCHANGED <<active, queue, call>>
     \/ ~Spent(c) /\ (HandOff(c) \/ GiveBack(c))
  /\ UNCHANGED aborted

\* The caller is done with this call and will make another one.
NextCall(c) ==
  /\ call[c] \in {"released", "rejected"}
  /\ call' = [call EXCEPT ![c] = "idle"]
  /\ aborted' = [aborted EXCEPT ![c] = FALSE]
  /\ UNCHANGED <<active, queue>>

Acquire(c) == AcquireAborted(c) \/ AcquireFree(c) \/ AcquireQueued(c)

Abort(c) == AbortQueued(c) \/ AbortElsewhere(c)

Next == \E c \in Callers : Acquire(c) \/ Abort(c) \/ Release(c) \/ NextCall(c)

Spec == Init /\ [][Next]_vars

-----------------------------------------------------------------------------

\* The type invariant: #active and #queue of semaphore.ts:9-11.
TypeOK ==
  /\ active \in Nat
  /\ queue \in Seq(Callers)
  /\ call \in [Callers -> CallState]
  /\ aborted \in [Callers -> BOOLEAN]

\* The queue holds every waiting call, and each of them once.
QueueIsWaiters ==
  /\ \A i, j \in 1..Len(queue) : queue[i] = queue[j] => i = j
  /\ \A c \in Callers : call[c] = "waiting" <=> \E i \in 1..Len(queue) : queue[i] = c

\* However acquisitions, hand-offs, aborts and repeated releases interleave,
\* #active counts exactly the callers that hold a permit and never passes
\* #limit: no permit is lost by an abort, none is minted by a second release.
PermitAccounting ==
  /\ IsFiniteSet(Holders)
  /\ active = Cardinality(Holders)
  /\ active <= Limit

\* No permit is idle while a call waits for one (no lost wake-up): a release
\* that finds a waiter hands over, and an abort never strands the queue.
NoIdlePermit == queue # <<>> => active = Limit

\* The inductive invariant behind the safety properties.
IInv ==
  /\ TypeOK
  /\ QueueIsWaiters
  /\ PermitAccounting
  /\ NoIdlePermit

\* Permits go to waiters in the order in which they queued: whoever is granted
\* from the queue leaves nobody behind who queued earlier.
NoOvertaking ==
  [][\A i, j \in 1..Len(queue) :
       (i < j /\ call'[queue[j]] = "holding") => call'[queue[i]] # "waiting"]_vars

\* A call whose signal is aborted is never granted a permit afterwards: the
\* listener takes the waiter out before a later release can reach it.
AbortedNeverGranted ==
  [][\A c \in Callers :
       (aborted[c] /\ call[c] # "holding") => call'[c] # "holding"]_vars

\* The semaphore implements the bounded permits its callers rely on.
Permits == INSTANCE BoundedPermits WITH waiting <- Waiters, holding <- Holders

ImplementsPermits == Permits!Spec
=============================================================================
