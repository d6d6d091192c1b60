----------------------- MODULE KernelLifecycleProofs -----------------------
(***************************************************************************)
(* Machine-checked facts about LeasedRegistry.tla, for every set of ids,   *)
(* registration objects and lease holders, and about KernelLifecycle.tla,  *)
(* for every number of Session objects, calls, plugins and capabilities.   *)
(* The Kernel uses the registry as its specification allows, which carries *)
(* the registry's theorems over to it; the other safety properties each    *)
(* have an inductive invariant of their own: WriterInv, HoldsInv,          *)
(* CancelInv.                                                              *)
(***************************************************************************)
EXTENDS KernelLifecycle, FiniteSetTheorems, TLAPS

-----------------------------------------------------------------------------
(* LeasedRegistry: register, acquire, release and the disposer.            *)

\* Each method preserves the inductive invariant.

LEMMA RegisterInv ==
  ASSUME NEW r \in Regs, NEW i \in Ids, IInv, Register(r, i)
  PROVE  IInv'
<1> USE DEF IInv
<1>1. TypeOK'
  BY DEF TypeOK, Register, DisposerState
<1>2. LeaseAccounting'
  <2>1. \A q \in Regs : LiveOn(q)' = LiveOn(q)
    BY DEF Register, LiveOn
  <2>2. leases' = [leases EXCEPT ![r] = 0] /\ LiveOn(r) = {}
    BY DEF Register
  <2> QED
    BY <2>1, <2>2, FS_EmptySet DEF TypeOK, LeaseAccounting
<1>3. \A j \in Ids : entries[j] # r
  BY NoneAssumption DEF TypeOK, EntriesMatchDisposers, Register
<1>4. EntriesMatchDisposers'
  BY <1>3, NoneAssumption DEF TypeOK, EntriesMatchDisposers, Register, Contains
<1>5. DrainedInv'
  BY DEF TypeOK, DrainedInv, Register
<1> QED
  BY <1>1, <1>2, <1>4, <1>5

LEMMA AcquireInv ==
  ASSUME NEW h \in Holders, NEW i \in Ids, IInv, Acquire(h, i)
  PROVE  IInv'
<1> USE DEF IInv
<1>0. PICK q \in Regs : q = entries[i]
  BY DEF TypeOK, Acquire
<1>1. active[q] /\ lease' = [lease EXCEPT ![h] = q]
      /\ released' = [released EXCEPT ![h] = FALSE]
      /\ leases' = [leases EXCEPT ![q] = @ + 1]
      /\ UNCHANGED registrationVars
  BY <1>0 DEF TypeOK, Acquire
<1>2. TypeOK'
  BY <1>1 DEF TypeOK, registrationVars
<1>3. LeaseAccounting'
  <2>1. h \notin LiveOn(q) /\ LiveOn(q)' = LiveOn(q) \cup {h}
    BY <1>1, NoneAssumption DEF TypeOK, Acquire, Live, LiveOn
  <2>2. \A p \in Regs : p # q => LiveOn(p)' = LiveOn(p)
    BY <1>1, NoneAssumption DEF TypeOK, Acquire, Live, LiveOn
  <2>3. IsFiniteSet(LiveOn(q)') /\ Cardinality(LiveOn(q)') = Cardinality(LiveOn(q)) + 1
    BY <1>1, <2>1, FS_AddElement DEF LeaseAccounting
  <2>4. leases'[q] = leases[q] + 1 /\ \A p \in Regs : p # q => leases'[p] = leases[p]
    BY <1>1 DEF TypeOK
  <2>5. ASSUME NEW p \in Regs
        PROVE  (IsFiniteSet(LiveOn(p)) /\ leases[p] = Cardinality(LiveOn(p)))'
    <3>1. CASE p = q
      BY <3>1, <2>3, <2>4 DEF LeaseAccounting
    <3>2. CASE p # q
      BY <3>2, <2>2, <2>4 DEF LeaseAccounting
    <3> QED BY <3>1, <3>2
  <2> QED BY <2>5 DEF LeaseAccounting
<1>4. EntriesMatchDisposers'
  BY <1>1 DEF EntriesMatchDisposers, registrationVars
<1>5. DrainedInv'
  BY <1>1 DEF TypeOK, DrainedInv, registrationVars
<1> QED
  BY <1>2, <1>3, <1>4, <1>5

LEMMA ReleaseInv ==
  ASSUME NEW h \in Holders, IInv, Release(h), ~AlreadyReleased(h)
  PROVE  IInv'
<1> USE DEF IInv
<1>0. PICK q \in Regs : q = lease[h]
  BY DEF TypeOK, Release
<1>1. /\ ~released[h]
      /\ released' = [released EXCEPT ![h] = TRUE]
      /\ leases' = [leases EXCEPT ![q] = @ - 1]
      /\ drained' = [drained EXCEPT ![q] = @ \/ (~active[q] /\ leases[q] = 1)]
      /\ UNCHANGED <<entries, idOf, active, disposer, lease>>
  BY <1>0 DEF TypeOK, Release, AlreadyReleased
<1>2. h \in LiveOn(q) /\ LiveOn(q)' = LiveOn(q) \ {h}
  BY <1>0, <1>1 DEF TypeOK, LiveOn
<1>3. \A p \in Regs : p # q => LiveOn(p)' = LiveOn(p)
  BY <1>0, <1>1 DEF TypeOK, LiveOn
<1>4. /\ IsFiniteSet(LiveOn(q)')
      /\ Cardinality(LiveOn(q)') = Cardinality(LiveOn(q)) - 1
      /\ Cardinality(LiveOn(q)') \in Nat
  BY <1>1, <1>2, FS_RemoveElement, FS_CardinalityType DEF LeaseAccounting
<1>5. leases[q] \in Nat /\ leases[q] >= 1
  BY <1>1, <1>4 DEF TypeOK, LeaseAccounting
<1>6. TypeOK'
  BY <1>1, <1>5 DEF TypeOK
<1>7. LeaseAccounting'
  BY <1>1, <1>3, <1>4, <1>5 DEF TypeOK, LeaseAccounting
<1>8. EntriesMatchDisposers'
  BY <1>1 DEF EntriesMatchDisposers
<1>9. DrainedInv'
  <2> SUFFICES ASSUME NEW r \in Regs
               PROVE  /\ active'[r] <=> disposer'[r] = "registered"
                      /\ active'[r] => ~drained'[r]
                      /\ drained'[r] /\ disposer'[r] = "awaiting" => leases'[r] = 0
                      /\ disposer'[r] = "awaiting" /\ leases'[r] = 0 => drained'[r]
                      /\ disposer'[r] \in {"unused", "done"} => leases'[r] = 0
    BY DEF DrainedInv
  <2>1. CASE r # q
    BY <2>1, <1>1 DEF TypeOK, DrainedInv
  <2>2. CASE r = q
    <3>1. leases'[q] = leases[q] - 1
      BY <1>1 DEF TypeOK
    <3>2. drained'[q] <=> (drained[q] \/ (~active[q] /\ leases[q] = 1))
      BY <1>1 DEF TypeOK
    <3>3. /\ active[q] <=> disposer[q] = "registered"
          /\ active[q] => ~drained[q]
          /\ drained[q] /\ disposer[q] = "awaiting" => leases[q] = 0
          /\ disposer[q] \in {"unused", "done"} => leases[q] = 0
      BY <1>1 DEF DrainedInv
    <3>4. active' = active /\ disposer' = disposer
      BY <1>1
    <3> QED BY <2>2, <3>1, <3>2, <3>3, <3>4, <1>5
  <2> QED BY <2>1, <2>2
<1> QED
  BY <1>6, <1>7, <1>8, <1>9

LEMMA DisposeInv ==
  ASSUME NEW r \in Regs, IInv, Dispose(r)
  PROVE  IInv'
<1> USE DEF IInv
<1>1. TypeOK'
  BY DEF TypeOK, Dispose, Unregister, DisposerState
<1>2. LeaseAccounting'
  BY DEF LeaseAccounting, LiveOn, Dispose
<1>3. EntriesMatchDisposers'
  BY NoneAssumption DEF TypeOK, EntriesMatchDisposers, Dispose, Unregister
<1>4. DrainedInv'
  BY DEF TypeOK, DrainedInv, Dispose
<1> QED
  BY <1>1, <1>2, <1>3, <1>4

LEMMA FinishDisposeInv ==
  ASSUME NEW r \in Regs, IInv, FinishDispose(r)
  PROVE  IInv'
<1> USE DEF IInv
<1>1. TypeOK'
  BY DEF TypeOK, FinishDispose, Unregister, DisposerState
<1>2. LeaseAccounting'
  BY DEF LeaseAccounting, LiveOn, FinishDispose
<1>3. EntriesMatchDisposers'
  BY NoneAssumption DEF TypeOK, EntriesMatchDisposers, FinishDispose, Unregister
<1>4. DrainedInv'
  BY DEF TypeOK, DrainedInv, FinishDispose
<1> QED
  BY <1>1, <1>2, <1>3, <1>4

LEMMA NextInv == IInv /\ [Next]_vars => IInv'
<1> SUFFICES ASSUME IInv, [Next]_vars
             PROVE  IInv'
  OBVIOUS
<1>1. CASE UNCHANGED vars
  BY <1>1, SMTT(20) DEF IInv, TypeOK, LeaseAccounting, LiveOn, EntriesMatchDisposers,
              DrainedInv, vars
<1>2. ASSUME NEW h \in Holders, Release(h)
      PROVE  IInv'
  <2>1. CASE AlreadyReleased(h)
    BY <1>1, <1>2, <2>1 DEF Release, vars
  <2> QED BY <1>2, <2>1, ReleaseInv
<1> QED
  BY <1>1, <1>2, RegisterInv, AcquireInv, DisposeInv, FinishDisposeInv DEF Next

\* Types, lease counts, the entries and the disposers agree in every state.
THEOREM Invariance == Spec => []IInv
<1>1. Init => IInv
  <2> SUFFICES ASSUME Init PROVE IInv
    OBVIOUS
  <2>1. TypeOK
    BY DEF Init, TypeOK, DisposerState
  <2>2. LeaseAccounting
    <3>1. \A r \in Regs : LiveOn(r) = {}
      BY NoneAssumption DEF Init, LiveOn
    <3> QED BY <3>1, FS_EmptySet DEF Init, LeaseAccounting
  <2> QED
    BY <2>1, <2>2 DEF Init, IInv, EntriesMatchDisposers, DrainedInv
<1> QED
  BY <1>1, NextInv, PTL DEF Spec

\* registration.leases always counts the unreleased leases.
THEOREM LeasesAccounted == Spec => []LeaseAccounting
BY Invariance, PTL DEF IInv

\* A holder of a live lease is counted, so its registration keeps its entry.
LEMMA LiveLeaseHasEntry == IInv => LeasedIsCurrent
<1> SUFFICES ASSUME IInv, NEW h \in Holders, Live(h)
             PROVE  entries[idOf[lease[h]]] = lease[h]
  BY DEF LeasedIsCurrent
<1>1. lease[h] \in Regs /\ h \in LiveOn(lease[h])
  BY DEF IInv, TypeOK, Live, LiveOn
<1>2. leases[lease[h]] # 0
  BY <1>1, FS_EmptySet DEF IInv, LeaseAccounting
<1> QED
  BY <1>1, <1>2 DEF IInv, TypeOK, DrainedInv, EntriesMatchDisposers, DisposerState

\* A lookup by id made under a lease returns the leased registration: no
\* disposal and no re-registration swaps a capability under a Turn.
THEOREM LeaseProtects == Spec => []LeasedIsCurrent
BY Invariance, LiveLeaseHasEntry, PTL

-----------------------------------------------------------------------------

LEMMA NoLeasesMeansNoHolders ==
  ASSUME IInv, NEW r \in Regs, leases[r] = 0
  PROVE  LiveOn(r) = {}
BY FS_EmptySet DEF IInv, LeaseAccounting

LEMMA StepDrains ==
  ASSUME IInv, [Next]_vars, NEW r \in Regs
  PROVE  /\ disposer[r] = "awaiting" /\ disposer'[r] = "awaiting"
              => leases'[r] <= leases[r]
         /\ disposer[r] # "done" /\ disposer'[r] = "done" => LiveOn(r) = {}
<1> USE DEF IInv, TypeOK
<1>1. CASE UNCHANGED vars
  BY <1>1 DEF vars
<1>2. ASSUME NEW q \in Regs, NEW i \in Ids, Register(q, i)
      PROVE  /\ disposer[r] = "awaiting" => leases'[r] <= leases[r]
             /\ disposer[r] # "done" => disposer'[r] # "done"
  BY <1>2 DEF Register
<1>3. ASSUME NEW h \in Holders, NEW i \in Ids, Acquire(h, i)
      PROVE  /\ disposer[r] = "awaiting" => leases'[r] <= leases[r]
             /\ disposer' = disposer
  <2>1. entries[i] \in Regs /\ disposer[entries[i]] = "registered"
    BY <1>3 DEF Acquire, DrainedInv
  <2> QED BY <1>3, <2>1 DEF Acquire, registrationVars
<1>4. ASSUME NEW h \in Holders, Release(h)
      PROVE  leases'[r] <= leases[r] /\ disposer' = disposer
  BY <1>4 DEF Release, AlreadyReleased
<1>5. ASSUME NEW q \in Regs, Dispose(q)
      PROVE  /\ leases' = leases
             /\ disposer[r] # "done" /\ disposer'[r] = "done" => leases[r] = 0
  BY <1>5 DEF Dispose
<1>6. ASSUME NEW q \in Regs, FinishDispose(q)
      PROVE  /\ leases' = leases
             /\ disposer[r] # "done" /\ disposer'[r] = "done" => leases[r] = 0
  BY <1>6 DEF FinishDispose, DrainedInv
<1> QED
  BY <1>1, <1>2, <1>3, <1>4, <1>5, <1>6, NoLeasesMeansNoHolders DEF Next

\* A disposal in progress gains no lease and ends only with no lease left.
THEOREM DisposalWaits == Spec => DisposalDrains
<1>1. IInv /\ [Next]_vars =>
        [\A r \in Regs :
           /\ disposer[r] = "awaiting" /\ disposer'[r] = "awaiting"
                => leases'[r] <= leases[r]
           /\ disposer[r] # "done" /\ disposer'[r] = "done" => LiveOn(r) = {}]_vars
  BY StepDrains
<1> QED
  BY <1>1, Invariance, PTL DEF Spec, DisposalDrains

-----------------------------------------------------------------------------
(* KernelLifecycle: the Sessions, plugins and calls of one Kernel.         *)

LEMMA HolderOf == ASSUME NEW o \in Objects, NEW i \in Ids PROVE <<o, i>> \in Holders
BY KernelAssumption

LEMMA SelectedIds == Selected \subseteq Ids
BY KernelAssumption

\* A step of the Kernel is a step of its registry, or leaves it alone.
LEMMA RegistryStep == ASSUME [KernelNext]_allVars PROVE [Next]_vars
<1>1. CASE UNCHANGED allVars
  BY <1>1 DEF allVars, registryVars
<1>2. CASE InstallPlugin
  <2>1. PICK k \in DOMAIN Plugins : Register(Plugins[k], Provides[Plugins[k]])
    BY <1>2 DEF InstallPlugin
  <2>2. Plugins[k] \in Regs /\ Provides[Plugins[k]] \in Ids
    BY KernelAssumption
  <2> QED BY <2>1, <2>2 DEF Next
<1>3. CASE KernelReady \/ ResolveAgent \/ DisposeKernel \/ DisposeFiber \/ Disposed
  BY <1>3 DEF KernelReady, ResolveAgent, DisposeKernel, DisposeFiber, Disposed, registryVars
<1>4. ASSUME NEW r \in Regs, AddPlugin(r) \/ RemovePlugin(r) \/ PluginDrained(r)
      PROVE  Next
  <2>1. Provides[r] \in Ids
    BY KernelAssumption
  <2> QED BY <1>4, <2>1 DEF AddPlugin, RemovePlugin, PluginDrained, Next
<1>5. ASSUME NEW c \in Calls, CallCreate(c) \/ CallOpen(c) \/ Answer(c)
      PROVE  UNCHANGED vars
  BY <1>5 DEF CallCreate, CallOpen, Answer, Create, Created, Read, Open, Reopened, registryVars
<1>6. ASSUME NEW o \in Objects, Send(o) \/ TurnStep(o) \/ Complete(o) \/ Throw(o)
      PROVE  [Next]_vars
  <2>1. CASE HoldContributor(o)
    <3>1. PICK i \in Wanted(o) : Acquire(<<o, i>>, i)
      BY <2>1 DEF HoldContributor
    <3>2. i \in Ids
      BY KernelAssumption DEF Wanted
    <3> QED BY <3>1, <3>2, HolderOf DEF Next
  <2>2. CASE Hold(o)
    <3>1. PICK k \in DOMAIN Capabilities :
            Acquire(<<o, Capabilities[k]>>, Capabilities[k]) \/ UNCHANGED registryVars
      BY <2>2 DEF Hold
    <3>2. Capabilities[k] \in Ids
      BY SelectedIds DEF Selected, Range
    <3> QED BY <3>1, <3>2, HolderOf DEF Next, registryVars
  <2>3. CASE UndoSkills(o)
    <3>1. (\E i \in HoldsOf(o) \cap Skills : Release(<<o, i>>)) \/ UNCHANGED registryVars
      BY <2>3 DEF UndoSkills
    <3> QED BY <3>1, HolderOf DEF HoldsOf, Next, registryVars
  <2>4. CASE LetGo(o)
    <3>1. (\E i \in ToRelease(o) : Release(<<o, i>>)) \/ UNCHANGED registryVars
      BY <2>4 DEF LetGo
    <3> QED BY <3>1, HolderOf DEF ToRelease, HoldsOf, Next, registryVars
  <2>5. CASE Send(o) \/ Complete(o) \/ Throw(o) \/ Accepted(o) \/ Snapshot(o) \/ Started(o)
             \/ Held(o) \/ Completed(o) \/ Catch(o)
    BY <2>5 DEF Send, Complete, Throw, Accepted, Snapshot, Started, Held, Completed, Catch,
                registryVars
  <2> QED BY <1>6, <2>1, <2>2, <2>3, <2>4, <2>5 DEF TurnStep
<1> QED
  BY <1>1, <1>2, <1>3, <1>4, <1>5, <1>6 DEF KernelNext

\* The Kernel's registry behaves as LeasedRegistry specifies.
THEOREM KernelUsesRegistry == KernelSpec => Spec
<1>1. KernelInit => Init
  BY DEF KernelInit
<1>2. [KernelNext]_allVars => [Next]_vars
  BY RegistryStep
<1> QED
  BY <1>1, <1>2, PTL DEF KernelSpec, Spec

\* While a Turn of the Kernel holds a lease, its id resolves to what it leased.
THEOREM KernelLeasesAreCurrent == KernelSpec => []LeasedIsCurrent
BY KernelUsesRegistry, LeaseProtects, PTL

\* A plugin's disposal gains no lease from any Turn, and ends with none left.
THEOREM KernelDisposalDrains == KernelSpec => DisposalDrains
BY KernelUsesRegistry, DisposalWaits, PTL

-----------------------------------------------------------------------------
(* The end of dispose() *)

\* The inductive invariant of the registry holds in the Kernel.
LEMMA KernelIInv == KernelSpec => []IInv
BY KernelUsesRegistry, Invariance, PTL

\* A disposed Kernel registers nothing and disposes nothing.
LEMMA DisposersStay ==
  ASSUME IInv, DisposersReturned, [KernelNext]_allVars
  PROVE  DisposersReturned'
<1> USE DEF DisposersReturned
<1>1. CASE UNCHANGED allVars
  BY <1>1 DEF allVars, registryVars, vars, kernelVars
<1>2. CASE InstallPlugin \/ KernelReady \/ ResolveAgent \/ DisposeKernel \/ DisposeFiber
  BY <1>2 DEF InstallPlugin, KernelReady, ResolveAgent, DisposeKernel, DisposeFiber, kernelVars
<1>3. CASE Disposed
  BY <1>3 DEF Disposed, registryVars, vars
<1>4. ASSUME NEW r \in Regs, AddPlugin(r) \/ RemovePlugin(r) \/ PluginDrained(r)
      PROVE  DisposersReturned'
  <2>1. CASE AddPlugin(r) \/ RemovePlugin(r)
    BY <2>1 DEF AddPlugin, RemovePlugin, kernelVars
  <2>2. CASE PluginDrained(r)
    BY <2>2 DEF PluginDrained, FinishDispose, kernelVars
  <2> QED BY <1>4, <2>1, <2>2
<1>5. ASSUME UNCHANGED <<phase, disposer>> PROVE DisposersReturned'
  BY <1>5
<1>6. ASSUME NEW c \in Calls, CallCreate(c) \/ CallOpen(c) \/ Answer(c)
      PROVE  UNCHANGED <<phase, disposer>>
  BY <1>6 DEF CallCreate, CallOpen, Answer, Create, Created, Read, Open, Reopened,
              registryVars, vars, kernelVars
<1>7. ASSUME NEW o \in Objects, Send(o) \/ TurnStep(o) \/ Complete(o) \/ Throw(o)
      PROVE  UNCHANGED <<phase, disposer>>
  <2>1. UNCHANGED phase
    BY <1>7 DEF Send, Complete, Throw, TurnStep, Accepted, HoldContributor, Snapshot, Started,
                Hold, UndoSkills, Held, Completed, Catch, LetGo, kernelVars
  <2>2. CASE HoldContributor(o) \/ Hold(o) \/ UndoSkills(o) \/ LetGo(o)
    BY <2>1, <2>2 DEF HoldContributor, Hold, UndoSkills, LetGo, Acquire, Release,
                registrationVars, registryVars, vars
  <2>3. CASE Send(o) \/ Complete(o) \/ Throw(o) \/ Accepted(o) \/ Snapshot(o) \/ Started(o)
             \/ Held(o) \/ Completed(o) \/ Catch(o)
    BY <2>1, <2>3 DEF Send, Complete, Throw, Accepted, Snapshot, Started, Held, Completed, Catch,
                      registryVars, vars
  <2> QED BY <1>7, <2>1, <2>2, <2>3 DEF TurnStep
<1> QED
  BY <1>1, <1>2, <1>3, <1>4, <1>5, <1>6, <1>7 DEF KernelNext

\* Without a disposer that is registered or waiting there is no lease.
LEMMA NoDisposerNoLease ==
  ASSUME IInv, \A r \in Regs : disposer[r] \in {"unused", "done"}, NEW h \in Holders
  PROVE  ~Live(h)
<1>1. SUFFICES ASSUME Live(h) PROVE FALSE
  OBVIOUS
<1>2. PICK r \in Regs : r = lease[h]
  BY <1>1 DEF Live, IInv, TypeOK
<1>3. leases[r] = 0
  BY <1>2 DEF IInv, DrainedInv
<1>4. LiveOn(r) = {}
  BY <1>3, FS_EmptySet DEF IInv, LeaseAccounting
<1> QED
  BY <1>1, <1>2, <1>4 DEF Live, LiveOn

\* A disposed Kernel leaves no lease, not even of a Turn that dispose() did not
\* know of: the root Fiber waits for every plugin, and a plugin for its leases.
THEOREM DisposeFreesLeases == KernelSpec => []DisposedHoldsNothing
<1>1. KernelInit => DisposersReturned
  BY DEF KernelInit, DisposersReturned
<1>2. IInv /\ DisposersReturned /\ [KernelNext]_allVars => DisposersReturned'
  BY DisposersStay
<1>3. IInv /\ DisposersReturned => DisposedHoldsNothing
  BY NoDisposerNoLease DEF DisposersReturned, DisposedHoldsNothing
<1> QED
  BY KernelIInv, <1>1, <1>2, <1>3, PTL DEF KernelSpec

-----------------------------------------------------------------------------
(* Types *)

\* What an assignment to a call, and an append, leave.

LEMMA Calling ==
  ASSUME KernelTypeOK, NEW c \in Calls, NEW where \in CallPlace,
         call' = [call EXCEPT ![c].at = where]
  PROVE  /\ call' \in [Calls -> [at : CallPlace, seen : History]]
         /\ call'[c].at = where /\ call'[c].seen = call[c].seen
         /\ \A d \in Calls \ {c} : call'[d] = call[d]
BY DEF KernelTypeOK

LEMMA Reading ==
  ASSUME KernelTypeOK, NEW c \in Calls, NEW where \in CallPlace, NEW events \in History,
         call' = [call EXCEPT ![c] = [at |-> where, seen |-> events]]
  PROVE  /\ call' \in [Calls -> [at : CallPlace, seen : History]]
         /\ call'[c].at = where /\ call'[c].seen = events
         /\ \A d \in Calls \ {c} : call'[d] = call[d]
BY DEF KernelTypeOK

LEMMA Returning ==
  ASSUME KernelTypeOK, NEW c \in Calls, Return(c)
  PROVE  /\ call' \in [Calls -> [at : CallPlace, seen : History]]
         /\ call'[c].at = "returned" /\ Len(call'[c].seen) = 0
         /\ \A d \in Calls \ {c} : call'[d] = call[d]
<1>1. <<>> \in History /\ Len(<<>>) = 0
  BY DEF History
<1>2. PICK empty \in History : empty = <<>> /\ Len(empty) = 0
  BY <1>1, Zenon
<1>3. call' = [call EXCEPT ![c] = [at |-> "returned", seen |-> empty]]
  BY <1>2 DEF Return
<1>4. PICK where \in CallPlace : where = "returned"
  BY DEF CallPlace
<1>5. call' = [call EXCEPT ![c] = [at |-> where, seen |-> empty]]
  BY <1>3, <1>4
<1>6. /\ call' \in [Calls -> [at : CallPlace, seen : History]]
      /\ call'[c].at = where /\ call'[c].seen = empty
      /\ \A d \in Calls \ {c} : call'[d] = call[d]
  BY <1>5, Reading
<1> QED BY <1>2, <1>4, <1>6

LEMMA Appended ==
  ASSUME KernelTypeOK, NEW type \in EventType, NEW o \in Objects \cup {None}
  PROVE  /\ Append(journal, Event(type, o)) \in History
         /\ Len(Append(journal, Event(type, o))) = Len(journal) + 1
         /\ Append(journal, Event(type, o))[Len(journal) + 1] = Event(type, o)
         /\ \A k \in 1..Len(journal) : Append(journal, Event(type, o))[k] = journal[k]
BY DEF KernelTypeOK, History, Event

LEMMA AppendingTypes ==
  ASSUME KernelTypeOK, NEW o \in Objects, NEW type \in EventType, NEW then \in Place,
         NEW else \in Place, AppendOr(o, type, then, else)
  PROVE  journal' \in History /\ rev' \in [Objects -> Nat] /\ at' \in [Objects -> Place]
<1>0. journal \in History /\ rev \in [Objects -> Nat] /\ at \in [Objects -> Place]
  BY DEF KernelTypeOK
<1>1. CASE UNCHANGED <<journal, rev>> /\ at' = [at EXCEPT ![o] = else]
  BY <1>0, <1>1
<1>2. CASE /\ rev' = [rev EXCEPT ![o] = @ + 1] /\ at' = [at EXCEPT ![o] = then]
           /\ journal' = Append(journal, Event(type, o))
  <2>1. rev' \in [Objects -> Nat] /\ at' \in [Objects -> Place]
    BY <1>0, <1>2
  <2>2. Append(journal, Event(type, o)) \in History
    BY <1>0 DEF History, Event
  <2> QED BY <1>2, <2>1, <2>2
<1> QED BY <1>1, <1>2 DEF AppendOr
\* The Kernel's own state keeps its types.

LEMMA KernelNextTypes ==
  ASSUME TypeOK, KernelTypeOK, [KernelNext]_allVars
  PROVE  KernelTypeOK'
<1> DEFINE Rest == phase \in {"starting", "ready", "sessions", "fiber", "disposed"}
                   /\ spec \in [Selected -> Regs \cup {None}] /\ updates \in 0..(MaxUpdates + 1)
           JournalOK == journal \in History /\ opened \in Objects \cup {None}
           TurnOK == /\ stopping \in [Objects -> BOOLEAN]
                     /\ aborted \in [Objects -> BOOLEAN]
                     /\ snapshot \in [Objects -> [capabilities : [Selected -> Regs \cup {None}],
                                                contributors : SUBSET Regs]]
           CallOK == call \in [Calls -> [at : CallPlace, seen : History]]
           PlaceOK == at \in [Objects -> Place] /\ rev \in [Objects -> Nat]
<1>0. KernelTypeOK <=> Rest /\ JournalOK /\ TurnOK /\ CallOK /\ PlaceOK
  BY DEF KernelTypeOK
<1>01. KernelTypeOK' <=> Rest' /\ JournalOK' /\ TurnOK' /\ CallOK' /\ PlaceOK'
  BY DEF KernelTypeOK
<1>1. CASE UNCHANGED allVars
  BY <1>1, <1>0, <1>01 DEF allVars, kernelVars, sessionVars, turnVars
<1>2. CASE InstallPlugin
  BY <1>2, <1>0, <1>01 DEF InstallPlugin, kernelVars, sessionVars, turnVars
<1>3. CASE KernelReady \/ DisposeFiber \/ Disposed
  BY <1>3, <1>0, <1>01 DEF KernelReady, DisposeFiber, Disposed, sessionVars, turnVars
<1>4. CASE DisposeKernel
  BY <1>4, <1>0, <1>01 DEF DisposeKernel, sessionVars
<1>5. CASE ResolveAgent
  <2>1. Rest'
    BY <1>5, <1>0, KernelAssumption DEF ResolveAgent, Has, TypeOK
  <2> QED BY <1>5, <2>1, <1>0, <1>01 DEF ResolveAgent, sessionVars, turnVars
<1>6. ASSUME NEW r \in Regs, AddPlugin(r) \/ RemovePlugin(r) \/ PluginDrained(r)
      PROVE  KernelTypeOK'
  BY <1>6, <1>0, <1>01 DEF AddPlugin, RemovePlugin, PluginDrained, kernelVars, sessionVars, turnVars
<1>7. ASSUME NEW c \in Calls, CallCreate(c) \/ CallOpen(c) \/ Answer(c)
      PROVE  KernelTypeOK'
  <2>1. Rest' /\ TurnOK'
    BY <1>7, <1>0 DEF CallCreate, CallOpen, Answer, Create, Created, Read, Open, Reopened,
                      Enter, kernelVars, turnVars
  <2>2. CallOK'
    <3>1. ASSUME NEW where \in CallPlace, call' = [call EXCEPT ![c].at = where] PROVE CallOK'
      BY <3>1, Calling
    <3>2. ASSUME NEW where \in CallPlace,
                 call' = [call EXCEPT ![c] = [at |-> where, seen |-> journal]]
          PROVE  CallOK'
      BY <3>2, <1>0
    <3>3. CASE Return(c)
      BY <3>3, Returning
    <3> QED BY <1>7, <3>1, <3>2, <3>3 DEF CallCreate, CallOpen, Answer, Create, Created, Read,
                                          Open, Reopened, CallPlace
  <2>3. ASSUME NEW revision \in Nat, Enter(revision)
        PROVE  PlaceOK' /\ opened' \in Objects \cup {None}
    BY <2>3, <1>0 DEF Enter, Place
  <2>4. journal' \in History
    <3>1. Append(journal, Event("session/created", None)) \in History
      BY Appended DEF EventType, TurnEnd
    <3>2. Append(journal, Event("turn/interrupted", None)) \in History
      BY Appended DEF EventType, TurnEnd
    <3> QED BY <1>7, <1>0, <3>1, <3>2 DEF CallCreate, CallOpen, Answer, Create, Created, Read,
                                          Open, Reopened
  <2>5. Len(call[c].seen) \in Nat
    BY <1>0 DEF History
  <2>6. opened' \in Objects \cup {None} /\ PlaceOK'
    BY <1>7, <1>0, <2>3, <2>5 DEF CallCreate, CallOpen, Answer, Create, Created, Read,
                                  Open, Reopened, turnVars
  <2> QED BY <2>1, <2>2, <2>4, <2>6, <1>01
<1>8. ASSUME NEW o \in Objects, Send(o) \/ TurnStep(o) \/ Complete(o) \/ Throw(o)
      PROVE  KernelTypeOK'
  <2>1. CASE Send(o) \/ Complete(o) \/ Throw(o)
    BY <2>1, <1>0, <1>01 DEF Send, Complete, Throw, Move, kernelVars, sessionVars, Place
  <2>2. CASE HoldContributor(o)
    BY <2>2, <1>0, <1>01 DEF HoldContributor, kernelVars, sessionVars, turnVars
  <2>3. CASE Hold(o) \/ UndoSkills(o) \/ Held(o) \/ LetGo(o)
    BY <2>3, <1>0, <1>01 DEF Hold, UndoSkills, Held, LetGo, Move, kernelVars, sessionVars, Place
  <2>4. CASE Snapshot(o)
    <3>1. {lease[<<o, i>>] : i \in HoldsOf(o)} \in SUBSET Regs
      <4>1. ASSUME NEW i \in HoldsOf(o) PROVE lease[<<o, i>>] \in Regs
        <5>1. <<o, i>> \in Holders /\ Live(<<o, i>>)
          BY HolderOf DEF HoldsOf
        <5> QED BY <5>1 DEF Live, TypeOK
      <4> QED BY <4>1
    <3> QED BY <2>4, <3>1, <1>0, <1>01 DEF Snapshot, Move, kernelVars, sessionVars, Place
  <2>5. CASE Accepted(o) \/ Started(o) \/ Completed(o) \/ Catch(o)
    <3>1. PICK type \in EventType, then \in Place, else \in Place : AppendOr(o, type, then, else)
      BY <2>5 DEF Accepted, Started, Completed, Catch, Place, EventType, TurnEnd
    <3>2. journal' \in History /\ PlaceOK'
      BY <3>1, AppendingTypes
    <3> QED BY <2>5, <3>2, <1>0, <1>01 DEF Accepted, Started, Completed, Catch, kernelVars
  <2> QED BY <1>8, <2>1, <2>2, <2>3, <2>4, <2>5 DEF TurnStep
<1> QED
  BY <1>1, <1>2, <1>3, <1>4, <1>5, <1>6, <1>7, <1>8 DEF KernelNext

LEMMA KernelInitTypes == KernelInit => KernelTypeOK
<1> SUFFICES ASSUME KernelInit PROVE KernelTypeOK
  OBVIOUS
<1>1. journal \in History
  <2>1. Event("session/created", None) \in [type : EventType, by : Objects \cup {None}]
    BY DEF Event, EventType
  <2>2. Event("turn/started", None) \in [type : EventType, by : Objects \cup {None}]
    BY DEF Event, EventType
  <2> DEFINE one == Event("session/created", None)
             two == Event("turn/started", None)
  <2> HIDE DEF one, two
  <2>3. <<one, two>> \in History /\ <<>> \in History
    BY <2>1, <2>2 DEF History, one, two
  <2> QED BY <2>3, Zenon DEF KernelInit, one, two
<1>2. call \in [Calls -> [at : CallPlace, seen : History]]
  <2>1. <<>> \in History
    BY DEF History
  <2> QED BY <2>1 DEF KernelInit, CallPlace
<1> QED
  BY <1>1, <1>2, KernelAssumption DEF KernelInit, KernelTypeOK, Place, NoSnapshot

\* The types of the Kernel's state.
THEOREM KernelTypes == KernelSpec => []KernelTypeOK
BY KernelIInv, KernelInitTypes, KernelNextTypes, PTL DEF KernelSpec, IInv

-----------------------------------------------------------------------------
(* Several Session objects on one history *)

WriterInv == EndsWithOwn /\ RevisionsKnown /\ ReadsKnown /\ CreatedFirst

\* No object is created and nothing is written.
LEMMA NothingWritten ==
  ASSUME KernelTypeOK, WriterInv, UNCHANGED <<journal, rev, call>>,
         \A o \in Objects : at'[o] = "unborn" <=> at[o] = "unborn"
  PROVE  WriterInv'
BY DEF WriterInv, EndsWithOwn, RevisionsKnown, ReadsKnown, CreatedFirst

\* A call reads, fails or begins to wait.
LEMMA CallMoved ==
  ASSUME KernelTypeOK, WriterInv, UNCHANGED <<journal, rev, at>>, ReadsKnown'
  PROVE  WriterInv'
BY DEF WriterInv, EndsWithOwn, RevisionsKnown, CreatedFirst

\* A Session object enters with a revision its call has read.
LEMMA Entered ==
  ASSUME KernelTypeOK, WriterInv, UNCHANGED journal, ReadsKnown',
         NEW revision \in 1..Len(journal), Enter(revision)
  PROVE  WriterInv'
<1>1. PICK o \in Objects : /\ at[o] = "unborn" /\ at' = [at EXCEPT ![o] = "idle"]
                           /\ rev' = [rev EXCEPT ![o] = revision]
  BY DEF Enter
<1>2. RevisionsKnown'
  BY <1>1 DEF WriterInv, RevisionsKnown, KernelTypeOK
<1>3. \A k \in DOMAIN journal : journal[k].by # o
  <2>1. rev[o] = 0
    BY <1>1 DEF WriterInv, RevisionsKnown
  <2>2. o # None
    BY KernelAssumption
  <2> QED BY <2>1, <2>2 DEF WriterInv, EndsWithOwn, KernelTypeOK, History
<1>4. EndsWithOwn'
  BY <1>1, <1>3 DEF WriterInv, EndsWithOwn, KernelTypeOK
<1> QED BY <1>2, <1>4 DEF WriterInv, CreatedFirst

\* A history that grows by one event.
LEMMA Growth ==
  ASSUME KernelTypeOK, NEW type \in EventType, NEW o \in Objects \cup {None},
         journal' = Append(journal, Event(type, o))
  PROVE  /\ Len(journal) \in Nat /\ Len(journal') = Len(journal) + 1
         /\ DOMAIN journal = 1..Len(journal) /\ DOMAIN journal' = 1..(Len(journal) + 1)
         /\ journal'[Len(journal) + 1].type = type /\ journal'[Len(journal) + 1].by = o
         /\ \A k \in 1..Len(journal) : journal'[k] = journal[k]
<1>1. journal' \in History
  BY Appended
<1> QED BY <1>1, Appended DEF KernelTypeOK, History, Event

LEMMA Writers ==
  ASSUME KernelTypeOK, NEW k \in DOMAIN journal
  PROVE  journal[k].by \in Objects \cup {None}
<1> DEFINE E == [type : EventType, by : Objects \cup {None}]
<1>1. journal[k] \in E
  <2>1. journal \in Seq(E)
    BY DEF KernelTypeOK, History
  <2> HIDE DEF E
  <2> QED BY <2>1
<1> QED BY <1>1

\* An object whose revision is the end of the history writes behind its own.
LEMMA ObjectWrote ==
  ASSUME KernelTypeOK, WriterInv, NEW o \in Objects, NEW type \in EventType,
         type # "session/created", at[o] # "unborn", Expected(rev[o]),
         journal' = Append(journal, Event(type, o)), rev' = [rev EXCEPT ![o] = @ + 1],
         UNCHANGED call,
         \A p \in Objects : at'[p] = "unborn" <=> at[p] = "unborn"
  PROVE  WriterInv'
<1> DEFINE n == Len(journal)
<1>1. /\ n \in Nat /\ Len(journal') = n + 1
      /\ DOMAIN journal = 1..n /\ DOMAIN journal' = 1..(n + 1)
      /\ journal'[n + 1].type = type /\ journal'[n + 1].by = o
      /\ \A k \in 1..n : journal'[k] = journal[k]
  BY Growth
<1>2. rev \in [Objects -> Nat] /\ rev[o] = n /\ rev'[o] = n + 1 /\ n # 0
      /\ \A p \in Objects \ {o} : rev'[p] = rev[p]
  BY DEF KernelTypeOK, Expected, WriterInv, RevisionsKnown
<1>3. \A p \in Objects : rev[p] <= n
  BY DEF WriterInv, RevisionsKnown
<1>4. RevisionsKnown'
  BY <1>1, <1>2, <1>3 DEF WriterInv, RevisionsKnown
<1>5. ReadsKnown'
  BY <1>1 DEF WriterInv, ReadsKnown, KernelTypeOK, History
<1>6. CreatedFirst'
  BY <1>1, <1>2 DEF WriterInv, CreatedFirst
<1>7. EndsWithOwn'
  <2>0. ASSUME NEW k \in 1..n, journal[k].by # None
        PROVE  journal[k].by \in Objects
    BY <2>0, <1>1, Writers
  <2>1. SUFFICES ASSUME NEW k \in 1..(n + 1), journal'[k].by # None
                 PROVE  k <= rev'[journal'[k].by]
                        /\ \A l \in k..rev'[journal'[k].by] : journal'[l].by = journal'[k].by
    BY <1>1 DEF EndsWithOwn
  <2>2. CASE k = n + 1
    BY <1>1, <1>2, <2>2
  <2>3. CASE k \in 1..n
    <3>1. PICK p \in Objects : p = journal[k].by /\ p = journal'[k].by
      BY <1>1, <2>0, <2>1, <2>3
    <3>2. k <= rev[p] /\ \A l \in k..rev[p] : journal[l].by = p
      BY <1>1, <2>1, <2>3, <3>1 DEF WriterInv, EndsWithOwn
    <3>3. CASE p = o
      <4>1. rev'[p] = n + 1 /\ rev[p] = n /\ k <= n + 1
        BY <1>2, <1>1, <2>3, <3>3
      <4>2. ASSUME NEW l \in k..(n + 1) PROVE journal'[l].by = p
        <5>1. CASE l = n + 1
          BY <1>1, <5>1, <3>3
        <5>2. CASE l # n + 1
          <6>1. l \in k..n /\ l \in 1..n
            BY <5>2, <1>1, <2>3
          <6> QED BY <6>1, <4>1, <1>1, <3>2
        <5> QED BY <5>1, <5>2
      <4> QED BY <3>1, <4>1, <4>2
    <3>4. CASE p # o
      BY <1>1, <1>2, <1>3, <2>3, <3>1, <3>2, <3>4
    <3> QED BY <3>3, <3>4
  <2>4. k = n + 1 \/ k \in 1..n
    BY <1>1
  <2> QED BY <2>2, <2>3, <2>4
<1> QED BY <1>4, <1>5, <1>6, <1>7 DEF WriterInv

\* create() and the repair of open() write for no object.
LEMMA CallWrote ==
  ASSUME KernelTypeOK, WriterInv, NEW type \in EventType,
         type = "session/created" <=> Len(journal) = 0,
         journal' = Append(journal, Event(type, None)), UNCHANGED <<rev, at>>, ReadsKnown'
  PROVE  WriterInv'
<1> DEFINE n == Len(journal)
<1>1. /\ n \in Nat /\ Len(journal') = n + 1
      /\ DOMAIN journal = 1..n /\ DOMAIN journal' = 1..(n + 1)
      /\ journal'[n + 1].type = type /\ journal'[n + 1].by = None
      /\ \A k \in 1..n : journal'[k] = journal[k]
  BY Growth
<1>2. RevisionsKnown'
  BY <1>1 DEF WriterInv, RevisionsKnown, KernelTypeOK
<1>3. CreatedFirst'
  BY <1>1 DEF WriterInv, CreatedFirst
<1>4. EndsWithOwn'
  <2>0. ASSUME NEW k \in 1..n, journal[k].by # None
        PROVE  journal[k].by \in Objects
    BY <2>0, <1>1, Writers
  <2>1. \A p \in Objects : rev[p] \in Nat /\ rev[p] <= n
    BY DEF WriterInv, RevisionsKnown, KernelTypeOK
  <2> QED BY <1>1, <2>0, <2>1 DEF WriterInv, EndsWithOwn
<1> QED BY <1>2, <1>3, <1>4 DEF WriterInv

LEMMA NonEmpty ==
  ASSUME NEW events \in History, events # <<>>
  PROVE  Len(events) \in Nat \ {0}
BY DEF History

\* What each operation does to the calls.
LEMMA ReadsStay ==
  ASSUME KernelTypeOK, ReadsKnown, NEW c \in Calls,
         \A d \in Calls \ {c} : call'[d] = call[d],
         Len(journal') \in Nat, Len(journal') >= Len(journal),
         Len(call'[c].seen) <= Len(journal'),
         call'[c].at \in {"created", "repaired", "reread"} => Len(journal') > 0,
         call'[c].at = "reread" => Len(call'[c].seen) > 0
  PROVE  ReadsKnown'
<1>1. \A d \in Calls : Len(call[d].seen) \in Nat /\ Len(journal) \in Nat
  BY DEF KernelTypeOK, History
<1> QED BY <1>1 DEF ReadsKnown

\* The writers of the history keep to the invariant.
LEMMA WriterStep ==
  ASSUME KernelTypeOK, KernelTypeOK', WriterInv, [KernelNext]_allVars
  PROVE  WriterInv'
<1>0. /\ Len(journal) \in Nat /\ ReadsKnown
      /\ \A d \in Calls : Len(call[d].seen) \in Nat /\ Len(call[d].seen) <= Len(journal)
  BY DEF KernelTypeOK, History, WriterInv, ReadsKnown
<1>1. CASE UNCHANGED <<journal, rev, call, at>>
  BY <1>1, NothingWritten
<1>2. UNCHANGED allVars => UNCHANGED <<journal, rev, call, at>>
  BY DEF allVars, sessionVars, turnVars
<1>3. InstallPlugin \/ KernelReady \/ ResolveAgent \/ DisposeKernel \/ DisposeFiber \/ Disposed
      => UNCHANGED <<journal, rev, call, at>>
  BY DEF InstallPlugin, KernelReady, ResolveAgent, DisposeKernel, DisposeFiber, Disposed,
         sessionVars, turnVars
<1>4. \A r \in Regs : AddPlugin(r) \/ RemovePlugin(r) \/ PluginDrained(r)
      => UNCHANGED <<journal, rev, call, at>>
  BY DEF AddPlugin, RemovePlugin, PluginDrained, sessionVars, turnVars
<1>5. ASSUME NEW c \in Calls, CallCreate(c) \/ CallOpen(c) \/ Answer(c)
      PROVE  WriterInv'
  <2>1. CASE CallCreate(c) \/ CallOpen(c)
    <3>1. PICK where \in {"creating", "opening"} : call' = [call EXCEPT ![c].at = where]
      BY <2>1 DEF CallCreate, CallOpen
    <3>2. /\ call'[c].at = where /\ call'[c].seen = call[c].seen
          /\ \A d \in Calls \ {c} : call'[d] = call[d]
      BY <3>1, Calling DEF CallPlace
    <3>3. UNCHANGED <<journal, rev, at>>
      BY <2>1 DEF CallCreate, CallOpen, turnVars
    <3>4. ReadsKnown'
      BY <3>2, <3>3, <1>0, ReadsStay
    <3> QED BY <3>3, <3>4, CallMoved
  <2>2. ASSUME Return(c), UNCHANGED journal PROVE ReadsKnown'
    <3>1. /\ call'[c].at = "returned" /\ Len(call'[c].seen) = 0
          /\ \A d \in Calls \ {c} : call'[d] = call[d]
      BY <2>2, Returning
    <3> QED BY <3>1, <2>2, <1>0, ReadsStay
  <2>3. CASE Create(c) /\ Expected(0)
    <3>1. /\ journal' = Append(journal, Event("session/created", None)) /\ Len(journal) = 0
          /\ call' = [call EXCEPT ![c].at = "created"] /\ UNCHANGED <<rev, at>>
      BY <2>3 DEF Create, Expected, turnVars
    <3>2. /\ call'[c].at = "created" /\ call'[c].seen = call[c].seen
          /\ \A d \in Calls \ {c} : call'[d] = call[d]
      BY <3>1, Calling DEF CallPlace
    <3>3. Len(journal') = Len(journal) + 1
      BY <3>1, Growth DEF EventType
    <3>4. ReadsKnown'
      BY <3>2, <3>3, <1>0, ReadsStay
    <3> QED BY <3>1, <3>4, CallWrote DEF EventType
  <2>4. CASE Create(c) /\ ~Expected(0)
    <3>1. Return(c) /\ UNCHANGED <<journal, rev, at>>
      BY <2>4 DEF Create, turnVars
    <3> QED BY <3>1, <2>2, CallMoved
  <2>5. CASE Created(c)
    <3>1. Return(c) /\ Enter(1) /\ UNCHANGED journal /\ call[c].at = "created"
      BY <2>5 DEF Created
    <3>2. 1 \in 1..Len(journal)
      BY <3>1, <1>0 DEF ReadsKnown
    <3> QED BY <3>1, <3>2, <2>2, Entered
  <2>6. ASSUME NEW from \in CallPlace, NEW to \in {"read", "reread"}, Read(c, from, to),
               to = "reread" => from = "repaired"
        PROVE  WriterInv'
    <3>1. /\ call' = [call EXCEPT ![c] = [at |-> to, seen |-> journal]]
          /\ call[c].at = from /\ UNCHANGED <<journal, rev, at>>
      BY <2>6 DEF Read, turnVars
    <3>2. /\ call'[c].at = to /\ call'[c].seen = journal
          /\ \A d \in Calls \ {c} : call'[d] = call[d]
      BY <3>1, Reading DEF CallPlace, KernelTypeOK
    <3>3. to = "reread" => Len(journal) > 0
      BY <2>6, <3>1, <1>0 DEF ReadsKnown
    <3>4. ReadsKnown'
      BY <3>1, <3>2, <3>3, <1>0, ReadsStay
    <3> QED BY <3>1, <3>4, CallMoved
  <2>7. CASE Open(c)
    <3> DEFINE seen == call[c].seen
    <3>0. seen \in History
      BY DEF KernelTypeOK
    <3>1. CASE Return(c) /\ UNCHANGED <<journal, rev, at>>
      BY <3>1, <2>2, CallMoved
    <3>2. CASE /\ seen # <<>> /\ Expected(Len(seen))
               /\ journal' = Append(journal, Event("turn/interrupted", None))
               /\ call' = [call EXCEPT ![c].at = "repaired"] /\ UNCHANGED <<rev, at>>
      <4>1. /\ call'[c].at = "repaired" /\ call'[c].seen = call[c].seen
            /\ \A d \in Calls \ {c} : call'[d] = call[d]
        BY <3>2, Calling DEF CallPlace
      <4>2. Len(journal') = Len(journal) + 1
        BY <3>2, Growth DEF EventType, TurnEnd
      <4>3. ReadsKnown'
        BY <4>1, <4>2, <1>0, ReadsStay
      <4>4. Len(journal) # 0
        BY <3>0, <3>2, NonEmpty DEF Expected
      <4> QED BY <3>2, <4>3, <4>4, CallWrote DEF EventType, TurnEnd
    <3>3. CASE Return(c) /\ Enter(Len(seen)) /\ UNCHANGED journal /\ seen # <<>>
      <4>1. Len(seen) \in 1..Len(journal)
        BY <3>0, <3>3, <1>0, NonEmpty
      <4> QED BY <3>3, <4>1, <2>2, Entered
    <3> QED BY <2>7, <3>1, <3>2, <3>3 DEF Open, turnVars
  <2>8. CASE Reopened(c)
    <3>1. Return(c) /\ Enter(Len(call[c].seen)) /\ UNCHANGED journal /\ call[c].at = "reread"
      BY <2>8 DEF Reopened
    <3>2. Len(call[c].seen) \in 1..Len(journal)
      BY <3>1, <1>0 DEF ReadsKnown
    <3> QED BY <3>1, <3>2, <2>2, Entered
  <2> QED BY <1>5, <2>1, <2>3, <2>4, <2>5, <2>6, <2>7, <2>8 DEF Answer, CallPlace
<1>6. ASSUME NEW o \in Objects, Send(o) \/ TurnStep(o) \/ Complete(o) \/ Throw(o)
      PROVE  WriterInv'
  <2>0. at \in [Objects -> Place]
    BY DEF KernelTypeOK
  <2>1. ASSUME NEW to \in Place \ {"unborn"}, at' = [at EXCEPT ![o] = to], at[o] # "unborn"
        PROVE  \A p \in Objects : at'[p] = "unborn" <=> at[p] = "unborn"
    BY <2>0, <2>1
  <2>2. ASSUME NEW type \in EventType \ {"session/created"}, NEW then \in Place \ {"unborn"},
               NEW else \in Place \ {"unborn"}, AppendOr(o, type, then, else),
               at[o] # "unborn", UNCHANGED call
        PROVE  WriterInv'
    <3>1. CASE ~Expected(rev[o])
      BY <3>1, <2>1, <2>2, NothingWritten DEF AppendOr
    <3>2. CASE Expected(rev[o])
      BY <3>2, <2>1, <2>2, ObjectWrote DEF AppendOr
    <3> QED BY <3>1, <3>2
  <2>3. CASE Accepted(o) \/ Started(o) \/ Completed(o) \/ Catch(o)
    <3>1. /\ at[o] # "unborn" /\ UNCHANGED call
          /\ \E type \in EventType \ {"session/created"}, then, else \in Place \ {"unborn"} :
               AppendOr(o, type, then, else)
      BY <2>3 DEF Accepted, Started, Completed, Catch, Place, EventType, TurnEnd
    <3> QED BY <3>1, <2>2
  <2>4. CASE Send(o) \/ Complete(o) \/ Throw(o) \/ HoldContributor(o) \/ Snapshot(o) \/ Hold(o)
             \/ UndoSkills(o) \/ Held(o) \/ LetGo(o)
    <3>1. UNCHANGED <<journal, rev, call>>
      BY <2>4 DEF Send, Complete, Throw, HoldContributor, Snapshot, Hold, UndoSkills, Held, LetGo,
                  sessionVars, turnVars
    <3>2. UNCHANGED at \/ \E to \in Place \ {"unborn"} : at[o] # "unborn" /\ at' = [at EXCEPT ![o] = to]
      BY <2>4 DEF Send, Complete, Throw, HoldContributor, Snapshot, Hold, UndoSkills, Held, LetGo,
                  Move, turnVars, Place
    <3> QED BY <3>1, <3>2, <2>1, NothingWritten
  <2> QED BY <1>6, <2>3, <2>4 DEF TurnStep
<1> QED
  BY <1>1, <1>2, <1>3, <1>4, <1>5, <1>6 DEF KernelNext

LEMMA WriterInit == KernelInit => WriterInv
<1> SUFFICES ASSUME KernelInit PROVE WriterInv
  OBVIOUS
<1> DEFINE one == Event("session/created", None)
           two == Event("turn/started", None)
<1>1. journal = <<>> \/ journal = <<one, two>>
  BY DEF KernelInit
<1>2. one.by = None /\ two.by = None /\ one.type = "session/created" /\ two.type # "session/created"
  BY DEF Event
<1>3. \A o \in Objects : rev[o] = 0 /\ at[o] = "unborn"
  BY DEF KernelInit
<1>4. \A c \in Calls : call[c].at = "unused" /\ Len(call[c].seen) = 0
  BY DEF KernelInit
<1> HIDE DEF one, two
<1>5. EndsWithOwn /\ CreatedFirst /\ Len(journal) \in Nat
  <2>1. CASE journal = <<>>
    BY <2>1 DEF EndsWithOwn, CreatedFirst
  <2>2. CASE journal = <<one, two>>
    BY <2>2, <1>2 DEF EndsWithOwn, CreatedFirst
  <2> QED BY <1>1, <2>1, <2>2
<1> QED BY <1>3, <1>4, <1>5 DEF WriterInv, RevisionsKnown, ReadsKnown

LEMMA OwnHistory == ASSUME KernelTypeOK, WriterInv PROVE OneWriterAtATime
<1>1. SUFFICES ASSUME NEW j \in DOMAIN journal, NEW k \in DOMAIN journal, NEW l \in DOMAIN journal,
                      j < k, k < l, journal[j].by = journal[l].by, journal[j].by # None
               PROVE  journal[k].by = journal[j].by
  BY DEF WriterInv, CreatedFirst, OneWriterAtATime
<1>2. PICK o \in Objects : o = journal[j].by
  BY <1>1, Writers
<1>3. j \in Nat /\ k \in Nat /\ l \in Nat /\ rev[o] \in Nat
  BY DEF KernelTypeOK, History
<1>4. l <= rev[o] /\ \A m \in j..rev[o] : journal[m].by = o
  BY <1>1, <1>2 DEF WriterInv, EndsWithOwn
<1> QED BY <1>1, <1>2, <1>3, <1>4

LEMMA WriterAlways == KernelSpec => []WriterInv
<1>1. KernelTypeOK /\ KernelTypeOK' /\ WriterInv /\ [KernelNext]_allVars => WriterInv'
  BY WriterStep
<1> QED BY KernelTypes, WriterInit, <1>1, PTL DEF KernelSpec

\* However many Session objects concurrent calls make, the history is created
\* once and no object writes again after another writer.
THEOREM OneWriter == KernelSpec => []OneWriterAtATime
<1>1. KernelTypeOK /\ WriterInv => OneWriterAtATime
  BY OwnHistory
<1> QED BY KernelTypes, WriterAlways, <1>1, PTL

-----------------------------------------------------------------------------
(* What a Turn holds and what it recorded *)

HoldsInv == HoldsMatchPlace /\ ContributorsRecorded

\* The leases of a Session object are its own.
SameLeases(o) == \A i \in Ids : lease'[<<o, i>>] = lease[<<o, i>>]
                                /\ released'[<<o, i>>] = released[<<o, i>>]

LEMMA SameHolds ==
  ASSUME NEW o \in Objects, SameLeases(o)
  PROVE  /\ HoldsOf(o)' = HoldsOf(o)
         /\ \A i \in Ids : lease'[<<o, i>>] = lease[<<o, i>>]
BY DEF SameLeases, HoldsOf, Live

LEMMA AcquireHolds ==
  ASSUME TypeOK, NEW o \in Objects, NEW i \in Ids, Acquire(<<o, i>>, i)
  PROVE  /\ \A p \in Objects \ {o} : SameLeases(p)
         /\ \A j \in Ids \ {i} : lease'[<<o, j>>] = lease[<<o, j>>]
                                 /\ released'[<<o, j>>] = released[<<o, j>>]
         /\ HoldsOf(o)' = HoldsOf(o) \cup {i}
<1>1. /\ lease \in [Holders -> Regs \cup {None}] /\ released \in [Holders -> BOOLEAN]
      /\ lease' = [lease EXCEPT ![<<o, i>>] = entries[i]]
      /\ released' = [released EXCEPT ![<<o, i>>] = FALSE]
      /\ entries[i] # None
  BY DEF TypeOK, Acquire
<1>2. \A h \in Holders : h # <<o, i>> => lease'[h] = lease[h] /\ released'[h] = released[h]
  BY <1>1
<1>3. <<o, i>> \in Holders /\ lease'[<<o, i>>] # None /\ ~released'[<<o, i>>]
  BY <1>1, HolderOf
<1>4. \A p \in Objects, j \in Ids : <<p, j>> \in Holders
  BY HolderOf
<1>5. \A p \in Objects \ {o} : SameLeases(p)
  BY <1>2, <1>4 DEF SameLeases
<1>6. \A j \in Ids \ {i} : lease'[<<o, j>>] = lease[<<o, j>>]
                           /\ released'[<<o, j>>] = released[<<o, j>>]
  BY <1>2, <1>4
<1>7. HoldsOf(o)' = HoldsOf(o) \cup {i}
  BY <1>3, <1>6 DEF HoldsOf, Live
<1> QED BY <1>5, <1>6, <1>7

LEMMA ReleaseHolds ==
  ASSUME TypeOK, NEW o \in Objects, NEW i \in Ids, Release(<<o, i>>)
  PROVE  /\ \A p \in Objects \ {o} : SameLeases(p)
         /\ \A j \in Ids : lease'[<<o, j>>] = lease[<<o, j>>]
         /\ HoldsOf(o)' = HoldsOf(o) \ {i}
<1>0. \A p \in Objects, j \in Ids : <<p, j>> \in Holders
  BY HolderOf
<1>1. lease' = lease /\ released \in [Holders -> BOOLEAN]
  BY DEF Release, TypeOK
<1>2. released' = [released EXCEPT ![<<o, i>>] = TRUE] \/ (released' = released /\ released[<<o, i>>])
  BY Zenon DEF Release, AlreadyReleased
<1>3. released'[<<o, i>>] /\ \A h \in Holders : h # <<o, i>> => released'[h] = released[h]
  BY <1>0, <1>1, <1>2
<1>4. \A p \in Objects \ {o} : SameLeases(p)
  BY <1>0, <1>1, <1>3 DEF SameLeases
<1>5. HoldsOf(o)' = HoldsOf(o) \ {i}
  BY <1>0, <1>1, <1>3 DEF HoldsOf, Live
<1> QED BY <1>1, <1>4, <1>5

\* What the invariant says of one object.
Fits(o) ==
  /\ at[o] \in {"unborn", "idle", "accepting", "over"} => HoldsOf(o) = {}
  /\ at[o] \in {"contributors", "starting"} => HoldsOf(o) \subseteq Contributors
  /\ at[o] \in {"starting", "capabilities", "undoing", "running", "completing", "failing"}
       => snapshot[o].contributors = {lease[<<o, i>>] : i \in HoldsOf(o) \cap Contributors}

LEMMA FitsAll == HoldsInv <=> \A o \in Objects : Fits(o)
BY DEF HoldsInv, HoldsMatchPlace, ContributorsRecorded, Fits

LEMMA FitsAllNext == HoldsInv' <=> \A o \in Objects : Fits(o)'
BY DEF HoldsInv, HoldsMatchPlace, ContributorsRecorded, Fits

\* An object that does not move, and whose leases stay, still fits.
LEMMA FitsStill ==
  ASSUME NEW o \in Objects, Fits(o), at'[o] = at[o], snapshot'[o] = snapshot[o], SameLeases(o)
  PROVE  Fits(o)'
<1>1. HoldsOf(o)' = HoldsOf(o) /\ \A i \in Ids : lease'[<<o, i>>] = lease[<<o, i>>]
  BY SameHolds
<1>2. HoldsOf(o) \subseteq Ids
  BY DEF HoldsOf
<1>3. {lease'[<<o, i>>] : i \in HoldsOf(o) \cap Contributors}
      = {lease[<<o, i>>] : i \in HoldsOf(o) \cap Contributors}
  BY <1>1, <1>2
<1> QED BY <1>1, <1>3 DEF Fits

\* A move that changes neither leases nor snapshot.
LEMMA FitsMoved ==
  ASSUME NEW o \in Objects, Fits(o), SameLeases(o), snapshot'[o] = snapshot[o],
         \/ at[o] = "unborn" /\ at'[o] = "idle"
         \/ at[o] = "idle" /\ at'[o] = "accepting"
         \/ at[o] = "accepting" /\ at'[o] \in {"over", "contributors"}
         \/ at[o] = "starting" /\ at'[o] \in {"capabilities", "failing"}
         \/ at[o] = "capabilities" /\ at'[o] \in {"undoing", "failing", "running"}
         \/ at[o] = "undoing" /\ at'[o] = "failing"
         \/ at[o] = "running" /\ at'[o] \in {"completing", "failing"}
         \/ at[o] = "completing" /\ at'[o] \in {"releasing", "failing"}
         \/ at[o] = "failing" /\ at'[o] = "releasing"
         \/ at[o] = "releasing" /\ at'[o] = "over" /\ HoldsOf(o) = {}
  PROVE  Fits(o)'
<1>1. HoldsOf(o)' = HoldsOf(o) /\ \A i \in Ids : lease'[<<o, i>>] = lease[<<o, i>>]
  BY SameHolds
<1>2. HoldsOf(o) \subseteq Ids
  BY DEF HoldsOf
<1>3. {lease'[<<o, i>>] : i \in HoldsOf(o) \cap Contributors}
      = {lease[<<o, i>>] : i \in HoldsOf(o) \cap Contributors}
  BY <1>1, <1>2
<1> QED BY <1>1, <1>3 DEF Fits

\* A synchronous step of the Turn on one id.
LEMMA FitsHeld ==
  ASSUME NEW o \in Objects, Fits(o), at'[o] = at[o], snapshot'[o] = snapshot[o], NEW i \in Ids,
         \A j \in Ids \ {i} : lease'[<<o, j>>] = lease[<<o, j>>],
         \/ at[o] = "contributors" /\ i \in Contributors /\ HoldsOf(o)' = HoldsOf(o) \cup {i}
         \/ at[o] = "capabilities" /\ i \in Selected /\ HoldsOf(o)' = HoldsOf(o) \cup {i}
         \/ at[o] = "undoing" /\ i \in Selected /\ HoldsOf(o)' = HoldsOf(o) \ {i}
         \/ at[o] = "releasing"
  PROVE  Fits(o)'
<1>1. CASE at[o] \in {"contributors", "releasing"}
  BY <1>1 DEF Fits
<1>2. CASE at[o] \in {"capabilities", "undoing"}
  <2>1. i \notin Contributors
    BY <1>2, KernelAssumption
  <2>2. HoldsOf(o)' \cap Contributors = HoldsOf(o) \cap Contributors
    BY <1>2, <2>1
  <2>3. HoldsOf(o) \cap Contributors \subseteq Ids \ {i}
    BY <2>1 DEF HoldsOf
  <2>4. {lease'[<<o, j>>] : j \in HoldsOf(o) \cap Contributors}
        = {lease[<<o, j>>] : j \in HoldsOf(o) \cap Contributors}
    BY <2>3
  <2> QED BY <1>2, <2>2, <2>4 DEF Fits
<1> QED BY <1>1, <1>2

\* Every step of the Kernel keeps the invariant.
LEMMA HoldsStep ==
  ASSUME TypeOK, KernelTypeOK, HoldsInv, [KernelNext]_allVars
  PROVE  HoldsInv'
<1>0. \A o \in Objects : Fits(o)
  BY FitsAll
<1>1. ASSUME NEW o \in Objects, at'[o] = at[o], snapshot'[o] = snapshot[o],
             UNCHANGED <<lease, released>>
      PROVE  Fits(o)'
  <2>1. SameLeases(o)
    BY <1>1 DEF SameLeases
  <2> QED BY <2>1, <1>0, <1>1, FitsStill
<1>2. CASE UNCHANGED <<at, snapshot, lease, released>>
  BY <1>1, <1>2, FitsAllNext
<1>3. UNCHANGED allVars => UNCHANGED <<at, snapshot, lease, released>>
  BY DEF allVars, registryVars, vars, turnVars
<1>4. InstallPlugin \/ KernelReady \/ ResolveAgent \/ DisposeKernel \/ DisposeFiber \/ Disposed
      => UNCHANGED <<at, snapshot, lease, released>>
  BY DEF InstallPlugin, KernelReady, ResolveAgent, DisposeKernel, DisposeFiber, Disposed,
         Register, registryVars, vars, turnVars
<1>5. ASSUME NEW r \in Regs, AddPlugin(r) \/ RemovePlugin(r) \/ PluginDrained(r)
      PROVE  UNCHANGED <<at, snapshot, lease, released>>
  BY <1>5 DEF AddPlugin, RemovePlugin, PluginDrained, Register, Dispose, FinishDispose, turnVars
<1>6. ASSUME NEW c \in Calls, CallCreate(c) \/ CallOpen(c) \/ Answer(c)
      PROVE  HoldsInv'
  <2>1. UNCHANGED <<snapshot, lease, released>>
    BY <1>6 DEF CallCreate, CallOpen, Answer, Create, Created, Read, Open, Reopened, Enter,
                registryVars, vars, turnVars
  <2>2. UNCHANGED at \/ \E revision : Enter(revision)
    BY <1>6 DEF CallCreate, CallOpen, Answer, Create, Created, Read, Open, Reopened, turnVars
  <2>3. ASSUME NEW revision, Enter(revision)
        PROVE  HoldsInv'
    <3>1. PICK o \in Objects : at[o] = "unborn" /\ at' = [at EXCEPT ![o] = "idle"]
      BY <2>3 DEF Enter
    <3>2. at'[o] = "idle" /\ \A p \in Objects \ {o} : at'[p] = at[p]
      BY <3>1 DEF KernelTypeOK
    <3>3. SameLeases(o)
      BY <2>1 DEF SameLeases
    <3>4. Fits(o)'
      BY <1>0, <2>1, <3>1, <3>2, <3>3, FitsMoved
    <3> QED BY <1>1, <2>1, <3>2, <3>4, FitsAllNext
  <2> QED BY <1>2, <2>1, <2>2, <2>3
<1>7. ASSUME NEW o \in Objects, Send(o) \/ TurnStep(o) \/ Complete(o) \/ Throw(o)
      PROVE  HoldsInv'
  <2>0. at \in [Objects -> Place] /\ DOMAIN snapshot = Objects
    BY DEF KernelTypeOK
  <2>1. ASSUME NEW from, NEW to, at[o] = from, at' = [at EXCEPT ![o] = to],
               UNCHANGED <<snapshot, lease, released>>,
               \/ from = "idle" /\ to = "accepting"
               \/ from = "accepting" /\ to \in {"over", "contributors"}
               \/ from = "starting" /\ to \in {"capabilities", "failing"}
               \/ from = "capabilities" /\ to \in {"undoing", "failing", "running"}
               \/ from = "undoing" /\ to = "failing"
               \/ from = "running" /\ to \in {"completing", "failing"}
               \/ from = "completing" /\ to \in {"releasing", "failing"}
               \/ from = "failing" /\ to = "releasing"
               \/ from = "releasing" /\ to = "over" /\ HoldsOf(o) = {}
        PROVE  HoldsInv'
    <3>1. at'[o] = to /\ \A p \in Objects \ {o} : at'[p] = at[p]
      BY <2>0, <2>1
    <3>2. SameLeases(o)
      BY <2>1 DEF SameLeases
    <3>3. Fits(o)'
      BY <1>0, <2>1, <3>1, <3>2, FitsMoved
    <3> QED BY <1>1, <2>1, <3>1, <3>3, FitsAllNext
  <2>2. ASSUME Fits(o)', UNCHANGED <<at, snapshot>>, \A p \in Objects \ {o} : SameLeases(p)
        PROVE  HoldsInv'
    BY <1>0, <2>2, FitsStill, FitsAllNext
  <2>3. CASE HoldContributor(o)
    <3>1. PICK i \in Wanted(o) : Acquire(<<o, i>>, i)
      BY <2>3 DEF HoldContributor
    <3>2. i \in Ids /\ i \in Contributors
      BY KernelAssumption DEF Wanted
    <3>3. at[o] = "contributors" /\ UNCHANGED <<at, snapshot>>
      BY <2>3 DEF HoldContributor, turnVars
    <3>4. Fits(o)'
      BY <1>0, <3>1, <3>2, <3>3, AcquireHolds, FitsHeld
    <3> QED BY <2>2, <3>1, <3>2, <3>3, <3>4, AcquireHolds
  <2>4. CASE Snapshot(o)
    <3>1. /\ at[o] = "contributors" /\ at' = [at EXCEPT ![o] = "starting"]
          /\ snapshot' = [snapshot EXCEPT ![o] = [capabilities |-> spec,
                            contributors |-> {lease[<<o, i>>] : i \in HoldsOf(o)}]]
          /\ UNCHANGED <<lease, released>>
      BY <2>4 DEF Snapshot, Move, registryVars, vars
    <3>2. /\ at'[o] = "starting" /\ \A p \in Objects \ {o} : at'[p] = at[p]
          /\ snapshot'[o].contributors = {lease[<<o, i>>] : i \in HoldsOf(o)}
          /\ \A p \in Objects \ {o} : snapshot'[p] = snapshot[p]
      BY <2>0, <3>1
    <3>3. HoldsOf(o)' = HoldsOf(o)
      BY <3>1 DEF HoldsOf, Live
    <3>4. HoldsOf(o) \subseteq Contributors
      BY <1>0, <3>1 DEF Fits
    <3>5. HoldsOf(o) \cap Contributors = HoldsOf(o)
      BY <3>4
    <3>6. Fits(o)'
      BY <3>1, <3>2, <3>3, <3>4, <3>5 DEF Fits
    <3> QED BY <1>1, <3>1, <3>2, <3>6, FitsAllNext
  <2>5. CASE Hold(o)
    <3>1. PICK k \in DOMAIN Capabilities :
            \/ Acquire(<<o, Capabilities[k]>>, Capabilities[k]) /\ UNCHANGED at
            \/ /\ \E to \in {"undoing", "failing"} : Move(o, "capabilities", to)
               /\ UNCHANGED registryVars
      BY <2>5 DEF Hold
    <3>2. Capabilities[k] \in Selected /\ Capabilities[k] \in Ids
      BY SelectedIds DEF Selected, Range
    <3>3. at[o] = "capabilities" /\ UNCHANGED snapshot
      BY <2>5 DEF Hold
    <3>4. CASE Acquire(<<o, Capabilities[k]>>, Capabilities[k]) /\ UNCHANGED at
      <4>1. Fits(o)'
        BY <1>0, <3>2, <3>3, <3>4, AcquireHolds, FitsHeld
      <4> QED BY <2>2, <3>2, <3>3, <3>4, <4>1, AcquireHolds
    <3>5. CASE (\E to \in {"undoing", "failing"} : Move(o, "capabilities", to)) /\ UNCHANGED registryVars
      BY <2>1, <3>3, <3>5 DEF Move, registryVars, vars
    <3> QED BY <3>1, <3>4, <3>5
  <2>6. CASE UndoSkills(o)
    <3>1. at[o] = "undoing" /\ UNCHANGED snapshot
      BY <2>6 DEF UndoSkills
    <3>2. ASSUME NEW i \in HoldsOf(o) \cap Skills, Release(<<o, i>>), UNCHANGED at
          PROVE  HoldsInv'
      <4>1. i \in Selected /\ i \in Ids
        BY KernelAssumption, SelectedIds
      <4>2. Fits(o)'
        BY <1>0, <3>1, <3>2, <4>1, ReleaseHolds, FitsHeld
      <4> QED BY <2>2, <3>1, <3>2, <4>1, <4>2, ReleaseHolds
    <3>3. CASE Move(o, "undoing", "failing") /\ UNCHANGED registryVars
      BY <2>1, <3>1, <3>3 DEF Move, registryVars, vars
    <3> QED BY <2>6, <3>2, <3>3 DEF UndoSkills
  <2>7. CASE LetGo(o)
    <3>1. at[o] = "releasing" /\ UNCHANGED snapshot
      BY <2>7 DEF LetGo
    <3>2. ASSUME NEW i \in HoldsOf(o), Release(<<o, i>>), UNCHANGED at
          PROVE  HoldsInv'
      <4>1. i \in Ids
        BY DEF HoldsOf
      <4>2. Fits(o)'
        BY <1>0, <3>1, <3>2, <4>1, ReleaseHolds, FitsHeld
      <4> QED BY <2>2, <3>1, <3>2, <4>1, <4>2, ReleaseHolds
    <3>3. CASE Move(o, "releasing", "over") /\ UNCHANGED registryVars /\ HoldsOf(o) = {}
      BY <2>1, <3>1, <3>3 DEF Move, registryVars, vars
    <3> QED BY <2>7, <3>2, <3>3 DEF LetGo, ToRelease
  <2>8. CASE Send(o) \/ Complete(o) \/ Throw(o) \/ Held(o)
    BY <2>1, <2>8 DEF Send, Complete, Throw, Held, Move, registryVars, vars
  <2>9. CASE Accepted(o) \/ Started(o) \/ Completed(o) \/ Catch(o)
    <3>1. UNCHANGED <<snapshot, lease, released>>
      BY <2>9 DEF Accepted, Started, Completed, Catch, registryVars, vars
    <3>2. \E from, to \in Place :
            /\ at[o] = from /\ at' = [at EXCEPT ![o] = to]
            /\ \/ from = "accepting" /\ to \in {"over", "contributors"}
               \/ from = "starting" /\ to \in {"capabilities", "failing"}
               \/ from = "completing" /\ to \in {"releasing", "failing"}
               \/ from = "failing" /\ to = "releasing"
      BY <2>9 DEF Accepted, Started, Completed, Catch, AppendOr, Place
    <3> QED BY <2>1, <3>1, <3>2
  <2> QED BY <1>7, <2>3, <2>4, <2>5, <2>6, <2>7, <2>8, <2>9 DEF TurnStep
<1> QED
  BY <1>2, <1>3, <1>4, <1>5, <1>6, <1>7 DEF KernelNext

\* The ContextContributors that turn/started names are the registrations that
\* the Turn holds, until it ends, however plugins come and go.
THEOREM RecordsContributors == KernelSpec => []ContributorsRecorded
<1>1. KernelInit => HoldsInv
  BY KernelAssumption, HolderOf DEF KernelInit, Init, HoldsInv, HoldsMatchPlace,
     ContributorsRecorded, HoldsOf, Live
<1>2. TypeOK /\ KernelTypeOK /\ HoldsInv /\ [KernelNext]_allVars => HoldsInv'
  BY HoldsStep
<1> QED BY KernelIInv, KernelTypes, <1>1, <1>2, PTL DEF KernelSpec, IInv, HoldsInv

-----------------------------------------------------------------------------
(* The facts of a cancellation *)

\* Every Turn of the object has an end in the history.
EndsLater(o) ==
  \A k \in DOMAIN journal : journal[k] = Event("turn/started", o) =>
    \E e \in (k + 1)..Len(journal) : journal[e].type \in TurnEnd

\* The places between the append of turn/started and that of the end.
InTurn == {"capabilities", "undoing", "running", "completing", "failing"}

\* The Turn of an object is open, or ended, or the object is overtaken.
Settled(o) == at[o] \in InTurn \/ rev[o] < Len(journal) \/ EndsLater(o)

CancelInv ==
  /\ \A o \in Objects : Settled(o)
  /\ phase \in {"fiber", "disposed"} => SessionsQuiet

LEMMA SettledStill ==
  ASSUME NEW o \in Objects, Settled(o), UNCHANGED journal, rev'[o] = rev[o],
         at'[o] = at[o] \/ at'[o] \in InTurn \/ at[o] \notin InTurn
  PROVE  Settled(o)'
BY DEF Settled, EndsLater

\* An object that enters has written nothing.
LEMMA SettledBorn ==
  ASSUME KernelTypeOK, WriterInv, NEW o \in Objects, UNCHANGED journal, at[o] = "unborn"
  PROVE  Settled(o)'
<1>1. \A k \in DOMAIN journal : journal[k].by # o
  <2>1. rev[o] = 0 /\ o # None
    BY KernelAssumption DEF WriterInv, RevisionsKnown
  <2> QED BY <2>1 DEF WriterInv, EndsWithOwn, KernelTypeOK, History
<1>2. Event("turn/started", o).by = o
  BY DEF Event
<1> QED BY <1>1, <1>2 DEF Settled, EndsLater

\* An object that does not write is overtaken by one that does.
LEMMA SettledOvertaken ==
  ASSUME KernelTypeOK, WriterInv, NEW o \in Objects, NEW type \in EventType,
         NEW by \in Objects \cup {None}, journal' = Append(journal, Event(type, by)),
         rev'[o] = rev[o]
  PROVE  Settled(o)'
<1>1. Len(journal') = Len(journal) + 1 /\ Len(journal) \in Nat
  BY Growth
<1>2. rev[o] <= Len(journal) /\ rev[o] \in Nat
  BY DEF WriterInv, RevisionsKnown, KernelTypeOK
<1> QED BY <1>1, <1>2 DEF Settled

\* An object that writes starts a Turn, ends it, or has none open.
LEMMA SettledWriter ==
  ASSUME KernelTypeOK, NEW o \in Objects, Settled(o), NEW type \in EventType,
         Expected(rev[o]), journal' = Append(journal, Event(type, o)),
         \/ at'[o] \in InTurn
         \/ type \in TurnEnd
         \/ at[o] \notin InTurn /\ type # "turn/started"
  PROVE  Settled(o)'
<1> DEFINE n == Len(journal)
<1>1. /\ n \in Nat /\ Len(journal') = n + 1
      /\ DOMAIN journal = 1..n /\ DOMAIN journal' = 1..(n + 1)
      /\ journal'[n + 1].type = type
      /\ \A k \in 1..n : journal'[k] = journal[k]
  BY Growth
<1>2. CASE at'[o] \in InTurn
  BY <1>2 DEF Settled
<1>3. type \in TurnEnd => type # "turn/started"
  BY DEF TurnEnd
<1>4. Event("turn/started", o).type = "turn/started"
  BY DEF Event
<1>5. CASE type \in TurnEnd
  <2>1. ASSUME NEW k \in 1..(n + 1), journal'[k] = Event("turn/started", o)
        PROVE  \E e \in (k + 1)..(n + 1) : journal'[e].type \in TurnEnd
    <3>1. k # n + 1
      BY <2>1, <1>1, <1>3, <1>4, <1>5
    <3>2. n + 1 \in (k + 1)..(n + 1)
      BY <3>1, <1>1
    <3> QED BY <3>2, <1>1, <1>5
  <2> QED BY <2>1, <1>1 DEF Settled, EndsLater
<1>6. CASE at[o] \notin InTurn /\ type # "turn/started"
  <2>1. EndsLater(o)
    BY <1>6, <1>1 DEF Settled, Expected
  <2>2. ASSUME NEW k \in 1..(n + 1), journal'[k] = Event("turn/started", o)
        PROVE  \E e \in (k + 1)..(n + 1) : journal'[e].type \in TurnEnd
    <3>1. k # n + 1
      BY <2>2, <1>1, <1>4, <1>6
    <3>2. k \in 1..n /\ journal[k] = Event("turn/started", o)
      BY <3>1, <2>2, <1>1
    <3>3. PICK e \in (k + 1)..n : journal[e].type \in TurnEnd
      BY <2>1, <3>2, <1>1 DEF EndsLater
    <3>4. e \in (k + 1)..(n + 1) /\ journal'[e] = journal[e]
      BY <3>3, <1>1, <3>2
    <3> QED BY <3>3, <3>4
  <2> QED BY <2>2, <1>1 DEF Settled, EndsLater
<1> QED BY <1>2, <1>5, <1>6

LEMMA SettledStep ==
  ASSUME KernelTypeOK, WriterInv, \A o \in Objects : Settled(o), [KernelNext]_allVars,
         NEW o \in Objects
  PROVE  Settled(o)'
<1>0. at \in [Objects -> Place] /\ rev \in [Objects -> Nat] /\ Settled(o)
  BY DEF KernelTypeOK
<1>1. CASE UNCHANGED <<journal, rev, at>>
  BY <1>0, <1>1, SettledStill
<1>2. UNCHANGED allVars => UNCHANGED <<journal, rev, at>>
  BY DEF allVars, sessionVars, turnVars
<1>3. InstallPlugin \/ KernelReady \/ ResolveAgent \/ DisposeKernel \/ DisposeFiber \/ Disposed
      => UNCHANGED <<journal, rev, at>>
  BY DEF InstallPlugin, KernelReady, ResolveAgent, DisposeKernel, DisposeFiber, Disposed,
         sessionVars, turnVars
<1>4. \A r \in Regs : AddPlugin(r) \/ RemovePlugin(r) \/ PluginDrained(r)
      => UNCHANGED <<journal, rev, at>>
  BY DEF AddPlugin, RemovePlugin, PluginDrained, sessionVars, turnVars
<1>5. ASSUME NEW c \in Calls, CallCreate(c) \/ CallOpen(c) \/ Answer(c)
      PROVE  Settled(o)'
  <2>1. \/ UNCHANGED <<journal, rev, at>>
        \/ UNCHANGED journal /\ \E revision : Enter(revision)
        \/ UNCHANGED <<rev, at>> /\ \E type \in EventType : journal' = Append(journal, Event(type, None))
    BY <1>5 DEF CallCreate, CallOpen, Answer, Create, Created, Read, Open, Reopened, turnVars,
                EventType, TurnEnd
  <2>2. ASSUME UNCHANGED journal, NEW revision, Enter(revision)
        PROVE  Settled(o)'
    <3>1. PICK p \in Objects : /\ at[p] = "unborn" /\ at' = [at EXCEPT ![p] = "idle"]
                               /\ rev' = [rev EXCEPT ![p] = revision]
      BY <2>2 DEF Enter
    <3>2. CASE p = o
      BY <2>2, <3>1, <3>2, SettledBorn
    <3>3. CASE p # o
      BY <1>0, <2>2, <3>1, <3>3, SettledStill
    <3> QED BY <3>2, <3>3
  <2>3. ASSUME UNCHANGED <<rev, at>>, NEW type \in EventType,
               journal' = Append(journal, Event(type, None))
        PROVE  Settled(o)'
    BY <2>3, SettledOvertaken
  <2> QED BY <1>1, <2>1, <2>2, <2>3
<1>6. ASSUME NEW p \in Objects, Send(p) \/ TurnStep(p) \/ Complete(p) \/ Throw(p)
      PROVE  Settled(o)'
  <2>1. ASSUME NEW type \in EventType, NEW then \in Place, NEW else \in Place,
               AppendOr(p, type, then, else),
               \/ then \in InTurn \/ type \in TurnEnd
               \/ at[p] \notin InTurn /\ type # "turn/started",
               else \in InTurn \/ at[p] \notin InTurn \/ else = "releasing"
        PROVE  Settled(o)'
    <3>1. CASE Expected(rev[p]) /\ p = o
      <4>1. journal' = Append(journal, Event(type, o)) /\ at'[o] = then
        BY <1>0, <2>1, <3>1 DEF AppendOr
      <4> QED BY <1>0, <2>1, <3>1, <4>1, SettledWriter
    <3>2. CASE Expected(rev[p]) /\ p # o
      <4>1. journal' = Append(journal, Event(type, p)) /\ rev'[o] = rev[o]
        BY <1>0, <2>1, <3>2 DEF AppendOr
      <4> QED BY <4>1, SettledOvertaken
    <3>3. CASE ~Expected(rev[p])
      <4>1. UNCHANGED <<journal, rev>> /\ at' = [at EXCEPT ![p] = else]
        BY <2>1, <3>3 DEF AppendOr
      <4>2. CASE p = o
        <5>1. rev[o] < Len(journal)
          BY <3>3, <4>2, <1>0 DEF WriterInv, RevisionsKnown, Expected, KernelTypeOK, History
        <5> QED BY <4>1, <5>1 DEF Settled
      <4>3. CASE p # o
        BY <1>0, <4>1, <4>3, SettledStill
      <4> QED BY <4>2, <4>3
    <3> QED BY <3>1, <3>2, <3>3
  <2>2. CASE Accepted(p) \/ Started(p) \/ Completed(p) \/ Catch(p)
    <3>1. \E type \in EventType, then, else \in Place :
            /\ AppendOr(p, type, then, else)
            /\ \/ then \in InTurn \/ type \in TurnEnd
               \/ at[p] \notin InTurn /\ type # "turn/started"
            /\ else \in InTurn \/ at[p] \notin InTurn \/ else = "releasing"
      BY <2>2 DEF Accepted, Started, Completed, Catch, Place, EventType, TurnEnd, InTurn
    <3> QED BY <2>1, <3>1
  <2>3. CASE Send(p) \/ Complete(p) \/ Throw(p) \/ HoldContributor(p) \/ Snapshot(p) \/ Hold(p)
             \/ UndoSkills(p) \/ Held(p) \/ LetGo(p)
    <3>1. UNCHANGED <<journal, rev>>
      BY <2>3 DEF Send, Complete, Throw, HoldContributor, Snapshot, Hold, UndoSkills, Held, LetGo,
                  sessionVars, turnVars
    <3>2. UNCHANGED at \/ \E to : /\ at' = [at EXCEPT ![p] = to]
                                  /\ to \in InTurn \/ at[p] \notin InTurn
      BY <2>3 DEF Send, Complete, Throw, HoldContributor, Snapshot, Hold, UndoSkills, Held, LetGo,
                  Move, turnVars, InTurn
    <3> QED BY <1>0, <3>1, <3>2, SettledStill
  <2> QED BY <1>6, <2>2, <2>3 DEF TurnStep
<1> QED
  BY <1>1, <1>2, <1>3, <1>4, <1>5, <1>6 DEF KernelNext

\* What dispose() has stopped stays where it is.
LEMMA QuietStays ==
  ASSUME KernelTypeOK, phase \in {"fiber", "disposed"}, SessionsQuiet, [KernelNext]_allVars
  PROVE  SessionsQuiet'
<1>0. at \in [Objects -> Place]
  BY DEF KernelTypeOK
<1>1. UNCHANGED stopping
  BY DEF KernelNext, InstallPlugin, KernelReady, ResolveAgent, DisposeKernel, DisposeFiber, Disposed,
         AddPlugin, RemovePlugin, PluginDrained, CallCreate, CallOpen, Answer, Create, Created, Read,
         Open, Reopened, Enter, Send, TurnStep, Complete, Throw, Accepted, HoldContributor, Snapshot,
         Started, Hold, UndoSkills, Held, Completed, Catch, LetGo, allVars, turnVars
<1> DEFINE Allowed ==
             \/ UNCHANGED at
             \/ \E o \in Objects : \E to :
                  /\ at' = [at EXCEPT ![o] = to]
                  /\ at[o] \notin {"idle", "over"} \/ ~stopping[o]
                  /\ to = "idle" => at[o] = "unborn"
<1>2. ASSUME UNCHANGED allVars PROVE Allowed
  BY <1>2 DEF allVars, turnVars
<1>3. ASSUME InstallPlugin \/ KernelReady \/ ResolveAgent \/ DisposeKernel \/ DisposeFiber \/ Disposed
      PROVE  Allowed
  BY <1>3 DEF InstallPlugin, KernelReady, ResolveAgent, DisposeKernel, DisposeFiber, Disposed, turnVars
<1>4. ASSUME NEW r \in Regs, AddPlugin(r) \/ RemovePlugin(r) \/ PluginDrained(r)
      PROVE  Allowed
  BY <1>4 DEF AddPlugin, RemovePlugin, PluginDrained, turnVars
<1>5. ASSUME NEW c \in Calls, CallCreate(c) \/ CallOpen(c) \/ Answer(c)
      PROVE  Allowed
  <2>1. UNCHANGED at \/ \E revision : Enter(revision)
    BY <1>5 DEF CallCreate, CallOpen, Answer, Create, Created, Read, Open, Reopened, turnVars
  <2>2. ASSUME NEW revision, Enter(revision)
        PROVE  \E o \in Objects : at[o] = "unborn" /\ at' = [at EXCEPT ![o] = "idle"]
    BY <2>2 DEF Enter
  <2> QED BY <2>1, <2>2
<1>6. ASSUME NEW o \in Objects, Send(o) \/ TurnStep(o) \/ Complete(o) \/ Throw(o)
      PROVE  Allowed
  <2>1. UNCHANGED at \/ \E to \in Place \ {"idle"} : at' = [at EXCEPT ![o] = to]
    BY <1>6 DEF TurnStep, Send, Complete, Throw, Accepted, HoldContributor, Snapshot, Started, Hold,
                UndoSkills, Held, Completed, Catch, LetGo, AppendOr, Move, turnVars, Place
  <2>2. UNCHANGED at \/ at[o] \notin {"idle", "over"} \/ ~stopping[o]
    BY <1>6 DEF TurnStep, Send, Complete, Throw, Accepted, HoldContributor, Snapshot, Started, Hold,
                UndoSkills, Held, Completed, Catch, LetGo, Move, turnVars
  <2> QED BY <2>1, <2>2
<1>7. Allowed
  BY <1>2, <1>3, <1>4, <1>5, <1>6 DEF KernelNext
<1> QED BY <1>0, <1>1, <1>7 DEF SessionsQuiet

LEMMA CancelStep ==
  ASSUME KernelTypeOK, WriterInv, CancelInv, [KernelNext]_allVars
  PROVE  CancelInv'
<1>1. \A o \in Objects : Settled(o)'
  BY SettledStep DEF CancelInv
<1>2. ASSUME phase' \in {"fiber", "disposed"} PROVE SessionsQuiet'
  <2>1. CASE phase \in {"fiber", "disposed"}
    BY <2>1, QuietStays DEF CancelInv
  <2>2. CASE phase \notin {"fiber", "disposed"}
    <3>1. DisposeFiber
      BY <1>2, <2>2 DEF KernelNext, InstallPlugin, KernelReady, ResolveAgent, DisposeKernel, Disposed,
           AddPlugin, RemovePlugin, PluginDrained, CallCreate, CallOpen, Answer, Create, Created, Read,
           Open, Reopened, Send, TurnStep, Complete, Throw, Accepted, HoldContributor, Snapshot,
           Started, Hold, UndoSkills, Held, Completed, Catch, LetGo, allVars, kernelVars
    <3> QED BY <3>1 DEF DisposeFiber, SessionsQuiet, turnVars
  <2> QED BY <2>1, <2>2
<1> QED BY <1>1, <1>2 DEF CancelInv

\* dispose() reaches the plugins only when the Turns it stopped have their end
\* in the history.
THEOREM CancellationFacts == KernelSpec => []CancellationRecorded
<1>1. KernelInit => CancelInv
  <2> SUFFICES ASSUME KernelInit PROVE CancelInv
    OBVIOUS
  <2>1. WriterInv /\ KernelTypeOK
    BY WriterInit, KernelInitTypes
  <2>2. ASSUME NEW o \in Objects PROVE EndsLater(o)
    <3>1. rev[o] = 0 /\ o # None
      BY KernelAssumption DEF KernelInit
    <3>2. \A k \in DOMAIN journal : journal[k].by # o
      BY <2>1, <3>1 DEF WriterInv, EndsWithOwn, KernelTypeOK, History
    <3>3. Event("turn/started", o).by = o
      BY DEF Event
    <3> QED BY <3>2, <3>3 DEF EndsLater
  <2> QED BY <2>2 DEF KernelInit, CancelInv, Settled
<1>2. KernelTypeOK /\ WriterInv /\ CancelInv /\ [KernelNext]_allVars => CancelInv'
  BY CancelStep
<1>3. KernelTypeOK /\ CancelInv => CancellationRecorded
  <2> SUFFICES ASSUME KernelTypeOK, CancelInv, phase \in {"fiber", "disposed"},
                      NEW o \in Objects, stopping[o], Expected(rev[o])
               PROVE  EndsLater(o)
    BY DEF CancellationRecorded, EndsLater
  <2>1. at[o] \notin InTurn
    BY DEF CancelInv, SessionsQuiet, InTurn
  <2>2. ~(rev[o] < Len(journal))
    BY DEF Expected, KernelTypeOK, History
  <2> QED BY <2>1, <2>2 DEF CancelInv, Settled
<1> QED BY KernelTypes, WriterAlways, <1>1, <1>2, <1>3, PTL DEF KernelSpec
=============================================================================
