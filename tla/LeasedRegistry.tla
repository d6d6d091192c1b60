--------------------------- MODULE LeasedRegistry ---------------------------
(***************************************************************************)
(* src/src/kernel/leased-registry.ts: the registry of Tools, Model         *)
(* Adapters, Skills and ContextContributors.  A Turn leases what its       *)
(* AgentSnapshot names and looks it up again, by id, each time it uses it  *)
(* (tools/tool.ts:127, models/model.ts:221, skills/skills.ts:119); a       *)
(* plugin's disposal hides its registration at once and then waits until   *)
(* its leases are released (docs/ARCHITECTURE.md:104).                     *)
(*                                                                         *)
(* Every method runs to completion; the one point where the registry       *)
(* waits is the `await registration.drained` inside the disposer.          *)
(***************************************************************************)
EXTENDS Naturals, FiniteSets

CONSTANTS Ids,      \* capability ids
          Regs,     \* registration objects
          Holders,  \* lease holders: Turns, each with one lease of this registry
          None      \* no registration

ASSUME NoneAssumption == None \notin Regs

VARIABLES
  entries,   \* #entries: the registration under each id, or None
  idOf,      \* value.id of each registration
  active,    \* registration.active
  leases,    \* registration.leases
  drained,   \* whether the promise registration.drained is resolved
  disposer,  \* where the disposer returned by register() stands
  lease,     \* the registration each holder's latest lease is on, or None
  released   \* the `released` flag of that lease

vars == <<entries, idOf, active, leases, drained, disposer, lease, released>>

registrationVars == <<entries, idOf, active, drained, disposer>>

DisposerState == {"unused", "registered", "awaiting", "done"}

\* The leases that are acquired and not yet released.
Live(h) == lease[h] # None /\ ~released[h]

LiveOn(r) == {h \in Holders : lease[h] = r /\ ~released[h]}

Init ==
  /\ entries = [i \in Ids |-> None]
  /\ idOf \in [Regs -> Ids]
  /\ active = [r \in Regs |-> FALSE]
  /\ leases = [r \in Regs |-> 0]
  /\ drained = [r \in Regs |-> FALSE]
  /\ disposer = [r \in Regs |-> "unused"]
  /\ lease = [h \in Holders |-> None]
  /\ released = [h \in Holders |-> FALSE]

-----------------------------------------------------------------------------

\* Mutant of Contains: has(), which does not see a draining registration.
ContainsActive(i) == entries[i] # None /\ active[entries[i]]

\* contains(): a draining registration still occupies its id.
Contains(i) == entries[i] # None

\* register(): every caller refuses an id that is contained (tools/tool.ts:74,
\* models/model.ts:159, skills/skills.ts:64, context/context.ts:128) before it
\* creates a registration object.  An object nobody refers to is used again.
Register(r, i) ==
  /\ disposer[r] \in {"unused", "done"}
  /\ LiveOn(r) = {}
  /\ ~Contains(i)
  /\ entries' = [entries EXCEPT ![i] = r]
  /\ idOf' = [idOf EXCEPT ![r] = i]
  /\ active' = [active EXCEPT ![r] = TRUE]
  /\ leases' = [leases EXCEPT ![r] = 0]
  /\ drained' = [drained EXCEPT ![r] = FALSE]
  /\ disposer' = [disposer EXCEPT ![r] = "registered"]
  /\ UNCHANGED <<lease, released>>

\* acquire(): a lease on the active registration of the id.
Acquire(h, i) ==
  /\ ~Live(h)
  /\ entries[i] # None
  /\ active[entries[i]]
  /\ leases' = [leases EXCEPT ![entries[i]] = @ + 1]
  /\ lease' = [lease EXCEPT ![h] = entries[i]]
  /\ released' = [released EXCEPT ![h] = FALSE]
  /\ UNCHANGED registrationVars

\* `if (released) return`: the lease's release() was called before.
AlreadyReleased(h) == released[h]

\* release(): the last lease of a registration being disposed resolves drained.
Release(h) ==
  /\ lease[h] # None
  /\ LET r == lease[h] IN
     \/ AlreadyReleased(h) /\ UNCHANGED <<leases, drained, released>>
     \/ /\ ~AlreadyReleased(h)
        /\ released' = [released EXCEPT ![h] = TRUE]
        /\ leases' = [leases EXCEPT ![r] = @ - 1]
        /\ drained' = [drained EXCEPT ![r] = @ \/ (~active[r] /\ leases[r] = 1)]
  /\ UNCHANGED <<entries, idOf, active, disposer, lease>>

\* The end of the disposer: the id is freed only if it is still this object's.
Unregister(r) ==
  entries' = [entries EXCEPT ![idOf[r]] = IF @ = r THEN None ELSE @]

\* Mutant of Dispose: free the id without waiting for the leases.
DisposeAtOnce(r) ==
  /\ disposer[r] = "registered"
  /\ active' = [active EXCEPT ![r] = FALSE]
  /\ disposer' = [disposer EXCEPT ![r] = "done"]
  /\ Unregister(r)
  /\ UNCHANGED <<idOf, leases, drained, lease, released>>

\* The disposer, up to its await: hide the registration, then wait for its
\* leases, or free the id in the same step when it has none.
Dispose(r) ==
  /\ disposer[r] = "registered"
  /\ active' = [active EXCEPT ![r] = FALSE]
  /\ \/ /\ leases[r] > 0
        /\ disposer' = [disposer EXCEPT ![r] = "awaiting"]
        /\ UNCHANGED entries
     \/ /\ leases[r] = 0
        /\ disposer' = [disposer EXCEPT ![r] = "done"]
        /\ Unregister(r)
  /\ UNCHANGED <<idOf, leases, drained, lease, released>>

\* The disposer resumes after registration.drained.
FinishDispose(r) ==
  /\ disposer[r] = "awaiting"
  /\ drained[r]
  /\ disposer' = [disposer EXCEPT ![r] = "done"]
  /\ Unregister(r)
  /\ UNCHANGED <<idOf, active, leases, drained, lease, released>>

Next ==
  \/ \E r \in Regs :
       \/ \E i \in Ids : Register(r, i)
       \/ Dispose(r)
       \/ FinishDispose(r)
  \/ \E h \in Holders :
       \/ \E i \in Ids : Acquire(h, i)
       \/ Release(h)

Spec == Init /\ [][Next]_vars

\* The Turn releases its leases in a `finally` (session.ts:464-470), and a
\* resolved promise resumes its disposer.
Fairness ==
  /\ \A h \in Holders : WF_vars(Release(h))
  /\ \A r \in Regs : WF_vars(FinishDispose(r))

FairSpec == Spec /\ Fairness

-----------------------------------------------------------------------------

\* The type invariant: the fields of Registration and of RegistrationLease.
TypeOK ==
  /\ entries \in [Ids -> Regs \cup {None}]
  /\ idOf \in [Regs -> Ids]
  /\ active \in [Regs -> BOOLEAN]
  /\ leases \in [Regs -> Nat]
  /\ drained \in [Regs -> BOOLEAN]
  /\ disposer \in [Regs -> DisposerState]
  /\ lease \in [Holders -> Regs \cup {None}]
  /\ released \in [Holders -> BOOLEAN]

\* registration.leases counts the unreleased leases, however often a release
\* closure is called: a disposer is neither let go early nor kept for ever.
LeaseAccounting ==
  \A r \in Regs : IsFiniteSet(LiveOn(r)) /\ leases[r] = Cardinality(LiveOn(r))

\* While a holder's lease is unreleased, a lookup by id returns the very
\* registration it leased: neither a disposal in progress nor a new
\* registration under the same id can swap the capability under a Turn.
LeasedIsCurrent ==
  \A h \in Holders : Live(h) => entries[idOf[lease[h]]] = lease[h]

\* A registration that still occupies its id is one whose disposer has not
\* finished, and an unfinished disposer's registration occupies its id.
EntriesMatchDisposers ==
  /\ \A i \in Ids : entries[i] # None =>
       /\ idOf[entries[i]] = i
       /\ disposer[entries[i]] \in {"registered", "awaiting"}
  /\ \A r \in Regs : disposer[r] \in {"registered", "awaiting"} =>
       entries[idOf[r]] = r

\* The drained promise and the active flag in each state of the disposer.
DrainedInv ==
  \A r \in Regs :
    /\ active[r] <=> disposer[r] = "registered"
    /\ active[r] => ~drained[r]
    /\ drained[r] /\ disposer[r] = "awaiting" => leases[r] = 0
    /\ disposer[r] = "awaiting" /\ leases[r] = 0 => drained[r]
    /\ disposer[r] \in {"unused", "done"} => leases[r] = 0

\* The inductive invariant behind the safety properties.
IInv ==
  /\ TypeOK
  /\ LeaseAccounting
  /\ EntriesMatchDisposers
  /\ DrainedInv

\* Once a plugin's disposal has begun its registration is never leased again,
\* and its disposer ends only when nobody holds a lease on it.
DisposalDrains ==
  [][\A r \in Regs :
       /\ disposer[r] = "awaiting" /\ disposer'[r] = "awaiting"
            => leases'[r] <= leases[r]
       /\ disposer[r] # "done" /\ disposer'[r] = "done" => LiveOn(r) = {}]_vars

\* A disposer that waits for leases finishes: the release of the last one
\* resolves its promise and no lease is granted in the meantime.
DisposalEnds == \A r \in Regs : (disposer[r] = "awaiting") ~> (disposer[r] = "done")
=============================================================================
