--------------------------- MODULE KernelLifecycle ---------------------------
(***************************************************************************)
(* src/src/kernel/kernel.ts with the parts of Sessions and Agents that     *)
(* decide who holds what while a Kernel lives: createSession and           *)
(* openSession (session.ts, SessionsModule), the frame of a Turn with its  *)
(* capability leases (session.ts, #execute), Agent resolution (agent.ts),  *)
(* plugins that come and go, and dispose().  The registry of capabilities  *)
(* is LeasedRegistry, whose variables and operations are used as they are: *)
(* a holder is a Session object together with the id that its Turn leases. *)
(*                                                                         *)
(* The model has one Session id.  Concurrent calls may make several        *)
(* Session objects for it, each with a lane and a revision of its own; the *)
(* journal checks the expected revision of every append.  A step runs from *)
(* one await to the next, except that a synchronous block of several       *)
(* leases is a series of steps during which nothing else moves (Busy).     *)
(***************************************************************************)
EXTENDS LeasedRegistry, Sequences, Functions

CONSTANTS
  Objects,       \* Session objects; bound: one Turn each
  Calls,         \* calls of createSession and openSession
  Capabilities,  \* the ids a Turn holds for its AgentSpec: a sequence, in order
  Skills,        \* those of them that are Skills: held and undone as a group
  Contributors,  \* ids of ContextContributors
  Provides,      \* the id each registration object is for
  Plugins,       \* KernelOptions.plugins: a sequence of registration objects
  Removable,     \* bound: the registrations disposed before the Kernel is
  MaxUpdates     \* bound: calls of updateAgent

Selected == Range(Capabilities)

ASSUME KernelAssumption ==
  /\ Holders = Objects \X Ids
  /\ Skills \subseteq Selected
  /\ Contributors \cap Selected = {}
  /\ Contributors \cup Selected = Ids
  /\ Provides \in [Regs -> Ids]
  /\ Plugins \in Seq(Regs)
  /\ Removable \subseteq Regs
  /\ None \notin Objects
  /\ MaxUpdates \in Nat

VARIABLES
  phase,     \* createKernel, then #state, split where dispose() waits
  spec,      \* the Agent: the registration each id resolved to when the spec was
  updates,   \* the declaration revision: 0 without an Agent
  journal,   \* the history of the Session: [type, by]
  opened,    \* SessionsModule.sessions: the object under the id, or None
  call,      \* where each call stands, and what it read
  at,        \* where the Turn of each object stands
  rev,       \* #revision of each object
  stopping,  \* #stopping
  aborted,   \* whether the Turn's signal is aborted
  snapshot   \* the AgentSnapshot in turn/started: capabilities, contributors

registryVars == vars
sessionVars == <<journal, opened, call>>
turnVars == <<at, rev, stopping, aborted, snapshot>>
kernelVars == <<phase, spec, updates>>
allVars == <<registryVars, kernelVars, sessionVars, turnVars>>

Event(type, o) == [type |-> type, by |-> o]

TurnEnd == {"turn/completed", "turn/cancelled", "turn/failed", "turn/interrupted"}

\* has(): a draining registration is hidden.
Has(i) == entries[i] # None /\ active[entries[i]]

\* A synchronous block of the Turn of o.
InBlock(o) == at[o] \in {"contributors", "capabilities", "undoing", "releasing"}

Busy == \E o \in Objects : InBlock(o)

\* #execute of o is under way.
Executing(o) == at[o] \notin {"unborn", "idle", "accepting", "over"}

NoSnapshot == [capabilities |-> [i \in Selected |-> None], contributors |-> {}]

KernelInit ==
  /\ Init /\ idOf = Provides
  /\ phase = "starting"
  /\ spec = [i \in Selected |-> None] /\ updates = 0
  \* What an earlier process left: no Session, or one with an interrupted Turn.
  /\ journal \in {<<>>, <<Event("session/created", None), Event("turn/started", None)>>}
  /\ opened = None
  /\ call = [c \in Calls |-> [at |-> "unused", seen |-> <<>>]]
  /\ at = [o \in Objects |-> "unborn"]
  /\ rev = [o \in Objects |-> 0]
  /\ stopping = [o \in Objects |-> FALSE]
  /\ aborted = [o \in Objects |-> FALSE]
  /\ snapshot = [o \in Objects |-> NoSnapshot]

-----------------------------------------------------------------------------
(* Plugins and Agents *)

\* createKernel: the plugins of the options, one after the other.
InstallPlugin ==
  /\ phase = "starting"
  /\ \E k \in DOMAIN Plugins :
       /\ disposer[Plugins[k]] = "unused"
       /\ \A j \in 1..(k - 1) : disposer[Plugins[j]] # "unused"
       /\ Register(Plugins[k], Provides[Plugins[k]])
  /\ UNCHANGED <<kernelVars, sessionVars, turnVars>>

KernelReady ==
  /\ phase = "starting"
  /\ \A r \in Range(Plugins) : disposer[r] # "unused"
  /\ phase' = "ready"
  /\ UNCHANGED <<registryVars, spec, updates, sessionVars, turnVars>>

\* A plugin is applied to the running Kernel.
AddPlugin(r) ==
  /\ phase = "ready" /\ ~Busy
  /\ disposer[r] = "unused"
  /\ Register(r, Provides[r])
  /\ UNCHANGED <<kernelVars, sessionVars, turnVars>>

\* A plugin is disposed: by its owner, or with the root Fiber, which takes the
\* plugins in some fixed order and waits for none before the next.
RemovePlugin(r) ==
  /\ \/ phase = "ready" /\ r \in Removable
     \/ /\ phase = "fiber" /\ disposer[r] = "registered"
        /\ r = CHOOSE p \in Regs : disposer[p] = "registered"
  /\ ~Busy
  /\ Dispose(r)
  /\ UNCHANGED <<kernelVars, sessionVars, turnVars>>

PluginDrained(r) ==
  /\ ~Busy
  /\ FinishDispose(r)
  /\ UNCHANGED <<kernelVars, sessionVars, turnVars>>

\* createAgent, updateAgent: every selected capability must be registered.
ResolveAgent ==
  /\ phase = "ready" /\ ~Busy
  /\ updates <= MaxUpdates
  /\ \A i \in Selected : Has(i)
  /\ spec' = [i \in Selected |-> entries[i]]
  /\ updates' = updates + 1
  /\ UNCHANGED <<registryVars, phase, sessionVars, turnVars>>

-----------------------------------------------------------------------------
(* createSession and openSession *)

\* Calls and objects are interchangeable: they are used in a fixed order.
NextCall == CHOOSE c \in Calls : (\E d \in Calls : call[d].at = "unused") => call[c].at = "unused"

\* The first synchronous part of create() and open(), up to journal.read.
CallCreate(c) ==
  /\ phase = "ready" /\ ~Busy
  /\ c = NextCall
  /\ call[c].at = "unused"
  /\ opened = None
  /\ updates > 0
  /\ call' = [call EXCEPT ![c].at = "creating"]
  /\ UNCHANGED <<registryVars, kernelVars, journal, opened, turnVars>>

CallOpen(c) ==
  /\ phase = "ready" /\ ~Busy
  /\ c = NextCall
  /\ call[c].at = "unused"
  /\ opened = None
  /\ call' = [call EXCEPT ![c].at = "opening"]
  /\ UNCHANGED <<registryVars, kernelVars, journal, opened, turnVars>>

\* The journal answers a read.
Read(c, from, to) ==
  /\ ~Busy
  /\ call[c].at = from
  /\ call' = [call EXCEPT ![c] = [at |-> to, seen |-> journal]]
  /\ UNCHANGED <<registryVars, kernelVars, journal, opened, turnVars>>

\* new Session(...) and sessions.set(id, session).
Enter(revision) ==
  /\ \E o \in Objects : at[o] = "unborn"
  /\ LET o == CHOOSE o \in Objects : at[o] = "unborn" IN
       /\ at' = [at EXCEPT ![o] = "idle"]
       /\ rev' = [rev EXCEPT ![o] = revision]
       /\ opened' = o
  /\ UNCHANGED <<stopping, aborted, snapshot>>

\* The call ends, with a Session or with an error.
Return(c) == call' = [call EXCEPT ![c] = [at |-> "returned", seen |-> <<>>]]

\* Mutant of Expected: the journal appends at its end whatever was expected.
AnyRevision(revision) == TRUE

\* journal.append: the revision check.
Expected(revision) == Len(journal) = revision

\* create() reads the history and appends session/created to an empty one, or
\* fails.  The append expects an empty history, so the read decides nothing.
Create(c) ==
  /\ ~Busy
  /\ call[c].at = "creating"
  /\ \/ /\ Expected(0)
        /\ journal' = Append(journal, Event("session/created", None))
        /\ call' = [call EXCEPT ![c].at = "created"]
     \/ /\ ~Expected(0)
        /\ Return(c)
        /\ UNCHANGED journal
  /\ UNCHANGED <<registryVars, kernelVars, opened, turnVars>>

Created(c) ==
  /\ ~Busy
  /\ call[c].at = "created"
  /\ Return(c)
  /\ Enter(1)
  /\ UNCHANGED <<registryVars, kernelVars, journal>>

\* projectSession: the Turn that is active at the end of a history.
LatestTurn(events) ==
  LET starts == {k \in DOMAIN events : events[k].type = "turn/started"}
      ends   == {k \in DOMAIN events : events[k].type \in TurnEnd}
  IN  IF starts = {} THEN "none"
      ELSE IF \E k \in ends : \A s \in starts : s < k THEN "ended" ELSE "active"

\* open() after the read: an error, the repair of an active Turn, or a Session.
Open(c) ==
  /\ ~Busy
  /\ call[c].at = "read"
  /\ LET seen == call[c].seen IN
     \/ /\ \/ seen = <<>> \/ updates = 0
           \/ LatestTurn(seen) = "active" /\ ~Expected(Len(seen))
        /\ Return(c)
        /\ UNCHANGED <<journal, opened, turnVars>>
     \/ /\ seen # <<>> /\ updates > 0
        /\ LatestTurn(seen) = "active" /\ Expected(Len(seen))
        /\ journal' = Append(journal, Event("turn/interrupted", None))
        /\ call' = [call EXCEPT ![c].at = "repaired"]
        /\ UNCHANGED <<opened, turnVars>>
     \/ /\ seen # <<>> /\ updates > 0
        /\ LatestTurn(seen) # "active"
        /\ Return(c)
        /\ Enter(Len(seen))
        /\ UNCHANGED journal
  /\ UNCHANGED <<registryVars, kernelVars>>

\* open() after the second read, which follows the repair.
Reopened(c) ==
  /\ ~Busy
  /\ call[c].at = "reread"
  /\ Return(c)
  /\ Enter(Len(call[c].seen))
  /\ UNCHANGED <<registryVars, kernelVars, journal>>

-----------------------------------------------------------------------------
(* The Turn of a Session object *)

\* What the Turn of o holds.
HoldsOf(o) == {i \in Ids : Live(<<o, i>>)}

\* #append: an atomic append at #revision, or a conflict that throws.
AppendOr(o, type, then, else) ==
  \/ /\ Expected(rev[o])
     /\ journal' = Append(journal, Event(type, o))
     /\ rev' = [rev EXCEPT ![o] = @ + 1]
     /\ at' = [at EXCEPT ![o] = then]
  \/ /\ ~Expected(rev[o])
     /\ at' = [at EXCEPT ![o] = else]
     /\ UNCHANGED <<journal, rev>>

Move(o, from, to) == at[o] = from /\ at' = [at EXCEPT ![o] = to]

\* send(): not once #stopping; it waits for the append of input/accepted.
Send(o) ==
  /\ ~Busy
  /\ Move(o, "idle", "accepting")
  /\ ~stopping[o]
  /\ UNCHANGED <<registryVars, kernelVars, sessionVars, rev, stopping, aborted, snapshot>>

\* #scheduleInput after the acceptance: the Turn begins, unless #stopping.
Accepted(o) ==
  /\ ~Busy
  /\ at[o] = "accepting"
  /\ AppendOr(o, "input/accepted", IF stopping[o] THEN "over" ELSE "contributors", "over")
  /\ UNCHANGED <<registryVars, kernelVars, opened, call, stopping, aborted, snapshot>>

\* holdContributors: a lease on every active contributor.
Wanted(o) == {i \in Contributors : Has(i)} \ HoldsOf(o)

HoldContributor(o) ==
  /\ at[o] = "contributors"
  /\ \E i \in Wanted(o) : Acquire(<<o, i>>, i)
  /\ UNCHANGED <<kernelVars, sessionVars, turnVars>>

\* Mutant of Snapshot: refs of what is registered, whether leased or draining.
SnapshotOfEntries(o) ==
  /\ Move(o, "contributors", "starting")
  /\ Wanted(o) = {}
  /\ snapshot' = [snapshot EXCEPT ![o] =
       [capabilities |-> spec, contributors |-> {entries[i] : i \in Contributors} \ {None}]]
  /\ UNCHANGED <<registryVars, kernelVars, sessionVars, rev, stopping, aborted>>

\* The AgentSnapshot with the refs of the leases; then turn/started is appended.
Snapshot(o) ==
  /\ Move(o, "contributors", "starting")
  /\ Wanted(o) = {}
  /\ snapshot' = [snapshot EXCEPT ![o] =
       [capabilities |-> spec, contributors |-> {lease[<<o, i>>] : i \in HoldsOf(o)}]]
  /\ UNCHANGED <<registryVars, kernelVars, sessionVars, rev, stopping, aborted>>

Started(o) ==
  /\ ~Busy
  /\ at[o] = "starting"
  /\ AppendOr(o, "turn/started", "capabilities", "failing")
  /\ UNCHANGED <<registryVars, kernelVars, opened, call, stopping, aborted, snapshot>>

\* models.hold, tools.hold for each Tool, skills.hold: the next that is not held.
Hold(o) ==
  /\ at[o] = "capabilities"
  /\ \E k \in DOMAIN Capabilities :
       LET i == Capabilities[k] IN
       /\ i \notin HoldsOf(o)
       /\ \A j \in 1..(k - 1) : Capabilities[j] \in HoldsOf(o)
       /\ \/ Acquire(<<o, i>>, i) /\ UNCHANGED at
          \/ /\ ~Has(i)
             /\ Move(o, "capabilities", IF i \in Skills THEN "undoing" ELSE "failing")
             /\ UNCHANGED registryVars
  /\ UNCHANGED <<kernelVars, sessionVars, rev, stopping, aborted, snapshot>>

\* skills.hold fails: it releases the Skills it has leased and throws.
UndoSkills(o) ==
  /\ at[o] = "undoing"
  /\ \/ /\ \E i \in HoldsOf(o) \cap Skills : Release(<<o, i>>)
        /\ UNCHANGED at
     \/ /\ HoldsOf(o) \cap Skills = {}
        /\ Move(o, "undoing", "failing")
        /\ UNCHANGED registryVars
  /\ UNCHANGED <<kernelVars, sessionVars, rev, stopping, aborted, snapshot>>

Held(o) ==
  /\ Selected \subseteq HoldsOf(o)
  /\ Move(o, "capabilities", "running")
  /\ UNCHANGED <<registryVars, kernelVars, sessionVars, rev, stopping, aborted, snapshot>>

\* The Turn runs until it completes, fails, or notices that its signal is
\* aborted (TurnLoop.tla has what happens inside).
Complete(o) ==
  /\ ~Busy
  /\ Move(o, "running", "completing")
  /\ UNCHANGED <<registryVars, kernelVars, sessionVars, rev, stopping, aborted, snapshot>>

Throw(o) ==
  /\ ~Busy
  /\ Move(o, "running", "failing")
  /\ UNCHANGED <<registryVars, kernelVars, sessionVars, rev, stopping, aborted, snapshot>>

Completed(o) ==
  /\ ~Busy
  /\ at[o] = "completing"
  /\ AppendOr(o, "turn/completed", "releasing", "failing")
  /\ UNCHANGED <<registryVars, kernelVars, opened, call, stopping, aborted, snapshot>>

\* The catch block; a conflict there throws out of #execute, past `finally`.
Catch(o) ==
  /\ ~Busy
  /\ at[o] = "failing"
  /\ AppendOr(o, IF aborted[o] THEN "turn/cancelled" ELSE "turn/failed", "releasing", "releasing")
  /\ UNCHANGED <<registryVars, kernelVars, opened, call, stopping, aborted, snapshot>>

\* Mutant of ToRelease: the Skills are left to hold()'s own undoing.
AllButSkills(o) == HoldsOf(o) \ Skills

\* capabilityReleases: what the Turn still holds.
ToRelease(o) == HoldsOf(o)

\* The finally block: every lease is released, and #activeTurn is cleared.
\* (The order is of no consequence: nothing runs in between.)
LetGo(o) ==
  /\ at[o] = "releasing"
  /\ \/ /\ ToRelease(o) # {}
        /\ Release(<<o, CHOOSE i \in ToRelease(o) : TRUE>>)
        /\ UNCHANGED at
     \/ /\ ToRelease(o) = {}
        /\ Move(o, "releasing", "over")
        /\ UNCHANGED registryVars
  /\ UNCHANGED <<kernelVars, sessionVars, rev, stopping, aborted, snapshot>>

-----------------------------------------------------------------------------
(* dispose() *)

\* dispose(), SessionsModule.shutdown and the synchronous part of
\* Session.shutdown for the Session in the map.
DisposeKernel ==
  /\ phase = "ready" /\ ~Busy
  /\ phase' = "sessions"
  /\ stopping' = [o \in Objects |-> stopping[o] \/ o = opened]
  /\ aborted' = [o \in Objects |-> aborted[o] \/ (o = opened /\ Executing(o))]
  /\ UNCHANGED <<registryVars, spec, updates, sessionVars, at, rev, snapshot>>

\* Mutant of SessionsQuiet: shutdown does not wait for the Turns it aborts.
SessionsAborted == TRUE

\* The Turns and appends of the Sessions that shutdown() found are over.
SessionsQuiet == \A o \in Objects : stopping[o] => at[o] \in {"idle", "over"}

\* context.fiber.dispose() starts to dispose every plugin.
DisposeFiber ==
  /\ phase = "sessions" /\ ~Busy
  /\ SessionsQuiet
  /\ phase' = "fiber"
  /\ UNCHANGED <<registryVars, spec, updates, sessionVars, turnVars>>

\* Every disposer has returned.
Disposed ==
  /\ phase = "fiber" /\ ~Busy
  /\ \A r \in Regs : disposer[r] \in {"unused", "done"}
  /\ phase' = "disposed"
  /\ UNCHANGED <<registryVars, spec, updates, sessionVars, turnVars>>

Answer(c) ==
  \/ Create(c) \/ Created(c)
  \/ Read(c, "opening", "read") \/ Open(c)
  \/ Read(c, "repaired", "reread") \/ Reopened(c)

TurnStep(o) ==
  \/ Accepted(o) \/ HoldContributor(o) \/ Snapshot(o) \/ Started(o)
  \/ Hold(o) \/ UndoSkills(o) \/ Held(o)
  \/ Completed(o) \/ Catch(o) \/ LetGo(o)

KernelNext ==
  \/ InstallPlugin \/ KernelReady \/ ResolveAgent
  \/ \E r \in Regs : AddPlugin(r) \/ RemovePlugin(r) \/ PluginDrained(r)
  \/ \E c \in Calls : CallCreate(c) \/ CallOpen(c) \/ Answer(c)
  \/ \E o \in Objects : Send(o) \/ TurnStep(o) \/ Complete(o) \/ Throw(o)
  \/ DisposeKernel \/ DisposeFiber \/ Disposed

KernelSpec == KernelInit /\ [][KernelNext]_allVars

\* The journal answers, resolved promises resume, and an aborted Turn ends
\* (TurnLoop!CancelTerminates).  A Turn that is not aborted may run for ever.
KernelFairness ==
  /\ \A c \in Calls : WF_allVars(Answer(c))
  /\ \A o \in Objects : WF_allVars(TurnStep(o)) /\ WF_allVars(aborted[o] /\ Throw(o))
  /\ \A r \in Regs : WF_allVars(PluginDrained(r))
                     /\ WF_allVars(phase = "fiber" /\ RemovePlugin(r))
  /\ WF_allVars(DisposeFiber) /\ WF_allVars(Disposed)

FairKernelSpec == KernelSpec /\ KernelFairness

-----------------------------------------------------------------------------

Place ==
  {"unborn", "idle", "accepting", "contributors", "starting", "capabilities", "undoing",
   "running", "completing", "failing", "releasing", "over"}

CallPlace ==
  {"unused", "creating", "created", "opening", "read", "repaired", "reread", "returned"}

EventType == {"session/created", "input/accepted", "turn/started"} \cup TurnEnd

History == Seq([type : EventType, by : Objects \cup {None}])

\* The type invariant of the Kernel's own state.
KernelTypeOK ==
  /\ phase \in {"starting", "ready", "sessions", "fiber", "disposed"}
  /\ spec \in [Selected -> Regs \cup {None}]
  /\ updates \in 0..(MaxUpdates + 1)
  /\ journal \in History
  /\ opened \in Objects \cup {None}
  /\ call \in [Calls -> [at : CallPlace, seen : History]]
  /\ at \in [Objects -> Place]
  /\ rev \in [Objects -> Nat]
  /\ stopping \in [Objects -> BOOLEAN]
  /\ aborted \in [Objects -> BOOLEAN]
  /\ snapshot \in [Objects -> [capabilities : [Selected -> Regs \cup {None}],
                             contributors : SUBSET Regs]]

\* Kernel invariant 10 (docs/ARCHITECTURE.md:526): a disposed Kernel leaves no
\* lease, not even of a Session that was made while it was being disposed.
DisposedHoldsNothing == phase = "disposed" => \A h \in Holders : ~Live(h)

\* The ContextContributorRefs recorded in turn/started are those of the
\* registrations the Turn holds and uses, however plugins come and go between
\* the snapshot and the end of the Turn.
ContributorsRecorded ==
  \A o \in Objects :
    at[o] \in {"starting", "capabilities", "undoing", "running", "completing", "failing"}
      => snapshot[o].contributors = {lease[<<o, i>>] : i \in HoldsOf(o) \cap Contributors}

\* Kernel invariant 2 (docs/ARCHITECTURE.md:518) with several Session objects
\* on one history: it is created once, and the events of an object are never
\* interrupted by another writer, so that an object whose Turn was repaired
\* away, or that was overtaken, can record nothing more.
OneWriterAtATime ==
  /\ \A k \in DOMAIN journal : journal[k].type = "session/created" <=> k = 1
  /\ \A j, k, l \in DOMAIN journal :
       /\ j < k /\ k < l
       /\ journal[j].by = journal[l].by
       /\ journal[j].by # None
       => journal[k].by = journal[j].by

\* Why one object writes at a time: an object that has written is at the end of
\* what it wrote, ...
EndsWithOwn ==
  \A k \in DOMAIN journal : journal[k].by # None =>
    LET o == journal[k].by IN k <= rev[o] /\ \A l \in k..rev[o] : journal[l].by = o

\* ... and no revision or read is ahead of the history.
RevisionsKnown ==
  \A o \in Objects : rev[o] <= Len(journal) /\ (at[o] = "unborn" <=> rev[o] = 0)

ReadsKnown ==
  \A c \in Calls :
    /\ Len(call[c].seen) <= Len(journal)
    /\ call[c].at \in {"created", "repaired", "reread"} => Len(journal) > 0
    /\ call[c].at = "reread" => Len(call[c].seen) > 0

\* The history is created once.
CreatedFirst == \A k \in DOMAIN journal : journal[k].type = "session/created" <=> k = 1

\* What a Turn holds, by the place where it stands.
HoldsMatchPlace ==
  \A o \in Objects :
    /\ at[o] \in {"unborn", "idle", "accepting", "over"} => HoldsOf(o) = {}
    /\ at[o] \in {"contributors", "starting"} => HoldsOf(o) \subseteq Contributors

\* The root Fiber is disposed when no disposer is left.
DisposersReturned ==
  phase = "disposed" => \A r \in Regs : disposer[r] \in {"unused", "done"}

\* dispose() waits for the cancellation facts (docs/ARCHITECTURE.md:395): when
\* the plugins are disposed, the Session that shutdown() found has ended its Turn
\* in the history, unless another object has taken the history over.
CancellationRecorded ==
  phase \in {"fiber", "disposed"} =>
    \A o \in Objects : stopping[o] /\ Expected(rev[o]) =>
      \A k \in DOMAIN journal : journal[k] = Event("turn/started", o) =>
        \E e \in (k + 1)..Len(journal) : journal[e].type \in TurnEnd

\* dispose() ends, whatever plugins are being disposed and whatever Turns run,
\* unless a Session that shutdown() did not find runs a Turn for ever.
DisposeEnds ==
  (phase = "sessions") ~>
    ((phase = "disposed") \/ [](\E o \in Objects : at[o] = "running" /\ ~aborted[o]))

\* docs/ARCHITECTURE.md:519, "One Session never has two active Turns", which
\* the revision check is to enforce (docs/ARCHITECTURE.md:210): a Turn in the
\* history ends before the next one starts.
OneTurnInHistory ==
  \A j, k \in DOMAIN journal :
    /\ j < k
    /\ journal[j].type = "turn/started"
    /\ journal[k].type = "turn/started"
    => \E e \in (j + 1)..(k - 1) : journal[e].type \in TurnEnd

\* docs/ARCHITECTURE.md:112-117: the registrations that the AgentSnapshot of a
\* running Turn names are those it runs with.
SnapshotIsUsed ==
  \A o \in Objects : at[o] = "running" =>
    \A i \in Selected : lease[<<o, i>>] = snapshot[o].capabilities[i]
=============================================================================
