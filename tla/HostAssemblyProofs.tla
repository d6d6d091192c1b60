------------------------- MODULE HostAssemblyProofs -------------------------
(***************************************************************************)
(* Machine-checked facts about HostAssembly.tla, for any number of         *)
(* processes, Sessions and crashes, and whatever Profiles, packages and    *)
(* edits there are.  First what follows from when files are read, compared *)
(* and written, whatever a plan and a Profile contain; then what the       *)
(* layers of a Profile make of each field, when they were read, and so     *)
(* which state directory is worked in; then the load order of the          *)
(* packages, for every Capability Library.                                 *)
(***************************************************************************)
EXTENDS HostAssembly, FiniteSetTheorems, SequenceTheorems, WellFoundedInduction, TLAPS

Fields == {"pc", "assembling", "since", "chain", "overlays", "checked", "profile", "plan",
           "digests", "imported", "raced", "exists", "claimed"}

\* The type invariant, as far as the proofs need it.
HostShape ==
  /\ situation \in Situations
  /\ edited \in Nat /\ crashes \in Nat
  /\ DOMAIN proc = Procs
  /\ \A p \in Procs : DOMAIN proc[p] = Fields

IsList(s) == \E S : s \in Seq(S)

LEMMA EmptyIsList == IsList(<<>>)
<1>1. <<>> \in Seq({})
  OBVIOUS
<1> QED BY <1>1 DEF IsList

LEMMA NotEmpty == ASSUME NEW s, IsList(s), s # <<>> PROVE 1 \in DOMAIN s
<1>1. PICK S : s \in Seq(S)
  BY DEF IsList
<1>2. Len(s) # 0 /\ Len(s) \in Nat /\ DOMAIN s = 1..Len(s)
  BY <1>1, EmptySeq
<1> QED BY <1>2

\* Nothing that is recorded is changed or lost.
Extends(old, new) == DOMAIN old \subseteq DOMAIN new /\ \A k \in DOMAIN old : new[k] = old[k]

LEMMA Appended ==
  ASSUME NEW s, IsList(s), NEW e, NEW t, t = Append(s, e)
  PROVE  /\ IsList(t) /\ Extends(s, t)
         /\ Len(t) \in DOMAIN t /\ t[Len(t)] = e /\ 1 \in DOMAIN t
         /\ DOMAIN t = DOMAIN s \cup {Len(t)}
         /\ Len(t) = Len(s) + 1 /\ Len(s) \in Nat
         /\ (s = <<>> => t[1] = e)
<1>1. PICK S : s \in Seq(S)
  BY DEF IsList
<1>2. PICK T : T = S \cup {e}
  OBVIOUS
<1>3. s \in Seq(T) /\ e \in T
  BY <1>1, <1>2, SeqMonotonic
<1>4. /\ t \in Seq(T) /\ Len(t) = Len(s) + 1 /\ t[Len(s) + 1] = e
      /\ \A k \in 1..Len(s) : t[k] = s[k]
  BY <1>3
<1>5. /\ Len(s) \in Nat /\ Len(t) \in Nat
      /\ DOMAIN s = 1..Len(s) /\ DOMAIN t = 1..Len(t)
  BY <1>3, <1>4
<1>6. s = <<>> => Len(s) = 0
  OBVIOUS
<1>7. IsList(t)
  BY <1>4 DEF IsList
<1> QED BY <1>4, <1>5, <1>6, <1>7 DEF Extends

-----------------------------------------------------------------------------
(* What the steps change of the processes.                                 *)

Kept(p, changing) == \A f \in Fields \ changing : proc'[p][f] = proc[p][f]

\* A step of p that leaves the other processes where they are.
Only(p) ==
  /\ UNCHANGED situation
  /\ DOMAIN proc' = Procs
  /\ DOMAIN proc'[p] = Fields
  /\ \A q \in Procs \ {p} : proc'[q] = proc[q]

LEMMA GotoKeeps ==
  ASSUME HostShape, UNCHANGED situation, NEW p \in Procs, NEW pc, Goto(p, pc)
  PROVE  Only(p) /\ Kept(p, {"pc"}) /\ proc'[p].pc = pc
BY DEF HostShape, Goto, Only, Kept, Fields

LEMMA OnlyShape ==
  ASSUME HostShape, NEW p \in Procs, Only(p), edited' \in Nat, crashes' \in Nat
  PROVE  HostShape'
BY DEF HostShape, Only, Procs

\* The steps of planHost.
PlanStep(p) ==
  \/ Start(p) \/ ReadSource(p) \/ Validated(p) \/ Resolved(p) \/ HashPackage(p) \/ Planned(p)

PlanPlaces == {"reading", "hashing", "loading", "workspace", "done", "failed"}

LEMMA PlanSteps ==
  ASSUME HostShape, NEW p \in Procs, PlanStep(p)
  PROVE  /\ Only(p)
         /\ proc[p].pc \in {"start", "reading", "hashing"}
         /\ proc'[p].pc \in PlanPlaces
         /\ proc'[p].imported \in {<<>>, proc[p].imported}
         /\ Invocation(p).host = "coding" /\ proc'[p].assembling => proc[p].assembling
         /\ UNCHANGED <<situation, edited, crashes, diskVars>>
<1>1. CASE Start(p)
  <2>1. /\ proc' = [proc EXCEPT ![p] =
             Planning(proc[p], Invocation(p).host = "nervus"
                         /\ Invocation(p).command \notin {"validate", "explain"})]
        /\ proc[p].pc = "start" /\ UNCHANGED <<situation, edited, crashes, diskVars>>
    BY <1>1 DEF Start
  <2>2. PICK a : /\ a = (Invocation(p).host = "nervus"
                         /\ Invocation(p).command \notin {"validate", "explain"})
                 /\ proc' = [proc EXCEPT ![p] = Planning(proc[p], a)]
    BY <2>1
  <2>3. Invocation(p).host = "coding" => a = FALSE
    BY <2>2
  <2>4. Only(p) /\ proc'[p] = Planning(proc[p], a)
    BY <2>1, <2>2 DEF Only, HostShape, Planning, NewProcess, Fields
  <2>5. /\ Planning(proc[p], a).pc = "reading" /\ Planning(proc[p], a).imported = <<>>
        /\ Planning(proc[p], a).assembling = a
    BY DEF Planning, NewProcess
  <2> QED BY <2>1, <2>3, <2>4, <2>5 DEF PlanPlaces
<1>2. CASE ReadSource(p)
  <2>1. /\ UNCHANGED <<situation, edited, crashes, diskVars>>
        /\ proc[p].pc = "reading"
        /\ \/ Goto(p, "failed")
           \/ \E chain : proc' = [proc EXCEPT ![p].chain = chain]
           \/ \E overlays : proc' = [proc EXCEPT ![p].overlays = overlays]
    BY <1>2 DEF ReadSource
  <2>2. CASE Goto(p, "failed")
    BY <2>1, <2>2, GotoKeeps DEF Kept, Fields, PlanPlaces
  <2>3. CASE \/ \E chain : proc' = [proc EXCEPT ![p].chain = chain]
             \/ \E overlays : proc' = [proc EXCEPT ![p].overlays = overlays]
    BY <2>1, <2>3 DEF Only, HostShape, Fields, PlanPlaces
  <2> QED BY <2>1, <2>2, <2>3
<1>3. CASE Validated(p)
  <2>1. PICK place : place = IF ~Accepted(p) THEN "failed"
                             ELSE IF Invocation(p).command = "validate" THEN "done" ELSE "reading"
    OBVIOUS
  <2>3. place \in {"failed", "done", "reading"}
    BY <2>1
  <2>4. proc' = [proc EXCEPT ![p].pc = place, ![p].plan = LibraryPlan,
                             ![p].checked = <<proc[p].chain, proc[p].overlays>>,
                             ![p].chain = <<>>, ![p].overlays = <<>>]
    BY <1>3, <2>1 DEF Validated
  <2>2. proc[p].pc = "reading" /\ UNCHANGED <<situation, edited, crashes, diskVars>>
    BY <1>3 DEF Validated, SourcesRead
  <2> QED BY <2>2, <2>3, <2>4 DEF Only, HostShape, Fields, PlanPlaces
<1>4. CASE Resolved(p)
  <2>1. /\ proc[p].pc = "reading" /\ UNCHANGED <<situation, edited, crashes, diskVars>>
        /\ \/ \E profile : proc' = [proc EXCEPT ![p].pc = "hashing", ![p].profile = profile]
           \/ Goto(p, "failed")
    BY <1>4 DEF Resolved, SourcesRead
  <2>2. CASE Goto(p, "failed")
    BY <2>1, <2>2, GotoKeeps DEF Kept, Fields, PlanPlaces
  <2>3. ASSUME NEW profile,
               proc' = [proc EXCEPT ![p].pc = "hashing", ![p].profile = profile]
        PROVE  Only(p) /\ proc'[p] = [proc[p] EXCEPT !.pc = "hashing", !.profile = profile]
    BY <2>1, <2>3 DEF Only, HostShape, Fields
  <2>4. CASE \E profile : proc' = [proc EXCEPT ![p].pc = "hashing", ![p].profile = profile]
    BY <2>1, <2>3, <2>4 DEF HostShape, Fields, PlanPlaces
  <2> QED BY <2>1, <2>2, <2>4
<1>5. CASE HashPackage(p)
  <2>1. /\ proc[p].pc = "hashing" /\ UNCHANGED <<situation, edited, crashes, diskVars>>
        /\ \E digests : proc' = [proc EXCEPT ![p].digests = digests]
    BY <1>5 DEF HashPackage
  <2> QED BY <2>1 DEF Only, HostShape, Fields, PlanPlaces
<1>6. CASE Planned(p)
  <2>1. PICK place : /\ place \in {"loading", "done", "workspace", "failed"} /\ Goto(p, place)
                     /\ proc[p].pc = "hashing"
                     /\ UNCHANGED <<situation, edited, crashes, diskVars>>
    BY <1>6 DEF Planned
  <2> QED BY <2>1, GotoKeeps DEF Kept, Fields, PlanPlaces
<1> QED BY <1>1, <1>2, <1>3, <1>4, <1>5, <1>6 DEF PlanStep

\* The state directory, if there is one, is one of the directories.
LEMMA DirectoryIs ==
  ASSUME HostShape, NEW p \in Procs
  PROVE  StateDirectory(p) \in Directories \cup {None}
<1>1. DefaultDirectory(p) \in Directories
  BY DirectoryAssumption DEF HostShape, Procs, Invocation, DefaultDirectory
<1> QED BY <1>1 DEF StateDirectory

\* It is a matter of the Profile of the present plan.
LEMMA DirectoryStays ==
  ASSUME UNCHANGED situation, NEW p, proc'[p].profile = proc[p].profile
  PROVE  StateDirectory(p)' = StateDirectory(p)
BY DEF StateDirectory, InMemory, DefaultDirectory, Invocation

\* assembleHost makes its plan from the beginning.
LEMMA ClaimedFacts ==
  ASSUME NEW p
  PROVE  /\ DOMAIN Claimed(p) = Fields
         /\ Claimed(p).pc = "reading" /\ Claimed(p).assembling /\ Claimed(p).since = edited
         /\ Claimed(p).chain = <<>> /\ Claimed(p).overlays = <<>> /\ Claimed(p).imported = <<>>
         /\ Claimed(p).checked = None /\ Claimed(p).profile = None /\ Claimed(p).plan = None
         /\ Claimed(p).claimed.directory = StateDirectory(p)
         /\ Claimed(p).claimed.since = proc[p].since
BY DEF Claimed, Planning, NewProcess, Fields

\* The steps after the plan that leave the disk alone, and the way out of each place.
LEMMA WorkspaceRead ==
  ASSUME HostShape, NEW p \in Procs, ReadMetadata(p)
  PROVE  /\ Only(p)
         /\ proc[p].pc \in {"workspace", "claimed"}
         /\ proc'[p].pc \in {"claiming", "reading", "failed"}
         /\ \/ /\ proc'[p].pc \in {"claiming", "failed"} /\ Kept(p, {"pc"})
            \/ /\ proc'[p] = Claimed(p)
               /\ metadata[StateDirectory(p)] = Invocation(p).workspace
         /\ UNCHANGED <<situation, edited, crashes, diskVars>>
<1>1. /\ proc[p].pc \in {"workspace", "claimed"}
      /\ UNCHANGED <<situation, edited, crashes, diskVars>>
  BY DEF ReadMetadata
<1>2. PICK old, stored : old = proc[p] /\ stored = metadata[StateDirectory(p)]
  OBVIOUS
<1>3. PICK new : new = IF stored = None THEN [old EXCEPT !.pc = "claiming"]
                       ELSE IF stored = Invocation(p).workspace THEN Claimed(p)
                       ELSE [old EXCEPT !.pc = "failed"]
  OBVIOUS
<1>4. proc' = [proc EXCEPT ![p] = new]
  BY <1>2, <1>3 DEF ReadMetadata
<1>5. DOMAIN old = Fields
  BY <1>2 DEF HostShape
<1>6. proc'[p] = new /\ \A q \in Procs : q # p => proc'[q] = proc[q]
  BY <1>4 DEF HostShape
<1>7. CASE new = Claimed(p) /\ stored = Invocation(p).workspace
  BY <1>1, <1>2, <1>4, <1>6, <1>7, ClaimedFacts DEF Only, HostShape
<1>8. CASE \E place \in {"claiming", "failed"} : new = [old EXCEPT !.pc = place]
  BY <1>1, <1>2, <1>4, <1>5, <1>6, <1>8 DEF Only, HostShape, Kept, Fields
<1> QED BY <1>3, <1>7, <1>8

LEMMA MetadataWritten ==
  ASSUME HostShape, NEW p \in Procs, WriteMetadata(p)
  PROVE  /\ Only(p)
         /\ proc[p].pc = "writing" /\ proc'[p] = Claimed(p)
         /\ metadata' = [metadata EXCEPT ![StateDirectory(p)] = Invocation(p).workspace]
         /\ UNCHANGED <<situation, edited, crashes, resolutions, references, history>>
<1>1. PICK new : new = Claimed(p)
  OBVIOUS
<1>2. proc' = [proc EXCEPT ![p] = new]
  BY <1>1 DEF WriteMetadata
<1> QED BY <1>1, <1>2, ClaimedFacts DEF WriteMetadata, Only, HostShape

\* The steps of p that only move it on: nothing but its place changes.
MovesOn(p) == Only(p) /\ Kept(p, {"pc"}) /\ UNCHANGED <<situation, edited, crashes>>

LEMMA Moves ==
  ASSUME HostShape, NEW p \in Procs,
         \/ Claim(p) \/ CheckPackage(p) \/ ReadReference(p) \/ StoreResolution(p)
         \/ FillResolution(p) \/ AppendReference(p) \/ OpenSession(p) \/ Turn(p)
  PROVE  MovesOn(p)
<1>1. /\ UNCHANGED <<situation, edited, crashes>>
      /\ \E pc : Goto(p, pc)
  <2>1. CASE Claim(p)
    BY <2>1 DEF Claim
  <2>2. CASE CheckPackage(p)
    BY <2>2 DEF CheckPackage
  <2>3. CASE ReadReference(p)
    BY <2>3 DEF ReadReference
  <2>4. CASE StoreResolution(p)
    BY <2>4 DEF StoreResolution
  <2>5. CASE FillResolution(p)
    BY <2>5 DEF FillResolution
  <2>6. CASE AppendReference(p)
    BY <2>6 DEF AppendReference
  <2>7. CASE OpenSession(p)
    BY <2>7 DEF OpenSession
  <2>8. CASE Turn(p)
    BY <2>8 DEF Turn
  <2> QED BY <2>1, <2>2, <2>3, <2>4, <2>5, <2>6, <2>7, <2>8
<1> QED BY <1>1, GotoKeeps DEF MovesOn

LEMMA Imports ==
  ASSUME HostShape, NEW p \in Procs, Import(p)
  PROVE  /\ Only(p) /\ Kept(p, {"pc", "imported"})
         /\ proc[p].pc = "importing" /\ proc'[p].pc = "loading"
         /\ proc'[p].imported = Append(proc[p].imported, Code(NextPackage(p)))
         /\ UNCHANGED <<situation, edited, crashes, diskVars>>
BY DEF Import, Only, Kept, HostShape, Fields

LEMMA AssembledMoves ==
  ASSUME HostShape, NEW p \in Procs, Assembled(p)
  PROVE  /\ Only(p) /\ Kept(p, {"pc", "exists"})
         /\ proc[p].pc = "loading" /\ proc'[p].pc \in {"failed", "done", "recording"}
         /\ proc'[p].pc = "recording" =>
              /\ StateDirectory(p) # None
              /\ proc'[p].exists => history[Place(p)] # <<>>
         /\ UNCHANGED <<situation, edited, crashes, diskVars>>
<1>1. PICK exists : exists = (StateDirectory(p) # None /\ history[Place(p)] # <<>>)
  OBVIOUS
<1>2. /\ proc[p].pc = "loading" /\ UNCHANGED <<situation, edited, crashes, diskVars>>
      /\ \/ Goto(p, "failed") \/ Goto(p, "done")
         \/ /\ StateDirectory(p) # None
            /\ proc' = [proc EXCEPT ![p].pc = "recording", ![p].exists = exists]
  BY <1>1 DEF Assembled
<1>3. CASE Goto(p, "failed") \/ Goto(p, "done")
  BY <1>2, <1>3, GotoKeeps DEF Kept
<1>4. CASE /\ StateDirectory(p) # None
           /\ proc' = [proc EXCEPT ![p].pc = "recording", ![p].exists = exists]
  <2>1. proc'[p].pc = "recording" /\ proc'[p].exists = exists
    BY <1>4 DEF HostShape, Fields
  <2>2. Only(p) /\ Kept(p, {"pc", "exists"})
    BY <1>2, <1>4 DEF Only, Kept, HostShape, Fields
  <2> QED BY <1>1, <1>2, <1>4, <2>1, <2>2
<1> QED BY <1>2, <1>3, <1>4

LEMMA EditMoves ==
  ASSUME HostShape, Edit
  PROVE  /\ DOMAIN proc' = Procs
         /\ \A p \in Procs :
              /\ DOMAIN proc'[p] = Fields /\ Kept(p, {"raced"})
              /\ proc'[p].raced = (proc[p].raced \/ Importing(p, situation.edits[edited + 1]))
         /\ edited' = edited + 1 /\ UNCHANGED <<situation, crashes, diskVars>>
BY DEF Edit, HostShape, Kept, Fields

LEMMA CrashMoves ==
  ASSUME HostShape, NEW p \in Procs, Crash(p)
  PROVE  /\ Only(p) /\ Kept(p, {"pc"}) /\ proc'[p].pc = "crashed"
         /\ crashes' = crashes + 1 /\ UNCHANGED <<situation, edited, diskVars>>
BY GotoKeeps DEF Crash

LEMMA ShapeStep == HostShape /\ [Next]_vars => HostShape'
<1> SUFFICES ASSUME HostShape, [Next]_vars PROVE HostShape'
  OBVIOUS
<1>1. CASE UNCHANGED vars
  BY <1>1 DEF vars, HostShape, Procs
<1>2. CASE Edit
  BY <1>2, EditMoves DEF HostShape, Procs
<1>3. ASSUME NEW p \in Procs, ProcessStep(p) PROVE HostShape'
  <2>1. Only(p) /\ UNCHANGED <<edited, crashes>>
    BY <1>3, PlanSteps, WorkspaceRead, MetadataWritten, Moves, Imports, AssembledMoves
    DEF ProcessStep, PlanStep, MovesOn
  <2> QED BY <2>1, OnlyShape DEF HostShape
<1>4. ASSUME NEW p \in Procs, Crash(p) PROVE HostShape'
  BY <1>4, CrashMoves, OnlyShape DEF HostShape
<1> QED BY <1>1, <1>2, <1>3, <1>4 DEF Next

LEMMA InitShape == Init => HostShape
BY DEF Init, HostShape, NewProcess, Fields, Procs

\* The steps of a process, by what they change.
LEMMA StepKinds ==
  ASSUME NEW p \in Procs, ProcessStep(p)
  PROVE  \/ PlanStep(p) \/ ReadMetadata(p) \/ Claim(p) \/ WriteMetadata(p)
         \/ CheckPackage(p) \/ Import(p) \/ Assembled(p)
         \/ ReadReference(p) \/ StoreResolution(p) \/ FillResolution(p)
         \/ AppendReference(p) \/ OpenSession(p) \/ Turn(p)
BY DEF ProcessStep, PlanStep

-----------------------------------------------------------------------------
(* The workspace of a state directory.                                     *)

\* The places between the two plans of nervus-code, and what a plan changes.
Claiming == {"workspace", "claiming", "claimed", "writing"}

PlanFields == {"pc", "chain", "overlays", "checked", "profile", "plan", "digests"}

\* A plan that begins has no Profile yet; only Resolved gives it one, and only a
\* plan with a directory is claimed.
LEMMA PlanKeeps ==
  ASSUME HostShape, NEW p \in Procs, PlanStep(p)
  PROVE  /\ \/ Kept(p, PlanFields)
            \/ /\ proc'[p].pc = "reading" /\ proc'[p].profile = None
               /\ Invocation(p).host = "coding" => ~proc'[p].assembling
         /\ proc'[p].pc = "hashing" \/ proc'[p].profile \in {None, proc[p].profile}
         /\ proc'[p].pc \in Claiming =>
              StateDirectory(p) # None /\ proc[p].pc = "hashing" /\ Kept(p, {"pc"})
<1>1. CASE Start(p)
  <2>1. PICK a : /\ a = (Invocation(p).host = "nervus"
                         /\ Invocation(p).command \notin {"validate", "explain"})
                 /\ proc' = [proc EXCEPT ![p] = Planning(proc[p], a)]
    BY <1>1 DEF Start
  <2>2. Invocation(p).host = "coding" => a = FALSE
    BY <2>1
  <2>3. /\ Planning(proc[p], a).pc = "reading" /\ Planning(proc[p], a).profile = None
        /\ Planning(proc[p], a).assembling = a
    BY DEF Planning, NewProcess
  <2>4. proc'[p] = Planning(proc[p], a)
    BY <2>1 DEF HostShape
  <2> QED BY <2>2, <2>3, <2>4 DEF Claiming
<1>2. CASE ReadSource(p)
  <2>1. /\ proc[p].pc = "reading"
        /\ \/ Goto(p, "failed")
           \/ \E chain : proc' = [proc EXCEPT ![p].chain = chain]
           \/ \E overlays : proc' = [proc EXCEPT ![p].overlays = overlays]
    BY <1>2 DEF ReadSource
  <2>2. \/ proc'[p] = [proc[p] EXCEPT !.pc = "failed"]
        \/ \E chain : proc'[p] = [proc[p] EXCEPT !.chain = chain]
        \/ \E overlays : proc'[p] = [proc[p] EXCEPT !.overlays = overlays]
    BY <2>1 DEF HostShape, Goto
  <2> QED BY <2>1, <2>2 DEF Kept, HostShape, Fields, PlanFields, Claiming
<1>3. CASE Validated(p)
  <2>1. PICK place : place = IF ~Accepted(p) THEN "failed"
                             ELSE IF Invocation(p).command = "validate" THEN "done" ELSE "reading"
    OBVIOUS
  <2>2. place \in {"failed", "done", "reading"}
    BY <2>1
  <2>3. proc' = [proc EXCEPT ![p].pc = place, ![p].plan = LibraryPlan,
                             ![p].checked = <<proc[p].chain, proc[p].overlays>>,
                             ![p].chain = <<>>, ![p].overlays = <<>>]
    BY <1>3, <2>1 DEF Validated
  <2> QED BY <2>2, <2>3, ZenonT(60) DEF Kept, HostShape, Fields, PlanFields, Claiming
<1>4. CASE Resolved(p)
  <2>1. \/ \E profile : proc' = [proc EXCEPT ![p].pc = "hashing", ![p].profile = profile]
        \/ Goto(p, "failed")
    BY <1>4 DEF Resolved
  <2>2. \/ \E profile : proc'[p] = [proc[p] EXCEPT !.pc = "hashing", !.profile = profile]
        \/ proc'[p] = [proc[p] EXCEPT !.pc = "failed"]
    BY <2>1 DEF HostShape, Goto
  <2> QED BY <2>2 DEF Kept, HostShape, Fields, PlanFields, Claiming
<1>5. CASE HashPackage(p)
  <2>1. proc[p].pc = "hashing" /\ \E digests : proc' = [proc EXCEPT ![p].digests = digests]
    BY <1>5 DEF HashPackage
  <2> QED BY <2>1 DEF Kept, HostShape, Fields, PlanFields, Claiming
<1>6. CASE Planned(p)
  <2>1. PICK place : /\ Goto(p, place) /\ proc[p].pc = "hashing"
                     /\ place \in Claiming => StateDirectory(p) # None
                     /\ UNCHANGED situation
    BY <1>6 DEF Planned, Claiming
  <2>2. Kept(p, {"pc"}) /\ proc'[p].pc = place
    BY <2>1, GotoKeeps
  <2>3. Kept(p, PlanFields) /\ proc'[p].profile = proc[p].profile
    BY <2>2 DEF Kept, Fields, PlanFields
  <2> QED BY <2>1, <2>2, <2>3
<1> QED BY <1>1, <1>2, <1>3, <1>4, <1>5, <1>6 DEF PlanStep

\* Whoever claims a directory has one; whoever writes its workspace.json found
\* no file there; whoever assembles has read, or written, its own workspace in
\* the directory that it claimed.
WorkspaceFacts(p) ==
  /\ proc[p].pc \in Claiming => StateDirectory(p) # None
  /\ proc[p].pc = "writing" => metadata[StateDirectory(p)] = "torn"
  /\ Invocation(p).host = "coding" /\ proc[p].assembling =>
       /\ proc[p].claimed.directory \in Directories
       /\ metadata[proc[p].claimed.directory] = Invocation(p).workspace

WritesIn(p, d) == proc[p].pc = "writing" /\ StateDirectory(p) = d

\* Whoever writes is alone in its directory.
WorkspaceInv ==
  /\ DOMAIN metadata = Directories
  /\ \A p \in Procs : WorkspaceFacts(p)
  /\ \A p, q \in Procs : \A d \in Directories : WritesIn(p, d) /\ WritesIn(q, d) => p = q

LEMMA WorkspaceNames ==
  ASSUME HostShape, NEW p \in Procs
  PROVE  Invocation(p).workspace \notin {None, "torn"} /\ Invocation(p).session \in Sessions
BY HostAssumption DEF HostShape, Procs, Invocation

LEMMA ClaimingDirectory ==
  ASSUME HostShape, WorkspaceInv, NEW p \in Procs, proc[p].pc \in Claiming
  PROVE  StateDirectory(p) \in Directories
BY DirectoryIs DEF WorkspaceInv, WorkspaceFacts

LEMMA OthersStay ==
  ASSUME HostShape, NEW p \in Procs, Only(p), NEW q \in Procs, q # p
  PROVE  /\ proc'[q] = proc[q] /\ Invocation(q)' = Invocation(q)
         /\ StateDirectory(q)' = StateDirectory(q)
BY DirectoryStays DEF Only, Invocation

\* A step of p that leaves the files alone, and does not begin to write one.
LEMMA WorkspaceKept ==
  ASSUME HostShape, WorkspaceInv, NEW p \in Procs, Only(p), UNCHANGED metadata,
         proc'[p].pc # "writing", WorkspaceFacts(p)'
  PROVE  WorkspaceInv'
<1>1. Procs' = Procs
  BY DEF Only, Procs
<1>2. ASSUME NEW q \in Procs, q # p PROVE WorkspaceFacts(q)'
  BY <1>2, OthersStay DEF WorkspaceInv, WorkspaceFacts
<1>3. ASSUME NEW q \in Procs, NEW d \in Directories, WritesIn(q, d)' PROVE WritesIn(q, d)
  BY <1>3, OthersStay DEF WritesIn
<1> QED BY <1>1, <1>2, <1>3 DEF WorkspaceInv

\* A step that keeps the plan of p, at a place where nothing is claimed.
LEMMA ClaimStays ==
  ASSUME HostShape, WorkspaceInv, NEW p \in Procs, Only(p), UNCHANGED metadata,
         Kept(p, {"pc", "imported", "exists"}), proc'[p].pc \notin Claiming
  PROVE  WorkspaceInv'
<1>1. /\ proc'[p].assembling = proc[p].assembling /\ proc'[p].claimed = proc[p].claimed
      /\ Invocation(p)' = Invocation(p)
  BY DEF Kept, Fields, Only, Invocation
<1>2. WorkspaceFacts(p)'
  BY <1>1 DEF WorkspaceInv, WorkspaceFacts, Claiming
<1>3. proc'[p].pc # "writing"
  BY DEF Claiming
<1> QED BY <1>2, <1>3, WorkspaceKept

\* A step of p that writes to the file of its directory, where nobody else
\* writes, and whose content was nobody's workspace.
LEMMA FileWritten ==
  ASSUME HostShape, WorkspaceInv, NEW p \in Procs, Only(p), NEW d \in Directories, NEW new,
         metadata' = [metadata EXCEPT ![d] = new], metadata[d] \in {None, "torn"},
         \A q \in Procs : q # p => ~WritesIn(q, d),
         WorkspaceFacts(p)', \A e \in Directories : WritesIn(p, e)' => e = d
  PROVE  WorkspaceInv'
<1>1. Procs' = Procs /\ DOMAIN metadata' = Directories
  BY DEF Only, Procs, WorkspaceInv
<1>2. ASSUME NEW q \in Procs, q # p PROVE WorkspaceFacts(q)'
  <2>1. /\ proc'[q] = proc[q] /\ Invocation(q)' = Invocation(q)
        /\ StateDirectory(q)' = StateDirectory(q)
    BY <1>2, OthersStay
  <2>2. WorkspaceFacts(q) /\ DOMAIN metadata = Directories
    BY DEF WorkspaceInv
  <2>3. proc[q].pc = "writing" => metadata'[StateDirectory(q)] = "torn"
    <3>1. SUFFICES ASSUME proc[q].pc = "writing" PROVE metadata'[StateDirectory(q)] = "torn"
      OBVIOUS
    <3>2. StateDirectory(q) # d /\ StateDirectory(q) \in Directories
      BY <1>2, <3>1, ClaimingDirectory DEF WritesIn, Claiming
    <3> QED BY <2>2, <3>1, <3>2 DEF WorkspaceFacts
  <2>4. Invocation(q).host = "coding" /\ proc[q].assembling =>
          metadata'[proc[q].claimed.directory] = Invocation(q).workspace
    BY <2>2, WorkspaceNames DEF WorkspaceFacts
  <2> QED BY <2>1, <2>2, <2>3, <2>4 DEF WorkspaceFacts
<1>3. ASSUME NEW q \in Procs, q # p, NEW e \in Directories, WritesIn(q, e)'
      PROVE  WritesIn(q, e) /\ e # d
  <2>1. WritesIn(q, e)
    BY <1>3, OthersStay DEF WritesIn
  <2> QED BY <1>3, <2>1
<1>4. ASSUME NEW q \in Procs, NEW r \in Procs, NEW e \in Directories,
             WritesIn(q, e)', WritesIn(r, e)'
      PROVE  q = r
  <2>1. CASE q # p /\ r # p
    BY <1>3, <1>4, <2>1 DEF WorkspaceInv
  <2>2. CASE q = p \/ r = p
    BY <1>3, <1>4, <2>2
  <2> QED BY <2>1, <2>2
<1> QED BY <1>1, <1>2, <1>4 DEF WorkspaceInv

LEMMA WorkspaceStep == HostShape /\ WorkspaceInv /\ [Next]_vars => WorkspaceInv'
<1> SUFFICES ASSUME HostShape, WorkspaceInv, [Next]_vars PROVE WorkspaceInv'
  OBVIOUS
<1>1. ASSUME UNCHANGED <<situation, metadata>>,
             \A p \in Procs : Kept(p, {"raced"})
      PROVE  WorkspaceInv'
  <2>1. Procs' = Procs
    BY <1>1 DEF Procs
  <2>2. ASSUME NEW p \in Procs
        PROVE  /\ WorkspaceFacts(p)'
               /\ \A d \in Directories : WritesIn(p, d)' => WritesIn(p, d)
    <3>1. /\ proc'[p].pc = proc[p].pc /\ proc'[p].profile = proc[p].profile
          /\ proc'[p].assembling = proc[p].assembling /\ proc'[p].claimed = proc[p].claimed
      BY <1>1 DEF Kept, Fields
    <3>2. StateDirectory(p)' = StateDirectory(p) /\ Invocation(p)' = Invocation(p)
      BY <1>1, <3>1, DirectoryStays DEF Invocation
    <3> QED BY <1>1, <3>1, <3>2 DEF WorkspaceInv, WorkspaceFacts, WritesIn
  <2> QED BY <1>1, <2>1, <2>2 DEF WorkspaceInv
<1>2. CASE UNCHANGED vars
  BY <1>1, <1>2 DEF vars, diskVars, Kept
<1>3. CASE Edit
  BY <1>1, <1>3, EditMoves DEF diskVars
<1>4. ASSUME NEW p \in Procs, Crash(p) PROVE WorkspaceInv'
  <2>1. Only(p) /\ Kept(p, {"pc"}) /\ UNCHANGED metadata /\ proc'[p].pc \notin Claiming
    BY <1>4, CrashMoves DEF diskVars, Claiming
  <2> QED BY <2>1, ClaimStays DEF Kept
<1>5. ASSUME NEW p \in Procs, ProcessStep(p) PROVE WorkspaceInv'
  <2>1. CASE PlanStep(p)
    <3>1. Only(p) /\ proc'[p].pc # "writing" /\ UNCHANGED metadata
      BY <2>1, PlanSteps DEF diskVars, PlanPlaces
    <3>2. proc'[p].pc \in Claiming => StateDirectory(p)' # None
      <4>1. SUFFICES ASSUME proc'[p].pc \in Claiming PROVE StateDirectory(p)' # None
        OBVIOUS
      <4>2. StateDirectory(p) # None /\ proc'[p].profile = proc[p].profile
        BY <2>1, <4>1, PlanKeeps DEF Kept, Fields
      <4> QED BY <3>1, <4>2, DirectoryStays DEF Only
    <3>3. Invocation(p).host = "coding" /\ proc'[p].assembling =>
            proc[p].assembling /\ proc'[p].claimed = proc[p].claimed
      BY <2>1, PlanKeeps DEF Kept, Fields, PlanFields
    <3>4. WorkspaceFacts(p)'
      BY <3>1, <3>2, <3>3 DEF WorkspaceInv, WorkspaceFacts, Only, Invocation
    <3> QED BY <3>1, <3>4, WorkspaceKept
  <2>2. CASE ReadMetadata(p)
    <3>1. /\ Only(p) /\ proc'[p].pc # "writing" /\ UNCHANGED metadata
          /\ proc[p].pc \in Claiming /\ Invocation(p)' = Invocation(p)
      BY <2>2, WorkspaceRead DEF diskVars, Claiming, Only, Invocation
    <3>2. CASE Kept(p, {"pc"})
      <4>1. /\ proc'[p].assembling = proc[p].assembling /\ proc'[p].claimed = proc[p].claimed
            /\ proc'[p].profile = proc[p].profile
        BY <3>2 DEF Kept, Fields
      <4>2. StateDirectory(p)' = StateDirectory(p)
        BY <3>1, <4>1, DirectoryStays DEF Only
      <4>3. WorkspaceFacts(p)'
        BY <3>1, <4>1, <4>2 DEF WorkspaceInv, WorkspaceFacts
      <4> QED BY <3>1, <4>3, WorkspaceKept
    <3>3. CASE proc'[p] = Claimed(p) /\ metadata[StateDirectory(p)] = Invocation(p).workspace
      <4>1. proc'[p].claimed.directory = StateDirectory(p) /\ proc'[p].pc = "reading"
        BY <3>3, ClaimedFacts
      <4>2. WorkspaceFacts(p)'
        BY <3>1, <3>3, <4>1, ClaimingDirectory DEF WorkspaceFacts, Claiming
      <4> QED BY <3>1, <4>2, WorkspaceKept
    <3> QED BY <2>2, <3>2, <3>3, WorkspaceRead
  <2>3. CASE Claim(p)
    <3>1. /\ Only(p) /\ Kept(p, {"pc"}) /\ proc[p].pc = "claiming"
          /\ proc'[p].assembling = proc[p].assembling /\ proc'[p].claimed = proc[p].claimed
          /\ proc'[p].profile = proc[p].profile /\ Invocation(p)' = Invocation(p)
      BY <2>3, Moves DEF Claim, MovesOn, Kept, Fields, Only, Invocation
    <3>2. PICK d \in Directories : d = StateDirectory(p)
      BY <3>1, ClaimingDirectory DEF Claiming
    <3>3. StateDirectory(p)' = d
      BY <3>1, <3>2, DirectoryStays DEF Only
    <3>4. d # None
      BY DirectoryAssumption
    <3>5. CASE metadata[d] # None
      <4>1. UNCHANGED metadata /\ proc'[p].pc = "claimed"
        BY <2>3, <3>2, <3>5, GotoKeeps DEF Claim
      <4>2. WorkspaceFacts(p)'
        BY <3>1, <3>3, <3>4, <4>1 DEF WorkspaceInv, WorkspaceFacts
      <4> QED BY <3>1, <4>1, <4>2, WorkspaceKept
    <3>6. CASE metadata[d] = None
      <4>1. /\ metadata' = [metadata EXCEPT ![d] = "torn"] /\ DOMAIN metadata = Directories
            /\ proc'[p].pc = "writing"
        BY <2>3, <3>2, <3>6, GotoKeeps DEF Claim, WorkspaceInv
      <4>2. \A q \in Procs : ~WritesIn(q, d)
        BY <3>6, HostAssumption DEF WorkspaceInv, WorkspaceFacts, WritesIn
      <4>3. WorkspaceFacts(p)'
        BY <3>1, <3>3, <3>4, <3>6, <4>1, WorkspaceNames DEF WorkspaceInv, WorkspaceFacts
      <4>4. \A e \in Directories : WritesIn(p, e)' => e = d
        BY <3>3 DEF WritesIn
      <4> QED BY <3>1, <3>6, <4>1, <4>2, <4>3, <4>4, FileWritten
    <3> QED BY <3>5, <3>6
  <2>4. CASE WriteMetadata(p)
    <3>1. Only(p) /\ proc[p].pc = "writing" /\ proc'[p] = Claimed(p)
      BY <2>4, MetadataWritten
    <3>2. PICK d \in Directories : d = StateDirectory(p)
      BY <3>1, ClaimingDirectory DEF Claiming
    <3>3. /\ metadata' = [metadata EXCEPT ![d] = Invocation(p).workspace]
          /\ DOMAIN metadata = Directories /\ Invocation(p)' = Invocation(p)
      BY <2>4, <3>1, <3>2, MetadataWritten DEF WorkspaceInv, Only, Invocation
    <3>4. metadata[d] = "torn" /\ \A q \in Procs : q # p => ~WritesIn(q, d)
      BY <3>1, <3>2 DEF WorkspaceInv, WorkspaceFacts, WritesIn
    <3>5. proc'[p].claimed.directory = d /\ proc'[p].pc = "reading"
      BY <3>1, <3>2, ClaimedFacts
    <3>6. WorkspaceFacts(p)'
      BY <3>3, <3>5 DEF WorkspaceFacts, Claiming
    <3>7. \A e \in Directories : WritesIn(p, e)' => e = d
      BY <3>5 DEF WritesIn
    <3> QED BY <3>1, <3>3, <3>4, <3>6, <3>7, FileWritten
  <2>5. CASE Import(p) \/ Assembled(p)
    <3>1. /\ Only(p) /\ UNCHANGED metadata /\ proc'[p].pc \notin Claiming
          /\ Kept(p, {"pc", "imported", "exists"})
      BY <2>5, Imports, AssembledMoves DEF Kept, Claiming, diskVars
    <3> QED BY <3>1, ClaimStays
  <2>6. CASE CheckPackage(p) \/ ReadReference(p) \/ StoreResolution(p) \/ FillResolution(p)
             \/ AppendReference(p) \/ OpenSession(p) \/ Turn(p)
    <3>1. Only(p) /\ Kept(p, {"pc", "imported", "exists"})
      BY <2>6, Moves DEF MovesOn, Kept
    <3>2. UNCHANGED metadata
      BY <2>6 DEF CheckPackage, ReadReference, StoreResolution, FillResolution,
                  AppendReference, OpenSession, Turn, diskVars
    <3>3. UNCHANGED situation /\ \E place : place \notin Claiming /\ Goto(p, place)
      <4>1. CASE CheckPackage(p) \/ ReadReference(p) \/ StoreResolution(p)
        BY <4>1 DEF CheckPackage, ReadReference, StoreResolution, Claiming
      <4>2. CASE FillResolution(p) \/ AppendReference(p) \/ OpenSession(p) \/ Turn(p)
        BY <4>2 DEF FillResolution, AppendReference, OpenSession, Turn, Claiming
      <4> QED BY <2>6, <4>1, <4>2
    <3>4. proc'[p].pc \notin Claiming
      BY <3>3, GotoKeeps
    <3> QED BY <3>1, <3>2, <3>4, ClaimStays
  <2> QED BY <1>5, <2>1, <2>2, <2>3, <2>4, <2>5, <2>6, StepKinds
<1> QED BY <1>2, <1>3, <1>4, <1>5 DEF Next

LEMMA WorkspaceInit == Init => WorkspaceInv
BY DEF Init, WorkspaceInv, WorkspaceFacts, WritesIn, NewProcess, Claiming

-----------------------------------------------------------------------------
(* What is imported.                                                       *)

\* The places of a process that has imported nothing yet.
BeforeLoading ==
  {"start", "reading", "hashing", "workspace", "claiming", "claimed", "writing"}

Checked(p) == Code(NextPackage(p)) = proc[p].digests[Len(proc[p].imported) + 1]

\* Between its check and its import, a package has the code that was planned,
\* unless it is edited there.
ImportFacts(p) ==
  /\ IsList(proc[p].imported)
  /\ proc[p].pc \in BeforeLoading => proc[p].imported = <<>>
  /\ proc[p].pc = "importing" => Checked(p) \/ proc[p].raced
  /\ \A k \in DOMAIN proc[p].imported :
       proc[p].imported[k] = proc[p].digests[k] \/ proc[p].raced

ImportInv == \A p \in Procs : ImportFacts(p)

\* An edit of a file, or of another package, leaves the code of a package as it is.
LEMMA CodeKept ==
  ASSUME HostShape, Edit, NEW id,
         ~("package" \in DOMAIN situation.edits[edited + 1]
           /\ situation.edits[edited + 1].package = id)
  PROVE  Code(id)' = Code(id)
<1>1. edited' = edited + 1 /\ UNCHANGED situation /\ edited \in Nat
  BY DEF Edit, HostShape
<1>2. {k \in 1..edited' : "package" \in DOMAIN situation'.edits[k]
                          /\ situation'.edits[k].package = id}
        = {k \in 1..edited : "package" \in DOMAIN situation.edits[k]
                             /\ situation.edits[k].package = id}
  BY <1>1
<1> QED BY <1>2 DEF Code

LEMMA EmptyImports ==
  ASSUME NEW p, proc[p].imported = <<>>, proc[p].pc # "importing"
  PROVE  ImportFacts(p)
BY EmptyIsList DEF ImportFacts

\* A step of p that imports nothing.
LEMMA ImportsKept ==
  ASSUME HostShape, ImportInv, NEW p \in Procs, Only(p), UNCHANGED <<situation, edited>>,
         ImportFacts(p)'
  PROVE  ImportInv'
<1>1. ASSUME NEW q \in Procs, q # p PROVE ImportFacts(q)'
  <2>1. proc'[q] = proc[q]
    BY <1>1 DEF Only
  <2>2. Checked(q)' = Checked(q)
    BY <2>1 DEF Checked, Code, NextPackage
  <2> QED BY <2>1, <2>2 DEF ImportFacts, ImportInv
<1>2. Procs' = Procs
  BY DEF Procs
<1> QED BY <1>1, <1>2 DEF ImportInv

LEMMA PlaceImports ==
  ASSUME HostShape, ImportInv, NEW p \in Procs, Kept(p, {"pc", "exists"}), proc'[p].pc # "importing",
         proc'[p].pc \in BeforeLoading => proc[p].pc \in BeforeLoading
  PROVE  ImportFacts(p)'
BY DEF ImportFacts, ImportInv, Kept, Fields

LEMMA ImportStep == HostShape /\ ImportInv /\ [Next]_vars => ImportInv'
<1> SUFFICES ASSUME HostShape, ImportInv, [Next]_vars PROVE ImportInv'
  OBVIOUS
<1>1. CASE UNCHANGED vars
  BY <1>1 DEF vars, ImportInv, ImportFacts, Checked, Code, NextPackage, Procs
<1>2. CASE Edit
  <2>1. Procs' = Procs
    BY <1>2, EditMoves DEF Procs
  <2>2. ASSUME NEW q \in Procs PROVE ImportFacts(q)'
    <3>1. /\ proc'[q].pc = proc[q].pc /\ proc'[q].imported = proc[q].imported
          /\ proc'[q].digests = proc[q].digests /\ proc'[q].plan = proc[q].plan
          /\ proc'[q].raced = (proc[q].raced \/ Importing(q, situation.edits[edited + 1]))
      BY <1>2, EditMoves DEF Kept, Fields
    <3>2. NextPackage(q)' = NextPackage(q)
      BY <3>1 DEF NextPackage
    <3>3. proc[q].raced => proc'[q].raced
      BY <3>1
    <3>4. proc[q].pc = "importing" => Checked(q)' \/ proc'[q].raced
      <4>1. SUFFICES ASSUME proc[q].pc = "importing", ~proc'[q].raced PROVE Checked(q)'
        OBVIOUS
      <4>2. ~Importing(q, situation.edits[edited + 1]) /\ Checked(q)
        BY <3>1, <3>3, <4>1 DEF ImportInv, ImportFacts
      <4>3. Code(NextPackage(q))' = Code(NextPackage(q))
        <5>1. PICK id : id = NextPackage(q)
          OBVIOUS
        <5>2. Code(id)' = Code(id)
          BY <1>2, <4>1, <4>2, <5>1, CodeKept DEF Importing
        <5> QED BY <3>2, <5>1, <5>2 DEF Code
      <4> QED BY <3>1, <4>2, <4>3 DEF Checked
    <3> QED BY <3>1, <3>3, <3>4 DEF ImportInv, ImportFacts
  <2> QED BY <2>1, <2>2 DEF ImportInv
<1>3. ASSUME NEW p \in Procs, Crash(p) PROVE ImportInv'
  <2>1. /\ Only(p) /\ Kept(p, {"pc", "exists"}) /\ proc'[p].pc = "crashed"
        /\ UNCHANGED <<situation, edited>>
    BY <1>3, CrashMoves DEF Kept
  <2>2. ImportFacts(p)'
    BY <2>1, PlaceImports DEF BeforeLoading
  <2> QED BY <2>1, <2>2, ImportsKept
<1>4. ASSUME NEW p \in Procs, ProcessStep(p) PROVE ImportInv'
  <2>1. CASE PlanStep(p) \/ ReadMetadata(p) \/ WriteMetadata(p)
    <3>1. /\ Only(p) /\ UNCHANGED <<situation, edited>> /\ proc[p].pc \in BeforeLoading
          /\ proc'[p].pc # "importing" /\ proc'[p].imported \in {<<>>, proc[p].imported}
      <4>1. CASE PlanStep(p)
        BY <4>1, PlanSteps DEF BeforeLoading, PlanPlaces
      <4>2. CASE ReadMetadata(p)
        BY <4>2, WorkspaceRead, ClaimedFacts DEF BeforeLoading, Kept, Fields
      <4>3. CASE WriteMetadata(p)
        BY <4>3, MetadataWritten, ClaimedFacts DEF BeforeLoading
      <4> QED BY <2>1, <4>1, <4>2, <4>3
    <3>2. proc'[p].imported = <<>>
      BY <3>1 DEF ImportInv, ImportFacts
    <3>3. ImportFacts(p)'
      BY <3>1, <3>2, EmptyIsList DEF ImportFacts
    <3> QED BY <3>1, <3>3, ImportsKept
  <2>2. CASE CheckPackage(p)
    <3>1. Only(p) /\ Kept(p, {"pc"}) /\ UNCHANGED <<situation, edited>>
      BY <2>2, Moves DEF MovesOn
    <3>2. proc[p].pc = "loading" /\ proc'[p].pc = IF Checked(p) THEN "importing" ELSE "failed"
      BY <2>2, GotoKeeps DEF CheckPackage, Checked
    <3>3. Checked(p)' = Checked(p)
      BY <3>1, ZenonT(60) DEF Checked, Code, NextPackage, Kept, Fields
    <3>4. ImportFacts(p)'
      <4>1. /\ proc'[p].imported = proc[p].imported /\ proc'[p].digests = proc[p].digests
            /\ proc'[p].raced = proc[p].raced
        BY <3>1 DEF Kept, Fields
      <4>2. proc'[p].pc = "importing" => Checked(p)
        BY <3>2
      <4>3. proc'[p].pc \notin BeforeLoading
        BY <3>2 DEF BeforeLoading
      <4> QED BY <3>3, <4>1, <4>2, <4>3 DEF ImportInv, ImportFacts
    <3> QED BY <3>1, <3>4, ImportsKept
  <2>3. CASE Import(p)
    <3>1. /\ Only(p) /\ UNCHANGED <<situation, edited>>
          /\ proc[p].pc = "importing" /\ proc'[p].pc = "loading"
          /\ proc'[p].digests = proc[p].digests /\ proc'[p].raced = proc[p].raced
          /\ proc'[p].imported = Append(proc[p].imported, Code(NextPackage(p)))
      BY <2>3, Imports DEF Kept, Fields
    <3>2. PICK old, new, code :
            /\ old = proc[p].imported /\ new = proc'[p].imported /\ code = Code(NextPackage(p))
      OBVIOUS
    <3>3. /\ IsList(new) /\ DOMAIN new = DOMAIN old \cup {Len(new)} /\ new[Len(new)] = code
          /\ Len(new) = Len(old) + 1 /\ \A k \in DOMAIN old : new[k] = old[k]
      <4>1. new = Append(old, code) /\ IsList(old)
        BY <3>1, <3>2 DEF ImportInv, ImportFacts
      <4>2. IsList(new) /\ Extends(old, new)
        BY ONLY <4>1, Appended
      <4>3. Len(new) = Len(old) + 1 /\ DOMAIN new = DOMAIN old \cup {Len(new)}
        BY ONLY <4>1, Appended
      <4>4. new[Len(new)] = code
        BY ONLY <4>1, Appended
      <4> QED BY <4>2, <4>3, <4>4 DEF Extends
    <3>4. code = proc[p].digests[Len(new)] \/ proc[p].raced
      BY <3>1, <3>2, <3>3 DEF ImportInv, ImportFacts, Checked
    <3>5. \A k \in DOMAIN new : new[k] = proc[p].digests[k] \/ proc[p].raced
      BY <3>2, <3>3, <3>4 DEF ImportInv, ImportFacts
    <3>6. ImportFacts(p)'
      BY <3>1, <3>2, <3>3, <3>5 DEF ImportFacts, BeforeLoading
    <3> QED BY <3>1, <3>6, ImportsKept
  <2>4. CASE Assembled(p)
    <3>1. /\ Only(p) /\ Kept(p, {"pc", "exists"})
          /\ proc'[p].pc \in {"failed", "done", "recording"}
          /\ UNCHANGED <<situation, edited>>
      BY <2>4, AssembledMoves
    <3>2. ImportFacts(p)'
      BY <3>1, PlaceImports DEF BeforeLoading
    <3> QED BY <3>1, <3>2, ImportsKept
  <2>5. CASE Claim(p) \/ ReadReference(p) \/ StoreResolution(p) \/ FillResolution(p)
             \/ AppendReference(p) \/ OpenSession(p) \/ Turn(p)
    <3>1. Only(p) /\ Kept(p, {"pc", "exists"}) /\ UNCHANGED <<situation, edited>>
      BY <2>5, Moves DEF MovesOn, Kept
    <3>2. \E place : /\ place # "importing" /\ Goto(p, place)
                     /\ place \in BeforeLoading => proc[p].pc \in BeforeLoading
      <4>1. CASE Claim(p)
        BY <4>1 DEF Claim, BeforeLoading
      <4>2. CASE ReadReference(p) \/ StoreResolution(p)
        BY <4>2 DEF ReadReference, StoreResolution, BeforeLoading
      <4>3. CASE FillResolution(p) \/ AppendReference(p) \/ OpenSession(p) \/ Turn(p)
        BY <4>3 DEF FillResolution, AppendReference, OpenSession, Turn, BeforeLoading
      <4> QED BY <2>5, <4>1, <4>2, <4>3
    <3>3. proc'[p].pc # "importing"
          /\ (proc'[p].pc \in BeforeLoading => proc[p].pc \in BeforeLoading)
      BY <3>1, <3>2, GotoKeeps
    <3>4. ImportFacts(p)'
      BY <3>1, <3>3, PlaceImports
    <3> QED BY <3>1, <3>4, ImportsKept
  <2> QED BY <1>4, <2>1, <2>2, <2>3, <2>4, <2>5, StepKinds
<1> QED BY <1>1, <1>2, <1>3, <1>4 DEF Next

\* instantiateCapabilityPlan: the code that is imported has the digest that was
\* planned, unless the package is edited between its last check and its import.
THEOREM ImportsWhatWasPlanned == Spec => []RunsWhatItRecorded
<1>1. Init => HostShape /\ ImportInv
  <2>1. Init => ImportInv
    <3>1. SUFFICES ASSUME Init, NEW p \in Procs PROVE ImportFacts(p)
      BY DEF ImportInv
    <3>2. proc[p].imported = <<>> /\ proc[p].pc # "importing"
      BY <3>1 DEF Init, NewProcess
    <3> QED BY <3>2, EmptyImports
  <2> QED BY <2>1, InitShape
<1>2. HostShape /\ ImportInv /\ [Next]_vars => HostShape' /\ ImportInv'
  BY ShapeStep, ImportStep
<1>3. ImportInv => RunsWhatItRecorded
  BY DEF ImportInv, ImportFacts, RunsWhatItRecorded
<1> QED BY <1>1, <1>2, <1>3, PTL DEF Spec

-----------------------------------------------------------------------------
(* What a process has done to a Session can be attributed.                 *)

Places == Directories \X Sessions

\* The places of a process that works on a Session of a directory.
Recording == {"recording", "storing", "filling", "appending", "opening", "open"}

\* A reference of Session s by p, for this Agent.
Referenced(s, p, agent) ==
  \E r \in DOMAIN references[s] : references[s][r].by = p /\ references[s][r].agent = agent

\* What a process has written by the time it is at its place.
WrittenBy(p) ==
  /\ proc[p].pc \in Recording => StateDirectory(p) # None
  /\ proc[p].pc \in {"filling", "appending"} => Resolution(p) \in DOMAIN resolutions
  /\ proc[p].pc \in {"opening", "open"} => Referenced(Place(p), p, AgentOf(p))
  /\ proc[p].pc = "open" =>
       /\ 1 \in DOMAIN history[Place(p)]
       /\ history[Place(p)][1].agent = AgentOf(p)
  /\ proc[p].pc \in {"recording", "storing", "filling", "appending", "opening"}
     /\ proc[p].exists => 1 \in DOMAIN history[Place(p)]

\* A file that is not whole is being filled, unless somebody crashed.
ResolutionsFilled ==
  \A x \in DOMAIN resolutions : resolutions[x] = "whole" \/ crashes > 0 \/ BeingFilled(x)

ReferencesStored ==
  \A s \in Places : \A r \in DOMAIN references[s] :
    references[s][r].resolution \in DOMAIN resolutions

EventsAttributed ==
  \A s \in Places : \A k \in DOMAIN history[s] :
    /\ history[s][k].agent = history[s][1].agent
    /\ Referenced(s, history[s][k].by, history[s][k].agent)

DiskShape ==
  /\ DOMAIN references = Places /\ DOMAIN history = Places
  /\ \A s \in Places : IsList(references[s]) /\ IsList(history[s])

AttributionInv ==
  /\ DiskShape /\ ResolutionsFilled /\ ReferencesStored /\ EventsAttributed
  /\ \A p \in Procs : WrittenBy(p)

\* Nothing of what is on disk is taken back.
DiskGrows ==
  /\ DOMAIN resolutions \subseteq DOMAIN resolutions'
  /\ \A s \in Places :
       Extends(references[s], references'[s]) /\ Extends(history[s], history'[s])

LEMMA ExtendsItself == \A s : Extends(s, s)
BY DEF Extends

LEMMA ReferencedStays ==
  ASSUME NEW s \in Places, NEW p, NEW agent, DiskGrows, Referenced(s, p, agent)
  PROVE  Referenced(s, p, agent)'
BY DEF Referenced, DiskGrows, Extends

LEMMA PlaceIs ==
  ASSUME HostShape, AttributionInv, NEW p \in Procs, proc[p].pc \in Recording
  PROVE  Place(p) \in Places
<1>1. StateDirectory(p) \in Directories
  BY DirectoryIs DEF AttributionInv, WrittenBy
<1> QED BY <1>1, WorkspaceNames DEF Place, Places

LEMMA PlaceStays ==
  ASSUME UNCHANGED situation, NEW p, proc'[p].profile = proc[p].profile
  PROVE  StateDirectory(p)' = StateDirectory(p) /\ Place(p)' = Place(p)
<1>1. StateDirectory(p)' = StateDirectory(p)
  BY DirectoryStays
<1> QED BY <1>1 DEF Place, Invocation

\* What a process that does not step has written stays written.
LEMMA WrittenStays ==
  ASSUME HostShape, AttributionInv, NEW q \in Procs, proc'[q] = proc[q], UNCHANGED situation,
         DiskGrows
  PROVE  WrittenBy(q)'
<1>1. Place(q)' = Place(q) /\ StateDirectory(q)' = StateDirectory(q)
  BY PlaceStays
<1>2. Resolution(q)' = Resolution(q) /\ AgentOf(q)' = AgentOf(q)
  BY <1>1 DEF Resolution, AgentOf, Invocation
<1>3. CASE proc[q].pc \in Recording
  <2>1. Place(q) \in Places /\ WrittenBy(q)
    BY <1>3, PlaceIs DEF AttributionInv
  <2>2. proc[q].pc \in {"opening", "open"} => Referenced(Place(q), q, AgentOf(q))'
    BY <1>1, <1>2, <2>1, ReferencedStays DEF WrittenBy, Referenced
  <2>3. 1 \in DOMAIN history[Place(q)] =>
          /\ 1 \in DOMAIN history'[Place(q)]
          /\ history'[Place(q)][1] = history[Place(q)][1]
    BY <2>1 DEF DiskGrows, Extends
  <2>4. DOMAIN resolutions \subseteq DOMAIN resolutions'
    BY DEF DiskGrows
  <2> QED BY <1>1, <1>2, <2>1, <2>2, <2>3, <2>4 DEF WrittenBy, Referenced
<1>4. CASE proc[q].pc \notin Recording
  BY <1>4 DEF WrittenBy, Recording
<1> QED BY <1>3, <1>4

\* Steps of p that leave Resolution, AgentOf and Place as they are.
LEMMA SameNames ==
  ASSUME NEW p \in Procs, MovesOn(p)
  PROVE  /\ Resolution(p)' = Resolution(p) /\ AgentOf(p)' = AgentOf(p)
         /\ Place(p)' = Place(p) /\ StateDirectory(p)' = StateDirectory(p)
<1>1. /\ UNCHANGED situation /\ proc'[p].profile = proc[p].profile
      /\ proc'[p].plan = proc[p].plan /\ proc'[p].digests = proc[p].digests
  BY DEF MovesOn, Only, Kept, Fields
<1>2. Place(p)' = Place(p) /\ StateDirectory(p)' = StateDirectory(p)
  BY <1>1, PlaceStays
<1> QED BY <1>1, <1>2 DEF Resolution, AgentOf, Invocation

\* A step within the recording places has a place, and keeps it.
LEMMA PlaceKept ==
  ASSUME HostShape, AttributionInv, NEW p \in Procs, MovesOn(p), proc[p].pc \in Recording
  PROVE  StateDirectory(p)' # None
BY SameNames DEF AttributionInv, WrittenBy

\* A file that somebody other than p fills is still being filled.
LEMMA FilledByOthers ==
  ASSUME NEW p \in Procs, Only(p), proc[p].pc # "filling", NEW x, BeingFilled(x)
  PROVE  BeingFilled(x)'
<1>1. PICK q \in Procs : proc[q].pc = "filling" /\ Resolution(q) = x
  BY DEF BeingFilled
<1>2. proc'[q] = proc[q] /\ UNCHANGED situation
  BY <1>1 DEF Only
<1>3. StateDirectory(q)' = StateDirectory(q)
  BY <1>2, PlaceStays
<1>4. q \in Procs' /\ proc'[q].pc = "filling" /\ Resolution(q)' = x
  BY <1>1, <1>2, <1>3 DEF Procs, Resolution, Invocation
<1> QED BY <1>4 DEF BeingFilled

\* A step of p that leaves the disk alone.
LEMMA AttributionKept ==
  ASSUME HostShape, AttributionInv, NEW p \in Procs, Only(p), UNCHANGED diskVars,
         crashes' > 0 \/ (crashes' = crashes /\ proc[p].pc # "filling"), WrittenBy(p)'
  PROVE  AttributionInv'
<1>1. /\ UNCHANGED <<situation, resolutions, references, history>>
      /\ Procs' = Procs
  BY DEF Only, diskVars, Procs
<1>2. DiskShape' /\ ReferencesStored' /\ EventsAttributed'
  BY <1>1 DEF AttributionInv, DiskShape, ReferencesStored, EventsAttributed, Referenced
<1>3. ResolutionsFilled'
  <2>1. CASE crashes' > 0
    BY <2>1 DEF ResolutionsFilled
  <2>2. CASE crashes' = crashes /\ proc[p].pc # "filling"
    <3>1. ASSUME NEW x \in DOMAIN resolutions
          PROVE  resolutions[x] = "whole" \/ crashes' > 0 \/ BeingFilled(x)'
      BY <2>2, FilledByOthers DEF AttributionInv, ResolutionsFilled
    <3> QED BY <1>1, <3>1 DEF ResolutionsFilled
  <2> QED BY <2>1, <2>2
<1>4. ASSUME NEW q \in Procs PROVE WrittenBy(q)'
  <2>1. CASE q = p
    BY <2>1
  <2>2. CASE q # p
    <3>1. proc'[q] = proc[q]
      BY <2>2 DEF Only
    <3>2. DiskGrows
      BY <1>1, ExtendsItself DEF DiskGrows
    <3> QED BY <1>1, <3>1, <3>2, WrittenStays DEF AttributionInv
  <2> QED BY <2>1, <2>2
<1> QED BY <1>1, <1>2, <1>3, <1>4 DEF AttributionInv

\* Before it records anything, a process has nothing to show.
LEMMA NothingWritten ==
  ASSUME NEW p, proc'[p].pc \in BeforeLoading \cup {"loading", "importing", "done", "failed", "crashed"}
  PROVE  WrittenBy(p)'
BY DEF WrittenBy, BeforeLoading, Recording

\* A step of p that writes: what it adds has to be accounted for.
LEMMA AttributionGrows ==
  ASSUME HostShape, AttributionInv, NEW p \in Procs, Only(p), DiskGrows,
         DiskShape', ResolutionsFilled', ReferencesStored', EventsAttributed', WrittenBy(p)'
  PROVE  AttributionInv'
<1>1. Procs' = Procs /\ UNCHANGED situation
  BY DEF Only, Procs
<1>2. ASSUME NEW q \in Procs, q # p PROVE WrittenBy(q)'
  <2>1. proc'[q] = proc[q]
    BY <1>2 DEF Only
  <2> QED BY <1>1, <2>1, WrittenStays DEF AttributionInv
<1> QED BY <1>1, <1>2 DEF AttributionInv

LEMMA EventsStayAttributed ==
  ASSUME AttributionInv, DiskGrows, NEW s \in Places, NEW k \in DOMAIN history[s],
         1 \in DOMAIN history[s]
  PROVE  /\ history'[s][k].agent = history'[s][1].agent
         /\ \E r \in DOMAIN references'[s] :
              /\ references'[s][r].by = history'[s][k].by
              /\ references'[s][r].agent = history'[s][k].agent
<1>1. history'[s][k] = history[s][k] /\ history'[s][1] = history[s][1]
  BY DEF DiskGrows, Extends
<1>2. PICK r \in DOMAIN references[s] :
        /\ references[s][r].by = history[s][k].by
        /\ references[s][r].agent = history[s][k].agent
  BY DEF AttributionInv, EventsAttributed, Referenced
<1>3. r \in DOMAIN references'[s] /\ references'[s][r] = references[s][r]
  BY DEF DiskGrows, Extends
<1>4. history[s][k].agent = history[s][1].agent
  BY DEF AttributionInv, EventsAttributed
<1> QED BY <1>1, <1>2, <1>3, <1>4

LEMMA StoredInv ==
  ASSUME HostShape, AttributionInv, NEW p \in Procs, StoreResolution(p)
  PROVE  AttributionInv'
<1>1. MovesOn(p) /\ Only(p)
  BY Moves DEF MovesOn
<1>2. /\ proc[p].pc = "storing" /\ UNCHANGED <<situation, crashes, metadata, references, history>>
  BY DEF StoreResolution
<1>3. PICK x : x = Resolution(p) /\ x = Resolution(p)'
  BY <1>1, SameNames
<1>4. /\ proc'[p].exists = proc[p].exists /\ Place(p)' = Place(p)
      /\ StateDirectory(p)' # None
  BY <1>1, <1>2, SameNames, PlaceKept DEF MovesOn, Kept, Fields, Recording
<1>5. CASE x \in DOMAIN resolutions
  <2>1. UNCHANGED resolutions /\ proc'[p].pc = "appending"
    BY <1>3, <1>5, GotoKeeps DEF StoreResolution
  <2>2. WrittenBy(p)'
    BY <1>2, <1>3, <1>4, <1>5, <2>1 DEF AttributionInv, WrittenBy
  <2> QED BY <1>1, <1>2, <2>1, <2>2, AttributionKept DEF diskVars
<1>6. CASE x \notin DOMAIN resolutions
  <2>1. /\ resolutions' = [r \in DOMAIN resolutions \cup {x} |->
                             IF r \in DOMAIN resolutions THEN resolutions[r] ELSE "torn"]
        /\ proc'[p].pc = "filling"
    BY <1>3, <1>6, GotoKeeps DEF StoreResolution
  <2>2. DiskGrows
    BY <1>2, <2>1, ExtendsItself DEF DiskGrows
  <2>3. DiskShape' /\ EventsAttributed'
    BY <1>2 DEF AttributionInv, DiskShape, EventsAttributed, Referenced
  <2>4. ReferencesStored'
    BY <1>2, <2>1 DEF AttributionInv, ReferencesStored
  <2>5. WrittenBy(p)'
    BY <1>2, <1>3, <1>4, <2>1 DEF AttributionInv, WrittenBy
  <2>6. ResolutionsFilled'
    <3>1. BeingFilled(x)'
      BY <1>1, <1>3, <2>1 DEF BeingFilled, Only, Procs
    <3>2. ASSUME NEW y \in DOMAIN resolutions
          PROVE  resolutions'[y] = "whole" \/ crashes' > 0 \/ BeingFilled(y)'
      <4>1. resolutions'[y] = resolutions[y]
        BY <2>1
      <4> QED BY <1>1, <1>2, <4>1, FilledByOthers DEF AttributionInv, ResolutionsFilled
    <3>3. DOMAIN resolutions' = DOMAIN resolutions \cup {x}
      BY <2>1
    <3>4. SUFFICES ASSUME NEW y \in DOMAIN resolutions'
                   PROVE  resolutions'[y] = "whole" \/ crashes' > 0 \/ BeingFilled(y)'
      BY DEF ResolutionsFilled, BeingFilled
    <3>5. CASE y = x
      BY <3>1, <3>5 DEF BeingFilled
    <3>6. CASE y \in DOMAIN resolutions
      BY <3>2, <3>6
    <3> QED BY <3>3, <3>4, <3>5, <3>6
  <2> QED BY <1>1, <2>2, <2>3, <2>4, <2>5, <2>6, AttributionGrows
<1> QED BY <1>5, <1>6

LEMMA FilledInv ==
  ASSUME HostShape, AttributionInv, NEW p \in Procs, FillResolution(p)
  PROVE  AttributionInv'
<1>1. MovesOn(p) /\ Only(p)
  BY Moves DEF MovesOn
<1>2. /\ proc[p].pc = "filling" /\ proc'[p].pc = "appending"
      /\ UNCHANGED <<situation, crashes, metadata, references, history>>
  BY GotoKeeps DEF FillResolution
<1>3. PICK x : x = Resolution(p) /\ x = Resolution(p)' /\ x \in DOMAIN resolutions
  BY <1>1, <1>2, SameNames DEF AttributionInv, WrittenBy
<1>4. /\ proc'[p].exists = proc[p].exists /\ Place(p)' = Place(p)
      /\ StateDirectory(p)' # None
  BY <1>1, <1>2, SameNames, PlaceKept DEF MovesOn, Kept, Fields, Recording
<1>5. resolutions' = [resolutions EXCEPT ![x] = "whole"]
  BY <1>3 DEF FillResolution
<1>6. DOMAIN resolutions' = DOMAIN resolutions /\ resolutions'[x] = "whole"
  BY <1>3, <1>5
<1>7. DiskGrows
  BY <1>2, <1>6, ExtendsItself DEF DiskGrows
<1>8. DiskShape' /\ EventsAttributed' /\ ReferencesStored'
  BY <1>2, <1>6 DEF AttributionInv, DiskShape, EventsAttributed, Referenced, ReferencesStored
<1>9. WrittenBy(p)'
  BY <1>2, <1>3, <1>4, <1>6 DEF AttributionInv, WrittenBy
<1>10. ResolutionsFilled'
  <2>1. SUFFICES ASSUME NEW y \in DOMAIN resolutions'
                 PROVE  resolutions'[y] = "whole" \/ crashes' > 0 \/ BeingFilled(y)'
    BY DEF ResolutionsFilled, BeingFilled
  <2>2. CASE y = x
    BY <1>6, <2>2
  <2>3. CASE y # x
    <3>1. resolutions'[y] = resolutions[y] /\ y \in DOMAIN resolutions
      BY <1>5, <1>6, <2>3
    <3>2. CASE BeingFilled(y)
      <4>1. PICK q \in Procs : proc[q].pc = "filling" /\ Resolution(q) = y
        BY <3>2 DEF BeingFilled
      <4>2. proc'[q] = proc[q] /\ q \in Procs'
        BY <1>1, <1>3, <2>3, <4>1 DEF Only, Procs
      <4>3. Resolution(q)' = y
        BY <1>2, <4>1, <4>2, PlaceStays DEF Resolution, Invocation
      <4> QED BY <4>1, <4>2, <4>3 DEF BeingFilled
    <3>3. CASE resolutions[y] = "whole" \/ crashes > 0
      BY <1>2, <3>1, <3>3
    <3> QED BY <3>1, <3>2, <3>3 DEF AttributionInv, ResolutionsFilled
  <2> QED BY <2>2, <2>3
<1> QED BY <1>1, <1>7, <1>8, <1>9, <1>10, AttributionGrows

\* A step of p that is not about resolutions.
LEMMA ResolutionsKept ==
  ASSUME AttributionInv, NEW p \in Procs, Only(p), proc[p].pc # "filling",
         UNCHANGED <<crashes, resolutions>>
  PROVE  ResolutionsFilled'
<1>1. ASSUME NEW x \in DOMAIN resolutions
      PROVE  resolutions[x] = "whole" \/ crashes' > 0 \/ BeingFilled(x)'
  BY FilledByOthers DEF AttributionInv, ResolutionsFilled
<1> QED BY <1>1 DEF ResolutionsFilled

LEMMA ReferenceInv ==
  ASSUME HostShape, AttributionInv, NEW p \in Procs, AppendReference(p)
  PROVE  AttributionInv'
<1>1. MovesOn(p) /\ Only(p)
  BY Moves DEF MovesOn
<1>2. /\ proc[p].pc = "appending" /\ proc'[p].pc = "opening"
      /\ UNCHANGED <<situation, crashes, metadata, resolutions, history>>
  BY GotoKeeps DEF AppendReference
<1>3. PICK s, agent, old :
        /\ s = Place(p) /\ s \in Places
        /\ agent = AgentOf(p) /\ old = references[s]
  BY <1>2, PlaceIs DEF Recording
<1>4. PICK reference : reference = [by |-> p, agent |-> agent, source |-> Invocation(p).source,
                                    resolution |-> Resolution(p)]
  OBVIOUS
<1>5. /\ Place(p)' = s /\ AgentOf(p)' = agent
      /\ proc'[p].exists = proc[p].exists /\ StateDirectory(p)' # None
  BY <1>1, <1>2, <1>3, SameNames, PlaceKept DEF MovesOn, Kept, Fields, Recording
<1>6. PICK new : new = Append(old, reference)
  OBVIOUS
<1>7. references' = [references EXCEPT ![s] = new]
  BY <1>3, <1>4, <1>6 DEF AppendReference
<1>8. /\ IsList(new) /\ Extends(old, new) /\ Len(new) \in DOMAIN new
      /\ new[Len(new)] = reference /\ DOMAIN new = DOMAIN old \cup {Len(new)}
  <2>1. IsList(old)
    BY <1>3 DEF AttributionInv, DiskShape
  <2>2. IsList(new) /\ Extends(old, new)
    BY ONLY <2>1, <1>6, Appended
  <2>3. Len(new) \in DOMAIN new /\ new[Len(new)] = reference
    BY ONLY <2>1, <1>6, Appended
  <2>4. DOMAIN new = DOMAIN old \cup {Len(new)}
    BY ONLY <2>1, <1>6, Appended
  <2> QED BY <2>2, <2>3, <2>4
<1>9. /\ DOMAIN references' = Places /\ references'[s] = new
      /\ \A t \in Places : t # s => references'[t] = references[t]
  BY <1>3, <1>7 DEF AttributionInv, DiskShape
<1>10. DiskGrows
  BY <1>2, <1>3, <1>8, <1>9, ExtendsItself DEF DiskGrows
<1>11. DiskShape'
  BY <1>2, <1>8, <1>9 DEF AttributionInv, DiskShape
<1>12. ReferencesStored'
  <2>1. reference.resolution \in DOMAIN resolutions
    BY <1>2, <1>4, SMTT(30) DEF AttributionInv, WrittenBy
  <2>2. \A r \in DOMAIN old : new[r].resolution \in DOMAIN resolutions
    BY <1>3, <1>8 DEF AttributionInv, ReferencesStored, Extends
  <2> QED BY <1>2, <1>8, <1>9, <2>1, <2>2 DEF AttributionInv, ReferencesStored
<1>13. EventsAttributed'
  <2>1. SUFFICES ASSUME NEW t \in Places, NEW k \in DOMAIN history[t]
                 PROVE  /\ history[t][k].agent = history[t][1].agent
                        /\ \E r \in DOMAIN references'[t] :
                             /\ references'[t][r].by = history[t][k].by
                             /\ references'[t][r].agent = history[t][k].agent
    BY <1>2 DEF EventsAttributed, Referenced
  <2>2. 1 \in DOMAIN history[t]
    <3>1. IsList(history[t]) /\ history[t] # <<>>
      BY DEF AttributionInv, DiskShape
    <3> QED BY <3>1, NotEmpty
  <2> QED BY <1>2, <1>10, <2>2, EventsStayAttributed
<1>14. WrittenBy(p)'
  <2>1. reference.by = p /\ reference.agent = agent
    BY <1>4, SMTT(30)
  <2>2. \E r \in DOMAIN references'[s] : references'[s][r].by = p /\ references'[s][r].agent = agent
    BY <1>8, <1>9, <2>1
  <2>3. proc'[p].exists => 1 \in DOMAIN history'[s]
    BY <1>2, <1>3, <1>5 DEF AttributionInv, WrittenBy
  <2> QED BY <1>2, <1>5, <2>2, <2>3 DEF WrittenBy, Referenced
<1>15. ResolutionsFilled'
  BY <1>1, <1>2, ResolutionsKept
<1> QED BY <1>1, <1>10, <1>11, <1>12, <1>13, <1>14, <1>15, AttributionGrows

\* A step of p that puts an event of p at the end of the history of its Session.
LEMMA EventInv ==
  ASSUME HostShape, AttributionInv, NEW p \in Procs, MovesOn(p),
         proc[p].pc \in {"opening", "open"}, proc'[p].pc \in {"open", "done"},
         UNCHANGED <<metadata, resolutions, references>>,
         NEW event, event.by = p, event.agent = AgentOf(p),
         NEW new, new = Append(history[Place(p)], event),
         history' = [history EXCEPT ![Place(p)] = new],
         history[Place(p)] = <<>> \/ history[Place(p)][1].agent = AgentOf(p)
  PROVE  AttributionInv'
<1>1. Only(p) /\ UNCHANGED <<situation, crashes>>
  BY DEF MovesOn
<1>2. PICK s, agent, old :
        /\ s = Place(p) /\ s \in Places
        /\ agent = AgentOf(p) /\ old = history[s]
  BY PlaceIs DEF Recording
<1>3. Place(p)' = s /\ AgentOf(p)' = agent /\ StateDirectory(p)' # None
  BY <1>2, SameNames, PlaceKept DEF Recording
<1>4. IsList(old) /\ new = Append(old, event)
  BY <1>2 DEF AttributionInv, DiskShape
<1>5. /\ IsList(new) /\ Extends(old, new)
  BY ONLY <1>4, Appended
<1>6. /\ Len(new) \in DOMAIN new /\ new[Len(new)] = event /\ 1 \in DOMAIN new
      /\ (old = <<>> => new[1] = event)
  BY ONLY <1>4, Appended
<1>7. DOMAIN new = DOMAIN old \cup {Len(new)}
  BY ONLY <1>4, Appended
<1>8. /\ DOMAIN history' = Places /\ history'[s] = new
      /\ \A t \in Places : t # s => history'[t] = history[t]
  BY <1>2 DEF AttributionInv, DiskShape
<1>9. DiskGrows
  BY <1>2, <1>5, <1>8, ExtendsItself DEF DiskGrows
<1>10. DiskShape' /\ ReferencesStored'
  BY <1>2, <1>5, <1>8 DEF AttributionInv, DiskShape, ReferencesStored
<1>11. old # <<>> => 1 \in DOMAIN old
  BY <1>4, NotEmpty
<1>12. new[1].agent = agent
  <2>1. CASE old = <<>>
    BY <1>2, <1>6, <2>1
  <2>2. CASE old # <<>>
    <3>1. new[1] = old[1]
      BY <1>5, <1>11, <2>2 DEF Extends
    <3> QED BY <1>2, <2>2, <3>1
  <2> QED BY <2>1, <2>2
<1>13. \E r \in DOMAIN references[s] : references[s][r].by = p /\ references[s][r].agent = agent
  BY <1>2 DEF AttributionInv, WrittenBy, Referenced
<1>14. EventsAttributed'
  <2>1. SUFFICES ASSUME NEW t \in Places, NEW k \in DOMAIN history'[t]
                 PROVE  /\ history'[t][k].agent = history'[t][1].agent
                        /\ \E r \in DOMAIN references'[t] :
                             /\ references'[t][r].by = history'[t][k].by
                             /\ references'[t][r].agent = history'[t][k].agent
    BY DEF EventsAttributed, Referenced
  <2>2. CASE k \in DOMAIN history[t]
    <3>1. 1 \in DOMAIN history[t]
      <4>1. IsList(history[t]) /\ history[t] # <<>>
        BY <2>2 DEF AttributionInv, DiskShape
      <4> QED BY <4>1, NotEmpty
    <3> QED BY <1>9, <2>2, <3>1, EventsStayAttributed
  <2>3. CASE k \notin DOMAIN history[t]
    <3>1. t = s
      BY <1>8, <2>3
    <3>2. history'[t][k] = event
      BY <1>2, <1>6, <1>7, <1>8, <2>3, <3>1
    <3>3. history'[t][1].agent = agent
      BY <1>8, <1>12, <3>1
    <3>4. \E r \in DOMAIN references'[t] :
            /\ references'[t][r].by = event.by /\ references'[t][r].agent = event.agent
      BY <1>2, <1>13, <3>1
    <3> QED BY <1>2, <3>2, <3>3, <3>4
  <2> QED BY <2>2, <2>3
<1>15. WrittenBy(p)'
  <2>1. Referenced(s, p, agent)'
    BY <1>13 DEF Referenced
  <2> QED BY <1>3, <1>6, <1>8, <1>12, <2>1 DEF WrittenBy, Referenced
<1>16. ResolutionsFilled'
  BY <1>1, ResolutionsKept
<1> QED BY <1>1, <1>9, <1>10, <1>14, <1>15, <1>16, AttributionGrows

LEMMA OpenedInv ==
  ASSUME HostShape, AttributionInv, NEW p \in Procs, OpenSession(p)
  PROVE  AttributionInv'
<1>1. MovesOn(p) /\ Only(p)
  BY Moves DEF MovesOn
<1>2. /\ proc[p].pc = "opening"
      /\ UNCHANGED <<situation, crashes, metadata, resolutions, references>>
  BY DEF OpenSession
<1>3. /\ Place(p)' = Place(p) /\ AgentOf(p)' = AgentOf(p)
      /\ StateDirectory(p)' # None
  BY <1>1, <1>2, SameNames, PlaceKept DEF Recording
<1>4. CASE proc[p].exists
  <2>1. /\ UNCHANGED history
        /\ proc'[p].pc = IF history[Place(p)][1].agent = AgentOf(p) THEN "open" ELSE "failed"
    BY <1>2, <1>4, GotoKeeps DEF OpenSession
  <2>2. 1 \in DOMAIN history[Place(p)]
    BY <1>2, <1>4 DEF AttributionInv, WrittenBy
  <2>3. Referenced(Place(p), p, AgentOf(p))
    BY <1>2 DEF AttributionInv, WrittenBy
  <2>4. Referenced(Place(p), p, AgentOf(p))'
    BY <1>2, <1>3, <2>3 DEF Referenced
  <2>5. WrittenBy(p)'
    BY <1>3, <2>1, <2>2, <2>4 DEF WrittenBy
  <2> QED BY <1>1, <1>2, <2>1, <2>5, AttributionKept DEF diskVars
<1>5. CASE ~proc[p].exists
  <2>1. PICK event : event = Event("session/created", p)
    OBVIOUS
  <2>2. /\ history[Place(p)] = <<>>
        /\ history' = [history EXCEPT ![Place(p)] = <<event>>]
        /\ proc'[p].pc = "open"
    BY <1>2, <1>5, <2>1, GotoKeeps DEF OpenSession
  <2>3. event.by = p /\ event.agent = AgentOf(p)
    BY <2>1 DEF Event
  <2>4. PICK new : new = <<event>> /\ new = Append(history[Place(p)], event)
    <3>1. <<event>> = Append(<<>>, event)
      OBVIOUS
    <3> QED BY <2>2, <3>1
  <2> QED BY <1>1, <1>2, <2>2, <2>3, <2>4, EventInv
<1> QED BY <1>4, <1>5

LEMMA TurnInv ==
  ASSUME HostShape, AttributionInv, NEW p \in Procs, Turn(p)
  PROVE  AttributionInv'
<1>1. MovesOn(p)
  BY Moves
<1>2. /\ proc[p].pc = "open" /\ proc'[p].pc = "done"
      /\ UNCHANGED <<metadata, resolutions, references>>
  BY GotoKeeps DEF Turn
<1>3. PICK event : event = Event("turn", p)
  OBVIOUS
<1>4. event.by = p /\ event.agent = AgentOf(p)
  BY <1>3 DEF Event
<1>5. PICK new : new = Append(history[Place(p)], event)
  OBVIOUS
<1>6. history' = [history EXCEPT ![Place(p)] = new]
  BY <1>3, <1>5 DEF Turn
<1>7. history[Place(p)][1].agent = AgentOf(p)
  BY <1>2 DEF AttributionInv, WrittenBy
<1> QED BY <1>1, <1>2, <1>4, <1>5, <1>6, <1>7, EventInv

LEMMA AttributionStep == HostShape /\ AttributionInv /\ [Next]_vars => AttributionInv'
<1> SUFFICES ASSUME HostShape, AttributionInv, [Next]_vars PROVE AttributionInv'
  OBVIOUS
<1>1. CASE UNCHANGED vars \/ Edit
  <2>1. /\ UNCHANGED <<situation, crashes, diskVars>> /\ Procs' = Procs
        /\ \A q \in Procs : /\ proc'[q].pc = proc[q].pc /\ proc'[q].exists = proc[q].exists
                            /\ proc'[q].profile = proc[q].profile /\ proc'[q].plan = proc[q].plan
                            /\ proc'[q].digests = proc[q].digests
    <3>1. CASE Edit
      BY <3>1, EditMoves DEF Kept, Fields, Procs
    <3>2. CASE UNCHANGED vars
      BY <3>2 DEF vars, Procs
    <3> QED BY <1>1, <3>1, <3>2
  <2>2. UNCHANGED <<metadata, resolutions, references, history>>
    BY <2>1 DEF diskVars
  <2>3. \A q \in Procs : /\ Resolution(q)' = Resolution(q) /\ AgentOf(q)' = AgentOf(q)
                         /\ Place(q)' = Place(q) /\ StateDirectory(q)' = StateDirectory(q)
    BY <2>1, PlaceStays DEF Resolution, AgentOf, Invocation
  <2>4. \A q \in Procs : WrittenBy(q)'
    BY <2>1, <2>2, <2>3 DEF AttributionInv, WrittenBy, Referenced
  <2>5. DiskShape' /\ ReferencesStored' /\ EventsAttributed'
    BY <2>2 DEF AttributionInv, DiskShape, ReferencesStored, EventsAttributed, Referenced
  <2>6. ResolutionsFilled'
    BY <2>1, <2>2, <2>3 DEF AttributionInv, ResolutionsFilled, BeingFilled
  <2> QED BY <2>1, <2>4, <2>5, <2>6 DEF AttributionInv
<1>2. ASSUME NEW p \in Procs, Crash(p) PROVE AttributionInv'
  <2>1. /\ Only(p) /\ UNCHANGED diskVars /\ crashes' > 0
        /\ proc'[p].pc = "crashed"
    BY <1>2, CrashMoves DEF HostShape
  <2> QED BY <2>1, NothingWritten, AttributionKept
<1>3. ASSUME NEW p \in Procs, ProcessStep(p) PROVE AttributionInv'
  <2>1. CASE PlanStep(p)
    <3>1. /\ Only(p) /\ UNCHANGED <<crashes, diskVars>> /\ proc[p].pc # "filling"
          /\ proc'[p].pc \in PlanPlaces
      BY <2>1, PlanSteps
    <3>2. WrittenBy(p)'
      BY <3>1, NothingWritten DEF PlanPlaces, BeforeLoading
    <3> QED BY <3>1, <3>2, AttributionKept
  <2>2. CASE ReadMetadata(p)
    <3>1. /\ Only(p) /\ UNCHANGED <<crashes, diskVars>> /\ proc[p].pc # "filling"
          /\ proc'[p].pc \in {"claiming", "reading", "failed"}
      BY <2>2, WorkspaceRead
    <3>2. WrittenBy(p)'
      BY <3>1, NothingWritten DEF BeforeLoading
    <3> QED BY <3>1, <3>2, AttributionKept
  <2>3. CASE Claim(p) \/ WriteMetadata(p)
    <3>1. /\ Only(p) /\ UNCHANGED <<crashes, resolutions, references, history>>
          /\ proc[p].pc # "filling" /\ proc'[p].pc \in {"writing", "claimed", "reading"}
      <4>1. CASE Claim(p)
        BY <4>1, Moves, GotoKeeps DEF Claim, MovesOn
      <4>2. CASE WriteMetadata(p)
        BY <4>2, MetadataWritten, ClaimedFacts
      <4> QED BY <2>3, <4>1, <4>2
    <3>2. WrittenBy(p)'
      BY <3>1, NothingWritten DEF BeforeLoading
    <3>3. DiskGrows
      BY <3>1, ExtendsItself DEF DiskGrows
    <3>4. DiskShape' /\ ReferencesStored' /\ EventsAttributed'
      BY <3>1 DEF AttributionInv, DiskShape, ReferencesStored, EventsAttributed, Referenced
    <3>5. ResolutionsFilled'
      BY <3>1, ResolutionsKept
    <3> QED BY <3>1, <3>2, <3>3, <3>4, <3>5, AttributionGrows
  <2>4. CASE CheckPackage(p) \/ Import(p)
    <3>1. /\ Only(p) /\ UNCHANGED <<crashes, diskVars>>
          /\ proc[p].pc # "filling" /\ proc'[p].pc \in {"importing", "loading", "failed"}
      <4>1. CASE CheckPackage(p)
        BY <4>1, Moves, GotoKeeps DEF CheckPackage, MovesOn
      <4>2. CASE Import(p)
        BY <4>2, Imports
      <4> QED BY <2>4, <4>1, <4>2
    <3>2. WrittenBy(p)'
      BY <3>1, NothingWritten
    <3> QED BY <3>1, <3>2, AttributionKept
  <2>5. CASE Assembled(p)
    <3>1. /\ Only(p) /\ Kept(p, {"pc", "exists"}) /\ UNCHANGED <<situation, crashes, diskVars>>
          /\ proc[p].pc # "filling" /\ proc'[p].pc \in {"failed", "done", "recording"}
          /\ (proc'[p].pc = "recording" =>
                StateDirectory(p) # None /\ (proc'[p].exists => history[Place(p)] # <<>>))
      BY <2>5, AssembledMoves
    <3>2. /\ Place(p)' = Place(p) /\ StateDirectory(p)' = StateDirectory(p)
          /\ UNCHANGED history
      BY <3>1, PlaceStays DEF Kept, Fields, diskVars
    <3>3. CASE proc'[p].pc = "recording"
      <4>1. Place(p) \in Places
        BY <3>1, <3>3, DirectoryIs, WorkspaceNames DEF Place, Places
      <4>2. IsList(history[Place(p)])
        BY <4>1 DEF AttributionInv, DiskShape
      <4>3. proc'[p].exists => 1 \in DOMAIN history[Place(p)]
        BY <3>1, <3>3, <4>2, NotEmpty
      <4>4. proc'[p].exists => 1 \in DOMAIN (history[Place(p)])'
        BY <3>2, <4>3
      <4>5. StateDirectory(p)' # None
        BY <3>1, <3>2, <3>3
      <4>6. WrittenBy(p)'
        BY <3>3, <4>4, <4>5 DEF WrittenBy
      <4> QED BY <3>1, <4>6, AttributionKept
    <3>4. CASE proc'[p].pc \in {"failed", "done"}
      BY <3>1, <3>4, NothingWritten, AttributionKept
    <3> QED BY <3>1, <3>3, <3>4, AttributionKept
  <2>6. CASE ReadReference(p)
    <3>1. MovesOn(p) /\ Only(p) /\ UNCHANGED <<crashes, diskVars>>
      BY <2>6, Moves DEF MovesOn, ReadReference
    <3>2. proc[p].pc = "recording" /\ proc'[p].pc \in {"storing", "failed"}
      <4>1. proc[p].pc = "recording" /\ \E pc \in {"storing", "failed"} : Goto(p, pc)
        BY <2>6 DEF ReadReference
      <4> QED BY <3>1, <4>1, GotoKeeps DEF MovesOn
    <3>3. /\ Place(p)' = Place(p) /\ proc'[p].exists = proc[p].exists /\ UNCHANGED history
          /\ StateDirectory(p)' # None
      BY <3>1, <3>2, SameNames, PlaceKept DEF MovesOn, Kept, Fields, diskVars, Recording
    <3>4. WrittenBy(p)'
      BY <3>2, <3>3 DEF AttributionInv, WrittenBy
    <3> QED BY <3>1, <3>2, <3>4, AttributionKept
  <2>7. CASE StoreResolution(p) \/ FillResolution(p) \/ AppendReference(p)
    BY <2>7, StoredInv, FilledInv, ReferenceInv
  <2>8. CASE OpenSession(p) \/ Turn(p)
    BY <2>8, OpenedInv, TurnInv
  <2> QED BY <1>3, <2>1, <2>2, <2>3, <2>4, <2>5, <2>6, <2>7, <2>8, StepKinds
<1> QED BY <1>1, <1>2, <1>3 DEF Next

LEMMA AttributionInit == Init => AttributionInv
<1> SUFFICES ASSUME Init PROVE AttributionInv
  OBVIOUS
<1>1. /\ references = [s \in Places |-> <<>>] /\ history = [s \in Places |-> <<>>]
      /\ resolutions = <<>> /\ \A p \in Procs : proc[p].pc = "start"
  BY DEF Init, NewProcess, Places
<1>2. DiskShape
  BY <1>1, EmptyIsList DEF DiskShape
<1>3. ResolutionsFilled /\ ReferencesStored /\ EventsAttributed
  BY <1>1 DEF ResolutionsFilled, ReferencesStored, EventsAttributed
<1>4. \A p \in Procs : WrittenBy(p)
  BY <1>1 DEF WrittenBy, Recording
<1> QED BY <1>2, <1>3, <1>4 DEF AttributionInv

LEMMA Attribution == AttributionInv => TurnsAttributed
<1> SUFFICES ASSUME AttributionInv, NEW s \in Places, NEW k \in DOMAIN history[s]
             PROVE  /\ history[s][k].agent = history[s][1].agent
                    /\ \E r \in DOMAIN references[s] :
                         /\ references[s][r].by = history[s][k].by
                         /\ references[s][r].agent = history[s][k].agent
                         /\ references[s][r].resolution \in DOMAIN resolutions
                         /\ \/ resolutions[references[s][r].resolution] = "whole"
                            \/ crashes > 0
                            \/ BeingFilled(references[s][r].resolution)
  BY DEF TurnsAttributed, Places
<1>1. PICK r \in DOMAIN references[s] :
        /\ references[s][r].by = history[s][k].by
        /\ references[s][r].agent = history[s][k].agent
  BY DEF AttributionInv, EventsAttributed, Referenced
<1>2. references[s][r].resolution \in DOMAIN resolutions
  BY DEF AttributionInv, ReferencesStored
<1>3. history[s][k].agent = history[s][1].agent
  BY DEF AttributionInv, EventsAttributed
<1> QED BY <1>1, <1>2, <1>3 DEF AttributionInv, ResolutionsFilled

\* recordSessionAssembly before openSession: an event of a Session follows a
\* reference by the same process, for the Agent that created the Session, to a
\* resolution on disk, which is whole unless somebody crashed or still writes it.
THEOREM EventsHaveAssemblies == Spec => []TurnsAttributed
<1>1. Init => HostShape /\ AttributionInv
  BY InitShape, AttributionInit
<1>2. HostShape /\ AttributionInv /\ [Next]_vars => HostShape' /\ AttributionInv'
  BY ShapeStep, AttributionStep
<1> QED BY <1>1, <1>2, Attribution, PTL DEF Spec

-----------------------------------------------------------------------------
(* The layers of a Profile: what resolveProfile makes of each field.        *)

\* Induction over the natural numbers, for a set of them.
LEMMA Upward ==
  ASSUME NEW T, 0 \in T, \A n \in Nat : n \in T => n + 1 \in T
  PROVE  \A n \in Nat : n \in T
<1> SUFFICES ASSUME NEW n0 \in Nat, n0 \notin T PROVE FALSE
  OBVIOUS
<1>1. PICK R : R = {ss \in Nat \X Nat : ss[1] < ss[2]}
  OBVIOUS
<1>2. IsWellFoundedOn(R, Nat)
  <2>1. R = OpToRel(<, Nat)
    BY <1>1, Zenon DEF OpToRel
  <2> QED BY <2>1, NatLessThanWellFounded, Zenon
<1>3. PICK m \in Nat \ T : \A k \in Nat \ T : ~ (<<k, m>> \in R)
  <2>1. Nat \ T \subseteq Nat /\ Nat \ T # {}
    OBVIOUS
  <2> QED BY <1>2, <2>1, WFMin
<1>4. m # 0 /\ m - 1 \in Nat /\ m - 1 < m
  BY <1>3
<1>5. m - 1 \in T
  BY <1>1, <1>3, <1>4
<1>6. (m - 1) + 1 \in T
  BY <1>4, <1>5
<1> QED BY <1>3, <1>6

\* The function by which FoldLeft is defined.
IsFold(g, base, seq, n) ==
  g = [s \in SUBSET (1..n) |->
         IF s = {} THEN base
         ELSE MergePatch(g[s \ {Max(s)}], seq[Max(s)])]

\* What Max chooses in a set of positions.
LEMMA MaxOf ==
  ASSUME NEW n \in Nat, NEW S \in SUBSET (1..n), n \in S
  PROVE  Max(S) = n
<1>1. n \in S /\ \A y \in S : n >= y
  OBVIOUS
<1>2. Max(S) \in S /\ \A y \in S : Max(S) >= y
  BY <1>1 DEF Max
<1>3. Max(S) \in 1..n /\ Max(S) >= n
  BY <1>1, <1>2
<1> QED BY <1>3

LEMMA MaxMember ==
  ASSUME NEW n \in Nat, NEW S \in SUBSET (1..n), S # {}
  PROVE  Max(S) \in S /\ \A y \in S : Max(S) >= y
<1>1. PICK R : R = {ss \in Nat \X Nat : ss[1] < ss[2]}
  OBVIOUS
<1>2. IsWellFoundedOn(R, Nat)
  <2>1. R = OpToRel(<, Nat)
    BY <1>1, Zenon DEF OpToRel
  <2> QED BY <2>1, NatLessThanWellFounded, Zenon
<1>3. PICK T : T = {n - s : s \in S}
  OBVIOUS
<1>4. T \subseteq Nat /\ T # {}
  <2>1. \A s \in S : s \in Nat /\ n - s \in Nat
    OBVIOUS
  <2>2. PICK s \in S : TRUE
    OBVIOUS
  <2>3. n - s \in T
    BY <1>3
  <2>4. \A t \in T : t \in Nat
    BY <1>3, <2>1
  <2> QED BY <2>3, <2>4
<1>5. PICK t \in T : \A u \in T : ~ (<<u, t>> \in R)
  BY <1>2, <1>4, WFMin
<1>6. PICK s \in S : t = n - s
  BY <1>3
<1>7. ASSUME NEW y \in S PROVE s >= y
  <2>1. n - y \in T /\ n - y \in Nat /\ t \in Nat
    BY <1>3, <1>4
  <2>2. ~ (n - y < t)
    BY <1>1, <1>5, <2>1
  <2> QED BY <1>6, <2>2
<1>8. \E x \in S : \A y \in S : x >= y
  BY <1>7
<1> QED BY <1>8 DEF Max

\* FoldLeft is that function on all positions.
LEMMA FoldExists ==
  ASSUME NEW base, NEW seq
  PROVE  \A n \in Nat : \E g : IsFold(g, base, seq, n)
<1>1. PICK T : T = {n \in Nat : \E g : IsFold(g, base, seq, n)}
  OBVIOUS
<1>2. 0 \in T
  <2>1. PICK g : g = [s \in SUBSET (1..0) |-> base]
    OBVIOUS
  <2>2. \A s \in SUBSET (1..0) : s = {}
    OBVIOUS
  <2>3. IsFold(g, base, seq, 0)
    BY <2>1, <2>2 DEF IsFold
  <2> QED BY <1>1, <2>3
<1>3. ASSUME NEW n \in Nat, n \in T PROVE n + 1 \in T
  <2>1. PICK g : IsFold(g, base, seq, n)
    BY <1>1, <1>3
  <2>2. PICK h : h = [s \in SUBSET (1..(n + 1)) |->
                        IF n + 1 \in s THEN MergePatch(g[s \ {n + 1}], seq[n + 1]) ELSE g[s]]
    OBVIOUS
  <2>3. ASSUME NEW s \in SUBSET (1..(n + 1))
        PROVE  h[s] = IF s = {} THEN base ELSE MergePatch(h[s \ {Max(s)}], seq[Max(s)])
    <3>1. CASE n + 1 \in s
      <4>1. Max(s) = n + 1
        BY <3>1, MaxOf
      <4>2. s \ {n + 1} \in SUBSET (1..(n + 1)) /\ n + 1 \notin s \ {n + 1} /\ s # {}
        BY <3>1
      <4>3. h[s \ {n + 1}] = g[s \ {n + 1}]
        BY <2>2, <4>2
      <4>4. h[s] = MergePatch(g[s \ {n + 1}], seq[n + 1])
        BY <2>2, <3>1
      <4> QED BY <4>1, <4>2, <4>3, <4>4
    <3>2. CASE n + 1 \notin s
      <4>1. s \in SUBSET (1..n)
        BY <3>2
      <4>2. h[s] = g[s]
        BY <2>2, <3>2
      <4>3. g[s] = IF s = {} THEN base ELSE MergePatch(g[s \ {Max(s)}], seq[Max(s)])
        BY <2>1, <4>1 DEF IsFold
      <4>4. h[s \ {Max(s)}] = g[s \ {Max(s)}]
        <5>1. s \ {Max(s)} \in SUBSET (1..(n + 1)) /\ n + 1 \notin s \ {Max(s)}
          BY <3>2, <4>1
        <5> QED BY <2>2, <5>1
      <4> QED BY <4>2, <4>3, <4>4
    <3> QED BY <3>1, <3>2
  <2>4. IsFold(h, base, seq, n + 1)
    <3>1. h = [s \in SUBSET (1..(n + 1)) |-> h[s]]
      BY <2>2
    <3>2. \A s \in SUBSET (1..(n + 1)) : h[s] = IF s = {} THEN base ELSE MergePatch(h[s \ {Max(s)}], seq[Max(s)])
      BY <2>3
    <3> HIDE <2>2
    <3> QED BY <3>1, <3>2 DEF IsFold
  <2> QED BY <1>1, <2>4
<1>4. \A n \in Nat : n \in T
  BY <1>2, <1>3, Upward
<1> QED BY <1>1, <1>4

LEMMA Folded ==
  ASSUME NEW base, NEW S, NEW seq \in Seq(S)
  PROVE  \E g : IsFold(g, base, seq, Len(seq)) /\ FoldLeft(MergePatch, base, seq) = g[1..Len(seq)]
<1>1. \E g : IsFold(g, base, seq, Len(seq))
  BY FoldExists
<1>2. DOMAIN seq = 1..Len(seq)
  OBVIOUS
<1>3. PICK n : n = Len(seq)
  OBVIOUS
<1>5. IsFold(CHOOSE g : IsFold(g, base, seq, Len(seq)), base, seq, Len(seq))
  BY <1>1
<1>6. FoldLeft(MergePatch, base, seq) = (CHOOSE g : IsFold(g, base, seq, Len(seq)))[1..Len(seq)]
  BY <1>2 DEF FoldLeft, MapThenFoldSet, IsFold
<1> QED BY <1>5, <1>6

\* A section is one of null, a value and a mapping.
LEMMA Kinds ==
  /\ \A v : IsField(v) => ~ IsMapping(v)
  /\ \A v : IsNull(v) => ~ IsMapping(v)
  /\ \A v : IsField(v) /\ IsNull(v) => v = Null
  /\ IsNull(Null) /\ IsField(Null)
  /\ \A g : IsMapping(Mapping(g)) /\ ~IsNull(Mapping(g)) /\ Mapping(g).fields = g
<1>1. DOMAIN Null = {"null"} /\ \A g : DOMAIN Mapping(g) = {"fields"} /\ Mapping(g).fields = g
  BY DEF Null, Mapping
<1>2. "null" # "fields" /\ "value" # "fields" /\ "value" # "null"
  OBVIOUS
<1>3. {"null"} # {"fields"} /\ {"value"} # {"fields"} /\ {"value"} # {"null"}
  BY <1>2
<1> QED BY <1>1, <1>3 DEF IsField, IsMapping, IsNull

\* What mergePatch makes of a section.
Merged(base, patch, s) ==
  IF s \notin DOMAIN patch THEN base[s]
  ELSE IF s \notin DOMAIN base THEN patch[s]
  ELSE IF IsMapping(base[s]) /\ IsMapping(patch[s])
         THEN Mapping([f \in {g \in (DOMAIN base[s].fields) \cup (DOMAIN patch[s].fields) :
                                g \in DOMAIN patch[s].fields => ~IsNull(patch[s].fields[g])} |->
                         IF f \notin DOMAIN patch[s].fields THEN base[s].fields[f]
                         ELSE patch[s].fields[f]])
  ELSE patch[s]

\* mergePatch, section by section.
LEMMA MergeSections ==
  ASSUME NEW base, NEW patch
  PROVE  /\ \A s : s \in DOMAIN MergePatch(base, patch) <=>
                     /\ s \in DOMAIN base \/ s \in DOMAIN patch
                     /\ s \in DOMAIN patch => ~IsNull(patch[s])
         /\ \A s \in DOMAIN MergePatch(base, patch) : MergePatch(base, patch)[s] = Merged(base, patch, s)
<1>1. PICK D : D = {k \in (DOMAIN base) \cup (DOMAIN patch) : k \in DOMAIN patch => ~IsNull(patch[k])}
  OBVIOUS
<1>2. MergePatch(base, patch) =
        [key \in D |-> IF key \notin DOMAIN patch THEN base[key]
                       ELSE IF key \notin DOMAIN base THEN patch[key]
                       ELSE IF IsMapping(base[key]) /\ IsMapping(patch[key])
                        THEN Mapping(Patched(base[key].fields, patch[key].fields, LAMBDA old, new : new))
                        ELSE patch[key]]
  BY <1>1 DEF MergePatch, Patched
<1>4. ASSUME NEW s \in D PROVE MergePatch(base, patch)[s] = Merged(base, patch, s)
  <2>1. MergePatch(base, patch)[s] =
          IF s \notin DOMAIN patch THEN base[s]
          ELSE IF s \notin DOMAIN base THEN patch[s]
          ELSE IF IsMapping(base[s]) /\ IsMapping(patch[s])
            THEN Mapping(Patched(base[s].fields, patch[s].fields, LAMBDA old, new : new))
          ELSE patch[s]
    BY <1>2
  <2>2. Patched(base[s].fields, patch[s].fields, LAMBDA old, new : new) =
          [f \in {g \in (DOMAIN base[s].fields) \cup (DOMAIN patch[s].fields) :
                     g \in DOMAIN patch[s].fields => ~IsNull(patch[s].fields[g])} |->
             IF f \notin DOMAIN patch[s].fields THEN base[s].fields[f] ELSE patch[s].fields[f]]
    BY DEF Patched
  <2> QED BY <2>1, <2>2, Zenon DEF Merged
<1>5. DOMAIN MergePatch(base, patch) = D
  BY <1>2
<1> QED BY <1>1, <1>4, <1>5

\* The last layer that speaks of a field decides it.
LEMMA MergeLaw ==
  ASSUME NEW base, NEW patch, IsDocument(base), IsDocument(patch), NEW s, NEW f
  PROVE  FieldOf(MergePatch(base, patch), s, f) =
           IF Speaks(patch, s, f) THEN Says(patch, s, f) ELSE FieldOf(base, s, f)
<1>1. PICK m : m = MergePatch(base, patch)
  OBVIOUS
<1>2. /\ s \in DOMAIN m <=>
                     /\ s \in DOMAIN base \/ s \in DOMAIN patch
                     /\ s \in DOMAIN patch => ~IsNull(patch[s])
      /\ s \in DOMAIN m => m[s] = Merged(base, patch, s)
  BY <1>1, MergeSections
<1> SUFFICES FieldOf(m, s, f) = IF Speaks(patch, s, f) THEN Says(patch, s, f) ELSE FieldOf(base, s, f)
  BY <1>1
<1>3. CASE s \notin DOMAIN patch
  <2>1. ~Speaks(patch, s, f) /\ (s \in DOMAIN m <=> s \in DOMAIN base)
        /\ (s \in DOMAIN m => m[s] = base[s])
    BY <1>2, <1>3 DEF Speaks, Merged
  <2> QED BY <2>1 DEF FieldOf, Speaks, Says
<1>4. CASE s \in DOMAIN patch /\ IsNull(patch[s])
  <2>1. s \notin DOMAIN m /\ ~IsMapping(patch[s])
    BY <1>2, <1>4, Kinds
  <2> QED BY <1>4, <2>1 DEF FieldOf, Speaks, Says
<1>5. CASE s \in DOMAIN patch /\ ~IsNull(patch[s]) /\ ~IsMapping(patch[s])
  <2>1. s \in DOMAIN m /\ m[s] = patch[s]
    BY <1>2, <1>5 DEF Merged
  <2> QED BY <1>5, <2>1 DEF FieldOf, Speaks, Says
<1>6. CASE s \in DOMAIN patch /\ IsMapping(patch[s]) /\ (s \notin DOMAIN base \/ ~IsMapping(base[s]))
  <2>1. ~IsNull(patch[s])
    BY <1>6, Kinds
  <2>2. s \in DOMAIN m /\ m[s] = patch[s]
    BY <1>2, <1>6, <2>1 DEF Merged
  <2>3. FieldOf(base, s, f) = Null
    BY <1>6 DEF FieldOf, Speaks, Says
  <2> QED BY <1>6, <2>2, <2>3 DEF FieldOf, Speaks, Says
<1>7. CASE s \in DOMAIN patch /\ IsMapping(patch[s]) /\ s \in DOMAIN base /\ IsMapping(base[s])
  <2>1. PICK b, p : b = base[s].fields /\ p = patch[s].fields
    OBVIOUS
  <2>2. PICK D : D = {g \in (DOMAIN b) \cup (DOMAIN p) : g \in DOMAIN p => ~IsNull(p[g])}
    OBVIOUS
  <2>3. PICK r : r = [g \in D |-> IF g \notin DOMAIN p THEN b[g] ELSE p[g]]
    OBVIOUS
  <2>4. s \in DOMAIN m /\ m[s] = Mapping(r)
    <3>1. ~IsNull(patch[s])
      BY <1>7, Kinds
    <3>2. s \in DOMAIN m /\ m[s] = Merged(base, patch, s)
      BY <1>2, <1>7, <3>1
    <3>3. Merged(base, patch, s) =
            Mapping([g \in {h \in (DOMAIN b) \cup (DOMAIN p) : h \in DOMAIN p => ~IsNull(p[h])} |->
               IF g \notin DOMAIN p THEN b[g] ELSE p[g]])
      BY <1>7, <2>1 DEF Merged
    <3> QED BY <2>2, <2>3, <3>2, <3>3
  <2>5. IsMapping(m[s]) /\ m[s].fields = r
    BY <2>4, Kinds
  <2>6. DOMAIN r = D /\ \A g \in D : r[g] = IF g \notin DOMAIN p THEN b[g] ELSE p[g]
    BY <2>3
  <2>7. /\ FieldOf(m, s, f) = IF f \in D THEN r[f] ELSE Null
        /\ FieldOf(base, s, f) = IF f \in DOMAIN b THEN b[f] ELSE Null
        /\ Speaks(patch, s, f) <=> f \in DOMAIN p
        /\ Says(patch, s, f) = p[f]
    BY <1>7, <2>1, <2>4, <2>5, <2>6 DEF FieldOf, Speaks, Says
  <2>8. f \in DOMAIN p /\ IsNull(p[f]) => p[f] = Null
    <3>1. \A g \in DOMAIN patch[s].fields : IsField(patch[s].fields[g])
      BY <1>7, Kinds DEF IsDocument
    <3> QED BY <3>1, <2>1, Kinds
  <2> QED BY <2>2, <2>6, <2>7, <2>8
<1> QED BY <1>3, <1>4, <1>5, <1>6, <1>7

\* mergePatch makes a document of documents, and invents nothing.
LEMMA MergeDocument ==
  ASSUME NEW base, NEW patch, IsDocument(base), IsDocument(patch)
  PROVE  /\ IsDocument(MergePatch(base, patch))
         /\ \A s, f : Speaks(MergePatch(base, patch), s, f) => Speaks(base, s, f) \/ Speaks(patch, s, f)
<1>1. PICK m : m = MergePatch(base, patch)
  OBVIOUS
<1>2. \A s \in DOMAIN m : /\ s \in DOMAIN base \/ s \in DOMAIN patch
                          /\ m[s] = Merged(base, patch, s)
  BY <1>1, MergeSections
<1>3. ASSUME NEW s \in DOMAIN m
      PROVE  /\ IsField(m[s]) \/ /\ IsMapping(m[s]) /\ m[s] = Mapping(m[s].fields)
                                 /\ \A f \in DOMAIN m[s].fields : IsField(m[s].fields[f])
             /\ \A f : Speaks(m, s, f) => Speaks(base, s, f) \/ Speaks(patch, s, f)
  <2>1. CASE s \in DOMAIN base /\ m[s] = base[s]
    BY <2>1 DEF IsDocument, Speaks
  <2>2. CASE s \in DOMAIN patch /\ m[s] = patch[s]
    BY <2>2 DEF IsDocument, Speaks
  <2>3. CASE s \in DOMAIN base /\ s \in DOMAIN patch /\ IsMapping(base[s]) /\ IsMapping(patch[s])
    <3>1. PICK b, p : b = base[s].fields /\ p = patch[s].fields
      OBVIOUS
    <3>2. PICK r : /\ m[s] = Mapping(r)
                   /\ r = [f \in {g \in (DOMAIN b) \cup (DOMAIN p) : g \in DOMAIN p => ~IsNull(p[g])} |->
                             IF f \notin DOMAIN p THEN b[f] ELSE p[f]]
      BY <1>2, <2>3, <3>1 DEF Merged
    <3>3. /\ \A f \in DOMAIN b : IsField(b[f])
          /\ \A f \in DOMAIN p : IsField(p[f])
      BY <2>3, <3>1, Kinds DEF IsDocument
    <3>4. \A f \in DOMAIN r : IsField(r[f]) /\ (f \in DOMAIN b \/ f \in DOMAIN p)
      BY <3>2, <3>3
    <3>5. IsMapping(m[s]) /\ m[s].fields = r
      BY <3>2, Kinds
    <3> QED BY <2>3, <3>1, <3>2, <3>4, <3>5 DEF Speaks
  <2> QED BY <1>2, <2>1, <2>2, <2>3 DEF Merged
<1>4. \A s, f : Speaks(m, s, f) => s \in DOMAIN m
  BY DEF Speaks
<1> QED BY <1>1, <1>3, <1>4 DEF IsDocument

\* A fold of layers, one after the other.
FoldsBy(m, base, seq) ==
  /\ m[0] = base
  /\ \A k \in 1..Len(seq) : m[k] = MergePatch(m[k - 1], seq[k])
  /\ FoldLeft(MergePatch, base, seq) = m[Len(seq)]

LEMMA FoldOfLayers ==
  ASSUME NEW base, NEW S, NEW seq \in Seq(S)
  PROVE  \E m : FoldsBy(m, base, seq)
<1>1. PICK g : IsFold(g, base, seq, Len(seq)) /\ FoldLeft(MergePatch, base, seq) = g[1..Len(seq)]
  BY Folded
<1>2. PICK n \in Nat : n = Len(seq)
  OBVIOUS
<1>3. PICK m : m = [k \in 0..n |-> g[1..k]]
  OBVIOUS
<1>4. \A s \in SUBSET (1..n) : g[s] = IF s = {} THEN base ELSE MergePatch(g[s \ {Max(s)}], seq[Max(s)])
  BY <1>1, <1>2 DEF IsFold
<1>5. m[0] = base
  <2>1. 1..0 = {} /\ 1..0 \in SUBSET (1..n)
    OBVIOUS
  <2>2. m[0] = g[1..0]
    BY <1>3
  <2> QED BY <1>4, <2>1, <2>2
<1>6. ASSUME NEW k \in 1..n PROVE m[k] = MergePatch(m[k - 1], seq[k])
  <2>0. k \in Nat /\ k \in 1..k /\ \A i \in 1..k : i \in 1..n
    OBVIOUS
  <2>1. 1..k \in SUBSET (1..n) /\ 1..k # {} /\ k \in 1..k /\ 1..k \in SUBSET (1..k) /\ k \in Nat
    BY <2>0
  <2>2. Max(1..k) = k
    BY ONLY <2>1, MaxOf
  <2>3. (1..k) \ {k} = 1..(k - 1)
    OBVIOUS
  <2>4. g[1..k] = MergePatch(g[1..(k - 1)], seq[k])
    BY <1>4, <2>1, <2>2, <2>3
  <2> QED BY <1>3, <2>4
<1>7. FoldLeft(MergePatch, base, seq) = m[n]
  BY <1>1, <1>2, <1>3
<1> QED BY <1>2, <1>5, <1>6, <1>7 DEF FoldsBy

\* Some layer speaks of the field.
Spoken(layers, s, f) == \E k \in DOMAIN layers : Speaks(layers[k], s, f)

AreDocuments(layers) == layers \in Seq({layers[k] : k \in DOMAIN layers}) /\ \A k \in DOMAIN layers : IsDocument(layers[k])

\* The last word of the layers that are folded, or what was there before them.
LEMMA MergedLayers ==
  ASSUME NEW base, IsDocument(base), NEW seq, AreDocuments(seq), NEW s, NEW f
  PROVE  LET all == FoldLeft(MergePatch, base, seq) IN
         /\ IsDocument(all)
         /\ FieldOf(all, s, f) = IF Spoken(seq, s, f) THEN LastWord(seq, s, f) ELSE FieldOf(base, s, f)
         /\ Speaks(all, s, f) => Speaks(base, s, f) \/ Spoken(seq, s, f)
<1>1. PICK S : seq \in Seq(S)
  BY DEF AreDocuments
<1>2. PICK m : FoldsBy(m, base, seq)
  BY <1>1, FoldOfLayers
<1>3. PICK n \in Nat : n = Len(seq) /\ DOMAIN seq = 1..n
  BY <1>1
<1> DEFINE K(k) == {j \in 1..k : Speaks(seq[j], s, f)}
           P(k) == /\ IsDocument(m[k])
                   /\ FieldOf(m[k], s, f) = IF K(k) = {} THEN FieldOf(base, s, f)
                                            ELSE Says(seq[Max(K(k))], s, f)
                   /\ Speaks(m[k], s, f) => Speaks(base, s, f) \/ K(k) # {}
<1>4. PICK T : T = {k \in Nat : k <= n => P(k)}
  OBVIOUS
<1>5. 0 \in T
  <2>1. K(0) = {}
    OBVIOUS
  <2> QED BY <1>2, <1>4, <2>1 DEF FoldsBy
<1>6. ASSUME NEW k \in Nat, k \in T PROVE k + 1 \in T
  <2> SUFFICES ASSUME k + 1 <= n PROVE P(k + 1)
    BY <1>4
  <2>1. P(k)
    BY <1>4, <1>6
  <2>2. k + 1 \in 1..n /\ (k + 1) - 1 = k
    OBVIOUS
  <2>3. m[k + 1] = MergePatch(m[k], seq[k + 1]) /\ IsDocument(seq[k + 1])
    BY <1>2, <1>3, <2>2 DEF AreDocuments, FoldsBy
  <2>4. /\ IsDocument(m[k + 1])
        /\ Speaks(m[k + 1], s, f) => Speaks(m[k], s, f) \/ Speaks(seq[k + 1], s, f)
    BY <2>1, <2>3, MergeDocument
  <2>5. FieldOf(m[k + 1], s, f) = IF Speaks(seq[k + 1], s, f) THEN Says(seq[k + 1], s, f) ELSE FieldOf(m[k], s, f)
    BY <2>1, <2>3, MergeLaw
  <2>6. CASE Speaks(seq[k + 1], s, f)
    <3>1. K(k + 1) \in SUBSET (1..(k + 1)) /\ k + 1 \in K(k + 1) /\ K(k + 1) # {}
      BY <2>6
    <3>2. Max(K(k + 1)) = k + 1
      <4> HIDE DEF K
      <4> QED BY <3>1, MaxOf
    <3> QED BY <2>4, <2>5, <2>6, <3>1, <3>2
  <2>7. CASE ~Speaks(seq[k + 1], s, f)
    <3>1. K(k + 1) = K(k)
      BY <2>7
    <3> QED BY <2>1, <2>4, <2>5, <2>7, <3>1
  <2> QED BY <2>6, <2>7
<1>7. P(n)
  <2>1. n \in T
    BY <1>5, <1>6, Upward
  <2> QED BY <1>4, <2>1
<1>8. K(n) = {j \in DOMAIN seq : Speaks(seq[j], s, f)}
  BY <1>3
<1>9. (K(n) # {} <=> Spoken(seq, s, f)) /\ (K(n) # {} => LastWord(seq, s, f) = Says(seq[Max(K(n))], s, f))
  BY <1>8 DEF Spoken, LastWord
<1> QED BY <1>2, <1>3, <1>7, <1>9 DEF FoldsBy

\* The last word of layers that follow others.
LEMMA LastOfLayers ==
  ASSUME NEW A, NEW B, AreDocuments(A), AreDocuments(B), NEW s, NEW f
  PROVE  /\ LastWord(A \o B, s, f) = IF Spoken(B, s, f) THEN LastWord(B, s, f) ELSE LastWord(A, s, f)
         /\ Spoken(A \o B, s, f) <=> Spoken(A, s, f) \/ Spoken(B, s, f)
         /\ AreDocuments(A \o B)
<1>1. PICK S : A \in Seq(S) /\ B \in Seq(S)
  <2>1. PICK X, Y : A \in Seq(X) /\ B \in Seq(Y)
    BY DEF AreDocuments
  <2>2. A \in Seq(X \cup Y) /\ B \in Seq(X \cup Y)
    BY <2>1, SeqMonotonic
  <2> QED BY <2>2
<1>2. PICK a \in Nat, b \in Nat : a = Len(A) /\ b = Len(B)
  BY <1>1
<1>3. PICK C : C = A \o B
  OBVIOUS
<1>4. /\ C \in Seq(S) /\ Len(C) = a + b
      /\ \A i \in 1..(a + b) : C[i] = IF i <= a THEN A[i] ELSE B[i - a]
  BY <1>1, <1>2, <1>3, ConcatProperties
<1>5. DOMAIN A = 1..a /\ DOMAIN B = 1..b /\ DOMAIN C = 1..(a + b)
  BY <1>1, <1>2, <1>4
<1>6. /\ \A i \in 1..a : C[i] = A[i]
      /\ \A i \in 1..b : C[a + i] = B[i]
  <2>1. \A i \in 1..a : i \in 1..(a + b) /\ i <= a
    OBVIOUS
  <2>2. \A i \in 1..b : a + i \in 1..(a + b) /\ ~(a + i <= a) /\ (a + i) - a = i
    OBVIOUS
  <2> QED BY <1>4, <2>1, <2>2
<1>7. \A i \in 1..(a + b) : i \in 1..a \/ (i - a \in 1..b /\ a + (i - a) = i)
  OBVIOUS
<1>8. AreDocuments(C)
  <2>1. \A i \in DOMAIN C : IsDocument(C[i])
    BY <1>4, <1>5, <1>6, <1>7 DEF AreDocuments
  <2>2. PICK T : T = {C[k] : k \in DOMAIN C}
    OBVIOUS
  <2>3. C \in [1..(a + b) -> T] /\ a + b \in Nat
    BY <1>2, <1>4, <1>5, <2>2
  <2>4. C \in Seq(T)
    BY <2>3
  <2> QED BY <2>1, <2>2, <2>4 DEF AreDocuments
<1> DEFINE KA == {i \in DOMAIN A : Speaks(A[i], s, f)}
           KB == {i \in DOMAIN B : Speaks(B[i], s, f)}
           KC == {i \in DOMAIN C : Speaks(C[i], s, f)}
<1>9. /\ (KA # {} <=> Spoken(A, s, f)) /\ (KB # {} <=> Spoken(B, s, f)) /\ (KC # {} <=> Spoken(C, s, f))
      /\ LastWord(A, s, f) = IF KA = {} THEN Null ELSE Says(A[Max(KA)], s, f)
      /\ LastWord(B, s, f) = IF KB = {} THEN Null ELSE Says(B[Max(KB)], s, f)
      /\ LastWord(C, s, f) = IF KC = {} THEN Null ELSE Says(C[Max(KC)], s, f)
  BY DEF Spoken, LastWord
<1>10. /\ KA \in SUBSET (1..a) /\ KB \in SUBSET (1..b) /\ KC \in SUBSET (1..(a + b))
       /\ \A i \in 1..a : i \in KA <=> i \in KC
       /\ \A i \in 1..b : i \in KB <=> (a + i) \in KC
  <2>1. \A i \in 1..a : i \in 1..(a + b)
    OBVIOUS
  <2>2. \A i \in 1..b : a + i \in 1..(a + b)
    OBVIOUS
  <2> QED BY <1>5, <1>6, <2>1, <2>2
<1> HIDE DEF KA, KB, KC
<1>11. CASE KB # {}
  <2>1. Max(KB) \in KB /\ \A y \in KB : Max(KB) >= y
    BY <1>10, <1>11, MaxMember
  <2>2. PICK k \in 1..b : k = Max(KB)
    BY <1>10, <2>1
  <2>3. a + k \in KC /\ a + k \in 1..(a + b)
    BY <1>10, <2>1, <2>2
  <2>4. Max(KC) \in KC /\ \A y \in KC : Max(KC) >= y
    BY ONLY <1>10, <2>3, MaxMember, a \in Nat, b \in Nat, a + b \in Nat
  <2>5. PICK l \in 1..(a + b) : l = Max(KC)
    BY <1>10, <2>4
  <2>6. l >= a + k
    BY <2>3, <2>4, <2>5
  <2>7. l - a \in 1..b /\ a + (l - a) = l
    BY <2>6
  <2>8. l - a \in KB
    BY <1>10, <2>4, <2>5, <2>7
  <2>9. k >= l - a
    BY <2>1, <2>2, <2>8
  <2>10. l = a + k
    BY <2>6, <2>7, <2>9
  <2>11. C[l] = B[k]
    BY <1>6, <2>10
  <2> QED BY <1>3, <1>8, <1>9, <1>11, <2>2, <2>3, <2>5, <2>11
<1>12. CASE KB = {}
  <2>1. KC = KA
    BY <1>7, <1>10, <1>12
  <2>2. KA # {} => C[Max(KA)] = A[Max(KA)]
    <3>1. KA # {} => Max(KA) \in KA
      BY <1>10, MaxMember
    <3> QED BY <1>6, <1>10, <3>1
  <2> QED BY <1>3, <1>8, <1>9, <1>12, <2>1, <2>2
<1> QED BY <1>11, <1>12

LEMMA OneLayer ==
  ASSUME NEW d, IsDocument(d)
  PROVE  /\ AreDocuments(<<d>>)
         /\ \A s, f : /\ Spoken(<<d>>, s, f) <=> Speaks(d, s, f)
                      /\ LastWord(<<d>>, s, f) = IF Speaks(d, s, f) THEN Says(d, s, f) ELSE Null
                      /\ Speaks(d, s, f) => FieldOf(d, s, f) = Says(d, s, f)
                      /\ FieldOf(d, s, f) = LastWord(<<d>>, s, f)
<1>1. DOMAIN <<d>> = 1..1 /\ <<d>>[1] = d /\ 1..1 = {1}
  OBVIOUS
<1>2. AreDocuments(<<d>>)
  <2>1. <<d>> \in Seq({<<d>>[k] : k \in DOMAIN <<d>>})
    <3>1. d \in {<<d>>[k] : k \in DOMAIN <<d>>}
      BY <1>1
    <3> QED BY <3>1
  <2> QED BY <1>1, <2>1 DEF AreDocuments
<1>3. ASSUME NEW s, NEW f
      PROVE  /\ Spoken(<<d>>, s, f) <=> Speaks(d, s, f)
             /\ LastWord(<<d>>, s, f) = IF Speaks(d, s, f) THEN Says(d, s, f) ELSE Null
             /\ Speaks(d, s, f) => FieldOf(d, s, f) = Says(d, s, f)
             /\ FieldOf(d, s, f) = LastWord(<<d>>, s, f)
  <2> DEFINE K == {k \in DOMAIN <<d>> : Speaks(<<d>>[k], s, f)}
  <2>1. LastWord(<<d>>, s, f) = IF K = {} THEN Null ELSE Says(<<d>>[Max(K)], s, f)
    BY DEF LastWord
  <2>2. Spoken(<<d>>, s, f) <=> Speaks(d, s, f)
    BY <1>1 DEF Spoken
  <2>3. CASE Speaks(d, s, f)
    <3>1. K \in SUBSET (1..1) /\ 1 \in K /\ K # {}
      BY <1>1, <2>3
    <3>2. Max(K) = 1
      <4> HIDE DEF K
      <4> QED BY <3>1, MaxOf
    <3>3. LastWord(<<d>>, s, f) = Says(d, s, f)
      BY <1>1, <2>1, <3>1, <3>2
    <3> QED BY <2>2, <2>3, <3>3 DEF FieldOf, Speaks
  <2>4. CASE ~Speaks(d, s, f)
    <3>1. K = {}
      BY <1>1, <2>4
    <3> QED BY <2>1, <2>2, <2>4, <3>1 DEF FieldOf
  <2> QED BY <2>3, <2>4
<1> QED BY <1>2, <1>3

LEMMA NoLayer == IsDocument(<<>>) /\ \A s, f : ~Speaks(<<>>, s, f) /\ FieldOf(<<>>, s, f) = Null
<1>1. DOMAIN <<>> = {}
  OBVIOUS
<1> QED BY <1>1 DEF IsDocument, Speaks, FieldOf

\* What the chain of files says of a field, or forgets of it.
LEMMA ChainSays ==
  ASSUME NEW chain, AreDocuments(chain), chain # <<>>, NEW s, NEW f,
         NEW all, all = FoldLeft(MergePatch, <<>>, chain)
  PROVE  /\ IsDocument(all)
         /\ Speaks(all, s, f) => Spoken(chain, s, f) /\ Says(all, s, f) = LastWord(chain, s, f)
         /\ ~Speaks(all, s, f) /\ Spoken(chain, s, f) => ForgetsDeletion(chain, s, f)
<1>1. /\ IsDocument(all)
      /\ FieldOf(all, s, f) = IF Spoken(chain, s, f) THEN LastWord(chain, s, f) ELSE Null
      /\ Speaks(all, s, f) => Spoken(chain, s, f)
  BY NoLayer, MergedLayers
<1>2. Speaks(all, s, f) => FieldOf(all, s, f) = Says(all, s, f)
  BY <1>1, OneLayer
<1>3. ASSUME ~Speaks(all, s, f), Spoken(chain, s, f) PROVE ForgetsDeletion(chain, s, f)
  <2>1. IsNull(LastWord(chain, s, f))
    BY <1>1, <1>3, Kinds DEF FieldOf
  <2>2. PICK S : chain \in Seq(S)
    BY DEF AreDocuments
  <2>3. ASSUME ~(Len(chain) > 1)
        PROVE  \E k \in DOMAIN chain : s \in DOMAIN chain[k] /\ IsNull(chain[k][s])
    <3>1. Len(chain) = 1 /\ DOMAIN chain = 1..1
      <4>1. Len(chain) # 0 /\ Len(chain) \in Nat /\ DOMAIN chain = 1..Len(chain)
        BY <2>2, EmptySeq
      <4> QED BY <2>3, <4>1
    <3>2. PICK m : FoldsBy(m, <<>>, chain)
      BY <2>2, FoldOfLayers
    <3>3. all = MergePatch(<<>>, chain[1])
      <4>1. 1 \in 1..Len(chain) /\ 1 - 1 = 0 /\ Len(chain) = 1
        BY <3>1
      <4>2. m[1] = MergePatch(m[0], chain[1])
        BY <3>2, <4>1 DEF FoldsBy
      <4> QED BY <3>2, <4>1, <4>2 DEF FoldsBy
    <3>4. Speaks(chain[1], s, f)
      BY <1>3, <3>1 DEF Spoken
    <3>5. s \in DOMAIN chain[1] /\ s \notin DOMAIN <<>>
      BY <3>4 DEF Speaks
    <3>6. CASE ~IsNull(chain[1][s])
      <4>1. PICK none, file : none = <<>> /\ file = chain[1]
        OBVIOUS
      <4>2. /\ s \in DOMAIN MergePatch(none, file) <=>
                 /\ s \in DOMAIN none \/ s \in DOMAIN file
                 /\ s \in DOMAIN file => ~IsNull(file[s])
            /\ s \in DOMAIN MergePatch(none, file) => MergePatch(none, file)[s] = Merged(none, file, s)
        BY MergeSections
      <4>3. s \in DOMAIN all /\ all[s] = Merged(none, file, s)
        BY <3>3, <3>5, <3>6, <4>1, <4>2
      <4>4. all[s] = chain[1][s]
        BY <3>5, <4>1, <4>3 DEF Merged
      <4> QED BY <1>3, <3>4, <4>3, <4>4 DEF Speaks
    <3> QED BY <3>1, <3>5, <3>6
  <2> QED BY <2>1, <2>3 DEF ForgetsDeletion
<1> QED BY <1>1, <1>2, <1>3

\* resolveProfile decides each field by the last layer that speaks of it.
LEMMA ComposedSays ==
  ASSUME NEW defaults, IsDocument(defaults), NEW chain, AreDocuments(chain), chain # <<>>,
         NEW patches, AreDocuments(patches), NEW s, NEW f
  PROVE  LET said == FieldOf(Composed(defaults, chain, patches), s, f) IN
         \/ said = LastWord((<<defaults>> \o chain) \o patches, s, f)
         \/ /\ said = LastWord((<<defaults>> \o <<>>) \o patches, s, f)
            /\ ForgetsDeletion(chain, s, f)
<1>1. PICK all : all = FoldLeft(MergePatch, <<>>, chain)
  OBVIOUS
<1>2. PICK base : base = MergePatch(defaults, all)
  OBVIOUS
<1>3. Composed(defaults, chain, patches) = FoldLeft(MergePatch, base, patches)
  BY <1>1, <1>2 DEF Composed
<1>4. /\ IsDocument(all)
      /\ Speaks(all, s, f) => Spoken(chain, s, f) /\ Says(all, s, f) = LastWord(chain, s, f)
      /\ ~Speaks(all, s, f) /\ Spoken(chain, s, f) => ForgetsDeletion(chain, s, f)
  BY <1>1, ChainSays
<1>5. /\ IsDocument(base)
      /\ FieldOf(base, s, f) = IF Speaks(all, s, f) THEN Says(all, s, f) ELSE FieldOf(defaults, s, f)
  BY <1>2, <1>4, MergeDocument, MergeLaw
<1>6. FieldOf(Composed(defaults, chain, patches), s, f) =
        IF Spoken(patches, s, f) THEN LastWord(patches, s, f) ELSE FieldOf(base, s, f)
  BY <1>3, <1>5, MergedLayers
<1>7. /\ AreDocuments(<<defaults>>) /\ FieldOf(defaults, s, f) = LastWord(<<defaults>>, s, f)
  BY OneLayer
<1>8. <<defaults>> \o <<>> = <<defaults>>
  OBVIOUS
<1>9. PICK under : under = <<defaults>> \o chain
  OBVIOUS
<1>10. /\ AreDocuments(under)
       /\ LastWord(under, s, f) = IF Spoken(chain, s, f) THEN LastWord(chain, s, f) ELSE FieldOf(defaults, s, f)
  BY <1>7, <1>9, LastOfLayers
<1>11. /\ LastWord(under \o patches, s, f) =
            IF Spoken(patches, s, f) THEN LastWord(patches, s, f) ELSE LastWord(under, s, f)
       /\ LastWord(<<defaults>> \o patches, s, f) =
            IF Spoken(patches, s, f) THEN LastWord(patches, s, f) ELSE LastWord(<<defaults>>, s, f)
  BY <1>7, <1>10, LastOfLayers
<1> QED BY <1>4, <1>5, <1>6, <1>7, <1>8, <1>9, <1>10, <1>11

-----------------------------------------------------------------------------
(* The files, as the edits leave them, and what the two passes read.        *)

LEMMA SituationFiles ==
  ASSUME HostShape
  PROVE  LET files == DOMAIN situation.files IN
         /\ IsFiniteSet(files) /\ None \notin files
         /\ \A file \in files : IsFile(situation.files[file], files)
         /\ Len(situation.edits) \in Nat /\ DOMAIN situation.edits = 1..Len(situation.edits)
         /\ \A j \in DOMAIN situation.edits : \A file \in files : WritesTo(situation.edits[j], file) =>
              /\ IsFile(situation.edits[j].content, files)
              /\ situation.edits[j].content # situation.files[file]
              /\ \A i \in 1..(j - 1) : WritesTo(situation.edits[i], file) =>
                   situation.edits[i].content # situation.edits[j].content
         /\ \A p \in Procs :
              /\ Invocation(p).source = "data" \/ (Invocation(p).source = "file" /\ "entry" \in files)
              /\ Invocation(p).overlays \in Seq(files)
              /\ IsDocument(Invocation(p).cli)
<1>1. situation \in Situations
  BY DEF HostShape
<1> DEFINE files == DOMAIN situation.files
<1>3. /\ IsFiniteSet(files) /\ None \notin files
      /\ \A file \in files : IsFile(situation.files[file], files)
      /\ \E S : situation.edits \in Seq(S)
  BY <1>1, FilesAssumption
<1>4. \A j \in DOMAIN situation.edits : \A file \in files : WritesTo(situation.edits[j], file) =>
              /\ IsFile(situation.edits[j].content, files)
              /\ situation.edits[j].content # situation.files[file]
              /\ \A i \in 1..(j - 1) : WritesTo(situation.edits[i], file) =>
                   situation.edits[i].content # situation.edits[j].content
  BY <1>1, FilesAssumption
<1>5. \A p \in Procs :
              /\ Invocation(p).source \in {"data"} \cup (IF "entry" \in files THEN {"file"} ELSE {})
              /\ Invocation(p).overlays \in Seq(files)
              /\ IsDocument(Invocation(p).cli)
  BY <1>1, FilesAssumption DEF Procs, Invocation
<1>6. Len(situation.edits) \in Nat /\ DOMAIN situation.edits = 1..Len(situation.edits)
  BY <1>3
<1>7. \A p \in Procs : Invocation(p).source = "data" \/ (Invocation(p).source = "file" /\ "entry" \in files)
  BY <1>5
<1> QED BY <1>3, <1>4, <1>5, <1>6, <1>7, Zenon

\* What a file has after k edits is what was there, or what an edit wrote.
LEMMA FileContent ==
  ASSUME HostShape, NEW k \in 0..Len(situation.edits), NEW file \in DOMAIN situation.files
  PROVE  LET writes == {j \in 1..k : WritesTo(situation.edits[j], file)} IN
         /\ FilesAfter(k)[file] = IF writes = {} THEN situation.files[file]
                                  ELSE situation.edits[Max(writes)].content
         /\ writes # {} => Max(writes) \in writes /\ \A j \in writes : Max(writes) >= j
         /\ IsFile(FilesAfter(k)[file], DOMAIN situation.files)
<1>1. PICK writes : writes = {j \in 1..k : WritesTo(situation.edits[j], file)}
  OBVIOUS
<1>2. FilesAfter(k)[file] = IF writes = {} THEN situation.files[file]
                            ELSE situation.edits[Max(writes)].content
  BY <1>1 DEF FilesAfter
<1>3. k \in Nat /\ Len(situation.edits) \in Nat /\ DOMAIN situation.edits = 1..Len(situation.edits)
  BY SituationFiles
<1>4. writes # {} => Max(writes) \in writes /\ \A j \in writes : Max(writes) >= j
  <2>1. writes \in SUBSET (1..k)
    BY <1>1
  <2> QED BY <1>3, <2>1, MaxMember
<1>5. IsFile(FilesAfter(k)[file], DOMAIN situation.files)
  <2>1. CASE writes = {}
    BY <1>2, <2>1, SituationFiles
  <2>2. CASE writes # {}
    <3>1. PICK j \in 1..k : j = Max(writes) /\ WritesTo(situation.edits[j], file)
      BY <1>1, <1>4, <2>2
    <3>2. j \in DOMAIN situation.edits
      BY <1>3, <3>1
    <3>3. IsFile(situation.edits[j].content, DOMAIN situation.files)
      BY <3>1, <3>2, SituationFiles
    <3> QED BY <1>2, <2>2, <3>1, <3>3
  <2> QED BY <2>1, <2>2
<1> QED BY <1>1, <1>2, <1>4, <1>5

\* A file that has the same content at two moments had it all the time between.
LEMMA NoReturn ==
  ASSUME HostShape, NEW i \in 0..Len(situation.edits), NEW v \in 0..Len(situation.edits),
         NEW j \in 0..Len(situation.edits), i <= v, v <= j,
         NEW file \in DOMAIN situation.files, FilesAfter(i)[file] = FilesAfter(j)[file]
  PROVE  FilesAfter(v)[file] = FilesAfter(i)[file]
<1> DEFINE W(k) == {l \in 1..k : WritesTo(situation.edits[l], file)}
<1>1. \A k \in {i, v, j} :
        /\ FilesAfter(k)[file] = IF W(k) = {} THEN situation.files[file] ELSE situation.edits[Max(W(k))].content
        /\ W(k) # {} => Max(W(k)) \in W(k) /\ \A l \in W(k) : Max(W(k)) >= l
  BY FileContent
<1>2. /\ i \in Nat /\ v \in Nat /\ j \in Nat
      /\ Len(situation.edits) \in Nat /\ DOMAIN situation.edits = 1..Len(situation.edits)
      /\ \A k \in 1..j : k \in DOMAIN situation.edits
  BY SituationFiles
<1>3. W(i) \subseteq W(v) /\ W(v) \subseteq W(j)
  BY <1>2
<1>4. CASE W(j) \subseteq W(i)
  <2>1. W(v) = W(i)
    BY <1>3, <1>4
  <2> HIDE DEF W
  <2> QED BY <1>1, <2>1
<1>5. CASE ~(W(j) \subseteq W(i))
  <2>1. PICK w \in W(j) : w \notin W(i)
    BY <1>5
  <2>2. w > i /\ w \in 1..j
    BY <1>2, <2>1
  <2>3. PICK l \in 1..j : l = Max(W(j)) /\ WritesTo(situation.edits[l], file) /\ l >= w
    BY <1>1, <2>1
  <2>4. FilesAfter(j)[file] = situation.edits[l].content
    <3>1. W(j) # {}
      BY <2>1
    <3> HIDE DEF W
    <3> QED BY <1>1, <2>3, <3>1
  <2>5. /\ situation.edits[l].content # situation.files[file]
        /\ \A k \in 1..(l - 1) : WritesTo(situation.edits[k], file) =>
             situation.edits[k].content # situation.edits[l].content
    BY <1>2, <2>3, SituationFiles
  <2>6. CASE W(i) = {}
    BY <1>1, <2>4, <2>5, <2>6
  <2>7. CASE W(i) # {}
    <3>1. PICK k \in 1..i : k = Max(W(i)) /\ WritesTo(situation.edits[k], file)
      BY <1>1, <2>7
    <3>2. k \in 1..(l - 1)
      BY <1>2, <2>2, <2>3, <3>1
    <3>3. FilesAfter(i)[file] = situation.edits[k].content
      <4> HIDE DEF W
      <4> QED BY <1>1, <2>7, <3>1
    <3> QED BY <2>4, <2>5, <3>1, <3>2, <3>3
  <2> QED BY <2>6, <2>7
<1> QED BY <1>4, <1>5

\* Each source has the content that its file had after one of the edits i..j.
ReadAfter(sources, i, j) ==
  \A k \in DOMAIN sources :
    /\ sources[k].file \in DOMAIN situation.files
    /\ \E t \in i..j : sources[k].content = FilesAfter(t)[sources[k].file]

\* What a pass over the files has read so far, in the order of loadFile.
Linked(p) ==
  LET chain == proc[p].chain
      overlays == proc[p].overlays
  IN  /\ IsList(chain) /\ IsList(overlays)
      /\ chain # <<>> => Invocation(p).source = "file" /\ chain[1].file = "entry"
      /\ \A k \in DOMAIN chain : k # Len(chain) => chain[k + 1].file = chain[k].content.extends
      /\ \A j, k \in DOMAIN chain : j # k => chain[j].file # chain[k].file
      /\ Len(overlays) <= Len(Invocation(p).overlays)
      /\ \A k \in DOMAIN overlays : overlays[k].file = Invocation(p).overlays[k]
      /\ overlays # <<>> => ~FollowsChain(p)

ReadSoFar(p, i, j) == ReadAfter(proc[p].chain, i, j) /\ ReadAfter(proc[p].overlays, i, j)

\* Of the two passes, the first is over before the second begins.
Reading(p) ==
  /\ Linked(p)
  /\ IF proc[p].checked = None THEN ReadSoFar(p, proc[p].since, edited)
     ELSE \E v \in proc[p].since..edited :
            /\ proc[p].checked = <<proc[p].checked[1], proc[p].checked[2]>>
            /\ ReadAfter(proc[p].checked[1], proc[p].since, v)
            /\ ReadAfter(proc[p].checked[2], proc[p].since, v)
            /\ ReadSoFar(p, v, edited)

\* Two passes that read the same read what was there between them.
Resolves(p) ==
  /\ Linked(p) /\ ~FollowsChain(p) /\ Len(proc[p].overlays) = Len(Invocation(p).overlays)
  /\ proc[p].profile = Configuration(p)
  /\ \E v \in proc[p].since..edited : ReadSoFar(p, v, v)

SourceFacts(p) ==
  /\ proc[p].pc \in {"reading", "hashing"} => proc[p].since \in 0..edited
  /\ proc[p].pc = "reading" => Reading(p)
  /\ proc[p].pc = "hashing" => Resolves(p)

SnapshotInv ==
  /\ edited \in 0..Len(situation.edits)
  /\ \A p \in Procs : SourceFacts(p)

LEMMA FilesSame == ASSUME UNCHANGED situation, NEW t PROVE FilesAfter(t)' = FilesAfter(t)
BY DEF FilesAfter

LEMMA AfterSame ==
  ASSUME UNCHANGED situation, NEW sources, NEW i, NEW j
  PROVE  ReadAfter(sources, i, j)' <=> ReadAfter(sources, i, j)
<1>1. \A t : FilesAfter(t)' = FilesAfter(t)
  BY FilesSame
<1> QED BY <1>1 DEF ReadAfter

LEMMA ReadLonger ==
  ASSUME NEW sources, NEW i \in Nat, NEW j \in Nat, NEW k \in Nat, j <= k, ReadAfter(sources, i, j)
  PROVE  ReadAfter(sources, i, k)
<1>1. \A t \in i..j : t \in i..k
  OBVIOUS
<1> QED BY <1>1 DEF ReadAfter

LEMMA ReadOneMore ==
  ASSUME NEW old, IsList(old), NEW e, NEW new, new = Append(old, e),
         NEW i \in Nat, NEW j \in Nat, i <= j, ReadAfter(old, i, j),
         e.file \in DOMAIN situation.files, e.content = FilesAfter(j)[e.file]
  PROVE  ReadAfter(new, i, j)
<1>1. Extends(old, new) /\ new[Len(new)] = e /\ DOMAIN new = DOMAIN old \cup {Len(new)}
  <2>1. IsList(old) /\ new = Append(old, e)
    OBVIOUS
  <2>2. Extends(old, new)
    BY ONLY <2>1, Appended
  <2>3. new[Len(new)] = e /\ DOMAIN new = DOMAIN old \cup {Len(new)}
    BY ONLY <2>1, Appended
  <2> QED BY <2>2, <2>3
<1>2. j \in i..j
  OBVIOUS
<1> QED BY <1>1, <1>2 DEF ReadAfter, Extends

\* A pass that begins.
LEMMA FreshReading ==
  ASSUME HostShape, NEW p \in Procs, UNCHANGED <<situation, edited>>,
         proc'[p].chain = <<>>, proc'[p].overlays = <<>>,
         proc'[p].checked = None, proc'[p].since = edited
  PROVE  Reading(p)' /\ proc'[p].since \in 0..edited'
<1>1. DOMAIN <<>> = {} /\ Len(<<>>) = 0 /\ IsList(<<>>)
  BY EmptyIsList
<1>2. Len(Invocation(p).overlays) \in Nat /\ Invocation(p)' = Invocation(p)
  BY SituationFiles DEF Invocation
<1>3. Linked(p)'
  BY <1>1, <1>2 DEF Linked
<1>4. ReadSoFar(p, proc[p].since, edited)'
  <2>1. \A i, j : ReadAfter(<<>>, i, j)'
    BY <1>1 DEF ReadAfter
  <2> QED BY <2>1 DEF ReadSoFar
<1>5. proc'[p].since \in 0..edited'
  BY DEF HostShape
<1> QED BY <1>3, <1>4, <1>5 DEF Reading

\* What the passes of p are about.
SourceFields == {"since", "chain", "overlays", "checked", "profile"}

LEMMA LinkedKept ==
  ASSUME NEW p, UNCHANGED situation,
         proc'[p].chain = proc[p].chain, proc'[p].overlays = proc[p].overlays
  PROVE  /\ Linked(p)' <=> Linked(p)
         /\ FollowsChain(p)' <=> FollowsChain(p)
         /\ Configuration(p)' = Configuration(p)
<1>1. Invocation(p)' = Invocation(p)
  BY DEF Invocation
<1> QED BY <1>1 DEF Linked, FollowsChain, Configuration

LEMMA SourcesKept ==
  ASSUME NEW p, UNCHANGED situation, edited \in Nat, edited' \in Nat, edited <= edited',
         \A f \in SourceFields : proc'[p][f] = proc[p][f],
         proc[p].since \in 0..edited
  PROVE  /\ proc'[p].since \in 0..edited'
         /\ Reading(p) => Reading(p)'
         /\ Resolves(p) => Resolves(p)'
<1>1. /\ proc'[p].chain = proc[p].chain /\ proc'[p].overlays = proc[p].overlays
      /\ proc'[p].since = proc[p].since /\ proc'[p].checked = proc[p].checked
      /\ proc'[p].profile = proc[p].profile
      /\ Invocation(p)' = Invocation(p)
  BY DEF SourceFields, Invocation
<1>2. /\ Linked(p)' <=> Linked(p)
      /\ FollowsChain(p)' <=> FollowsChain(p)
      /\ Configuration(p)' = Configuration(p)
  BY <1>1, LinkedKept
<1>3. \A s, i, j : ReadAfter(s, i, j)' <=> ReadAfter(s, i, j)
  BY AfterSame
<1>4. \A i, j : ReadSoFar(p, i, j)' <=> ReadSoFar(p, i, j)
  <2> SUFFICES ASSUME NEW i, NEW j PROVE ReadSoFar(p, i, j)' <=> ReadSoFar(p, i, j)
    OBVIOUS
  <2>1. \A t : FilesAfter(t)' = FilesAfter(t)
    BY FilesSame
  <2> QED BY <1>1, <2>1 DEF ReadSoFar, ReadAfter
<1>5. \A i \in Nat : ReadSoFar(p, i, edited) => ReadSoFar(p, i, edited')
  BY ReadLonger DEF ReadSoFar
<1>6. \A v \in proc[p].since..edited : v \in Nat /\ v \in proc[p].since..edited'
  OBVIOUS
<1>7. proc'[p].since \in 0..edited' /\ proc[p].since \in Nat
  BY <1>1
<1>8. ASSUME Resolves(p) PROVE Resolves(p)'
  <2>1. PICK v \in proc[p].since..edited : ReadSoFar(p, v, v)
    BY <1>8 DEF Resolves
  <2>2. ReadSoFar(p, v, v)' /\ v \in proc'[p].since..edited'
    BY <1>1, <1>4, <1>6, <2>1
  <2>3. /\ Linked(p)' /\ ~FollowsChain(p)'
        /\ Len(proc'[p].overlays) = Len(Invocation(p)'.overlays)
        /\ proc'[p].profile = Configuration(p)'
    BY <1>1, <1>2, <1>8 DEF Resolves
  <2> QED BY <2>2, <2>3 DEF Resolves
<1>9. ASSUME Reading(p) PROVE Reading(p)'
  <2>1. CASE proc[p].checked = None
    <3>1. ReadSoFar(p, proc[p].since, edited)
      BY <1>9, <2>1 DEF Reading
    <3>2. ReadSoFar(p, proc[p].since, edited')
      BY <1>5, <1>7, <3>1
    <3>3. ReadSoFar(p, proc[p].since, edited)'
      <4>1. \A t : FilesAfter(t)' = FilesAfter(t)
        BY FilesSame
      <4> QED BY <1>1, <3>2, <4>1 DEF ReadSoFar, ReadAfter
    <3> QED BY <1>1, <1>2, <1>9, <2>1, <3>3 DEF Reading
  <2>2. CASE proc[p].checked # None
    <3>1. PICK v \in proc[p].since..edited :
            /\ proc[p].checked = <<proc[p].checked[1], proc[p].checked[2]>>
            /\ ReadAfter(proc[p].checked[1], proc[p].since, v)
            /\ ReadAfter(proc[p].checked[2], proc[p].since, v)
            /\ ReadSoFar(p, v, edited)
      BY <1>9, <2>2 DEF Reading
    <3>2. ReadSoFar(p, v, edited') /\ v \in proc'[p].since..edited'
      BY <1>1, <1>5, <1>6, <3>1
    <3>3. \A t : FilesAfter(t)' = FilesAfter(t)
      BY FilesSame
    <3>4. /\ ReadAfter(proc[p].checked[1], proc[p].since, v)'
          /\ ReadAfter(proc[p].checked[2], proc[p].since, v)'
      BY <1>1, <3>1, <3>3 DEF ReadAfter
    <3>5. ReadSoFar(p, v, edited)'
      BY <1>1, <3>2, <3>3 DEF ReadSoFar, ReadAfter
    <3> QED BY <1>1, <1>2, <1>9, <2>2, <3>1, <3>2, <3>4, <3>5 DEF Reading
  <2> QED BY <2>1, <2>2
<1> QED BY <1>7, <1>8, <1>9

\* The last file of a chain has a content that a Profile file may have.
LEMMA LastOfChain ==
  ASSUME HostShape, NEW chain, IsList(chain), chain # <<>>,
         NEW i \in Nat, NEW j \in 0..Len(situation.edits), ReadAfter(chain, i, j)
  PROVE  /\ Len(chain) \in DOMAIN chain /\ Last(chain) = chain[Len(chain)]
         /\ Last(chain).content.extends \in (DOMAIN situation.files) \cup {None}
<1>1. PICK S : chain \in Seq(S)
  BY DEF IsList
<1>2. Len(chain) \in DOMAIN chain /\ Last(chain) = chain[Len(chain)]
  <2>1. Len(chain) # 0 /\ Len(chain) \in Nat /\ DOMAIN chain = 1..Len(chain)
    BY <1>1, EmptySeq
  <2> QED BY <2>1 DEF Last
<1>3. PICK k : k = Len(chain) /\ k \in DOMAIN chain
  BY <1>2
<1>4. /\ chain[k].file \in DOMAIN situation.files
      /\ \E t \in i..j : chain[k].content = FilesAfter(t)[chain[k].file]
  BY <1>3 DEF ReadAfter
<1>5. PICK t \in i..j : chain[k].content = FilesAfter(t)[chain[k].file]
  BY <1>4
<1>6. t \in 0..Len(situation.edits)
  BY SituationFiles
<1>7. IsFile(chain[k].content, DOMAIN situation.files)
  BY <1>4, <1>5, <1>6, FileContent
<1> QED BY <1>2, <1>3, <1>7 DEF IsFile

\* loadFile or loadOverlay has read one more source.
LEMMA SourceRead ==
  ASSUME HostShape, NEW p \in Procs, UNCHANGED <<situation, edited>>, NEW i \in Nat, i <= edited,
         edited \in 0..Len(situation.edits), Linked(p), ReadSoFar(p, i, edited),
         NextFile(p) # None, NEW source,
         source = [file |-> NextFile(p), content |-> FilesAfter(edited)[NextFile(p)]],
         \/ /\ FollowsChain(p)
            /\ \A k \in DOMAIN proc[p].chain : proc[p].chain[k].file # NextFile(p)
            /\ proc'[p].chain = Append(proc[p].chain, source)
            /\ proc'[p].overlays = proc[p].overlays
         \/ /\ ~FollowsChain(p)
            /\ proc'[p].chain = proc[p].chain
            /\ proc'[p].overlays = Append(proc[p].overlays, source)
  PROVE  /\ Linked(p)'
         /\ ReadAfter(proc'[p].chain, i, edited) /\ ReadAfter(proc'[p].overlays, i, edited)
<1>1. PICK chain, overlays, file :
        /\ chain = proc[p].chain /\ overlays = proc[p].overlays /\ file = NextFile(p)
  OBVIOUS
<1>2. /\ IsList(chain) /\ IsList(overlays) /\ edited \in Nat
      /\ ReadAfter(chain, i, edited) /\ ReadAfter(overlays, i, edited)
  BY <1>1 DEF Linked, ReadSoFar, HostShape
<1>3. source.file = file /\ source.content = FilesAfter(edited)[file]
  BY <1>1
<1>4. /\ Invocation(p)' = Invocation(p)
      /\ Invocation(p).overlays \in Seq(DOMAIN situation.files)
      /\ Invocation(p).source = "data" \/ (Invocation(p).source = "file" /\ "entry" \in DOMAIN situation.files)
  BY SituationFiles DEF Invocation
<1>5. CASE /\ FollowsChain(p)
           /\ \A k \in DOMAIN proc[p].chain : proc[p].chain[k].file # NextFile(p)
           /\ proc'[p].chain = Append(proc[p].chain, source)
           /\ proc'[p].overlays = proc[p].overlays
  <2>1. PICK new : new = Append(chain, source)
    OBVIOUS
  <2>2. /\ IsList(new) /\ Extends(chain, new) /\ new[Len(new)] = source
        /\ DOMAIN new = DOMAIN chain \cup {Len(new)} /\ Len(new) = Len(chain) + 1 /\ Len(chain) \in Nat
        /\ (chain = <<>> => new[1] = source)
    <3>1. IsList(chain) /\ new = Append(chain, source)
      BY <1>2, <2>1
    <3>2. IsList(new) /\ Extends(chain, new) /\ new[Len(new)] = source
      BY ONLY <3>1, Appended
    <3>3. DOMAIN new = DOMAIN chain \cup {Len(new)} /\ Len(new) = Len(chain) + 1 /\ Len(chain) \in Nat
      BY ONLY <3>1, Appended
    <3>4. chain = <<>> => new[1] = source
      BY ONLY <3>1, Appended
    <3> QED BY <3>2, <3>3, <3>4
  <2>3. overlays = <<>>
    BY <1>1, <1>5 DEF Linked
  <2>4. /\ file = IF chain = <<>> THEN "entry" ELSE Last(chain).content.extends
        /\ IF chain = <<>> THEN Invocation(p).source = "file" ELSE Last(chain).content.extends # None
    BY <1>1, <1>5 DEF NextFile, FollowsChain
  <2>5. chain # <<>> => /\ Len(chain) \in DOMAIN chain /\ Last(chain) = chain[Len(chain)]
                        /\ Last(chain).content.extends \in (DOMAIN situation.files) \cup {None}
    BY <1>2, LastOfChain
  <2>6. file \in DOMAIN situation.files
    BY <1>4, <2>4, <2>5
  <2>7. ReadAfter(new, i, edited)
    BY <1>2, <1>3, <2>1, <2>6, ReadOneMore
  <2>8. Linked(p)'
    <3>1. \A k \in DOMAIN chain : k \in 1..Len(chain) /\ k # Len(new) /\ new[k] = chain[k]
      <4>1. PICK S : chain \in Seq(S)
        BY <1>2 DEF IsList
      <4>2. DOMAIN chain = 1..Len(chain)
        BY <4>1
      <4> QED BY <2>2, <4>2 DEF Extends
    <3>2. Invocation(p).source = "file" /\ new[1].file = "entry"
      <4>1. CASE chain = <<>>
        BY <1>3, <2>2, <2>4, <4>1
      <4>2. CASE chain # <<>>
        <5>1. Invocation(p).source = "file" /\ chain[1].file = "entry"
          BY <1>1, <4>2 DEF Linked
        <5>2. 1 \in DOMAIN chain
          BY <1>2, <4>2, NotEmpty
        <5> QED BY <3>1, <5>1, <5>2
      <4> QED BY <4>1, <4>2
    <3>3. ASSUME NEW k \in DOMAIN new, k # Len(new) PROVE new[k + 1].file = new[k].content.extends
      <4>1. k \in DOMAIN chain /\ new[k] = chain[k]
        BY <2>2, <3>1, <3>3
      <4>2. CASE k = Len(chain)
        <5>1. chain # <<>> /\ k + 1 = Len(new)
          BY <2>2, <4>1, <4>2
        <5> QED BY <1>3, <2>2, <2>4, <2>5, <4>1, <4>2, <5>1
      <4>3. CASE k # Len(chain)
        <5>1. chain[k + 1].file = chain[k].content.extends
          BY <1>1, <4>1, <4>3 DEF Linked
        <5>2. PICK S : chain \in Seq(S)
          BY <1>2 DEF IsList
        <5>3. k + 1 \in DOMAIN chain
          BY <4>1, <4>3, <5>2
        <5> QED BY <3>1, <4>1, <5>1, <5>3
      <4> QED BY <4>2, <4>3
    <3>4. ASSUME NEW j \in DOMAIN new, NEW k \in DOMAIN new, j # k PROVE new[j].file # new[k].file
      <4>1. \A l \in DOMAIN chain : chain[l].file # file
        BY <1>1, <1>5
      <4>2. \A l, m \in DOMAIN chain : l # m => chain[l].file # chain[m].file
        BY <1>1 DEF Linked
      <4>3. CASE j \in DOMAIN chain /\ k \in DOMAIN chain
        BY <3>1, <3>4, <4>2, <4>3
      <4>4. CASE j = Len(new) /\ k \in DOMAIN chain
        BY <1>3, <2>2, <3>1, <4>1, <4>4
      <4>5. CASE j \in DOMAIN chain /\ k = Len(new)
        BY <1>3, <2>2, <3>1, <4>1, <4>5
      <4> QED BY <2>2, <3>4, <4>3, <4>4, <4>5
    <3>5. proc'[p].chain = new /\ proc'[p].overlays = <<>>
      BY <1>1, <1>5, <2>1, <2>3
    <3>6. IsList(<<>>) /\ DOMAIN <<>> = {} /\ Len(<<>>) <= Len(Invocation(p).overlays)
      BY <1>4, EmptyIsList
    <3> QED BY <1>4, <2>2, <3>2, <3>3, <3>4, <3>5, <3>6 DEF Linked
  <2> QED BY <1>1, <1>2, <1>5, <2>1, <2>7, <2>8
<1>6. CASE /\ ~FollowsChain(p)
           /\ proc'[p].chain = proc[p].chain
           /\ proc'[p].overlays = Append(proc[p].overlays, source)
  <2>1. PICK new : new = Append(overlays, source)
    OBVIOUS
  <2>2. /\ IsList(new) /\ Extends(overlays, new) /\ new[Len(new)] = source
        /\ DOMAIN new = DOMAIN overlays \cup {Len(new)} /\ Len(new) = Len(overlays) + 1
        /\ Len(overlays) \in Nat
    <3>1. IsList(overlays) /\ new = Append(overlays, source)
      BY <1>2, <2>1
    <3>2. IsList(new) /\ Extends(overlays, new) /\ new[Len(new)] = source
      BY ONLY <3>1, Appended
    <3>3. DOMAIN new = DOMAIN overlays \cup {Len(new)} /\ Len(new) = Len(overlays) + 1 /\ Len(overlays) \in Nat
      BY ONLY <3>1, Appended
    <3> QED BY <3>2, <3>3
  <2>3. /\ Len(overlays) < Len(Invocation(p).overlays)
        /\ file = Invocation(p).overlays[Len(new)]
    BY <1>1, <1>6, <2>2 DEF NextFile
  <2>4. file \in DOMAIN situation.files
    BY <1>4, <2>2, <2>3
  <2>5. ReadAfter(new, i, edited)
    BY <1>2, <1>3, <2>1, <2>4, ReadOneMore
  <2>6. \A k \in DOMAIN new : new[k].file = Invocation(p).overlays[k]
    <3>1. \A k \in DOMAIN overlays : overlays[k].file = Invocation(p).overlays[k]
      BY <1>1 DEF Linked
    <3> QED BY <1>3, <2>2, <2>3, <3>1 DEF Extends
  <2>7. FollowsChain(p)' <=> FollowsChain(p)
    BY <1>4, <1>6 DEF FollowsChain
  <2>8. Len(new) <= Len(Invocation(p).overlays)
    BY <1>4, <2>2, <2>3
  <2>9. proc'[p].overlays = new /\ proc'[p].chain = proc[p].chain
    BY <1>1, <1>6, <2>1
  <2>10. Linked(p)'
    <3>1. /\ proc'[p].chain = chain /\ proc'[p].overlays = new
          /\ Invocation(p)' = Invocation(p) /\ ~FollowsChain(p)'
      BY <1>1, <1>4, <1>6, <2>7, <2>9
    <3>2. /\ IsList(chain)
          /\ chain # <<>> => Invocation(p).source = "file" /\ chain[1].file = "entry"
          /\ \A k \in DOMAIN chain : k # Len(chain) => chain[k + 1].file = chain[k].content.extends
          /\ \A j, k \in DOMAIN chain : j # k => chain[j].file # chain[k].file
      BY <1>1 DEF Linked
    <3>3. IsList(new)
      BY <2>2
    <3> QED BY ONLY <2>6, <2>8, <3>1, <3>2, <3>3 DEF Linked
  <2> QED BY <1>1, <1>2, <2>5, <2>9, <2>10
<1> QED BY <1>5, <1>6

\* All that the pass has to read is read.
LEMMA AllRead ==
  ASSUME HostShape, NEW p \in Procs, Linked(p), NEW i \in Nat, ReadSoFar(p, i, edited),
         edited \in 0..Len(situation.edits), NextFile(p) = None
  PROVE  ~FollowsChain(p) /\ Len(proc[p].overlays) = Len(Invocation(p).overlays)
<1>1. /\ None \notin DOMAIN situation.files
      /\ Invocation(p).overlays \in Seq(DOMAIN situation.files)
      /\ Invocation(p).source = "data" \/ (Invocation(p).source = "file" /\ "entry" \in DOMAIN situation.files)
  BY SituationFiles
<1>2. ~FollowsChain(p)
  <2> SUFFICES ASSUME FollowsChain(p) PROVE FALSE
    OBVIOUS
  <2>1. CASE proc[p].chain = <<>>
    BY <1>1, <2>1 DEF FollowsChain, NextFile
  <2>2. CASE proc[p].chain # <<>>
    BY <2>2 DEF FollowsChain, NextFile
  <2> QED BY <2>1, <2>2
<1>3. ~(Len(proc[p].overlays) < Len(Invocation(p).overlays))
  <2> SUFFICES ASSUME Len(proc[p].overlays) < Len(Invocation(p).overlays) PROVE FALSE
    OBVIOUS
  <2>1. PICK S : proc[p].overlays \in Seq(S)
    BY DEF Linked, IsList
  <2>2. Len(proc[p].overlays) + 1 \in 1..Len(Invocation(p).overlays)
    BY <1>1, <2>1
  <2>3. Invocation(p).overlays[Len(proc[p].overlays) + 1] \in DOMAIN situation.files
    BY <1>1, <2>2
  <2> QED BY <1>1, <1>2, <2>3 DEF NextFile
<1>4. /\ Len(proc[p].overlays) <= Len(Invocation(p).overlays)
      /\ Len(proc[p].overlays) \in Nat /\ Len(Invocation(p).overlays) \in Nat
  <2>1. PICK S : proc[p].overlays \in Seq(S)
    BY DEF Linked, IsList
  <2> QED BY <1>1, <2>1 DEF Linked
<1> QED BY <1>2, <1>3, <1>4

\* What was read alike before and after v was there at v.
LEMMA ReadBetween ==
  ASSUME HostShape, NEW sources, NEW i \in Nat, NEW v \in Nat, i <= v, v <= edited,
         edited \in 0..Len(situation.edits),
         ReadAfter(sources, i, v), ReadAfter(sources, v, edited)
  PROVE  ReadAfter(sources, v, v)
<1>1. Len(situation.edits) \in Nat
  BY SituationFiles
<1>2. ASSUME NEW k \in DOMAIN sources
      PROVE  /\ sources[k].file \in DOMAIN situation.files
             /\ sources[k].content = FilesAfter(v)[sources[k].file]
  <2>1. PICK file : file = sources[k].file /\ file \in DOMAIN situation.files
    BY <1>2 DEF ReadAfter
  <2>2. PICK s \in i..v : sources[k].content = FilesAfter(s)[file]
    BY <1>2, <2>1 DEF ReadAfter
  <2>3. PICK t \in v..edited : sources[k].content = FilesAfter(t)[file]
    BY <1>2, <2>1 DEF ReadAfter
  <2>4. /\ s \in 0..Len(situation.edits) /\ v \in 0..Len(situation.edits)
        /\ t \in 0..Len(situation.edits) /\ s <= v /\ v <= t
    BY <1>1
  <2>5. FilesAfter(v)[file] = FilesAfter(s)[file]
    <3>1. FilesAfter(s)[file] = FilesAfter(t)[file]
      BY <2>2, <2>3
    <3> QED BY ONLY HostShape, <2>1, <2>4, <3>1, NoReturn
  <2> QED BY <2>1, <2>2, <2>5
<1>3. v \in v..v
  OBVIOUS
<1> QED BY <1>2, <1>3 DEF ReadAfter

LEMMA StillReading ==
  ASSUME HostShape, NEW p \in Procs, SnapshotInv, proc[p].pc = "reading", ReadSource(p)
  PROVE  proc'[p].pc = "failed" \/ (Reading(p)' /\ proc'[p].since \in 0..edited')
<1>1. UNCHANGED <<situation, edited>> /\ edited \in Nat
  BY DEF ReadSource, HostShape
<1>2. /\ Reading(p) /\ proc[p].since \in 0..edited /\ edited \in 0..Len(situation.edits)
  BY DEF SnapshotInv, SourceFacts
<1>3. PICK source : source = [file |-> NextFile(p), content |-> FilesAfter(edited)[NextFile(p)]]
  OBVIOUS
<1>4. \/ Goto(p, "failed")
      \/ /\ FollowsChain(p)
         /\ \A k \in DOMAIN proc[p].chain : proc[p].chain[k].file # NextFile(p)
         /\ proc' = [proc EXCEPT ![p].chain = Append(proc[p].chain, source)]
      \/ /\ ~FollowsChain(p)
         /\ proc' = [proc EXCEPT ![p].overlays = Append(proc[p].overlays, source)]
  BY <1>3 DEF ReadSource
<1>5. NextFile(p) # None
  BY DEF ReadSource
<1>6. CASE Goto(p, "failed")
  BY <1>1, <1>6, GotoKeeps
<1>7. CASE ~Goto(p, "failed")
  <2>1. \/ /\ FollowsChain(p)
           /\ \A k \in DOMAIN proc[p].chain : proc[p].chain[k].file # NextFile(p)
           /\ proc'[p].chain = Append(proc[p].chain, source)
           /\ proc'[p].overlays = proc[p].overlays
        \/ /\ ~FollowsChain(p)
           /\ proc'[p].chain = proc[p].chain
           /\ proc'[p].overlays = Append(proc[p].overlays, source)
    BY <1>4, <1>7 DEF HostShape, Fields
  <2>2. proc'[p].since = proc[p].since /\ proc'[p].checked = proc[p].checked
    BY <1>4, <1>7 DEF HostShape, Fields
  <2>3. \A i \in 0..edited : ReadSoFar(p, i, edited) =>
          /\ Linked(p)'
          /\ ReadAfter(proc'[p].chain, i, edited) /\ ReadAfter(proc'[p].overlays, i, edited)
    <3> TAKE i \in 0..edited
    <3> HAVE ReadSoFar(p, i, edited)
    <3>1. Linked(p) /\ i \in Nat /\ i <= edited
      BY <1>1, <1>2 DEF Reading
    <3> QED BY <1>1, <1>2, <1>3, <1>5, <2>1, <3>1, SourceRead
  <2>4. \A t : FilesAfter(t)' = FilesAfter(t)
    BY <1>1, FilesSame
  <2>5. \A i : ReadAfter(proc'[p].chain, i, edited) /\ ReadAfter(proc'[p].overlays, i, edited)
          => ReadSoFar(p, i, edited)'
    BY <1>1, <2>4 DEF ReadSoFar, ReadAfter
  <2>6. CASE proc[p].checked = None
    <3>1. ReadSoFar(p, proc[p].since, edited)
      BY <1>2, <2>6 DEF Reading
    <3>2. PICK since \in 0..edited : since = proc[p].since
      BY <1>2
    <3>3. Linked(p)' /\ ReadAfter(proc'[p].chain, since, edited) /\ ReadAfter(proc'[p].overlays, since, edited)
      BY <2>3, <3>1, <3>2
    <3>4. ReadSoFar(p, proc[p].since, edited)'
      BY <1>1, <2>2, <2>4, <3>2, <3>3 DEF ReadSoFar, ReadAfter
    <3> QED BY <1>1, <1>2, <2>2, <2>6, <3>3, <3>4 DEF Reading
  <2>7. CASE proc[p].checked # None
    <3>1. PICK v \in proc[p].since..edited :
            /\ proc[p].checked = <<proc[p].checked[1], proc[p].checked[2]>>
            /\ ReadAfter(proc[p].checked[1], proc[p].since, v)
            /\ ReadAfter(proc[p].checked[2], proc[p].since, v)
            /\ ReadSoFar(p, v, edited)
      BY <1>2, <2>7 DEF Reading
    <3>2. v \in 0..edited
      BY <1>2
    <3>3. Linked(p)' /\ ReadSoFar(p, v, edited)'
      BY <2>3, <2>5, <3>1, <3>2
    <3>4. /\ ReadAfter(proc[p].checked[1], proc[p].since, v)'
          /\ ReadAfter(proc[p].checked[2], proc[p].since, v)'
      BY <1>1, <2>2, <2>4, <3>1 DEF ReadAfter
    <3> QED BY <1>1, <1>2, <2>2, <2>7, <3>1, <3>3, <3>4 DEF Reading
  <2> QED BY <1>1, <1>2, <2>2, <2>6, <2>7
<1> QED BY <1>6, <1>7

LEMMA FirstPassOver ==
  ASSUME HostShape, NEW p \in Procs, SnapshotInv, proc[p].pc = "reading", Validated(p)
  PROVE  proc'[p].pc # "hashing" /\ proc'[p].since \in 0..edited' /\ Reading(p)'
<1>1. /\ UNCHANGED <<situation, edited>> /\ edited \in Nat /\ proc[p].checked = None
      /\ Reading(p) /\ proc[p].since \in 0..edited
  BY DEF Validated, HostShape, SnapshotInv, SourceFacts
<1>2. PICK place : /\ place \in {"failed", "done", "reading"}
                   /\ proc' = [proc EXCEPT ![p].pc = place, ![p].plan = LibraryPlan,
                                 ![p].checked = <<proc[p].chain, proc[p].overlays>>,
                                 ![p].chain = <<>>, ![p].overlays = <<>>]
  <2>1. PICK place : place = IF ~Accepted(p) THEN "failed"
                             ELSE IF Invocation(p).command = "validate" THEN "done" ELSE "reading"
    OBVIOUS
  <2>2. place \in {"failed", "done", "reading"}
    BY <2>1
  <2>3. proc' = [proc EXCEPT ![p].pc = place, ![p].plan = LibraryPlan,
                             ![p].checked = <<proc[p].chain, proc[p].overlays>>,
                             ![p].chain = <<>>, ![p].overlays = <<>>]
    BY <2>1 DEF Validated
  <2> QED BY <2>2, <2>3
<1>3. /\ proc'[p].pc \in {"failed", "done", "reading"} /\ proc'[p].since = proc[p].since
      /\ proc'[p].chain = <<>> /\ proc'[p].overlays = <<>>
      /\ proc'[p].checked = <<proc[p].chain, proc[p].overlays>>
  BY <1>2 DEF HostShape, Fields
<1>4. /\ ReadAfter(proc[p].chain, proc[p].since, edited)
      /\ ReadAfter(proc[p].overlays, proc[p].since, edited)
  BY <1>1 DEF Reading, ReadSoFar
<1>5. \A t : FilesAfter(t)' = FilesAfter(t)
  BY <1>1, FilesSame
<1>6. DOMAIN <<>> = {} /\ Len(<<>>) = 0 /\ IsList(<<>>)
  BY EmptyIsList
<1>7. Linked(p)'
  <2>1. Len(Invocation(p).overlays) \in Nat /\ Invocation(p)' = Invocation(p)
    BY <1>1, SituationFiles DEF Invocation
  <2> QED BY <1>3, <1>6, <2>1 DEF Linked
<1>8. \A i, j : ReadSoFar(p, i, j)'
  BY <1>3, <1>6 DEF ReadSoFar, ReadAfter
<1>9. ASSUME proc'[p].checked = None PROVE Reading(p)'
  BY <1>7, <1>8, <1>9 DEF Reading
<1>10. ASSUME proc'[p].checked # None PROVE Reading(p)'
  <2>1. edited \in proc[p].since..edited /\ edited' = edited
    BY <1>1
  <2>2. proc'[p].checked[1] = proc[p].chain /\ proc'[p].checked[2] = proc[p].overlays
    BY <1>3
  <2>3. /\ ReadAfter(proc[p].checked[1], proc[p].since, edited)'
        /\ ReadAfter(proc[p].checked[2], proc[p].since, edited)'
    BY <1>1, <1>3, <1>4, <1>5, <2>2 DEF ReadAfter
  <2>4. ReadSoFar(p, edited, edited)'
    BY <1>8
  <2>5. edited' \in proc'[p].since..edited'
    BY <1>3, <2>1
  <2>6. proc'[p].checked = <<proc'[p].checked[1], proc'[p].checked[2]>>
    BY <1>3, <2>2
  <2> QED BY <1>7, <1>10, <2>3, <2>4, <2>5, <2>6 DEF Reading
<1> QED BY <1>1, <1>3, <1>9, <1>10

LEMMA SecondPassOver ==
  ASSUME HostShape, NEW p \in Procs, SnapshotInv, proc[p].pc = "reading", Resolved(p)
  PROVE  \/ proc'[p].pc = "failed"
         \/ proc'[p].pc = "hashing" /\ proc'[p].since \in 0..edited' /\ Resolves(p)'
<1>1. /\ UNCHANGED <<situation, edited>> /\ edited \in Nat /\ proc[p].checked # None
      /\ Reading(p) /\ proc[p].since \in 0..edited /\ edited \in 0..Len(situation.edits)
      /\ NextFile(p) = None
  BY DEF Resolved, SourcesRead, HostShape, SnapshotInv, SourceFacts
<1>2. \/ Goto(p, "failed")
      \/ /\ SameSources(p)
         /\ proc' = [proc EXCEPT ![p].pc = "hashing", ![p].profile = Configuration(p)]
  BY DEF Resolved
<1>3. CASE Goto(p, "failed")
  BY <1>1, <1>3, GotoKeeps
<1>4. CASE /\ SameSources(p)
           /\ proc' = [proc EXCEPT ![p].pc = "hashing", ![p].profile = Configuration(p)]
  <2>1. PICK v \in proc[p].since..edited :
          /\ proc[p].checked = <<proc[p].checked[1], proc[p].checked[2]>>
          /\ ReadAfter(proc[p].checked[1], proc[p].since, v)
          /\ ReadAfter(proc[p].checked[2], proc[p].since, v)
          /\ ReadSoFar(p, v, edited)
    BY <1>1 DEF Reading
  <2>2. proc[p].chain = proc[p].checked[1] /\ proc[p].overlays = proc[p].checked[2]
    BY <1>4, <2>1 DEF SameSources
  <2>3. proc[p].since \in Nat /\ v \in Nat /\ proc[p].since <= v /\ v <= edited
    BY <1>1
  <2>4. ReadSoFar(p, v, v)
    <3>1. ReadAfter(proc[p].chain, v, v)
      BY <1>1, <2>1, <2>2, <2>3, ReadBetween DEF ReadSoFar
    <3>2. ReadAfter(proc[p].overlays, v, v)
      BY <1>1, <2>1, <2>2, <2>3, ReadBetween DEF ReadSoFar
    <3> QED BY <3>1, <3>2 DEF ReadSoFar
  <2>5. Linked(p) /\ ~FollowsChain(p) /\ Len(proc[p].overlays) = Len(Invocation(p).overlays)
    BY <1>1, <2>1, <2>3, AllRead DEF Reading
  <2>6. /\ proc'[p].pc = "hashing" /\ proc'[p].profile = Configuration(p)
        /\ proc'[p].chain = proc[p].chain /\ proc'[p].overlays = proc[p].overlays
        /\ proc'[p].since = proc[p].since
    BY <1>4 DEF HostShape, Fields
  <2>7. /\ Linked(p)' /\ ~FollowsChain(p)' /\ Configuration(p)' = Configuration(p)
    BY <1>1, <2>5, <2>6, LinkedKept
  <2>8. Invocation(p)' = Invocation(p) /\ \A t : FilesAfter(t)' = FilesAfter(t)
    BY <1>1, FilesSame DEF Invocation
  <2>9. ReadSoFar(p, v, v)' /\ v \in proc'[p].since..edited'
    BY <1>1, <2>4, <2>6, <2>8 DEF ReadSoFar, ReadAfter
  <2>10. Resolves(p)'
    BY <2>5, <2>6, <2>7, <2>8, <2>9 DEF Resolves
  <2> QED BY <1>1, <2>6, <2>10
<1> QED BY <1>2, <1>3, <1>4

\* A step that does not plan leaves the others as they are.
LEMMA SnapshotKept ==
  ASSUME HostShape, SnapshotInv, NEW p \in Procs, Only(p), UNCHANGED edited, SourceFacts(p)'
  PROVE  SnapshotInv'
<1>1. UNCHANGED situation /\ Procs' = Procs /\ edited \in Nat /\ edited' \in Nat /\ edited <= edited'
  BY DEF Only, Procs, HostShape
<1>2. ASSUME NEW q \in Procs, q # p PROVE SourceFacts(q)'
  <2>1. proc'[q] = proc[q]
    BY <1>2 DEF Only
  <2>2. SourceFacts(q)
    BY DEF SnapshotInv
  <2>3. CASE proc[q].pc \in {"reading", "hashing"}
    <3>1. proc[q].since \in 0..edited /\ \A f \in SourceFields : proc'[q][f] = proc[q][f]
      BY <2>1, <2>2, <2>3 DEF SourceFacts
    <3>2. /\ proc'[q].since \in 0..edited'
          /\ Reading(q) => Reading(q)'
          /\ Resolves(q) => Resolves(q)'
      BY <1>1, <3>1, SourcesKept
    <3> QED BY <2>1, <2>2, <3>2 DEF SourceFacts
  <2>4. CASE proc[q].pc \notin {"reading", "hashing"}
    BY <2>1, <2>4 DEF SourceFacts
  <2> QED BY <2>3, <2>4
<1>3. edited' \in 0..Len(situation'.edits)
  BY <1>1 DEF SnapshotInv
<1> QED BY <1>1, <1>2, <1>3 DEF SnapshotInv

\* A process that is not planning has no sources to answer for.
LEMMA NotPlanning ==
  ASSUME NEW p, proc'[p].pc \notin {"reading", "hashing"} PROVE SourceFacts(p)'
BY DEF SourceFacts

LEMMA PlanningFacts ==
  ASSUME HostShape, NEW p \in Procs, UNCHANGED <<situation, edited>>,
         proc'[p] = Claimed(p) \/ \E process, a : proc'[p] = Planning(process, a)
  PROVE  SourceFacts(p)'
<1>1. /\ proc'[p].chain = <<>> /\ proc'[p].overlays = <<>> /\ proc'[p].pc = "reading"
      /\ proc'[p].checked = None /\ proc'[p].since = edited
  <2>1. CASE proc'[p] = Claimed(p)
    BY <2>1, ClaimedFacts
  <2>2. CASE \E process, a : proc'[p] = Planning(process, a)
    BY <2>2 DEF Planning, NewProcess
  <2> QED BY <2>1, <2>2
<1>2. Reading(p)' /\ proc'[p].since \in 0..edited'
  BY <1>1, FreshReading
<1> QED BY <1>1, <1>2 DEF SourceFacts

LEMMA SnapshotStep == HostShape /\ SnapshotInv /\ [Next]_vars => SnapshotInv'
<1> SUFFICES ASSUME HostShape, SnapshotInv, [Next]_vars PROVE SnapshotInv'
  OBVIOUS
<1>1. ASSUME UNCHANGED situation, edited' \in edited..Len(situation.edits),
             \A p \in Procs : \A f \in SourceFields \cup {"pc"} : proc'[p][f] = proc[p][f]
      PROVE  SnapshotInv'
  <2>1. Procs' = Procs /\ edited \in Nat /\ edited' \in Nat /\ edited <= edited' /\ Len(situation.edits) \in Nat
    BY <1>1, SituationFiles DEF Procs, HostShape
  <2>2. ASSUME NEW q \in Procs PROVE SourceFacts(q)'
    <3>1. SourceFacts(q) /\ proc'[q].pc = proc[q].pc
      BY <1>1 DEF SnapshotInv
    <3>2. CASE proc[q].pc \in {"reading", "hashing"}
      <4>1. /\ proc'[q].since \in 0..edited'
            /\ Reading(q) => Reading(q)'
            /\ Resolves(q) => Resolves(q)'
        BY <1>1, <2>1, <3>1, <3>2, SourcesKept DEF SourceFacts
      <4> QED BY <3>1, <4>1 DEF SourceFacts
    <3>3. CASE proc[q].pc \notin {"reading", "hashing"}
      BY <3>1, <3>3 DEF SourceFacts
    <3> QED BY <3>2, <3>3
  <2> QED BY <1>1, <2>1, <2>2 DEF SnapshotInv
<1>2. CASE UNCHANGED vars
  <2>1. edited \in edited..Len(situation.edits)
    BY SituationFiles DEF SnapshotInv, HostShape
  <2> QED BY <1>1, <1>2, <2>1 DEF vars
<1>3. CASE Edit
  <2>1. /\ UNCHANGED situation /\ edited' = edited + 1
        /\ \A p \in Procs : Kept(p, {"raced"})
    BY <1>3, EditMoves
  <2>2. edited' \in edited..Len(situation.edits)
    <3>1. edited < Len(situation.edits) /\ edited \in Nat /\ Len(situation.edits) \in Nat
      BY <1>3, SituationFiles DEF Edit, HostShape
    <3> QED BY <2>1, <3>1
  <2>3. \A p \in Procs : \A f \in SourceFields \cup {"pc"} : proc'[p][f] = proc[p][f]
    BY <2>1 DEF Kept, Fields, SourceFields
  <2> QED BY <1>1, <2>1, <2>2, <2>3
<1>4. ASSUME NEW p \in Procs, Crash(p) PROVE SnapshotInv'
  <2>1. Only(p) /\ proc'[p].pc = "crashed" /\ UNCHANGED edited
    BY <1>4, CrashMoves
  <2> QED BY <2>1, NotPlanning, SnapshotKept
<1>5. ASSUME NEW p \in Procs, ProcessStep(p) PROVE SnapshotInv'
  <2>1. Only(p) /\ UNCHANGED <<situation, edited>>
    BY <1>5, StepKinds, PlanSteps, WorkspaceRead, MetadataWritten, Moves, Imports, AssembledMoves
    DEF MovesOn
  <2>2. SourceFacts(p) /\ (proc[p].pc \in {"reading", "hashing"} => proc[p].since \in 0..edited)
    BY DEF SnapshotInv, SourceFacts
  <2>3. CASE Start(p)
    <3>1. PICK a : a = (Invocation(p).host = "nervus"
                        /\ Invocation(p).command \notin {"validate", "explain"})
      OBVIOUS
    <3>2. proc'[p] = Planning(proc[p], a)
      BY <2>3, <3>1 DEF Start, HostShape
    <3> QED BY <2>1, <3>2, PlanningFacts, SnapshotKept
  <2>4. CASE ReadSource(p)
    <3>1. proc[p].pc = "reading" /\ proc'[p].pc \in {"reading", "failed"}
      <4>1. \/ Goto(p, "failed")
            \/ \E chain : proc' = [proc EXCEPT ![p].chain = chain]
            \/ \E overlays : proc' = [proc EXCEPT ![p].overlays = overlays]
        BY <2>4 DEF ReadSource
      <4>2. proc[p].pc = "reading"
        BY <2>4 DEF ReadSource
      <4>3. Goto(p, "failed") => proc'[p].pc = "failed"
        BY <2>1, GotoKeeps
      <4>4. ~Goto(p, "failed") => proc'[p].pc = proc[p].pc
        BY <4>1 DEF HostShape, Fields
      <4> QED BY <4>2, <4>3, <4>4
    <3>2. proc'[p].pc = "failed" \/ (Reading(p)' /\ proc'[p].since \in 0..edited')
      BY <2>4, <3>1, StillReading
    <3>3. SourceFacts(p)'
      BY <3>1, <3>2 DEF SourceFacts
    <3> QED BY <2>1, <3>3, SnapshotKept
  <2>5. CASE Validated(p)
    <3>1. proc[p].pc = "reading"
      BY <2>5 DEF Validated, SourcesRead
    <3>2. proc'[p].pc # "hashing" /\ proc'[p].since \in 0..edited' /\ Reading(p)'
      BY <2>5, <3>1, FirstPassOver
    <3>3. SourceFacts(p)'
      BY <3>2 DEF SourceFacts
    <3> QED BY <2>1, <3>3, SnapshotKept
  <2>6. CASE Resolved(p)
    <3>1. proc[p].pc = "reading"
      BY <2>6 DEF Resolved, SourcesRead
    <3>2. \/ proc'[p].pc = "failed"
          \/ proc'[p].pc = "hashing" /\ proc'[p].since \in 0..edited' /\ Resolves(p)'
      BY <2>6, <3>1, SecondPassOver
    <3>3. SourceFacts(p)'
      BY <3>2 DEF SourceFacts
    <3> QED BY <2>1, <3>3, SnapshotKept
  <2>7. CASE HashPackage(p)
    <3>1. proc[p].pc = "hashing" /\ proc'[p].pc = "hashing"
          /\ \A f \in SourceFields : proc'[p][f] = proc[p][f]
      <4>1. proc[p].pc = "hashing" /\ \E digests : proc' = [proc EXCEPT ![p].digests = digests]
        BY <2>7 DEF HashPackage
      <4> QED BY <4>1 DEF HostShape, Fields, SourceFields
    <3>2. /\ proc'[p].since \in 0..edited'
          /\ Resolves(p) => Resolves(p)'
      BY <2>1, <2>2, <3>1, SourcesKept DEF HostShape
    <3>3. SourceFacts(p)'
      BY <2>2, <3>1, <3>2 DEF SourceFacts
    <3> QED BY <2>1, <3>3, SnapshotKept
  <2>8. CASE Planned(p)
    <3>1. \E place \in {"loading", "done", "workspace", "failed"} : Goto(p, place)
      BY <2>8 DEF Planned
    <3>2. proc'[p].pc \notin {"reading", "hashing"}
      BY <2>1, <3>1, GotoKeeps
    <3> QED BY <2>1, <3>2, NotPlanning, SnapshotKept
  <2>9. CASE ReadMetadata(p)
    <3>1. proc'[p] = Claimed(p) \/ proc'[p].pc \notin {"reading", "hashing"}
      BY <2>9, WorkspaceRead
    <3> QED BY <2>1, <3>1, PlanningFacts, NotPlanning, SnapshotKept
  <2>10. CASE WriteMetadata(p)
    <3>1. proc'[p] = Claimed(p)
      BY <2>10, MetadataWritten
    <3> QED BY <2>1, <3>1, PlanningFacts, SnapshotKept
  <2>11. CASE Import(p) \/ Assembled(p)
    <3>1. proc'[p].pc \notin {"reading", "hashing"}
      BY <2>11, Imports, AssembledMoves
    <3> QED BY <2>1, <3>1, NotPlanning, SnapshotKept
  <2>12. CASE \/ Claim(p) \/ CheckPackage(p) \/ ReadReference(p) \/ StoreResolution(p)
              \/ FillResolution(p) \/ AppendReference(p) \/ OpenSession(p) \/ Turn(p)
    <3>1. \E place : place \notin {"reading", "hashing"} /\ Goto(p, place)
      <4>1. CASE Claim(p) \/ CheckPackage(p) \/ ReadReference(p)
        BY <4>1 DEF Claim, CheckPackage, ReadReference
      <4>2. CASE StoreResolution(p) \/ FillResolution(p) \/ AppendReference(p)
        BY <4>2 DEF StoreResolution, FillResolution, AppendReference
      <4>3. CASE OpenSession(p) \/ Turn(p)
        BY <4>3 DEF OpenSession, Turn
      <4> QED BY <2>12, <4>1, <4>2, <4>3
    <3>2. proc'[p].pc \notin {"reading", "hashing"}
      BY <2>1, <3>1, GotoKeeps
    <3> QED BY <2>1, <3>2, NotPlanning, SnapshotKept
  <2> QED BY <1>5, <2>3, <2>4, <2>5, <2>6, <2>7, <2>8, <2>9, <2>10, <2>11, <2>12 DEF ProcessStep
<1> QED BY <1>2, <1>3, <1>4, <1>5 DEF Next

LEMMA SnapshotInit == Init => SnapshotInv
<1> SUFFICES ASSUME Init PROVE SnapshotInv
  OBVIOUS
<1>1. HostShape /\ edited = 0
  BY InitShape DEF Init
<1>2. edited \in 0..Len(situation.edits)
  BY <1>1, SituationFiles
<1>3. \A p \in Procs : proc[p].pc = "start"
  BY DEF Init, NewProcess
<1> QED BY <1>2, <1>3 DEF SnapshotInv, SourceFacts

-----------------------------------------------------------------------------
(* The layers that were read are those of one moment.                      *)

LEMMA HostDocuments ==
  ASSUME NEW host PROVE IsDocument(Defaults(host)) /\ IsDocument(Generated(host))
<1>1. ASSUME NEW value, NEW fixed, \A f \in DOMAIN fixed : \E v : fixed[f] = Value(v)
      PROVE  IsDocument(Filled(host, value, fixed))
  <2>1. SUFFICES ASSUME NEW s \in DOMAIN ProfileSchema
                 PROVE  /\ IsMapping(Filled(host, value, fixed)[s])
                        /\ Filled(host, value, fixed)[s] = Mapping(Filled(host, value, fixed)[s].fields)
                        /\ \A f \in DOMAIN Filled(host, value, fixed)[s].fields :
                             IsField(Filled(host, value, fixed)[s].fields[f])
    <3>1. DOMAIN Filled(host, value, fixed) = DOMAIN ProfileSchema
      BY DEF Filled
    <3> QED BY <3>1 DEF IsDocument
  <2>2. PICK fields : /\ Filled(host, value, fixed)[s] = Mapping(fields)
                      /\ \A f \in DOMAIN fields : \E v : fields[f] = Value(v)
    <3> DEFINE set == ProfileSchema[s] \ (IF s = "agent" THEN {"id", "model"} \ DOMAIN fixed ELSE {})
               fields == [f \in set |-> IF s = "host" /\ f = "type" THEN Value(host)
                                        ELSE IF s = "agent" /\ f \in DOMAIN fixed THEN fixed[f]
                                        ELSE Value(value)]
    <3>1. Filled(host, value, fixed)[s] = Mapping(fields)
      BY DEF Filled
    <3>2. \A f \in DOMAIN fields : \E v : fields[f] = Value(v)
      BY <1>1
    <3> HIDE DEF fields
    <3> QED BY <3>1, <3>2
  <2>3. \A v : IsField(Value(v))
    BY DEF IsField, Value
  <2>4. IsMapping(Mapping(fields)) /\ Mapping(fields).fields = fields
    BY Kinds
  <2> QED BY <2>2, <2>3, <2>4
<1>2. IsDocument(Defaults(host))
  <2>1. DOMAIN <<>> = {}
    OBVIOUS
  <2> QED BY <1>1, <2>1 DEF Defaults
<1>3. IsDocument(Generated(host))
  <2>1. PICK fixed : fixed = [id |-> Value(GeneratedAgent[host]), model |-> Value("generated")]
    OBVIOUS
  <2>2. \A f \in DOMAIN fixed : \E v : fixed[f] = Value(v)
    BY <2>1
  <2> QED BY <1>1, <2>1, <2>2 DEF Generated
<1> QED BY <1>2, <1>3

LEMMA Documents ==
  ASSUME NEW n \in Nat, NEW layers, DOMAIN layers = 1..n, layers = [k \in 1..n |-> layers[k]],
         \A k \in 1..n : IsDocument(layers[k])
  PROVE  AreDocuments(layers) /\ Len(layers) = n
<1>1. PICK S : S = {layers[k] : k \in DOMAIN layers}
  OBVIOUS
<1>2. layers \in [1..n -> S]
  BY <1>1
<1>3. layers \in Seq(S) /\ Len(layers) = n
  BY <1>2
<1> QED BY <1>1, <1>3 DEF AreDocuments

\* What was read at one moment, and the documents in it.
LEMMA BodiesRead ==
  ASSUME HostShape, NEW sources, IsList(sources), NEW v \in 0..Len(situation.edits), ReadAfter(sources, v, v)
  PROVE  /\ Len(sources) \in Nat /\ DOMAIN sources = 1..Len(sources)
         /\ \A k \in DOMAIN sources : /\ sources[k].file \in DOMAIN situation.files
                                      /\ sources[k].content = FilesAfter(v)[sources[k].file]
         /\ AreDocuments(Bodies(sources)) /\ Len(Bodies(sources)) = Len(sources)
         /\ AreDocuments(Reverse(Bodies(sources)))
<1>1. PICK n \in Nat : n = Len(sources) /\ DOMAIN sources = 1..n
  BY DEF IsList
<1>2. v \in Nat
  BY SituationFiles
<1>3. ASSUME NEW k \in DOMAIN sources
      PROVE  /\ sources[k].file \in DOMAIN situation.files
             /\ sources[k].content = FilesAfter(v)[sources[k].file]
             /\ IsDocument(sources[k].content.body)
  <2>1. /\ sources[k].file \in DOMAIN situation.files
        /\ sources[k].content = FilesAfter(v)[sources[k].file]
    <3>1. \A t \in v..v : t = v
      BY <1>2
    <3> QED BY <3>1 DEF ReadAfter
  <2>2. IsFile(sources[k].content, DOMAIN situation.files)
    BY <2>1, FileContent
  <2> QED BY <2>1, <2>2 DEF IsFile
<1>4. PICK bodies : bodies = Bodies(sources)
  OBVIOUS
<1>5. bodies = [k \in 1..n |-> sources[k].content.body]
  BY <1>1, <1>4 DEF Bodies
<1>6. \A k \in 1..n : IsDocument(bodies[k])
  BY <1>1, <1>3, <1>5
<1>7. DOMAIN bodies = 1..n /\ bodies = [k \in 1..n |-> bodies[k]]
  BY <1>5
<1>8. AreDocuments(bodies) /\ Len(bodies) = n
  BY ONLY <1>6, <1>7, Documents
<1>9. PICK reverse : reverse = Reverse(bodies)
  OBVIOUS
<1>10. reverse = [k \in 1..n |-> bodies[(n - k) + 1]]
  BY <1>8, <1>9 DEF Reverse
<1>11. \A k \in 1..n : (n - k) + 1 \in 1..n
  OBVIOUS
<1>12. /\ DOMAIN reverse = 1..n /\ reverse = [k \in 1..n |-> reverse[k]]
       /\ \A k \in 1..n : IsDocument(reverse[k])
  BY <1>6, <1>10, <1>11
<1>13. AreDocuments(reverse)
  BY ONLY <1>12, Documents
<1> QED BY <1>1, <1>3, <1>4, <1>8, <1>9, <1>13

\* A file is read once, so a chain is no longer than there are files.
LEMMA PathOfChain ==
  ASSUME HostShape, NEW p \in Procs, Linked(p), NEW v \in 0..Len(situation.edits),
         ReadAfter(proc[p].chain, v, v), proc[p].chain # <<>>, ~FollowsChain(p)
  PROVE  Reverse(Bodies(proc[p].chain)) \in FilesOf(p, v)
<1>1. PICK chain, n, files :
        chain = proc[p].chain /\ n = Len(chain) /\ files = FilesAfter(v)
  OBVIOUS
<1>2. /\ n \in Nat /\ DOMAIN chain = 1..n
      /\ \A k \in 1..n : chain[k].file \in DOMAIN situation.files /\ chain[k].content = files[chain[k].file]
  BY <1>1, BodiesRead DEF Linked
<1>3. /\ IsList(chain) /\ Invocation(p).source = "file" /\ chain[1].file = "entry"
      /\ \A k \in 1..n : k # n => chain[k + 1].file = chain[k].content.extends
      /\ \A j, k \in 1..n : j # k => chain[j].file # chain[k].file
  <2>1. /\ IsList(chain)
        /\ chain # <<>> => Invocation(p).source = "file" /\ chain[1].file = "entry"
        /\ \A k \in DOMAIN chain : k # Len(chain) => chain[k + 1].file = chain[k].content.extends
        /\ \A j, k \in DOMAIN chain : j # k => chain[j].file # chain[k].file
    BY <1>1, Zenon DEF Linked
  <2>2. chain # <<>> /\ n = Len(chain) /\ DOMAIN chain = 1..n
    BY <1>1, <1>2
  <2> QED BY ONLY <2>1, <2>2
<1>4. n # 0 /\ Last(chain).content.extends = None /\ Last(chain) = chain[n]
  <2>1. n # 0
    BY <1>1, <1>3, EmptySeq DEF IsList
  <2>2. Last(chain) = chain[n]
    BY <1>1 DEF Last
  <2>3. Last(chain).content.extends = None
    BY <1>1 DEF FollowsChain
  <2> QED BY <2>1, <2>2, <2>3
<1>5. PICK path : path = [k \in 1..n |-> chain[k].file]
  OBVIOUS
<1>6. DOMAIN files = DOMAIN situation.files /\ IsFiniteSet(DOMAIN files)
  BY <1>1, SituationFiles DEF FilesAfter
<1>7. path \in SeqOf(DOMAIN files, Cardinality(DOMAIN files))
  <2>1. path \in [1..n -> DOMAIN files]
    BY <1>2, <1>5, <1>6
  <2>2. path \in Injection(1..n, DOMAIN files)
    BY <1>3, <1>5, <2>1 DEF Injection, IsInjective
  <2>3. Cardinality(1..n) <= Cardinality(DOMAIN files) /\ Cardinality(DOMAIN files) \in Nat
    BY <1>6, <2>2, FS_Injection, FS_CardinalityType
  <2>4. Cardinality(1..n) = n
    <3>1. 1 \in Int /\ n \in Int /\ ~(1 > n) /\ n - 1 + 1 = n
      BY <1>2, <1>4
    <3>2. Cardinality(1..n) = IF 1 > n THEN 0 ELSE n - 1 + 1
      BY ONLY <3>1, FS_Interval
    <3> QED BY <3>1, <3>2
  <2>5. n \in 0..Cardinality(DOMAIN files)
    BY <1>2, <2>3, <2>4
  <2> QED BY <2>1, <2>5 DEF SeqOf
<1>8. /\ Len(path) = n /\ path # <<>> /\ DOMAIN path = 1..n
      /\ \A k \in 1..n : path[k] = chain[k].file
  <2>1. path \in Seq({chain[k].file : k \in 1..n}) /\ Len(path) = n
    BY <1>2, <1>5
  <2> QED BY <1>4, <1>5, <2>1
<1>9. IsChainOf(files, path)
  <2>1. path[1] = "entry"
    BY <1>2, <1>3, <1>4, <1>8
  <2>2. \A j \in 1..n : files[path[j]].extends = IF j = n THEN None ELSE path[j + 1]
    <3>1. TAKE j \in 1..n
    <3>2. files[path[j]].extends = chain[j].content.extends
      BY <1>2, <1>8
    <3>3. CASE j = n
      BY <1>4, <3>2, <3>3
    <3>4. CASE j # n
      <4>1. j + 1 \in 1..n
        BY <1>2, <3>4
      <4> QED BY <1>3, <1>8, <3>2, <3>4, <4>1
    <3> QED BY <3>3, <3>4
  <2> QED BY <1>8, <2>1, <2>2 DEF IsChainOf
<1>10. Bodies(chain) = [j \in DOMAIN path |-> files[path[j]].body]
  BY <1>2, <1>8 DEF Bodies
<1>11. \E q \in {q \in SeqOf(DOMAIN files, Cardinality(DOMAIN files)) : IsChainOf(files, q)} :
         Reverse(Bodies(chain)) = Reverse([j \in DOMAIN q |-> files[q[j]].body])
  BY <1>7, <1>9, <1>10
<1>12. Invocation(p).source # "data"
  BY <1>3
<1> QED BY <1>1, <1>11, <1>12 DEF FilesOf

\* The layers that resolveProfile merges, as the files were after v edits.
LEMMA LayersRead ==
  ASSUME HostShape, NEW p \in Procs, NEW v \in 0..Len(situation.edits),
         Linked(p), ~FollowsChain(p), ReadAfter(proc[p].chain, v, v), NEW layers,
         layers = IF Invocation(p).source = "data" THEN <<Generated(Invocation(p).host)>>
                  ELSE Reverse(Bodies(proc[p].chain))
  PROVE  layers \in FilesOf(p, v) /\ AreDocuments(layers) /\ layers # <<>>
<1>1. CASE Invocation(p).source = "data"
  <2>1. AreDocuments(layers) /\ layers = <<Generated(Invocation(p).host)>>
    BY <1>1, HostDocuments, OneLayer
  <2> QED BY <1>1, <2>1 DEF FilesOf
<1>2. CASE Invocation(p).source # "data"
  <2>1. PICK chain, n : chain = proc[p].chain /\ n = Len(chain)
    OBVIOUS
  <2>2. Invocation(p).source = "file"
    BY <1>2, SituationFiles
  <2>3. chain # <<>>
    BY <2>1, <2>2 DEF FollowsChain
  <2>4. layers \in FilesOf(p, v)
    BY <1>2, <2>1, <2>3, PathOfChain
  <2>5. IsList(chain)
    BY <2>1 DEF Linked
  <2>6. /\ n \in Nat /\ Len(Bodies(chain)) = n /\ AreDocuments(Reverse(Bodies(chain)))
    BY <2>1, <2>5, BodiesRead
  <2>7. n # 0
    BY <2>1, <2>3, <2>5, EmptySeq DEF IsList
  <2>8. Reverse(Bodies(chain)) # <<>>
    <3>1. DOMAIN Reverse(Bodies(chain)) = 1..n
      BY <2>6 DEF Reverse
    <3>2. 1 \in 1..n
      BY <2>6, <2>7
    <3>3. DOMAIN <<>> = {}
      OBVIOUS
    <3> QED BY <3>1, <3>2, <3>3
  <2> QED BY <1>2, <2>1, <2>4, <2>6, <2>8
<1> QED BY <1>1, <1>2

LEMMA PatchesRead ==
  ASSUME HostShape, NEW p \in Procs, NEW v \in 0..Len(situation.edits),
         Linked(p), Len(proc[p].overlays) = Len(Invocation(p).overlays), ReadAfter(proc[p].overlays, v, v)
  PROVE  LET patches == Append(Bodies(proc[p].overlays), Invocation(p).cli)
         IN  PatchesOf(p, v) = patches /\ AreDocuments(patches)
<1>1. PICK overlays, n, given, files, cli :
        /\ overlays = proc[p].overlays /\ n = Len(overlays) /\ given = Invocation(p).overlays
        /\ files = FilesAfter(v) /\ cli = Invocation(p).cli
  OBVIOUS
<1>2. IsList(overlays) /\ \A k \in DOMAIN overlays : overlays[k].file = given[k]
  BY <1>1, Zenon DEF Linked
<1>3. PICK bodies : bodies = Bodies(overlays)
  OBVIOUS
<1>4. /\ n \in Nat /\ DOMAIN overlays = 1..n /\ AreDocuments(bodies) /\ Len(bodies) = n
      /\ \A k \in 1..n : overlays[k].content = files[overlays[k].file]
  BY <1>1, <1>2, <1>3, BodiesRead
<1>5. n = Len(given) /\ DOMAIN given = 1..n /\ IsDocument(cli)
  <2>1. given \in Seq(DOMAIN situation.files) /\ IsDocument(cli)
    BY <1>1, SituationFiles
  <2> QED BY <1>1, <2>1
<1>6. bodies = [j \in DOMAIN given |-> files[given[j]].body]
  BY <1>2, <1>3, <1>4, <1>5 DEF Bodies
<1>7. PatchesOf(p, v) = bodies \o <<cli>>
  BY <1>1, <1>6 DEF PatchesOf
<1>8. AreDocuments(<<cli>>)
  BY <1>5, OneLayer
<1>9. AreDocuments(bodies \o <<cli>>)
  BY <1>4, <1>8, LastOfLayers
<1>10. bodies \o <<cli>> = Append(bodies, cli)
  <2>1. PICK S : bodies \in Seq(S)
    BY <1>4 DEF AreDocuments
  <2>2. PICK T : T = S \cup {cli}
    OBVIOUS
  <2>3. bodies \in Seq(T) /\ cli \in T
    BY <2>1, <2>2, SeqMonotonic
  <2> QED BY <2>3
<1> QED BY <1>1, <1>3, <1>7, <1>9, <1>10

LEMMA ResolvedIsSnapshot ==
  ASSUME HostShape, SnapshotInv, NEW p \in Procs, proc[p].pc = "hashing"
  PROVE  \E k \in proc[p].since..edited : \E files \in FilesOf(p, k) :
           \A s \in DOMAIN ProfileSchema : \A f \in ProfileSchema[s] :
             LET Said(layers) == LastWord(<<Defaults(Invocation(p).host)>> \o layers \o PatchesOf(p, k), s, f)
                 said == FieldOf(proc[p].profile, s, f)
             IN  \/ said = Said(files)
                 \/ said = Said(<<>>) /\ ForgetsDeletion(files, s, f)
<1>1. /\ Resolves(p) /\ proc[p].since \in 0..edited /\ edited \in 0..Len(situation.edits)
  BY Zenon DEF SnapshotInv, SourceFacts
<1>2. PICK v \in proc[p].since..edited : ReadSoFar(p, v, v)
  BY <1>1 DEF Resolves
<1>3. v \in 0..Len(situation.edits)
  BY <1>1, SituationFiles
<1>4. /\ ReadAfter(proc[p].chain, v, v) /\ ReadAfter(proc[p].overlays, v, v)
      /\ Linked(p) /\ ~FollowsChain(p) /\ Len(proc[p].overlays) = Len(Invocation(p).overlays)
      /\ proc[p].profile = Configuration(p)
  BY <1>1, <1>2 DEF ReadSoFar, Resolves
<1>5. PICK defaults, layers, patches :
        /\ defaults = Defaults(Invocation(p).host)
        /\ layers = IF Invocation(p).source = "data" THEN <<Generated(Invocation(p).host)>>
                    ELSE Reverse(Bodies(proc[p].chain))
        /\ patches = Append(Bodies(proc[p].overlays), Invocation(p).cli)
  OBVIOUS
<1>6. IsDocument(defaults)
  BY <1>5, HostDocuments
<1>7. layers \in FilesOf(p, v) /\ AreDocuments(layers) /\ layers # <<>>
  BY <1>3, <1>4, <1>5, LayersRead
<1>8. PatchesOf(p, v) = patches /\ AreDocuments(patches)
  BY <1>3, <1>4, <1>5, PatchesRead
<1>9. proc[p].profile = Composed(defaults, layers, patches)
  BY <1>4, <1>5 DEF Configuration
<1>10. ASSUME NEW s, NEW f
       PROVE  LET said == FieldOf(proc[p].profile, s, f) IN
              \/ said = LastWord((<<Defaults(Invocation(p).host)>> \o layers) \o PatchesOf(p, v), s, f)
              \/ /\ said = LastWord((<<Defaults(Invocation(p).host)>> \o <<>>) \o PatchesOf(p, v), s, f)
                 /\ ForgetsDeletion(layers, s, f)
  <2>1. <<Defaults(Invocation(p).host)>> = <<defaults>>
    BY <1>5
  <2> QED BY <1>6, <1>7, <1>8, <1>9, <2>1, ComposedSays
<1> QED BY <1>2, <1>7, <1>10, Zenon

\* ProfileIsSnapshot (planHost, resolveProfile): the two passes over the files
\* are compared, and a content does not come back, so a process that gets to
\* hash its packages read all of its files as they were between the passes; and
\* mergePatch lets the last layer that speaks of a field decide it.
THEOREM ProfilesAreSnapshots == Spec => []ProfileIsSnapshot
<1>1. Init => HostShape /\ SnapshotInv
  BY InitShape, SnapshotInit
<1>2. HostShape /\ SnapshotInv /\ [Next]_vars => (HostShape /\ SnapshotInv)'
  BY ShapeStep, SnapshotStep
<1>3. HostShape /\ SnapshotInv => ProfileIsSnapshot
  BY ResolvedIsSnapshot DEF ProfileIsSnapshot
<1> QED BY <1>1, <1>2, <1>3, PTL DEF Spec

-----------------------------------------------------------------------------
(* The state directory: the one that was checked, and the one that is used.  *)

\* Two chains through the same files begin alike, ...
LEMMA ChainPrefix ==
  ASSUME NEW files, None \notin DOMAIN files, NEW N, NEW a, NEW b,
         a \in SeqOf(DOMAIN files, N), b \in SeqOf(DOMAIN files, N),
         IsChainOf(files, a), IsChainOf(files, b)
  PROVE  \A k \in DOMAIN a : k \in DOMAIN b /\ a[k] = b[k]
<1>1. PICK m \in 0..N : a \in [1..m -> DOMAIN files]
  BY DEF SeqOf
<1>2. PICK n \in 0..N : b \in [1..n -> DOMAIN files]
  BY DEF SeqOf
<1>3. m \in Nat /\ n \in Nat /\ Len(a) = m /\ Len(b) = n
  BY <1>1, <1>2
<1>4. a[1] = "entry" /\ b[1] = "entry" /\ n # 0
  BY <1>2, <1>3 DEF IsChainOf
<1>5. PICK T : T = {k \in Nat : k + 1 \in 1..m => k + 1 \in 1..n /\ a[k + 1] = b[k + 1]}
  OBVIOUS
<1>6. 0 \in T
  BY <1>3, <1>4, <1>5
<1>7. ASSUME NEW k \in Nat, k \in T PROVE k + 1 \in T
  <2>1. SUFFICES ASSUME (k + 1) + 1 \in 1..m
                 PROVE  (k + 1) + 1 \in 1..n /\ a[(k + 1) + 1] = b[(k + 1) + 1]
    BY <1>5
  <2>2. k + 1 \in 1..m /\ k + 1 # m
    BY <1>3, <2>1
  <2>3. k + 1 \in 1..n /\ a[k + 1] = b[k + 1]
    BY <1>5, <1>7, <2>2
  <2>4. files[a[k + 1]].extends = a[(k + 1) + 1] /\ a[(k + 1) + 1] \in DOMAIN files
    BY <1>1, <1>3, <2>1, <2>2 DEF IsChainOf
  <2>5. files[b[k + 1]].extends = IF k + 1 = n THEN None ELSE b[(k + 1) + 1]
    BY <1>2, <1>3, <2>3 DEF IsChainOf
  <2> QED BY <1>3, <2>3, <2>4, <2>5
<1>8. \A k \in Nat : k \in T
  BY <1>6, <1>7, Upward
<1>9. ASSUME NEW k \in 1..m PROVE k \in 1..n /\ a[k] = b[k]
  <2>1. k - 1 \in Nat /\ (k - 1) + 1 = k
    BY <1>3, <1>9
  <2> QED BY <1>5, <1>8, <2>1
<1> QED BY <1>1, <1>2, <1>9

\* ... so there is one.
LEMMA OneChain ==
  ASSUME NEW files, None \notin DOMAIN files, NEW N, NEW a, NEW b,
         a \in SeqOf(DOMAIN files, N), b \in SeqOf(DOMAIN files, N),
         IsChainOf(files, a), IsChainOf(files, b)
  PROVE  a = b
<1>1. /\ \A k \in DOMAIN a : k \in DOMAIN b /\ a[k] = b[k]
      /\ \A k \in DOMAIN b : k \in DOMAIN a
  BY ChainPrefix
<1>2. a = [k \in DOMAIN a |-> a[k]] /\ b = [k \in DOMAIN b |-> b[k]]
  BY DEF SeqOf
<1> QED BY <1>1, <1>2

LEMMA OneFilesOf ==
  ASSUME HostShape, NEW p \in Procs, NEW k, NEW a \in FilesOf(p, k), NEW b \in FilesOf(p, k)
  PROVE  a = b
<1>1. CASE Invocation(p).source = "data"
  BY <1>1 DEF FilesOf
<1>2. CASE Invocation(p).source # "data"
  <2>1. PICK files : files = FilesAfter(k)
    OBVIOUS
  <2>2. None \notin DOMAIN files
    BY <2>1, FilesAssumption DEF HostShape, FilesAfter
  <2>3. PICK c \in SeqOf(DOMAIN files, Cardinality(DOMAIN files)) :
          IsChainOf(files, c) /\ a = Reverse([j \in DOMAIN c |-> files[c[j]].body])
    BY <1>2, <2>1 DEF FilesOf
  <2>4. PICK d \in SeqOf(DOMAIN files, Cardinality(DOMAIN files)) :
          IsChainOf(files, d) /\ b = Reverse([j \in DOMAIN d |-> files[d[j]].body])
    BY <1>2, <2>1 DEF FilesOf
  <2>5. c = d
    BY <2>2, <2>3, <2>4, OneChain
  <2> QED BY <2>3, <2>4, <2>5
<1> QED BY <1>1, <1>2

\* What p resolves when it reads the files as they were after k edits ...
ProfilesAt(p, k) ==
  {Composed(Defaults(Invocation(p).host), files, PatchesOf(p, k)) : files \in FilesOf(p, k)}

LEMMA OneProfile ==
  ASSUME HostShape, NEW p \in Procs, NEW k, NEW a \in ProfilesAt(p, k), NEW b \in ProfilesAt(p, k)
  PROVE  a = b
BY OneFilesOf DEF ProfilesAt

LEMMA ProfilesSame ==
  ASSUME UNCHANGED situation, NEW p, NEW k
  PROVE  ProfilesAt(p, k)' = ProfilesAt(p, k)
<1>1. Invocation(p)' = Invocation(p) /\ FilesAfter(k)' = FilesAfter(k)
  BY FilesSame DEF Invocation
<1>2. FilesOf(p, k)' = FilesOf(p, k) /\ PatchesOf(p, k)' = PatchesOf(p, k)
  BY <1>1 DEF FilesOf, PatchesOf
<1> QED BY <1>1, <1>2 DEF ProfilesAt

\* ... and the state directory of a Profile.
DirectoryOf(p, profile) ==
  LET journal == profile.state.fields.journal IN
  IF journal.value \in Directories THEN journal.value
  ELSE IF \/ journal = Value("memory")
          \/ journal = Value("default") /\ Invocation(p).host = "nervus" THEN None
  ELSE DefaultDirectory(p)

LEMMA DirectoryByProfile ==
  ASSUME NEW p PROVE StateDirectory(p) = DirectoryOf(p, proc[p].profile)
BY DEF StateDirectory, DirectoryOf, InMemory

LEMMA DirectorySame ==
  ASSUME UNCHANGED situation, NEW p, NEW profile
  PROVE  DirectoryOf(p, profile)' = DirectoryOf(p, profile)
BY DEF DirectoryOf, DefaultDirectory, Invocation

\* The Profile of p's plan is the one that the files had at one moment of the plan.
PlannedFrom(p) ==
  /\ proc[p].since \in 0..edited
  /\ \E k \in proc[p].since..edited : proc[p].profile \in ProfilesAt(p, k)

PlanFacts(p) ==
  proc[p].pc \in Claiming \cup {"hashing"} \/ proc[p].profile # None => PlannedFrom(p)

\* The directory that p claimed is that of an earlier plan.
ClaimFacts(p) ==
  Invocation(p).host = "coding" /\ proc[p].assembling =>
    /\ proc[p].since \in 0..edited /\ proc[p].claimed.since \in 0..proc[p].since
    /\ \E k \in proc[p].claimed.since..edited : \E profile \in ProfilesAt(p, k) :
         proc[p].claimed.directory = DirectoryOf(p, profile)

DirectoryInv == \A p \in Procs : PlanFacts(p) /\ ClaimFacts(p)

HashingFacts == \A p \in Procs : proc[p].pc = "hashing" => PlannedFrom(p)

LEMMA HashingProfile == HostShape /\ SnapshotInv => HashingFacts
<1> SUFFICES ASSUME HostShape, SnapshotInv, NEW p \in Procs, proc[p].pc = "hashing"
             PROVE  PlannedFrom(p)
  BY DEF HashingFacts
<1>1. /\ Resolves(p) /\ proc[p].since \in 0..edited /\ edited \in 0..Len(situation.edits)
  BY Zenon DEF SnapshotInv, SourceFacts
<1>2. PICK v \in proc[p].since..edited : ReadSoFar(p, v, v)
  BY <1>1 DEF Resolves
<1>3. v \in 0..Len(situation.edits)
  BY <1>1, SituationFiles
<1>4. /\ ReadAfter(proc[p].chain, v, v) /\ ReadAfter(proc[p].overlays, v, v)
      /\ Linked(p) /\ ~FollowsChain(p) /\ Len(proc[p].overlays) = Len(Invocation(p).overlays)
      /\ proc[p].profile = Configuration(p)
  BY <1>1, <1>2 DEF ReadSoFar, Resolves
<1>5. PICK layers, patches :
        /\ layers = IF Invocation(p).source = "data" THEN <<Generated(Invocation(p).host)>>
                    ELSE Reverse(Bodies(proc[p].chain))
        /\ patches = Append(Bodies(proc[p].overlays), Invocation(p).cli)
  OBVIOUS
<1>6. layers \in FilesOf(p, v)
  BY <1>3, <1>4, <1>5, LayersRead
<1>7. PatchesOf(p, v) = patches
  BY <1>3, <1>4, <1>5, PatchesRead
<1>8. proc[p].profile = Composed(Defaults(Invocation(p).host), layers, PatchesOf(p, v))
  BY <1>4, <1>5, <1>7 DEF Configuration
<1>9. proc[p].profile \in ProfilesAt(p, v)
  BY <1>6, <1>8 DEF ProfilesAt
<1> QED BY <1>1, <1>2, <1>9 DEF PlannedFrom

\* As long as p keeps its plan, more edits change nothing about it.
LEMMA PlannedKept ==
  ASSUME UNCHANGED situation, edited \in Nat, edited' \in Nat, edited <= edited', NEW p,
         proc'[p].since = proc[p].since, proc'[p].profile = proc[p].profile, PlannedFrom(p)
  PROVE  PlannedFrom(p)'
<1>1. PICK k \in proc[p].since..edited : proc[p].profile \in ProfilesAt(p, k)
  BY DEF PlannedFrom
<1>2. proc'[p].profile \in ProfilesAt(p, k)'
  BY <1>1, ProfilesSame
<1>3. proc'[p].since \in 0..edited' /\ k \in proc'[p].since..edited'
  BY <1>1 DEF PlannedFrom
<1> QED BY <1>2, <1>3 DEF PlannedFrom

LEMMA ClaimKept ==
  ASSUME UNCHANGED situation, edited \in Nat, edited' \in Nat, edited <= edited', NEW p,
         proc'[p].since = proc[p].since, proc'[p].claimed = proc[p].claimed,
         proc'[p].assembling = proc[p].assembling, ClaimFacts(p)
  PROVE  ClaimFacts(p)'
<1> SUFFICES ASSUME Invocation(p).host = "coding", proc[p].assembling
             PROVE  /\ proc[p].since \in 0..edited' /\ proc[p].claimed.since \in 0..proc[p].since
                    /\ \E k \in proc[p].claimed.since..edited' : \E profile \in ProfilesAt(p, k)' :
                         proc[p].claimed.directory = DirectoryOf(p, profile)'
  BY DEF ClaimFacts, Invocation
<1>1. /\ proc[p].since \in 0..edited /\ proc[p].claimed.since \in 0..proc[p].since
  BY DEF ClaimFacts
<1>2. PICK k \in proc[p].claimed.since..edited : \E profile \in ProfilesAt(p, k) :
        proc[p].claimed.directory = DirectoryOf(p, profile)
  BY DEF ClaimFacts
<1>3. PICK profile \in ProfilesAt(p, k) : proc[p].claimed.directory = DirectoryOf(p, profile)
  BY <1>2
<1>4. profile \in ProfilesAt(p, k)' /\ DirectoryOf(p, profile)' = DirectoryOf(p, profile)
  BY <1>3, ProfilesSame, DirectorySame
<1> QED BY <1>1, <1>2, <1>3, <1>4

LEMMA PlanStays ==
  ASSUME UNCHANGED situation, edited \in Nat, edited' \in Nat, edited <= edited', NEW p,
         Kept(p, {"pc", "imported", "exists", "raced"}), PlanFacts(p), ClaimFacts(p),
         proc'[p].pc \in Claiming \cup {"hashing"} => proc[p].pc \in Claiming \cup {"hashing"}
  PROVE  PlanFacts(p)' /\ ClaimFacts(p)'
<1>1. /\ proc'[p].since = proc[p].since /\ proc'[p].claimed = proc[p].claimed
      /\ proc'[p].profile = proc[p].profile /\ proc'[p].assembling = proc[p].assembling
  BY DEF Kept, Fields
<1>2. ClaimFacts(p)'
  BY <1>1, ClaimKept
<1>3. PlannedFrom(p) => PlannedFrom(p)'
  BY <1>1, PlannedKept
<1>4. PlanFacts(p)'
  BY <1>1, <1>3 DEF PlanFacts, Claiming
<1> QED BY <1>2, <1>4

\* The directory that is claimed is that of the plan that ends.
LEMMA ClaimIsPlanned ==
  ASSUME UNCHANGED <<situation, edited>>, edited \in Nat, NEW p, PlanFacts(p),
         proc[p].pc \in Claiming, proc'[p] = Claimed(p)
  PROVE  PlanFacts(p)' /\ ClaimFacts(p)'
<1>1. /\ proc'[p].pc = "reading" /\ proc'[p].profile = None /\ proc'[p].since = edited
      /\ proc'[p].claimed.since = proc[p].since
      /\ proc'[p].claimed.directory = DirectoryOf(p, proc[p].profile)
  BY ClaimedFacts, DirectoryByProfile
<1>2. PlanFacts(p)'
  BY <1>1 DEF PlanFacts, Claiming
<1>3. PICK profile : profile = proc[p].profile
  OBVIOUS
<1>4. proc[p].since \in 0..edited /\ \E k \in proc[p].since..edited : profile \in ProfilesAt(p, k)
  BY <1>3 DEF PlanFacts, PlannedFrom
<1>5. PICK k \in proc[p].since..edited : profile \in ProfilesAt(p, k)
  BY <1>4
<1>6. profile \in ProfilesAt(p, k)' /\ DirectoryOf(p, profile)' = DirectoryOf(p, profile)
  BY <1>5, ProfilesSame, DirectorySame
<1>7. /\ proc'[p].since \in 0..edited' /\ proc'[p].claimed.since \in 0..proc'[p].since
      /\ k \in proc'[p].claimed.since..edited'
      /\ proc'[p].claimed.directory = DirectoryOf(p, profile)'
  BY <1>1, <1>3, <1>4, <1>5, <1>6
<1>8. ClaimFacts(p)'
  BY <1>6, <1>7 DEF ClaimFacts
<1> QED BY <1>2, <1>8

LEMMA DirectoryStep ==
  HostShape /\ HashingFacts' /\ DirectoryInv /\ [Next]_vars => DirectoryInv'
<1> SUFFICES ASSUME HostShape, HashingFacts', DirectoryInv, [Next]_vars PROVE DirectoryInv'
  OBVIOUS
<1>1. edited \in Nat /\ edited <= edited
  BY DEF HostShape
<1>2. ASSUME UNCHANGED situation, edited' \in Nat, edited <= edited',
             \A p \in Procs : Kept(p, {"raced"})
      PROVE  DirectoryInv'
  <2>1. Procs' = Procs
    BY <1>2 DEF Procs
  <2>2. ASSUME NEW p \in Procs PROVE PlanFacts(p)' /\ ClaimFacts(p)'
    <3>1. Kept(p, {"pc", "imported", "exists", "raced"}) /\ proc'[p].pc = proc[p].pc
      BY <1>2 DEF Kept, Fields
    <3> QED BY <1>1, <1>2, <3>1, PlanStays DEF DirectoryInv
  <2> QED BY <2>1, <2>2 DEF DirectoryInv
<1>3. CASE UNCHANGED vars
  BY <1>1, <1>2, <1>3 DEF vars, Kept
<1>4. CASE Edit
  <2>1. /\ UNCHANGED situation /\ edited' = edited + 1 /\ \A p \in Procs : Kept(p, {"raced"})
    BY <1>4, EditMoves
  <2>2. edited' \in Nat /\ edited <= edited'
    BY <1>1, <2>1
  <2> QED BY <1>2, <2>1, <2>2
<1>5. ASSUME NEW p \in Procs, Only(p), UNCHANGED edited, PlanFacts(p)' /\ ClaimFacts(p)'
      PROVE  DirectoryInv'
  <2>1. Procs' = Procs /\ UNCHANGED situation
    BY <1>5 DEF Only, Procs
  <2>2. ASSUME NEW q \in Procs, q # p PROVE PlanFacts(q)' /\ ClaimFacts(q)'
    <3>1. proc'[q] = proc[q]
      BY <1>5, <2>2 DEF Only
    <3> QED BY <1>1, <1>5, <2>1, <3>1, PlanStays DEF DirectoryInv, Kept
  <2> QED BY <1>5, <2>1, <2>2 DEF DirectoryInv
<1>6. ASSUME NEW p \in Procs, Only(p), UNCHANGED edited,
             Kept(p, {"pc", "imported", "exists", "raced"}),
             proc'[p].pc \in Claiming \cup {"hashing"} => proc[p].pc \in Claiming \cup {"hashing"}
      PROVE  DirectoryInv'
  <2>1. PlanFacts(p)' /\ ClaimFacts(p)'
    BY <1>1, <1>6, PlanStays DEF DirectoryInv, Only
  <2> QED BY <1>5, <1>6, <2>1
<1>7. ASSUME NEW p \in Procs, Crash(p) PROVE DirectoryInv'
  <2>1. Only(p) /\ Kept(p, {"pc"}) /\ proc'[p].pc = "crashed" /\ UNCHANGED edited
    BY <1>7, CrashMoves
  <2> QED BY <1>6, <2>1 DEF Kept, Claiming
<1>8. ASSUME NEW p \in Procs, ProcessStep(p) PROVE DirectoryInv'
  <2>1. PlanFacts(p) /\ ClaimFacts(p)
    BY DEF DirectoryInv
  <2>2. CASE PlanStep(p)
    <3>1. Only(p) /\ UNCHANGED <<situation, edited>>
      BY <2>2, PlanSteps
    <3>2. CASE Kept(p, PlanFields)
      <4>1. /\ proc'[p].since = proc[p].since /\ proc'[p].claimed = proc[p].claimed
            /\ proc'[p].assembling = proc[p].assembling
        BY <3>2 DEF Kept, Fields, PlanFields
      <4>2. ClaimFacts(p)'
        BY <1>1, <2>1, <3>1, <4>1, ClaimKept
      <4>3. CASE proc'[p].pc = "hashing"
        <5>1. PlannedFrom(p)'
          BY <3>1, <4>3 DEF HashingFacts, Only, Procs
        <5> QED BY <1>5, <3>1, <4>2, <5>1 DEF PlanFacts
      <4>4. CASE proc'[p].pc \in Claiming
        <5>1. proc[p].pc = "hashing" /\ proc'[p].profile = proc[p].profile
          BY <2>2, <4>4, PlanKeeps DEF Kept, Fields
        <5>2. PlannedFrom(p)'
          BY <1>1, <2>1, <3>1, <4>1, <5>1, PlannedKept DEF PlanFacts
        <5> QED BY <1>5, <3>1, <4>2, <5>2 DEF PlanFacts
      <4>5. CASE proc'[p].pc \notin Claiming \cup {"hashing"}
        <5>1. proc'[p].profile \in {None, proc[p].profile}
          BY <2>2, <4>5, PlanKeeps
        <5>2. proc'[p].profile # None => PlannedFrom(p)'
          BY <1>1, <2>1, <3>1, <4>1, <5>1, PlannedKept DEF PlanFacts
        <5> QED BY <1>5, <3>1, <4>2, <4>5, <5>2 DEF PlanFacts, Claiming
      <4> QED BY <4>3, <4>4, <4>5
    <3>3. CASE ~Kept(p, PlanFields)
      <4>1. /\ proc'[p].pc = "reading" /\ proc'[p].profile = None
            /\ Invocation(p).host = "coding" => ~proc'[p].assembling
        BY <2>2, <3>3, PlanKeeps
      <4>2. PlanFacts(p)' /\ ClaimFacts(p)'
        BY <3>1, <4>1 DEF PlanFacts, ClaimFacts, Claiming, Invocation
      <4> QED BY <1>5, <3>1, <4>2
    <3> QED BY <3>2, <3>3
  <2>3. CASE ReadMetadata(p)
    <3>1. /\ Only(p) /\ UNCHANGED <<situation, edited>> /\ proc[p].pc \in Claiming
          /\ Kept(p, {"pc"}) \/ proc'[p] = Claimed(p)
      BY <2>3, WorkspaceRead DEF Claiming
    <3>2. CASE Kept(p, {"pc"})
      BY <1>6, <3>1, <3>2 DEF Kept
    <3>3. CASE proc'[p] = Claimed(p)
      BY <1>1, <1>5, <2>1, <3>1, <3>3, ClaimIsPlanned
    <3> QED BY <3>1, <3>2, <3>3
  <2>4. CASE WriteMetadata(p)
    <3>1. /\ Only(p) /\ UNCHANGED <<situation, edited>> /\ proc[p].pc \in Claiming
          /\ proc'[p] = Claimed(p)
      BY <2>4, MetadataWritten DEF Claiming
    <3> QED BY <1>1, <1>5, <2>1, <3>1, ClaimIsPlanned
  <2>5. CASE Claim(p)
    <3>1. Only(p) /\ Kept(p, {"pc"}) /\ UNCHANGED edited /\ proc[p].pc \in Claiming
      BY <2>5, Moves DEF Claim, MovesOn, Claiming
    <3> QED BY <1>6, <3>1 DEF Kept
  <2>6. CASE Import(p) \/ Assembled(p)
    <3>1. /\ Only(p) /\ UNCHANGED edited /\ Kept(p, {"pc", "imported", "exists", "raced"})
          /\ proc'[p].pc \notin Claiming \cup {"hashing"}
      BY <2>6, Imports, AssembledMoves DEF Kept, Claiming
    <3> QED BY <1>6, <3>1
  <2>7. CASE CheckPackage(p) \/ ReadReference(p) \/ StoreResolution(p) \/ FillResolution(p)
             \/ AppendReference(p) \/ OpenSession(p) \/ Turn(p)
    <3>1. Only(p) /\ UNCHANGED <<situation, edited>> /\ Kept(p, {"pc", "imported", "exists", "raced"})
      BY <2>7, Moves DEF MovesOn, Kept
    <3>2. \E place : place \notin Claiming \cup {"hashing"} /\ Goto(p, place)
      <4>1. CASE CheckPackage(p) \/ ReadReference(p) \/ StoreResolution(p)
        BY <4>1 DEF CheckPackage, ReadReference, StoreResolution, Claiming
      <4>2. CASE FillResolution(p) \/ AppendReference(p) \/ OpenSession(p) \/ Turn(p)
        BY <4>2 DEF FillResolution, AppendReference, OpenSession, Turn, Claiming
      <4> QED BY <2>7, <4>1, <4>2
    <3>3. proc'[p].pc \notin Claiming \cup {"hashing"}
      BY <3>1, <3>2, GotoKeeps
    <3> QED BY <1>6, <3>1, <3>3
  <2> QED BY <1>8, <2>2, <2>3, <2>4, <2>5, <2>6, <2>7, StepKinds
<1> QED BY <1>3, <1>4, <1>7, <1>8 DEF Next

\* Two plans that both end with the files as they are now have the same Profile,
\* and so the same directory.
LEMMA WorksWhereClaimed ==
  ASSUME HostShape, DirectoryInv, NEW p \in Procs, NEW d \in Directories,
         WorksIn(p, d), ~Redirected(p)
  PROVE  d = proc[p].claimed.directory
<1>1. /\ Invocation(p).host = "coding" /\ proc[p].assembling /\ proc[p].profile # None
      /\ StateDirectory(p) = d
  BY DEF WorksIn
<1>2. PlannedFrom(p) /\ ClaimFacts(p)
  BY <1>1 DEF DirectoryInv, PlanFacts
<1>3. CASE proc[p].claimed.since < edited
  BY <1>1, <1>3 DEF Redirected
<1>4. CASE ~(proc[p].claimed.since < edited)
  <2>1. PICK k \in proc[p].since..edited : proc[p].profile \in ProfilesAt(p, k)
    BY <1>2 DEF PlannedFrom
  <2>2. /\ proc[p].since \in 0..edited /\ proc[p].claimed.since \in 0..proc[p].since
        /\ edited \in Nat
    BY <1>1, <1>2 DEF ClaimFacts, HostShape
  <2>3. PICK c \in proc[p].claimed.since..edited : \E profile \in ProfilesAt(p, c) :
          proc[p].claimed.directory = DirectoryOf(p, profile)
    BY <1>1, <1>2 DEF ClaimFacts
  <2>4. PICK profile \in ProfilesAt(p, c) : proc[p].claimed.directory = DirectoryOf(p, profile)
    BY <2>3
  <2>5. k = edited /\ c = edited
    BY <1>4, <2>1, <2>2, <2>3
  <2>6. proc[p].profile = profile
    BY <2>1, <2>4, <2>5, OneProfile
  <2> QED BY <1>1, <2>4, <2>6, DirectoryByProfile
<1> QED BY <1>3, <1>4

\* OneWorkspace (ensureStateWorkspace, and the plan that assembleHost makes after
\* it): of the processes that race for a directory one creates workspace.json,
\* whoever goes on has read its own workspace there, and whoever then works in
\* another directory has had its Profile edited between its two plans.
THEOREM StateHasOneWorkspace == Spec => []OneWorkspace
<1>1. Init => HostShape /\ SnapshotInv /\ WorkspaceInv /\ DirectoryInv
  <2>1. Init => DirectoryInv
    BY DEF Init, DirectoryInv, PlanFacts, ClaimFacts, NewProcess, Claiming
  <2> QED BY <2>1, InitShape, SnapshotInit, WorkspaceInit
<1>2. HostShape /\ SnapshotInv /\ WorkspaceInv /\ [Next]_vars
        => (HostShape /\ SnapshotInv /\ WorkspaceInv)'
  BY ShapeStep, SnapshotStep, WorkspaceStep
<1>3. HostShape /\ SnapshotInv => HashingFacts
  BY HashingProfile
<1>4. HostShape /\ HashingFacts' /\ DirectoryInv /\ [Next]_vars => DirectoryInv'
  BY DirectoryStep
<1>5. HostShape /\ WorkspaceInv /\ DirectoryInv => OneWorkspace
  <2>1. SUFFICES ASSUME HostShape, WorkspaceInv, DirectoryInv, NEW d \in Directories,
                        NEW p \in Procs, NEW q \in Procs, WorksIn(p, d), WorksIn(q, d),
                        ~Redirected(p), ~Redirected(q)
                 PROVE  Invocation(p).workspace = Invocation(q).workspace
    BY DEF OneWorkspace
  <2>2. d = proc[p].claimed.directory /\ d = proc[q].claimed.directory
    BY <2>1, WorksWhereClaimed
  <2> QED BY <2>1, <2>2 DEF WorkspaceInv, WorkspaceFacts, WorksIn
<1> QED BY <1>1, <1>2, <1>3, <1>4, <1>5, PTL DEF Spec

-----------------------------------------------------------------------------
(* planCapabilityLibrary.  The walks of expand and visit are recursive      *)
(* functions, and their turns are folds: first that such functions exist    *)
(* and what such folds are.                                                 *)


\* A walk that takes one step for each id, by a table of the steps.
Turns(m, R, step, base, ids) ==
  /\ m \in [0..Len(ids) -> R] /\ m[0] = base
  /\ \A k \in 1..Len(ids) : m[k] = step[<<m[k - 1], ids[k]>>]

EndsAt(R, step, base, ids, w) == \E m : Turns(m, R, step, base, ids) /\ m[Len(ids)] = w

\* The function by which FoldLeft is defined, with the table for the operator.
IsRun(g, R, step, base, ids, n) ==
  /\ g \in [SUBSET (1..n) -> R]
  /\ \A s \in SUBSET (1..n) :
       g[s] = IF s = {} THEN base ELSE step[<<g[s \ {Max(s)}], ids[Max(s)]>>]

\* The fold of a sequence with a table exists.
LEMMA RunExists ==
  ASSUME NEW R, NEW I, NEW step \in [R \X I -> R], NEW base \in R, NEW ids \in Seq(I)
  PROVE  \A n \in Nat : n <= Len(ids) => \E g : IsRun(g, R, step, base, ids, n)
<1>1. PICK T : T = {n \in Nat : n <= Len(ids) => \E g : IsRun(g, R, step, base, ids, n)}
  OBVIOUS
<1>2. 0 \in T
  <2>1. PICK g : g = [s \in SUBSET (1..0) |-> base]
    OBVIOUS
  <2>2. \A s \in SUBSET (1..0) : s = {}
    OBVIOUS
  <2>3. IsRun(g, R, step, base, ids, 0)
    BY <2>1, <2>2 DEF IsRun
  <2> QED BY <1>1, <2>3
<1>3. ASSUME NEW n \in Nat, n \in T, n + 1 <= Len(ids)
      PROVE  \E g : IsRun(g, R, step, base, ids, n + 1)
  <2>1. PICK g : IsRun(g, R, step, base, ids, n)
    BY <1>1, <1>3
  <2>2. PICK h : h = [s \in SUBSET (1..(n + 1)) |->
                        IF n + 1 \in s THEN step[<<g[s \ {n + 1}], ids[n + 1]>>] ELSE g[s]]
    OBVIOUS
  <2>3. ids[n + 1] \in I
    BY <1>3
  <2>4. ASSUME NEW s \in SUBSET (1..(n + 1))
        PROVE  h[s] \in R /\ h[s] = IF s = {} THEN base ELSE step[<<h[s \ {Max(s)}], ids[Max(s)]>>]
    <3>1. CASE n + 1 \in s
      <4>1. Max(s) = n + 1
        BY <3>1, MaxOf
      <4>2. /\ s \ {n + 1} \in SUBSET (1..n) /\ s \ {n + 1} \in SUBSET (1..(n + 1))
            /\ n + 1 \notin s \ {n + 1} /\ s # {}
        BY <3>1
      <4>3. h[s \ {n + 1}] = g[s \ {n + 1}] /\ g[s \ {n + 1}] \in R
        BY <2>1, <2>2, <4>2 DEF IsRun
      <4>4. h[s] = step[<<g[s \ {n + 1}], ids[n + 1]>>]
        BY <2>2, <3>1
      <4>5. h[s] \in R
        BY <2>3, <4>3, <4>4
      <4> QED BY <4>1, <4>2, <4>3, <4>4, <4>5
    <3>2. CASE n + 1 \notin s
      <4>1. s \in SUBSET (1..n)
        BY <3>2
      <4>2. h[s] = g[s]
        BY <2>2, <3>2
      <4>3. g[s] \in R /\ g[s] = IF s = {} THEN base ELSE step[<<g[s \ {Max(s)}], ids[Max(s)]>>]
        BY <2>1, <4>1 DEF IsRun
      <4>4. h[s \ {Max(s)}] = g[s \ {Max(s)}]
        <5>1. s \ {Max(s)} \in SUBSET (1..(n + 1)) /\ n + 1 \notin s \ {Max(s)}
          BY <3>2, <4>1
        <5> QED BY <2>2, <5>1
      <4> QED BY <4>2, <4>3, <4>4
    <3> QED BY <3>1, <3>2
  <2>5. IsRun(h, R, step, base, ids, n + 1)
    <3>1. h = [s \in SUBSET (1..(n + 1)) |-> h[s]]
      BY <2>2
    <3>2. \A s \in SUBSET (1..(n + 1)) :
            h[s] \in R /\ h[s] = IF s = {} THEN base ELSE step[<<h[s \ {Max(s)}], ids[Max(s)]>>]
      BY <2>4
    <3>3. h \in [SUBSET (1..(n + 1)) -> R]
      BY ONLY <3>1, <3>2
    <3> QED BY <3>2, <3>3 DEF IsRun
  <2> QED BY <2>5
<1>4. ASSUME NEW n \in Nat, n \in T PROVE n + 1 \in T
  <2>1. n + 1 <= Len(ids) => \E g : IsRun(g, R, step, base, ids, n + 1)
    BY <1>3, <1>4
  <2> QED BY <1>1, <2>1
<1>5. \A n \in Nat : n \in T
  BY <1>2, <1>4, Upward
<1> QED BY <1>1, <1>5

\* A function that is the table's, step by step.
RunsBy(c, R, step, base, ids) ==
  /\ c[{}] = base
  /\ \A s \in SUBSET DOMAIN ids : s # {} /\ c[s \ {Max(s)}] \in R =>
       c[s] = step[<<c[s \ {Max(s)}], ids[Max(s)]>>]

\* A fold by a table is a walk that takes the turns of the table.
LEMMA RunTurns ==
  ASSUME NEW R, NEW I, NEW step \in [R \X I -> R], NEW base \in R, NEW ids \in Seq(I), NEW c,
         RunsBy(c, R, step, base, ids)
  PROVE  EndsAt(R, step, base, ids, c[DOMAIN ids])
<1>1. PICK n \in Nat : n = Len(ids) /\ DOMAIN ids = 1..n
  OBVIOUS
<1>2. ASSUME NEW k \in 1..n, c[1..(k - 1)] \in R
      PROVE  c[1..k] \in R /\ c[1..k] = step[<<c[1..(k - 1)], ids[k]>>]
  <2>1. PICK s : s = 1..k
    OBVIOUS
  <2>2. k \in Nat /\ k \in 1..k /\ 1..k \in SUBSET (1..n)
    OBVIOUS
  <2>6. s \in SUBSET (1..k) /\ k \in s /\ s \in SUBSET DOMAIN ids /\ s # {}
    BY <1>1, <2>1, <2>2
  <2>3. Max(s) = k
    BY <2>2, <2>6, MaxOf
  <2>4. s \ {k} = 1..(k - 1)
    BY <2>1, <2>2
  <2>5. c[s] = step[<<c[s \ {k}], ids[k]>>]
    <3>1. c[s \ {Max(s)}] \in R
      BY <1>2, <2>3, <2>4
    <3>2. c[s] = step[<<c[s \ {Max(s)}], ids[Max(s)]>>]
      BY <2>6, <3>1 DEF RunsBy
    <3> QED BY <2>3, <3>2
  <2>7. ids[k] \in I
    BY <1>1
  <2> QED BY <1>2, <2>1, <2>4, <2>5, <2>7
<1>3. PICK T : T = {k \in Nat : k <= n => c[1..k] \in R}
  OBVIOUS
<1>4. 0 \in T
  <2>1. 1..0 = {}
    OBVIOUS
  <2> QED BY <1>3, <2>1 DEF RunsBy
<1>5. ASSUME NEW k \in Nat, k \in T PROVE k + 1 \in T
  <2>1. ASSUME k + 1 <= n PROVE c[1..(k + 1)] \in R
    <3>1. PICK j : j = k + 1 /\ j \in 1..n /\ j - 1 = k
      BY <2>1
    <3>2. c[1..(j - 1)] \in R
      BY <1>3, <1>5, <2>1, <3>1
    <3> QED BY <1>2, <3>1, <3>2
  <2> QED BY <1>3, <2>1
<1>6. \A k \in Nat : k \in T
  BY <1>4, <1>5, Upward
<1>7. \A k \in 0..n : c[1..k] \in R
  BY <1>3, <1>6
<1>8. PICK m : m = [k \in 0..n |-> c[1..k]]
  OBVIOUS
<1>9. m \in [0..n -> R] /\ m[0] = base /\ m[n] = c[DOMAIN ids]
  <2>1. 1..0 = {}
    OBVIOUS
  <2> QED BY <1>1, <1>7, <1>8, <2>1 DEF RunsBy
<1>10. ASSUME NEW k \in 1..n PROVE m[k] = step[<<m[k - 1], ids[k]>>]
  <2>1. k \in 0..n /\ k - 1 \in 0..n
    OBVIOUS
  <2>2. m[k] = c[1..k] /\ m[k - 1] = c[1..(k - 1)]
    BY <1>8, <2>1
  <2>3. c[1..(k - 1)] \in R
    BY <1>7, <2>1
  <2> QED BY <1>2, <2>2, <2>3
<1>11. Turns(m, R, step, base, ids) /\ m[Len(ids)] = c[DOMAIN ids]
  BY <1>1, <1>9, <1>10 DEF Turns
<1> QED BY <1>11 DEF EndsAt

\* Two walks by tables that agree on the ids end alike.
LEMMA SameTurns ==
  ASSUME NEW R, NEW ids, Len(ids) \in Nat, NEW base, NEW step, NEW other, NEW w, NEW v,
         EndsAt(R, step, base, ids, w), EndsAt(R, other, base, ids, v),
         \A x \in R : \A k \in 1..Len(ids) : step[<<x, ids[k]>>] = other[<<x, ids[k]>>]
  PROVE  w = v /\ w \in R
<1> PICK m : Turns(m, R, step, base, ids) /\ m[Len(ids)] = w
  BY DEF EndsAt
<1> PICK l : Turns(l, R, other, base, ids) /\ l[Len(ids)] = v
  BY DEF EndsAt
<1>1. PICK T : T = {k \in Nat : k <= Len(ids) => m[k] = l[k]}
  OBVIOUS
<1>2. 0 \in T
  BY <1>1 DEF Turns
<1>3. ASSUME NEW k \in Nat, k \in T PROVE k + 1 \in T
  <2>1. ASSUME k + 1 <= Len(ids) PROVE m[k + 1] = l[k + 1]
    <3>1. PICK j : j = k + 1 /\ j \in 1..Len(ids) /\ j - 1 = k /\ k \in 0..Len(ids)
      BY <2>1
    <3>2. m[k] = l[k] /\ m[k] \in R
      BY <1>1, <1>3, <2>1, <3>1 DEF Turns
    <3>3. m[j] = step[<<m[k], ids[j]>>] /\ l[j] = other[<<l[k], ids[j]>>]
      BY <3>1 DEF Turns
    <3> QED BY <3>1, <3>2, <3>3
  <2> QED BY <1>1, <2>1
<1>4. \A k \in Nat : k \in T
  BY <1>2, <1>3, Upward
<1>5. m[Len(ids)] \in R
  BY DEF Turns
<1> QED BY <1>1, <1>4, <1>5

\* A recursive function whose calls go down in rank exists.
GoesDown(F, D, R, rank, N) ==
  /\ F \in [[D -> R] -> [D -> R]] /\ rank \in [D -> Nat] /\ N \in Nat /\ R # {}
  /\ \A x \in D : rank[x] < N
  /\ \A g, h \in [D -> R] : \A x \in D :
       (\A y \in D : rank[y] < rank[x] => g[y] = h[y]) => F[g][x] = F[h][x]

HasFixedPoint(F, D, R) == \E g \in [D -> R] : F[g] = g

LEMMA FixedPoint ==
  ASSUME NEW D, NEW R, NEW F, NEW rank, NEW N, GoesDown(F, D, R, rank, N)
  PROVE  HasFixedPoint(F, D, R)
<1> USE DEF GoesDown
<1>1. PICK T : T = {n \in Nat : \E g \in [D -> R] : \A x \in D : rank[x] < n => F[g][x] = g[x]}
  OBVIOUS
<1>2. 0 \in T
  <2>1. PICK r \in R : TRUE
    OBVIOUS
  <2>2. PICK g : g = [x \in D |-> r]
    OBVIOUS
  <2>3. g \in [D -> R] /\ \A x \in D : ~(rank[x] < 0)
    BY <2>1, <2>2
  <2> QED BY <1>1, <2>3
<1>3. ASSUME NEW n \in Nat, n \in T PROVE n + 1 \in T
  <2>1. PICK g \in [D -> R] : \A x \in D : rank[x] < n => F[g][x] = g[x]
    BY <1>1, <1>3
  <2>2. PICK h \in [D -> R] : h = F[g]
    OBVIOUS
  <2>3. ASSUME NEW x \in D, rank[x] < n + 1 PROVE F[h][x] = h[x]
    <3>1. \A y \in D : rank[y] < rank[x] => rank[y] < n
      BY <2>3
    <3>2. \A y \in D : rank[y] < rank[x] => g[y] = h[y]
      BY <2>1, <2>2, <3>1
    <3> QED BY <2>2, <3>2
  <2> QED BY <1>1, <2>3
<1>4. N \in T
  BY <1>2, <1>3, Upward
<1>5. PICK g \in [D -> R] : \A x \in D : rank[x] < N => F[g][x] = g[x]
  BY <1>1, <1>4
<1>6. \A x \in D : F[g][x] = g[x]
  BY <1>5
<1>7. F[g] \in [D -> R]
  OBVIOUS
<1>8. F[g] = g
  BY <1>6, <1>7
<1> QED BY <1>8 DEF HasFixedPoint

\* A call one level down has one id fewer that is not above it.
LEMMA FewerLeft ==
  ASSUME NEW lib, IsFiniteSet(lib), NEW id \in lib, NEW above \in SUBSET lib, id \notin above
  PROVE  /\ above \cup {id} \in SUBSET lib
         /\ Cardinality(lib \ above) \in Nat /\ Cardinality(lib \ (above \cup {id})) \in Nat
         /\ Cardinality(lib \ above) = Cardinality(lib \ (above \cup {id})) + 1
<1>1. PICK rest : rest = lib \ above
  OBVIOUS
<1>2. id \in rest /\ lib \ (above \cup {id}) = rest \ {id} /\ IsFiniteSet(rest)
  BY <1>1, FS_Difference
<1>3. Cardinality(rest) \in Nat /\ Cardinality(rest \ {id}) \in Nat
  BY <1>2, FS_CardinalityType, FS_RemoveElement
<1>4. Cardinality(rest \ {id}) = IF id \in rest THEN Cardinality(rest) - 1 ELSE Cardinality(rest)
  <2>1. IsFiniteSet(rest)
    BY <1>2
  <2> QED BY <2>1, FS_RemoveElement, Zenon
<1>5. PICK a, b : a = Cardinality(rest) /\ b = Cardinality(rest \ {id})
  OBVIOUS
<1>6. a = b + 1
  BY <1>2, <1>3, <1>4, <1>5
<1> QED BY <1>1, <1>2, <1>3, <1>5, <1>6

\* Induction over calls that each add an id to a finite set of them.
LEMMA Downward ==
  ASSUME NEW lib, IsFiniteSet(lib), NEW G,
         \A id \in lib : \A above \in SUBSET lib :
           (id \notin above => \A d \in lib : <<d, above \cup {id}>> \in G) => <<id, above>> \in G
  PROVE  \A id \in lib : \A above \in SUBSET lib : <<id, above>> \in G
<1>1. PICK T : T = {n \in Nat : \A id \in lib : \A above \in SUBSET lib :
                                  Cardinality(lib \ above) <= n => <<id, above>> \in G}
  OBVIOUS
<1>2. \A above \in SUBSET lib : Cardinality(lib \ above) \in Nat
  BY FS_Difference, FS_CardinalityType
<1>3. ASSUME NEW id \in lib, NEW above \in SUBSET lib, id \notin above
      PROVE  /\ above \cup {id} \in SUBSET lib
             /\ Cardinality(lib \ above) = Cardinality(lib \ (above \cup {id})) + 1
  BY <1>3, FewerLeft
<1>4. 0 \in T
  <2>1. ASSUME NEW id \in lib, NEW above \in SUBSET lib, Cardinality(lib \ above) <= 0
        PROVE  <<id, above>> \in G
    <3>1. id \in above
      <4>1. SUFFICES ASSUME id \notin above PROVE FALSE
        OBVIOUS
      <4>2. above \cup {id} \in SUBSET lib /\ Cardinality(lib \ above) = Cardinality(lib \ (above \cup {id})) + 1
        BY <1>3, <4>1
      <4>3. Cardinality(lib \ (above \cup {id})) \in Nat
        BY <1>2, <4>2
      <4> QED BY <2>1, <4>2, <4>3
    <3> QED BY <3>1
  <2> QED BY <1>1, <2>1
<1>5. ASSUME NEW n \in Nat, n \in T PROVE n + 1 \in T
  <2>1. ASSUME NEW id \in lib, NEW above \in SUBSET lib, Cardinality(lib \ above) <= n + 1
        PROVE  <<id, above>> \in G
    <3>1. ASSUME id \notin above, NEW d \in lib PROVE <<d, above \cup {id}>> \in G
      <4>1. /\ above \cup {id} \in SUBSET lib /\ Cardinality(lib \ (above \cup {id})) \in Nat
            /\ Cardinality(lib \ above) = Cardinality(lib \ (above \cup {id})) + 1
        BY <1>2, <1>3, <3>1
      <4>2. Cardinality(lib \ (above \cup {id})) <= n
        BY <2>1, <4>1
      <4> QED BY <1>1, <1>5, <4>1, <4>2
    <3> QED BY <3>1
  <2> QED BY <1>1, <2>1
<1>6. \A n \in Nat : n \in T
  BY <1>4, <1>5, Upward
<1>7. ASSUME NEW id \in lib, NEW above \in SUBSET lib PROVE <<id, above>> \in G
  <2>1. PICK n \in Nat : n = Cardinality(lib \ above)
    BY <1>2
  <2>2. n \in T /\ Cardinality(lib \ above) <= n
    BY <1>6, <2>1
  <2> QED BY <1>1, <2>2
<1> QED BY <1>7

Codes == {"none", "MISSING_DEPENDENCY", "DEPENDENCY_CYCLE"}
Walks(lib) == [error : Codes, ids : Seq(lib)]

ExpandTable(lib, expand, stack) ==
  [x \in Walks(lib) \X lib |->
     IF x[1].error = "none" THEN And(x[1], expand[<<x[2], stack>>]) ELSE x[1]]

VisitTable(lib, visit, visiting) ==
  [x \in Walks(lib) \X lib |->
     IF x[1].error = "none" THEN visit[<<x[2], visiting, x[1].ids>>] ELSE x[1]]

IsExpandFold(c, expand, stack, base, ids) ==
  c = [s \in SUBSET DOMAIN ids |->
         IF s = {} THEN base
         ELSE IF c[s \ {Max(s)}].error = "none"
                THEN And(c[s \ {Max(s)}], expand[<<ids[Max(s)], stack>>])
         ELSE c[s \ {Max(s)}]]

IsVisitFold(c, visit, visiting, base, ids) ==
  c = [s \in SUBSET DOMAIN ids |->
         IF s = {} THEN base
         ELSE IF c[s \ {Max(s)}].error = "none"
                THEN visit[<<ids[Max(s)], visiting, c[s \ {Max(s)}].ids>>]
         ELSE c[s \ {Max(s)}]]

\* What the makers of walks make.
LEMMA WalkTypes ==
  ASSUME NEW lib
  PROVE  /\ \A w \in Walks(lib) : w.error \in Codes /\ w.ids \in Seq(lib)
         /\ \A w, v \in Walks(lib) : And(w, v) \in Walks(lib) /\ And(w, v).error = v.error /\ And(w, v).ids = w.ids \o v.ids
         /\ \A ids \in Seq(lib) : Walk(ids) \in Walks(lib) /\ Walk(ids).error = "none" /\ Walk(ids).ids = ids
         /\ \A code \in Codes : Thrown(code) \in Walks(lib) /\ Thrown(code).error = code
<1>1. <<>> \in Seq(lib) /\ "none" \in Codes
  BY DEF Codes
<1>2. \A w \in Walks(lib) : w.error \in Codes /\ w.ids \in Seq(lib)
  BY DEF Walks
<1>3. ASSUME NEW w \in Walks(lib), NEW v \in Walks(lib)
      PROVE  And(w, v) \in Walks(lib) /\ And(w, v).error = v.error /\ And(w, v).ids = w.ids \o v.ids
  <2>1. w.ids \o v.ids \in Seq(lib) /\ v.error \in Codes
    BY <1>2
  <2> QED BY <2>1 DEF And, Walks
<1>4. \A ids \in Seq(lib) : Walk(ids) \in Walks(lib) /\ Walk(ids).error = "none" /\ Walk(ids).ids = ids
  BY <1>1 DEF Walk, Walks
<1>5. \A code \in Codes : Thrown(code) \in Walks(lib) /\ Thrown(code).error = code
  BY <1>1 DEF Thrown, Walks
<1> QED BY <1>2, <1>3, <1>4, <1>5

\* The turns of ExpandAll, and of VisitAll.
LEMMA ExpandTurns ==
  ASSUME NEW lib, NEW stack, NEW expand, \A id \in lib : expand[<<id, stack>>] \in Walks(lib),
         NEW base \in Walks(lib), NEW ids \in Seq(lib)
  PROVE  EndsAt(Walks(lib), ExpandTable(lib, expand, stack), base, ids,
                ExpandAll(expand, stack, base, ids))
<1>0. PICK R : R = Walks(lib)
  OBVIOUS
<1>1. PICK table : table = ExpandTable(lib, expand, stack)
  OBVIOUS
<1>2. /\ table \in [R \X lib -> R]
      /\ \A w \in R : \A id \in lib :
           table[<<w, id>>] = IF w.error = "none" THEN And(w, expand[<<id, stack>>]) ELSE w
  BY <1>0, <1>1, WalkTypes DEF ExpandTable
<1>3. PICK n \in Nat : n = Len(ids) /\ DOMAIN ids = 1..n /\ n <= Len(ids)
  OBVIOUS
<1>4. PICK g : IsRun(g, R, table, base, ids, n)
  BY <1>2, <1>3, RunExists, <1>0
<1>5. \A s \in SUBSET DOMAIN ids : s # {} => s \ {Max(s)} \in SUBSET DOMAIN ids /\ ids[Max(s)] \in lib
  <2>1. ASSUME NEW s \in SUBSET (1..n), s # {} PROVE s \ {Max(s)} \in SUBSET (1..n) /\ ids[Max(s)] \in lib
    <3>1. Max(s) \in s
      BY <2>1, MaxMember
    <3>2. Max(s) \in 1..n
      BY <3>1
    <3>3. ids[Max(s)] \in lib
      BY <1>3, <3>2
    <3> QED BY <3>3
  <2> QED BY <1>3, <2>1
<1>6. IsExpandFold(g, expand, stack, base, ids)
  <2>1. g = [s \in SUBSET DOMAIN ids |-> g[s]] /\ \A s \in SUBSET DOMAIN ids : g[s] \in R
    BY <1>3, <1>4 DEF IsRun
  <2>2. \A s \in SUBSET DOMAIN ids :
          g[s] = IF s = {} THEN base
                 ELSE IF g[s \ {Max(s)}].error = "none"
                       THEN And(g[s \ {Max(s)}], expand[<<ids[Max(s)], stack>>])
                 ELSE g[s \ {Max(s)}]
    <3>1. TAKE s \in SUBSET DOMAIN ids
    <3>2. g[s] = IF s = {} THEN base ELSE table[<<g[s \ {Max(s)}], ids[Max(s)]>>]
      BY <1>3, <1>4 DEF IsRun
    <3>3. s # {} => g[s \ {Max(s)}] \in R /\ ids[Max(s)] \in lib
      BY <1>5, <2>1
    <3> QED BY <1>2, <3>2, <3>3
  <2> QED BY <2>1, <2>2 DEF IsExpandFold
<1>7. PICK c : c = CHOOSE d : IsExpandFold(d, expand, stack, base, ids)
  OBVIOUS
<1>8. IsExpandFold(c, expand, stack, base, ids)
  BY <1>6, <1>7
<1>9. ExpandAll(expand, stack, base, ids) = c[DOMAIN ids]
  BY <1>7 DEF ExpandAll, InTurn, FoldLeft, MapThenFoldSet, IsExpandFold
<1>10. RunsBy(c, R, table, base, ids)
  <2>1. /\ c[{}] = base
        /\ \A s \in SUBSET DOMAIN ids : s # {} =>
             c[s] = IF c[s \ {Max(s)}].error = "none"
                      THEN And(c[s \ {Max(s)}], expand[<<ids[Max(s)], stack>>])
                    ELSE c[s \ {Max(s)}]
    BY <1>8 DEF IsExpandFold
  <2> QED BY <1>2, <1>5, <2>1 DEF RunsBy
<1>11. EndsAt(R, table, base, ids, c[DOMAIN ids])
  <2>1. base \in R /\ ids \in Seq(lib) /\ table \in [R \X lib -> R]
    BY <1>0, <1>2
  <2> QED BY ONLY <1>10, <2>1, RunTurns
<1> QED BY <1>0, <1>1, <1>9, <1>11

LEMMA VisitTurns ==
  ASSUME NEW lib, NEW visiting, NEW visit,
         \A id \in lib : \A order \in Seq(lib) : visit[<<id, visiting, order>>] \in Walks(lib),
         NEW base \in Walks(lib), NEW ids \in Seq(lib)
  PROVE  EndsAt(Walks(lib), VisitTable(lib, visit, visiting), base, ids,
                VisitAll(visit, visiting, base, ids))
<1>0. PICK R : R = Walks(lib)
  OBVIOUS
<1>1. PICK table : table = VisitTable(lib, visit, visiting)
  OBVIOUS
<1>2. /\ table \in [R \X lib -> R]
      /\ \A w \in R : \A id \in lib :
           table[<<w, id>>] = IF w.error = "none" THEN visit[<<id, visiting, w.ids>>] ELSE w
  BY <1>0, <1>1, WalkTypes DEF VisitTable
<1>3. PICK n \in Nat : n = Len(ids) /\ DOMAIN ids = 1..n /\ n <= Len(ids)
  OBVIOUS
<1>4. PICK g : IsRun(g, R, table, base, ids, n)
  BY <1>2, <1>3, RunExists, <1>0
<1>5. \A s \in SUBSET DOMAIN ids : s # {} => s \ {Max(s)} \in SUBSET DOMAIN ids /\ ids[Max(s)] \in lib
  <2>1. ASSUME NEW s \in SUBSET (1..n), s # {} PROVE s \ {Max(s)} \in SUBSET (1..n) /\ ids[Max(s)] \in lib
    <3>1. Max(s) \in s
      BY <2>1, MaxMember
    <3>2. Max(s) \in 1..n
      BY <3>1
    <3>3. ids[Max(s)] \in lib
      BY <1>3, <3>2
    <3> QED BY <3>3
  <2> QED BY <1>3, <2>1
<1>6. IsVisitFold(g, visit, visiting, base, ids)
  <2>1. g = [s \in SUBSET DOMAIN ids |-> g[s]] /\ \A s \in SUBSET DOMAIN ids : g[s] \in R
    BY <1>3, <1>4 DEF IsRun
  <2>2. \A s \in SUBSET DOMAIN ids :
          g[s] = IF s = {} THEN base
                 ELSE IF g[s \ {Max(s)}].error = "none"
                       THEN visit[<<ids[Max(s)], visiting, g[s \ {Max(s)}].ids>>]
                 ELSE g[s \ {Max(s)}]
    <3>1. TAKE s \in SUBSET DOMAIN ids
    <3>2. g[s] = IF s = {} THEN base ELSE table[<<g[s \ {Max(s)}], ids[Max(s)]>>]
      BY <1>3, <1>4 DEF IsRun
    <3>3. s # {} => g[s \ {Max(s)}] \in R /\ ids[Max(s)] \in lib
      BY <1>5, <2>1
    <3> QED BY <1>2, <3>2, <3>3
  <2> QED BY <2>1, <2>2 DEF IsVisitFold
<1>7. PICK c : c = CHOOSE d : IsVisitFold(d, visit, visiting, base, ids)
  OBVIOUS
<1>8. IsVisitFold(c, visit, visiting, base, ids)
  BY <1>6, <1>7
<1>9. VisitAll(visit, visiting, base, ids) = c[DOMAIN ids]
  BY <1>7 DEF VisitAll, InTurn, FoldLeft, MapThenFoldSet, IsVisitFold
<1>10. RunsBy(c, R, table, base, ids)
  <2>1. /\ c[{}] = base
        /\ \A s \in SUBSET DOMAIN ids : s # {} =>
             c[s] = IF c[s \ {Max(s)}].error = "none"
                      THEN visit[<<ids[Max(s)], visiting, c[s \ {Max(s)}].ids>>]
                    ELSE c[s \ {Max(s)}]
    BY <1>8 DEF IsVisitFold
  <2> QED BY <1>2, <1>5, <2>1 DEF RunsBy
<1>11. EndsAt(R, table, base, ids, c[DOMAIN ids])
  <2>1. base \in R /\ ids \in Seq(lib) /\ table \in [R \X lib -> R]
    BY <1>0, <1>2
  <2> QED BY ONLY <1>10, <2>1, RunTurns
<1> QED BY <1>0, <1>1, <1>9, <1>11

ExpandCalls(library) == (DOMAIN library) \X (SUBSET DOMAIN library)

ExpandBody(library, expand, call) ==
  LET id == call[1]
      stack == call[2]
      package == library[id]
  IN  IF package.kind = "absent" THEN Thrown("MISSING_DEPENDENCY")
      ELSE IF id \in stack THEN Thrown("DEPENDENCY_CYCLE")
      ELSE ExpandAll(expand, stack \cup {id},
                     Walk(IF package.kind = "plugin" THEN <<id>> ELSE <<>>), package.requires)

IsExpand(library, expand) ==
  expand = [call \in ExpandCalls(library) |-> ExpandBody(library, expand, call)]

\* Expanded by its recursive function, which IsExpand defines; Visited likewise.
LEMMA ExpandedBy ==
  ASSUME NEW library, NEW select
  PROVE  Expanded(library, select) = ExpandAll(CHOOSE e : IsExpand(library, e), {}, Walk(<<>>), select)
BY DEF Expanded, IsExpand, ExpandBody, ExpandCalls

VisitCalls(library) == (DOMAIN library) \X (SUBSET DOMAIN library) \X Seq(DOMAIN library)

VisitBody(library, visit, call) ==
  LET id == call[1]
      visiting == call[2]
      order == call[3]
      package == library[id]
      below == VisitAll(visit, visiting \cup {id}, Walk(order), package.requires)
  IN  IF id \in ToSet(order) THEN Walk(order)
      ELSE IF id \in visiting THEN Thrown("DEPENDENCY_CYCLE")
      ELSE IF package.kind # "plugin" THEN Thrown("MISSING_DEPENDENCY")
      ELSE IF below.error # "none" THEN below
      ELSE Walk(Append(below.ids, id))

IsVisit(library, visit) ==
  visit = [call \in VisitCalls(library) |-> VisitBody(library, visit, call)]

LEMMA VisitedBy ==
  ASSUME NEW library, NEW selected
  PROVE  Visited(library, selected) = VisitAll(CHOOSE v : IsVisit(library, v), {}, Walk(<<>>), selected)
BY DEF Visited, IsVisit, VisitBody, VisitCalls

\* What the calls below a call return decides what it returns.
ExpandAgree(lib, id, stack, e, f) ==
  id \notin stack => \A d \in lib : /\ e[<<d, stack \cup {id}>>] \in Walks(lib)
                                    /\ e[<<d, stack \cup {id}>>] = f[<<d, stack \cup {id}>>]

VisitAgree(lib, id, visiting, v, u) ==
  id \notin visiting => \A d \in lib : \A o \in Seq(lib) :
    /\ v[<<d, visiting \cup {id}, o>>] \in Walks(lib)
    /\ v[<<d, visiting \cup {id}, o>>] = u[<<d, visiting \cup {id}, o>>]

LEMMA ExpandBelow ==
  ASSUME NEW library, IsLibrary(library), NEW lib, lib = DOMAIN library,
         NEW id \in lib, NEW stack \in SUBSET lib, NEW e, NEW f,
         ExpandAgree(lib, id, stack, e, f)
  PROVE  /\ ExpandBody(library, e, <<id, stack>>) \in Walks(lib)
         /\ ExpandBody(library, e, <<id, stack>>) = ExpandBody(library, f, <<id, stack>>)
<1>1. PICK package, above, base :
        /\ package = library[id] /\ above = stack \cup {id}
        /\ base = Walk(IF package.kind = "plugin" THEN <<id>> ELSE <<>>)
  OBVIOUS
<1>2. \A g : ExpandBody(library, g, <<id, stack>>) =
               IF package.kind = "absent" THEN Thrown("MISSING_DEPENDENCY")
               ELSE IF id \in stack THEN Thrown("DEPENDENCY_CYCLE")
               ELSE ExpandAll(g, above, base, package.requires)
  BY <1>1 DEF ExpandBody
<1>3. Thrown("MISSING_DEPENDENCY") \in Walks(lib) /\ Thrown("DEPENDENCY_CYCLE") \in Walks(lib)
  BY WalkTypes DEF Codes
<1>4. ASSUME id \notin stack
      PROVE  ExpandAll(e, above, base, package.requires) \in Walks(lib)
             /\ ExpandAll(e, above, base, package.requires) = ExpandAll(f, above, base, package.requires)
  <2>1. PICK ids : ids = package.requires /\ ids \in Seq(lib) /\ Len(ids) \in Nat
    BY <1>1 DEF IsLibrary
  <2>2. base \in Walks(lib)
    <3>1. <<id>> \in Seq(lib) /\ <<>> \in Seq(lib)
      OBVIOUS
    <3>2. Walk(<<id>>) \in Walks(lib) /\ Walk(<<>>) \in Walks(lib)
      BY <3>1, WalkTypes
    <3> QED BY <1>1, <3>2
  <2>3. /\ \A d \in lib : e[<<d, above>>] \in Walks(lib)
        /\ \A d \in lib : f[<<d, above>>] \in Walks(lib)
        /\ \A d \in lib : e[<<d, above>>] = f[<<d, above>>]
    BY <1>1, <1>4 DEF ExpandAgree
  <2>4. /\ EndsAt(Walks(lib), ExpandTable(lib, e, above), base, ids, ExpandAll(e, above, base, ids))
        /\ EndsAt(Walks(lib), ExpandTable(lib, f, above), base, ids, ExpandAll(f, above, base, ids))
    BY ONLY <2>1, <2>2, <2>3, ExpandTurns
  <2>5. \A x \in Walks(lib) : \A k \in 1..Len(ids) :
          ExpandTable(lib, e, above)[<<x, ids[k]>>] = ExpandTable(lib, f, above)[<<x, ids[k]>>]
    <3>1. \A k \in 1..Len(ids) : ids[k] \in lib
      BY <2>1
    <3> QED BY <2>3, <3>1 DEF ExpandTable
  <2> QED BY <2>1, <2>4, <2>5, SameTurns
<1> QED BY <1>2, <1>3, <1>4

LEMMA VisitBelow ==
  ASSUME NEW library, IsLibrary(library), NEW lib, lib = DOMAIN library,
         NEW id \in lib, NEW visiting \in SUBSET lib, NEW order \in Seq(lib), NEW v, NEW u,
         VisitAgree(lib, id, visiting, v, u)
  PROVE  /\ VisitBody(library, v, <<id, visiting, order>>) \in Walks(lib)
         /\ VisitBody(library, v, <<id, visiting, order>>) = VisitBody(library, u, <<id, visiting, order>>)
<1>1. PICK package, above :
        package = library[id] /\ above = visiting \cup {id}
  OBVIOUS
<1>2. \A g : VisitBody(library, g, <<id, visiting, order>>) =
               LET below == VisitAll(g, above, Walk(order), package.requires)
               IN  IF id \in ToSet(order) THEN Walk(order)
                   ELSE IF id \in visiting THEN Thrown("DEPENDENCY_CYCLE")
                   ELSE IF package.kind # "plugin" THEN Thrown("MISSING_DEPENDENCY")
                   ELSE IF below.error # "none" THEN below
                   ELSE Walk(Append(below.ids, id))
  BY <1>1 DEF VisitBody
<1>3. /\ Thrown("MISSING_DEPENDENCY") \in Walks(lib) /\ Thrown("DEPENDENCY_CYCLE") \in Walks(lib)
      /\ Walk(order) \in Walks(lib)
  BY WalkTypes DEF Codes
<1>4. ASSUME id \notin visiting
      PROVE  /\ VisitAll(v, above, Walk(order), package.requires) \in Walks(lib)
             /\ VisitAll(v, above, Walk(order), package.requires) = VisitAll(u, above, Walk(order), package.requires)
  <2>1. PICK ids, base : base = Walk(order) /\ ids = package.requires /\ ids \in Seq(lib) /\ Len(ids) \in Nat
    BY <1>1 DEF IsLibrary
  <2>2. base \in Walks(lib)
    BY <1>3, <2>1
  <2>3. /\ \A d \in lib : \A o \in Seq(lib) : v[<<d, above, o>>] \in Walks(lib)
        /\ \A d \in lib : \A o \in Seq(lib) : u[<<d, above, o>>] \in Walks(lib)
        /\ \A d \in lib : \A o \in Seq(lib) : v[<<d, above, o>>] = u[<<d, above, o>>]
    BY <1>1, <1>4 DEF VisitAgree
  <2>4. /\ EndsAt(Walks(lib), VisitTable(lib, v, above), base, ids, VisitAll(v, above, base, ids))
        /\ EndsAt(Walks(lib), VisitTable(lib, u, above), base, ids, VisitAll(u, above, base, ids))
    BY ONLY <2>1, <2>2, <2>3, VisitTurns
  <2>5. \A x \in Walks(lib) : \A k \in 1..Len(ids) :
          VisitTable(lib, v, above)[<<x, ids[k]>>] = VisitTable(lib, u, above)[<<x, ids[k]>>]
    <3>1. \A k \in 1..Len(ids) : ids[k] \in lib
      BY <2>1
    <3>2. \A x \in Walks(lib) : x.ids \in Seq(lib)
      BY WalkTypes
    <3> QED BY <2>3, <3>1, <3>2 DEF VisitTable
  <2> QED BY <2>1, <2>4, <2>5, SameTurns
<1>5. \A w \in Walks(lib) : Walk(Append(w.ids, id)) \in Walks(lib)
  <2>1. ASSUME NEW w \in Walks(lib) PROVE Append(w.ids, id) \in Seq(lib)
    <3>1. PICK ids \in Seq(lib) : ids = w.ids
      BY WalkTypes
    <3>2. Append(ids, id) \in Seq(lib)
      OBVIOUS
    <3> QED BY <3>1, <3>2
  <2> QED BY <2>1, WalkTypes
<1> QED BY <1>2, <1>3, <1>4, <1>5

\* What the walks recurse by: how many ids are not above the call.
LEMMA LeftRank ==
  ASSUME NEW lib, IsFiniteSet(lib)
  PROVE  /\ Cardinality(lib) \in Nat
         /\ \A above \in SUBSET lib :
              Cardinality(lib \ above) \in Nat /\ Cardinality(lib \ above) < Cardinality(lib) + 1
<1>1. Cardinality(lib) \in Nat
  BY FS_CardinalityType
<1>2. ASSUME NEW above \in SUBSET lib
      PROVE  Cardinality(lib \ above) \in Nat /\ Cardinality(lib \ above) < Cardinality(lib) + 1
  <2>1. IsFiniteSet(lib \ above) /\ Cardinality(lib \ above) \in Nat
    BY FS_Difference, FS_CardinalityType
  <2>2. Cardinality(lib \ above) <= Cardinality(lib)
    <3>1. PICK S : S = lib \ above
      OBVIOUS
    <3>2. S \in SUBSET lib
      BY <3>1
    <3>3. Cardinality(S) <= Cardinality(lib)
      BY <3>2, FS_Subset
    <3> QED BY <3>1, <3>3
  <2> QED BY <1>1, <2>1, <2>2
<1> QED BY <1>1, <1>2

\* The recursive functions of expand and visit exist: calls go down in rank.
LEMMA ExpandExists ==
  ASSUME NEW library, IsLibrary(library), NEW lib, lib = DOMAIN library
  PROVE  \E e : IsExpand(library, e)
<1>1. PICK D, R, rank : D = ExpandCalls(library) /\ R = Walks(lib) /\ rank = [x \in D |-> Cardinality(lib \ x[2])]
  OBVIOUS
<1>2. PICK F : F = [g \in [D -> R] |-> [x \in D |-> ExpandBody(library, g, x)]]
  OBVIOUS
<1>3. IsFiniteSet(lib)
  BY DEF IsLibrary
<1>4. PICK N \in Nat : N = Cardinality(lib) + 1
  <2>1. Cardinality(lib) \in Nat
    BY <1>3, LeftRank
  <2> QED BY <2>1
<1>5. rank \in [D -> Nat] /\ \A x \in D : rank[x] = Cardinality(lib \ x[2]) /\ rank[x] < N
  <2>1. \A x \in D : x[2] \in SUBSET lib
    BY <1>1 DEF ExpandCalls
  <2>2. \A x \in D : Cardinality(lib \ x[2]) \in Nat /\ Cardinality(lib \ x[2]) < N
    BY <1>3, <1>4, <2>1, LeftRank
  <2> QED BY <1>1, <2>2
<1>6. ASSUME NEW x \in D, NEW g \in [D -> R], NEW h \in [D -> R],
             \A y \in D : rank[y] < rank[x] => g[y] = h[y]
      PROVE  ExpandBody(library, g, x) \in R /\ ExpandBody(library, g, x) = ExpandBody(library, h, x)
  <2>1. PICK id \in lib, stack \in SUBSET lib : x = <<id, stack>>
    BY <1>1 DEF ExpandCalls
  <2>2. ASSUME id \notin stack, NEW d \in lib
        PROVE  /\ g[<<d, stack \cup {id}>>] \in R
               /\ g[<<d, stack \cup {id}>>] = h[<<d, stack \cup {id}>>]
    <3>1. PICK above \in SUBSET lib : above = stack \cup {id}
      OBVIOUS
    <3>2. PICK y \in D : y = <<d, above>>
      BY <1>1 DEF ExpandCalls
    <3>3. Cardinality(lib \ stack) \in Nat /\ Cardinality(lib \ above) \in Nat
          /\ Cardinality(lib \ stack) = Cardinality(lib \ above) + 1
      BY <1>3, <2>2, <3>1, FewerLeft
    <3>4. rank[y] = Cardinality(lib \ above) /\ rank[x] = Cardinality(lib \ stack)
      BY <1>5, <2>1, <3>2
    <3>5. rank[y] < rank[x]
      BY <3>3, <3>4
    <3> QED BY <1>6, <3>1, <3>2, <3>5
  <2>3. ExpandAgree(lib, id, stack, g, h)
    BY <1>1, <2>2 DEF ExpandAgree
  <2>4. /\ IsLibrary(library) /\ lib = DOMAIN library /\ id \in lib
        /\ stack \in SUBSET lib
    OBVIOUS
  <2>5. /\ ExpandBody(library, g, <<id, stack>>) \in Walks(lib)
        /\ ExpandBody(library, g, <<id, stack>>) = ExpandBody(library, h, <<id, stack>>)
    BY ONLY <2>3, <2>4, ExpandBelow
  <2> QED BY <1>1, <2>1, <2>5
<1>7. F \in [[D -> R] -> [D -> R]]
  <2>1. \A g \in [D -> R] : \A x \in D : ExpandBody(library, g, x) \in R
    BY <1>6
  <2> QED BY <1>2, <2>1
<1>8. \A g, h \in [D -> R] : \A x \in D :
        (\A y \in D : rank[y] < rank[x] => g[y] = h[y]) => F[g][x] = F[h][x]
  BY <1>2, <1>6
<1>9. R # {}
  BY <1>1, WalkTypes DEF Codes
<1>10. PICK g \in [D -> R] : F[g] = g
  <2>1. GoesDown(F, D, R, rank, N)
    BY <1>5, <1>7, <1>8, <1>9 DEF GoesDown
  <2>2. HasFixedPoint(F, D, R)
    BY <2>1, FixedPoint
  <2> QED BY <2>2 DEF HasFixedPoint
<1>11. IsExpand(library, g)
  BY <1>1, <1>2, <1>10 DEF IsExpand
<1> QED BY <1>11

LEMMA VisitExists ==
  ASSUME NEW library, IsLibrary(library), NEW lib, lib = DOMAIN library
  PROVE  \E v : IsVisit(library, v)
<1>1. PICK D, R, rank : D = VisitCalls(library) /\ R = Walks(lib) /\ rank = [x \in D |-> Cardinality(lib \ x[2])]
  OBVIOUS
<1>2. PICK F : F = [g \in [D -> R] |-> [x \in D |-> VisitBody(library, g, x)]]
  OBVIOUS
<1>3. IsFiniteSet(lib)
  BY DEF IsLibrary
<1>4. PICK N \in Nat : N = Cardinality(lib) + 1
  <2>1. Cardinality(lib) \in Nat
    BY <1>3, LeftRank
  <2> QED BY <2>1
<1>5. rank \in [D -> Nat] /\ \A x \in D : rank[x] = Cardinality(lib \ x[2]) /\ rank[x] < N
  <2>1. \A x \in D : x[2] \in SUBSET lib
    BY <1>1 DEF VisitCalls
  <2>2. \A x \in D : Cardinality(lib \ x[2]) \in Nat /\ Cardinality(lib \ x[2]) < N
    BY <1>3, <1>4, <2>1, LeftRank
  <2> QED BY <1>1, <2>2
<1>6. ASSUME NEW x \in D, NEW g \in [D -> R], NEW h \in [D -> R],
             \A y \in D : rank[y] < rank[x] => g[y] = h[y]
      PROVE  VisitBody(library, g, x) \in R /\ VisitBody(library, g, x) = VisitBody(library, h, x)
  <2>1. PICK id \in lib, visiting \in SUBSET lib, order \in Seq(lib) : x = <<id, visiting, order>>
    BY <1>1 DEF VisitCalls
  <2>2. ASSUME id \notin visiting, NEW d \in lib, NEW o \in Seq(lib)
        PROVE  /\ g[<<d, visiting \cup {id}, o>>] \in R
               /\ g[<<d, visiting \cup {id}, o>>] = h[<<d, visiting \cup {id}, o>>]
    <3>1. PICK above \in SUBSET lib : above = visiting \cup {id}
      OBVIOUS
    <3>2. PICK y \in D : y = <<d, above, o>>
      BY <1>1 DEF VisitCalls
    <3>3. Cardinality(lib \ visiting) \in Nat /\ Cardinality(lib \ above) \in Nat
          /\ Cardinality(lib \ visiting) = Cardinality(lib \ above) + 1
      BY <1>3, <2>2, <3>1, FewerLeft
    <3>4. rank[y] = Cardinality(lib \ above) /\ rank[x] = Cardinality(lib \ visiting)
      BY <1>5, <2>1, <3>2
    <3>5. rank[y] < rank[x]
      BY <3>3, <3>4
    <3> QED BY <1>6, <3>1, <3>2, <3>5
  <2>3. VisitAgree(lib, id, visiting, g, h)
    BY <1>1, <2>2 DEF VisitAgree
  <2>4. /\ IsLibrary(library) /\ lib = DOMAIN library /\ id \in lib
        /\ visiting \in SUBSET lib /\ order \in Seq(lib)
    OBVIOUS
  <2>5. /\ VisitBody(library, g, <<id, visiting, order>>) \in Walks(lib)
        /\ VisitBody(library, g, <<id, visiting, order>>) = VisitBody(library, h, <<id, visiting, order>>)
    BY ONLY <2>3, <2>4, VisitBelow
  <2> QED BY <1>1, <2>1, <2>5
<1>7. F \in [[D -> R] -> [D -> R]]
  <2>1. \A g \in [D -> R] : \A x \in D : VisitBody(library, g, x) \in R
    BY <1>6
  <2> QED BY <1>2, <2>1
<1>8. \A g, h \in [D -> R] : \A x \in D :
        (\A y \in D : rank[y] < rank[x] => g[y] = h[y]) => F[g][x] = F[h][x]
  BY <1>2, <1>6
<1>9. R # {}
  BY <1>1, WalkTypes DEF Codes
<1>10. PICK g \in [D -> R] : F[g] = g
  <2>1. GoesDown(F, D, R, rank, N)
    BY <1>5, <1>7, <1>8, <1>9 DEF GoesDown
  <2>2. HasFixedPoint(F, D, R)
    BY <2>1, FixedPoint
  <2> QED BY <2>2 DEF HasFixedPoint
<1>11. IsVisit(library, g)
  BY <1>1, <1>2, <1>10 DEF IsVisit
<1> QED BY <1>11

\* The walks return walks, and each call is what its body says.
LEMMA ExpandTyped ==
  ASSUME NEW library, IsLibrary(library), NEW lib, lib = DOMAIN library, NEW e, IsExpand(library, e)
  PROVE  \A id \in lib : \A stack \in SUBSET lib :
           /\ e[<<id, stack>>] \in Walks(lib)
           /\ e[<<id, stack>>] = ExpandBody(library, e, <<id, stack>>)
<1>1. IsFiniteSet(lib)
  BY DEF IsLibrary
<1>2. \A id \in lib : \A stack \in SUBSET lib : e[<<id, stack>>] = ExpandBody(library, e, <<id, stack>>)
  BY DEF IsExpand, ExpandCalls
<1>3. PICK G : G = {x \in lib \X SUBSET lib : e[x] \in Walks(lib)}
  OBVIOUS
<1>4. ASSUME NEW id \in lib, NEW stack \in SUBSET lib,
             id \notin stack => \A d \in lib : <<d, stack \cup {id}>> \in G
      PROVE  <<id, stack>> \in G
  <2>1. ExpandAgree(lib, id, stack, e, e)
    BY <1>3, <1>4 DEF ExpandAgree
  <2>2. ExpandBody(library, e, <<id, stack>>) \in Walks(lib)
    BY <2>1, ExpandBelow
  <2> QED BY <1>2, <1>3, <2>2
<1>5. \A id \in lib : \A stack \in SUBSET lib : <<id, stack>> \in G
  BY <1>1, <1>4, Downward
<1> QED BY <1>2, <1>3, <1>5

\* The same for visit.
LEMMA VisitTyped ==
  ASSUME NEW library, IsLibrary(library), NEW lib, lib = DOMAIN library, NEW v, IsVisit(library, v)
  PROVE  \A id \in lib : \A visiting \in SUBSET lib : \A order \in Seq(lib) :
           /\ v[<<id, visiting, order>>] \in Walks(lib)
           /\ v[<<id, visiting, order>>] = VisitBody(library, v, <<id, visiting, order>>)
<1>1. IsFiniteSet(lib)
  BY DEF IsLibrary
<1>2. \A id \in lib : \A visiting \in SUBSET lib : \A order \in Seq(lib) :
        v[<<id, visiting, order>>] = VisitBody(library, v, <<id, visiting, order>>)
  BY DEF IsVisit, VisitCalls
<1>3. PICK G : G = {x \in lib \X SUBSET lib : \A order \in Seq(lib) : v[<<x[1], x[2], order>>] \in Walks(lib)}
  OBVIOUS
<1>4. ASSUME NEW id \in lib, NEW visiting \in SUBSET lib,
             id \notin visiting => \A d \in lib : <<d, visiting \cup {id}>> \in G
      PROVE  <<id, visiting>> \in G
  <2>1. VisitAgree(lib, id, visiting, v, v)
    BY <1>3, <1>4 DEF VisitAgree
  <2>2. \A order \in Seq(lib) : VisitBody(library, v, <<id, visiting, order>>) \in Walks(lib)
    BY <2>1, VisitBelow
  <2> QED BY <1>2, <1>3, <2>2
<1>5. \A id \in lib : \A visiting \in SUBSET lib : <<id, visiting>> \in G
  BY <1>1, <1>4, Downward
<1> QED BY <1>2, <1>3, <1>5, ZenonT(60)

-----------------------------------------------------------------------------
(* What an id leads to, and the cycles in it.                               *)

\* The ids that an id leads to, itself among them.
Closed(library, S) == \A j \in S : Requires(library, j) \subseteq S

Reach(library, id) ==
  {i \in DOMAIN library : \A S \in SUBSET DOMAIN library : id \in S /\ Closed(library, S) => i \in S}

LEMMA RequiresWithin ==
  ASSUME NEW library, IsLibrary(library), NEW lib, lib = DOMAIN library, NEW id \in lib
  PROVE  Requires(library, id) \in SUBSET lib
<1>1. PICK ids \in Seq(lib) : ids = library[id].requires
  BY DEF IsLibrary
<1>2. ToSet(ids) \in SUBSET lib
  BY DEF ToSet
<1> QED BY <1>1, <1>2 DEF Requires

LEMMA ReachClosed ==
  ASSUME NEW library, IsLibrary(library), NEW lib, lib = DOMAIN library, NEW id \in lib
  PROVE  /\ Reach(library, id) \in SUBSET lib /\ id \in Reach(library, id)
         /\ Closed(library, Reach(library, id))
         /\ \A S \in SUBSET lib : id \in S /\ Closed(library, S) => Reach(library, id) \subseteq S
<1>1. Reach(library, id) \in SUBSET lib /\ id \in Reach(library, id)
  BY DEF Reach
<1>2. \A S \in SUBSET lib : id \in S /\ Closed(library, S) => Reach(library, id) \subseteq S
  BY DEF Reach
<1>3. ASSUME NEW j \in Reach(library, id), NEW d \in Requires(library, j)
      PROVE  d \in Reach(library, id)
  <2>1. j \in lib
    BY <1>1
  <2>2. d \in lib
    BY <2>1, RequiresWithin
  <2>3. ASSUME NEW S \in SUBSET lib, id \in S, Closed(library, S) PROVE d \in S
    <3>1. j \in S
      BY <1>2, <2>3
    <3> QED BY <2>3, <3>1 DEF Closed
  <2> QED BY <2>2, <2>3 DEF Reach
<1>4. Closed(library, Reach(library, id))
  BY <1>3 DEF Closed
<1> QED BY <1>1, <1>2, <1>4

LEMMA ReachOn ==
  ASSUME NEW library, IsLibrary(library), NEW lib, lib = DOMAIN library,
         NEW id \in lib, NEW j \in Reach(library, id)
  PROVE  /\ j \in lib /\ Reach(library, j) \subseteq Reach(library, id)
         /\ Requires(library, j) \subseteq Reach(library, id)
<1>1. j \in lib
  BY ReachClosed
<1>2. Reach(library, id) \in SUBSET lib /\ Closed(library, Reach(library, id))
  BY ReachClosed
<1>3. Reach(library, j) \subseteq Reach(library, id)
  BY <1>1, <1>2, ReachClosed
<1>4. Requires(library, j) \subseteq Reach(library, id)
  BY <1>2 DEF Closed
<1> QED BY <1>1, <1>3, <1>4

\* A step, and then on.
LEMMA ReachByStep ==
  ASSUME NEW library, IsLibrary(library), NEW lib, lib = DOMAIN library, NEW id \in lib
  PROVE  Reach(library, id) = {id} \cup UNION {Reach(library, d) : d \in Requires(library, id)}
<1>1. PICK R : R = {id} \cup UNION {Reach(library, d) : d \in Requires(library, id)}
  OBVIOUS
<1>2. \A d \in Requires(library, id) : d \in lib
  BY RequiresWithin
<1>3. \A d \in Requires(library, id) : Reach(library, d) \in SUBSET lib /\ d \in Reach(library, d)
                                     /\ Closed(library, Reach(library, d))
  BY <1>2, ReachClosed
<1>4. R \in SUBSET lib /\ id \in R
  BY <1>1, <1>3
<1>5. ASSUME NEW j \in R, NEW i \in Requires(library, j) PROVE i \in R
  <2>1. CASE j = id
    BY <1>1, <1>3, <1>5, <2>1
  <2>2. CASE j # id
    <3>1. PICK d \in Requires(library, id) : j \in Reach(library, d)
      BY <1>1, <2>2
    <3>2. i \in Reach(library, d)
      BY <1>3, <1>5, <3>1 DEF Closed
    <3> QED BY <1>1, <3>2
  <2> QED BY <2>1, <2>2
<1>6. Reach(library, id) \subseteq R
  <2>1. Closed(library, R)
    BY <1>5 DEF Closed
  <2> QED BY <1>4, <2>1, ReachClosed
<1>7. \A d \in Requires(library, id) : Reach(library, d) \subseteq Reach(library, id)
  <2>1. \A d \in Requires(library, id) : d \in Reach(library, id)
    BY ReachClosed DEF Closed
  <2> QED BY <2>1, ReachOn
<1>8. R \subseteq Reach(library, id)
  <2>1. id \in Reach(library, id)
    BY ReachClosed
  <2> QED BY <1>1, <1>7, <2>1
<1> QED BY <1>1, <1>6, <1>8

\* What a selection needs is what its ids lead to.
LEMMA NeededIsReach ==
  ASSUME NEW library, IsLibrary(library), NEW lib, lib = DOMAIN library, NEW select \in Seq(lib)
  PROVE  Needed(library, select) = UNION {Reach(library, d) : d \in ToSet(select)}
<1>1. PICK R : R = UNION {Reach(library, d) : d \in ToSet(select)}
  OBVIOUS
<1>2. ToSet(select) \in SUBSET lib
  BY DEF ToSet
<1>3. \A d \in ToSet(select) : /\ Reach(library, d) \in SUBSET lib /\ d \in Reach(library, d)
                               /\ Closed(library, Reach(library, d))
                               /\ \A S \in SUBSET lib : d \in S /\ Closed(library, S) => Reach(library, d) \subseteq S
  BY <1>2, ReachClosed
<1>4. \A i : i \in Needed(library, select) <=>
        i \in lib /\ \A S \in SUBSET lib : ToSet(select) \subseteq S /\ Closed(library, S) => i \in S
  BY DEF Needed, Closed
<1>5. R \in SUBSET lib /\ ToSet(select) \subseteq R
  BY <1>1, <1>3
<1>6. Closed(library, R)
  <2>1. ASSUME NEW j \in R, NEW i \in Requires(library, j) PROVE i \in R
    <3>1. PICK d \in ToSet(select) : j \in Reach(library, d)
      BY <1>1
    <3>2. i \in Reach(library, d)
      BY <1>3, <2>1, <3>1 DEF Closed
    <3> QED BY <1>1, <3>2
  <2> QED BY <2>1 DEF Closed
<1>7. Needed(library, select) \subseteq R
  BY <1>4, <1>5, <1>6
<1>8. ASSUME NEW i \in R PROVE i \in Needed(library, select)
  <2>1. PICK d \in ToSet(select) : i \in Reach(library, d)
    BY <1>1
  <2>2. \A S \in SUBSET lib : ToSet(select) \subseteq S /\ Closed(library, S) => i \in S
    BY <1>3, <2>1
  <2> QED BY <1>4, <1>5, <2>2
<1> QED BY <1>1, <1>7, <1>8

LEMMA NeededClosed ==
  ASSUME NEW library, IsLibrary(library), NEW lib, lib = DOMAIN library, NEW select \in Seq(lib)
  PROVE  /\ Needed(library, select) \in SUBSET lib
         /\ ToSet(select) \subseteq Needed(library, select)
         /\ \A i \in Needed(library, select) : /\ Requires(library, i) \subseteq Needed(library, select)
                                               /\ Reach(library, i) \subseteq Needed(library, select)
<1>1. PICK R : R = Needed(library, select)
  OBVIOUS
<1>2. ToSet(select) \in SUBSET lib
  BY DEF ToSet
<1>3. R = UNION {Reach(library, d) : d \in ToSet(select)}
  BY <1>1, NeededIsReach
<1>4. \A d \in ToSet(select) : Reach(library, d) \in SUBSET lib /\ d \in Reach(library, d)
  BY <1>2, ReachClosed
<1>5. \A d \in ToSet(select) : \A i \in Reach(library, d) :
        Reach(library, i) \subseteq Reach(library, d) /\ Requires(library, i) \subseteq Reach(library, d)
  BY <1>2, ReachOn
<1> QED BY <1>1, <1>3, <1>4, <1>5

\* Packages that all require one another.
Cyclic(library, S) == \A i \in S : Requires(library, i) \cap S # {}

\* An id that leads back to itself, a step at least, is one of such.
LEMMA BackIsCyclic ==
  ASSUME NEW library, IsLibrary(library), NEW lib, lib = DOMAIN library,
         NEW id \in lib, NEW d \in Requires(library, id), id \in Reach(library, d)
  PROVE  \E S \in SUBSET Reach(library, id) : id \in S /\ Cyclic(library, S)
<1>1. d \in lib /\ d \in Reach(library, d) /\ d \in Reach(library, id)
  <2>1. d \in lib /\ id \in Reach(library, id)
    BY RequiresWithin, ReachClosed
  <2>2. d \in Reach(library, id)
    BY <2>1, ReachOn
  <2> QED BY <2>1, <2>2, ReachClosed
<1>2. PICK S : S = {i \in Reach(library, d) : id \in Reach(library, i)}
  OBVIOUS
<1>3. S \in SUBSET Reach(library, id)
  BY <1>1, <1>2, ReachOn
<1>4. id \in S
  BY <1>2, ReachClosed
<1>5. d \in S
  BY <1>1, <1>2
<1>6. ASSUME NEW i \in S PROVE Requires(library, i) \cap S # {}
  <2>1. CASE i = id
    BY <1>5, <2>1
  <2>2. CASE i # id
    <3>1. i \in Reach(library, d) /\ id \in Reach(library, i)
      BY <1>2
    <3>2. i \in lib /\ Requires(library, i) \subseteq Reach(library, d)
      BY <1>1, <3>1, ReachOn
    <3>3. Reach(library, i) = {i} \cup UNION {Reach(library, c) : c \in Requires(library, i)}
      BY <3>2, ReachByStep
    <3>4. PICK c \in Requires(library, i) : id \in Reach(library, c)
      BY <2>2, <3>1, <3>3
    <3> QED BY <1>2, <3>2, <3>4
  <2> QED BY <2>1, <2>2
<1> QED BY <1>3, <1>4, <1>6 DEF Cyclic

-----------------------------------------------------------------------------
(* What expand finds, and what its errors mean.                             *)

\* The members of two sequences joined.
LEMMA InConcat ==
  ASSUME NEW lib, NEW s \in Seq(lib), NEW t \in Seq(lib)
  PROVE  ToSet(s \o t) = ToSet(s) \cup ToSet(t)
<1>1. PICK m \in Nat, n \in Nat : m = Len(s) /\ n = Len(t) /\ DOMAIN s = 1..m /\ DOMAIN t = 1..n
  OBVIOUS
<1>2. /\ DOMAIN (s \o t) = 1..(m + n)
      /\ \A k \in 1..m : (s \o t)[k] = s[k]
      /\ \A k \in (m + 1)..(m + n) : (s \o t)[k] = t[k - m]
  BY <1>1
<1>3. ASSUME NEW x \in ToSet(s \o t) PROVE x \in ToSet(s) \cup ToSet(t)
  <2>1. PICK k \in 1..(m + n) : x = (s \o t)[k]
    BY <1>2 DEF ToSet
  <2>2. CASE k <= m
    BY <1>1, <1>2, <2>1, <2>2 DEF ToSet
  <2>3. CASE k > m
    <3>1. k \in (m + 1)..(m + n) /\ k - m \in 1..n
      BY <2>3
    <3> QED BY <1>1, <1>2, <2>1, <3>1 DEF ToSet
  <2> QED BY <2>2, <2>3
<1>4. ASSUME NEW x \in ToSet(s) PROVE x \in ToSet(s \o t)
  <2>1. PICK k \in 1..m : x = s[k]
    BY <1>1 DEF ToSet
  <2>2. k \in 1..(m + n)
    OBVIOUS
  <2> QED BY <1>2, <2>1, <2>2 DEF ToSet
<1>5. ASSUME NEW x \in ToSet(t) PROVE x \in ToSet(s \o t)
  <2>1. PICK k \in 1..n : x = t[k]
    BY <1>1 DEF ToSet
  <2>2. PICK j \in (m + 1)..(m + n) : j = m + k /\ j - m = k
    OBVIOUS
  <2>3. (s \o t)[j] = x
    BY <1>2, <2>1, <2>2
  <2>4. j \in 1..(m + n)
    BY <1>1
  <2> QED BY <1>2, <2>3, <2>4 DEF ToSet
<1> QED BY <1>3, <1>4, <1>5

\* What a walk over ids found, and if it failed, that one of them did.
Found(e, stack, base, ids, w) ==
  /\ w.error = "none" =>
       /\ \A d \in ToSet(ids) : e[<<d, stack>>].error = "none"
       /\ \A i : i \in ToSet(w.ids) <=>
            \/ i \in ToSet(base.ids)
            \/ \E d \in ToSet(ids) : i \in ToSet(e[<<d, stack>>].ids)
  /\ w.error # "none" => \E d \in ToSet(ids) : e[<<d, stack>>].error # "none"

\* ExpandAll finds what its calls find, and fails only if one of them does.
LEMMA ExpandAllFinds ==
  ASSUME NEW lib, NEW stack, NEW e, \A id \in lib : e[<<id, stack>>] \in Walks(lib),
         NEW base \in Walks(lib), base.error = "none", NEW ids \in Seq(lib)
  PROVE  /\ ExpandAll(e, stack, base, ids) \in Walks(lib)
         /\ Found(e, stack, base, ids, ExpandAll(e, stack, base, ids))
<1>1. PICK R, table, w : /\ R = Walks(lib) /\ table = ExpandTable(lib, e, stack)
                         /\ w = ExpandAll(e, stack, base, ids)
  OBVIOUS
<1>2. EndsAt(R, table, base, ids, w)
  BY <1>1, ExpandTurns
<1>3. PICK n \in Nat : n = Len(ids) /\ DOMAIN ids = 1..n
  OBVIOUS
<1>4. PICK m : m \in [0..n -> R] /\ m[0] = base /\ m[n] = w
               /\ \A k \in 1..n : m[k] = table[<<m[k - 1], ids[k]>>]
  BY <1>2, <1>3 DEF EndsAt, Turns
<1>5. PICK below : below = [d \in lib |-> e[<<d, stack>>]]
  OBVIOUS
<1>6. /\ below \in [lib -> R] /\ \A d \in lib : below[d] = e[<<d, stack>>]
      /\ \A k \in 1..n : ids[k] \in lib
  BY <1>1, <1>3, <1>5
<1>7. \A x \in R : \A d \in lib :
        table[<<x, d>>] = IF x.error = "none" THEN And(x, below[d]) ELSE x
  BY <1>1, <1>6 DEF ExpandTable
<1>8. PICK T : T = {k \in Nat : k <= n =>
                 /\ m[k].error = "none" =>
                      /\ \A j \in 1..k : below[ids[j]].error = "none"
                      /\ \A i : i \in ToSet(m[k].ids) <=>
                           \/ i \in ToSet(base.ids)
                           \/ \E j \in 1..k : i \in ToSet(below[ids[j]].ids)
                 /\ m[k].error # "none" => \E j \in 1..k : below[ids[j]].error # "none"}
  OBVIOUS
<1>9. 0 \in T
  BY <1>4, <1>8
<1>10. ASSUME NEW k \in Nat, k \in T PROVE k + 1 \in T
  <2>1. SUFFICES ASSUME k + 1 <= n
        PROVE  /\ m[k + 1].error = "none" =>
                      /\ \A j \in 1..(k + 1) : below[ids[j]].error = "none"
                      /\ \A i : i \in ToSet(m[k + 1].ids) <=>
                           \/ i \in ToSet(base.ids)
                           \/ \E j \in 1..(k + 1) : i \in ToSet(below[ids[j]].ids)
               /\ m[k + 1].error # "none" => \E j \in 1..(k + 1) : below[ids[j]].error # "none"
    BY <1>8
  <2>2. PICK l \in 1..n : l = k + 1 /\ l - 1 = k /\ k \in 0..n /\ k <= n
    BY <2>1
  <2>3. PICK x \in R, y \in R : x = m[k] /\ y = below[ids[l]]
    BY <1>4, <1>6, <2>2
  <2>4. m[l] = IF x.error = "none" THEN And(x, y) ELSE x
    <3>1. m[l] = table[<<x, ids[l]>>]
      BY <1>4, <2>2, <2>3
    <3>2. ids[l] \in lib
      BY <1>6
    <3>3. table[<<x, ids[l]>>] = IF x.error = "none" THEN And(x, below[ids[l]]) ELSE x
      BY <1>7, <3>2
    <3> QED BY <2>3, <3>1, <3>3
  <2>5. 1..l = (1..k) \cup {l} /\ l \in 1..l
    BY <2>2
  <2>6. /\ x.error = "none" =>
             /\ \A j \in 1..k : below[ids[j]].error = "none"
             /\ \A i : i \in ToSet(x.ids) <=>
                  \/ i \in ToSet(base.ids)
                  \/ \E j \in 1..k : i \in ToSet(below[ids[j]].ids)
        /\ x.error # "none" => \E j \in 1..k : below[ids[j]].error # "none"
    BY <1>8, <1>10, <2>2, <2>3
  <2>7. /\ m[l].error = "none" =>
                      /\ \A j \in 1..l : below[ids[j]].error = "none"
                      /\ \A i : i \in ToSet(m[l].ids) <=>
                           \/ i \in ToSet(base.ids)
                           \/ \E j \in 1..l : i \in ToSet(below[ids[j]].ids)
        /\ m[l].error # "none" => \E j \in 1..l : below[ids[j]].error # "none"
    <3>1. CASE x.error # "none"
      BY <2>4, <2>5, <2>6, <3>1
    <3>2. CASE x.error = "none"
      <4>1. m[l].error = y.error /\ m[l].ids = x.ids \o y.ids
        <5>1. And(x, y).error = y.error /\ And(x, y).ids = x.ids \o y.ids
          BY DEF And
        <5> QED BY <2>4, <3>2, <5>1
      <4>2. ToSet(m[l].ids) = ToSet(x.ids) \cup ToSet(y.ids)
        <5>1. x.ids \in Seq(lib) /\ y.ids \in Seq(lib)
          BY <1>1, WalkTypes
        <5> QED BY <4>1, <5>1, InConcat
      <4>3. m[l].error # "none" => \E j \in 1..l : below[ids[j]].error # "none"
        BY <2>3, <2>5, <4>1
      <4>4. ASSUME m[l].error = "none" PROVE \A j \in 1..l : below[ids[j]].error = "none"
        BY <2>3, <2>5, <2>6, <3>2, <4>1, <4>4
      <4>5. \A i : i \in ToSet(m[l].ids) <=>
                           \/ i \in ToSet(base.ids)
                           \/ \E j \in 1..l : i \in ToSet(below[ids[j]].ids)
        BY <2>3, <2>5, <2>6, <3>2, <4>2
      <4> QED BY <4>3, <4>4, <4>5
    <3> QED BY <3>1, <3>2
  <2> QED BY <2>2, <2>7
<1>11. n \in T
  <2>1. \A k \in Nat : k \in T
    BY <1>9, <1>10, Upward
  <2> QED BY <2>1
<1>12. w \in R
  BY <1>4
<1>13. \A d : d \in ToSet(ids) <=> \E j \in 1..n : d = ids[j]
  BY <1>3 DEF ToSet
<1>14. /\ w.error = "none" =>
             /\ \A j \in 1..n : below[ids[j]].error = "none"
             /\ \A i : i \in ToSet(w.ids) <=>
                  \/ i \in ToSet(base.ids)
                  \/ \E j \in 1..n : i \in ToSet(below[ids[j]].ids)
       /\ w.error # "none" => \E j \in 1..n : below[ids[j]].error # "none"
  BY <1>4, <1>8, <1>11
<1>15. Found(e, stack, base, ids, w)
  <2>1. \A j \in 1..n : ids[j] \in lib /\ below[ids[j]] = e[<<ids[j], stack>>] /\ ids[j] \in ToSet(ids)
    BY <1>6, <1>13
  <2>2. ASSUME w.error = "none", NEW d \in ToSet(ids) PROVE e[<<d, stack>>].error = "none"
    <3>1. PICK j \in 1..n : d = ids[j]
      BY <1>13
    <3>2. below[ids[j]].error = "none"
      BY ONLY <1>14, <2>2, j \in 1..n
    <3>3. below[ids[j]] = e[<<d, stack>>]
      BY <2>1, <3>1
    <3> QED BY <3>2, <3>3
  <2>3. ASSUME w.error = "none", NEW i
        PROVE  i \in ToSet(w.ids) <=>
                 \/ i \in ToSet(base.ids)
                 \/ \E d \in ToSet(ids) : i \in ToSet(e[<<d, stack>>].ids)
    <3>1. (\E d \in ToSet(ids) : i \in ToSet(e[<<d, stack>>].ids))
            <=> \E j \in 1..n : i \in ToSet(below[ids[j]].ids)
      <4>1. ASSUME NEW d \in ToSet(ids), i \in ToSet(e[<<d, stack>>].ids)
            PROVE  \E j \in 1..n : i \in ToSet(below[ids[j]].ids)
        <5>1. PICK j \in 1..n : d = ids[j]
          BY <1>13
        <5>2. below[ids[j]] = e[<<d, stack>>]
          BY <2>1, <5>1
        <5> QED BY <4>1, <5>2
      <4>2. ASSUME NEW j \in 1..n, i \in ToSet(below[ids[j]].ids)
            PROVE  \E d \in ToSet(ids) : i \in ToSet(e[<<d, stack>>].ids)
        BY <2>1, <4>2
      <4> QED BY <4>1, <4>2
    <3> QED BY ONLY <1>14, <2>3, <3>1
  <2>4. ASSUME w.error # "none" PROVE \E d \in ToSet(ids) : e[<<d, stack>>].error # "none"
    <3>1. PICK j \in 1..n : below[ids[j]].error # "none"
      BY ONLY <1>14, <2>4
    <3> QED BY ONLY <2>1, <3>1
  <2> QED BY <2>2, <2>3, <2>4 DEF Found
<1> QED BY <1>1, <1>12, <1>15

\* What one call of expand returns, from the calls below it.
ExpandStep(library, e, id, stack, above) ==
  /\ e[<<id, stack>>].error = "none" =>
       /\ library[id].kind # "absent" /\ id \notin stack
       /\ \A d \in Requires(library, id) : e[<<d, above>>].error = "none"
       /\ \A i : i \in ToSet(e[<<id, stack>>].ids) <=>
            \/ i = id /\ library[id].kind = "plugin"
            \/ \E d \in Requires(library, id) : i \in ToSet(e[<<d, above>>].ids)
  /\ e[<<id, stack>>].error # "none" =>
       \/ library[id].kind = "absent"
       \/ id \in stack
       \/ \E d \in Requires(library, id) : e[<<d, above>>].error # "none"

LEMMA ExpandCall ==
  ASSUME NEW library, IsLibrary(library), NEW lib, lib = DOMAIN library, NEW e, IsExpand(library, e),
         NEW id \in lib, NEW stack \in SUBSET lib
  PROVE  ExpandStep(library, e, id, stack, stack \cup {id})
<1>0. PICK above : above = stack \cup {id}
  OBVIOUS
<1>1. PICK package, base, ids, x :
        /\ package = library[id] /\ ids = package.requires /\ x = e[<<id, stack>>]
        /\ base = Walk(IF package.kind = "plugin" THEN <<id>> ELSE <<>>)
  OBVIOUS
<1>2. x = IF package.kind = "absent" THEN Thrown("MISSING_DEPENDENCY")
          ELSE IF id \in stack THEN Thrown("DEPENDENCY_CYCLE")
          ELSE ExpandAll(e, above, base, ids)
  <2>1. x = ExpandBody(library, e, <<id, stack>>)
    BY <1>1, ExpandTyped
  <2> QED BY <1>0, <1>1, <2>1 DEF ExpandBody
<1>3. Thrown("MISSING_DEPENDENCY").error # "none" /\ Thrown("DEPENDENCY_CYCLE").error # "none"
  BY DEF Thrown
<1>4. CASE package.kind = "absent" \/ id \in stack
  <2>1. x.error # "none"
    BY <1>2, <1>3, <1>4
  <2> QED BY <1>1, <1>4, <2>1 DEF ExpandStep
<1>5. CASE package.kind # "absent" /\ id \notin stack
  <2>1. ids \in Seq(lib) /\ Requires(library, id) = ToSet(ids)
    BY <1>1, <1>5 DEF IsLibrary, Requires
  <2>2. above \in SUBSET lib
    BY <1>0
  <2>3. base \in Walks(lib) /\ base.error = "none"
        /\ \A i : i \in ToSet(base.ids) <=> i = id /\ package.kind = "plugin"
    <3>1. <<id>> \in Seq(lib) /\ <<>> \in Seq(lib)
      OBVIOUS
    <3>2. ToSet(<<id>>) = {id} /\ ToSet(<<>>) = {}
      BY DEF ToSet
    <3>3. CASE package.kind = "plugin"
      <4>1. base = Walk(<<id>>)
        BY <1>1, <3>3
      <4>2. base.ids = <<id>> /\ base.error = "none"
        BY <4>1 DEF Walk
      <4>3. base \in Walks(lib)
        BY <3>1, <4>1, WalkTypes
      <4> QED BY <3>2, <3>3, <4>2, <4>3
    <3>4. CASE package.kind # "plugin"
      <4>1. base = Walk(<<>>)
        BY <1>1, <3>4
      <4>2. base.ids = <<>> /\ base.error = "none"
        BY <4>1 DEF Walk
      <4>3. base \in Walks(lib)
        BY <3>1, <4>1, WalkTypes
      <4> QED BY <3>2, <3>4, <4>2, <4>3
    <3> QED BY <3>3, <3>4
  <2>4. \A d \in lib : e[<<d, above>>] \in Walks(lib)
    BY <2>2, ExpandTyped
  <2>5. x = ExpandAll(e, above, base, ids)
    BY <1>2, <1>5
  <2>6. Found(e, above, base, ids, x)
    BY <2>1, <2>3, <2>4, <2>5, ExpandAllFinds
  <2>7. x.error = "none" =>
          /\ \A d \in Requires(library, id) : e[<<d, above>>].error = "none"
          /\ \A i : i \in ToSet(x.ids) <=>
               \/ i = id /\ package.kind = "plugin"
               \/ \E d \in Requires(library, id) : i \in ToSet(e[<<d, above>>].ids)
    BY <2>1, <2>3, <2>6 DEF Found
  <2>8. x.error # "none" => \E d \in Requires(library, id) : e[<<d, above>>].error # "none"
    BY <2>1, <2>6 DEF Found
  <2>9. ExpandStep(library, e, id, stack, above)
    BY <1>1, <1>5, <2>7, <2>8 DEF ExpandStep
  <2> QED BY <1>0, <2>9
<1> QED BY <1>4, <1>5

\* An id that expand succeeds on: nothing under it is missing or cyclic.
Sound(library, id, ids) ==
  /\ \A i \in Reach(library, id) : /\ library[i].kind # "absent"
                                   /\ \A S \in SUBSET DOMAIN library : Cyclic(library, S) => i \notin S
  /\ ToSet(ids) = {i \in Reach(library, id) : library[i].kind = "plugin"}

\* expand returns, without an error, exactly the plugins that its id leads to.
LEMMA ExpandSucceeds ==
  ASSUME NEW library, IsLibrary(library), NEW lib, lib = DOMAIN library, NEW e, IsExpand(library, e)
  PROVE  \A id \in lib : \A stack \in SUBSET lib :
           e[<<id, stack>>].error = "none" => Sound(library, id, e[<<id, stack>>].ids)
<1>1. IsFiniteSet(lib)
  BY DEF IsLibrary
<1>2. PICK G : G = {x \in lib \X SUBSET lib : e[x].error = "none" => Sound(library, x[1], e[x].ids)}
  OBVIOUS
<1>3. ASSUME NEW id \in lib, NEW stack \in SUBSET lib,
             id \notin stack => \A d \in lib : <<d, stack \cup {id}>> \in G
      PROVE  <<id, stack>> \in G
  <2>1. SUFFICES ASSUME e[<<id, stack>>].error = "none" PROVE Sound(library, id, e[<<id, stack>>].ids)
    BY <1>2
  <2>2. PICK above, ids : above = stack \cup {id} /\ ids = e[<<id, stack>>].ids
    OBVIOUS
  <2>3. /\ library[id].kind # "absent" /\ id \notin stack
        /\ \A d \in Requires(library, id) : e[<<d, above>>].error = "none"
        /\ \A i : i \in ToSet(ids) <=>
             \/ i = id /\ library[id].kind = "plugin"
             \/ \E d \in Requires(library, id) : i \in ToSet(e[<<d, above>>].ids)
    <3>1. ExpandStep(library, e, id, stack, above)
      BY <2>2, ExpandCall
    <3> QED BY <2>1, <2>2, <3>1 DEF ExpandStep
  <2>4. Requires(library, id) \in SUBSET lib
    BY RequiresWithin
  <2>5. ASSUME NEW d \in Requires(library, id)
        PROVE  /\ d \in Reach(library, d)
               /\ \A i \in Reach(library, d) : /\ library[i].kind # "absent"
                                               /\ \A S \in SUBSET lib : Cyclic(library, S) => i \notin S
               /\ ToSet(e[<<d, above>>].ids) = {i \in Reach(library, d) : library[i].kind = "plugin"}
    <3>1. d \in lib /\ <<d, above>> \in G
      BY <1>3, <2>2, <2>3, <2>4
    <3>2. Sound(library, d, e[<<d, above>>].ids)
      BY <1>2, <2>3, <3>1
    <3>3. d \in Reach(library, d)
      BY <3>1, ReachClosed
    <3> QED BY <3>2, <3>3 DEF Sound
  <2>6. Reach(library, id) = {id} \cup UNION {Reach(library, d) : d \in Requires(library, id)}
    BY ReachByStep
  <2>7. ASSUME NEW i \in Reach(library, id), NEW S \in SUBSET lib, Cyclic(library, S), i \in S PROVE FALSE
    <3>1. CASE i = id
      <4>1. PICK d \in Requires(library, id) : d \in S
        BY <2>7, <3>1 DEF Cyclic
      <4> QED BY <2>5, <2>7, <4>1
    <3>2. CASE i # id
      <4>1. PICK d \in Requires(library, id) : i \in Reach(library, d)
        BY <2>6, <3>2
      <4> QED BY <2>5, <2>7, <4>1
    <3> QED BY <3>1, <3>2
  <2>8. ASSUME NEW i \in Reach(library, id) PROVE library[i].kind # "absent"
    <3>1. CASE i = id
      BY <2>3, <3>1
    <3>2. CASE i # id
      <4>1. PICK d \in Requires(library, id) : i \in Reach(library, d)
        BY <2>6, <3>2
      <4> QED BY <2>5, <4>1
    <3> QED BY <3>1, <3>2
  <2>9. ASSUME NEW i
        PROVE  i \in ToSet(ids) <=> i \in Reach(library, id) /\ library[i].kind = "plugin"
    <3>1. \A d \in Requires(library, id) :
            i \in ToSet(e[<<d, above>>].ids) <=> i \in Reach(library, d) /\ library[i].kind = "plugin"
      BY <2>5
    <3>2. i \in Reach(library, id) <=>
            i = id \/ \E d \in Requires(library, id) : i \in Reach(library, d)
      BY <2>6
    <3>3. i \in ToSet(ids) <=>
             \/ i = id /\ library[id].kind = "plugin"
             \/ \E d \in Requires(library, id) : i \in ToSet(e[<<d, above>>].ids)
      BY <2>3
    <3> QED BY ONLY <3>1, <3>2, <3>3, Zenon
  <2>10. ToSet(ids) = {i \in Reach(library, id) : library[i].kind = "plugin"}
    BY <2>9
  <2> QED BY <2>2, <2>7, <2>8, <2>10 DEF Sound
<1>4. \A id \in lib : \A stack \in SUBSET lib : <<id, stack>> \in G
  BY <1>1, <1>3, Downward
<1> QED BY <1>2, <1>4

\* Every id above leads to this one, by a step at least.
Trail(library, needed, above, id) ==
  /\ id \in needed
  /\ \A j \in above : \E d \in Requires(library, j) : id \in Reach(library, d)

\* expand and visit go on along a trail.
LEMMA TrailOn ==
  ASSUME NEW library, IsLibrary(library), NEW lib, lib = DOMAIN library, NEW select \in Seq(lib),
         NEW above \in SUBSET lib, NEW id, Trail(library, Needed(library, select), above, id),
         NEW d \in Requires(library, id)
  PROVE  Trail(library, Needed(library, select), above \cup {id}, d)
<1>1. PICK needed : needed = Needed(library, select)
  OBVIOUS
<1>2. needed \in SUBSET lib /\ \A i \in needed : Requires(library, i) \subseteq needed
  BY <1>1, NeededClosed
<1>3. id \in needed /\ id \in lib /\ d \in needed /\ d \in lib
  BY <1>1, <1>2 DEF Trail
<1>4. ASSUME NEW j \in above PROVE \E c \in Requires(library, j) : d \in Reach(library, c)
  <2>1. PICK c \in Requires(library, j) : id \in Reach(library, c)
    BY DEF Trail
  <2>2. j \in lib /\ c \in lib
    BY RequiresWithin
  <2>3. d \in Reach(library, c)
    BY <2>1, <2>2, ReachOn
  <2> QED BY <2>3
<1>5. d \in Reach(library, d)
  BY <1>3, ReachClosed
<1> QED BY <1>1, <1>3, <1>4, <1>5 DEF Trail

\* A trail that comes back to where it was has no load order.
LEMMA TrailBack ==
  ASSUME NEW library, IsLibrary(library), NEW lib, lib = DOMAIN library, NEW select \in Seq(lib),
         NEW above \in SUBSET lib, NEW id \in above, Trail(library, Needed(library, select), above, id)
  PROVE  ~Loadable(library, select)
<1>1. PICK needed : needed = Needed(library, select)
  OBVIOUS
<1>2. id \in needed /\ Reach(library, id) \subseteq needed
  BY <1>1, NeededClosed DEF Trail
<1>3. PICK d \in Requires(library, id) : id \in Reach(library, d)
  BY DEF Trail
<1>4. PICK S \in SUBSET Reach(library, id) : id \in S /\ Cyclic(library, S)
  BY <1>3, BackIsCyclic
<1>5. S \in SUBSET needed /\ S # {}
  BY <1>2, <1>4
<1>6. ~\E i \in S : Requires(library, i) \cap S = {}
  BY <1>4 DEF Cyclic
<1>7. \E R \in (SUBSET needed) \ {{}} : ~\E i \in R : Requires(library, i) \cap R = {}
  BY <1>5, <1>6
<1> QED BY <1>1, <1>7 DEF Loadable

\* An error of expand on a trail means that there is no load order.
LEMMA ExpandFails ==
  ASSUME NEW library, IsLibrary(library), NEW lib, lib = DOMAIN library, NEW e, IsExpand(library, e),
         NEW select \in Seq(lib)
  PROVE  \A id \in lib : \A stack \in SUBSET lib :
           Trail(library, Needed(library, select), stack, id) /\ e[<<id, stack>>].error # "none"
             => ~Loadable(library, select)
<1>1. IsFiniteSet(lib)
  BY DEF IsLibrary
<1>2. PICK needed : needed = Needed(library, select)
  OBVIOUS
<1>3. PICK G : G = {x \in lib \X SUBSET lib :
                 Trail(library, needed, x[2], x[1]) /\ e[x].error # "none" => ~Loadable(library, select)}
  OBVIOUS
<1>4. ASSUME NEW id \in lib, NEW stack \in SUBSET lib,
             id \notin stack => \A d \in lib : <<d, stack \cup {id}>> \in G
      PROVE  <<id, stack>> \in G
  <2>1. SUFFICES ASSUME Trail(library, needed, stack, id), e[<<id, stack>>].error # "none"
                 PROVE  ~Loadable(library, select)
    BY <1>3
  <2>2. CASE id \in stack
    BY <1>2, <2>1, <2>2, TrailBack
  <2>3. CASE library[id].kind = "absent"
    <3>1. id \in needed
      BY <2>1 DEF Trail
    <3> QED BY <1>2, <2>3, <3>1 DEF Loadable
  <2>4. CASE id \notin stack /\ \E d \in Requires(library, id) : e[<<d, stack \cup {id}>>].error # "none"
    <3>1. PICK d \in Requires(library, id) : e[<<d, stack \cup {id}>>].error # "none"
      BY <2>4
    <3>2. d \in lib
      BY RequiresWithin
    <3>3. Trail(library, needed, stack \cup {id}, d)
      BY <1>2, <2>1, TrailOn
    <3>4. <<d, stack \cup {id}>> \in G
      BY <1>4, <2>4, <3>2
    <3> QED BY <1>3, <3>1, <3>3, <3>4
  <2>5. ExpandStep(library, e, id, stack, stack \cup {id})
    BY ExpandCall
  <2> QED BY <2>1, <2>2, <2>3, <2>4, <2>5 DEF ExpandStep
<1>5. \A id \in lib : \A stack \in SUBSET lib : <<id, stack>> \in G
  BY <1>1, <1>4, Downward
<1> QED BY <1>2, <1>3, <1>5

\* What the selection leads to has no missing package and no cycle.
Whole(library, needed) ==
  \A i \in needed : /\ library[i].kind # "absent"
                    /\ \A S \in SUBSET DOMAIN library : Cyclic(library, S) => i \notin S

\* The result of expanding a selection.
LEMMA ExpandedResult ==
  ASSUME NEW library, IsLibrary(library), NEW lib, lib = DOMAIN library, NEW select \in Seq(lib),
         NEW x, x = Expanded(library, select)
  PROVE  /\ x \in Walks(lib)
         /\ x.error # "none" => ~Loadable(library, select)
         /\ x.error = "none" =>
              /\ Whole(library, Needed(library, select))
              /\ ToSet(x.ids) = {i \in Needed(library, select) : library[i].kind = "plugin"}
<1>1. PICK e : e = CHOOSE f : IsExpand(library, f)
  OBVIOUS
<1>2. IsExpand(library, e)
  BY <1>1, ExpandExists
<1>3. x = ExpandAll(e, {}, Walk(<<>>), select)
  BY <1>1, ExpandedBy
<1>4. PICK needed, base : needed = Needed(library, select) /\ base = Walk(<<>>)
  OBVIOUS
<1>5. base \in Walks(lib) /\ base.error = "none" /\ base.ids = <<>>
  <2>1. <<>> \in Seq(lib)
    OBVIOUS
  <2> QED BY <1>4, <2>1, WalkTypes
<1>6. \A d \in lib : e[<<d, {}>>] \in Walks(lib)
  BY <1>2, ExpandTyped
<1>7. x \in Walks(lib) /\ Found(e, {}, base, select, x)
  BY <1>3, <1>4, <1>5, <1>6, ExpandAllFinds
<1>8. ToSet(select) \in SUBSET lib /\ ToSet(select) \subseteq needed
      /\ needed = UNION {Reach(library, d) : d \in ToSet(select)}
  <2>1. ToSet(select) \in SUBSET lib
    BY DEF ToSet
  <2>2. ToSet(select) \subseteq needed
    BY <1>4, NeededClosed
  <2>3. needed = UNION {Reach(library, d) : d \in ToSet(select)}
    BY <1>4, NeededIsReach
  <2> QED BY <2>1, <2>2, <2>3
<1>9. ASSUME x.error # "none" PROVE ~Loadable(library, select)
  <2>1. PICK d \in ToSet(select) : e[<<d, {}>>].error # "none"
    BY <1>7, <1>9 DEF Found
  <2>2. Trail(library, needed, {}, d)
    BY <1>8 DEF Trail
  <2>3. d \in lib /\ {} \in SUBSET lib
    BY <1>8
  <2> QED BY <1>2, <1>4, <2>1, <2>2, <2>3, ExpandFails
<1>10. ASSUME x.error = "none"
       PROVE  /\ Whole(library, needed)
              /\ ToSet(x.ids) = {i \in needed : library[i].kind = "plugin"}
  <2>1. /\ \A d \in ToSet(select) : e[<<d, {}>>].error = "none"
        /\ \A i : i \in ToSet(x.ids) <=>
             \/ i \in ToSet(base.ids)
             \/ \E d \in ToSet(select) : i \in ToSet(e[<<d, {}>>].ids)
    BY <1>7, <1>10 DEF Found
  <2>2. ToSet(base.ids) = {}
    BY <1>5 DEF ToSet
  <2>3. ASSUME NEW d \in ToSet(select)
        PROVE  /\ \A i \in Reach(library, d) : /\ library[i].kind # "absent"
                                               /\ \A S \in SUBSET lib : Cyclic(library, S) => i \notin S
               /\ ToSet(e[<<d, {}>>].ids) = {i \in Reach(library, d) : library[i].kind = "plugin"}
    <3>1. d \in lib /\ {} \in SUBSET lib /\ e[<<d, {}>>].error = "none"
      BY <1>8, <2>1
    <3>2. Sound(library, d, e[<<d, {}>>].ids)
      BY <1>2, <3>1, ExpandSucceeds
    <3> QED BY <3>2 DEF Sound
  <2>4. Whole(library, needed)
    <3>1. ASSUME NEW i \in needed
          PROVE  /\ library[i].kind # "absent"
                 /\ \A S \in SUBSET lib : Cyclic(library, S) => i \notin S
      <4>1. PICK d \in ToSet(select) : i \in Reach(library, d)
        BY <1>8
      <4> QED BY <2>3, <4>1
    <3> QED BY <3>1 DEF Whole
  <2>5. ASSUME NEW i
        PROVE  i \in ToSet(x.ids) <=> i \in needed /\ library[i].kind = "plugin"
    <3>1. i \in ToSet(x.ids) <=> \E d \in ToSet(select) : i \in ToSet(e[<<d, {}>>].ids)
      BY <2>1, <2>2
    <3>2. i \in needed <=> \E d \in ToSet(select) : i \in Reach(library, d)
      BY <1>8
    <3>3. \A d \in ToSet(select) :
            i \in ToSet(e[<<d, {}>>].ids) <=> i \in Reach(library, d) /\ library[i].kind = "plugin"
      BY <2>3
    <3> QED BY ONLY <3>1, <3>2, <3>3, Zenon
  <2>6. ToSet(x.ids) = {i \in needed : library[i].kind = "plugin"}
    BY <2>5
  <2> QED BY <2>4, <2>6
<1> QED BY <1>4, <1>7, <1>9, <1>10

-----------------------------------------------------------------------------
(* What visit puts in order, and what its errors mean.                      *)

\* A part of a load order: plugins that are needed, once each, dependencies first.
IsOrder(library, needed, order) ==
  /\ \A i \in ToSet(order) : i \in needed /\ library[i].kind = "plugin"
  /\ \A j, k \in DOMAIN order : j # k => order[j] # order[k]
  /\ \A k \in DOMAIN order : \A d \in Requires(library, order[k]) : \E j \in 1..(k - 1) : order[j] = d

\* order.push, after the dependencies.
LEMMA OneMorePlaced ==
  ASSUME NEW library, NEW lib, NEW needed, NEW order \in Seq(lib), IsOrder(library, needed, order),
         NEW id \in lib, id \in needed, library[id].kind = "plugin", id \notin ToSet(order),
         \A d \in Requires(library, id) : d \in ToSet(order)
  PROVE  /\ IsOrder(library, needed, Append(order, id))
         /\ ToSet(Append(order, id)) = ToSet(order) \cup {id}
<1>1. PICK n \in Nat : n = Len(order) /\ DOMAIN order = 1..n
  OBVIOUS
<1>2. PICK new : new = Append(order, id)
  OBVIOUS
<1>3. /\ DOMAIN new = 1..(n + 1) /\ new[n + 1] = id
      /\ \A k \in 1..n : new[k] = order[k]
  BY <1>1, <1>2
<1>4. \A i : i \in ToSet(order) <=> \E k \in 1..n : i = order[k]
  BY <1>1 DEF ToSet
<1>5. 1..(n + 1) = (1..n) \cup {n + 1} /\ n + 1 \notin 1..n
  OBVIOUS
<1>6. ToSet(new) = ToSet(order) \cup {id}
  <2>1. \A i : i \in ToSet(new) <=> \E k \in 1..(n + 1) : i = new[k]
    BY <1>3 DEF ToSet
  <2>2. \A i : i \in ToSet(new) <=> i \in ToSet(order) \/ i = id
    BY <1>3, <1>4, <1>5, <2>1
  <2> QED BY <2>2
<1>7. \A i \in ToSet(new) : i \in needed /\ library[i].kind = "plugin"
  BY <1>6 DEF IsOrder
<1>8. ASSUME NEW j \in 1..(n + 1), NEW k \in 1..(n + 1), j # k PROVE new[j] # new[k]
  <2>1. CASE j \in 1..n /\ k \in 1..n
    <3>1. order[j] # order[k]
      BY <1>1, <1>8, <2>1 DEF IsOrder
    <3> QED BY <1>3, <2>1, <3>1
  <2>2. CASE j = n + 1
    BY <1>3, <1>4, <1>5, <1>8, <2>2
  <2>3. CASE k = n + 1
    BY <1>3, <1>4, <1>5, <1>8, <2>3
  <2> QED BY <1>5, <2>1, <2>2, <2>3
<1>9. ASSUME NEW k \in 1..(n + 1), NEW d \in Requires(library, new[k])
      PROVE  \E j \in 1..(k - 1) : new[j] = d
  <2>1. CASE k \in 1..n
    <3>1. PICK j \in 1..(k - 1) : order[j] = d
      BY <1>1, <1>3, <1>9, <2>1 DEF IsOrder
    <3>2. j \in 1..n
      BY <2>1
    <3> QED BY <1>3, <3>1, <3>2
  <2>2. CASE k = n + 1
    <3>1. PICK j \in 1..n : d = order[j]
      BY <1>3, <1>4, <1>9, <2>2
    <3>2. j \in 1..(k - 1)
      BY <2>2
    <3> QED BY <1>3, <3>1, <3>2
  <2> QED BY <1>5, <2>1, <2>2
<1>10. IsOrder(library, needed, new)
  BY <1>3, <1>7, <1>8, <1>9 DEF IsOrder
<1> QED BY <1>2, <1>6, <1>10

\* What a visit adds to an order.
Placed(library, needed, order, visiting, ids, new) ==
  /\ IsOrder(library, needed, new)
  /\ ToSet(order) \subseteq ToSet(new)
  /\ ids \subseteq ToSet(new)
  /\ ToSet(new) \cap visiting \subseteq ToSet(order)

VisitPlaces(library, needed, v, id, visiting) ==
  \A order \in Seq(DOMAIN library) :
    v[<<id, visiting, order>>].error = "none" /\ IsOrder(library, needed, order)
      => Placed(library, needed, order, visiting, {id}, v[<<id, visiting, order>>].ids)

VisitFails(lib, v, ids, visiting) ==
  \E d \in ToSet(ids) : \E order \in Seq(lib) : v[<<d, visiting, order>>].error # "none"

\* What a visit of several ids adds, and that an error is one of its calls'.
LEMMA VisitAllPlaces ==
  ASSUME NEW library, NEW lib, lib = DOMAIN library, NEW needed, NEW v, NEW visiting,
         \A id \in lib : \A order \in Seq(lib) : v[<<id, visiting, order>>] \in Walks(lib),
         NEW order \in Seq(lib), NEW ids \in Seq(lib),
         NEW w, w = VisitAll(v, visiting, Walk(order), ids)
  PROVE  /\ w \in Walks(lib)
         /\ w.error # "none" => VisitFails(lib, v, ids, visiting)
         /\ w.error = "none" /\ IsOrder(library, needed, order)
            /\ (\A d \in ToSet(ids) : VisitPlaces(library, needed, v, d, visiting))
            => Placed(library, needed, order, visiting, ToSet(ids), w.ids)
<1>1. PICK R, table, base : R = Walks(lib) /\ table = VisitTable(lib, v, visiting) /\ base = Walk(order)
  OBVIOUS
<1>2. base \in R /\ base.error = "none" /\ base.ids = order
  <2>1. base \in Walks(lib)
    BY <1>1, WalkTypes
  <2> QED BY <1>1, <2>1 DEF Walk
<1>3. EndsAt(R, table, base, ids, w)
  BY <1>1, <1>2, VisitTurns
<1>4. PICK n \in Nat : n = Len(ids) /\ DOMAIN ids = 1..n
  OBVIOUS
<1>5. PICK m : m \in [0..n -> R] /\ m[0] = base /\ m[n] = w
               /\ \A k \in 1..n : m[k] = table[<<m[k - 1], ids[k]>>]
  BY <1>3, <1>4 DEF EndsAt, Turns
<1>6. \A k \in 1..n : ids[k] \in lib /\ ids[k] \in ToSet(ids)
  BY <1>4 DEF ToSet
<1>7. \A d : d \in ToSet(ids) <=> \E j \in 1..n : d = ids[j]
  BY <1>4 DEF ToSet
<1>8. \A x \in R : x.ids \in Seq(lib)
  BY <1>1, WalkTypes
<1>9. ASSUME NEW k \in Nat, k + 1 <= n
      PROVE  /\ m[k] \in R /\ m[k + 1] \in R
             /\ m[k + 1] = IF m[k].error = "none" THEN v[<<ids[k + 1], visiting, m[k].ids>>] ELSE m[k]
  <2>1. PICK l \in 1..n : l = k + 1 /\ l - 1 = k /\ k \in 0..n /\ l \in 0..n
    BY <1>9
  <2>2. PICK x \in R : x = m[k]
    BY <1>5, <2>1
  <2>3. m[l] = table[<<x, ids[l]>>] /\ m[l] \in R
    BY <1>5, <2>1, <2>2
  <2>4. ids[l] \in lib
    BY <1>6
  <2>5. table[<<x, ids[l]>>] = IF x.error = "none" THEN v[<<ids[l], visiting, x.ids>>] ELSE x
    BY <1>1, <2>4 DEF VisitTable
  <2> QED BY <2>1, <2>2, <2>3, <2>5
<1>10. w.error # "none" => VisitFails(lib, v, ids, visiting)
  <2>1. PICK T : T = {k \in Nat : k <= n /\ m[k].error # "none" => VisitFails(lib, v, ids, visiting)}
    OBVIOUS
  <2>2. 0 \in T
    BY <1>2, <1>5, <2>1
  <2>3. ASSUME NEW k \in Nat, k \in T PROVE k + 1 \in T
    <3>1. SUFFICES ASSUME k + 1 <= n, m[k + 1].error # "none"
          PROVE  VisitFails(lib, v, ids, visiting)
      BY <2>1
    <3>2. CASE m[k].error # "none"
      BY <2>1, <2>3, <3>1, <3>2
    <3>3. CASE m[k].error = "none"
      <4>1. v[<<ids[k + 1], visiting, m[k].ids>>].error # "none" /\ m[k].ids \in Seq(lib)
        BY <1>8, <1>9, <3>1, <3>3
      <4>2. k + 1 \in 1..n
        BY <3>1
      <4> QED BY <1>6, <4>1, <4>2 DEF VisitFails
    <3> QED BY <3>2, <3>3
  <2>4. n \in T
    <3>1. \A k \in Nat : k \in T
      BY <2>2, <2>3, Upward
    <3> QED BY <3>1
  <2> QED BY <1>5, <2>1, <2>4
<1>11. ASSUME w.error = "none", IsOrder(library, needed, order),
              \A d \in ToSet(ids) : VisitPlaces(library, needed, v, d, visiting)
       PROVE  Placed(library, needed, order, visiting, ToSet(ids), w.ids)
  <2>1. PICK T : T = {k \in Nat : k <= n /\ m[k].error = "none" =>
                        Placed(library, needed, order, visiting, {ids[j] : j \in 1..k}, m[k].ids)}
    OBVIOUS
  <2>2. 0 \in T
    <3>1. {ids[j] : j \in 1..0} = {}
      OBVIOUS
    <3>2. Placed(library, needed, order, visiting, {}, order)
      BY <1>11 DEF Placed
    <3> QED BY <1>2, <1>5, <2>1, <3>1, <3>2
  <2>3. ASSUME NEW k \in Nat, k \in T PROVE k + 1 \in T
    <3>1. SUFFICES ASSUME k + 1 <= n, m[k + 1].error = "none"
          PROVE  Placed(library, needed, order, visiting, {ids[j] : j \in 1..(k + 1)}, m[k + 1].ids)
      BY <2>1
    <3>2. m[k].error = "none"
      BY <1>9, <3>1
    <3>3. PICK new, d : new = m[k].ids /\ d = ids[k + 1]
      OBVIOUS
    <3>4. m[k + 1] = v[<<d, visiting, new>>] /\ new \in Seq(lib)
      BY <1>8, <1>9, <3>1, <3>2, <3>3
    <3>5. k <= n /\ k + 1 \in 1..n
      BY <3>1
    <3>6. Placed(library, needed, order, visiting, {ids[j] : j \in 1..k}, new)
      BY <2>1, <2>3, <3>2, <3>3, <3>5
    <3>7. VisitPlaces(library, needed, v, d, visiting)
      BY <1>6, <1>11, <3>3, <3>5
    <3>8. Placed(library, needed, new, visiting, {d}, m[k + 1].ids)
      <4>1. IsOrder(library, needed, new)
        BY <3>6 DEF Placed
      <4> QED BY <3>1, <3>4, <3>7, <4>1 DEF VisitPlaces
    <3>9. {ids[j] : j \in 1..(k + 1)} = {ids[j] : j \in 1..k} \cup {d}
      <4>1. 1..(k + 1) = (1..k) \cup {k + 1}
        OBVIOUS
      <4> QED BY <3>3, <4>1
    <3> QED BY <3>6, <3>8, <3>9 DEF Placed
  <2>4. n \in T
    <3>1. \A k \in Nat : k \in T
      BY <2>2, <2>3, Upward
    <3> QED BY <3>1
  <2>5. {ids[j] : j \in 1..n} = ToSet(ids)
    BY <1>4 DEF ToSet
  <2>6. Placed(library, needed, order, visiting, {ids[j] : j \in 1..n}, m[n].ids)
    BY <1>5, <1>11, <2>1, <2>4
  <2> QED BY <1>5, <2>5, <2>6
<1>12. w \in R
  BY <1>5
<1> QED BY <1>1, <1>10, <1>11, <1>12

\* What a plugin requires, as the sequence that visit walks.
LEMMA PluginRequires ==
  ASSUME NEW library, IsLibrary(library), NEW lib, lib = DOMAIN library, NEW id \in lib,
         library[id].kind # "absent"
  PROVE  library[id].requires \in Seq(lib) /\ Requires(library, id) = ToSet(library[id].requires)
BY DEF IsLibrary, Requires

\* A visit without an error places its id and keeps what was placed.
LEMMA VisitSucceeds ==
  ASSUME NEW library, IsLibrary(library), NEW lib, lib = DOMAIN library, NEW v, IsVisit(library, v),
         NEW needed \in SUBSET lib, \A i \in needed : Requires(library, i) \subseteq needed
  PROVE  \A id \in lib : \A visiting \in SUBSET lib :
           id \in needed => VisitPlaces(library, needed, v, id, visiting)
<1>1. IsFiniteSet(lib)
  BY DEF IsLibrary
<1>2. PICK G : G = {x \in lib \X SUBSET lib : x[1] \in needed => VisitPlaces(library, needed, v, x[1], x[2])}
  OBVIOUS
<1>3. ASSUME NEW id \in lib, NEW visiting \in SUBSET lib,
             id \notin visiting => \A d \in lib : <<d, visiting \cup {id}>> \in G
      PROVE  <<id, visiting>> \in G
  <2>1. SUFFICES ASSUME id \in needed PROVE VisitPlaces(library, needed, v, id, visiting)
    BY <1>2
  <2>2. SUFFICES ASSUME NEW order \in Seq(lib), v[<<id, visiting, order>>].error = "none",
                        IsOrder(library, needed, order)
                 PROVE  Placed(library, needed, order, visiting, {id}, v[<<id, visiting, order>>].ids)
    BY DEF VisitPlaces
  <2>3. PICK ids, above, below, x :
          /\ ids = library[id].requires /\ above = visiting \cup {id}
          /\ below = VisitAll(v, above, Walk(order), ids) /\ x = v[<<id, visiting, order>>]
    OBVIOUS
  <2>4. x = IF id \in ToSet(order) THEN Walk(order)
            ELSE IF id \in visiting THEN Thrown("DEPENDENCY_CYCLE")
            ELSE IF library[id].kind # "plugin" THEN Thrown("MISSING_DEPENDENCY")
            ELSE IF below.error # "none" THEN below
            ELSE Walk(Append(below.ids, id))
    <3>1. x = VisitBody(library, v, <<id, visiting, order>>)
      BY <2>3, VisitTyped
    <3> QED BY <2>3, <3>1 DEF VisitBody
  <2>5. CASE id \in ToSet(order)
    <3>1. x.ids = order
      BY <2>4, <2>5 DEF Walk
    <3>2. Placed(library, needed, order, visiting, {id}, order)
      BY <2>2, <2>5 DEF Placed
    <3> QED BY <2>3, <3>1, <3>2
  <2>6. CASE id \notin ToSet(order)
    <3>1. /\ id \notin visiting /\ library[id].kind = "plugin" /\ below.error = "none"
          /\ x = Walk(Append(below.ids, id))
      <4>1. Thrown("MISSING_DEPENDENCY").error # "none" /\ Thrown("DEPENDENCY_CYCLE").error # "none"
        BY DEF Thrown
      <4> QED BY <2>2, <2>3, <2>4, <2>6, <4>1
    <3>2. ids \in Seq(lib) /\ Requires(library, id) = ToSet(ids)
      BY <2>3, <3>1, PluginRequires
    <3>3. above \in SUBSET lib
      BY <2>3
    <3>4. \A d \in lib : \A o \in Seq(lib) : v[<<d, above, o>>] \in Walks(lib)
      BY <3>3, VisitTyped
    <3>5. ASSUME NEW d \in ToSet(ids) PROVE VisitPlaces(library, needed, v, d, above)
      <4>1. d \in needed /\ d \in lib
        BY <2>1, <3>2
      <4>2. <<d, above>> \in G
        BY <1>3, <2>3, <3>1, <4>1
      <4> QED BY <1>2, <4>1, <4>2
    <3>6. below \in Walks(lib) /\ Placed(library, needed, order, above, ToSet(ids), below.ids)
      BY <2>2, <2>3, <3>1, <3>2, <3>4, <3>5, VisitAllPlaces
    <3>7. PICK new \in Seq(lib) : new = below.ids
      BY <3>6, WalkTypes
    <3>8. /\ IsOrder(library, needed, new) /\ ToSet(order) \subseteq ToSet(new)
          /\ ToSet(ids) \subseteq ToSet(new) /\ ToSet(new) \cap above \subseteq ToSet(order)
      BY <3>6, <3>7 DEF Placed
    <3>9. id \notin ToSet(new)
      BY <2>3, <2>6, <3>8
    <3>10. /\ IsOrder(library, needed, Append(new, id))
           /\ ToSet(Append(new, id)) = ToSet(new) \cup {id}
      BY <2>1, <3>1, <3>2, <3>8, <3>9, OneMorePlaced
    <3>11. x.ids = Append(new, id)
      BY <3>1, <3>7 DEF Walk
    <3>12. Placed(library, needed, order, visiting, {id}, Append(new, id))
      BY <2>3, <3>1, <3>8, <3>10 DEF Placed
    <3> QED BY <2>3, <3>11, <3>12
  <2> QED BY <2>5, <2>6
<1>4. \A id \in lib : \A visiting \in SUBSET lib : <<id, visiting>> \in G
  BY <1>1, <1>3, Downward
<1> QED BY <1>2, <1>4

\* A plugin, or what a plugin requires.
Called(library, needed, id) ==
  \/ library[id].kind = "plugin"
  \/ \E j \in needed : library[j].kind = "plugin" /\ id \in Requires(library, j)

Refuses(lib, v, id, visiting) == \E order \in Seq(lib) : v[<<id, visiting, order>>].error # "none"

\* An error of visit on a trail means that there is no load order.
LEMMA VisitRefuses ==
  ASSUME NEW library, IsLibrary(library), NEW lib, lib = DOMAIN library, NEW v, IsVisit(library, v),
         NEW select \in Seq(lib), NEW needed, needed = Needed(library, select)
  PROVE  \A id \in lib : \A visiting \in SUBSET lib :
           Trail(library, needed, visiting, id) /\ Called(library, needed, id)
           /\ Refuses(lib, v, id, visiting)
             => ~Loadable(library, select)
<1>1. IsFiniteSet(lib)
  BY DEF IsLibrary
<1>2. PICK G : G = {x \in lib \X SUBSET lib :
                 Trail(library, needed, x[2], x[1]) /\ Called(library, needed, x[1])
                 /\ Refuses(lib, v, x[1], x[2])
                   => ~Loadable(library, select)}
  OBVIOUS
<1>3. ASSUME NEW id \in lib, NEW visiting \in SUBSET lib,
             id \notin visiting => \A d \in lib : <<d, visiting \cup {id}>> \in G
      PROVE  <<id, visiting>> \in G
  <2>1. SUFFICES ASSUME Trail(library, needed, visiting, id), Called(library, needed, id),
                        NEW order \in Seq(lib), v[<<id, visiting, order>>].error # "none"
                 PROVE  ~Loadable(library, select)
    BY <1>2 DEF Refuses
  <2>2. PICK ids, above, below :
          /\ ids = library[id].requires /\ above = visiting \cup {id}
          /\ below = VisitAll(v, above, Walk(order), ids)
    OBVIOUS
  <2>3. v[<<id, visiting, order>>] =
            IF id \in ToSet(order) THEN Walk(order)
            ELSE IF id \in visiting THEN Thrown("DEPENDENCY_CYCLE")
            ELSE IF library[id].kind # "plugin" THEN Thrown("MISSING_DEPENDENCY")
            ELSE IF below.error # "none" THEN below
            ELSE Walk(Append(below.ids, id))
    <3>1. v[<<id, visiting, order>>] = VisitBody(library, v, <<id, visiting, order>>)
      BY VisitTyped
    <3> QED BY <2>2, <3>1 DEF VisitBody
  <2>4. id \notin ToSet(order)
    BY <2>1, <2>3 DEF Walk
  <2>5. CASE id \in visiting
    BY <2>1, <2>5, TrailBack
  <2>6. CASE library[id].kind # "plugin"
    <3>1. PICK j \in needed : library[j].kind = "plugin" /\ id \in Requires(library, j)
      BY <2>1, <2>6 DEF Called
    <3> QED BY <2>6, <3>1 DEF Loadable
  <2>7. CASE id \notin visiting /\ library[id].kind = "plugin"
    <3>1. below.error # "none"
      <4>1. Walk(Append(below.ids, id)).error = "none"
        BY DEF Walk
      <4> QED BY <2>1, <2>3, <2>4, <2>7, <4>1
    <3>2. ids \in Seq(lib) /\ Requires(library, id) = ToSet(ids)
      BY <2>2, <2>7, PluginRequires
    <3>3. above \in SUBSET lib
      BY <2>2
    <3>4. \A d \in lib : \A o \in Seq(lib) : v[<<d, above, o>>] \in Walks(lib)
      BY <3>3, VisitTyped
    <3>5. VisitFails(lib, v, ids, above)
      BY <2>2, <3>1, <3>2, <3>4, VisitAllPlaces
    <3>6. PICK d \in ToSet(ids) : Refuses(lib, v, d, above)
      BY <3>5 DEF VisitFails, Refuses
    <3>7. d \in Requires(library, id) /\ d \in lib
      BY <3>2, RequiresWithin
    <3>8. Trail(library, needed, above, d)
      BY <2>1, <2>2, <3>7, TrailOn
    <3>9. Called(library, needed, d)
      BY <2>1, <2>7, <3>7 DEF Called, Trail
    <3>10. <<d, above>> \in G
      BY <1>3, <2>2, <2>7, <3>7
    <3> QED BY <1>2, <3>6, <3>8, <3>9, <3>10
  <2> QED BY <2>5, <2>6, <2>7
<1>4. \A id \in lib : \A visiting \in SUBSET lib : <<id, visiting>> \in G
  BY <1>1, <1>3, Downward
<1> QED BY <1>2, <1>4

\* The result of visiting what was expanded.
LEMMA VisitedResult ==
  ASSUME NEW library, IsLibrary(library), NEW lib, lib = DOMAIN library, NEW select \in Seq(lib),
         Whole(library, Needed(library, select)),
         NEW selected \in Seq(lib),
         ToSet(selected) = {i \in Needed(library, select) : library[i].kind = "plugin"},
         NEW w, w = Visited(library, selected)
  PROVE  /\ w.error # "none" => ~Loadable(library, select)
         /\ w.error = "none" => Loadable(library, select) /\ IsLoadOrder(library, select, w.ids)
<1>1. PICK v : v = CHOOSE u : IsVisit(library, u)
  OBVIOUS
<1>2. IsVisit(library, v)
  BY <1>1, VisitExists
<1>3. PICK needed, order : needed = Needed(library, select) /\ order = <<>>
  OBVIOUS
<1>4. order \in Seq(lib) /\ w = VisitAll(v, {}, Walk(order), selected)
  BY <1>1, <1>3, VisitedBy
<1>5. /\ needed \in SUBSET lib
      /\ \A i \in needed : Requires(library, i) \subseteq needed
      /\ \A i : i \in ToSet(selected) <=> i \in needed /\ library[i].kind = "plugin"
  BY <1>3, NeededClosed
<1>6. \A d \in lib : \A o \in Seq(lib) : v[<<d, {}, o>>] \in Walks(lib)
  BY <1>2, VisitTyped
<1>7. IsOrder(library, needed, order)
  BY <1>3 DEF IsOrder, ToSet
<1>8. \A d \in ToSet(selected) : VisitPlaces(library, needed, v, d, {})
  <2>1. \A d \in lib : d \in needed => VisitPlaces(library, needed, v, d, {})
    BY <1>2, <1>5, VisitSucceeds
  <2> QED BY <1>5, <2>1
<1>9. /\ w \in Walks(lib)
      /\ w.error # "none" => VisitFails(lib, v, selected, {})
      /\ w.error = "none" => Placed(library, needed, order, {}, ToSet(selected), w.ids)
  BY <1>4, <1>6, <1>7, <1>8, VisitAllPlaces
<1>10. ASSUME w.error # "none" PROVE ~Loadable(library, select)
  <2>1. PICK d \in ToSet(selected) : Refuses(lib, v, d, {})
    BY <1>9, <1>10 DEF VisitFails, Refuses
  <2>2. d \in needed /\ d \in lib /\ library[d].kind = "plugin"
    BY <1>5
  <2>3. Trail(library, needed, {}, d) /\ Called(library, needed, d)
    BY <2>2 DEF Trail, Called
  <2> QED BY <1>2, <1>3, <2>1, <2>2, <2>3, VisitRefuses
<1>11. ASSUME w.error = "none" PROVE Loadable(library, select) /\ IsLoadOrder(library, select, w.ids)
  <2>1. PICK new : new = w.ids
    OBVIOUS
  <2>2. IsOrder(library, needed, new) /\ ToSet(selected) \subseteq ToSet(new)
    BY <1>9, <1>11, <2>1 DEF Placed
  <2>3. \A i : i \in ToSet(new) <=> i \in needed /\ library[i].kind = "plugin"
    BY <1>5, <2>2 DEF IsOrder
  <2>4. ToSet(new) = {i \in needed : library[i].kind = "plugin"}
    BY <2>3
  <2>5. IsLoadOrder(library, select, new)
    BY <1>3, <2>2, <2>4 DEF IsLoadOrder, IsOrder
  <2>6. new \in Seq(lib)
    BY <1>9, <2>1, WalkTypes
  <2>7. ASSUME NEW i \in needed, library[i].kind = "plugin", NEW d \in Requires(library, i)
        PROVE  library[d].kind = "plugin"
    <3>1. PICK k \in DOMAIN new : i = new[k]
      BY <2>3, <2>7 DEF ToSet
    <3>2. PICK j \in 1..(k - 1) : new[j] = d
      BY <2>2, <2>7, <3>1 DEF IsOrder
    <3>3. j \in DOMAIN new
      <4>1. PICK n \in Nat : DOMAIN new = 1..n
        BY <2>6
      <4> QED BY <4>1
    <3>4. d \in ToSet(new)
      BY <3>2, <3>3 DEF ToSet
    <3> QED BY <2>3, <3>4
  <2>8. ASSUME NEW S \in (SUBSET needed) \ {{}} PROVE \E i \in S : Requires(library, i) \cap S = {}
    <3>0. S # {} /\ S \in SUBSET needed
      BY <2>8
    <3>1. PICK i : i \in S
      BY <3>0
    <3>2. i \in needed /\ S \in SUBSET lib
      BY <1>5, <3>0, <3>1
    <3>3. ~Cyclic(library, S)
      BY <1>3, <3>1, <3>2 DEF Whole
    <3> QED BY <3>3 DEF Cyclic
  <2>9. \A i \in needed : library[i].kind # "absent"
    BY <1>3 DEF Whole
  <2>10. Loadable(library, select)
    BY <1>3, <2>7, <2>8, <2>9 DEF Loadable
  <2> QED BY <2>1, <2>5, <2>10
<1> QED BY <1>10, <1>11

\* planCapabilityLibrary, for every library and every selection: a plan without an
\* error is a load order of a selection that has one, and the two errors of the
\* walks are thrown only for a selection that has none.
THEOREM PlansAreLoadOrders ==
  ASSUME NEW library, IsLibrary(library), NEW lib, lib = DOMAIN library, NEW select \in Seq(lib),
         NEW hostProvides, NEW plan, plan = PlanLibrary(library, select, hostProvides)
  PROVE  /\ plan.error = "none" => Loadable(library, select) /\ IsLoadOrder(library, select, plan.ids)
         /\ plan.error \in {"MISSING_DEPENDENCY", "DEPENDENCY_CYCLE"} => ~Loadable(library, select)
<1>1. PICK scanned, selected : scanned = Scanned(library, hostProvides) /\ selected = Expanded(library, select)
  OBVIOUS
<1>2. plan = IF scanned.error # "none" THEN scanned
             ELSE IF selected.error # "none" THEN selected
             ELSE Visited(library, selected.ids)
  BY <1>1 DEF PlanLibrary
<1>3. scanned.error \in {"DUPLICATE_PROVIDE", "HOST_CONTRIBUTION_CONFLICT", "none"}
  BY <1>1 DEF Scanned, Thrown, Walk
<1>4. /\ selected \in Walks(lib)
      /\ selected.error # "none" => ~Loadable(library, select)
      /\ selected.error = "none" =>
           /\ Whole(library, Needed(library, select))
           /\ ToSet(selected.ids) = {i \in Needed(library, select) : library[i].kind = "plugin"}
  BY <1>1, ExpandedResult
<1>5. CASE scanned.error # "none"
  BY <1>2, <1>3, <1>5
<1>6. CASE scanned.error = "none" /\ selected.error # "none"
  BY <1>2, <1>4, <1>6
<1>7. CASE scanned.error = "none" /\ selected.error = "none"
  <2>1. PICK ids \in Seq(lib) : ids = selected.ids
    BY <1>4, WalkTypes
  <2>2. plan = Visited(library, ids)
    BY <1>2, <1>7, <2>1
  <2>3. /\ plan.error # "none" => ~Loadable(library, select)
        /\ plan.error = "none" => Loadable(library, select) /\ IsLoadOrder(library, select, plan.ids)
    BY <1>4, <1>7, <2>1, <2>2, VisitedResult
  <2> QED BY <2>3
<1> QED BY <1>5, <1>6, <1>7

-----------------------------------------------------------------------------
(* The plans of the processes.                                              *)

\* Whoever has a plan has the plan of the library.
PlanInv == \A p \in Procs : proc[p].plan \in {None, LibraryPlan}

\* A process gets its plan from planCapabilityLibrary, or none, or keeps it.
LEMMA PlanKept ==
  ASSUME HostShape, NEW p \in Procs, ProcessStep(p)
  PROVE  proc'[p].plan \in {None, LibraryPlan, proc[p].plan}
<1>1. DOMAIN proc = Procs /\ DOMAIN proc[p] = Fields
  BY DEF HostShape
<1>2. \A process, a : Planning(process, a).plan = None
  BY DEF Planning, NewProcess
<1>3. CASE PlanStep(p)
  <2>1. CASE Start(p)
    <3>1. PICK a : proc' = [proc EXCEPT ![p] = Planning(proc[p], a)]
      BY <2>1 DEF Start
    <3> QED BY <1>1, <1>2, <3>1
  <2>2. CASE ReadSource(p)
    <3>1. \/ Goto(p, "failed")
          \/ \E chain : proc' = [proc EXCEPT ![p].chain = chain]
          \/ \E overlays : proc' = [proc EXCEPT ![p].overlays = overlays]
      BY <2>2 DEF ReadSource
    <3> QED BY <1>1, <3>1 DEF Goto, Fields
  <2>3. CASE Validated(p)
    <3>1. PICK place, plan, checked :
            /\ plan = LibraryPlan
            /\ proc' = [proc EXCEPT ![p].pc = place, ![p].plan = plan, ![p].checked = checked,
                                    ![p].chain = <<>>, ![p].overlays = <<>>]
      BY <2>3 DEF Validated
    <3> QED BY <1>1, <3>1 DEF Fields
  <2>4. CASE Resolved(p)
    <3>1. \/ \E profile : proc' = [proc EXCEPT ![p].pc = "hashing", ![p].profile = profile]
          \/ Goto(p, "failed")
      BY <2>4 DEF Resolved
    <3> QED BY <1>1, <3>1 DEF Goto, Fields
  <2>5. CASE HashPackage(p)
    <3>1. \E digests : proc' = [proc EXCEPT ![p].digests = digests]
      BY <2>5 DEF HashPackage
    <3> QED BY <1>1, <3>1 DEF Fields
  <2>6. CASE Planned(p)
    <3>1. \E pc : Goto(p, pc)
      BY <2>6 DEF Planned
    <3> QED BY <1>1, <3>1 DEF Goto, Fields
  <2> QED BY <1>3, <2>1, <2>2, <2>3, <2>4, <2>5, <2>6 DEF PlanStep
<1>4. CASE ReadMetadata(p)
  <2>1. Kept(p, {"pc"}) \/ proc'[p] = Claimed(p)
    BY <1>4, WorkspaceRead
  <2> QED BY <2>1, ClaimedFacts DEF Kept, Fields
<1>5. CASE WriteMetadata(p)
  BY <1>5, MetadataWritten, ClaimedFacts
<1>6. CASE \/ Claim(p) \/ CheckPackage(p) \/ ReadReference(p) \/ StoreResolution(p)
           \/ FillResolution(p) \/ AppendReference(p) \/ OpenSession(p) \/ Turn(p)
  <2>1. Kept(p, {"pc"})
    BY <1>6, Moves DEF MovesOn
  <2> QED BY <2>1 DEF Kept, Fields
<1>7. CASE Import(p)
  <2>1. Kept(p, {"pc", "imported"})
    BY <1>7, Imports
  <2> QED BY <2>1 DEF Kept, Fields
<1>8. CASE Assembled(p)
  <2>1. Kept(p, {"pc", "exists"})
    BY <1>8, AssembledMoves
  <2> QED BY <2>1 DEF Kept, Fields
<1> QED BY <1>3, <1>4, <1>5, <1>6, <1>7, <1>8, StepKinds

LEMMA LibraryPlanSame == UNCHANGED situation => LibraryPlan' = LibraryPlan
BY DEF LibraryPlan

\* No step gives a process another plan.
LEMMA PlanInvStep == HostShape /\ PlanInv /\ [Next]_vars => PlanInv'
<1> SUFFICES ASSUME HostShape, PlanInv, [Next]_vars PROVE PlanInv'
  OBVIOUS
<1>1. PICK plan : plan = LibraryPlan
  OBVIOUS
<1>2. \A p \in Procs : proc[p].plan \in {None, plan}
  BY <1>1 DEF PlanInv
<1>3. ASSUME UNCHANGED situation, \A p \in Procs : proc'[p].plan \in {None, plan} PROVE PlanInv'
  <2>1. LibraryPlan' = plan /\ Procs' = Procs
    BY <1>1, <1>3, LibraryPlanSame DEF Procs
  <2> QED BY <1>3, <2>1 DEF PlanInv
<1>4. CASE UNCHANGED vars
  BY <1>2, <1>3, <1>4 DEF vars
<1>5. CASE Edit
  <2>1. UNCHANGED situation /\ \A p \in Procs : Kept(p, {"raced"})
    BY <1>5, EditMoves
  <2>2. \A p \in Procs : proc'[p].plan = proc[p].plan
    BY <2>1 DEF Kept, Fields
  <2> QED BY <1>2, <1>3, <2>1, <2>2
<1>6. ASSUME NEW p \in Procs, Only(p), proc'[p].plan \in {None, plan, proc[p].plan} PROVE PlanInv'
  <2>1. \A q \in Procs : proc'[q].plan \in {None, plan}
    BY <1>2, <1>6 DEF Only
  <2> QED BY <1>3, <1>6, <2>1 DEF Only
<1>7. ASSUME NEW p \in Procs, ProcessStep(p) PROVE PlanInv'
  <2>1. Only(p)
    BY <1>7, PlanSteps, WorkspaceRead, MetadataWritten, Moves, Imports, AssembledMoves
    DEF ProcessStep, PlanStep, MovesOn
  <2> QED BY <1>1, <1>6, <1>7, <2>1, PlanKept
<1>8. ASSUME NEW p \in Procs, Crash(p) PROVE PlanInv'
  <2>1. Only(p) /\ Kept(p, {"pc"})
    BY <1>8, CrashMoves
  <2>2. proc'[p].plan = proc[p].plan
    BY <2>1 DEF Kept, Fields
  <2> QED BY <1>6, <2>1, <2>2
<1> QED BY <1>4, <1>5, <1>7, <1>8 DEF Next

\* LoadOrderSound (planCapabilityLibrary): the library does not change, and its
\* plan is right for every library, whatever its bundles, cycles and gaps.
THEOREM LoadOrdersAreSound == Spec => []LoadOrderSound
<1>1. Init => HostShape /\ PlanInv
  <2>1. Init => PlanInv
    BY DEF Init, PlanInv, NewProcess
  <2> QED BY <2>1, InitShape
<1>2. HostShape /\ PlanInv /\ [Next]_vars => (HostShape /\ PlanInv)'
  BY ShapeStep, PlanInvStep
<1>3. HostShape /\ PlanInv => LoadOrderSound
  <2> SUFFICES ASSUME HostShape, PlanInv, NEW p \in Procs, proc[p].plan # None
      PROVE  CASE proc[p].plan.error = "none" ->
                    /\ Loadable(situation.library, Select)
                    /\ IsLoadOrder(situation.library, Select, proc[p].plan.ids)
               [] proc[p].plan.error \in {"MISSING_DEPENDENCY", "DEPENDENCY_CYCLE"} ->
                    ~Loadable(situation.library, Select)
               [] OTHER -> TRUE
    BY DEF LoadOrderSound
  <2>1. PICK library, lib, plan : /\ library = situation.library /\ lib = DOMAIN library
                                  /\ plan = PlanLibrary(library, Select, HostProvides)
    OBVIOUS
  <2>2. IsLibrary(library) /\ Select \in Seq(lib)
    BY <2>1, LibraryAssumption DEF HostShape
  <2>3. proc[p].plan = plan
    BY <2>1 DEF PlanInv, LibraryPlan
  <2>4. /\ plan.error = "none" => Loadable(library, Select) /\ IsLoadOrder(library, Select, plan.ids)
        /\ plan.error \in {"MISSING_DEPENDENCY", "DEPENDENCY_CYCLE"} => ~Loadable(library, Select)
    BY <2>1, <2>2, PlansAreLoadOrders
  <2> QED BY <2>1, <2>3, <2>4
<1> QED BY <1>1, <1>2, <1>3, PTL DEF Spec
=============================================================================
