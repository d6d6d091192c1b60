---------------------------- MODULE HostAssembly ----------------------------
(***************************************************************************)
(* The Host side of a process: planning and assembly                       *)
(* (src/packages/host/src/index.ts), the Capability Library's digests and  *)
(* imports, and the commands of `nervus` (src/src/cli/cli.ts) and of       *)
(* `nervus-code` (src/apps/coding-agent/src/index.ts) from the Profile's   *)
(* files to the Session's first Turn.  Processes share state directories,  *)
(* may crash anywhere, and read files that somebody edits.                 *)
(*                                                                         *)
(* A situation is what the processes find and what will happen:            *)
(*   files        the Profile files: [extends, body]                       *)
(*   edits        what is edited, in this order but at any time: a file,   *)
(*                or the code of a package.  Bound: nothing is written     *)
(*                that was there before (FilesAssumption).                 *)
(*   library      the Capability Packages; only their code is edited       *)
(*   invocations  the command lines, in the order they are typed           *)
(*   crashes      how many processes may crash                             *)
(***************************************************************************)
EXTENDS CapabilityLibrary, Profile

CONSTANTS
  Situations,
  Sessions,      \* Session ids
  Select,        \* capabilities.select
  HostProvides,  \* what HostContributions provide
  AgentNeeds,    \* the capabilities that agent names
  Directories,   \* state directories
  Partition(_, _),  \* the one of a Host that is told none: see DefaultDirectory
  None

WritesTo(edit, file) == "file" \in DOMAIN edit /\ edit.file = file

\* What a Profile file holds: a document, and perhaps the file that it extends.
IsFile(content, files) == IsDocument(content.body) /\ content.extends \in files \cup {None}

\* A command line names a Session and a workspace; a workspace is a path.
ASSUME HostAssumption ==
  /\ None # "torn"
  /\ \A s \in Situations : \A p \in DOMAIN s.invocations :
       /\ s.invocations[p].session \in Sessions
       /\ s.invocations[p].workspace \notin {None, "torn"}

\* The directory of a Host that is told none is a directory.
ASSUME DirectoryAssumption ==
  /\ None \notin Directories
  /\ Partition("profiles", "entry") \in Directories
  /\ \A s \in Situations : \A p \in DOMAIN s.invocations :
       Partition(s.invocations[p].host, s.invocations[p].workspace) \in Directories

\* The files are finitely many, an edit writes a new content, and a command
\* line names a Profile and overlays among the files, if not a generated Profile.
ASSUME FilesAssumption ==
  \A s \in Situations :
    LET files == DOMAIN s.files IN
    /\ IsFiniteSet(files) /\ None \notin files
    /\ \A file \in files : IsFile(s.files[file], files)
    /\ s.edits \in Seq({s.edits[j] : j \in DOMAIN s.edits})
    /\ \A j \in DOMAIN s.edits : \A file \in files : WritesTo(s.edits[j], file) =>
         /\ IsFile(s.edits[j].content, files)
         /\ s.edits[j].content # s.files[file]
         /\ \A i \in 1..(j - 1) :
              WritesTo(s.edits[i], file) => s.edits[i].content # s.edits[j].content
    /\ \A p \in DOMAIN s.invocations :
         /\ s.invocations[p].source \in {"data"} \cup (IF "entry" \in files THEN {"file"} ELSE {})
         /\ s.invocations[p].overlays \in Seq(files)
         /\ IsDocument(s.invocations[p].cli)

\* A library has an entry for each id that it or the selection mentions.
ASSUME LibraryAssumption ==
  \A s \in Situations : IsLibrary(s.library) /\ Select \in Seq(DOMAIN s.library)

VARIABLES
  situation,
  edited,       \* how many of the edits are done
  crashes,
  proc,         \* the processes
  metadata,     \* workspace.json of each directory: None, "torn", or its workspace
  resolutions,  \* .host-assembly/resolutions: file name to "torn" or "whole"
  references,   \* .host-assembly/sessions: the references of each Session
  history       \* the events of each Session, in each directory

diskVars == <<metadata, resolutions, references, history>>
vars == <<situation, edited, crashes, proc, diskVars>>

Procs == DOMAIN situation.invocations
Invocation(p) == situation.invocations[p]

NewProcess ==
  [pc |-> "start", assembling |-> FALSE, since |-> 0, chain |-> <<>>, overlays |-> <<>>,
   checked |-> None, profile |-> None, plan |-> None, digests |-> <<>>,
   imported |-> <<>>, raced |-> FALSE, exists |-> FALSE, claimed |-> None]

Init ==
  /\ situation \in Situations
  /\ edited = 0 /\ crashes = 0
  /\ proc = [p \in Procs |-> NewProcess]
  /\ metadata = [d \in Directories |-> None]
  /\ resolutions = <<>>
  /\ references = [place \in Directories \X Sessions |-> <<>>]
  /\ history = [place \in Directories \X Sessions |-> <<>>]

Live(p) == proc[p].pc \notin {"start", "done", "failed", "crashed"}

Goto(p, pc) == proc' = [proc EXCEPT ![p].pc = pc]

-----------------------------------------------------------------------------
(* The files *)

\* profileSchema, which requires every field and allows no other.
ProfileSchema ==
  [host         |-> {"type", "options"},
   capabilities |-> {"roots", "select", "configure"},
   agent        |-> {"id", "model", "instructions", "tools", "skills", "limits", "timeouts"},
   state        |-> {"journal"},
   execution    |-> {"concurrency", "retry"}]

\* A document that has what a Host fixes, and a value for the other fields.
Filled(host, value, fixed) ==
  [s \in DOMAIN ProfileSchema |->
     Mapping([f \in ProfileSchema[s] \ (IF s = "agent" THEN {"id", "model"} \ DOMAIN fixed ELSE {}) |->
                IF s = "host" /\ f = "type" THEN Value(host)
                ELSE IF s = "agent" /\ f \in DOMAIN fixed THEN fixed[f]
                ELSE Value(value)])]

\* commonDefaults with the defaults of the HostContract: all but an Agent.
Defaults(host) == Filled(host, "default", <<>>)

\* generatedProfile, what a Host is given without --profile.
GeneratedAgent == [nervus |-> "nervus-cli-agent", coding |-> "nervus-coding-agent"]

Generated(host) ==
  Filled(host, "generated", [id |-> Value(GeneratedAgent[host]), model |-> Value("generated")])

\* A file has what the last of the first k edits wrote to it.
FilesAfter(k) ==
  [file \in DOMAIN situation.files |->
     LET writes == {j \in 1..k : WritesTo(situation.edits[j], file)}
     IN  IF writes = {} THEN situation.files[file] ELSE situation.edits[Max(writes)].content]

\* The code of a package: how often it was edited.
Code(id) ==
  Cardinality({k \in 1..edited : "package" \in DOMAIN situation.edits[k]
                                 /\ situation.edits[k].package = id})

NextPackage(p) == proc[p].plan.ids[Len(proc[p].imported) + 1]

Importing(p, edit) ==
  proc[p].pc = "importing" /\ "package" \in DOMAIN edit /\ edit.package = NextPackage(p)

Edit ==
  /\ edited < Len(situation.edits)
  /\ \E p \in Procs : Live(p)
  /\ edited' = edited + 1
  /\ proc' = [p \in Procs |->
       [proc[p] EXCEPT !.raced = @ \/ Importing(p, situation.edits[edited + 1])]]
  /\ UNCHANGED <<situation, crashes, diskVars>>

Crash(p) ==
  /\ Live(p)
  /\ crashes < situation.crashes
  /\ crashes' = crashes + 1
  /\ Goto(p, "crashed")
  /\ UNCHANGED <<situation, edited, diskVars>>

-----------------------------------------------------------------------------
(* planHost *)

\* What a planHost starts from.
Planning(process, assembling) ==
  [NewProcess EXCEPT !.pc = "reading", !.assembling = assembling, !.since = edited,
                     !.raced = process.raced]

\* Assumed of whoever types: one process at a time works on a Session.
Start(p) ==
  /\ proc[p].pc = "start"
  /\ \A q \in 1..(p - 1) :
       /\ proc[q].pc # "start"
       /\ Live(q) => Invocation(q).session # Invocation(p).session
  \* nervus assembles at once; nervus-code explains first.
  /\ proc' = [proc EXCEPT ![p] =
       Planning(@, Invocation(p).host = "nervus"
                   /\ Invocation(p).command \notin {"validate", "explain"})]
  /\ UNCHANGED <<situation, edited, crashes, diskVars>>

\* loadFile, which follows `extends`, ...
FollowsChain(p) ==
  IF proc[p].chain = <<>> THEN Invocation(p).source = "file"
  ELSE Last(proc[p].chain).content.extends # None

\* ... then loadOverlay for each overlay.
NextFile(p) ==
  LET read == Len(proc[p].overlays)
      overlays == Invocation(p).overlays
  IN  IF FollowsChain(p)
        THEN IF proc[p].chain = <<>> THEN "entry" ELSE Last(proc[p].chain).content.extends
      ELSE IF read < Len(overlays) THEN overlays[read + 1]
      ELSE None

ReadSource(p) ==
  /\ proc[p].pc = "reading"
  /\ NextFile(p) # None
  /\ LET file    == NextFile(p)
         content == FilesAfter(edited)[file]
         source  == [file |-> file, content |-> content]
     IN  \/ /\ \* INHERITANCE_CYCLE; an overlay that extends a file
               IF FollowsChain(p) THEN \E k \in DOMAIN proc[p].chain : proc[p].chain[k].file = file
               ELSE content.extends # None
            /\ Goto(p, "failed")
         \/ /\ FollowsChain(p)
            /\ \A k \in DOMAIN proc[p].chain : proc[p].chain[k].file # file
            /\ proc' = [proc EXCEPT ![p].chain = Append(@, source)]
         \/ /\ ~FollowsChain(p) /\ content.extends = None
            /\ proc' = [proc EXCEPT ![p].overlays = Append(@, source)]
  /\ UNCHANGED <<situation, edited, crashes, diskVars>>

SourcesRead(p) == proc[p].pc = "reading" /\ NextFile(p) = None

Bodies(sources) == [k \in DOMAIN sources |-> sources[k].content.body]

Configuration(p) ==
  Composed(Defaults(Invocation(p).host),
           IF Invocation(p).source = "data" THEN <<Generated(Invocation(p).host)>> ELSE Reverse(Bodies(proc[p].chain)),
           Append(Bodies(proc[p].overlays), Invocation(p).cli))

LibraryPlan == PlanLibrary(situation.library, Select, HostProvides)

\* validateAgentCapabilities
Provided(ids) ==
  HostProvides \cup UNION {situation.library[i].provides : i \in ToSet(ids)}

Accepted(p) ==
  /\ Valid(Configuration(p), ProfileSchema)
  /\ Configuration(p).host.fields.type = Value(Invocation(p).host)
  /\ LibraryPlan.error = "none"

\* validateProfile and the first planCapabilityLibrary, which check.
Validated(p) ==
  /\ SourcesRead(p)
  /\ proc[p].checked = None
  /\ proc' = [proc EXCEPT
       ![p].pc = IF ~Accepted(p) THEN "failed"
                 ELSE IF Invocation(p).command = "validate" THEN "done" ELSE "reading",
       ![p].plan = LibraryPlan,
       ![p].checked = <<proc[p].chain, proc[p].overlays>>,
       ![p].chain = <<>>,
       ![p].overlays = <<>>]
  /\ UNCHANGED <<situation, edited, crashes, diskVars>>

\* Mutant of SameSources: the sources are not compared.
AnySources(p) == TRUE

SameSources(p) == <<proc[p].chain, proc[p].overlays>> = proc[p].checked

\* resolveProfile, the comparison with what was validated, the second
\* planCapabilityLibrary and the checks after it.  The packages are hashed next.
Resolved(p) ==
  /\ SourcesRead(p)
  /\ proc[p].checked # None
  /\ \/ /\ SameSources(p) /\ Accepted(p) /\ AgentNeeds \subseteq Provided(LibraryPlan.ids)
        /\ proc' = [proc EXCEPT ![p].pc = "hashing", ![p].profile = Configuration(p)]
     \/ /\ ~(SameSources(p) /\ Accepted(p) /\ AgentNeeds \subseteq Provided(LibraryPlan.ids))
        /\ Goto(p, "failed")
  /\ UNCHANGED <<situation, edited, crashes, diskVars>>

HashPackage(p) ==
  /\ proc[p].pc = "hashing"
  /\ Len(proc[p].digests) < Len(proc[p].plan.ids)
  /\ proc' = [proc EXCEPT ![p].digests = Append(@, Code(proc[p].plan.ids[Len(@) + 1]))]
  /\ UNCHANGED <<situation, edited, crashes, diskVars>>

\* generatedProfile and defaultStateDirectory: nervus-code has a directory for
\* each workspace; nervus has one in the workspace, or one for a Profile's file.
DefaultDirectory(p) ==
  IF Invocation(p).host = "nervus" /\ Invocation(p).source = "file"
    THEN Partition("profiles", "entry")
    ELSE Partition(Invocation(p).host, Invocation(p).workspace)

\* The default journal of nervus is in memory, that of nervus-code is not.
InMemory(p) ==
  LET journal == proc[p].profile.state.fields.journal IN
  journal = Value("memory") \/ (journal = Value("default") /\ Invocation(p).host = "nervus")

\* resolveState: what the Profile of p's present plan says, or the default; None
\* is a journal in memory.
StateDirectory(p) ==
  LET journal == proc[p].profile.state.fields.journal IN
  IF journal.value \in Directories THEN journal.value
  ELSE IF InMemory(p) THEN None
  ELSE DefaultDirectory(p)

\* The Session that p works on.
Place(p) == <<StateDirectory(p), Invocation(p).session>>

\* The plan is complete: it is printed, or its state directory is checked (and
\* nervus-code has to have one), or assembleHost goes on with it.
Planned(p) ==
  /\ proc[p].pc = "hashing"
  /\ Len(proc[p].digests) = Len(proc[p].plan.ids)
  /\ Goto(p, IF proc[p].assembling THEN "loading"
             ELSE IF Invocation(p).command = "explain" THEN "done"
             ELSE IF StateDirectory(p) = None THEN "failed" ELSE "workspace")
  /\ UNCHANGED <<situation, edited, crashes, diskVars>>

-----------------------------------------------------------------------------
(* ensureStateWorkspace, on the state directory of the plan that explained *)

\* assembleHost makes a plan of its own, whose directory nobody compares with
\* the one that was checked.  claimed is kept for the properties only.
Claimed(p) ==
  [Planning(proc[p], TRUE) EXCEPT
     !.claimed = [directory |-> StateDirectory(p), since |-> proc[p].since]]

ReadMetadata(p) ==
  LET stored == metadata[StateDirectory(p)] IN
  /\ proc[p].pc \in {"workspace", "claimed"}
  /\ proc' = [proc EXCEPT ![p] =
       IF stored = None THEN [@ EXCEPT !.pc = "claiming"]
       ELSE IF stored = Invocation(p).workspace THEN Claimed(p)
       ELSE [@ EXCEPT !.pc = "failed"]]
  /\ UNCHANGED <<situation, edited, crashes, diskVars>>

\* Mutant of Claim: the file is opened with the flag "w".
ClaimAnyway(p) ==
  /\ proc[p].pc = "claiming"
  /\ metadata' = [metadata EXCEPT ![StateDirectory(p)] = "torn"] /\ Goto(p, "writing")
  /\ UNCHANGED <<situation, edited, crashes, resolutions, references, history>>

\* writeFile with the flag "wx" creates the file, or finds that it exists ...
Claim(p) ==
  /\ proc[p].pc = "claiming"
  /\ \/ /\ metadata[StateDirectory(p)] = None
        /\ metadata' = [metadata EXCEPT ![StateDirectory(p)] = "torn"] /\ Goto(p, "writing")
     \/ /\ metadata[StateDirectory(p)] # None
        /\ Goto(p, "claimed") /\ UNCHANGED metadata
  /\ UNCHANGED <<situation, edited, crashes, resolutions, references, history>>

\* ... and then writes its content.
WriteMetadata(p) ==
  /\ proc[p].pc = "writing"
  /\ metadata' = [metadata EXCEPT ![StateDirectory(p)] = Invocation(p).workspace]
  /\ proc' = [proc EXCEPT ![p] = Claimed(p)]
  /\ UNCHANGED <<situation, edited, crashes, resolutions, references, history>>

-----------------------------------------------------------------------------
(* instantiateCapabilityPlan *)

\* Mutant of CheckPackage: the digests are not verified again.
CheckNothing(p) ==
  /\ proc[p].pc = "loading"
  /\ Len(proc[p].imported) < Len(proc[p].plan.ids)
  /\ Goto(p, "importing")
  /\ UNCHANGED <<situation, edited, crashes, diskVars>>

\* The next package is hashed again: CONTENT_CHANGED, or it is imported.
CheckPackage(p) ==
  /\ proc[p].pc = "loading"
  /\ Len(proc[p].imported) < Len(proc[p].plan.ids)
  /\ Goto(p, IF Code(NextPackage(p)) = proc[p].digests[Len(proc[p].imported) + 1]
             THEN "importing" ELSE "failed")
  /\ UNCHANGED <<situation, edited, crashes, diskVars>>

Import(p) ==
  /\ proc[p].pc = "importing"
  /\ proc' = [proc EXCEPT ![p].imported = Append(@, Code(NextPackage(p))), ![p].pc = "loading"]
  /\ UNCHANGED <<situation, edited, crashes, diskVars>>

\* createKernel and createAgent; nervus-code has to have a directory; journal.list
\* tells whether the Session exists.  One in memory does not exist, and is gone
\* with its process.
Assembled(p) ==
  LET inMemory == StateDirectory(p) = None
      exists   == ~inMemory /\ history[Place(p)] # <<>>
      command  == Invocation(p).command
      refused  == \/ inMemory /\ Invocation(p).host = "coding"
                  \/ command = (IF exists THEN "run" ELSE "resume")
  IN
  /\ proc[p].pc = "loading"
  /\ Len(proc[p].imported) = Len(proc[p].plan.ids)
  /\ \/ refused /\ Goto(p, "failed")
     \/ ~refused /\ inMemory /\ Goto(p, "done")
     \/ /\ ~refused /\ ~inMemory
        /\ proc' = [proc EXCEPT ![p].pc = "recording", ![p].exists = exists]
  /\ UNCHANGED <<situation, edited, crashes, diskVars>>

-----------------------------------------------------------------------------
(* recordSessionAssembly, and the Session *)

AgentOf(p) == proc[p].profile.agent.fields.id

\* The content of a HostAssemblyResolution, which its digest stands for.
Resolution(p) ==
  [profile |-> proc[p].profile, source |-> Invocation(p).source,
   state |-> StateDirectory(p), order |-> proc[p].plan.ids, digests |-> proc[p].digests]

BelongsTo(previous, p) ==
  /\ previous.agent = AgentOf(p)
  /\ previous.source = "file" => Invocation(p).source = "file"

\* The last reference is read and compared: SESSION_PROFILE_MISMATCH, or on.
ReadReference(p) ==
  LET earlier == references[Place(p)] IN
  /\ proc[p].pc = "recording"
  /\ Goto(p, IF earlier = <<>> THEN "storing"
             ELSE IF BelongsTo(Last(earlier), p) THEN "storing" ELSE "failed")
  /\ UNCHANGED <<situation, edited, crashes, diskVars>>

\* Mutant of StoreResolution: a resolution that exists counts as recorded.
StoreResolutionOnce(p) ==
  /\ proc[p].pc = "storing"
  /\ \/ /\ Resolution(p) \in DOMAIN resolutions
        /\ Goto(p, "opening") /\ UNCHANGED resolutions
     \/ /\ Resolution(p) \notin DOMAIN resolutions
        /\ resolutions' = [r \in DOMAIN resolutions \cup {Resolution(p)} |->
                             IF r \in DOMAIN resolutions THEN resolutions[r] ELSE "torn"]
        /\ Goto(p, "filling")
  /\ UNCHANGED <<situation, edited, crashes, metadata, references, history>>

\* writeFile with the flag "wx"; EEXIST is ignored.
StoreResolution(p) ==
  /\ proc[p].pc = "storing"
  /\ \/ /\ Resolution(p) \in DOMAIN resolutions
        /\ Goto(p, "appending") /\ UNCHANGED resolutions
     \/ /\ Resolution(p) \notin DOMAIN resolutions
        /\ resolutions' = [r \in DOMAIN resolutions \cup {Resolution(p)} |->
                             IF r \in DOMAIN resolutions THEN resolutions[r] ELSE "torn"]
        /\ Goto(p, "filling")
  /\ UNCHANGED <<situation, edited, crashes, metadata, references, history>>

FillResolution(p) ==
  /\ proc[p].pc = "filling"
  /\ resolutions' = [resolutions EXCEPT ![Resolution(p)] = "whole"]
  /\ Goto(p, "appending")
  /\ UNCHANGED <<situation, edited, crashes, metadata, references, history>>

AppendReference(p) ==
  /\ proc[p].pc = "appending"
  /\ references' = [references EXCEPT ![Place(p)] =
       Append(@, [by |-> p, agent |-> AgentOf(p), source |-> Invocation(p).source,
                  resolution |-> Resolution(p)])]
  /\ Goto(p, "opening")
  /\ UNCHANGED <<situation, edited, crashes, metadata, resolutions, history>>

Event(type, p) == [type |-> type, by |-> p, agent |-> AgentOf(p)]

\* openSession knows the Agent or throws; createSession starts the history.
OpenSession(p) ==
  LET s == Place(p) IN
  /\ proc[p].pc = "opening"
  /\ \/ /\ proc[p].exists
        /\ Goto(p, IF history[s][1].agent = AgentOf(p) THEN "open" ELSE "failed")
        /\ UNCHANGED history
     \/ /\ ~proc[p].exists /\ history[s] = <<>>
        /\ history' = [history EXCEPT ![s] = <<Event("session/created", p)>>]
        /\ Goto(p, "open")
  /\ UNCHANGED <<situation, edited, crashes, metadata, resolutions, references>>

\* session.send, and the end of the process.
Turn(p) ==
  /\ proc[p].pc = "open"
  /\ history' = [history EXCEPT ![Place(p)] = Append(@, Event("turn", p))]
  /\ Goto(p, "done")
  /\ UNCHANGED <<situation, edited, crashes, metadata, resolutions, references>>

ProcessStep(p) ==
  \/ Start(p)
  \/ ReadSource(p) \/ Validated(p) \/ Resolved(p) \/ HashPackage(p) \/ Planned(p)
  \/ ReadMetadata(p) \/ Claim(p) \/ WriteMetadata(p)
  \/ CheckPackage(p) \/ Import(p) \/ Assembled(p)
  \/ ReadReference(p) \/ StoreResolution(p) \/ FillResolution(p) \/ AppendReference(p)
  \/ OpenSession(p) \/ Turn(p)

Next == Edit \/ \E p \in Procs : ProcessStep(p) \/ Crash(p)

Spec == Init /\ [][Next]_vars

-----------------------------------------------------------------------------

\* The files of a chain: the entry, and each time the file that the last extends.
IsChainOf(files, path) ==
  /\ path # <<>> /\ path[1] = "entry"
  /\ \A j \in DOMAIN path :
       files[path[j]].extends = IF j = Len(path) THEN None ELSE path[j + 1]

\* The layers under p's overlays, weakest first, as the files were after k edits.
FilesOf(p, k) ==
  IF Invocation(p).source = "data" THEN {<<Generated(Invocation(p).host)>>}
  ELSE LET files == FilesAfter(k)
           paths == {path \in SeqOf(DOMAIN files, Cardinality(DOMAIN files)) : IsChainOf(files, path)}
       IN  {Reverse([j \in DOMAIN path |-> files[path[j]].body]) : path \in paths}

PatchesOf(p, k) ==
  [j \in DOMAIN Invocation(p).overlays |-> FilesAfter(k)[Invocation(p).overlays[j]].body]
  \o <<Invocation(p).cli>>

\* docs/plans/m15-profile-driven-host-assembly.md:94-106, and :185 ("changed
\* plan content"): however the files are edited while they are read, a Host runs
\* with a Profile that was there at one moment of its planning, and each field
\* of it is what the last layer that speaks of the field says -- unless the
\* files delete it, when the default may come back.
ProfileIsSnapshot ==
  \A p \in Procs : proc[p].pc = "hashing" =>
    \E k \in proc[p].since..edited : \E files \in FilesOf(p, k) :
      \A s \in DOMAIN ProfileSchema : \A f \in ProfileSchema[s] :
        LET Said(layers) == LastWord(<<Defaults(Invocation(p).host)>> \o layers \o PatchesOf(p, k), s, f)
            said == FieldOf(proc[p].profile, s, f)
        IN  \/ said = Said(files)
            \/ said = Said(<<>>) /\ ForgetsDeletion(files, s, f)

\* A plan loads exactly the plugins that the selection needs, each after its
\* dependencies.  If no provides conflict, which is looked at first, a selection
\* is refused exactly when it has no such order.
LoadOrderSound ==
  \A p \in Procs : proc[p].plan # None =>
    CASE proc[p].plan.error = "none" ->
           /\ Loadable(situation.library, Select)
           /\ IsLoadOrder(situation.library, Select, proc[p].plan.ids)
      [] proc[p].plan.error \in {"MISSING_DEPENDENCY", "DEPENDENCY_CYCLE"} ->
           ~Loadable(situation.library, Select)
      [] OTHER -> TRUE

\* The code that runs has the digests that were planned and recorded, unless a
\* package is edited between its last check and its import.
RunsWhatItRecorded ==
  \A p \in Procs : \A k \in DOMAIN proc[p].imported :
    proc[p].imported[k] = proc[p].digests[k] \/ proc[p].raced

\* p assembles, or has assembled, with its state in directory d.
WorksIn(p, d) ==
  /\ Invocation(p).host = "coding" /\ proc[p].assembling /\ proc[p].profile # None
  /\ StateDirectory(p) = d

\* The Profile was edited after p began to explain it, and its state directory is
\* not the one that p checked.
Redirected(p) ==
  /\ proc[p].claimed.since < edited
  /\ StateDirectory(p) # proc[p].claimed.directory

\* tests/coding-host.test.ts:800, "rejects resuming a state partition against a
\* different workspace": however processes race for a directory and crash in it,
\* those that come to work there are of one workspace -- except a process that
\* checked another directory, because the Profile was edited between its plans.
OneWorkspace ==
  \A d \in Directories : \A p, q \in Procs : WorksIn(p, d) /\ WorksIn(q, d) =>
    \/ Invocation(p).workspace = Invocation(q).workspace
    \/ Redirected(p) \/ Redirected(q)

\* A process that stores this resolution has created its file and writes it.
BeingFilled(resolution) ==
  \E p \in Procs : proc[p].pc = "filling" /\ Resolution(p) = resolution

\* docs/adr/0010-allow-attributable-profile-changes-between-turns.md:7: what a
\* process does to a Session follows its reference to a resolution on disk, and
\* every event is of the Agent that created the Session, whatever the Profile
\* has become and whichever processes crashed in between.  The file may be torn
\* after a crash, and as long as the process that was first writes it.
TurnsAttributed ==
  \A s \in Directories \X Sessions : \A k \in DOMAIN history[s] :
    LET event == history[s][k] IN
    /\ event.agent = history[s][1].agent
    /\ \E r \in DOMAIN references[s] :
         LET reference == references[s][r] IN
         /\ reference.by = event.by /\ reference.agent = event.agent
         /\ reference.resolution \in DOMAIN resolutions
         /\ \/ resolutions[reference.resolution] = "whole"
            \/ crashes > 0
            \/ BeingFilled(reference.resolution)
=============================================================================
