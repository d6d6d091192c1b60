--------------------------- MODULE MCHostAssembly ---------------------------
(* Situations for HostAssembly: every library and every stack of layers on a  *)
(* small scale, a Profile and a package edited while a Host reads them, and   *)
(* processes that share a state directory.                                    *)
EXTENDS HostAssembly, TLC

CONSTANTS a, b, c, w1, w2, s1, s2, d1, d2, coding1, coding2, local, profile

MCPartition(kind, key) ==
  CASE kind = "profiles" -> profile [] kind = "nervus" -> local
    [] kind = "coding" -> IF key = w1 THEN coding1 ELSE coding2

Agent(fields) == "agent" :> Mapping(fields)
Id(agent) == [id |-> Value(agent), model |-> Value("named")]
Limit(v) == "limits" :> v
Journal(directory) == "state" :> Mapping("journal" :> Value(directory))

A == "nervus-cli-agent"
B == "another-agent"
C == "nervus-coding-agent"

MCSelect == <<a, b>>
MCAgentNeeds == {"model", a}

File(parent, body) == [extends |-> parent, body |-> body]
NoFiles == "entry" :> File(None, <<>>)

Plugin(requires, provides) == [kind |-> "plugin", requires |-> requires, provides |-> provides]
Bundle(members) == [kind |-> "bundle", requires |-> members, provides |-> {}]
Absent == [kind |-> "absent", requires |-> <<>>, provides |-> {}]

OneByOne == (a :> Plugin(<<b>>, {a})) @@ (b :> Plugin(<<>>, {b})) @@ (c :> Absent)

Lists == {<<>>, <<a>>, <<b>>, <<c>>, <<a, b>>, <<a, c>>, <<b, c>>, <<c, b>>}
Packages(id) == {Absent} \cup {Plugin(l, {id}) : l \in Lists} \cup {Bundle(l) : l \in Lists}

Libraries ==
  {(a :> x) @@ (b :> y) @@ (c :> z) : x \in Packages(a), y \in Packages(b), z \in Packages(c)}
  \cup {[OneByOne EXCEPT ![c] = Plugin(<<>>, {b})], [OneByOne EXCEPT ![c] = Plugin(<<>>, {"model"})]}

Command(host, command, source, overlays, session, workspace) ==
  [host |-> host, command |-> command, source |-> source, overlays |-> overlays,
   cli |-> <<>>, session |-> session, workspace |-> workspace]

Situation(files, edits, library, invocations, bound) ==
  [files |-> files, edits |-> edits, library |-> library, invocations |-> invocations,
   crashes |-> bound]

Explain(source, overlays) == Command("nervus", "explain", source, overlays, s1, w1)

EveryLibrary ==
  {Situation(NoFiles, <<>>, l, <<Explain("data", <<>>)>>, 0) : l \in Libraries}

\* A field of a layer: not there, null, or a value.
Field(v) == {<<>>, Limit(Null), Limit(Value(v))}

EveryLayer ==
  {Situation(("entry" :> File("parent", Agent(Id(A) @@ entry)))
             @@ ("parent" :> File(None, parent)) @@ ("overlay" :> File(extends, overlay)),
             <<>>, OneByOne, <<[Explain("file", <<"overlay">>) EXCEPT !.cli = cli]>>, 0) :
     entry \in Field("entry"), parent \in {<<>>} \cup {Agent(f) : f \in Field("parent")},
     overlay \in {<<>>, "agent" :> Null} \cup {Agent(f) : f \in Field("overlay")},
     extends \in {None, "entry"}, cli \in {<<>>} \cup {Agent(f) : f \in Field("cli")}}

\* A file, alone or with a parent, that deletes a section.
Deleted ==
  {Situation(("entry" :> File(parent, Agent(Id(A)) @@ ("state" :> Null)))
             @@ ("parent" :> File(None, Journal("jsonl"))),
             <<>>, OneByOne, <<Explain("file", <<>>)>>, 0) : parent \in {None, "parent"}}

Layered == ("entry" :> File("parent", Agent(Id(A)) @@ Journal("jsonl"))) @@ ("parent" :> File(None, Agent(Limit(Value("limits 1")))))
           @@ ("overlay" :> File(None, <<>>))

ToFile(file, content) == [file |-> file, content |-> content]
ToCode(id) == [package |-> id]

Rewrites == {
  <<ToFile("entry", File("parent", Agent(Id(B)))), ToFile("parent", File(None, Agent(Limit(Value("limits 2"))))), ToCode(a)>>,
  <<ToFile("entry", File(None, Agent(Id(B)))), ToFile("overlay", File(None, Agent(Limit(Value("limits 3"))))), ToCode(b)>>,
  <<ToCode(b), ToFile("parent", File("entry", <<>>)), ToCode(a)>>}

Edited ==
  {Situation(Layered, edits, OneByOne,
             <<Command("nervus", command, "file", <<"overlay">>, s1, w1)>>, 0) :
     edits \in Rewrites, command \in {"validate", "chat"}}

Coding(command, source, session, workspace) ==
  Command("coding", command, source, <<>>, session, workspace)

\* A command line with --state-dir.
In(directory, command) == [command EXCEPT !.cli = Journal(directory)]

Alone == (a :> Plugin(<<>>, {a})) @@ (b :> Bundle(<<a>>)) @@ (c :> Absent)

Replaced == <<ToFile("entry", File(None, Agent(Id(B) @@ Limit(Value("limits 1")))))>>

\* An entry file, and what is edited.
Entries == {
  <<Agent(Id(A)), <<>>>>, <<Agent(Id(C)), <<>>>>, <<Agent(Id(C)), Replaced>>,
  <<Agent(Id(C)) @@ ("host" :> Mapping("type" :> Value("coding"))), <<>>>>}

\* Processes that are told one directory.
Shared ==
  {Situation("entry" :> File(None, e[1]), e[2], Alone, [p \in 1..3 |-> In(d1, invocations[p])], 1) :
     e \in Entries,
     invocations \in {
       <<Coding("run", "file", s1, w1), Coding("run", "data", s2, w1), Coding("resume", "file", s1, w1)>>,
       <<Coding("run", "data", s1, w1), Coding("run", "data", s2, w2), Command("nervus", "chat", "file", <<>>, s1, w1)>>,
       <<Command("nervus", "run", "data", <<>>, s1, w1), Coding("run", "file", s1, w2), Command("nervus", "resume", "file", <<>>, s1, w1)>>}}

\* Two Sessions at once, of which both processes store the same resolution, in
\* the directory of their workspace.
SameResolution ==
  {Situation(NoFiles, <<>>, Alone,
             <<Coding("run", "data", s1, w1), Coding("run", "data", s2, w1),
               Coding("resume", "data", s1, w1)>>, 1)}

\* A Profile whose directory is edited, and a process of another workspace that
\* is told one of the directories, or reads the Profile too.
Redirects ==
  {Situation("entry" :> File(None, Agent(Id(C)) @@ Journal(before)),
             <<ToFile("entry", File(None, Agent(Id(C)) @@ Journal(after)))>>, Alone,
             <<Coding("run", "file", s1, w1), other>>, 1) :
     before \in {"default", d1}, after \in {"memory", d2},
     other \in {Coding("run", "file", s2, w2), In(d1, Coding("run", "data", s2, w2)),
                In(d2, Coding("run", "data", s2, w2)), In(d2, Coding("run", "data", s2, w1))}}

MCSituations == EveryLibrary \cup EveryLayer \cup Deleted \cup Edited \cup Shared \cup SameResolution
                \cup Redirects
=============================================================================
