------------------------- MODULE CapabilityLibrary -------------------------
(***************************************************************************)
(* src/packages/capability-library/src/index.ts: how planCapabilityLibrary *)
(* turns a selection of Capability Packages into the order in which their  *)
(* plugins are loaded.  A library is a function from the ids that the      *)
(* roots and the selection mention to manifests:                           *)
(*   kind      "plugin", "bundle", or "absent" for an id without a package *)
(*   requires  the dependencies of a plugin, the members of a bundle       *)
(*   provides  the identities that a plugin contributes                    *)
(***************************************************************************)
EXTENDS Naturals, FiniteSets, Sequences, SequencesExt

IsLibrary(library) ==
  /\ IsFiniteSet(DOMAIN library)
  /\ \A id \in DOMAIN library :
       /\ library[id].kind \in {"plugin", "bundle", "absent"}
       /\ library[id].requires \in Seq(DOMAIN library)

\* What a walk over packages found: the ids in order, or the error it threw.
Walk(ids) == [error |-> "none", ids |-> ids]
Thrown(code) == [error |-> code, ids |-> <<>>]

And(walk, below) == [error |-> below.error, ids |-> walk.ids \o below.ids]

\* visit or expand each id in turn; an error ends the walk.
InTurn(step(_, _), walk, ids) ==
  FoldLeft(LAMBDA w, id : IF w.error = "none" THEN step(w, id) ELSE w, walk, ids)

\* expand or visit each id, with this stack or these ids in the visit.
ExpandAll(expand, stack, walk, ids) ==
  InTurn(LAMBDA w, id : And(w, expand[<<id, stack>>]), walk, ids)

VisitAll(visit, visiting, walk, ids) ==
  InTurn(LAMBDA w, id : visit[<<id, visiting, w.ids>>], walk, ids)

\* expand(): the plugins under a selected id, bundles opened, depth first.  The
\* stack is the set of the ids in it.
Expanded(library, select) ==
  LET expand[call \in (DOMAIN library) \X (SUBSET DOMAIN library)] ==
        LET id == call[1]
            stack == call[2]
            package == library[id]
        IN
        IF package.kind = "absent" THEN Thrown("MISSING_DEPENDENCY")
        ELSE IF id \in stack THEN Thrown("DEPENDENCY_CYCLE")
        ELSE ExpandAll(expand, stack \cup {id},
                       Walk(IF package.kind = "plugin" THEN <<id>> ELSE <<>>), package.requires)
  IN  ExpandAll(expand, {}, Walk(<<>>), select)

\* Mutant of Visited: a plugin takes its place before its dependencies do.
VisitedFirst(library, selected) ==
  LET visit[call \in (DOMAIN library) \X (SUBSET DOMAIN library) \X Seq(DOMAIN library)] ==
        LET id == call[1]
            visiting == call[2]
            order == call[3]
        IN
        IF id \in ToSet(order) THEN Walk(order)
        ELSE IF library[id].kind # "plugin" THEN Thrown("MISSING_DEPENDENCY")
        ELSE VisitAll(visit, visiting \cup {id}, Walk(Append(order, id)), library[id].requires)
  IN  VisitAll(visit, {}, Walk(<<>>), selected)

\* visit(): every dependency before the plugins that need it.
Visited(library, selected) ==
  LET visit[call \in (DOMAIN library) \X (SUBSET DOMAIN library) \X Seq(DOMAIN library)] ==
        LET id == call[1]
            visiting == call[2]
            order == call[3]
            package == library[id]
            below == VisitAll(visit, visiting \cup {id}, Walk(order), package.requires)
        IN  IF id \in ToSet(order) THEN Walk(order)
            ELSE IF id \in visiting THEN Thrown("DEPENDENCY_CYCLE")
            ELSE IF package.kind # "plugin" THEN Thrown("MISSING_DEPENDENCY")
            ELSE IF below.error # "none" THEN below
            ELSE Walk(Append(below.ids, id))
  IN  VisitAll(visit, {}, Walk(<<>>), selected)

\* The scan of the roots: all packages count, selected or not.
Scanned(library, hostProvides) ==
  LET Plugins == {i \in DOMAIN library : library[i].kind = "plugin"} IN
  IF \E i, j \in Plugins : i # j /\ library[i].provides \cap library[j].provides # {}
    THEN Thrown("DUPLICATE_PROVIDE")
  ELSE IF \E i \in Plugins : library[i].provides \cap hostProvides # {}
    THEN Thrown("HOST_CONTRIBUTION_CONFLICT")
  ELSE Walk(<<>>)

\* planCapabilityLibrary: the load order, or the code of its error.
PlanLibrary(library, select, hostProvides) ==
  LET scanned  == Scanned(library, hostProvides)
      selected == Expanded(library, select)
  IN  IF scanned.error # "none" THEN scanned
      ELSE IF selected.error # "none" THEN selected
      ELSE Visited(library, selected.ids)

-----------------------------------------------------------------------------
(* The reference: what a load order is, said without walking. *)

Requires(library, i) ==
  IF library[i].kind = "absent" THEN {} ELSE ToSet(library[i].requires)

\* The ids in every set that has the selection and all that its members require.
Needed(library, select) ==
  {i \in DOMAIN library :
     \A S \in SUBSET DOMAIN library :
       ToSet(select) \subseteq S /\ (\A j \in S : Requires(library, j) \subseteq S) => i \in S}

\* A selection that has a load order: nothing it needs is missing, no plugin
\* depends on a bundle, and no packages all require one another.
Loadable(library, select) ==
  LET needed == Needed(library, select) IN
  /\ \A i \in needed :
       /\ library[i].kind # "absent"
       /\ library[i].kind = "plugin" =>
            \A d \in Requires(library, i) : library[d].kind = "plugin"
  /\ \A S \in (SUBSET needed) \ {{}} : \E i \in S : Requires(library, i) \cap S = {}

\* A plan is exactly the plugins that are needed, once each, dependencies first.
IsLoadOrder(library, select, order) ==
  /\ ToSet(order) = {i \in Needed(library, select) : library[i].kind = "plugin"}
  /\ \A j, k \in DOMAIN order : j # k => order[j] # order[k]
  /\ \A k \in DOMAIN order : \A d \in Requires(library, order[k]) :
       \E j \in 1..(k - 1) : order[j] = d
=============================================================================
