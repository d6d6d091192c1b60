------------------------------ MODULE Profile ------------------------------
(***************************************************************************)
(* src/packages/profile/src/index.ts: how the layers of a Profile become   *)
(* one configuration.  A document has sections, as a Profile has, and a    *)
(* section is a mapping of fields to values, or null.  Two levels show     *)
(* what mergePatch does at every depth: it merges mappings, and replaces   *)
(* or deletes everything else.  Arrays are values.                         *)
(***************************************************************************)
EXTENDS Naturals, Sequences, SequencesExt, FiniteSetsExt

Null == [null |-> "null"]
Value(v) == [value |-> v]
Mapping(fields) == [fields |-> fields]

IsNull(d) == DOMAIN d = {"null"}
IsMapping(d) == DOMAIN d = {"fields"}

\* What a layer is: sections that are values, null, or mappings of such fields.
IsField(v) == v = Null \/ DOMAIN v = {"value"}

IsDocument(d) ==
  \A s \in DOMAIN d :
    \/ IsField(d[s])
    \/ /\ IsMapping(d[s]) /\ d[s] = Mapping(d[s].fields)
       /\ \A f \in DOMAIN d[s].fields : IsField(d[s].fields[f])

\* One level of mergePatch: null deletes, a key of the patch replaces or, when
\* both sides have the key, is combined.
Patched(base, patch, Combine(_, _)) ==
  [key \in {k \in (DOMAIN base) \cup (DOMAIN patch) : k \in DOMAIN patch => ~IsNull(patch[k])} |->
     IF key \notin DOMAIN patch THEN base[key]
     ELSE IF key \notin DOMAIN base THEN patch[key]
     ELSE Combine(base[key], patch[key])]

MergePatch(base, patch) ==
  Patched(base, patch,
          LAMBDA b, p : IF IsMapping(b) /\ IsMapping(p)
                        THEN Mapping(Patched(b.fields, p.fields, LAMBDA old, new : new))
                        ELSE p)

\* resolveProfile: the chain of files, parent first, is merged by loadFile
\* before it meets the Host's defaults; overlays and CLI values follow.
Composed(defaults, chain, patches) ==
  FoldLeft(MergePatch, MergePatch(defaults, FoldLeft(MergePatch, <<>>, chain)), patches)

\* validateSchema: the sections and fields of the schema, no others, and no null
\* (structuredClone keeps the nulls of a mapping that has nothing to merge with).
Valid(document, schema) ==
  /\ DOMAIN document = DOMAIN schema
  /\ \A s \in DOMAIN schema :
       /\ IsMapping(document[s])
       /\ DOMAIN document[s].fields = schema[s]
       /\ \A f \in schema[s] : ~IsNull(document[s].fields[f])

-----------------------------------------------------------------------------
(* The reference: the last layer that speaks of a field decides it. *)

Speaks(layer, s, f) ==
  s \in DOMAIN layer /\ (IsMapping(layer[s]) => f \in DOMAIN layer[s].fields)

\* What a layer makes of a field that it speaks of: a value, or its absence.
Says(layer, s, f) == IF IsMapping(layer[s]) THEN layer[s].fields[f] ELSE Null

LastWord(layers, s, f) ==
  LET speakers == {k \in DOMAIN layers : Speaks(layers[k], s, f)} IN
  IF speakers = {} THEN Null ELSE Says(layers[Max(speakers)], s, f)

FieldOf(document, s, f) ==
  IF s \in DOMAIN document /\ Speaks(document, s, f) THEN Says(document, s, f) ELSE Null

\* A null that stands for a section, or that meets an earlier file of the chain,
\* is gone before the chain meets the defaults.
ForgetsDeletion(chain, s, f) ==
  /\ IsNull(LastWord(chain, s, f))
  /\ Len(chain) > 1 \/ \E k \in DOMAIN chain : s \in DOMAIN chain[k] /\ IsNull(chain[k][s])
=============================================================================
