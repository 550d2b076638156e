---------------------------- MODULE ToolSchemas ----------------------------
(***************************************************************************)
(* The schema of a tool's arguments: Codex gets one without variants       *)
(* (sanitizeSchema), and the arguments it answers with are stripped of     *)
(* empty optional ones by that schema (finalToolArgs).  A schema names the *)
(* required properties of its own and those of its branches, of which      *)
(* neither the order nor the number counts.  Only the outermost object is  *)
(* modelled: in an object inside it nothing is merged (mergeMaps takes what*)
(* the last branch gives, its required names among it), so nothing is said *)
(* of what is removed there.                                               *)
(***************************************************************************)

Keys == {"a", "b"}

\* A branch may be of another type than object.
Branches == [object : BOOLEAN, required : SUBSET Keys]

SomeBranches == {{}} \cup {{b, c} : b, c \in Branches}

Halves == [required : SUBSET Keys, allOf : {{}} \cup {{b} : b \in Branches}, oneOf : SomeBranches]

WithAnyOf(half, any) == [required |-> half.required, allOf |-> half.allOf, oneOf |-> half.oneOf, anyOf |-> any]

SchemaBranches(branches) == {b \in branches : b.object}

\* mergeAllOf: what any of the branches requires
MergeAllOf(required, branches) == required \cup UNION {b.required : b \in SchemaBranches(branches)}

\* (variant) a variant's requirements are those of all
MergeVariantOfAll(required, branches) == MergeAllOf(required, branches)

\* mergeVariantOf: what all of the branches require
MergeVariantOf(required, branches) ==
  LET kept == SchemaBranches(branches) IN
  IF kept = {} THEN required
  ELSE required \cup {name \in UNION {b.required : b \in kept} : \A b \in kept : name \in b.required}

\* sanitizeSchema
Required(schema) ==
  MergeVariantOf(MergeVariantOf(MergeAllOf(schema.required, schema.allOf), schema.oneOf), schema.anyOf)

\* Arguments have a value for some of the names; "" stands for null as well.
Arguments == UNION {[names -> {"", "x"}] : names \in SUBSET Keys}

PruneEmptyOptionalToolArgs(args, schema) ==
  [name \in {n \in DOMAIN args : n \in Required(schema) \/ args[n] # ""} |-> args[name]]

-----------------------------------------------------------------------------
\* What an object with these names must be, if it has to be of one of these.
OfOne(branches, names) ==
  branches # {} => \E b \in branches : b.object /\ b.required \subseteq names

\* The names that a schema lets an object have.
Accepts(schema, names) ==
  /\ schema.required \subseteq names
  /\ \A b \in schema.allOf : b.object /\ b.required \subseteq names
  /\ OfOne(schema.oneOf, names) /\ OfOne(schema.anyOf, names)

Accepted(schema) == {names \in SUBSET Keys : Accepts(schema, names)}

\* Exactly the empty arguments that some valid object does without are removed.
ExactlyNeeded(schema) ==
  LET needed == {n \in Keys : \A names \in Accepted(schema) : n \in names} IN
  \A args \in Arguments :
    DOMAIN PruneEmptyOptionalToolArgs(args, schema) = {n \in DOMAIN args : n \in needed \/ args[n] # ""}

\* For a tool with variants, an edit that deletes text, whose new text is
\* required and empty, keeps it; what it may leave away is left away.
NeededSurvive(half) ==
  \A any \in SomeBranches :
    LET schema == WithAnyOf(half, any) IN Accepted(schema) # {} => ExactlyNeeded(schema)
=============================================================================
