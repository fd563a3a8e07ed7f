-------------------------- MODULE SemanticMetadata --------------------------
(***************************************************************************)
(* Semantic metadata and units annotations of one translation unit: the    *)
(* attributes [[fisics::id/domain/role/produces/consumes/dim/unit]] of a   *)
(* source text are collected, merged over redeclarations, validated and    *)
(* projected to the two documents the compiler exports                     *)
(* (src/Extensions/SemanticMetadata, src/Extensions/extension_hooks.c,     *)
(* src/Compiler/pipeline_artifacts_*.c, src/Compiler/*_metadata_json.c).   *)
(*                                                                         *)
(* A text is a sequence of declarations, and a declaration's place in it   *)
(* stands for its source range.  kind is "function", "variable" (a single  *)
(* declarator at file scope) or "local" (any other variable declaration);  *)
(* attrs is the sequence of <<attribute, value>> as written.  A symbol's   *)
(* stable id is left out: in one translation unit it is determined by the  *)
(* name, which every comparison of it is paired with.  Exporting requires  *)
(* the overlay, so the overlay is on.                                      *)
(***************************************************************************)
EXTENDS Naturals, Sequences, SequencesExt, FiniteSets

CONSTANTS CanonicalNames,   \* the authored values that are canonical names
          Domains, Roles,   \* the registered domains and roles
          Dimensions,       \* the dimension texts that parse
          Units             \* unit name -> [dim, family, scale, offset]

None == "none"

Singular == {"id", "domain", "role"}
Relationship == {"produces", "consumes"}
MetadataKinds == Singular \cup Relationship

(***************************************************************************)
(* Collection on one owner.                                                *)
(***************************************************************************)
value_valid(kind, value) ==
  /\ value \in CanonicalNames
  /\ kind = "domain" => value \in Domains
  /\ kind = "role" => value \in Roles

collect_singular(owner, kind, value, valid) ==
  [owner EXCEPT !.counts[kind] = @ + 1, !.error = @ \/ ~valid,
                !.values[kind] = IF valid /\ @ = None THEN value ELSE @]

collect_relationship(owner, attr, valid) ==
  IF valid /\ ~Contains(owner.relationships, attr)
  THEN [owner EXCEPT !.relationships = Append(@, attr)]
  ELSE [owner EXCEPT !.error = TRUE]

collect_attribute(owner, attr) ==
  CASE attr[1] \notin MetadataKinds -> owner
    [] attr[1] \in Singular ->
         collect_singular(owner, attr[1], attr[2], value_valid(attr[1], attr[2]))
    [] attr[1] \in Relationship ->
         collect_relationship(owner, attr, value_valid(attr[1], attr[2]))

\* A singular attribute given twice counts as not given.
drop_repeated(owner) ==
  [values |-> [k \in Singular |-> IF owner.counts[k] > 1 THEN None ELSE owner.values[k]],
   relationships |-> owner.relationships,
   error |-> owner.error \/ \E k \in Singular : owner.counts[k] > 1]

collect_owner_metadata(attrs) ==
  drop_repeated(FoldLeft(collect_attribute,
    [values |-> [k \in Singular |-> None], counts |-> [k \in Singular |-> 0],
     relationships |-> <<>>, error |-> FALSE], attrs))

(***************************************************************************)
(* Merging over the redeclarations of a symbol.  state.records holds one   *)
(* record per annotated symbol in order of first annotation, state.edges   *)
(* the relationships.                                                      *)
(***************************************************************************)
\* Faulty variant: a later redeclaration overrides an earlier one.
merge_field_lastWins(state, r, field, incoming) ==
  IF incoming = None THEN state
  ELSE [state EXCEPT !.records[r].values[field] = incoming]

merge_field(state, r, field, incoming) ==
  IF \/ incoming \in {None, state.records[r].values[field]}
     \/ field \in state.records[r].conflicted
  THEN state
  ELSE IF state.records[r].values[field] = None
  THEN [state EXCEPT !.records[r].values[field] = incoming]
  ELSE [state EXCEPT !.records[r].conflicted = @ \cup {field}, !.error = TRUE]

merge_relationship(state, name, loc, relationship) ==
  IF \E e \in Range(state.edges) :
       e.symbol = name /\ <<e.kind, e.target>> = relationship
  THEN state
  ELSE [state EXCEPT !.edges =
          Append(@, [symbol |-> name, kind |-> relationship[1],
                     target |-> relationship[2], loc |-> loc,
                     resolution |-> "external"])]

ensure_record(state, declaration, loc) ==
  IF \E r \in DOMAIN state.records : state.records[r].symbol = declaration.name
  THEN state
  ELSE [state EXCEPT !.records =
          Append(@, [symbol |-> declaration.name, kind |-> declaration.kind,
                     loc |-> loc, values |-> [k \in Singular |-> None],
                     conflicted |-> {}])]

merge_owner(state, name, loc, owner) ==
  LET r == SelectInSeq(state.records, LAMBDA x : x.symbol = name) IN
  FoldLeft(LAMBDA s, rel : merge_relationship(s, name, loc, rel),
           FoldLeft(LAMBDA s, field : merge_field(s, r, field, owner.values[field]),
                    state, <<"id", "domain", "role">>),
           owner.relationships)

note_owner(state, declaration, loc, owner) ==
  IF owner.relationships = <<>> /\ \A k \in Singular : owner.values[k] = None
  THEN state
  ELSE merge_owner(ensure_record(state, declaration, loc), declaration.name, loc, owner)

process_supported_owner(state, declaration, loc, owner) ==
  note_owner([state EXCEPT !.error = @ \/ owner.error], declaration, loc, owner)

has_metadata_attrs(declaration) ==
  \E a \in Range(declaration.attrs) : a[1] \in MetadataKinds

walk_node(state, declaration, loc) ==
  CASE ~has_metadata_attrs(declaration) -> state
    [] has_metadata_attrs(declaration) /\ declaration.kind = "local" ->
         [state EXCEPT !.error = TRUE]
    [] has_metadata_attrs(declaration) /\ declaration.kind # "local" ->
         process_supported_owner(state, declaration, loc,
                                 collect_owner_metadata(declaration.attrs))

(***************************************************************************)
(* The first earlier record with the same unconflicted id conflicts with a *)
(* record, and both lose it.                                               *)
(***************************************************************************)
HasId(record) == record.values["id"] # None /\ "id" \notin record.conflicted

mark_duplicate(state, i, earlier) ==
  IF ~HasId(state.records[i]) \/ earlier = 0 THEN state
  ELSE [state EXCEPT !.error = TRUE,
                     !.records[i].conflicted = @ \cup {"id"},
                     !.records[earlier].conflicted = @ \cup {"id"}]

validate_unique_ids(state) ==
  FoldLeft(LAMBDA s, i : mark_duplicate(s, i,
             SelectInSubSeq(s.records, 1, i - 1, LAMBDA b :
               HasId(b) /\ b.values["id"] = s.records[i].values["id"])),
           state, [i \in DOMAIN state.records |-> i])

resolve_relationship_targets(state) ==
  [state EXCEPT !.edges = [e \in DOMAIN @ |->
     [@[e] EXCEPT !.resolution =
        IF \E r \in Range(state.records) :
             HasId(r) /\ r.values["id"] = state.edges[e].target
        THEN "resolved" ELSE "external"]]]

fisics_semantic_metadata_run(text) ==
  resolve_relationship_targets(validate_unique_ids(
    FoldLeft(LAMBDA s, i : walk_node(s, text[i], i),
             [records |-> <<>>, edges |-> <<>>, error |-> FALSE],
             [i \in DOMAIN text |-> i])))

(***************************************************************************)
(* Units annotations.  Each declaration keeps its first dim and unit text  *)
(* and how often each was given; a repeated one stays unresolved.          *)
(***************************************************************************)
Values(declaration, kind) ==
  LET given == SelectSeq(declaration.attrs, LAMBDA a : a[1] = kind) IN
  [i \in DOMAIN given |-> given[i][2]]

resolve_annotation(dims) ==
  IF Len(dims) = 1 /\ dims[1] \in Dimensions THEN dims[1] ELSE None

resolve_unit_annotation(units, dim) ==
  IF Len(units) = 1 /\ dim # None /\ units[1] \in DOMAIN Units
     /\ Units[units[1]].dim = dim
  THEN units[1] ELSE None

annotation(dims, units, dim, unit) ==
  [dim |-> dim, unit |-> unit,
   error |-> (dims # <<>> /\ dim = None) \/ (units # <<>> /\ unit = None)]

resolve(dims, units) ==
  annotation(dims, units, resolve_annotation(dims),
             resolve_unit_annotation(units, resolve_annotation(dims)))

run_units_decl_scaffold(text) ==
  [i \in DOMAIN text |-> resolve(Values(text[i], "dim"), Values(text[i], "unit"))]

(***************************************************************************)
(* Projection to the exported documents.  A record's identity is its       *)
(* authored id, or else its kind, place and name.  text_id is the receipt: *)
(* the length and hash of the bytes that were analysed.                    *)
(***************************************************************************)
Kept(record, field) ==
  IF field \in record.conflicted THEN None ELSE record.values[field]

make_source_identity(path, kind, loc, name, id) ==
  IF id # None THEN <<id>> ELSE <<kind, path, loc, name>>

project_record(path, record, id) ==
  [identity |-> make_source_identity(path, record.kind, record.loc,
                                     record.symbol, id),
   id |-> id, name |-> record.symbol, kind |-> record.kind, path |-> path,
   loc |-> record.loc,
   domain |-> Kept(record, "domain"), role |-> Kept(record, "role")]

\* The index of the first element that satisfies a test, 0 if there is none.
find_record_index(records, name) ==
  SelectInSeq(records, LAMBDA r : r.name = name)

find_authored_id_index(records, id) == SelectInSeq(records, LAMBDA r : r.id = id)

project_edge(records, edge) ==
  [source |-> find_record_index(records, edge.symbol), kind |-> edge.kind,
   target |-> edge.target, resolution |-> edge.resolution,
   target_index |-> IF edge.resolution = "resolved"
                    THEN find_authored_id_index(records, edge.target) ELSE 0,
   loc |-> edge.loc]

MetadataDocument(path, text_id, records, edges) ==
  [type |-> "metadata", path |-> path, text |-> text_id, complete |-> TRUE,
   records |-> records,
   edges |-> [e \in DOMAIN edges |-> project_edge(records, edges[e])]]

collect_semantic_metadata_projection(path, text_id, state) ==
  MetadataDocument(path, text_id,
    SortSeq([r \in DOMAIN state.records |->
               project_record(path, state.records[r], Kept(state.records[r], "id"))],
            LAMBDA a, b : a.loc < b.loc),
    state.edges)

UnitsDocument(path, text_id, text, annotations, resolved) ==
  [type |-> "units", path |-> path, text |-> text_id, complete |-> TRUE,
   attachments |-> [k \in DOMAIN resolved |->
     [path |-> path, loc |-> resolved[k], name |-> text[resolved[k]].name,
      dim |-> annotations[resolved[k]].dim, unit |-> annotations[resolved[k]].unit]]]

collect_units_attachments(path, text_id, text, annotations) ==
  UnitsDocument(path, text_id, text, annotations,
    SelectSeq([i \in DOMAIN text |-> i], LAMBDA i :
      annotations[i].dim # None /\ text[i].kind # "function"))

(***************************************************************************)
(* One compilation: both documents come from the bytes that were read, and *)
(* none is made when an error was reported.                                *)
(***************************************************************************)
Exports(path, text_id, text, state, annotations) ==
  [error |-> state.error \/ \E i \in DOMAIN text : annotations[i].error,
   metadata |-> collect_semantic_metadata_projection(path, text_id, state),
   units |-> collect_units_attachments(path, text_id, text, annotations)]

compile_translation_unit(path, text_id, text) ==
  Exports(path, text_id, text, fisics_semantic_metadata_run(text),
          run_units_decl_scaffold(text))
=============================================================================
