---------------------------- MODULE SemanticGraph ----------------------------
(***************************************************************************)
(* The semantic project graph: metadata documents of several translation   *)
(* units are read back, checked and joined                                 *)
(* (src/Compiler/semantic_metadata_json_reader.c,                          *)
(* src/Compiler/semantic_project_graph.c).  An operation that may fail     *)
(* returns Failed.  Paths are numbers, in the order of their spelling.     *)
(***************************************************************************)
EXTENDS SemanticMetadata

Failed == [type |-> "failed"]

Identity(r) == make_source_identity(r.path, r.kind, r.loc, r.name, r.id)

parse_record(r, path) ==
  /\ r.path = path
  /\ r.id # None => r.id \in CanonicalNames
  /\ r.identity = Identity(r)
  /\ r.domain \in Domains \cup {None}
  /\ r.role \in Roles \cup {None}

parse_edge(e) ==
  /\ e.target \in CanonicalNames
  /\ e.target_index = 0 <=> e.resolution = "external"

(***************************************************************************)
(* Two records of one artifact may not share an identity; the check looks  *)
(* at neighbours in the order of their places.  An index is carried over   *)
(* the sort by the identity it pointed to, to the last record that has it. *)
(***************************************************************************)
EdgesWellIndexed(records, edges) ==
  \A e \in Range(edges) :
    /\ e.source \in DOMAIN records
    /\ e.target_index # 0 =>
         e.target_index \in DOMAIN records
           /\ records[e.target_index].id = e.target

LastWithIdentity(records, identity) ==
  SelectLastInSeq(records, LAMBDA r : r.identity = identity)

\* Faulty variant: the edges keep the numbers their records had before the sort.
canonicalize_indices_stale(doc) ==
  IF EdgesWellIndexed(doc.records, doc.edges)
  THEN [doc EXCEPT !.records = SortSeq(@, LAMBDA a, b : a.loc < b.loc)]
  ELSE Failed

canonicalize_indices(doc) ==
  LET sorted == SortSeq(doc.records, LAMBDA a, b : a.loc < b.loc)
      Moved(i) == LastWithIdentity(sorted, doc.records[i].identity)
      edges == [e \in DOMAIN doc.edges |->
                  [doc.edges[e] EXCEPT
                     !.source = Moved(@),
                     !.target_index = IF @ = 0 THEN 0 ELSE Moved(@)]]
      Key(e) == <<edges[e].source, edges[e].kind, edges[e].target>> IN
  IF /\ EdgesWellIndexed(doc.records, doc.edges)
     /\ \A i \in 1 .. Len(sorted) - 1 : sorted[i].identity # sorted[i + 1].identity
     /\ \A e \in Range(edges) : e.target_index = 0 =>
          \A r \in Range(sorted) : r.id # e.target
     /\ \A e, f \in DOMAIN edges : e # f => Key(e) # Key(f)
  THEN [type |-> "metadata", path |-> doc.path, text |-> doc.text, complete |-> TRUE,
        records |-> sorted, edges |-> edges]
  ELSE Failed

\* bytes is what could be read of the source: nothing, or one text.  It must be
\* the text the receipt was made from.
verify_source(doc, bytes) == doc.text \in bytes

\* Faulty variant: the source is not verified.
fisics_semantic_metadata_artifact_load_unverified(doc, bytes) ==
  IF doc.type = "metadata" /\ doc.complete THEN canonicalize_indices(doc) ELSE Failed

fisics_semantic_metadata_artifact_load(doc, bytes) ==
  IF /\ doc.type = "metadata"
     /\ doc.complete
     /\ \A r \in Range(doc.records) : parse_record(r, doc.path)
     /\ \A e \in Range(doc.edges) : parse_edge(e)
     /\ verify_source(doc, bytes)
  THEN canonicalize_indices(doc)
  ELSE Failed

(***************************************************************************)
(* The join of the loaded artifacts.                                       *)
(***************************************************************************)
ProjectRecords(units) ==
  LET Numbered(u) == [r \in DOMAIN units[u].records |->
                        [unit |-> u, local |-> r] @@ units[u].records[r]]
      all == FlattenSeq([u \in DOMAIN units |-> Numbered(u)]) IN
  SortSeq(all, LAMBDA a, b : \/ a.path < b.path
                             \/ a.path = b.path /\ a.loc < b.loc)

find_origin_record(records, unit, local) ==
  SelectInSeq(records, LAMBDA r : r.unit = unit /\ r.local = local)

find_authored_record(records, id) == find_authored_id_index(records, id)

ProjectEdges(units, records, externals) ==
  UNION {{[source |-> find_origin_record(records, u, e.source), kind |-> e.kind,
           target |-> e.target, path |-> units[u].path, loc |-> e.loc,
           target_index |-> find_authored_record(records, e.target),
           resolution |-> IF find_authored_record(records, e.target) # 0 THEN "resolved"
                          ELSE IF e.target \in externals THEN "external"
                          ELSE "missing"] :
            e \in Range(units[u].edges)} : u \in DOMAIN units}

Repeated(values) == \E i, j \in DOMAIN values : i # j /\ values[i] = values[j]

DuplicateField(records, field) == Repeated([i \in DOMAIN records |-> records[i][field]])

\* The documents by path.  Which of two of one path comes first never matters: both
\* builds refuse them.
PathRank(docs, i) ==
  Cardinality({j \in DOMAIN docs :
                 \/ docs[j].path < docs[i].path
                 \/ docs[j].path = docs[i].path /\ j <= i})

SortByPath(docs) ==
  [k \in DOMAIN docs |-> docs[CHOOSE i \in DOMAIN docs : PathRank(docs, i) = k]]

SemanticDocument(units, externals, records, edges) ==
  [type |-> "semantic_graph",
   sources |-> [u \in DOMAIN units |-> [path |-> units[u].path, text |-> units[u].text]],
   externals |-> externals, records |-> records, edges |-> edges]

\* Two units of one path, records that cannot be told apart, or an edge to nowhere.
JoinConflict(units, records, edges) ==
  \/ \E i \in 1 .. Len(units) - 1 : units[i].path = units[i + 1].path
  \/ DuplicateField(SelectSeq(records, LAMBDA r : r.id # None), "id")
  \/ DuplicateField(records, "identity")
  \/ \E e \in edges : e.resolution = "missing"

fisics_semantic_project_graph_build(artifacts, externals) ==
  LET units == SortByPath(artifacts)
      records == ProjectRecords(units)
      edges == ProjectEdges(units, records, externals) IN
  IF JoinConflict(units, records, edges) THEN Failed
  ELSE SemanticDocument(units, externals, records, edges)
=============================================================================
