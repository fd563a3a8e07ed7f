---------------------------- MODULE PhysicalGraph ----------------------------
(***************************************************************************)
(* The physical project graph: contract catalogs and units documents are   *)
(* joined with a semantic project graph                                    *)
(* (src/Compiler/physical_contract_catalog.c,                              *)
(* src/Compiler/physical_project_graph.c).                                 *)
(*                                                                         *)
(* A catalog has kinds, a sequence of [id, dim, vector] (vector is the     *)
(* dimension the eight exponents spell), and contracts, a sequence of      *)
(* [id, subject_kind, subject, kind, policy, unit, form, reference,        *)
(* reference_subject, frame].                                              *)
(***************************************************************************)
EXTENDS SemanticGraph, Integers

catalog_kind_valid(q) == q.id \in CanonicalNames /\ q.dim = q.vector

reference_valid(c) ==
  /\ c.reference \in {"linear", "absolute", "difference", "relative", "cyclic"}
  /\ IF c.reference = "relative" THEN c.reference_subject \in CanonicalNames
     ELSE c.reference_subject = None

\* Component counts and shapes are left out.
value_form_valid(form) == form \in {"scalar", "vector", "tensor", "opaque"}

catalog_contract_valid(c) ==
  /\ {c.id, c.kind} \subseteq CanonicalNames
  /\ c.subject_kind = "semantic_id" => c.subject \in {<<n>> : n \in CanonicalNames}
  /\ c.policy = "dimension_only" => c.unit = None
  /\ c.policy \in {"exact_unit", "convertible_unit"} => c.unit \in DOMAIN Units
  /\ value_form_valid(c.form)
  /\ reference_valid(c)
  /\ c.frame # None => c.frame \in CanonicalNames

fisics_physical_catalog_append(acc, catalog) ==
  IF /\ acc # Failed
     /\ \A q \in Range(catalog.kinds) : catalog_kind_valid(q)
     /\ \A c \in Range(catalog.contracts) : catalog_contract_valid(c)
  THEN [type |-> "catalogs", kinds |-> acc.kinds \o catalog.kinds,
        contracts |-> acc.contracts \o catalog.contracts]
  ELSE Failed

\* Equal ids must be equal kinds, and one of them is kept.
fisics_physical_catalog_canonicalize(kinds) ==
  \A q, r \in Range(kinds) : q.id = r.id => q = r

fisics_physical_catalog_find(kinds, id) == {q \in kinds : q.id = id}

fisics_physical_catalog_unique_contracts(contracts) ==
  /\ ~DuplicateField(contracts, "id")
  /\ ~Repeated([i \in DOMAIN contracts |-> <<contracts[i].subject_kind, contracts[i].subject>>])

(***************************************************************************)
(* The semantic graph is read back: its indices must be in range, but it   *)
(* is not verified against the sources, which the units documents are.     *)
(***************************************************************************)
parse_semantic_graph(doc) ==
  IF /\ doc.type = "semantic_graph"
     /\ doc.sources # <<>>
     /\ doc.externals \subseteq CanonicalNames
     /\ \A e \in doc.edges : /\ e.source \in DOMAIN doc.records
                            /\ e.kind \in Relationship
                            /\ e.target \in CanonicalNames
  THEN doc ELSE Failed

verify_units_source(doc, bytes) == doc.text \in bytes

(***************************************************************************)
(* A units document is read, its source verified, and each attachment must *)
(* agree with the registry of this build.                                  *)
(***************************************************************************)
parse_units_artifact(doc, bytes) ==
  IF /\ doc.type = "units"
     /\ doc.complete
     /\ verify_units_source(doc, bytes)
     /\ \A a \in Range(doc.attachments) :
          /\ a.path = doc.path
          /\ a.unit # None => a.unit \in DOMAIN Units /\ Units[a.unit].dim = a.dim
  THEN doc ELSE Failed

binding_id(a) == <<a.path, a.loc, a.name>>

\* The first record at the binding's place takes the binding.
join_bindings(records, attachments) ==
  [b \in DOMAIN attachments |->
     SelectInSeq(records, LAMBDA r : binding_id(r) = binding_id(attachments[b]))]

external_exists(sem, id) == id \in sem.externals

record_for_subject(sem, subject_kind, subject) ==
  SelectInSeq(sem.records, LAMBDA r :
    IF subject_kind = "semantic_id" THEN <<r.id>> = subject
    ELSE r.identity = subject)

identity_exists(sem, id) ==
  record_for_subject(sem, "semantic_id", <<id>>) # 0 \/ external_exists(sem, id)

make_conversion(c, a) ==
  LET from == Units[a.unit]
      to == Units[c.unit]
      offset == IF c.reference = "difference" THEN 0 ELSE from.offset - to.offset IN
  [from |-> from.scale, to |-> to.scale, offset |-> offset,
   model |-> IF offset = 0 THEN "linear" ELSE "affine"]

NoConversion == [from |-> 1, to |-> 1, offset |-> 0, model |-> None]

(***************************************************************************)
(* The state a contract reaches, or Failed; bindings are the ones joined   *)
(* to its record.                                                          *)
(***************************************************************************)
EvidenceAgrees(c, q, a) ==
  /\ a.dim = q.dim
  /\ c.policy # "dimension_only" =>
       /\ a.unit # None
       /\ Units[c.unit].dim = q.dim
       /\ c.policy = "exact_unit" => a.unit = c.unit
       /\ c.policy = "convertible_unit" => Units[a.unit].family = Units[c.unit].family

Validated(c, state, record, binding, conversion) ==
  [type |-> "contract", id |-> c.id, contract |-> c, state |-> state,
   record |-> record, binding |-> binding, conversion |-> conversion]

check_binding(c, record, binding, quantity, a) ==
  IF ~EvidenceAgrees(c, quantity, a) THEN Failed
  ELSE Validated(c, "source_compatible", record, binding,
         IF c.policy = "convertible_unit" THEN make_conversion(c, a) ELSE NoConversion)

check_source(c, record, bindings, quantity, attachments, evidence) ==
  IF Cardinality(bindings) > 1 THEN Failed
  ELSE IF bindings = {}
  THEN IF evidence = "require_for_source_contracts" THEN Failed
       ELSE Validated(c, "source_unverified", record, 0, NoConversion)
  ELSE check_binding(c, record, CHOOSE b \in bindings : TRUE, quantity,
                     attachments[CHOOSE b \in bindings : TRUE])

check_external(sem, c) ==
  IF c.subject_kind = "semantic_id" /\ external_exists(sem, c.subject[1])
  THEN Validated(c, "external_declared", 0, 0, NoConversion) ELSE Failed

check_contract(sem, c, record, quantities, attachments, joined, evidence) ==
  IF \/ quantities = {}
     \/ c.frame # None /\ ~identity_exists(sem, c.frame)
     \/ c.reference_subject # None /\ ~identity_exists(sem, c.reference_subject)
  THEN Failed
  ELSE IF record = 0 THEN check_external(sem, c)
  ELSE check_source(c, record, {b \in DOMAIN joined : joined[b] = record},
                    CHOOSE q \in quantities : TRUE, attachments, evidence)

validate_contract(sem, kinds, attachments, joined, evidence, c) ==
  check_contract(sem, c, record_for_subject(sem, c.subject_kind, c.subject),
                 fisics_physical_catalog_find(kinds, c.kind), attachments, joined,
                 evidence)

validate_contracts(sem, kinds, attachments, joined, evidence, contracts) ==
  {validate_contract(sem, kinds, attachments, joined, evidence, c) :
     c \in Range(contracts)}

contract_for_target(contracts, target) ==
  {c.id : c \in {d \in contracts : /\ d.contract.subject_kind = "semantic_id"
                                   /\ d.contract.subject = <<target>>}}

apply_coverage(sem, contracts, coverage) ==
  LET uncovered == {e \in sem.edges : contract_for_target(contracts, e.target) = {}}
      bare == {r \in Range(sem.records) :
                 r.id # None /\ contract_for_target(contracts, r.id) = {}} IN
  /\ coverage # "allow_partial" => uncovered = {}
  /\ coverage = "require_all_authored_records" => bare = {}

(***************************************************************************)
(* The build.  Each units document must be of a translation unit of the    *)
(* semantic graph at the same text.                                        *)
(***************************************************************************)
\* Faulty variant: the path of a receipt is compared but not the text.
ReceiptsMatch_pathOnly(units, sources) ==
  {u.path : u \in Range(units)} = {s.path : s \in Range(sources)}

ReceiptsMatch(units, sources) ==
  /\ Len(units) = Len(sources)
  /\ \A u \in Range(units) :
       \E s \in Range(sources) : s.path = u.path /\ s.text = u.text
  /\ ~DuplicateField(units, "path")

Attachments(units) ==
  SortSeq(FlattenSeq([u \in DOMAIN units |-> units[u].attachments]),
          LAMBDA a, b : \/ a.path < b.path
                        \/ a.path = b.path /\ a.loc < b.loc)

GraphOf(sem, units, kinds, attachments, joined, contracts, coverage) ==
  IF Failed \in contracts \/ ~apply_coverage(sem, contracts, coverage) THEN Failed
  ELSE [type |-> "physical_graph",
        sources |-> SortByPath([u \in DOMAIN units |->
                                  [path |-> units[u].path, text |-> units[u].text]]),
        kinds |-> kinds, contracts |-> contracts, attachments |-> attachments,
        joined |-> joined,
        targets |-> [e \in sem.edges |-> contract_for_target(contracts, e.target)]]

validate_join(sem, units, kinds, contracts, attachments, joined, coverage, evidence) ==
  GraphOf(sem, units, kinds, attachments, joined,
          validate_contracts(sem, kinds, attachments, joined, evidence, contracts),
          coverage)

join_catalogs(sem, units, attachments, loaded, coverage, evidence) ==
  IF /\ \A i \in 1 .. Len(attachments) - 1 :
          binding_id(attachments[i]) # binding_id(attachments[i + 1])
     /\ loaded # Failed
     /\ fisics_physical_catalog_canonicalize(loaded.kinds)
     /\ fisics_physical_catalog_unique_contracts(loaded.contracts)
  THEN validate_join(sem, units, Range(loaded.kinds), loaded.contracts, attachments,
                     join_bindings(sem.records, attachments), coverage, evidence)
  ELSE Failed

LoadedCatalogs(catalogs) ==
  FoldLeft(fisics_physical_catalog_append,
           [type |-> "catalogs", kinds |-> <<>>, contracts |-> <<>>], catalogs)

fisics_physical_project_graph_build(sem, units, catalogs, coverage, evidence) ==
  IF sem.type # "semantic_graph" \/ ~ReceiptsMatch(units, sem.sources) THEN Failed
  ELSE join_catalogs(sem, units, Attachments(units), LoadedCatalogs(catalogs), coverage,
                     evidence)
=============================================================================
