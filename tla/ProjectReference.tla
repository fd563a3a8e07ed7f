--------------------------- MODULE ProjectReference ---------------------------
(***************************************************************************)
(* What the exported documents and the graphs should say, as relations     *)
(* over the texts, catalogs and topology they come from: no passes, no     *)
(* sorting, no indices and no "first" or "earlier" anything.               *)
(***************************************************************************)
EXTENDS ProjectGraphs

(***************************************************************************)
(* A text and its annotations.                                             *)
(***************************************************************************)
Given(text, n, k) ==
  {a[2] : a \in UNION {{b \in Range(text[i].attrs) : b[1] = k} :
                         i \in {j \in DOMAIN text : text[j].name = n}}}

AtMostOnce(attrs, kinds) ==
  \A i, j \in DOMAIN attrs : i # j /\ attrs[i][1] \in kinds => attrs[i][1] # attrs[j][1]

CleanDeclaration(d) ==
  LET attrs == Range(d.attrs) IN
  /\ \A a \in attrs : a[1] \in MetadataKinds =>
       d.kind # "local" /\ value_valid(a[1], a[2])
  /\ AtMostOnce(d.attrs, {"id", "domain", "role", "dim", "unit"})
  /\ \A i, j \in DOMAIN d.attrs :
       i # j /\ d.attrs[i][1] \in Relationship => d.attrs[i] # d.attrs[j]
  /\ \A a \in attrs : a[1] = "dim" => a[2] \in Dimensions
  /\ \A a \in attrs : a[1] = "unit" =>
       a[2] \in DOMAIN Units /\ <<"dim", Units[a[2]].dim>> \in attrs

Names(text) == {d.name : d \in Range(text)}

Clean(text) ==
  /\ \A d \in Range(text) : CleanDeclaration(d)
  /\ \A n \in Names(text), k \in Singular : Cardinality(Given(text, n, k)) <= 1
  /\ \A n, m \in Names(text) :
       n # m => Given(text, n, "id") \cap Given(text, m, "id") = {}

Sole(set) == IF set = {} THEN None ELSE CHOOSE x \in set : TRUE

\* The first declaration of a symbol that carries metadata.
Place(text, n) ==
  LET annotated == {i \in DOMAIN text : text[i].name = n /\ has_metadata_attrs(text[i])} IN
  CHOOSE i \in annotated : \A j \in annotated : i <= j

Annotated(text) == {n \in Names(text) : \E k \in MetadataKinds : Given(text, n, k) # {}}

RecordOf(path, text, n) ==
  LET id == Sole(Given(text, n, "id"))
      loc == Place(text, n) IN
  [identity |-> IF id # None THEN <<id>> ELSE <<text[loc].kind, path, loc, n>>,
   id |-> id, name |-> n, kind |-> text[loc].kind, path |-> path, loc |-> loc,
   domain |-> Sole(Given(text, n, "domain")), role |-> Sole(Given(text, n, "role"))]

Content(path, text) ==
  [records |-> {RecordOf(path, text, n) : n \in Annotated(text)},
   edges |-> UNION {{[source |-> RecordOf(path, text, n).identity, kind |-> k,
                      target |-> target] : target \in Given(text, n, k)} :
                    n \in Annotated(text), k \in Relationship}]

Authored(content) == {r.id : r \in content.records} \ {None}

UnitsContent(path, text) ==
  {[path |-> path, loc |-> i, name |-> text[i].name,
    dim |-> Sole({a[2] : a \in {b \in Range(text[i].attrs) : b[1] = "dim"}}),
    unit |-> Sole({a[2] : a \in {b \in Range(text[i].attrs) : b[1] = "unit"}})] :
     i \in {j \in DOMAIN text : text[j].kind # "function"
                                 /\ \E a \in Range(text[j].attrs) : a[1] = "dim"}}

(***************************************************************************)
(* A document or graph read as a set of records and of edges between them. *)
(***************************************************************************)
ContentOf(doc) ==
  [records |-> Range(doc.records),
   edges |-> {[source |-> doc.records[e.source].identity, kind |-> e.kind,
               target |-> e.target] : e \in Range(doc.edges)}]

TargetsSound(records, edges) ==
  \A e \in edges :
    IF e.resolution = "resolved" THEN records[e.target_index].id = e.target
    ELSE \A r \in Range(records) : r.id # e.target

MetadataOf(doc, path, text) ==
  /\ doc.path = path
  /\ Cardinality(Range(doc.records)) = Len(doc.records)
  /\ ContentOf(doc) = Content(path, text)
  /\ TargetsSound(doc.records, Range(doc.edges))

UnitsOf(doc, path, text) ==
  /\ doc.path = path
  /\ Cardinality(Range(doc.attachments)) = Len(doc.attachments)
  /\ Range(doc.attachments) = UnitsContent(path, text)

(***************************************************************************)
(* Documents that no compilation wrote.                                    *)
(***************************************************************************)
IllFormed(doc) ==
  \/ ~doc.complete
  \/ \E i, j \in DOMAIN doc.records :
       i # j /\ doc.records[i].identity = doc.records[j].identity
  \/ \E r \in Range(doc.records) :
       IF r.id = None THEN r.identity # <<r.kind, r.path, r.loc, r.name>>
       ELSE r.identity # <<r.id>>
  \/ \E e \in Range(doc.edges) : e.source \notin DOMAIN doc.records
  \/ \E e \in Range(doc.edges) :
       IF e.resolution = "resolved"
       THEN ~\E i \in DOMAIN doc.records :
              i = e.target_index /\ doc.records[i].id = e.target
       ELSE \E r \in Range(doc.records) : r.id = e.target
  \/ \E i, j \in DOMAIN doc.edges :
       /\ i # j /\ doc.edges[i].source = doc.edges[j].source
       /\ doc.edges[i].kind = doc.edges[j].kind
       /\ doc.edges[i].target = doc.edges[j].target

IllFormedGraph(doc) ==
  \/ doc.type = "semantic_graph" /\ doc.sources = <<>>
  \/ doc.type = "semantic_graph" /\
       \E e \in doc.edges : e.source \notin DOMAIN doc.records

(***************************************************************************)
(* The semantic graph of a set of documents' contents.                     *)
(***************************************************************************)
Joined(contents) ==
  [records |-> UNION {c.records : c \in contents},
   edges |-> UNION {c.edges : c \in contents}]

Joinable(contents, externals) ==
  LET all == Joined(contents) IN
  /\ \A r, s \in all.records : r # s => r.identity # s.identity
  /\ \A r, s \in all.records : r # s /\ r.id # None => r.id # s.id
  /\ \A e \in all.edges : e.target \in Authored(all) \cup externals

SemanticGraphOf(graph, contents, externals) ==
  /\ Joinable(contents, externals)
  /\ Len(graph.records) = Cardinality(Joined(contents).records)
  /\ {[f \in DOMAIN r \ {"unit", "local"} |-> r[f]] : r \in Range(graph.records)}
       = Joined(contents).records
  /\ {[source |-> graph.records[e.source].identity, kind |-> e.kind,
       target |-> e.target] : e \in graph.edges} = Joined(contents).edges
  /\ TargetsSound(graph.records, graph.edges)

-------------------------------------------------------------------------------
(***************************************************************************)
(* What the physical and the hardware project graph should say.            *)
(***************************************************************************)
(***************************************************************************)
(* The physical graph of the texts T (path -> text) and the catalogs.      *)
(***************************************************************************)
ContentsOf(T) == {Content(p, Texts[T[p]]) : p \in DOMAIN T}

Places(catalogs, part) ==
  UNION {{<<k, i>> : i \in DOMAIN catalogs[k][part]} : k \in DOMAIN catalogs}

Kinds(catalogs) == UNION {Range(c.kinds) : c \in Range(catalogs)}
Contracts(catalogs) == UNION {Range(c.contracts) : c \in Range(catalogs)}

CatalogsConsistent(catalogs) ==
  LET At(x) == catalogs[x[1]].contracts[x[2]] IN
  /\ \A q \in Kinds(catalogs) : catalog_kind_valid(q)
  /\ \A c \in Contracts(catalogs) : catalog_contract_valid(c)
  /\ \A q, r \in Kinds(catalogs) : q.id = r.id => q = r
  /\ \A x, y \in Places(catalogs, "contracts") : x # y =>
       /\ At(x).id # At(y).id
       /\ <<At(x).subject_kind, At(x).subject>> # <<At(y).subject_kind, At(y).subject>>

Subjects(all, c) ==
  {r \in all.records : IF c.subject_kind = "semantic_id"
                       THEN r.id # None /\ <<r.id>> = c.subject
                       ELSE r.identity = c.subject}

\* What the source text says of the declaration a record stands for.
Evidence(T, r) ==
  {a \in UnitsContent(r.path, Texts[T[r.path]]) : a.loc = r.loc}

\* w units of the contract are v units of the source when both name the same
\* quantity: v * from.scale + from.offset = w * to.scale + to.offset.
SameQuantity(conversion, from, to, difference) ==
  \A v, w \in 0 .. 3 :
    v * conversion.from + conversion.offset = w * conversion.to
      <=> IF difference THEN v * from.scale = w * to.scale
          ELSE v * from.scale + from.offset = w * to.scale + to.offset

Agrees(c, q, a) ==
  /\ a.dim = q.dim
  /\ c.policy = "exact_unit" => a.unit = c.unit
  /\ c.policy = "convertible_unit" =>
       a.unit # None /\ Units[a.unit].family = Units[c.unit].family
  /\ c.policy # "dimension_only" => Units[c.unit].dim = q.dim

\* The state a contract must be given, or None if it must be refused.
ContractState(T, all, externals, kinds, evidence, c) ==
  LET named == {c.frame, c.reference_subject} \ {None}
      subjects == Subjects(all, c) IN
  IF \/ ~\E q \in kinds : q.id = c.kind
     \/ ~(named \subseteq Authored(all) \cup externals)
  THEN None
  ELSE IF subjects = {}
  THEN IF c.subject_kind = "semantic_id" /\ c.subject[1] \in externals
       THEN "external_declared" ELSE None
  ELSE IF Evidence(T, Sole(subjects)) = {}
  THEN IF evidence = "require_for_source_contracts" THEN None ELSE "source_unverified"
  ELSE IF \E q \in kinds : q.id = c.kind /\ Agrees(c, q, Sole(Evidence(T, Sole(subjects))))
  THEN "source_compatible" ELSE None

Covered(all, catalogs, coverage) ==
  LET covered == {c.subject[1] : c \in {d \in Contracts(catalogs) :
                                          d.subject_kind = "semantic_id"}} IN
  /\ coverage # "allow_partial" => \A e \in all.edges : e.target \in covered
  /\ coverage = "require_all_authored_records" => Authored(all) \subseteq covered

Composable(T, catalogs, externals, coverage, evidence) ==
  LET all == Joined(ContentsOf(T)) IN
  /\ CatalogsConsistent(catalogs)
  /\ \A c \in Contracts(catalogs) :
       ContractState(T, all, externals, Kinds(catalogs), evidence, c) # None
  /\ Covered(all, catalogs, coverage)

ContractOf(g, T, catalogs, externals, evidence) ==
  LET all == Joined(ContentsOf(T))
      c == g.contract IN
  /\ c \in Contracts(catalogs)
  /\ g.state = ContractState(T, all, externals, Kinds(catalogs), evidence, c)
  /\ g.state = "source_compatible" /\ c.policy = "convertible_unit" =>
       SameQuantity(g.conversion,
                    Units[Sole(Evidence(T, Sole(Subjects(all, c)))).unit],
                    Units[c.unit], c.reference = "difference")

PhysicalGraphOf(graph, T, catalogs, externals, coverage, evidence) ==
  /\ Composable(T, catalogs, externals, coverage, evidence)
  /\ {g.contract : g \in graph.contracts} = Contracts(catalogs)
  /\ \A g \in graph.contracts : ContractOf(g, T, catalogs, externals, evidence)

(***************************************************************************)
(* The hardware graph of catalogs, a topology and contracts.               *)
(***************************************************************************)
Items(catalogs) == UNION {Range(c.items) : c \in Range(catalogs)}

ComponentsConsistent(catalogs) ==
  /\ \A k, l \in DOMAIN catalogs : k # l => catalogs[k].id # catalogs[l].id
  /\ \A x \in Items(catalogs) : parse_item(x)
  /\ \A x, y \in Items(catalogs) : x.sort = y.sort /\ x.key = y.key =>
       canonical_definition(x) = canonical_definition(y)

Definitions(catalogs, sort, key) ==
  {canonical_definition(x) : x \in {y \in Items(catalogs) : y.sort = sort /\ y.key = key}}

With(things, id) == {x \in Range(things) : x.id = id}

\* Who holds an endpoint of a node: the buses it controls, the devices wired to it.
Holders(top, node, endpoint) ==
  {<<"bus", b.id>> : b \in {x \in Range(top.buses) :
                              x.owner = node /\ x.endpoint = endpoint}}
  \cup {<<"connection", c.id>> : c \in {x \in Range(top.connections) :
          /\ x.target_kind = "direct_endpoint" /\ x.target = endpoint
          /\ \E d \in With(top.devices, x.device) : d.owner = node}}

BusFits(top, K, b) ==
  \E n \in With(top.nodes, b.owner) :
  \E profile \in Definitions(K, "bus", b.profile) :
  \E board \in Definitions(K, "board", n.board) :
  \E e \in board.endpoints :
    /\ e.id = b.endpoint /\ profile.controller \in e.capabilities
    /\ e.allocation = "exclusive" => Cardinality(Holders(top, n.id, e.id)) = 1

DriverFits(K, d, model) ==
  /\ model.driver_policy = "required" => d.driver # None
  /\ model.driver_policy = "none" => d.driver = None
  /\ d.driver # None =>
       \E driver \in Definitions(K, "driver", d.driver) : d.model \in driver.models

Speaks(top, K, d, transport) ==
  \E c \in Range(top.connections) : c.device = d.id /\ c.target_kind = "bus" /\
    \E b \in With(top.buses, c.target) :
      \E profile \in Definitions(K, "bus", b.profile) : profile.transport = transport

DeviceFits(top, K, d) ==
  /\ With(top.nodes, d.owner) # {}
  /\ \E model \in Definitions(K, "model", d.model) : DriverFits(K, d, model)
  /\ \A driver \in Definitions(K, "driver", d.driver) :
       \A t \in driver.transports : Speaks(top, K, d, t)

Claimants(top, bus, claim) ==
  {c.id : c \in {x \in Range(top.connections) :
                   /\ x.target_kind = "bus" /\ x.target = bus
                   /\ claim \in Range(x.claims)}}

OnBus(top, K, c, d, port) ==
  \E b \in With(top.buses, c.target) :
  \E profile \in Definitions(K, "bus", b.profile) :
    /\ port.connection_kind = "bus_participant"
    /\ port.transport = profile.transport /\ port.capability = profile.participant
    /\ b.scope = "node_local" => b.owner = d.owner
    /\ {s.id : s \in {x \in profile.spaces : x.required}}
         \subseteq {claim.space : claim \in Range(c.claims)}
    /\ \A claim \in Range(c.claims) : \E s \in profile.spaces :
         /\ s.id = claim.space /\ s.value_kind = claim.value_kind
         /\ s.value_kind = "uint64_decimal" => claim.value \in s.minimum .. s.maximum
         /\ s.collision = "exclusive" =>
              Cardinality(Claimants(top, b.id, claim)) = 1

OnEndpoint(top, K, c, d, port) ==
  \E n \in With(top.nodes, d.owner) :
  \E board \in Definitions(K, "board", n.board) :
  \E e \in board.endpoints :
    /\ port.connection_kind = "direct_endpoint" /\ c.claims = <<>>
    /\ e.id = c.target /\ port.capability \in e.capabilities
    /\ e.allocation = "exclusive" => Cardinality(Holders(top, n.id, e.id)) = 1

ConnectionFits(top, K, c) ==
  /\ {x.id : x \in {y \in Range(top.connections) :
                      y.device = c.device /\ y.port = c.port}} = {c.id}
  /\ \E d \in With(top.devices, c.device) :
     \E model \in Definitions(K, "model", d.model) :
     \E port \in model.attachments :
       /\ port.id = c.port
       /\ IF c.target_kind = "bus" THEN OnBus(top, K, c, d, port)
          ELSE OnEndpoint(top, K, c, d, port)

SignalFits(top, K, physical, evidence, s) ==
  /\ {x.id : x \in {y \in Range(top.signals) :
                      y.device = s.device /\ y.port = s.port}} = {s.id}
  /\ \E d \in With(top.devices, s.device) :
     \E model \in Definitions(K, "model", d.model) :
     \E port \in model.physical, g \in physical.contracts, q \in physical.kinds :
       /\ port.id = s.port /\ g.id = s.contract /\ q.id = g.contract.kind
       /\ evidence = "require_source_compatible" => g.state = "source_compatible"
       /\ port.requirement.kind \in {None, q.id}
       /\ port.requirement.dim \in {None, q.dim}
       /\ port.requirement.form \in {None, g.contract.form}
       /\ port.requirement.reference \in {None, g.contract.reference}

Unbound(top, K, field, bound) ==
  UNION {{<<d.id, port.id>> : port \in
            {p \in UNION {model[field] : model \in Definitions(K, "model", d.model)} :
               p.required /\ ~\E c \in Range(bound) : c.device = d.id /\ c.port = p.id}} :
         d \in Range(top.devices)}

AllUnbound(top, K) ==
  {<<u[1], "attachment", u[2]>> : u \in Unbound(top, K, "attachments", top.connections)}
  \cup {<<u[1], "physical", u[2]>> : u \in Unbound(top, K, "physical", top.signals)}

Realizable(top, K, physical, evidence, ports) ==
  /\ ComponentsConsistent(K)
  /\ \A field \in {"nodes", "buses", "devices", "connections", "signals"} :
       \A i, j \in DOMAIN top[field] : i # j => top[field][i].id # top[field][j].id
  /\ \A c \in Range(top.connections) : \A i, j \in DOMAIN c.claims :
       i # j => c.claims[i].space # c.claims[j].space
  /\ \A n \in Range(top.nodes) : Definitions(K, "board", n.board) # {}
  /\ \A b \in Range(top.buses) : BusFits(top, K, b)
  /\ \A d \in Range(top.devices) : DeviceFits(top, K, d)
  /\ \A c \in Range(top.connections) : ConnectionFits(top, K, c)
  /\ \A s \in Range(top.signals) : SignalFits(top, K, physical, evidence, s)
  /\ ports = "require_all" => AllUnbound(top, K) = {}

(***************************************************************************)
(* Properties.                                                             *)
(***************************************************************************)
GraphsOf(a) ==
  {g \in {disk[Graph(a)]} : g # Absent /\ ~(plan.foreign /\ g = plan.disk[Graph(a)])}
  \cup IF job[a].pc \in {"write", "rename", "done"} THEN {job[a].out[1].doc} ELSE {}

Refused(a, type) == job[a].pc = "refused" /\ job[a].cause.type = type

TextsNamed(receipts) ==
  [p \in {s.path : s \in Range(receipts)} |->
     (CHOOSE s \in Range(receipts) : s.path = p).text]

ContentsNamed(receipts) ==
  {IF plan.foreign THEN ContentOf(plan.disk[Metadata(s.path)])
   ELSE Content(s.path, Texts[s.text]) : s \in Range(receipts)}

\* A receipt that the source, when it was verified, no longer matched.
Stale(cause) == cause.doc.text # cause.text[cause.doc.path]

(***************************************************************************)
(* Every exported pair of documents says exactly what the text named in    *)
(* its receipt says: records merged over redeclarations, relationships,    *)
(* resolved targets and units of each declaration (semantic_metadata_      *)
(* semantics.c, extension_hooks.c, pipeline_artifacts_*.c).  The compiler  *)
(* refuses to export only for a text with a mistake in it, and no program  *)
(* ever replaces a source or a document by something of another kind.      *)
(***************************************************************************)
MetadataExact ==
  /\ \A p \in Paths :
       /\ disk[Source(p)].type = "source"
       /\ disk[Metadata(p)].type \in {"absent", "metadata"}
       /\ disk[UnitsFile(p)].type \in {"absent", "units"}
       /\ disk[Metadata(p)] # Absent /\ ~plan.foreign =>
            LET text == Texts[disk[Metadata(p)].text] IN
            Clean(text) /\ MetadataOf(disk[Metadata(p)], p, text)
       /\ disk[UnitsFile(p)] # Absent =>
            UnitsOf(disk[UnitsFile(p)], p, Texts[disk[UnitsFile(p)].text])
  /\ Refused("compiler", "text") => ~Clean(Texts[job["compiler"].cause.text])

(***************************************************************************)
(* A semantic project graph is the union of the documents of the texts it  *)
(* names: no record or edge lost, doubled or attached to another record by *)
(* the sorting and renumbering, identities unique over the project, every  *)
(* target resolved or allowed (semantic_metadata_json_reader.c,            *)
(* semantic_project_graph.c).  It is refused only for a stale or damaged   *)
(* document, a real conflict, or an output that would replace an input.    *)
(***************************************************************************)
SemanticGraphExact ==
  /\ \A g \in GraphsOf("semantic") :
       /\ g.type = "semantic_graph"
       /\ SemanticGraphOf(g, ContentsNamed(g.sources), plan.externals)
  /\ Refused("semantic", "input") =>
       \/ Stale(job["semantic"].cause)
       \/ plan.foreign /\ IllFormed(job["semantic"].cause.doc)
  /\ Refused("semantic", "build") =>
       \/ job["semantic"].cause.file # Graph("semantic")
       \/ ~Joinable(ContentsNamed(job["semantic"].inputs), plan.externals)

(***************************************************************************)
(* Each contract of a physical project graph has the state, and the unit   *)
(* conversion, that the one text of each source named in its receipts      *)
(* gives it, although records and units arrive in documents written at     *)
(* different times (physical_project_graph.c).  It is refused only when    *)
(* the documents are of different texts or the contracts cannot hold.      *)
(***************************************************************************)
PhysicalGraphExact ==
  /\ \A g \in GraphsOf("physical") :
       /\ g.type = "physical_graph"
       /\ PhysicalGraphOf(g, TextsNamed(g.sources), plan.contracts, plan.externals,
                          plan.coverage, plan.evidence)
  /\ Refused("physical", "input") =>
       \/ plan.foreign /\ IllFormedGraph(job["physical"].cause.doc)
       \/ Stale(job["physical"].cause)
  /\ Refused("physical", "build") =>
       LET T == TextsNamed(job["physical"].inputs[1].sources) IN
       \/ job["physical"].cause.file # Graph("physical")
       \/ T # TextsNamed(Tail(job["physical"].inputs))
       \/ ~Composable(T, plan.contracts, plan.externals, plan.coverage, plan.evidence)

(***************************************************************************)
(* A hardware project graph is published exactly when the topology can be  *)
(* realized: every endpoint and address claimed exclusively has one holder *)
(* whatever the order of buses and connections, every port is used at most *)
(* once, every driver finds its buses, and every signal a contract that    *)
(* meets its requirement (hardware_project_graph.c).                       *)
(***************************************************************************)
HardwareGraphExact ==
  /\ \A g \in GraphsOf("hardware") :
       /\ g.type = "hardware_graph"
       /\ Realizable(plan.topology, plan.components, g.physical,
                     plan.hardware_evidence, plan.ports)
       /\ g.unbound = AllUnbound(plan.topology, plan.components)
  /\ Refused("hardware", "input") => Stale(job["hardware"].cause)
  /\ Refused("hardware", "build") =>
       \/ job["hardware"].cause.file # Graph("hardware")
       \/ ~Realizable(plan.topology, plan.components, job["hardware"].inputs[1],
                      plan.hardware_evidence, plan.ports)
===============================================================================
