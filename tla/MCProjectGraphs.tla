-------------------------- MODULE MCProjectGraphs --------------------------
(***************************************************************************)
(* Two sources.  Five families of projects: every text of two or three     *)
(* annotated declarations through the compiler; pairs of texts and damaged *)
(* documents through the semantic assembler; contract catalogs through the *)
(* physical one; topologies through the hardware one; and one project in   *)
(* which sources change while all four programs run and fail.              *)
(***************************************************************************)
EXTENDS ProjectReference

MCPaths == {1, 2}
MCCanonicalNames == {"a", "b", "c", "ext", "zz", "d1", "d2", "r1", "len", "temp",
                     "k1", "k2", "k3", "i2c", "ctl", "dev", "gpio"}
MCDomains == {"d1", "d2"}
MCRoles == {"r1"}
MCDimensions == {"m", "K"}
MCUnits ==
  [u \in {"metre", "half", "radian", "kelvin", "celsius"} |->
     CASE u = "metre" -> [dim |-> "m", family |-> "length", scale |-> 2, offset |-> 0]
       [] u = "half" -> [dim |-> "m", family |-> "length", scale |-> 1, offset |-> 0]
       [] u = "radian" -> [dim |-> "m", family |-> "arc", scale |-> 1, offset |-> 0]
       [] u = "kelvin" -> [dim |-> "K", family |-> "temp", scale |-> 1, offset |-> 0]
       [] u = "celsius" -> [dim |-> "K", family |-> "temp", scale |-> 1, offset |-> 2]]

(***************************************************************************)
(* Texts: some written out, then all sequences of two declarations, then   *)
(* of three with fewer annotations.                                        *)
(***************************************************************************)
Decl(owner, attrs) ==
  [name |-> CASE owner \in {1, 4} -> "x" [] owner = 2 -> "y" [] owner = 3 -> "f",
   kind |-> CASE owner \in {1, 2} -> "variable" [] owner = 3 -> "function"
              [] owner = 4 -> "local",
   attrs |-> attrs]

Id(v) == <<"id", v>>
Produces(v) == <<"produces", v>>
Consumes(v) == <<"consumes", v>>
Dim(v) == <<"dim", v>>
Unit(v) == <<"unit", v>>

Written ==
  << <<>>,
     <<Decl(1, <<Id("a"), Dim("m"), Unit("half")>>)>>,
     <<Decl(1, <<Id("a"), Dim("K"), Unit("celsius")>>), Decl(2, <<Produces("a")>>)>>,
     <<Decl(2, <<Dim("m")>>), Decl(1, <<Id("a")>>), Decl(3, <<Consumes("a"), Id("b")>>)>>,
     <<Decl(1, <<<<"role", "r1">>>>), Decl(3, <<Consumes("ext")>>), Decl(1, <<Id("b"), Dim("m")>>)>>,
     <<Decl(1, <<Id("b"), Produces("a"), Dim("m"), Unit("radian")>>)>>,
     <<Decl(3, <<Consumes("b")>>), Decl(2, <<Dim("K"), Unit("kelvin"), Id("c")>>)>>,
     <<Decl(1, <<Id("a")>>), Decl(1, <<Dim("m"), Unit("metre")>>)>>,
     <<Decl(1, <<Id("a"), Id("a")>>)>>,
     <<Decl(1, <<Dim("m")>>)>> >>

AttrLists ==
  << <<>>, <<Id("a")>>, <<Id("b")>>, <<Id("BAD")>>, <<<<"domain", "d1">>>>,
     <<<<"domain", "zz">>>>, <<<<"domain", "d2">>, <<"role", "r1">>>>, <<<<"role", "zz">>>>,
     <<Produces("a")>>, <<Consumes("b")>>, <<Produces("a"), Produces("a")>>,
     <<Id("a"), Id("a")>>, <<Id("a"), Produces("b"), Consumes("b")>>, <<Dim("m")>>,
     <<Dim("m"), Unit("half"), Id("b")>>, <<Dim("m"), Unit("kelvin")>>, <<Unit("metre")>>,
     <<Dim("m"), Dim("m")>>, <<Dim("zz"), Unit("metre")>> >>

FewLists == << <<>>, <<Id("a")>>, <<Id("b")>>, <<Produces("a")>>, <<Dim("K")>> >>

\* The n-th declaration that has one of the owners and one of the lists.
Nth(lists, n) == Decl((n \div Len(lists)) + 1, lists[(n % Len(lists)) + 1])

W == Len(Written)
D2 == 4 * Len(AttrLists)
D3 == 3 * Len(FewLists)

MCTexts ==
  [t \in 1 .. (W + D2 * D2 + D3 * D3 * D3) |->
     LET n == t - W - 1
         m == n - D2 * D2 IN
     IF t <= W THEN Written[t]
     ELSE IF n < D2 * D2 THEN <<Nth(AttrLists, n \div D2), Nth(AttrLists, n % D2)>>
     ELSE <<Nth(FewLists, m \div (D3 * D3)), Nth(FewLists, (m \div D3) % D3),
            Nth(FewLists, m % D3)>>]

(***************************************************************************)
(* Files and projects.                                                     *)
(***************************************************************************)
Files == ({"source", "metadata", "units"} \X Paths) \cup {<<a>> : a \in Assemblers}

Sources(T) ==
  [f \in Files |-> IF f[1] = "source"
                   THEN [type |-> "source", path |-> f[2], text |-> T[f[2]]] ELSE Absent]

Compiled(T) ==
  [f \in Files |->
     LET unit == compile_translation_unit(f[2], T[f[2]], Texts[T[f[2]]]) IN
     CASE f[1] = "metadata" -> unit.metadata
       [] f[1] = "units" -> unit.units
       [] OTHER -> Sources(T)[f]]

Loaded(files, p) ==
  fisics_semantic_metadata_artifact_load(files[Metadata(p)], {files[Source(p)].text})

WithSemantic(files, externals) ==
  Graph("semantic") :>
    fisics_semantic_project_graph_build(<<Loaded(files, 1), Loaded(files, 2)>>, externals)
  @@ files

NoTopology == [type |-> "topology", nodes |-> <<>>, buses |-> <<>>, devices |-> <<>>,
               connections |-> <<>>, signals |-> <<>>]

Runs(compiler, semantic, physical, hardware) ==
  [a \in Programs |-> CASE a = "compiler" -> compiler [] a = "semantic" -> semantic
                        [] a = "physical" -> physical [] a = "hardware" -> hardware]

Own == [a \in Assemblers |-> {Graph(a)}]

Project(files, runs) ==
  [disk |-> files, runs |-> runs, edits |-> 0, texts |-> {}, frozen |-> <<>>,
   order |-> <<1, 2>>, externals |-> {}, contracts |-> <<>>,
   coverage |-> "allow_partial", evidence |-> "report_unverified",
   components |-> <<>>, topology |-> NoTopology,
   hardware_evidence |-> "allow_declared", ports |-> "report_unbound",
   outputs |-> Own, faults |-> FALSE, foreign |-> FALSE]

(***************************************************************************)
(* One compilation of every text.                                          *)
(***************************************************************************)
CompilerPlans == {<<"compile", t>> : t \in DOMAIN Texts}

CompilerPlan(k) ==
  [Project(Sources(<<k[2], 1>>), Runs(1, 0, 0, 0)) EXCEPT !.order = <<1>>]

(***************************************************************************)
(* The semantic assembler over pairs of texts and over damaged documents.  *)
(***************************************************************************)
CleanTexts == {t \in 1 .. W : ~compile_translation_unit(1, t, Texts[t]).error}

PairFiles == [T \in CleanTexts \X CleanTexts |-> Compiled(T)]

PairPlans ==
  {<<"pair", T, o, x>> : T \in DOMAIN PairFiles, o \in {<<1, 2>>, <<2, 1>>, <<1, 1>>},
                         x \in {{}, {"ext", "a"}}}

PairPlan(k) ==
  [Project(PairFiles[k[2]], Runs(0, 1, 0, 0)) EXCEPT !.order = k[3], !.externals = k[4]]

AliasPlan ==
  [Project(PairFiles[<<2, 5>>], Runs(0, 1, 0, 0)) EXCEPT
     !.externals = {"ext"}, !.outputs["semantic"] = {Source(1), Metadata(2), Graph("semantic")}]

Rec(id, name, loc) ==
  [identity |-> IF id = None THEN <<"variable", 1, loc, name>> ELSE <<id>>, id |-> id,
   name |-> name, kind |-> "variable", path |-> 1, loc |-> loc, domain |-> None,
   role |-> None]

Arc(source, target, index) ==
  [source |-> source, kind |-> "produces", target |-> target, loc |-> 1,
   resolution |-> IF index = 0 THEN "external" ELSE "resolved", target_index |-> index]

Doc(records, edges) ==
  [type |-> "metadata", path |-> 1, text |-> 2, complete |-> TRUE,
   records |-> records, edges |-> edges]

ForeignDocs ==
  {Doc(rs, es) : rs \in {<<Rec("a", "x", 2), Rec("b", "y", 1), Rec(None, "z", 3)>>,
                         <<Rec("a", "x", 3), Rec("b", "y", 2), Rec("a", "z", 1)>>,
                         <<Rec("a", "x", 1), Rec("a", "y", 2)>>,
                         <<[Rec("a", "x", 1) EXCEPT !.identity = <<"b">>]>>},
                 es \in {<<>>, <<Arc(1, "b", 2), Arc(2, "a", 1)>>,
                         <<Arc(1, "ext", 0), Arc(2, "ext", 0)>>, <<Arc(2, "a", 3)>>,
                         <<Arc(1, "b", 0)>>, <<Arc(4, "ext", 0)>>,
                         <<Arc(2, "ext", 0), Arc(2, "ext", 0)>>}}
  \cup {[Doc(<<>>, <<>>) EXCEPT !.complete = FALSE]}

ForeignPlans == {<<"foreign", doc>> : doc \in ForeignDocs}

ForeignPlan(k) ==
  [Project(Metadata(1) :> k[2] @@ PairFiles[<<2, 7>>], Runs(0, 1, 0, 0)) EXCEPT
     !.externals = {"ext", "b"}, !.foreign = TRUE]


(***************************************************************************)
(* The physical assembler over contracts, policies and pairs of texts.     *)
(***************************************************************************)
Contract(id, subject, kind, policy, unit) ==
  [id |-> id, subject_kind |-> IF Len(subject) = 1 THEN "semantic_id" ELSE "source_identity",
   subject |-> subject, kind |-> kind, policy |-> policy, unit |-> unit,
   form |-> "scalar", reference |-> "linear", reference_subject |-> None, frame |-> None]

Length == [id |-> "len", dim |-> "m", vector |-> "m"]
Temperature == [id |-> "temp", dim |-> "K", vector |-> "K"]

OneContract ==
  {Contract("k1", subject, kind, policy, unit) :
     subject \in {<<"a">>, <<"ext">>, <<"zz">>, <<"variable", 2, 2, "y">>},
     kind \in {"len", "temp", "k3"},
     policy \in {"dimension_only", "exact_unit", "convertible_unit"},
     unit \in {None, "metre", "half", "celsius", "kelvin"}}
  \cup {[Contract("k1", <<"a">>, "temp", "convertible_unit", "kelvin") EXCEPT
           !.reference = r, !.reference_subject = s, !.frame = f] :
          r \in {"linear", "difference", "relative"}, s \in {None, "c", "zz"},
          f \in {None, "ext", "zz"}}

SingleCatalogs ==
  {<<[kinds |-> <<Length, Temperature>>, contracts |-> <<c>>]>> : c \in OneContract}

TwoCatalogs ==
  {<<[kinds |-> <<Length, q>>, contracts |-> <<Contract("k1", <<"a">>, "len", "dimension_only", None)>>],
          [kinds |-> <<Temperature, r>>, contracts |-> <<c>>]>> :
          q \in {Temperature, [Length EXCEPT !.vector = "K"]},
          r \in {Length, [Length EXCEPT !.dim = "K", !.vector = "K"]},
          c \in {Contract("k1", <<"c">>, "temp", "dimension_only", None),
                 Contract("k2", <<"a">>, "len", "dimension_only", None),
                 Contract("k2", <<"ext">>, "len", "dimension_only", None),
                 Contract("k2", <<"b">>, "len", "dimension_only", None)}}

PhysicalTexts == {<<2, 7>>, <<3, 5>>, <<8, 7>>, <<4, 1>>, <<1, 3>>, <<6, 7>>}

Imported == {"ext", "a", "b"}

SemanticFiles == [T \in PhysicalTexts |-> WithSemantic(Compiled(T), Imported)]

PhysicalPlans ==
  {<<"physical", T, cs, e, "allow_partial">> : T \in PhysicalTexts, cs \in SingleCatalogs,
     e \in {"report_unverified", "require_for_source_contracts"}}
  \cup {<<"physical", T, cs, "report_unverified", v>> : T \in PhysicalTexts, cs \in TwoCatalogs,
     v \in {"allow_partial", "require_relationship_targets", "require_all_authored_records"}}

PhysicalPlan(k) ==
  [Project(SemanticFiles[k[2]], Runs(0, 0, 1, 0)) EXCEPT
     !.externals = Imported, !.contracts = k[3], !.evidence = k[4], !.coverage = k[5],
     !.order = <<2, 1>>]

PhysicalAliasPlan ==
  [Project(SemanticFiles[<<2, 7>>], Runs(0, 0, 1, 0)) EXCEPT
     !.externals = Imported,
     !.contracts = <<[kinds |-> <<Length>>,
                      contracts |-> <<Contract("k1", <<"a">>, "len", "dimension_only", None)>>]>>,
     !.outputs["physical"] = {Source(1), UnitsFile(1), Graph("semantic"), Graph("physical")}]

\* Semantic graphs that no assembler wrote.
ForeignGraphPlans == {<<"foreign graph", n>> : n \in 1 .. 3}

ForeignGraphPlan(k) ==
  LET files == SemanticFiles[<<2, 7>>]
      graph == files[Graph("semantic")]
      damaged == CASE k[2] = 1 -> [graph EXCEPT !.sources = <<>>]
                   [] k[2] = 2 -> [graph EXCEPT !.records = <<>>]
                   [] k[2] = 3 -> [graph EXCEPT !.sources = Reverse(@)] IN
  [PhysicalAliasPlan EXCEPT !.disk = Graph("semantic") :> damaged @@ files, !.foreign = TRUE]

(***************************************************************************)
(* The hardware assembler over topologies, component catalogs and policies. *)
(***************************************************************************)
Space(id, kind, max, required, collision) ==
  [id |-> id, value_kind |-> kind, minimum |-> IF max = 0 THEN 0 ELSE 1, maximum |-> max,
   required |-> required, collision |-> collision]

I2C == [transport |-> "i2c", controller |-> "ctl", participant |-> "dev",
        spaces |-> <<Space("addr", "uint64_decimal", 2, TRUE, "exclusive"),
                     Space("label", "text_exact", 0, FALSE, "shared")>>]

Endpoint(id, capabilities, allocation) ==
  [id |-> id, capabilities |-> capabilities, allocation |-> allocation]

Board == [endpoints |-> <<Endpoint(11, {"ctl", "gpio"}, "exclusive"),
                          Endpoint(12, {"ctl", "gpio"}, "shared")>>]

Port(id, kind, capability, transport, required) ==
  [id |-> id, connection_kind |-> kind, capability |-> capability,
   transport |-> transport, required |-> required]

Needs(mode, kind, dim, form) ==
  [mode |-> mode, kind |-> kind, dim |-> dim, form |-> form, reference |-> None]

Sensor(policy) ==
  [driver_policy |-> policy,
   attachments |-> <<Port("p1", "bus_participant", "dev", "i2c", TRUE),
                     Port("p2", "direct_endpoint", "gpio", None, FALSE)>>,
   physical |-> <<[id |-> "s1", required |-> TRUE,
                   requirement |-> Needs("exact_quantity", "len", None, "scalar")],
                  [id |-> "s2", required |-> FALSE,
                   requirement |-> Needs("dimension_only", None, "K", None)]>>]

Item(sort, key, def) == [sort |-> sort, key |-> key, def |-> def]

Parts(policy) ==
  <<Item("bus", "i2c", I2C), Item("board", "board", Board),
    Item("model", "sensor", Sensor(policy)),
    Item("driver", "drv", [models |-> <<"sensor">>, transports |-> {"i2c"}])>>

Catalog(id, items) == [id |-> id, items |-> items]

Components(policy) == <<Catalog("main", Parts(policy))>>

Address(v) == [space |-> "addr", value_kind |-> "uint64_decimal", value |-> v]
Label == [space |-> "label", value_kind |-> "text_exact", value |-> 7]

Targets ==
  {<<"bus", 1, <<Address(1)>>>>, <<"bus", 1, <<Address(2), Label>>>>, <<"bus", 1, <<Label>>>>,
   <<"bus", 1, <<Address(3)>>>>, <<"bus", 2, <<Address(1)>>>>, <<"bus", 9, <<Address(1)>>>>,
   <<"direct_endpoint", 11, <<>>>>, <<"direct_endpoint", 12, <<>>>>}

Wire(id, device, port, t) ==
  [id |-> id, device |-> device, port |-> port, target_kind |-> t[1], target |-> t[2],
   claims |-> t[3]]

Bus(id, owner, endpoint, scope) ==
  [id |-> id, owner |-> owner, profile |-> "i2c", endpoint |-> endpoint, scope |-> scope]

Device(id, owner, driver) ==
  [id |-> id, owner |-> owner, model |-> "sensor", driver |-> driver]

Signal(id, device, port, contract) ==
  [id |-> id, device |-> device, port |-> port, contract |-> contract]

Topology(buses, devices, wires, signals) ==
  [type |-> "topology", buses |-> buses, devices |-> devices, connections |-> wires,
   signals |-> signals,
   nodes |-> <<[id |-> 2, board |-> "board"], [id |-> 1, board |-> "board"]>>]

Buses == {<<Bus(2, 1, 12, "node_local"), Bus(1, 1, 11, "shared")>>,
          <<Bus(1, 1, 11, "shared"), Bus(2, 1, 11, "shared")>>,
          <<Bus(1, 2, 12, "node_local"), Bus(2, 1, 11, "shared")>>}

Devices == {<<Device(1, 1, None), Device(2, 1, None)>>,
            <<Device(2, 1, "drv"), Device(1, 2, None)>>}

Wires == {<<Wire(2, 1, "p1", t), Wire(1, d, p, u)>> :
            t \in Targets, d \in {1, 2}, p \in {"p1", "p2"}, u \in Targets}

Wirings == {<<"wiring", b, d, w>> : b \in Buses, d \in Devices, w \in Wires}

Bound ==
  <<Contract("k1", <<"a">>, "len", "dimension_only", None),
    Contract("k2", <<"ext">>, "temp", "dimension_only", None)>>

WithPhysical(files) ==
  Graph("physical") :>
    fisics_physical_project_graph_build(files[Graph("semantic")],
      <<files[UnitsFile(1)], files[UnitsFile(2)]>>,
      <<[kinds |-> <<Length, Temperature>>, contracts |-> Bound]>>,
      "allow_partial", "report_unverified")
  @@ files

PhysicalFiles == WithPhysical(SemanticFiles[<<2, 7>>])

HardwareProject(components, topology) ==
  [Project(PhysicalFiles, Runs(0, 0, 0, 1)) EXCEPT
     !.externals = Imported, !.components = components, !.topology = topology,
     !.contracts = <<[kinds |-> <<Length, Temperature>>, contracts |-> Bound]>>]

WiringPlan(k) == HardwareProject(Components("optional"), Topology(k[2], k[3], k[4], <<>>))

Signalled ==
  {<<"signal", c1, p1, c2, p2, d, e, r>> : c1 \in {"k1", "k2", "k3"}, p1 \in {"s1", "s2"},
     c2 \in {"k1", "k2"}, p2 \in {"s1", "s2"}, d \in {None, "drv", "none such"},
     e \in {"allow_declared", "require_source_compatible"},
     r \in {"report_unbound", "require_all"}}

OneBus == <<Bus(1, 1, 11, "shared")>>

SignalPlan(k) ==
  [HardwareProject(Components(IF k[6] = None THEN "none" ELSE "required"),
     Topology(OneBus, <<Device(1, 1, k[6])>>,
              <<Wire(1, 1, "p1", <<"bus", 1, <<Address(1)>>>>)>>,
              <<Signal(2, 1, k[3], k[2]), Signal(1, 1, k[5], k[4])>>)) EXCEPT
     !.hardware_evidence = k[7], !.ports = k[8]]

Stocked ==
  {<<"stock", cs, t>> :
     cs \in {<<Catalog("one", Parts("optional")), Catalog("two", Parts("optional"))>>,
             <<Catalog("one", Parts("optional")), Catalog("two", Parts("required"))>>,
             <<Catalog("one", Parts("required")), Catalog("one", <<>>)>>,
             <<Catalog("one", <<Item("board", "board", Board)>>)>>,
             <<Catalog("one", Parts("optional")),
               Catalog("two", <<Item("bus", "i2c", [I2C EXCEPT !.spaces = Reverse(@)])>>)>>,
             <<Catalog("one", <<Item("bus", "i2c", [I2C EXCEPT !.spaces[1].maximum = 0])>>
                                \o Parts("optional"))>>,
             <<Catalog("one", Parts("optional") \o
                 <<Item("driver", "drv", [models |-> <<>>, transports |-> {}])>>)>>},
     t \in {Topology(<<>>, <<>>, <<>>, <<>>), Topology(OneBus, <<>>, <<>>, <<>>),
            Topology(OneBus, <<Device(1, 1, "drv")>>, <<>>, <<>>),
            Topology(OneBus, <<Device(1, 1, None), Device(1, 2, None)>>, <<>>, <<>>)}}

StockPlan(k) == [HardwareProject(k[2], k[3]) EXCEPT
                   !.outputs["hardware"] = {Graph("physical"), Source(2), Graph("hardware")}]

(***************************************************************************)
(* Sources that change while the compiler and the assemblers run and fail. *)
(***************************************************************************)
Live ==
  {<<"live", Runs(2, 1, 0, 0), 2, TRUE, <<>>>>, <<"live", Runs(1, 1, 1, 0), 1, FALSE, <<>>>>,
   <<"live", Runs(1, 0, 1, 0), 1, TRUE, <<>>>>, <<"live", Runs(0, 1, 1, 1), 1, FALSE, <<>>>>,
   <<"live", Runs(1, 1, 0, 1), 1, FALSE, <<2, 7>>>>, <<"live", Runs(1, 1, 1, 0), 1, FALSE, <<10, 0>>>>}

LivePlan(k) ==
  [HardwareProject(Components("optional"), NoTopology) EXCEPT
     !.runs = k[2], !.edits = k[3], !.texts = {2, 9, 10}, !.faults = k[4], !.frozen = k[5],
     !.order = <<2, 1>>]

MCPlans == CompilerPlans \cup PairPlans \cup ForeignPlans \cup PhysicalPlans
             \cup Wirings \cup Signalled \cup Stocked \cup Live
             \cup ForeignGraphPlans \cup {<<"alias">>, <<"physical alias">>}

MCPlan(k) ==
  CASE k[1] = "compile" -> CompilerPlan(k)
    [] k[1] = "pair" -> PairPlan(k)
    [] k[1] = "foreign" -> ForeignPlan(k)
    [] k[1] = "physical" -> PhysicalPlan(k)
    [] k[1] = "foreign graph" -> ForeignGraphPlan(k)
    [] k[1] = "alias" -> AliasPlan
    [] k[1] = "physical alias" -> PhysicalAliasPlan
    [] k[1] = "wiring" -> WiringPlan(k)
    [] k[1] = "signal" -> SignalPlan(k)
    [] k[1] = "stock" -> StockPlan(k)
    [] k[1] = "live" -> LivePlan(k)
=============================================================================
