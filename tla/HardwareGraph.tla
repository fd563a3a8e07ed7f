---------------------------- MODULE HardwareGraph ----------------------------
(***************************************************************************)
(* The hardware project graph: component catalogs are merged and a         *)
(* topology is resolved against them and against the contracts of a        *)
(* physical project graph (src/Compiler/hardware_project_graph.c).         *)
(*                                                                         *)
(* A catalog is [id, items]; an item is [sort, key, def] where sort is     *)
(* "bus", "board", "model" or "driver" and key stands for the identifier   *)
(* and revision.  Connections and buses are numbered in the order of their *)
(* identifiers, in which the code resolves them.                           *)
(***************************************************************************)
EXTENDS PhysicalGraph

(***************************************************************************)
(* The physical graph is read back, and then each source it names is       *)
(* verified.                                                               *)
(***************************************************************************)
parse_physical_contract(c, kinds) ==
  /\ {c.id, c.contract.kind} \subseteq CanonicalNames
  /\ c.state \in {"source_compatible", "source_unverified", "external_declared"}
  /\ fisics_physical_catalog_find(kinds, c.contract.kind) # {}

parse_physical_graph(doc) ==
  IF /\ doc.type = "physical_graph"
     /\ \A q \in doc.kinds : q.id \in CanonicalNames
     /\ \A c \in doc.contracts : parse_physical_contract(c, doc.kinds)
  THEN doc ELSE Failed

verify_receipt(receipt, bytes) ==
  IF receipt.text \in bytes THEN receipt ELSE Failed

(***************************************************************************)
(* What a catalog item must satisfy to be read.                            *)
(***************************************************************************)
parse_bus_profile(b) ==
  /\ {b.transport, b.controller, b.participant} \subseteq CanonicalNames
  /\ \A s \in Range(b.spaces) :
       IF s.value_kind = "uint64_decimal" THEN s.minimum <= s.maximum
       ELSE s.minimum = 0 /\ s.maximum = 0
  /\ ~DuplicateField(b.spaces, "id")

parse_board_profile(b) == ~DuplicateField(b.endpoints, "id")

parse_requirement(r) ==
  IF r.mode = "exact_quantity" THEN r.kind # None /\ r.dim = None
  ELSE r.kind = None /\ r.dim # None

parse_device_model(m) ==
  /\ m.driver_policy \in {"required", "optional", "none"}
  /\ \A p \in Range(m.attachments) :
       p.connection_kind = "bus_participant" <=> p.transport # None
  /\ ~DuplicateField(m.attachments, "id")
  /\ \A p \in Range(m.physical) : parse_requirement(p.requirement)
  /\ ~DuplicateField(m.physical, "id")

parse_driver(d) == ~Repeated(d.models)

parse_item(item) ==
  CASE item.sort = "bus" -> parse_bus_profile(item.def)
    [] item.sort = "board" -> parse_board_profile(item.def)
    [] item.sort = "model" -> parse_device_model(item.def)
    [] item.sort = "driver" -> parse_driver(item.def)

\* The children of a definition are sorted, so their order does not matter.
canonical_definition(item) ==
  CASE item.sort = "bus" -> [item.def EXCEPT !.spaces = Range(@)]
    [] item.sort = "board" -> [item.def EXCEPT !.endpoints = Range(@)]
    [] item.sort = "model" -> [item.def EXCEPT !.attachments = Range(@),
                                               !.physical = Range(@)]
    [] item.sort = "driver" -> [item.def EXCEPT !.models = Range(@)]

(***************************************************************************)
(* Equal keys must have equal definitions; every catalog that gives one is *)
(* an origin of it.  acc.defs maps <<sort, key>> to its definition.        *)
(***************************************************************************)
merge_item(acc, origin, item) ==
  LET name == <<item.sort, item.key>> IN
  CASE acc = Failed \/ ~parse_item(item) -> Failed
    [] acc # Failed /\ parse_item(item) /\ name \notin DOMAIN acc.defs ->
         [acc EXCEPT !.defs = @ @@ (name :> [def |-> canonical_definition(item),
                                             origins |-> {origin}])]
    [] acc # Failed /\ parse_item(item) /\ name \in DOMAIN acc.defs ->
         IF acc.defs[name].def = canonical_definition(item)
         THEN [acc EXCEPT !.defs[name].origins = @ \cup {origin}]
         ELSE Failed

parse_catalog(acc, catalog) ==
  IF acc = Failed \/ catalog.id \in acc.catalogs THEN Failed
  ELSE FoldLeft(LAMBDA a, item : merge_item(a, catalog.id, item),
                [acc EXCEPT !.catalogs = @ \cup {catalog.id}], catalog.items)

MergeCatalogs(catalogs) ==
  FoldLeft(parse_catalog,
           [type |-> "definitions", catalogs |-> {}, defs |-> <<>>], catalogs)

(***************************************************************************)
(* The topology, sorted by identifier; identifiers are unique, and so are  *)
(* the spaces a connection claims.                                         *)
(***************************************************************************)
parse_connection(c) == ~DuplicateField(c.claims, "space")

parse_topology(top) ==
  LET Sorted(s) == SortSeq(s, LAMBDA a, b : a.id < b.id) IN
  IF \/ \E field \in {"nodes", "buses", "devices", "connections", "signals"} :
          DuplicateField(top[field], "id")
     \/ \E c \in Range(top.connections) : ~parse_connection(c)
  THEN Failed
  ELSE [field \in DOMAIN top |->
          IF field = "type" THEN top[field] ELSE Sorted(top[field])]

find_definition(defs, sort, key) ==
  IF <<sort, key>> \in DOMAIN defs THEN {defs[<<sort, key>>].def} ELSE {}

find_by_id(things, id) == {x \in things : x.id = id}

The(set) == CHOOSE x \in set : TRUE

(***************************************************************************)
(* Nodes, buses and devices.                                               *)
(***************************************************************************)
BoardOf(top, defs, node_id) ==
  The(find_definition(defs, "board", The(find_by_id(Range(top.nodes), node_id)).board))

resolve_nodes(top, defs) ==
  \A n \in Range(top.nodes) : find_definition(defs, "board", n.board) # {}

resolve_bus(top, defs, i) ==
  LET bus == top.buses[i]
      profiles == find_definition(defs, "bus", bus.profile) IN
  /\ find_by_id(Range(top.nodes), bus.owner) # {}
  /\ profiles # {}
  /\ \E e \in find_by_id(BoardOf(top, defs, bus.owner).endpoints, bus.endpoint) :
       /\ The(profiles).controller \in e.capabilities
       /\ e.allocation = "exclusive" =>
            \A j \in 1 .. i - 1 : \/ top.buses[j].owner # bus.owner
                                  \/ top.buses[j].endpoint # bus.endpoint

resolve_device(top, defs, device) ==
  LET models == find_definition(defs, "model", device.model)
      drivers == find_definition(defs, "driver", device.driver) IN
  /\ find_by_id(Range(top.nodes), device.owner) # {}
  /\ models # {}
  /\ The(models).driver_policy = "required" => device.driver # None
  /\ The(models).driver_policy = "none" => device.driver = None
  /\ device.driver # None =>
       drivers # {} /\ device.model \in The(drivers).models

ModelOf(defs, device) == The(find_definition(defs, "model", device.model))
BusProfileOf(defs, bus) == The(find_definition(defs, "bus", bus.profile))

(***************************************************************************)
(* Connections, each against the ones before it.                           *)
(***************************************************************************)
ClaimAccepted(space, claim) ==
  /\ claim.value_kind = space.value_kind
  /\ space.value_kind = "uint64_decimal" =>
       space.minimum <= claim.value /\ claim.value <= space.maximum

ClaimTaken(prior, bus, claim) ==
  \E p \in Range(prior) : p.target_kind = "bus" /\ p.target = bus
                           /\ claim \in Range(p.claims)

resolve_bus_connection(top, defs, i, device, port) ==
  LET c == top.connections[i]
      buses == find_by_id(Range(top.buses), c.target)
      bus == The(buses)
      profile == BusProfileOf(defs, bus)
      prior == SubSeq(top.connections, 1, i - 1) IN
  /\ port.connection_kind = "bus_participant"
  /\ buses # {}
  /\ port.transport = profile.transport /\ port.capability = profile.participant
  /\ bus.scope = "node_local" => bus.owner = device.owner
  /\ \A claim \in Range(c.claims) :
       \E s \in find_by_id(profile.spaces, claim.space) :
         /\ ClaimAccepted(s, claim)
         /\ s.collision = "exclusive" => ~ClaimTaken(prior, c.target, claim)
  /\ \A s \in profile.spaces :
       s.required => \E claim \in Range(c.claims) : claim.space = s.id

\* Faulty variant: endpoints held by bus controllers are forgotten.
EndpointHeld_noBuses(top, prior, node, endpoint) ==
  \E p \in Range(prior) :
    /\ p.target_kind = "direct_endpoint" /\ p.target = endpoint
    /\ The(find_by_id(Range(top.devices), p.device)).owner = node

EndpointHeld(top, prior, node, endpoint) ==
  \/ \E p \in Range(prior) :
       /\ p.target_kind = "direct_endpoint" /\ p.target = endpoint
       /\ The(find_by_id(Range(top.devices), p.device)).owner = node
  \/ \E b \in Range(top.buses) : b.owner = node /\ b.endpoint = endpoint

resolve_direct_connection(top, defs, i, device, port) ==
  LET c == top.connections[i]
      board == BoardOf(top, defs, device.owner)
      prior == SubSeq(top.connections, 1, i - 1) IN
  /\ port.connection_kind = "direct_endpoint"
  /\ c.claims = <<>>
  /\ \E e \in find_by_id(board.endpoints, c.target) :
       /\ port.capability \in e.capabilities
       /\ e.allocation = "exclusive" =>
            ~EndpointHeld(top, prior, device.owner, c.target)

resolve_connection(top, defs, i) ==
  LET c == top.connections[i] IN
  \E device \in find_by_id(Range(top.devices), c.device) :
    \E port \in find_by_id(ModelOf(defs, device).attachments, c.port) :
      /\ \A j \in 1 .. i - 1 : \/ top.connections[j].device # c.device
                               \/ top.connections[j].port # c.port
      /\ IF c.target_kind = "bus"
         THEN resolve_bus_connection(top, defs, i, device, port)
         ELSE resolve_direct_connection(top, defs, i, device, port)

(***************************************************************************)
(* Required ports, driver transports and signal bindings.                  *)
(***************************************************************************)
unbound_attachments(top, defs) ==
  UNION {{<<d.id, "attachment", p.id>> :
            p \in {q \in ModelOf(defs, d).attachments :
                    q.required /\ ~\E c \in Range(top.connections) :
                                    c.device = d.id /\ c.port = q.id}} :
         d \in Range(top.devices)}

unbound_physical(top, defs) ==
  UNION {{<<d.id, "physical", p.id>> :
            p \in {q \in ModelOf(defs, d).physical :
                    q.required /\ ~\E s \in Range(top.signals) :
                                    s.device = d.id /\ s.port = q.id}} :
         d \in Range(top.devices)}

driver_transports_present(top, defs, device) ==
  device.driver # None =>
    \A t \in The(find_definition(defs, "driver", device.driver)).transports :
      \E c \in Range(top.connections) :
        /\ c.device = device.id /\ c.target_kind = "bus"
        /\ BusProfileOf(defs, The(find_by_id(Range(top.buses), c.target))).transport = t

RequirementMet(r, contract, kinds) ==
  LET c == contract.contract
      q == The(fisics_physical_catalog_find(kinds, c.kind)) IN
  /\ IF r.mode = "exact_quantity" THEN r.kind = c.kind ELSE r.dim = q.dim
  /\ r.form \in {None, c.form}
  /\ r.reference \in {None, c.reference}

resolve_signal(top, defs, physical, evidence, i) ==
  LET s == top.signals[i] IN
  \E device \in find_by_id(Range(top.devices), s.device) :
    \E port \in find_by_id(ModelOf(defs, device).physical, s.port) :
      \E contract \in {c \in physical.contracts : c.id = s.contract} :
        /\ \A j \in 1 .. i - 1 : \/ top.signals[j].device # s.device
                                 \/ top.signals[j].port # s.port
        /\ evidence = "require_source_compatible" =>
             contract.state = "source_compatible"
        /\ RequirementMet(port.requirement, contract, physical.kinds)

resolve_graph(top, defs, physical, evidence, ports) ==
  /\ resolve_nodes(top, defs)
  /\ \A i \in DOMAIN top.buses : resolve_bus(top, defs, i)
  /\ \A d \in Range(top.devices) : resolve_device(top, defs, d)
  /\ \A i \in DOMAIN top.connections : resolve_connection(top, defs, i)
  /\ ports = "require_all" => unbound_attachments(top, defs) = {}
  /\ \A d \in Range(top.devices) : driver_transports_present(top, defs, d)
  /\ \A i \in DOMAIN top.signals :
       resolve_signal(top, defs, physical, evidence, i)
  /\ ports = "require_all" => unbound_physical(top, defs) = {}

HardwareDocument(physical, defs, top) ==
  [type |-> "hardware_graph", physical |-> physical, defs |-> defs, top |-> top,
   unbound |-> unbound_attachments(top, defs) \cup unbound_physical(top, defs)]

fisics_hardware_project_graph_build(physical, catalogs, topology, evidence, ports) ==
  LET merged == MergeCatalogs(catalogs)
      top == parse_topology(topology) IN
  IF /\ merged # Failed
     /\ top # Failed
     /\ resolve_graph(top, merged.defs, physical, evidence, ports)
  THEN HardwareDocument(physical, merged.defs, top)
  ELSE Failed
=============================================================================
