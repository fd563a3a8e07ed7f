---------------------------- MODULE ProjectGraphs ----------------------------
(***************************************************************************)
(* The programs that publish metadata and graphs, as processes over one    *)
(* file system: the compiler exports two documents per source, and three   *)
(* assemblers (the semantic, physical and hardware project graph modes of  *)
(* src/main.c) read what the stage before them published.                  *)
(* Every program reads its inputs one at a time, verifies each source at   *)
(* that moment against the live file or, when one is set, the frozen       *)
(* snapshot, and publishes through a temporary file and a rename.  Sources *)
(* may be edited, writes may fail and programs may die at any step.        *)
(***************************************************************************)
EXTENDS HardwareGraph

CONSTANTS Paths,       \* the sources, 1 .. n
          Texts,         \* text id -> sequence of declarations
          Plans,         \* names of projects
          Plan(_)        \* the project: manifests, catalogs, initial files

VARIABLES plan,     \* the project: constant during a behaviour
          disk,     \* file -> document
          job,      \* program -> its current or last run
          started,  \* program -> number of runs started
          edits,    \* number of edits of sources
          seen      \* program -> source -> texts it held since the run started

vars == <<plan, disk, job, started, edits, seen>>

Assemblers == {"semantic", "physical", "hardware"}
Programs == {"compiler"} \cup Assemblers
Absent == [type |-> "absent"]

Source(p) == <<"source", p>>
Metadata(p) == <<"metadata", p>>
UnitsFile(p) == <<"units", p>>
Graph(a) == <<a>>

\* A source as a graph names it: the path and the text it was made from.
Receipt == [path : Paths, text : DOMAIN Texts]

\* A manifest lists sources.  The graphs are files of the project, absent or not; a
\* physical graph that is there has an array of receipts.
ASSUME ProjectAssumption ==
  /\ Paths \subseteq Nat
  /\ \A k \in Plans :
       /\ Plan(k).order \in Seq(Paths)
       /\ {Graph(a) : a \in Assemblers} \subseteq DOMAIN Plan(k).disk
       /\ \A f \in DOMAIN Plan(k).disk :
            Plan(k).disk[f].type = "physical_graph" =>
              Plan(k).disk[f].sources \in Seq(Receipt)

\* What verify_source compares a receipt with: the snapshot's copy, if set.
SourceText(p) ==
  IF plan.frozen # <<>> THEN plan.frozen[p] ELSE disk[Source(p)].text

\* What it can read: of a path that is no source, nothing.
SourceBytes(p) == {SourceText(q) : q \in Paths \cap {p}}

\* seen after a step that may have changed a source.
Noticed ==
  [a \in Programs |-> [p \in Paths |-> seen[a][p] \cup {SourceText(p)'}]]

Idle == [pc |-> "idle", inputs |-> <<>>, out |-> <<>>, cause |-> Absent]

Ended == {"idle", "done", "failed", "refused"}

Init ==
  /\ \E k \in Plans : plan = Plan(k)
  /\ disk = plan.disk
  /\ job = [a \in Programs |-> Idle]
  /\ started = [a \in Programs |-> 0]
  /\ edits = 0
  /\ seen = [a \in Programs |-> [p \in Paths |-> {}]]

Edit(p, t) ==
  /\ edits < plan.edits
  /\ t # disk[Source(p)].text
  /\ edits' = edits + 1
  /\ disk' = [disk EXCEPT ![Source(p)] = [type |-> "source", path |-> p, text |-> t]]
  /\ UNCHANGED <<plan, job, started>>
  /\ seen' = Noticed

Begin(a) ==
  /\ job[a].pc \in Ended
  /\ started[a] < plan.runs[a]
  /\ started' = [started EXCEPT ![a] = @ + 1]
  /\ seen' = [seen EXCEPT ![a] = [p \in Paths |-> {SourceText(p)}]]
  /\ UNCHANGED <<plan, edits>>

Refuse(cause) == [pc |-> "refused", inputs |-> <<>>, out |-> <<>>, cause |-> cause]

(***************************************************************************)
(* The compiler reads the source once, analyses those bytes and writes     *)
(* their hash into both documents.                                         *)
(***************************************************************************)
Exported(p, t, unit) ==
  IF unit.error THEN Refuse([type |-> "text", text |-> t])
  ELSE [pc |-> "write", inputs |-> <<>>, cause |-> Absent,
        out |-> <<[file |-> Metadata(p), doc |-> unit.metadata],
                  [file |-> UnitsFile(p), doc |-> unit.units]>>]

Compile(p) ==
  LET t == disk[Source(p)].text IN
  /\ Begin("compiler")
  /\ job' = [job EXCEPT !["compiler"] =
               Exported(p, t, compile_translation_unit(p, t, Texts[t]))]
  /\ UNCHANGED disk

(***************************************************************************)
(* An assembler loads its manifest, which names existing files, each once, *)
(* and policies it knows.                                                  *)
(***************************************************************************)
InputFiles(a) ==
  CASE a = "semantic" -> [i \in DOMAIN plan.order |-> Metadata(plan.order[i])]
    [] a = "physical" -> <<Graph("semantic")>>
                           \o [i \in DOMAIN plan.order |-> UnitsFile(plan.order[i])]
    [] a = "hardware" -> <<Graph("physical")>>

fisics_semantic_project_manifest_load ==
  /\ plan.order # <<>> /\ ~Repeated(plan.order)
  /\ plan.externals \subseteq CanonicalNames

fisics_physical_project_manifest_load ==
  /\ plan.order # <<>> /\ ~Repeated(plan.order)
  /\ plan.contracts # <<>>
  /\ plan.coverage \in {"allow_partial", "require_relationship_targets",
                        "require_all_authored_records"}
  /\ plan.evidence \in {"report_unverified", "require_for_source_contracts"}

fisics_hardware_project_manifest_load ==
  /\ plan.components # <<>>
  /\ plan.hardware_evidence \in {"require_source_compatible", "allow_declared"}
  /\ plan.ports \in {"require_all", "report_unbound"}

ManifestLoads(a) ==
  /\ \A f \in Range(InputFiles(a)) : disk[f] # Absent
  /\ a = "semantic" => fisics_semantic_project_manifest_load
  /\ a = "physical" => fisics_physical_project_manifest_load
  /\ a = "hardware" => fisics_hardware_project_manifest_load

LoadManifest(a) ==
  /\ Begin(a)
  /\ job' = [job EXCEPT ![a] =
       IF ManifestLoads(a) THEN [Idle EXCEPT !.pc = "read"]
       ELSE Refuse([type |-> "manifest"])]
  /\ UNCHANGED disk

\* What is read next, or Failed if it is refused.
NextInput(a) ==
  LET k == Len(job[a].inputs) + 1
      doc == disk[InputFiles(a)[k]]
      receipt == job[a].inputs[1].sources[k - 1] IN
  CASE a = "semantic" ->
         fisics_semantic_metadata_artifact_load(doc, SourceBytes(doc.path))
    [] a = "physical" /\ k = 1 ->
         parse_semantic_graph(doc)
    [] a = "physical" /\ k > 1 -> parse_units_artifact(doc, SourceBytes(doc.path))
    [] a = "hardware" /\ k = 1 ->
         parse_physical_graph(doc)
    [] a = "hardware" /\ k > 1 ->
         verify_receipt(receipt, SourceBytes(receipt.path))

InputCount(a) ==
  CASE a = "semantic" -> Len(plan.order)
    [] a = "physical" -> Len(plan.order) + 1
    [] a = "hardware" -> IF job[a].inputs = <<>> THEN 1
                         ELSE Len(job[a].inputs[1].sources) + 1

\* The document a refusal is about.
Offending(a) ==
  LET k == Len(job[a].inputs) + 1 IN
  IF a = "hardware" /\ k > 1 THEN job[a].inputs[1].sources[k - 1] ELSE disk[InputFiles(a)[k]]

Accept(a, read) ==
  IF read = Failed
  THEN [Refuse([type |-> "input", text |-> [p \in Paths |-> SourceText(p)],
                doc |-> Offending(a)]) EXCEPT !.inputs = job[a].inputs]
  ELSE [job[a] EXCEPT !.inputs = Append(@, read)]

ReadInput(a) ==
  /\ job[a].pc = "read"
  /\ Len(job[a].inputs) < InputCount(a)
  /\ job' = [job EXCEPT ![a] = Accept(a, NextInput(a))]
  /\ UNCHANGED <<plan, disk, started, edits, seen>>

\* The sources a graph names, with the text it was made from.
Receipts(graph) ==
  IF graph.type = "hardware_graph" THEN graph.physical.sources ELSE graph.sources

\* No graph may replace what it was made from.
output_path_safe(a, graph, file) ==
  /\ file \notin Range(InputFiles(a))
  /\ \A s \in Range(Receipts(graph)) : file # Source(s.path)

Assemble(a) ==
  CASE a = "semantic" ->
         fisics_semantic_project_graph_build(job[a].inputs, plan.externals)
    [] a = "physical" ->
         fisics_physical_project_graph_build(Head(job[a].inputs), Tail(job[a].inputs),
           plan.contracts, plan.coverage, plan.evidence)
    [] a = "hardware" ->
         fisics_hardware_project_graph_build(Head(job[a].inputs), plan.components,
           plan.topology, plan.hardware_evidence, plan.ports)

Finish(a, graph, file) ==
  IF graph = Failed \/ ~output_path_safe(a, graph, file)
  THEN [Refuse([type |-> "build", file |-> file]) EXCEPT !.inputs = job[a].inputs]
  ELSE [job[a] EXCEPT !.pc = "write", !.out = <<[file |-> file, doc |-> graph]>>]

Build(a) ==
  /\ job[a].pc = "read"
  /\ Len(job[a].inputs) = InputCount(a)
  /\ \E file \in plan.outputs[a] :
       job' = [job EXCEPT ![a] = Finish(a, Assemble(a), file)]
  /\ UNCHANGED <<plan, disk, started, edits, seen>>

(***************************************************************************)
(* Publication: the document is written and synced under a temporary name, *)
(* then renamed.  A failure removes the temporary file; a program that     *)
(* dies leaves it behind.                                                  *)
(***************************************************************************)
WriteTemporary(a) ==
  /\ job[a].pc = "write"
  /\ job' = [job EXCEPT ![a].pc = "rename"]
  /\ UNCHANGED <<plan, disk, started, edits, seen>>

Rename(a) ==
  /\ job[a].pc = "rename"
  /\ disk' = [disk EXCEPT ![Head(job[a].out).file] = Head(job[a].out).doc]
  /\ job' = [job EXCEPT
       ![a].pc = IF Len(job[a].out) > 1 THEN "write" ELSE "done",
       ![a].out = IF Len(@) > 1 THEN Tail(@) ELSE @]
  /\ UNCHANGED <<plan, started, edits>>
  /\ seen' = Noticed

\* An I/O error, a full disk, or the death of the program.
Fail(a) ==
  /\ plan.faults
  /\ job[a].pc \in {"write", "rename"}
  /\ job' = [job EXCEPT ![a] = [Idle EXCEPT !.pc = "failed"]]
  /\ UNCHANGED <<plan, disk, started, edits, seen>>

Next ==
  \/ \E p \in Paths, t \in plan.texts : Edit(p, t)
  \/ \E p \in Range(plan.order) : Compile(p)
  \/ \E a \in Assemblers : LoadManifest(a) \/ ReadInput(a) \/ Build(a)
  \/ \E a \in Programs : WriteTemporary(a) \/ Rename(a) \/ Fail(a)

Spec == Init /\ [][Next]_vars

(***************************************************************************)
(* A graph is made only from texts that its sources still held at some     *)
(* moment after the assembler was started, or that the frozen snapshot     *)
(* holds: with a snapshot there is no fall-back to the live source         *)
(* (verify_source in the three assemblers, graph_source_snapshot.h).       *)
(***************************************************************************)
FreshWhenRead ==
  \A a \in Assemblers :
    job[a].pc \in {"write", "rename", "done"} =>
      \A s \in Range(Receipts(job[a].out[1].doc)) : s.text \in seen[a][s.path]
=============================================================================
