-------------------------- MODULE ProjectGraphProofs --------------------------
(***************************************************************************)
(* What holds of the assemblers of project graphs for every project, any   *)
(* number of sources and any interleaving of edits, exports, assemblies    *)
(* and failures.                                                           *)
(***************************************************************************)
EXTENDS ProjectGraphs, FiniteSetTheorems, TLAPS

(***************************************************************************)
(* Sorting by path gives back the documents that were sorted: the ranks    *)
(* of n documents are different numbers of 1 .. n.                         *)
(***************************************************************************)
Before(docs, i) ==
  {j \in DOMAIN docs : \/ docs[j].path < docs[i].path
                       \/ docs[j].path = docs[i].path /\ j <= i}

LEMMA RankIsCardinality ==
  ASSUME NEW docs, NEW i
  PROVE  PathRank(docs, i) = Cardinality(Before(docs, i))
BY DEF PathRank, Before

LEMMA RankInRange ==
  ASSUME NEW n \in Nat, NEW docs, DOMAIN docs = 1 .. n,
         NEW i \in 1 .. n, docs[i].path \in Nat
  PROVE  /\ IsFiniteSet(Before(docs, i))
         /\ PathRank(docs, i) \in 1 .. n
<1>1. IsFiniteSet(1 .. n) /\ Cardinality(1 .. n) = n
  BY FS_Interval
<1>2. Before(docs, i) \in SUBSET (1 .. n) /\ i \in Before(docs, i)
  BY DEF Before
<1>3. IsFiniteSet(Before(docs, i)) /\ Cardinality(Before(docs, i)) <= n
  BY <1>1, <1>2, FS_Subset
<1>4. Cardinality(Before(docs, i)) \in Nat
  BY <1>3, FS_CardinalityType
<1>5. Cardinality(Before(docs, i)) # 0
  BY <1>2, <1>3, FS_EmptySet
<1> QED
  BY <1>3, <1>4, <1>5, RankIsCardinality

LEMMA RanksGrow ==
  ASSUME NEW n \in Nat, NEW docs, DOMAIN docs = 1 .. n,
         NEW i \in 1 .. n, NEW j \in 1 .. n,
         docs[i].path \in Nat, docs[j].path \in Nat,
         \A l \in 1 .. n : docs[l].path \in Nat,
         \/ docs[i].path < docs[j].path
         \/ docs[i].path = docs[j].path /\ i < j
  PROVE  PathRank(docs, i) # PathRank(docs, j)
<1>1. Before(docs, i) \in SUBSET Before(docs, j)
  BY DEF Before
<1>2. j \in Before(docs, j) /\ j \notin Before(docs, i)
  BY DEF Before
<1>3. IsFiniteSet(Before(docs, j))
  BY RankInRange
<1>4. Cardinality(Before(docs, j)) = Cardinality(Before(docs, i))
        => Before(docs, j) = Before(docs, i)
  BY <1>1, <1>3, FS_Subset
<1> QED
  BY <1>2, <1>4, RankIsCardinality

LEMMA RanksOnto ==
  ASSUME NEW n \in Nat, NEW docs, DOMAIN docs = 1 .. n,
         \A l \in 1 .. n : docs[l].path \in Nat
  PROVE  \A k \in 1 .. n : \E i \in 1 .. n : PathRank(docs, i) = k
<1> DEFINE rank == [i \in 1 .. n |-> PathRank(docs, i)]
<1>1. \A i \in 1 .. n : PathRank(docs, i) \in 1 .. n
  BY RankInRange
<1>2. rank \in [1 .. n -> 1 .. n]
  BY <1>1
<1>3. ASSUME NEW i \in 1 .. n, NEW j \in 1 .. n, i # j
      PROVE  PathRank(docs, i) # PathRank(docs, j)
  <2>1. \/ docs[i].path < docs[j].path
        \/ docs[i].path = docs[j].path /\ i < j
        \/ docs[j].path < docs[i].path
        \/ docs[j].path = docs[i].path /\ j < i
    BY <1>3
  <2> QED
    BY <2>1, RanksGrow
<1>4. rank \in Injection(1 .. n, 1 .. n)
  BY <1>2, <1>3 DEF Injection, IsInjective
<1> HIDE DEF rank
<1>5. IsFiniteSet(1 .. n)
  <2>1. 1 \in Int /\ n \in Int
    OBVIOUS
  <2> QED
    BY <2>1, FS_Interval, Zenon
<1>6. rank \in Surjection(1 .. n, 1 .. n)
  BY <1>4, <1>5, FS_Injection
<1>7. \A k \in 1 .. n : \E i \in 1 .. n : rank[i] = k
  BY <1>6 DEF Surjection
<1> QED
  BY <1>7 DEF rank

\* Every element of the sorted documents is one of the documents.
LEMMA SortedElements ==
  ASSUME NEW n \in Nat, NEW docs, DOMAIN docs = 1 .. n,
         \A l \in 1 .. n : docs[l].path \in Nat
  PROVE  /\ DOMAIN SortByPath(docs) = 1 .. n
         /\ \A k \in 1 .. n : \E i \in 1 .. n : SortByPath(docs)[k] = docs[i]
<1>1. DOMAIN SortByPath(docs) = 1 .. n
  BY DEF SortByPath
<1>2. \A k \in 1 .. n : \E i \in 1 .. n : PathRank(docs, i) = k
  BY RanksOnto
<1>3. ASSUME NEW k \in 1 .. n
      PROVE  \E i \in 1 .. n : SortByPath(docs)[k] = docs[i]
  <2> DEFINE c == CHOOSE i \in DOMAIN docs : PathRank(docs, i) = k
  <2>1. \E i \in DOMAIN docs : PathRank(docs, i) = k
    BY <1>2
  <2>2. c \in 1 .. n
    BY <2>1
  <2>3. SortByPath(docs)[k] = docs[c]
    BY DEF SortByPath
  <2> QED
    BY <2>2, <2>3
<1> QED
  BY <1>1, <1>3

-------------------------------------------------------------------------------
(***************************************************************************)
(* Sequences whose elements have no common type.                           *)
(***************************************************************************)
IsSequence(s) == Len(s) \in Nat /\ s = [i \in 1 .. Len(s) |-> s[i]]

LEMMA SequenceOf ==
  ASSUME NEW s, IsSequence(s), NEW T, \A i \in 1 .. Len(s) : s[i] \in T
  PROVE  s \in Seq(T)
BY DEF IsSequence

LEMMA IsSequenceOf ==
  ASSUME NEW T, NEW s \in Seq(T)
  PROVE  IsSequence(s) /\ DOMAIN s = 1 .. Len(s)
BY DEF IsSequence

LEMMA SequenceDomain ==
  ASSUME NEW s, IsSequence(s)
  PROVE  DOMAIN s = 1 .. Len(s)
BY DEF IsSequence

LEMMA EmptySequence ==
  ASSUME NEW s, IsSequence(s), Len(s) = 0
  PROVE  s = <<>>
<1>1. s \in Seq({})
  BY SequenceOf
<1> QED
  BY <1>1

LEMMA FunctionIsSequence ==
  ASSUME NEW n \in Nat, NEW s, DOMAIN s = 1 .. n, s = [i \in 1 .. n |-> s[i]]
  PROVE  IsSequence(s) /\ Len(s) = n
<1>1. s \in Seq({s[i] : i \in 1 .. n})
  OBVIOUS
<1>2. Len(s) = n
  BY <1>1
<1> QED
  BY <1>1, <1>2, IsSequenceOf

LEMMA SequenceAppend ==
  ASSUME NEW s, IsSequence(s), NEW e
  PROVE  /\ IsSequence(Append(s, e))
         /\ Len(Append(s, e)) = Len(s) + 1
         /\ \A i \in 1 .. Len(s) : Append(s, e)[i] = s[i]
         /\ Append(s, e)[Len(s) + 1] = e
<1> DEFINE T == {s[i] : i \in 1 .. Len(s)} \cup {e}
<1>1. s \in Seq(T) /\ e \in T
  BY SequenceOf
<1> HIDE DEF T
<1>2. Append(s, e) \in Seq(T) /\ Len(Append(s, e)) = Len(s) + 1
  BY <1>1
<1>3. \A i \in 1 .. Len(s) : Append(s, e)[i] = s[i]
  BY <1>1
<1>4. Append(s, e)[Len(s) + 1] = e
  BY <1>1
<1>5. IsSequence(Append(s, e))
  BY <1>2, IsSequenceOf, Zenon
<1> QED
  BY <1>2, <1>3, <1>4, <1>5

LEMMA SequenceTail ==
  ASSUME NEW s, IsSequence(s), Len(s) > 0
  PROVE  /\ IsSequence(Tail(s))
         /\ Len(Tail(s)) = Len(s) - 1
         /\ \A i \in 1 .. Len(s) - 1 : Tail(s)[i] = s[i + 1]
         /\ Head(s) = s[1]
<1> DEFINE T == {s[i] : i \in 1 .. Len(s)}
<1>1. s \in Seq(T)
  BY SequenceOf
<1> HIDE DEF T
<1>2. s # <<>>
  BY <1>1
<1>3. Tail(s) \in Seq(T) /\ Len(Tail(s)) = Len(s) - 1
  BY <1>1, <1>2
<1>4. \A i \in 1 .. Len(s) - 1 : Tail(s)[i] = s[i + 1]
  BY <1>1, <1>2
<1>5. Head(s) = s[1]
  BY <1>1, <1>2
<1>6. IsSequence(Tail(s))
  BY <1>3, IsSequenceOf, Zenon
<1> QED
  BY <1>3, <1>4, <1>5, <1>6

-------------------------------------------------------------------------------
(***************************************************************************)
(* What is read has been verified, and what is built names what was read.  *)
(***************************************************************************)
LEMMA BytesOfSource ==
  ASSUME NEW path, NEW text \in SourceBytes(path)
  PROVE  path \in Paths /\ text = SourceText(path)
BY DEF SourceBytes

LEMMA IndicesKeepReceipt ==
  ASSUME NEW doc, canonicalize_indices(doc) # Failed
  PROVE  /\ canonicalize_indices(doc).path = doc.path
         /\ canonicalize_indices(doc).text = doc.text
BY DEF canonicalize_indices

LEMMA ArtifactVerified ==
  ASSUME NEW doc, NEW bytes,
         fisics_semantic_metadata_artifact_load(doc, bytes) # Failed
  PROVE  /\ fisics_semantic_metadata_artifact_load(doc, bytes).path = doc.path
         /\ fisics_semantic_metadata_artifact_load(doc, bytes).text = doc.text
         /\ doc.text \in bytes
<1>1. /\ fisics_semantic_metadata_artifact_load(doc, bytes) = canonicalize_indices(doc)
      /\ doc.text \in bytes
  BY DEF fisics_semantic_metadata_artifact_load, verify_source
<1> QED
  BY <1>1, IndicesKeepReceipt

LEMMA UnitsVerified ==
  ASSUME NEW doc, NEW bytes, parse_units_artifact(doc, bytes) # Failed
  PROVE  parse_units_artifact(doc, bytes) = doc /\ doc.text \in bytes
BY DEF parse_units_artifact, verify_units_source

LEMMA ReceiptVerified ==
  ASSUME NEW receipt, NEW bytes, verify_receipt(receipt, bytes) # Failed
  PROVE  verify_receipt(receipt, bytes) = receipt /\ receipt.text \in bytes
BY DEF verify_receipt

LEMMA PhysicalRead ==
  ASSUME NEW doc, parse_physical_graph(doc) # Failed
  PROVE  parse_physical_graph(doc) = doc /\ doc.type = "physical_graph"
BY DEF parse_physical_graph

\* docs is an array of n documents with a path.
Documents(docs, n) == DOMAIN docs = 1 .. n /\ \A i \in 1 .. n : docs[i].path \in Nat

\* Each of the receipts is that of one of the n documents.
NamesOnly(receipts, docs, n) ==
  \A s \in Range(receipts) :
    \E i \in 1 .. n : s.path = docs[i].path /\ s.text = docs[i].text

LEMMA SemanticSources ==
  ASSUME NEW n \in Nat, NEW docs, Documents(docs, n), NEW externals,
         fisics_semantic_project_graph_build(docs, externals) # Failed
  PROVE  LET graph == fisics_semantic_project_graph_build(docs, externals) IN
         graph.type = "semantic_graph" /\ NamesOnly(graph.sources, docs, n)
<1> USE DEF Documents
<1> DEFINE graph == fisics_semantic_project_graph_build(docs, externals)
           units == SortByPath(docs)
           records == ProjectRecords(units)
<1>1. graph = SemanticDocument(units, externals, records,
                               ProjectEdges(units, records, externals))
  BY DEF fisics_semantic_project_graph_build
<1>2. /\ graph.type = "semantic_graph"
      /\ graph.sources = [u \in DOMAIN units |->
                            [path |-> units[u].path, text |-> units[u].text]]
  BY <1>1 DEF SemanticDocument
<1> HIDE DEF graph, units, records
<1>3. DOMAIN units = 1 .. n
  BY SortedElements DEF units
<1>4. \A k \in 1 .. n : \E i \in 1 .. n : units[k] = docs[i]
  BY SortedElements DEF units
<1>5. ASSUME NEW s \in Range(graph.sources)
      PROVE  \E i \in 1 .. n : s.path = docs[i].path /\ s.text = docs[i].text
  <2>1. PICK u \in 1 .. n : s = [path |-> units[u].path, text |-> units[u].text]
    BY <1>2, <1>3 DEF Range
  <2>2. PICK i \in 1 .. n : units[u] = docs[i]
    BY <1>4
  <2> QED
    BY <2>1, <2>2
<1> QED
  BY <1>2, <1>5 DEF graph, NamesOnly

LEMMA PhysicalSources ==
  ASSUME NEW n \in Nat, NEW docs, Documents(docs, n),
         NEW sem, NEW catalogs, NEW coverage, NEW evidence,
         fisics_physical_project_graph_build(sem, docs, catalogs, coverage, evidence)
           # Failed
  PROVE  LET graph == fisics_physical_project_graph_build(sem, docs, catalogs, coverage,
                                                          evidence) IN
         /\ graph.type = "physical_graph"
         /\ IsSequence(graph.sources)
         /\ NamesOnly(graph.sources, docs, n)
<1> USE DEF Documents
<1> DEFINE graph == fisics_physical_project_graph_build(sem, docs, catalogs, coverage,
                                                        evidence)
           receipts == [u \in DOMAIN docs |-> [path |-> docs[u].path, text |-> docs[u].text]]
           sorted == SortByPath(receipts)
<1>1. ASSUME NEW kinds, NEW attachments, NEW joined, NEW contracts,
             GraphOf(sem, docs, kinds, attachments, joined, contracts, coverage) # Failed
      PROVE  LET g == GraphOf(sem, docs, kinds, attachments, joined, contracts, coverage)
             IN g.type = "physical_graph" /\ g.sources = sorted
  BY <1>1 DEF GraphOf
<1>2. ASSUME NEW attachments, NEW loaded,
             join_catalogs(sem, docs, attachments, loaded, coverage, evidence) # Failed
      PROVE  LET g == join_catalogs(sem, docs, attachments, loaded, coverage, evidence)
             IN g.type = "physical_graph" /\ g.sources = sorted
  <2> HIDE DEF sorted
  <2> DEFINE joined == join_bindings(sem.records, attachments)
             contracts == validate_contracts(sem, Range(loaded.kinds), attachments, joined,
                                             evidence, loaded.contracts)
  <2>1. join_catalogs(sem, docs, attachments, loaded, coverage, evidence)
          = GraphOf(sem, docs, Range(loaded.kinds), attachments, joined, contracts, coverage)
    BY <1>2 DEF join_catalogs, validate_join
  <2> HIDE DEF joined, contracts
  <2> QED
    BY <1>1, <1>2, <2>1
<1>3. graph.type = "physical_graph" /\ graph.sources = sorted
  <2> HIDE DEF sorted
  <2>1. graph = join_catalogs(sem, docs, Attachments(docs), LoadedCatalogs(catalogs),
                              coverage, evidence)
    BY DEF fisics_physical_project_graph_build
  <2> QED
    BY <1>2, <2>1
<1> HIDE DEF graph
<1>4. DOMAIN receipts = 1 .. n /\ \A i \in 1 .. n : receipts[i].path \in Nat
  OBVIOUS
<1>5. \A i \in 1 .. n : receipts[i] = [path |-> docs[i].path, text |-> docs[i].text]
  OBVIOUS
<1> HIDE DEF receipts
<1>6. DOMAIN sorted = 1 .. n
  BY <1>4, SortedElements
<1>7. \A k \in 1 .. n : \E i \in 1 .. n : sorted[k] = receipts[i]
  BY <1>4, SortedElements
<1>8. sorted = [i \in 1 .. n |-> sorted[i]]
  BY <1>4 DEF SortByPath
<1> HIDE DEF sorted
<1>9. IsSequence(sorted)
  BY <1>6, <1>8, FunctionIsSequence
<1>10. ASSUME NEW s \in Range(sorted)
       PROVE  \E i \in 1 .. n : s.path = docs[i].path /\ s.text = docs[i].text
  <2>1. PICK k \in 1 .. n : s = sorted[k]
    BY <1>6 DEF Range
  <2>2. PICK i \in 1 .. n : sorted[k] = receipts[i]
    BY <1>7
  <2>3. s = [path |-> docs[i].path, text |-> docs[i].text]
    BY <1>5, <2>1, <2>2
  <2>4. s.path = docs[i].path /\ s.text = docs[i].text
    BY <2>3
  <2> QED
    BY <2>4
<1> QED
  BY <1>3, <1>9, <1>10 DEF graph, NamesOnly

LEMMA HardwareSources ==
  ASSUME NEW physical, NEW catalogs, NEW topology, NEW evidence, NEW ports,
         fisics_hardware_project_graph_build(physical, catalogs, topology, evidence, ports)
           # Failed
  PROVE  LET graph == fisics_hardware_project_graph_build(physical, catalogs, topology,
                                                          evidence, ports) IN
         graph.type = "hardware_graph" /\ graph.physical = physical
BY DEF fisics_hardware_project_graph_build, HardwareDocument

-------------------------------------------------------------------------------
(***************************************************************************)
(* The inductive invariant.  Watching is what makes a verification count:  *)
(* while an assembler reads, what its sources hold is among what they have *)
(* held since it was started.  Reading says what has been verified so far: *)
(* every metadata document, every units document (the semantic graph that  *)
(* comes first is not verified), and the receipts of the physical graph up *)
(* to the one at hand.                                                     *)
(***************************************************************************)
Fields == {"pc", "inputs", "out", "cause"}

Shapes == /\ DOMAIN job = Programs
          /\ DOMAIN seen = Programs
          /\ \A a \in Programs : DOMAIN job[a] = Fields
          /\ plan.order \in Seq(Paths)

Verified(a, s) == s.path \in Paths /\ s.text \in seen[a][s.path]

Watches(a) ==
  job[a].pc = "read" => \A p \in Paths : SourceText(p) \in seen[a][p]

Reads(a) ==
  job[a].pc = "read" =>
    LET inputs == job[a].inputs IN
    /\ IsSequence(inputs)
    /\ a = "semantic" => \A i \in 1 .. Len(inputs) : Verified(a, inputs[i])
    /\ a # "semantic" => \A i \in 2 .. Len(inputs) : Verified(a, inputs[i])
    /\ a = "hardware" /\ Len(inputs) > 0 =>
         /\ IsSequence(inputs[1].sources)
         /\ \A i \in 2 .. Len(inputs) : inputs[i] = inputs[1].sources[i - 1]

Publishing == {"write", "rename", "done"}

\* What an assembler publishes: one graph.
Assembles(a) ==
  job[a].pc \in Publishing =>
    /\ job[a].out = <<job[a].out[1]>>
    /\ \A s \in Range(Receipts(job[a].out[1].doc)) : Verified(a, s)
    /\ job[a].out[1].doc.type = "physical_graph" =>
         IsSequence(job[a].out[1].doc.sources)
    /\ output_path_safe(a, job[a].out[1].doc, job[a].out[1].file)

AssemblerInv(a) == Watches(a) /\ Reads(a) /\ Assembles(a)

\* What the compiler publishes is no graph.
Compiles ==
  job["compiler"].pc \in Publishing =>
    /\ IsSequence(job["compiler"].out)
    /\ Len(job["compiler"].out) > 0
    /\ \A i \in 1 .. Len(job["compiler"].out) :
         job["compiler"].out[i].doc.type # "physical_graph"

Stored ==
  /\ Graph("physical") \in DOMAIN disk
  /\ \A f \in DOMAIN disk :
       disk[f].type = "physical_graph" => IsSequence(disk[f].sources)

GraphInv == Shapes /\ (\A a \in Assemblers : AssemblerInv(a)) /\ Compiles /\ Stored

-------------------------------------------------------------------------------
\* A graph on its way out stays what it is while what was seen of its sources grows.
LEMMA GraphKept ==
  ASSUME NEW b \in Assemblers, Assembles(b), job[b].pc \in Publishing,
         job'[b].out = job[b].out, plan' = plan,
         \A p \in Paths : seen[b][p] \subseteq seen'[b][p]
  PROVE  Assembles(b)'
<1>1. /\ job[b].out = <<job[b].out[1]>>
      /\ \A s \in Range(Receipts(job[b].out[1].doc)) : Verified(b, s)
      /\ job[b].out[1].doc.type = "physical_graph" =>
           IsSequence(job[b].out[1].doc.sources)
      /\ output_path_safe(b, job[b].out[1].doc, job[b].out[1].file)
  BY DEF Assembles
<1>2. \A s \in Range(Receipts(job'[b].out[1].doc)) : Verified(b, s)'
  BY <1>1 DEF Verified
<1>3. InputFiles(b)' = InputFiles(b)
  BY DEF InputFiles, Metadata, UnitsFile, Graph
<1>4. output_path_safe(b, job[b].out[1].doc, job[b].out[1].file)'
  BY <1>1, <1>3 DEF output_path_safe, Range, Receipts, Source
<1>5. (job[b].out[1].doc.type = "physical_graph" =>
         IsSequence(job[b].out[1].doc.sources))'
  BY <1>1 DEF IsSequence
<1>6. (job[b].out = <<job[b].out[1]>>)'
  BY <1>1
<1> QED
  BY <1>2, <1>4, <1>5, <1>6 DEF Assembles, Range, Receipts, Verified

\* A program that does not move keeps its invariant.
LEMMA Unmoved ==
  ASSUME NEW b \in Assemblers, AssemblerInv(b), job'[b] = job[b], plan' = plan,
         \A p \in Paths : seen[b][p] \subseteq seen'[b][p],
         \A p \in Paths : \/ SourceText(p)' = SourceText(p)
                          \/ SourceText(p)' \in seen'[b][p]
  PROVE  AssemblerInv(b)'
<1>1. ASSUME NEW s, Verified(b, s)
      PROVE  Verified(b, s)'
  BY <1>1 DEF Verified
<1>2. Watches(b)'
  BY DEF Watches, AssemblerInv
<1>3. Reads(b)'
  BY <1>1 DEF Reads, AssemblerInv, Verified, IsSequence
<1>4. Assembles(b)'
  <2>1. CASE job[b].pc \in Publishing
    BY <2>1, GraphKept DEF AssemblerInv
  <2>2. CASE job[b].pc \notin Publishing
    BY <2>2 DEF Assembles, Publishing
  <2> QED
    BY <2>1, <2>2
<1> QED
  BY <1>2, <1>3, <1>4 DEF AssemblerInv

\* One program moves; the others keep what they have.
LEMMA OneMoves ==
  ASSUME GraphInv, NEW a \in Programs, plan' = plan,
         job' = [job EXCEPT ![a] = job'[a]], DOMAIN job'[a] = Fields,
         DOMAIN seen' = Programs,
         \A b \in Programs \ {a} : \A p \in Paths :
           /\ seen[b][p] \subseteq seen'[b][p]
           /\ SourceText(p)' = SourceText(p) \/ SourceText(p)' \in seen'[b][p],
         a \in Assemblers => AssemblerInv(a)',
         a = "compiler" => Compiles',
         Stored'
  PROVE  GraphInv'
<1>1. Shapes'
  BY DEF GraphInv, Shapes
<1>2. ASSUME NEW b \in Assemblers
      PROVE  AssemblerInv(b)'
  <2>1. CASE b = a
    BY <2>1
  <2>2. CASE b # a
    <3>1. b \in Programs \ {a} /\ AssemblerInv(b) /\ job'[b] = job[b]
      BY <2>2 DEF GraphInv, Shapes, Programs
    <3> QED
      BY <3>1, Unmoved
  <2> QED
    BY <2>1, <2>2
<1>3. Compiles'
  <2>1. CASE a = "compiler"
    BY <2>1
  <2>2. CASE a # "compiler"
    <3>1. job'["compiler"] = job["compiler"]
      BY <2>2 DEF GraphInv, Shapes, Programs
    <3> QED
      BY <3>1 DEF GraphInv, Compiles, IsSequence
  <2> QED
    BY <2>1, <2>2
<1> QED
  BY <1>1, <1>2, <1>3 DEF GraphInv

-------------------------------------------------------------------------------
LEMMA Initially ==
  ASSUME Init
  PROVE  GraphInv
<1>1. Shapes
  <2>1. plan.order \in Seq(Paths)
    BY ProjectAssumption DEF Init
  <2> QED
    BY <2>1 DEF Init, Shapes, Idle, Fields
<1>2. ASSUME NEW a \in Programs
      PROVE  job[a].pc = "idle"
  BY DEF Init, Idle
<1>3. ASSUME NEW a \in Assemblers
      PROVE  AssemblerInv(a)
  BY <1>2 DEF AssemblerInv, Watches, Reads, Assembles, Programs, Publishing
<1>4. Compiles
  BY <1>2 DEF Compiles, Programs, Publishing
<1>5. Stored
  <2>1. PICK k \in Plans : disk = Plan(k).disk
    BY DEF Init
  <2>2. Graph("physical") \in DOMAIN disk
    BY <2>1, ProjectAssumption DEF Assemblers
  <2>3. ASSUME NEW f \in DOMAIN disk, disk[f].type = "physical_graph"
        PROVE  IsSequence(disk[f].sources)
    <3>1. disk[f].sources \in Seq(Receipt)
      BY <2>1, <2>3, ProjectAssumption
    <3> QED
      BY <3>1, IsSequenceOf
  <2> QED
    BY <2>2, <2>3 DEF Stored
<1> QED
  BY <1>1, <1>3, <1>4, <1>5 DEF GraphInv

\* What Noticed adds.
LEMMA SeenGrows ==
  ASSUME seen' = Noticed
  PROVE  /\ DOMAIN seen' = Programs
         /\ \A b \in Programs : \A p \in Paths :
              seen[b][p] \subseteq seen'[b][p] /\ SourceText(p)' \in seen'[b][p]
BY DEF Noticed

LEMMA EditKeeps ==
  ASSUME GraphInv, NEW p \in Paths, NEW t, Edit(p, t)
  PROVE  GraphInv'
<1>1. job' = job /\ plan' = plan /\ seen' = Noticed
  BY DEF Edit
<1>2. Shapes'
  BY <1>1, SeenGrows DEF GraphInv, Shapes
<1>3. ASSUME NEW b \in Assemblers
      PROVE  AssemblerInv(b)'
  <2>1. b \in Programs /\ AssemblerInv(b)
    BY DEF GraphInv, Programs
  <2> QED
    BY <1>1, <2>1, SeenGrows, Unmoved
<1>4. Compiles'
  BY <1>1 DEF GraphInv, Compiles, IsSequence
<1>5. Stored'
  <2>1. disk' = [disk EXCEPT ![Source(p)] = [type |-> "source", path |-> p, text |-> t]]
    BY DEF Edit
  <2>2. DOMAIN disk' = DOMAIN disk
    BY <2>1
  <2>3. ASSUME NEW f \in DOMAIN disk, disk'[f].type = "physical_graph"
        PROVE  disk'[f] = disk[f]
    BY <2>1, <2>3
  <2> QED
    BY <2>2, <2>3 DEF GraphInv, Stored, Graph, IsSequence
<1> QED
  BY <1>2, <1>3, <1>4, <1>5 DEF GraphInv

LEMMA StoredStays ==
  ASSUME Stored, disk' = disk
  PROVE  Stored'
BY DEF Stored, Graph, IsSequence

\* A step that leaves the files alone leaves what a verification would read alone.
LEMMA SourcesStay ==
  ASSUME NEW p, plan' = plan, disk' = disk
  PROVE  SourceText(p)' = SourceText(p)
BY DEF SourceText, Source

LEMMA CompileKeeps ==
  ASSUME GraphInv, NEW p, Compile(p)
  PROVE  GraphInv'
<1> DEFINE t == disk[Source(p)].text
           unit == compile_translation_unit(p, t, Texts[t])
<1>1. /\ plan' = plan /\ disk' = disk
      /\ job' = [job EXCEPT !["compiler"] = Exported(p, t, unit)]
      /\ seen' = [seen EXCEPT !["compiler"] = [q \in Paths |-> {SourceText(q)}]]
  BY DEF Compile, Begin
<1>2. unit.metadata.type = "metadata" /\ unit.units.type = "units"
  BY DEF compile_translation_unit, Exports, collect_semantic_metadata_projection,
         MetadataDocument, collect_units_attachments, UnitsDocument
<1> HIDE DEF unit, t
<1>3. "compiler" \in Programs /\ "compiler" \notin Assemblers
  BY DEF Programs, Assemblers
<1>4. job'["compiler"] = Exported(p, t, unit)
  BY <1>1, <1>3 DEF GraphInv, Shapes
<1>5. DOMAIN Exported(p, t, unit) = Fields
  BY DEF Exported, Refuse, Fields
<1>6. Compiles'
  <2>1. CASE unit.error
    BY <1>4, <2>1 DEF Exported, Refuse, Compiles, Publishing
  <2>2. CASE ~unit.error
    <3>1. job'["compiler"].out = <<[file |-> Metadata(p), doc |-> unit.metadata],
                                   [file |-> UnitsFile(p), doc |-> unit.units]>>
      BY <1>4, <2>2 DEF Exported
    <3>2. /\ Len(job'["compiler"].out) = 2
          /\ job'["compiler"].out[1].doc.type # "physical_graph"
          /\ job'["compiler"].out[2].doc.type # "physical_graph"
          /\ job'["compiler"].out = [i \in 1 .. 2 |-> job'["compiler"].out[i]]
      BY <1>2, <3>1
    <3> QED
      BY <3>2 DEF Compiles, IsSequence
  <2> QED
    BY <2>1, <2>2
<1>7. Stored'
  BY <1>1, StoredStays DEF GraphInv
<1>8. \A b \in Programs \ {"compiler"} : seen'[b] = seen[b]
  BY <1>1 DEF GraphInv, Shapes
<1>9. DOMAIN seen' = Programs
  BY <1>1 DEF GraphInv, Shapes
<1>10. \A b \in Programs \ {"compiler"} : \A q \in Paths :
         /\ seen[b][q] \subseteq seen'[b][q]
         /\ SourceText(q)' = SourceText(q) \/ SourceText(q)' \in seen'[b][q]
  BY <1>1, <1>8, SourcesStay
<1>11. job' = [job EXCEPT !["compiler"] = job'["compiler"]]
  BY <1>1, <1>4
<1>12. DOMAIN job'["compiler"] = Fields
  BY <1>4, <1>5
<1> QED
  BY <1>1, <1>3, <1>6, <1>7, <1>9, <1>10, <1>11, <1>12, OneMoves

\* A step of one program that touches neither the files nor what was seen.
LEMMA MovesAlone ==
  ASSUME GraphInv, NEW a \in Programs, plan' = plan, disk' = disk, seen' = seen,
         job' = [job EXCEPT ![a] = job'[a]], DOMAIN job'[a] = Fields,
         a \in Assemblers => AssemblerInv(a)',
         a = "compiler" => Compiles'
  PROVE  GraphInv'
<1>1. Stored'
  BY StoredStays DEF GraphInv
<1>2. DOMAIN seen' = Programs
  BY DEF GraphInv, Shapes
<1>3. \A b \in Programs \ {a} : \A p \in Paths :
        /\ seen[b][p] \subseteq seen'[b][p]
        /\ SourceText(p)' = SourceText(p) \/ SourceText(p)' \in seen'[b][p]
  BY SourcesStay
<1> QED
  BY <1>1, <1>2, <1>3, OneMoves

\* A run that has ended, or has published nothing, has no obligation left.
LEMMA NothingOwed ==
  ASSUME NEW a, job'[a].pc \in {"idle", "failed", "refused"}
  PROVE  AssemblerInv(a)' /\ (a = "compiler" => Compiles')
BY DEF AssemblerInv, Watches, Reads, Assembles, Compiles, Publishing

LEMMA LoadKeeps ==
  ASSUME GraphInv, NEW a \in Assemblers, LoadManifest(a)
  PROVE  GraphInv'
<1>1. /\ plan' = plan /\ disk' = disk
      /\ job' = [job EXCEPT ![a] = IF ManifestLoads(a) THEN [Idle EXCEPT !.pc = "read"]
                                   ELSE Refuse([type |-> "manifest"])]
      /\ seen' = [seen EXCEPT ![a] = [p \in Paths |-> {SourceText(p)}]]
  BY DEF LoadManifest, Begin
<1>2. a \in Programs /\ a # "compiler"
  BY DEF Programs, Assemblers
<1>3. /\ \/ job'[a] = [Idle EXCEPT !.pc = "read"]
         \/ job'[a] = Refuse([type |-> "manifest"])
      /\ job' = [job EXCEPT ![a] = job'[a]]
  BY <1>1, <1>2 DEF GraphInv, Shapes
<1>4. DOMAIN job'[a] = Fields
  BY <1>3 DEF Idle, Refuse, Fields
<1>5. AssemblerInv(a)'
  <2>1. CASE job'[a] = Refuse([type |-> "manifest"])
    <3>1. job'[a].pc = "refused"
      BY <2>1 DEF Refuse
    <3> QED
      BY <3>1, NothingOwed
  <2>2. CASE job'[a] = [Idle EXCEPT !.pc = "read"]
    <3>1. job'[a].pc = "read" /\ job'[a].inputs = <<>>
      BY <2>2 DEF Idle
    <3>2. \A p \in Paths : seen'[a][p] = {SourceText(p)} /\ SourceText(p)' = SourceText(p)
      BY <1>1, <1>2, SourcesStay DEF GraphInv, Shapes
    <3>3. Watches(a)'
      BY <3>2 DEF Watches
    <3>4. Reads(a)'
      BY <3>1 DEF Reads, IsSequence
    <3>5. Assembles(a)'
      BY <3>1 DEF Assembles, Publishing
    <3> QED
      BY <3>3, <3>4, <3>5 DEF AssemblerInv
  <2> QED
    BY <1>3, <2>1, <2>2
<1>6. Stored'
  BY <1>1, StoredStays DEF GraphInv
<1>7. DOMAIN seen' = Programs /\ \A b \in Programs \ {a} : seen'[b] = seen[b]
  BY <1>1 DEF GraphInv, Shapes
<1>8. \A b \in Programs \ {a} : \A p \in Paths :
        /\ seen[b][p] \subseteq seen'[b][p]
        /\ SourceText(p)' = SourceText(p) \/ SourceText(p)' \in seen'[b][p]
  BY <1>1, <1>7, SourcesStay
<1> QED
  BY <1>1, <1>2, <1>3, <1>4, <1>5, <1>6, <1>7, <1>8, OneMoves

\* What an assembler reads next is verified against what its sources hold.
LEMMA NextInputVerified ==
  ASSUME GraphInv, NEW a \in Assemblers, job[a].pc = "read", NextInput(a) # Failed
  PROVE  /\ a = "semantic" \/ Len(job[a].inputs) > 0 => Verified(a, NextInput(a))
         /\ a = "hardware" /\ Len(job[a].inputs) > 0 =>
              NextInput(a) = job[a].inputs[1].sources[Len(job[a].inputs)]
         /\ a = "hardware" /\ Len(job[a].inputs) = 0 =>
              IsSequence(NextInput(a).sources)
<1> DEFINE k == Len(job[a].inputs) + 1
           doc == disk[InputFiles(a)[k]]
           receipt == job[a].inputs[1].sources[k - 1]
<1>1. Len(job[a].inputs) \in Nat
  BY DEF GraphInv, AssemblerInv, Reads, IsSequence
<1>2. ASSUME NEW s, s.text \in SourceBytes(s.path)
      PROVE  Verified(a, s)
  <2>1. s.path \in Paths /\ s.text = SourceText(s.path)
    BY <1>2, BytesOfSource
  <2> QED
    BY <2>1 DEF GraphInv, AssemblerInv, Watches, Verified
<1>3. CASE a = "semantic"
  <2>1. NextInput(a) = fisics_semantic_metadata_artifact_load(doc, SourceBytes(doc.path))
    BY <1>3 DEF NextInput
  <2> HIDE DEF doc
  <2>2. /\ NextInput(a).path = doc.path /\ NextInput(a).text = doc.text
        /\ doc.text \in SourceBytes(doc.path)
    BY <2>1, ArtifactVerified
  <2> QED
    BY <1>2, <1>3, <2>2
<1>4. CASE a = "physical" /\ k > 1
  <2>1. NextInput(a) = parse_units_artifact(doc, SourceBytes(doc.path))
    BY <1>4 DEF NextInput
  <2> HIDE DEF doc
  <2>2. NextInput(a) = doc /\ doc.text \in SourceBytes(doc.path)
    BY <2>1, UnitsVerified
  <2> QED
    BY <1>2, <1>4, <2>2
<1>5. CASE a = "hardware" /\ k > 1
  <2>1. NextInput(a) = verify_receipt(receipt, SourceBytes(receipt.path))
    BY <1>5 DEF NextInput
  <2>2. receipt = job[a].inputs[1].sources[Len(job[a].inputs)]
    BY <1>1
  <2> HIDE DEF receipt
  <2>3. NextInput(a) = receipt /\ receipt.text \in SourceBytes(receipt.path)
    BY <2>1, ReceiptVerified
  <2>4. Verified(a, NextInput(a))
    BY <1>2, <2>3
  <2> QED
    BY <1>1, <1>5, <2>2, <2>3, <2>4
<1>6. CASE a = "hardware" /\ k = 1
  <2>1. NextInput(a) = parse_physical_graph(doc)
    BY <1>6 DEF NextInput
  <2>2. doc = disk[Graph("physical")]
    BY <1>6 DEF InputFiles
  <2> HIDE DEF doc
  <2>3. NextInput(a) = doc /\ doc.type = "physical_graph"
    BY <2>1, PhysicalRead
  <2>4. IsSequence(NextInput(a).sources)
    BY <2>2, <2>3 DEF GraphInv, Stored
  <2> QED
    BY <1>1, <1>6, <2>4
<1>7. CASE a = "physical" /\ k = 1
  BY <1>1, <1>7
<1>8. k = 1 \/ k > 1
  BY <1>1
<1>9. a \in {"semantic", "physical", "hardware"}
  BY DEF Assemblers
<1> HIDE DEF k
<1> QED
  BY Zenon, <1>3, <1>4, <1>5, <1>6, <1>7, <1>8, <1>9

LEMMA ReadKeeps ==
  ASSUME GraphInv, NEW a \in Assemblers, ReadInput(a)
  PROVE  GraphInv'
<1> DEFINE read == NextInput(a)
           inputs == job[a].inputs
<1>1. /\ plan' = plan /\ disk' = disk /\ seen' = seen /\ job[a].pc = "read"
      /\ job' = [job EXCEPT ![a] = Accept(a, read)]
  BY DEF ReadInput
<1>2. a \in Programs /\ a # "compiler"
  BY DEF Programs, Assemblers
<1>3. /\ job'[a] = Accept(a, read)
      /\ job' = [job EXCEPT ![a] = job'[a]]
      /\ DOMAIN job[a] = Fields
  BY <1>1, <1>2 DEF GraphInv, Shapes
<1> HIDE DEF read
<1>4. CASE read = Failed
  <2>1. job'[a].pc = "refused" /\ DOMAIN job'[a] = Fields
    BY <1>3, <1>4 DEF Accept, Refuse, Fields
  <2>2. AssemblerInv(a)'
    BY <2>1, NothingOwed
  <2> QED
    BY <1>1, <1>2, <1>3, <2>1, <2>2, MovesAlone
<1>5. CASE read # Failed
  <2>1. job'[a] = [job[a] EXCEPT !.inputs = Append(inputs, read)]
    BY <1>3, <1>5 DEF Accept
  <2>2. /\ DOMAIN job'[a] = Fields
        /\ job'[a].pc = "read"
        /\ job'[a].inputs = Append(inputs, read)
    BY <1>1, <1>3, <2>1 DEF Fields
  <2>3. Watches(a)'
    BY <1>1, <2>2, SourcesStay DEF GraphInv, AssemblerInv, Watches
  <2>4. /\ IsSequence(inputs)
        /\ a = "semantic" => \A i \in 1 .. Len(inputs) : Verified(a, inputs[i])
        /\ a # "semantic" => \A i \in 2 .. Len(inputs) : Verified(a, inputs[i])
        /\ a = "hardware" /\ Len(inputs) > 0 =>
             /\ IsSequence(inputs[1].sources)
             /\ \A i \in 2 .. Len(inputs) : inputs[i] = inputs[1].sources[i - 1]
    BY <1>1 DEF GraphInv, AssemblerInv, Reads
  <2>5. /\ a = "semantic" \/ Len(inputs) > 0 => Verified(a, read)
        /\ a = "hardware" /\ Len(inputs) > 0 =>
             read = inputs[1].sources[Len(inputs)]
        /\ a = "hardware" /\ Len(inputs) = 0 => IsSequence(read.sources)
    BY <1>1, <1>5, NextInputVerified DEF read
  <2>6. Reads(a)'
    <3> DEFINE longer == Append(inputs, read)
               n == Len(inputs)
    <3>1. /\ IsSequence(longer) /\ Len(longer) = n + 1
          /\ longer[n + 1] = read
          /\ \A i \in 1 .. n : longer[i] = inputs[i]
      BY <2>4, SequenceAppend
    <3>2. n \in Nat
      BY <2>4 DEF IsSequence
    <3> HIDE DEF longer, n
    <3>3. a = "semantic" => \A i \in 1 .. Len(longer) : Verified(a, longer[i])
      BY <2>4, <2>5, <3>1, <3>2 DEF n
    <3>4. a # "semantic" => \A i \in 2 .. Len(longer) : Verified(a, longer[i])
      BY <2>4, <2>5, <3>1, <3>2 DEF n
    <3>5. ASSUME a = "hardware"
          PROVE  /\ IsSequence(longer[1].sources)
                 /\ \A i \in 2 .. Len(longer) : longer[i] = longer[1].sources[i - 1]
      <4>1. CASE n = 0
        BY <2>5, <3>1, <3>5, <4>1 DEF n
      <4>2. CASE n > 0
        <5>1. longer[1] = inputs[1]
          BY <3>1, <3>2, <4>2
        <5>2. IsSequence(longer[1].sources)
          BY <2>4, <3>5, <4>2, <5>1 DEF n
        <5>3. \A i \in 2 .. n : longer[i] = longer[1].sources[i - 1]
          BY <2>4, <3>1, <3>2, <3>5, <4>2, <5>1 DEF n
        <5>4. longer[n + 1] = longer[1].sources[(n + 1) - 1]
          BY <2>5, <3>1, <3>2, <3>5, <4>2, <5>1 DEF n
        <5> QED
          BY <3>1, <3>2, <5>2, <5>3, <5>4
      <4> QED
        BY <3>2, <4>1, <4>2
    <3>6. job'[a].inputs = longer
      BY <2>2 DEF longer
    <3> QED
      BY <1>1, <3>1, <3>3, <3>4, <3>5, <3>6 DEF Reads, Verified, IsSequence
  <2>7. Assembles(a)'
    BY <2>2 DEF Assembles, Publishing
  <2>8. AssemblerInv(a)'
    BY <2>3, <2>6, <2>7 DEF AssemblerInv
  <2> QED
    BY <1>1, <1>2, <1>3, <2>2, <2>8, MovesAlone
<1> QED
  BY <1>4, <1>5

\* The sources a graph names are the ones its assembler has verified.
LEMMA AssembledVerified ==
  ASSUME GraphInv, NEW a \in Assemblers, job[a].pc = "read",
         Len(job[a].inputs) = InputCount(a), Assemble(a) # Failed
  PROVE  /\ \A s \in Range(Receipts(Assemble(a))) : Verified(a, s)
         /\ Assemble(a).type = "physical_graph" => IsSequence(Assemble(a).sources)
<1> DEFINE inputs == job[a].inputs
           graph == Assemble(a)
<1>1. /\ IsSequence(inputs)
      /\ a = "semantic" => \A i \in 1 .. Len(inputs) : Verified(a, inputs[i])
      /\ a # "semantic" => \A i \in 2 .. Len(inputs) : Verified(a, inputs[i])
      /\ a = "hardware" /\ Len(inputs) > 0 =>
           /\ IsSequence(inputs[1].sources)
           /\ \A i \in 2 .. Len(inputs) : inputs[i] = inputs[1].sources[i - 1]
  BY DEF GraphInv, AssemblerInv, Reads
<1>2. Len(inputs) \in Nat /\ DOMAIN inputs = 1 .. Len(inputs)
  BY <1>1, SequenceDomain DEF IsSequence
<1>3. ASSUME NEW s, NEW t, Verified(a, t), s.path = t.path, s.text = t.text
      PROVE  Verified(a, s)
  BY <1>3 DEF Verified
<1>4. CASE a = "semantic"
  <2>1. graph = fisics_semantic_project_graph_build(inputs, plan.externals)
    BY <1>4 DEF Assemble
  <2>2. Documents(inputs, Len(inputs))
    BY <1>1, <1>2, <1>4, ProjectAssumption DEF Verified, Documents
  <2>3. graph # Failed
    OBVIOUS
  <2> HIDE DEF inputs, graph
  <2>4. /\ graph.type = "semantic_graph"
        /\ NamesOnly(graph.sources, inputs, Len(inputs))
    BY <1>2, <2>1, <2>2, <2>3, SemanticSources
  <2>5. Receipts(graph) = graph.sources
    BY <2>4 DEF Receipts
  <2>6. \A s \in Range(Receipts(graph)) : Verified(a, s)
    BY <1>1, <1>3, <1>4, <2>4, <2>5 DEF NamesOnly
  <2> QED
    BY <2>4, <2>6 DEF graph
<1>5. CASE a = "physical"
  <2> DEFINE units == Tail(inputs)
             n == Len(inputs) - 1
  <2>1. graph = fisics_physical_project_graph_build(Head(inputs), units, plan.contracts,
                  plan.coverage, plan.evidence)
    BY <1>5 DEF Assemble
  <2>2. Len(inputs) > 0
    BY <1>2, <1>5 DEF InputCount, GraphInv, Shapes
  <2>3. /\ IsSequence(units) /\ Len(units) = n
        /\ \A i \in 1 .. n : units[i] = inputs[i + 1]
    BY <1>1, <2>2, SequenceTail
  <2>4. n \in Nat
    BY <1>2, <2>2
  <2>5. \A i \in 1 .. n : Verified(a, units[i])
    BY <1>1, <1>2, <1>5, <2>3, <2>4
  <2> HIDE DEF inputs, graph, units, n
  <2>6. DOMAIN units = 1 .. n
    BY <2>3, SequenceDomain
  <2>7. Documents(units, n)
    BY <2>5, <2>6, ProjectAssumption DEF Verified, Documents
  <2>8. graph # Failed
    BY DEF graph
  <2>9. /\ graph.type = "physical_graph"
        /\ IsSequence(graph.sources)
        /\ NamesOnly(graph.sources, units, n)
    BY <2>1, <2>4, <2>7, <2>8, PhysicalSources
  <2>10. Receipts(graph) = graph.sources
    BY <2>9 DEF Receipts
  <2>11. \A s \in Range(Receipts(graph)) : Verified(a, s)
    BY <1>3, <2>5, <2>9, <2>10 DEF NamesOnly
  <2> QED
    BY <2>9, <2>11 DEF graph
<1>6. CASE a = "hardware"
  <2>1. graph = fisics_hardware_project_graph_build(Head(inputs), plan.components,
                  plan.topology, plan.hardware_evidence, plan.ports)
    BY <1>6 DEF Assemble
  <2>2. inputs # <<>> /\ Len(inputs) = Len(inputs[1].sources) + 1
    BY <1>6 DEF InputCount
  <2>3. Len(inputs) > 0
    <3>1. Len(inputs) # 0
      BY <1>1, <2>2, EmptySequence
    <3> HIDE DEF inputs
    <3> QED
      BY <1>2, <3>1
  <2>4. Head(inputs) = inputs[1]
    BY <1>1, <2>3, SequenceTail
  <2> HIDE DEF inputs, graph
  <2>5. graph.type = "hardware_graph" /\ graph.physical = inputs[1]
    BY <2>1, <2>4, HardwareSources DEF graph
  <2>6. Receipts(graph) = inputs[1].sources
    BY <2>5 DEF Receipts
  <2>7. /\ IsSequence(inputs[1].sources)
        /\ DOMAIN inputs[1].sources = 1 .. Len(inputs[1].sources)
    BY <1>1, <1>6, <2>3, SequenceDomain
  <2>8. ASSUME NEW s \in Range(Receipts(graph))
        PROVE  Verified(a, s)
    <3>1. PICK i \in 1 .. Len(inputs[1].sources) : s = inputs[1].sources[i]
      BY <2>6, <2>7 DEF Range
    <3>2. i + 1 \in 2 .. Len(inputs) /\ (i + 1) - 1 = i
      BY <2>2, <2>7 DEF IsSequence
    <3>3. inputs[i + 1] = s
      BY <1>1, <1>6, <2>3, <3>1, <3>2
    <3> QED
      BY <1>1, <1>6, <3>2, <3>3
  <2> QED
    BY <2>5, <2>8 DEF graph
<1> QED
  BY <1>4, <1>5, <1>6 DEF Assemblers

LEMMA BuildKeeps ==
  ASSUME GraphInv, NEW a \in Assemblers, Build(a)
  PROVE  GraphInv'
<1> DEFINE graph == Assemble(a)
<1>1. /\ plan' = plan /\ disk' = disk /\ seen' = seen
      /\ job[a].pc = "read" /\ Len(job[a].inputs) = InputCount(a)
  BY DEF Build
<1>2. PICK file : job' = [job EXCEPT ![a] = Finish(a, graph, file)]
  BY DEF Build
<1>3. a \in Programs /\ a # "compiler"
  BY DEF Programs, Assemblers
<1>4. /\ job'[a] = Finish(a, graph, file)
      /\ job' = [job EXCEPT ![a] = job'[a]]
      /\ DOMAIN job[a] = Fields
  BY <1>2, <1>3 DEF GraphInv, Shapes
<1> HIDE DEF graph
<1>5. CASE graph = Failed \/ ~output_path_safe(a, graph, file)
  <2>1. job'[a].pc = "refused" /\ DOMAIN job'[a] = Fields
    BY <1>4, <1>5 DEF Finish, Refuse, Fields
  <2>2. AssemblerInv(a)'
    BY <2>1, NothingOwed
  <2> QED
    BY <1>1, <1>3, <1>4, <2>1, <2>2, MovesAlone
<1>6. CASE graph # Failed /\ output_path_safe(a, graph, file)
  <2>1. job'[a] = [job[a] EXCEPT !.pc = "write", !.out = <<[file |-> file, doc |-> graph]>>]
    BY <1>4, <1>6 DEF Finish
  <2>2. /\ DOMAIN job'[a] = Fields
        /\ job'[a].pc = "write"
        /\ job'[a].out = <<[file |-> file, doc |-> graph]>>
    BY <1>4, <2>1 DEF Fields
  <2>3. /\ job'[a].out[1].doc = graph
        /\ job'[a].out[1].file = file
        /\ job'[a].out = <<job'[a].out[1]>>
    BY <2>2
  <2>4. /\ \A s \in Range(Receipts(graph)) : Verified(a, s)
        /\ graph.type = "physical_graph" => IsSequence(graph.sources)
    BY <1>1, <1>6, AssembledVerified DEF graph
  <2>5. InputFiles(a)' = InputFiles(a)
    BY <1>1 DEF InputFiles, Metadata, UnitsFile, Graph
  <2>6. output_path_safe(a, job[a].out[1].doc, job[a].out[1].file)'
    BY <1>6, <2>3, <2>5 DEF output_path_safe, Range, Receipts, Source
  <2>7. \A s \in Range(Receipts(job'[a].out[1].doc)) : Verified(a, s)'
    BY <1>1, <2>3, <2>4 DEF Verified
  <2>8. (job[a].out[1].doc.type = "physical_graph" =>
           IsSequence(job[a].out[1].doc.sources))'
    BY <2>3, <2>4 DEF IsSequence
  <2>9. Assembles(a)'
    BY <2>3, <2>6, <2>7, <2>8 DEF Assembles, Range, Receipts, Verified
  <2>10. Watches(a)' /\ Reads(a)'
    BY <2>2 DEF Watches, Reads
  <2>11. AssemblerInv(a)'
    BY <2>9, <2>10 DEF AssemblerInv
  <2> QED
    BY <1>1, <1>3, <1>4, <2>2, <2>11, MovesAlone
<1> QED
  BY <1>5, <1>6

LEMMA WriteKeeps ==
  ASSUME GraphInv, NEW a \in Programs, WriteTemporary(a)
  PROVE  GraphInv'
<1>1. /\ plan' = plan /\ disk' = disk /\ seen' = seen /\ job[a].pc = "write"
      /\ job' = [job EXCEPT ![a].pc = "rename"]
  BY DEF WriteTemporary
<1>2. /\ job'[a].pc = "rename" /\ job'[a].out = job[a].out
      /\ DOMAIN job'[a] = Fields
      /\ job' = [job EXCEPT ![a] = job'[a]]
  BY <1>1 DEF GraphInv, Shapes, Fields
<1>3. ASSUME a \in Assemblers
      PROVE  AssemblerInv(a)'
  <2>1. Assembles(a)'
    BY <1>1, <1>2, <1>3, GraphKept DEF GraphInv, AssemblerInv, Publishing
  <2>2. Watches(a)' /\ Reads(a)'
    BY <1>2 DEF Watches, Reads
  <2> QED
    BY <2>1, <2>2 DEF AssemblerInv
<1>4. ASSUME a = "compiler"
      PROVE  Compiles'
  BY <1>1, <1>2, <1>4 DEF GraphInv, Compiles, Publishing, IsSequence
<1> QED
  BY <1>1, <1>2, <1>3, <1>4, MovesAlone

LEMMA RenameKeeps ==
  ASSUME GraphInv, NEW a \in Programs, Rename(a)
  PROVE  GraphInv'
<1> DEFINE out == job[a].out
<1>1. /\ plan' = plan /\ seen' = Noticed /\ job[a].pc = "rename"
      /\ disk' = [disk EXCEPT ![Head(out).file] = Head(out).doc]
      /\ job' = [job EXCEPT ![a].pc = IF Len(out) > 1 THEN "write" ELSE "done",
                            ![a].out = IF Len(out) > 1 THEN Tail(out) ELSE out]
  BY DEF Rename
<1>2. /\ job'[a].pc = IF Len(out) > 1 THEN "write" ELSE "done"
      /\ job'[a].out = IF Len(out) > 1 THEN Tail(out) ELSE out
      /\ DOMAIN job'[a] = Fields
      /\ job' = [job EXCEPT ![a] = job'[a]]
  BY <1>1 DEF GraphInv, Shapes, Fields
<1>3. ASSUME a \in Assemblers
      PROVE  /\ AssemblerInv(a)'
             /\ Head(out).doc.type = "physical_graph" => IsSequence(Head(out).doc.sources)
  <2>1. /\ Assembles(a) /\ job[a].pc \in Publishing
        /\ out = <<out[1]>>
        /\ out[1].doc.type = "physical_graph" => IsSequence(out[1].doc.sources)
    BY <1>1, <1>3 DEF GraphInv, AssemblerInv, Assembles, Publishing
  <2>2. Len(out) = 1 /\ Head(out) = out[1]
    BY <2>1
  <2>3. job'[a].pc = "done" /\ job'[a].out = out
    BY <1>2, <2>2
  <2>4. Assembles(a)'
    BY <1>1, <1>3, <2>1, <2>3, SeenGrows, GraphKept
  <2>5. Watches(a)' /\ Reads(a)'
    BY <2>3 DEF Watches, Reads
  <2> QED
    BY <2>1, <2>2, <2>4, <2>5 DEF AssemblerInv
<1>4. ASSUME a = "compiler"
      PROVE  Compiles' /\ Head(out).doc.type # "physical_graph"
  <2>1. /\ IsSequence(out) /\ Len(out) > 0
        /\ \A i \in 1 .. Len(out) : out[i].doc.type # "physical_graph"
    BY <1>1, <1>4 DEF GraphInv, Compiles, Publishing
  <2>2. /\ IsSequence(Tail(out)) /\ Len(Tail(out)) = Len(out) - 1
        /\ \A i \in 1 .. Len(out) - 1 : Tail(out)[i] = out[i + 1]
        /\ Head(out) = out[1]
    BY <2>1, SequenceTail
  <2>3. Len(out) \in Nat
    BY <2>1 DEF IsSequence
  <2>4. CASE Len(out) > 1
    <3>1. job'["compiler"].out = Tail(out)
      BY <1>2, <1>4, <2>4
    <3>2. \A i \in 1 .. Len(Tail(out)) : Tail(out)[i].doc.type # "physical_graph"
      BY <2>1, <2>2, <2>3
    <3>3. Len(Tail(out)) > 0
      BY <2>2, <2>3, <2>4
    <3>4. IsSequence(job'["compiler"].out)
      BY <2>2, <3>1
    <3>5. Compiles'
      BY <3>1, <3>2, <3>3, <3>4 DEF Compiles, IsSequence
    <3>6. Head(out).doc.type # "physical_graph"
      BY <2>1, <2>2, <2>3
    <3> QED
      BY <3>5, <3>6
  <2>5. CASE ~(Len(out) > 1)
    <3>1. job'["compiler"].out = out
      BY <1>2, <1>4, <2>5
    <3>2. Compiles'
      <4> HIDE DEF out
      <4>1. IsSequence(job'["compiler"].out) /\ Len(job'["compiler"].out) > 0
        BY <2>1, <3>1
      <4>2. \A i \in 1 .. Len(job'["compiler"].out) :
              job'["compiler"].out[i].doc.type # "physical_graph"
        BY <2>1, <3>1
      <4> QED
        BY <4>1, <4>2 DEF Compiles, IsSequence
    <3>3. 1 \in 1 .. Len(out)
      BY <2>1, <2>3
    <3> QED
      BY <2>1, <2>2, <3>2, <3>3
  <2> QED
    BY <2>4, <2>5
<1>5. Stored'
  <2>1. Head(out).doc.type = "physical_graph" => IsSequence(Head(out).doc.sources)
    BY <1>3, <1>4 DEF Programs
  <2>2. DOMAIN disk' = DOMAIN disk
    BY <1>1
  <2>3. \A f \in DOMAIN disk : disk'[f] = disk[f] \/ disk'[f] = Head(out).doc
    BY <1>1
  <2> QED
    BY <2>1, <2>2, <2>3 DEF GraphInv, Stored, Graph, IsSequence
<1>6. DOMAIN seen' = Programs
  BY <1>1, SeenGrows
<1>7. \A b \in Programs \ {a} : \A p \in Paths :
        /\ seen[b][p] \subseteq seen'[b][p]
        /\ SourceText(p)' = SourceText(p) \/ SourceText(p)' \in seen'[b][p]
  BY <1>1, SeenGrows
<1> QED
  BY <1>1, <1>2, <1>3, <1>4, <1>5, <1>6, <1>7, OneMoves

LEMMA FailKeeps ==
  ASSUME GraphInv, NEW a \in Programs, Fail(a)
  PROVE  GraphInv'
<1>1. /\ plan' = plan /\ disk' = disk /\ seen' = seen
      /\ job' = [job EXCEPT ![a] = [Idle EXCEPT !.pc = "failed"]]
  BY DEF Fail
<1>2. /\ job'[a].pc = "failed" /\ DOMAIN job'[a] = Fields
      /\ job' = [job EXCEPT ![a] = job'[a]]
  BY <1>1 DEF GraphInv, Shapes, Idle, Fields
<1>3. AssemblerInv(a)' /\ (a = "compiler" => Compiles')
  BY <1>2, NothingOwed
<1> QED
  BY <1>1, <1>2, <1>3, MovesAlone

LEMMA StutterKeeps ==
  ASSUME GraphInv, UNCHANGED vars
  PROVE  GraphInv'
<1>1. plan' = plan /\ disk' = disk /\ seen' = seen /\ job' = job
  BY DEF vars
<1>2. Shapes' /\ Stored'
  BY <1>1, StoredStays DEF GraphInv, Shapes
<1>3. Compiles'
  BY <1>1 DEF GraphInv, Compiles, IsSequence
<1>4. ASSUME NEW b \in Assemblers
      PROVE  AssemblerInv(b)'
  BY <1>1, SourcesStay, Unmoved DEF GraphInv
<1> QED
  BY <1>2, <1>3, <1>4 DEF GraphInv

LEMMA StepKeeps ==
  ASSUME GraphInv, [Next]_vars
  PROVE  GraphInv'
<1>1. CASE \E p \in Paths, t \in plan.texts : Edit(p, t)
  BY <1>1, EditKeeps
<1>2. CASE \E p \in Range(plan.order) : Compile(p)
  BY <1>2, CompileKeeps
<1>3. CASE \E a \in Assemblers : LoadManifest(a)
  BY <1>3, LoadKeeps
<1>4. CASE \E a \in Assemblers : ReadInput(a)
  BY <1>4, ReadKeeps
<1>5. CASE \E a \in Assemblers : Build(a)
  BY <1>5, BuildKeeps
<1>6. CASE \E a \in Programs : WriteTemporary(a)
  BY <1>6, WriteKeeps
<1>7. CASE \E a \in Programs : Rename(a)
  BY <1>7, RenameKeeps
<1>8. CASE \E a \in Programs : Fail(a)
  BY <1>8, FailKeeps
<1>9. CASE UNCHANGED vars
  BY <1>9, StutterKeeps
<1> QED
  BY <1>1, <1>2, <1>3, <1>4, <1>5, <1>6, <1>7, <1>8, <1>9 DEF Next

\* For every project: what the assemblers have verified, what they are about to publish
\* and what the files hold, at every moment of any run of the programs.
THEOREM Inductive == Spec => []GraphInv
<1>1. Init => GraphInv
  BY Initially
<1>2. GraphInv /\ [Next]_vars => GraphInv'
  BY StepKeeps
<1> QED
  BY <1>1, <1>2, PTL DEF Spec

\* A graph is made only from texts that its sources held at some moment after the
\* assembler was started, or from the frozen snapshot's, whatever is edited, exported
\* and published while it reads (verify_source in the three assemblers).
THEOREM Fresh == Spec => []FreshWhenRead
<1>1. GraphInv => FreshWhenRead
  BY DEF GraphInv, AssemblerInv, Assembles, FreshWhenRead, Publishing, Verified
<1> QED
  BY <1>1, Inductive, PTL

\* Publishing a graph replaces none of the documents it was read from and no source it
\* names, although the test of output_path_safe was made before the graph was written
\* (semantic_project_graph.c, physical_project_graph.c, hardware_project_graph.c).
InputsKept ==
  \A a \in Assemblers : Rename(a) =>
    /\ \A f \in Range(InputFiles(a)) : f \in DOMAIN disk => disk'[f] = disk[f]
    /\ \A s \in Range(Receipts(Head(job[a].out).doc)) :
         Source(s.path) \in DOMAIN disk => disk'[Source(s.path)] = disk[Source(s.path)]

THEOREM PublishingSafe == Spec => [][InputsKept]_vars
<1>1. ASSUME GraphInv
      PROVE  InputsKept
  <2> SUFFICES ASSUME NEW a \in Assemblers, Rename(a)
               PROVE  /\ \A f \in Range(InputFiles(a)) :
                           f \in DOMAIN disk => disk'[f] = disk[f]
                      /\ \A s \in Range(Receipts(Head(job[a].out).doc)) :
                           Source(s.path) \in DOMAIN disk =>
                             disk'[Source(s.path)] = disk[Source(s.path)]
    BY DEF InputsKept
  <2> DEFINE out == job[a].out
  <2>1. /\ out = <<out[1]>>
        /\ output_path_safe(a, out[1].doc, out[1].file)
    BY <1>1 DEF Rename, GraphInv, AssemblerInv, Assembles, Publishing
  <2>2. Head(out) = out[1]
    BY <2>1
  <2>3. disk' = [disk EXCEPT ![Head(out).file] = Head(out).doc]
    BY DEF Rename
  <2>4. \A f \in DOMAIN disk : f # out[1].file => disk'[f] = disk[f]
    BY <2>2, <2>3
  <2> QED
    BY <2>1, <2>2, <2>4 DEF output_path_safe
<1>2. GraphInv /\ [Next]_vars => [InputsKept]_vars
  BY <1>1
<1> QED
  BY <1>2, Inductive, PTL DEF Spec
===============================================================================
