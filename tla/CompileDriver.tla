--------------------------- MODULE CompileDriver ---------------------------
(* One invocation of the compiler behind its options: main_run_driver_mode   *)
(* (compile-only and link mode), main_execute_build_manifest, and the plain  *)
(* mode of main that writes no object.  Every call that can fail may fail;   *)
(* the watchdog, an LLVM fatal error or a signal may end the process between *)
(* any two steps, and the compiler or linker it started may outlive it.      *)
EXTENDS CrossTU, Functions

CONSTANT Jobs   \* the invocations: options and inputs

(* A file: what it is, and for a complete one what it was made of.            *)
File(kind, of) == [kind |-> kind, of |-> of]


VARIABLES
    job,          \* the options and inputs
    pc,           \* what the process does next
    i,            \* the input at hand
    allOk, todo, tempObjects, code,
    object,       \* for every input, what is at the path of its object
    semantics, units,      \* the two metadata files
    output,       \* the linked program
    aggregate, diagFile, warned,
    child,        \* the clang or linker that was started
    status        \* how the process ended

loop == <<i, allOk, todo, tempObjects, code>>
metadata == <<semantics, units>>
diagnostics == <<aggregate, diagFile, warned>>
driver == <<job, pc, loop, object, metadata, output, diagnostics, child, status>>
vars == <<ledger, driver>>

Input(k) == job.inputs[k]
Count == Len(job.inputs)

-----------------------------------------------------------------------------
(* The pipeline.                                                             *)

(* The stages that leave compiler_run_frontend_internal with false.          *)
FrontEndStages ==
    {"preprocessor_init", "load_root", "lex", "preprocess", "capture_sources",
     "source_ranges", "parse", "parse_errors", "model"}

(* The stages before the front end that jump to cleanup, and the test behind *)
(* it that keeps a translation unit the parser recovered from code           *)
(* generation.                                                               *)
EarlyStages == {"policy", "external_preprocess", "forced_includes", "source_contract"}

(* An input: the stage of the pipeline that fails ("none" when it compiles), *)
(* the lane that decides between the own back end and clang, and the symbols *)
(* of its file scope in the order semanticModelForEachGlobal visits them.    *)
Unit == [fails : EarlyStages \cup FrontEndStages
                   \cup {"none", "context", "recovered", "semantic", "codegen"},
         lane : {"native", "tools", "legacy"},
         symbols : Seq(Symbol)]

(* Asking for metadata selects driver mode, so that plain mode has none.     *)
ASSUME JobsAssumption ==
    \A j \in Jobs :
        /\ j \in [mode : {"compile", "link", "manifest", "plain"}, inputs : Seq(Unit),
                  objects : Nat, meta : BOOLEAN, diags : BOOLEAN, named : BOOLEAN,
                  codegen : BOOLEAN, links : BOOLEAN]
        /\ j.meta => j.mode # "plain"

(* codegen_context_create may fail without a status of its own.              *)
compile_translation_unit(tu) ==
    [hasContext |-> tu.fails # "context",
     status |-> IF tu.fails \in EarlyStages \cup FrontEndStages \cup {"context", "recovered"}
                THEN 1 ELSE 0,
     semanticErrors |-> IF tu.fails = "semantic" THEN 1 ELSE 0,
     module |-> tu.fails = "none"]

Failed(result) == result.status # 0 \/ result.semanticErrors > 0 \/ ~result.module

should_use_clang_frontend_fallback(tu) == ~job.meta /\ tu.lane = "tools"
should_use_clang_backend_fallback(tu) == ~job.meta /\ tu.lane = "legacy"

-----------------------------------------------------------------------------
Init ==
    /\ LedgerInit
    /\ job \in Jobs
    /\ pc = "start" /\ i = 0 /\ allOk = TRUE /\ todo = <<>> /\ tempObjects = <<>> /\ code = "success"
    /\ object = [k \in 1..Count |-> IF job.mode = "link" THEN "absent" ELSE "old"]
    /\ semantics = "old" /\ units = "old" /\ output = File("old", <<>>)
    /\ aggregate = <<>> /\ diagFile = File("old", <<>>) /\ warned = FALSE
    /\ child = "none" /\ status = "running"

Running(at) == status = "running" /\ pc = at

Outcome(good) == IF good THEN "success" ELSE "failure"

End(s) == status' = s /\ pc' = "done"

(* A failure inside the loop over the inputs: link mode leaves the loop and  *)
(* cleans up behind it, the other modes return at once.                      *)
Stop ==
    IF job.mode = "link"
    THEN allOk' = FALSE /\ pc' = "looped" /\ UNCHANGED <<i, todo, tempObjects, code, status>>
    ELSE End("failure") /\ UNCHANGED loop

GoTo(next) == pc' = next /\ UNCHANGED <<loop, status>>

(* Metadata is written for exactly one C input and never for a manifest.     *)
MetadataRefused == job.meta /\ (job.mode = "manifest" \/ Count # 1 \/ job.objects # 0)

ModeRefused ==
    CASE job.mode = "compile" -> Count = 0 \/ (job.named /\ Count # 1) \/ ~job.codegen
      [] job.mode = "link" -> Count + job.objects = 0 \/ (~job.codegen /\ Count > 0)
      [] job.mode = "manifest" -> ~job.codegen
      [] job.mode = "plain" -> FALSE

Start ==
    /\ Running("start")
    /\ IF MetadataRefused \/ ModeRefused THEN End("failure") /\ UNCHANGED loop ELSE GoTo("input")
    /\ UNCHANGED <<ledger, job, object, metadata, output, diagnostics, child>>

(* The head of the loop: the paths of the input; link mode creates an empty  *)
(* temporary file (main_create_temp_object_path), a manifest the directory.  *)
NextInput ==
    /\ Running("input") /\ i < Count
    /\ i' = i + 1
    /\ object' = IF job.mode = "link" THEN [object EXCEPT ![i + 1] = "empty"] ELSE object
    /\ pc' = IF job.mode \in {"compile", "link"} /\ should_use_clang_frontend_fallback(Input(i + 1))
             THEN "clang" ELSE "compile"
    /\ UNCHANGED <<ledger, job, allOk, todo, tempObjects, code, metadata, output,
                   diagnostics, child, status>>

NextInputFails ==
    /\ Running("input") /\ i < Count /\ job.mode # "plain"
    /\ Stop
    /\ UNCHANGED <<ledger, job, object, metadata, output, diagnostics, child>>

InputsDone ==
    /\ Running("input") /\ i = Count
    /\ GoTo("looped")
    /\ UNCHANGED <<ledger, job, object, metadata, output, diagnostics, child>>

(* The diagnostics of input k in the file of --emit-diags-json: with several *)
(* inputs they are appended to the aggregate and the whole is written again; *)
(* with one the file holds just them.  A manifest writes none.               *)
\* Faulty variant: every input overwrites what the ones before it reported.
Reported_last(k, written) ==
    IF job.diags /\ job.mode # "manifest"
    THEN /\ aggregate' = <<k>>
         /\ diagFile' = IF written THEN File("inputs", aggregate') ELSE File("torn", <<>>)
         /\ warned' = (warned \/ ~written)
    ELSE UNCHANGED diagnostics
Reported(k, written) ==
    IF job.diags /\ job.mode # "manifest"
    THEN /\ aggregate' = Append(aggregate, k)
         /\ diagFile' = IF written THEN File("inputs", aggregate') ELSE File("torn", <<>>)
         /\ warned' = (warned \/ ~written)
    ELSE UNCHANGED diagnostics

Compile(written) ==
    /\ Running("compile")
    /\ LET result == compile_translation_unit(Input(i))
       IN  /\ IF result.hasContext THEN Reported(i, written)
                                   ELSE UNCHANGED diagnostics
           /\ CASE job.mode = "plain" ->
                       /\ End(Outcome(result.status = 0 /\ result.semanticErrors = 0))
                       /\ UNCHANGED loop
                [] job.mode = "manifest" /\ Failed(result) -> Stop
                [] job.mode \in {"compile", "link"} /\ Failed(result) ->
                       /\ allOk' = FALSE /\ pc' = "input"
                       /\ UNCHANGED <<i, todo, tempObjects, code, status>>
                [] job.mode = "link" /\ ~Failed(result) /\ allOk ->
                       /\ todo' = Input(i).symbols /\ pc' = "collect"
                       /\ UNCHANGED <<i, allOk, tempObjects, code, status>>
                [] OTHER -> GoTo("lower")
    /\ UNCHANGED <<ledger, job, object, metadata, output, child>>

(* main_collect_cross_tu_virtual_type_conflict: the symbols of the unit are  *)
(* handed to the ledger one after the other.                                 *)
Collect ==
    /\ Running("collect")
    /\ \/ /\ todo # <<>>
          /\ Take(Head(todo)) \/ TakeFails(Head(todo)) \/ PassOver(Head(todo))
          /\ todo' = Tail(todo)
       \/ LedgerStep /\ UNCHANGED todo
    /\ UNCHANGED <<job, pc, i, allOk, tempObjects, code, object, metadata, output,
                   diagnostics, child, status>>

(* A conflict replaces the diagnostics that were written so far.             *)
Judge(written) ==
    /\ Running("collect") /\ todo = <<>> /\ stage = "idle"
    /\ IF oom \/ conflict.found THEN Stop ELSE GoTo("lower")
    /\ IF ~oom /\ conflict.found /\ job.diags
       THEN /\ diagFile' = IF written THEN File("conflict", <<>>) ELSE File("torn", <<>>)
            /\ warned' = (warned \/ ~written)
            /\ UNCHANGED aggregate
       ELSE UNCHANGED diagnostics
    /\ UNCHANGED <<ledger, job, object, metadata, output, child>>

Lower ==
    /\ Running("lower")
    /\ GoTo(IF job.mode \in {"compile", "link"} /\ should_use_clang_backend_fallback(Input(i))
            THEN "clang" ELSE "emit")
    /\ UNCHANGED <<ledger, job, object, metadata, output, diagnostics, child>>

-----------------------------------------------------------------------------
(* compile_object_with_clang_fallback.                                       *)
StartClang ==
    /\ Running("clang")
    /\ GoTo("wait_clang") /\ child' = "clang"
    /\ UNCHANGED <<ledger, job, object, metadata, output, diagnostics>>

StartClangFails ==
    /\ Running("clang")
    /\ Stop
    /\ UNCHANGED <<ledger, job, object, metadata, output, diagnostics, child>>

ClangEnds ==
    /\ child = "clang"
    /\ \/ child' = "ok" /\ object' = [object EXCEPT ![i] = "whole"]
       \/ child' = "failed" /\ object' \in {object, [object EXCEPT ![i] = "torn"]}
    /\ UNCHANGED <<ledger, job, pc, loop, metadata, output, diagnostics, status>>

AfterObject == IF job.mode = "link" THEN "push" ELSE "input"

WaitClang ==
    /\ Running("wait_clang") /\ child \in {"ok", "failed"}
    /\ child' = "none"
    /\ IF child = "ok" THEN GoTo(AfterObject) ELSE Stop
    /\ UNCHANGED <<ledger, job, object, metadata, output, diagnostics>>

(* compiler_emit_object_file: LLVM opens the path and writes in place.       *)
EmitBegins ==
    /\ Running("emit")
    /\ GoTo("emitting") /\ object' = [object EXCEPT ![i] = "torn"]
    /\ UNCHANGED <<ledger, job, metadata, output, diagnostics, child>>

\* Faulty variant: the metadata of the units comes first.
EmitEnds_units_first ==
    /\ Running("emitting")
    /\ GoTo(IF job.meta THEN "units" ELSE AfterObject)
    /\ object' = [object EXCEPT ![i] = "whole"]
    /\ UNCHANGED <<ledger, job, metadata, output, diagnostics, child>>
EmitEnds ==
    /\ Running("emitting")
    /\ GoTo(IF job.meta THEN "semantics" ELSE AfterObject)
    /\ object' = [object EXCEPT ![i] = "whole"]
    /\ UNCHANGED <<ledger, job, metadata, output, diagnostics, child>>

EmitFails ==
    /\ Running("emit") \/ Running("emitting")
    /\ Stop
    /\ UNCHANGED <<ledger, job, object, metadata, output, diagnostics, child>>

(* write_semantic_metadata_artifact and write_units_metadata_artifact replace *)
(* their file by renaming a complete one, or leave it as it was.             *)
WriteSemantics ==
    /\ Running("semantics")
    /\ \/ semantics' = "new" /\ GoTo("units")
       \/ UNCHANGED semantics /\ Stop
    /\ UNCHANGED <<ledger, job, object, units, output, diagnostics, child>>

WriteUnits ==
    /\ Running("units")
    /\ \/ units' = "new" /\ GoTo(AfterObject)
       \/ UNCHANGED units /\ Stop
    /\ UNCHANGED <<ledger, job, object, semantics, output, diagnostics, child>>

Push ==
    /\ Running("push")
    /\ tempObjects' = Append(tempObjects, i) /\ pc' = "input"
    /\ UNCHANGED <<ledger, job, i, allOk, todo, code, object, metadata, output,
                   diagnostics, child, status>>

PushFails ==
    /\ Running("push")
    /\ Stop
    /\ UNCHANGED <<ledger, job, object, metadata, output, diagnostics, child>>

-----------------------------------------------------------------------------
CleanUp(s) == pc' = "cleanup" /\ code' = s /\ UNCHANGED <<i, allOk, todo, tempObjects, status>>

\* Faulty variant: the inputs that failed in the loop are forgotten.
LoopDone_forgiving ==
    /\ Running("looped")
    /\ CASE job.mode = "compile" -> End("success") /\ UNCHANGED loop
         [] job.mode = "plain" -> End("failure") /\ UNCHANGED loop
         [] job.mode = "manifest" ->
                IF job.links THEN GoTo("prepare") ELSE End("success") /\ UNCHANGED loop
         [] job.mode = "link" -> GoTo("prepare")
    /\ UNCHANGED <<ledger, job, object, metadata, output, diagnostics, child>>
LoopDone ==
    /\ Running("looped")
    /\ CASE job.mode = "compile" -> End(Outcome(allOk)) /\ UNCHANGED loop
         [] job.mode = "plain" -> End("failure") /\ UNCHANGED loop
         [] job.mode = "manifest" ->
                IF job.links THEN GoTo("prepare") ELSE End("success") /\ UNCHANGED loop
         [] job.mode = "link" -> IF allOk THEN GoTo("prepare") ELSE CleanUp("failure")
    /\ UNCHANGED <<ledger, job, object, metadata, output, diagnostics, child>>

\* Faulty variant: returns at once, as the other modes do.
Abandon_at_once == End("failure") /\ UNCHANGED loop
Abandon == IF job.mode = "link" THEN CleanUp("failure") ELSE End("failure") /\ UNCHANGED loop

(* The argument list of the linker, and the fork.                            *)
StartLinker ==
    /\ Running("prepare")
    /\ GoTo("wait_linker") /\ child' = "linker"
    /\ UNCHANGED <<ledger, job, object, metadata, output, diagnostics>>

StartLinkerFails ==
    /\ Running("prepare")
    /\ Abandon
    /\ UNCHANGED <<ledger, job, object, metadata, output, diagnostics, child>>

(* What the linker is given: the objects of the command line, then those of  *)
(* the inputs.                                                               *)
Given == IF job.mode = "link" THEN tempObjects ELSE [k \in 1..Count |-> k]

Linked ==
    File("program", [k \in 1..job.objects |-> [of |-> 0, is |-> "whole"]]
                      \o [k \in 1..Len(Given) |-> [of |-> Given[k], is |-> object[Given[k]]]])

LinkerWrites ==
    /\ child = "linker" /\ output.kind # "torn"
    /\ output' = File("torn", <<>>)
    /\ UNCHANGED <<ledger, job, pc, loop, object, metadata, diagnostics, child, status>>

LinkerEnds ==
    /\ child = "linker"
    /\ \/ child' = "ok" /\ output.kind = "torn" /\ output' = Linked
       \/ child' = "failed" /\ UNCHANGED output
    /\ UNCHANGED <<ledger, job, pc, loop, object, metadata, diagnostics, status>>

WaitLinker(written) ==
    /\ Running("wait_linker") /\ child \in {"ok", "failed"}
    /\ child' = "none"
    /\ IF job.mode = "link" THEN CleanUp(Outcome(child = "ok"))
                            ELSE End(Outcome(child = "ok")) /\ UNCHANGED loop
    /\ IF child = "failed" /\ job.diags /\ job.mode = "link"
       THEN /\ diagFile' = IF written THEN File("link", <<>>) ELSE File("torn", <<>>)
            /\ warned' = (warned \/ ~written)
            /\ UNCHANGED aggregate
       ELSE UNCHANGED diagnostics
    /\ UNCHANGED <<ledger, job, object, metadata, output>>

(* cleanup_temp_objects, one unlink at a time, and the return.               *)
Unlink ==
    /\ Running("cleanup") /\ tempObjects # <<>>
    /\ object' = [object EXCEPT ![Head(tempObjects)] = "absent"]
    /\ tempObjects' = Tail(tempObjects)
    /\ UNCHANGED <<ledger, job, pc, i, allOk, todo, code, metadata, output,
                   diagnostics, child, status>>

Return ==
    /\ Running("cleanup") /\ tempObjects = <<>>
    /\ End(code)
    /\ UNCHANGED <<ledger, job, loop, object, metadata, output, diagnostics, child>>

-----------------------------------------------------------------------------
(* The watchdog ends the whole process group, a signal only the driver; LLVM *)
(* ends it from inside code generation and emission.                         *)
Watchdog ==
    /\ status = "running"
    /\ End("timeout") /\ child' = "none"
    /\ UNCHANGED <<ledger, job, loop, object, metadata, output, diagnostics>>

Killed ==
    /\ status = "running"
    /\ End("killed")
    /\ UNCHANGED <<ledger, job, loop, object, metadata, output, diagnostics, child>>

FatalError ==
    /\ Running("compile") \/ Running("emitting")
    /\ End("fatal")
    /\ UNCHANGED <<ledger, job, loop, object, metadata, output, diagnostics, child>>

Ended == status # "running" /\ child \notin {"clang", "linker"} /\ UNCHANGED vars

Next ==
    \/ Start \/ NextInput \/ NextInputFails \/ InputsDone
    \/ \E written \in BOOLEAN : Compile(written) \/ Judge(written) \/ WaitLinker(written)
    \/ Collect \/ Lower
    \/ StartClang \/ StartClangFails \/ ClangEnds \/ WaitClang
    \/ EmitBegins \/ EmitEnds \/ EmitFails \/ WriteSemantics \/ WriteUnits
    \/ Push \/ PushFails \/ LoopDone
    \/ StartLinker \/ StartLinkerFails \/ LinkerWrites \/ LinkerEnds
    \/ Unlink \/ Return
    \/ Watchdog \/ Killed \/ FatalError \/ Ended

Spec == Init /\ [][Next]_vars

-----------------------------------------------------------------------------
ByItself == status \in {"success", "failure"}

(* Input k goes through the own front end.                                   *)
Native(k) == job.mode = "manifest" \/ ~should_use_clang_frontend_fallback(Input(k))

(* A program that was reported as built was linked from the objects of the   *)
(* command line and then of all inputs, in order, each of them complete and  *)
(* from an input without errors: no failed, skipped, half-written or         *)
(* forgotten object on any path through the loop reaches the linker.         *)
LinkedFromAll ==
    status = "success" /\ (job.mode = "link" \/ (job.mode = "manifest" /\ job.links)) =>
        /\ output.kind = "program"
        /\ output.of = [k \in 1..job.objects |-> [of |-> 0, is |-> "whole"]]
                        \o [k \in 1..Count |-> [of |-> k, is |-> "whole"]]
        /\ \A k \in 1..Count : Native(k) => Input(k).fails = "none"

(* Link mode never lets the linker write a program from two inputs of the    *)
(* own front end that declare one external symbol with conflicting types,    *)
(* whichever inputs in between failed or went to clang.                      *)
LinkedConsistent ==
    job.mode = "link" /\ output.kind # "old" =>
        \A k, l \in 1..Count : k < l /\ Native(k) /\ Native(l) =>
            \A s \in Range(Input(k).symbols), t \in Range(Input(l).symbols) :
                Recorded(s) /\ Recorded(t) => ~Conflicting(s, t)

(* When link mode ends by itself no temporary object is left behind a        *)
(* success or a linker failure ("Intermediate objects are removed after      *)
(* successful linking or a linker failure"), and after any other failure     *)
(* only the files of inputs that gave no object to the list: those with      *)
(* errors and the one at which the loop stopped.                             *)
TempsRemoved ==
    job.mode = "link" /\ ByItself =>
        \A k \in 1..Count : object[k] # "absent" =>
            /\ status = "failure" /\ ~allOk
            /\ k = i \/ (Native(k) /\ Input(k).fails # "none")

(* What the other modes leave at the path of an object when they end by      *)
(* themselves: success means every object is new, an input with errors keeps *)
(* its old object, and the two metadata files are replaced after the object  *)
(* and in that order, also when the process is killed.                       *)
ObjectsMatchStatus ==
    /\ job.mode \in {"compile", "manifest"} =>
        /\ status = "success" => \A k \in 1..Count : object[k] = "whole"
        /\ \A k \in 1..Count : Native(k) /\ Input(k).fails # "none" => object[k] = "old"
    /\ units = "new" => semantics = "new"
    /\ semantics = "new" /\ job.mode # "link" => object[1] = "whole"
    /\ status = "success" /\ job.meta => units = "new"

Ascending(s) == \A a, b \in DOMAIN s : a < b => s[a] < s[b]

(* The diagnostics file of an invocation that ended by itself, when no write *)
(* failed, holds those of every input that was compiled, in order, or the    *)
(* one record of the conflict or linker failure that ended it.               *)
DiagnosticsComplete ==
    job.diags /\ ByItself /\ ~warned /\ job.mode \in {"compile", "link"} =>
        CASE diagFile.kind = "conflict" -> conflict.found
          [] diagFile.kind = "link" -> allOk /\ status = "failure"
          [] diagFile.kind \in {"old", "inputs"} ->
                /\ ~conflict.found
                /\ Ascending(diagFile.of)
                /\ Range(diagFile.of) = {k \in 1..i : Native(k) /\ Input(k).fails # "context"}
=============================================================================
