------------------------ MODULE DriverResultProofs -------------------------
(* What one invocation of the compiler leaves behind: the linked program,    *)
(* the temporary objects, the objects and metadata of the other modes, and   *)
(* the diagnostics.  Each promise has an invariant of its own, which rests   *)
(* on what CompileDriverProofs says of the places of the driver (DriverInv)  *)
(* and of the ledger (LedgerInv).                                            *)
EXTENDS CompileDriverProofs

-----------------------------------------------------------------------------
(* The linked program.                                                       *)
Built ==
    /\ output.kind = "program"
    /\ output.of = [k \in 1..job.objects |-> [of |-> 0, is |-> "whole"]]
                    \o [k \in 1..Count |-> [of |-> k, is |-> "whole"]]
    /\ \A k \in 1..Count : Compiled(k)

LinkInv ==
    /\ pc = "wait_linker" /\ child = "ok" => Built
    /\ pc = "cleanup" /\ code = "success" => Built /\ allOk
    /\ LinkedFromAll

(* The temporary objects: each is in the list, belongs to the input at hand  *)
(* or to one that failed.                                                    *)
Accounted(k) ==
    \/ k \in Range(tempObjects)
    \/ k = i /\ pc \in Body
    \/ ~allOk /\ ~Compiled(k)
    \/ ~allOk /\ k = i /\ pc \in {"looped", "cleanup"}

TempInv ==
    /\ pc = "start" => tempObjects = <<>> /\ allOk
    /\ job.mode = "link" /\ status = "running" =>
           \A k \in 1..Count : object[k] # "absent" => Accounted(k)
    /\ pc = "cleanup" /\ ~allOk => code = "failure"
    /\ TempsRemoved

(* The objects of the other modes, and the two metadata files.               *)
ObjectsInv ==
    job.mode \in {"compile", "manifest"} =>
        /\ status = "success" => \A k \in 1..Count : object[k] = "whole"
        /\ \A k \in 1..Count : Compiled(k) \/ object[k] = "old"

AfterMetadata == {"push", "input", "looped", "prepare", "wait_linker"}

MetaInv ==
    /\ pc = "start" => i = 0
    /\ pc \notin {"start", "done"} => ~MetadataRefused
    /\ pc \in {"semantics", "units"} => job.meta
    /\ pc \in {"clang", "wait_clang"} \/ child = "clang" => ~job.meta
    /\ pc = "units" => semantics = "new"
    /\ semantics = "new" =>
           /\ job.meta /\ ~MetadataRefused /\ i = 1
           /\ pc \notin (Body \ {"units", "push"}) \cup {"start"}
           /\ job.mode # "link" => object[1] = "whole"
    /\ units = "new" => semantics = "new"
    /\ job.meta /\ i = 1 /\ allOk /\ pc \in AfterMetadata => units = "new"
    /\ job.meta /\ pc = "cleanup" /\ code = "success" => units = "new"
    /\ job.meta /\ status = "success" => units = "new"

(* The declarations that were compared.                                      *)
Entered(s) == \E a \in 1..Len(items) : items[a] = s

AllEntered(k) == \A s \in Range(Input(k).symbols) : Recorded(s) => Entered(s)

Agreeing ==
    \A k, l \in 1..Count : k < l /\ Native(k) /\ Native(l) =>
        \A s \in Range(Input(k).symbols), t \in Range(Input(l).symbols) :
            Recorded(s) /\ Recorded(t) => ~Conflicting(s, t)

(* Symbol s of the unit at hand is in the ledger or still to be entered.     *)
Handled(s) == Entered(s) \/ s \in Range(todo) \/ (stage # "idle" /\ s = sym)

CollectInv ==
    /\ status = "running" /\ pc # "collect" => stage = "idle"
    /\ status = "running" /\ allOk /\ job.mode = "link" =>
           \A k \in 1..i : Native(k) /\ (k = i => pc \notin {"compile", "collect"}) => AllEntered(k)
    /\ pc = "collect" /\ ~oom /\ ~conflict.found =>
           \A s \in Range(Input(i).symbols) : Recorded(s) => Handled(s)
    /\ job.mode = "link" /\ (child = "linker" \/ output.kind # "old") => Agreeing

(* The diagnostics.                                                          *)
FlagsInv == ~(oom /\ conflict.found) /\ (stage # "idle" => ~oom)

Reportable == {k \in 1..(IF pc = "compile" THEN i - 1 ELSE i) :
                 Native(k) /\ Input(k).fails # "context"}

ConflictShown ==
    conflict.found /\ status \notin {"killed", "timeout"} /\ pc # "collect" =>
        /\ pc \in {"looped", "cleanup", "done"} /\ ~allOk
        /\ job.diags /\ ~warned => diagFile.kind = "conflict"

KindsInv ==
    /\ diagFile.kind \in {"old", "inputs", "torn", "conflict", "link"}
    /\ diagFile.kind = "torn" => warned
    /\ diagFile.kind = "conflict" => conflict.found
    /\ diagFile.kind = "link" => /\ allOk /\ pc \in {"cleanup", "done"}
                                 /\ pc = "cleanup" => code = "failure"
                                 /\ ByItself => status = "failure"

ReportsInv ==
    /\ aggregate \in Seq(1..Count)
    /\ job.diags /\ job.mode \in {"compile", "link"} /\ (status = "running" \/ ByItself) =>
           /\ diagFile.kind \in {"old", "inputs"} => diagFile.of = aggregate
           /\ Ascending(aggregate) /\ Range(aggregate) = Reportable

DiagInv == FlagsInv /\ ConflictShown /\ KindsInv /\ ReportsInv

-----------------------------------------------------------------------------
(* The linker is given the objects of all inputs.                            *)
LEMMA AllGiven ==
    ASSUME DriverInv, pc \in {"prepare", "wait_linker"}
    PROVE  /\ Given = [k \in 1..Count |-> k]
           /\ \A k \in 1..Count : object[k] = "whole" /\ Compiled(k)
  <1>1. pc \notin Body /\ pc \notin {"cleanup", "done"}
    BY DEF Body
  <1>2. i = Count /\ allOk /\ job.mode \in {"link", "manifest"}
    BY DEF DriverInv, OnPath
  <1>3. Behind = Count
    BY <1>1, <1>2 DEF Behind
  <1>4. /\ \A k \in 1..Behind : object[k] = "whole" /\ Compiled(k)
        /\ job.mode = "link" => tempObjects = [k \in 1..Behind |-> k]
    BY <1>1, <1>2 DEF DriverInv, Finished
  <1> QED
    BY <1>2, <1>3, <1>4 DEF Given

LEMMA LinkKept ==
    ASSUME DriverInv, LinkInv, [Next]_vars
    PROVE  LinkInv'
  <1>j. /\ job' = job /\ job.mode \in {"compile", "link", "manifest", "plain"} /\ Count \in Nat
    BY JobKept, JobFacts DEF DriverInv, DriverTyped
  <1>q. ASSUME pc' \notin {"wait_linker", "cleanup"}, status' # "success" PROVE LinkInv'
    BY <1>q DEF LinkInv, LinkedFromAll
  <1>s. status # "success" \/ pc = "done"
    BY DEF DriverInv, DriverTyped
  <1> USE DEF Running
  <1>1. CASE Start \/ NextInput \/ NextInputFails \/ InputsDone \/ Collect \/ Lower
             \/ StartClang \/ StartClangFails \/ WaitClang
    BY <1>1, <1>q DEF Start, NextInput, NextInputFails, InputsDone, Collect, Lower, StartClang,
                      StartClangFails, WaitClang, Stop, End, GoTo, AfterObject
  <1>2. CASE EmitBegins \/ EmitEnds \/ EmitFails \/ WriteSemantics \/ WriteUnits
             \/ Push \/ PushFails \/ \E written \in BOOLEAN : Judge(written)
    BY <1>2, <1>q DEF EmitBegins, EmitEnds, EmitFails, WriteSemantics, WriteUnits, Push,
                      PushFails, Judge, Stop, End, GoTo, AfterObject
  <1>3. CASE Watchdog \/ Killed \/ FatalError
    BY <1>3, <1>q DEF Watchdog, Killed, FatalError, End
  <1>4. ASSUME NEW written \in BOOLEAN, Compile(written) PROVE LinkInv'
    <2>1. pc' \notin {"wait_linker", "cleanup"} /\ (status' = "success" => job.mode = "plain")
      BY <1>4 DEF Compile, Stop, End, GoTo, Outcome
    <2> QED
      BY <1>j, <2>1 DEF LinkInv, LinkedFromAll
  <1>5. CASE ClangEnds
    <2>1. pc # "wait_linker" /\ pc # "cleanup" /\ status # "success"
      BY <1>5, <1>s DEF ClangEnds, DriverInv, Waiting, DriverTyped
    <2> QED
      BY <1>5, <1>q, <2>1 DEF ClangEnds
  <1>6. CASE LoopDone
    <2>1. /\ pc' # "wait_linker" /\ (pc' = "cleanup" => code' = "failure")
          /\ status' = "success" => job.mode = "compile" \/ (job.mode = "manifest" /\ ~job.links)
      BY <1>6, <1>j DEF LoopDone, End, GoTo, CleanUp
    <2> QED
      BY <1>j, <2>1 DEF LinkInv, LinkedFromAll
  <1>7. CASE StartLinker \/ LinkerWrites
    <2>1. child' = "linker" /\ status' = status
      BY <1>7 DEF StartLinker, LinkerWrites, GoTo
    <2>2. status # "success" /\ pc' # "cleanup"
      BY <1>7, <1>s DEF StartLinker, LinkerWrites, GoTo, DriverInv, Waiting, DriverTyped
    <2> QED
      BY <2>1, <2>2 DEF LinkInv, LinkedFromAll
  <1>8. CASE StartLinkerFails
    <2>1. pc' # "wait_linker" /\ (pc' = "cleanup" => code' = "failure") /\ status' # "success"
      BY <1>8 DEF StartLinkerFails, Abandon, End, CleanUp
    <2> QED
      BY <2>1 DEF LinkInv, LinkedFromAll
  <1>9. CASE LinkerEnds
    <2>1. /\ UNCHANGED <<pc, status>> /\ child = "linker"
          /\ child' = "ok" => output' = Linked
      BY <1>9 DEF LinkerEnds
    <2>2. CASE pc = "wait_linker"
      <3>1. /\ Given = [k \in 1..Count |-> k]
            /\ \A k \in 1..Count : object[k] = "whole" /\ Compiled(k)
        BY <2>2, AllGiven
      <3>2. Len(Given) = Count /\ \A k \in 1..Count : Given[k] = k
        BY <1>j, <3>1
      <3>3. [k \in 1..Len(Given) |-> [of |-> Given[k], is |-> object[Given[k]]]]
              = [k \in 1..Count |-> [of |-> k, is |-> "whole"]]
        BY <3>1, <3>2
      <3>4. child' = "ok" => Built'
        <4>1. Linked.kind = "program"
              /\ Linked.of = [k \in 1..job.objects |-> [of |-> 0, is |-> "whole"]]
                              \o [k \in 1..Count |-> [of |-> k, is |-> "whole"]]
          BY <3>3 DEF Linked, File
        <4> QED
          BY <1>j, <2>1, <3>1, <4>1, JobSame DEF Built
      <3> QED
        BY <1>s, <2>1, <2>2, <3>4 DEF LinkInv, LinkedFromAll
    <2>3. CASE pc # "wait_linker"
      <3>1. pc # "cleanup" /\ status # "success"
        BY <1>s, <2>1, <2>3 DEF DriverInv, Waiting, DriverTyped
      <3> QED
        BY <1>q, <2>1, <2>3, <3>1
    <2> QED
      BY <2>2, <2>3
  <1>b. output' = output => (Built' <=> Built)
    BY <1>j, JobSame DEF Built
  <1>l. ASSUME Built, output' = output PROVE LinkedFromAll'
    BY <1>j, <1>l, JobSame DEF LinkedFromAll, Built, Compiled
  <1>10. ASSUME NEW written \in BOOLEAN, WaitLinker(written) PROVE LinkInv'
    <2>1. pc = "wait_linker" /\ output' = output /\ status = "running"
      BY <1>10 DEF WaitLinker
    <2>2. CASE child = "ok"
      <3>1. Built /\ Built'
        BY <1>b, <2>1, <2>2 DEF LinkInv
      <3>2. pc' # "wait_linker" /\ (pc' = "cleanup" => allOk' = allOk)
        BY <1>10 DEF WaitLinker, CleanUp, End
      <3>3. allOk
        BY <2>1 DEF DriverInv, OnPath
      <3>4. pc' = "cleanup" => allOk'
        BY <3>2, <3>3
      <3>5. LinkedFromAll'
        BY <1>l, <2>1, <3>1
      <3> QED
        BY <3>1, <3>2, <3>4, <3>5 DEF LinkInv
    <2>3. CASE child # "ok"
      <3>1. pc' # "wait_linker" /\ (pc' = "cleanup" => code' = "failure") /\ status' # "success"
        BY <1>10, <2>1, <2>3 DEF WaitLinker, CleanUp, End, Outcome
      <3> QED
        BY <3>1 DEF LinkInv, LinkedFromAll
    <2> QED
      BY <2>2, <2>3
  <1>11. CASE Unlink
    <2>1. UNCHANGED <<pc, code, output, allOk, status>> /\ status = "running" /\ pc = "cleanup"
      BY <1>11 DEF Unlink
    <2> QED
      BY <1>b, <2>1 DEF LinkInv, LinkedFromAll
  <1>12. CASE Return
    <2>1. pc = "cleanup" /\ pc' = "done" /\ output' = output /\ status' = code
      BY <1>12 DEF Return, End
    <2>2. CASE code = "success"
      BY <1>l, <2>1, <2>2 DEF LinkInv
    <2>3. CASE code # "success"
      BY <1>q, <2>1, <2>3
    <2> QED
      BY <2>2, <2>3
  <1>13. CASE UNCHANGED vars
    <2>1. UNCHANGED <<pc, child, code, output, allOk, status>>
      BY <1>13 DEF vars, driver, loop
    <2>2. LinkedFromAll'
      BY <1>j, <2>1, JobSame DEF LinkInv, LinkedFromAll, Input
    <2> QED
      BY <1>b, <2>1, <2>2 DEF LinkInv
  <1> QED
    BY <1>1, <1>2, <1>3, <1>4, <1>5, <1>6, <1>7, <1>8, <1>9, <1>10, <1>11, <1>12, <1>13
       DEF Next, Ended

(* A program that is reported as built was linked from the complete objects  *)
(* of all inputs, in order, and every input compiled without errors, for any *)
(* number of inputs and whatever fails on the way.                           *)
THEOREM LinkedProgram == Spec => []LinkedFromAll
  <1>1. Init => LinkInv
    BY DEF Init, LinkInv, LinkedFromAll
  <1>2. DriverInv /\ LinkInv /\ [Next]_vars => LinkInv'
    BY LinkKept
  <1>3. LinkInv => LinkedFromAll
    BY DEF LinkInv
  <1> QED
    BY <1>1, <1>2, <1>3, DriverCorrect, PTL DEF Spec

-----------------------------------------------------------------------------
LEMMA StartsOnce ==
    ASSUME DriverTyped, [Next]_vars
    PROVE  pc' # "start" \/ UNCHANGED <<pc, i, tempObjects, allOk>>
  <1>1. CASE UNCHANGED vars \/ ClangEnds \/ Collect \/ LinkerWrites \/ LinkerEnds \/ Unlink
    BY <1>1 DEF vars, driver, loop, ClangEnds, Collect, LinkerWrites, LinkerEnds, Unlink, Running
  <1>2. CASE LoopDone
    BY <1>2, JobFacts DEF LoopDone, End, GoTo, CleanUp, DriverTyped
  <1>3. ASSUME NEW written \in BOOLEAN, Compile(written) \/ Judge(written) \/ WaitLinker(written)
        PROVE  pc' # "start"
    BY <1>3 DEF Compile, Judge, WaitLinker, Stop, End, GoTo, CleanUp
  <1>4. CASE Start \/ NextInput \/ NextInputFails \/ InputsDone \/ Lower \/ StartClang
             \/ StartClangFails \/ WaitClang \/ EmitBegins \/ EmitEnds \/ EmitFails
    BY <1>4 DEF Start, NextInput, NextInputFails, InputsDone, Lower, StartClang, StartClangFails,
                WaitClang, EmitBegins, EmitEnds, EmitFails, Stop, End, GoTo, AfterObject
  <1>5. CASE WriteSemantics \/ WriteUnits \/ Push \/ PushFails \/ StartLinker
             \/ StartLinkerFails \/ Return \/ Watchdog \/ Killed \/ FatalError
    BY <1>5 DEF WriteSemantics, WriteUnits, Push, PushFails, StartLinker, StartLinkerFails,
                Return, Watchdog, Killed, FatalError, Stop, End, GoTo, CleanUp, Abandon, AfterObject
  <1> QED
    BY <1>1, <1>2, <1>3, <1>4, <1>5 DEF Next, Ended

(* The elements of a list that grows at its end, or loses its head.          *)
LEMMA AppendedSet ==
    ASSUME NEW S, NEW seq \in Seq(S), NEW e \in S
    PROVE  Range(Append(seq, e)) = Range(seq) \cup {e}
  <1>1. DOMAIN Append(seq, e) = DOMAIN seq \cup {Len(seq) + 1}
    OBVIOUS
  <1>2. /\ Append(seq, e)[Len(seq) + 1] = e
        /\ \A n \in DOMAIN seq : Append(seq, e)[n] = seq[n]
    OBVIOUS
  <1> QED
    BY <1>1, <1>2 DEF Range

LEMMA HeadAndRest ==
    ASSUME NEW S, NEW seq \in Seq(S), seq # <<>>
    PROVE  Range(seq) = Range(Tail(seq)) \cup {Head(seq)}
  <1>1. Len(seq) \in Nat \ {0} /\ Head(seq) = seq[1] /\ DOMAIN seq = 1..Len(seq)
    OBVIOUS
  <1>2. /\ DOMAIN Tail(seq) = 1..(Len(seq) - 1)
        /\ \A n \in 1..(Len(seq) - 1) : Tail(seq)[n] = seq[n + 1]
    OBVIOUS
  <1>3. \A n \in 2..Len(seq) : n - 1 \in 1..(Len(seq) - 1) /\ Tail(seq)[n - 1] = seq[n]
    BY <1>1, <1>2
  <1>4. \A n \in 1..(Len(seq) - 1) : n + 1 \in 1..Len(seq)
    BY <1>1
  <1>5. ASSUME NEW x \in Range(seq) PROVE x \in Range(Tail(seq)) \cup {Head(seq)}
    <2>1. PICK n \in 1..Len(seq) : x = seq[n]
      BY <1>1 DEF Range
    <2>2. n = 1 \/ n \in 2..Len(seq)
      BY <1>1
    <2> QED
      BY <1>1, <1>2, <1>3, <2>1, <2>2 DEF Range
  <1>6. ASSUME NEW x \in Range(Tail(seq)) PROVE x \in Range(seq)
    <2>1. PICK n \in 1..(Len(seq) - 1) : x = Tail(seq)[n]
      BY <1>2 DEF Range
    <2> QED
      BY <1>1, <1>2, <1>4, <2>1 DEF Range
  <1>7. Head(seq) \in Range(seq)
    BY <1>1 DEF Range
  <1> QED
    BY <1>5, <1>6, <1>7

LEMMA TempKept ==
    ASSUME DriverInv, TempInv, [Next]_vars
    PROVE  TempInv'
  <1>j. /\ job' = job /\ job.mode \in {"compile", "link", "manifest", "plain"} /\ Count \in Nat
        /\ Count' = Count /\ \A k : (Native(k)' <=> Native(k)) /\ (Compiled(k)' <=> Compiled(k))
    BY JobKept, JobFacts, JobSame DEF DriverInv, DriverTyped
  <1>t. /\ status = "running" <=> pc # "done"
        /\ i \in 0..Count /\ tempObjects \in Seq(1..Count)
    BY DEF DriverInv, DriverTyped
  <1>s. pc' = "start" => tempObjects' = <<>> /\ allOk'
    BY StartsOnce DEF TempInv, DriverInv
  <1>o. OnPath'
    BY OnPathKept DEF DriverInv
  <1>1. CASE job.mode # "link"
    BY <1>1, <1>j, <1>o, <1>s DEF TempInv, TempsRemoved, OnPath
  <1>2. CASE job.mode = "link"
    <2> USE <1>2
    <2> USE DEF Running
    <2>r. ASSUME status' = "running", pc' = "cleanup" /\ ~allOk' => code' = "failure",
                 \A k \in 1..Count : object'[k] # "absent" => Accounted(k)'
          PROVE  TempInv'
      BY <1>j, <1>s, <2>r DEF TempInv, TempsRemoved, ByItself
    <2>a. ASSUME NEW k \in 1..Count, object[k] # "absent", status = "running"
          PROVE  Accounted(k)
      BY <2>a DEF TempInv
    <2>e. ASSUME pc' = "done", status' \notin {"running", "success", "failure"} PROVE TempInv'
      BY <1>j, <2>e DEF TempInv, TempsRemoved, ByItself
    \* The driver stays within the work on one input.
    <2>b. ASSUME pc \in Body, pc' \in Body, status = "running", status' = "running",
                 UNCHANGED <<i, allOk, tempObjects>>, \A k \in (1..Count) \ {i} : object'[k] = object[k]
          PROVE  TempInv'
      <3>1. ASSUME NEW k \in 1..Count, object'[k] # "absent" PROVE Accounted(k)'
        BY <1>j, <2>a, <2>b, <3>1 DEF Accounted, Body
      <3> QED
        BY <2>r, <2>b, <3>1 DEF Body
    \* The loop is left at the input at hand, or between two inputs.
    <2>l. ASSUME Stop, status = "running", object' = object, pc \in Body \cup {"input"} PROVE TempInv'
      <3>1. /\ allOk' = FALSE /\ pc' = "looped" /\ UNCHANGED <<i, tempObjects>> /\ status' = "running"
        BY <2>l DEF Stop
      <3>2. ASSUME NEW k \in 1..Count, object'[k] # "absent" PROVE Accounted(k)'
        BY <1>j, <2>a, <2>l, <3>1, <3>2 DEF Accounted, Body
      <3> QED
        BY <2>r, <3>1, <3>2
    \* Steps that change none of it.
    <2>n. ASSUME status = "running", status' = "running", pc \notin Body,
                 pc \notin {"looped", "cleanup"}, UNCHANGED <<i, allOk, tempObjects, object>>,
                 pc' = "cleanup" /\ ~allOk' => code' = "failure"
          PROVE  TempInv'
      <3>1. ASSUME NEW k \in 1..Count, object'[k] # "absent" PROVE Accounted(k)'
        BY <1>j, <2>a, <2>n, <3>1 DEF Accounted
      <3> QED
        BY <2>r, <2>n, <3>1
    <2>1. CASE Start
      <3>1. CASE GoTo("input")
        BY <2>1, <2>n, <3>1 DEF Start, GoTo, loop, Body
      <3>2. CASE End("failure") /\ UNCHANGED loop
        <4>1. pc' = "done" /\ object' = object /\ pc = "start" /\ status = "running"
          BY <2>1, <3>2 DEF Start, End
        <4>2. tempObjects = <<>> /\ allOk
          BY <4>1 DEF TempInv
        <4>3. \A k \in 1..Count : ~Accounted(k)
          BY <4>1, <4>2 DEF Accounted, Range, Body
        <4>4. \A k \in 1..Count : object'[k] = "absent"
          BY <2>a, <4>1, <4>3
        <4> QED
          BY <1>j, <4>1, <4>4 DEF TempInv, TempsRemoved
      <3> QED
        BY <2>1, <3>1, <3>2 DEF Start
    <2>2. CASE NextInput
      <3>1. /\ pc = "input" /\ pc' \in Body /\ i' = i + 1 /\ i + 1 \in 1..Count
            /\ status = "running" /\ status' = "running" /\ UNCHANGED <<allOk, tempObjects>>
            /\ object' = [object EXCEPT ![i + 1] = "empty"]
        BY SMTT(30), <1>t, <1>j, <2>2 DEF NextInput, Body
      <3>2. ASSUME NEW k \in 1..Count, object'[k] # "absent" PROVE Accounted(k)'
        <4>1. CASE k = i + 1
          BY <3>1, <4>1 DEF Accounted
        <4>2. CASE k # i + 1
          <5>1. object'[k] = object[k]
            BY <3>1, <4>2 DEF DriverInv, DriverTyped
          <5>2. Accounted(k) /\ pc \notin Body /\ pc \notin {"looped", "cleanup"}
            BY <2>a, <3>1, <3>2, <5>1 DEF Body
          <5> QED
            BY <1>j, <3>1, <5>2 DEF Accounted
        <4> QED
          BY <4>1, <4>2
      <3> QED
        BY <2>r, <3>1, <3>2 DEF Body
    <2>3. CASE NextInputFails \/ StartClangFails \/ EmitFails \/ PushFails
      BY <2>3, <2>l DEF NextInputFails, StartClangFails, EmitFails, PushFails, Body
    <2>4. CASE InputsDone \/ StartLinker
      BY <2>4, <2>n DEF InputsDone, StartLinker, GoTo, loop, Body
    <2>5. ASSUME NEW written \in BOOLEAN, Compile(written) PROVE TempInv'
      <3>1. /\ pc = "compile" /\ object' = object /\ status = "running" /\ status' = "running"
            /\ UNCHANGED <<i, tempObjects>> /\ i \in 1..Count /\ pc \in Body
        BY <1>j, <1>t, <2>5 DEF Compile, GoTo, loop, DriverInv, DriverTyped, Body
      <3>2. CASE Failed(compile_translation_unit(Input(i)))
        <4>1. allOk' = FALSE /\ pc' = "input"
          BY <2>5, <3>2 DEF Compile
        <4>2. ~Compiled(i)
          <5>1. Native(i)
            BY <3>1 DEF DriverInv, OnPath
          <5>2. Input(i) \in Unit
            BY <3>1, JobFacts DEF DriverInv, DriverTyped
          <5> QED
            BY <3>2, <5>1, <5>2, FailedExactly DEF Compiled
        <4>3. ASSUME NEW k \in 1..Count, object'[k] # "absent" PROVE Accounted(k)'
          BY <1>j, <2>a, <3>1, <4>1, <4>2, <4>3 DEF Accounted
        <4> QED
          BY <2>r, <3>1, <4>1, <4>3
      <3>3. CASE ~Failed(compile_translation_unit(Input(i)))
        <4>1. allOk' = allOk /\ pc' \in {"collect", "lower"}
          BY <2>5, <3>3 DEF Compile, GoTo, loop
        <4> QED
          BY <2>b, <3>1, <4>1 DEF Body
      <3> QED
        BY <3>2, <3>3
    <2>6. CASE Collect \/ Lower \/ StartClang
      BY <2>6, <2>b DEF Collect, Lower, StartClang, GoTo, loop, Body
    <2>7. ASSUME NEW written \in BOOLEAN, Judge(written) PROVE TempInv'
      <3>1. pc = "collect" /\ object' = object /\ status = "running" /\ pc \in Body
        BY <2>7 DEF Judge, Body
      <3>2. CASE Stop
        BY <2>l, <3>1, <3>2
      <3>3. CASE GoTo("lower")
        BY <2>b, <3>1, <3>3 DEF GoTo, loop, Body
      <3> QED
        BY <2>7, <3>2, <3>3 DEF Judge
    <2>8. CASE ClangEnds
      <3>1. /\ UNCHANGED <<pc, i, allOk, tempObjects, status>> /\ child = "clang"
            /\ \A k \in (1..Count) \ {i} : object'[k] = object[k]
        BY <2>8 DEF ClangEnds, loop, DriverInv, DriverTyped
      <3>2. CASE pc = "wait_clang"
        BY <1>t, <2>b, <3>1, <3>2 DEF Body
      <3>3. CASE pc # "wait_clang"
        <4>1. pc = "done" /\ status = "killed"
          BY <1>t, <3>1, <3>3 DEF DriverInv, Waiting
        <4> QED
          BY <2>e, <3>1, <4>1
      <3> QED
        BY <3>2, <3>3
    <2>9. CASE WaitClang \/ EmitBegins \/ EmitEnds \/ WriteSemantics \/ WriteUnits
      <3>1. /\ pc \in Body /\ status = "running"
            /\ \A k \in (1..Count) \ {i} : object'[k] = object[k]
        BY <2>9 DEF WaitClang, EmitBegins, EmitEnds, WriteSemantics, WriteUnits, Body,
                    DriverInv, DriverTyped
      <3>2. \/ Stop /\ object' = object
            \/ GoTo(pc') /\ pc' \in Body
        BY <2>9 DEF WaitClang, EmitBegins, EmitEnds, WriteSemantics, WriteUnits, Body, AfterObject,
                    GoTo
      <3>3. CASE GoTo(pc') /\ pc' \in Body
        BY <2>b, <3>1, <3>3 DEF GoTo, loop
      <3> QED
        BY <2>l, <3>1, <3>2, <3>3
    <2>10. CASE Push
      <3>1. /\ pc = "push" /\ pc' = "input" /\ UNCHANGED <<i, allOk, object>>
            /\ status = "running" /\ status' = "running" /\ i \in 1..Count
            /\ tempObjects' = Append(tempObjects, i)
        BY SMTT(30), <1>j, <1>t, <2>10 DEF Push, DriverInv, DriverTyped, Body
      <3>2. Range(tempObjects') = Range(tempObjects) \cup {i}
        <4>1. Range(Append(tempObjects, i)) = Range(tempObjects) \cup {i}
          <5> DEFINE R == 1..Count
          <5>1. tempObjects \in Seq(R) /\ i \in R
            BY <1>t, <3>1
          <5> HIDE DEF R
          <5> QED
            BY <5>1, AppendedSet
        <4> QED
          BY <3>1, <4>1
      <3>3. ASSUME NEW k \in 1..Count, object'[k] # "absent" PROVE Accounted(k)'
        BY <1>j, <2>a, <3>1, <3>2, <3>3 DEF Accounted
      <3> QED
        BY <2>r, <3>1, <3>3
    <2>11. CASE LoopDone
      <3>1. /\ pc = "looped" /\ UNCHANGED <<i, allOk, tempObjects, object>>
            /\ status = "running" /\ status' = "running"
            /\ \/ allOk /\ pc' = "prepare"
               \/ ~allOk /\ pc' = "cleanup" /\ code' = "failure"
        BY <2>11 DEF LoopDone, GoTo, CleanUp, loop
      <3>2. ASSUME NEW k \in 1..Count, object'[k] # "absent" PROVE Accounted(k)'
        BY <1>j, <2>a, <3>1, <3>2 DEF Accounted, Body
      <3> QED
        BY <2>r, <3>1, <3>2
    <2>12. CASE StartLinkerFails
      BY <2>12, <2>n DEF StartLinkerFails, Abandon, CleanUp, Body
    <2>13. CASE LinkerWrites \/ LinkerEnds
      <3>1. UNCHANGED <<pc, i, allOk, tempObjects, object, status>> /\ child = "linker"
        BY <2>13 DEF LinkerWrites, LinkerEnds, loop
      <3>2. CASE pc = "wait_linker"
        BY <1>t, <2>n, <3>1, <3>2 DEF Body
      <3>3. CASE pc # "wait_linker"
        <4>1. pc = "done" /\ status = "killed"
          BY <1>t, <3>1, <3>3 DEF DriverInv, Waiting
        <4> QED
          BY <2>e, <3>1, <4>1
      <3> QED
        BY <3>2, <3>3
    <2>14. ASSUME NEW written \in BOOLEAN, WaitLinker(written) PROVE TempInv'
      <3>1. /\ pc = "wait_linker" /\ status = "running" /\ status' = "running"
            /\ UNCHANGED <<i, allOk, tempObjects, object>>
        BY <2>14 DEF WaitLinker, CleanUp
      <3>2. allOk
        BY <3>1 DEF DriverInv, OnPath
      <3> QED
        BY <2>n, <3>1, <3>2 DEF Body
    <2>15. CASE Unlink
      <3>1. /\ pc = "cleanup" /\ status = "running" /\ status' = "running"
            /\ UNCHANGED <<pc, i, allOk, code>> /\ tempObjects # <<>>
            /\ tempObjects' = Tail(tempObjects)
            /\ object' = [object EXCEPT ![Head(tempObjects)] = "absent"]
        BY <2>15 DEF Unlink
      <3>2. Range(tempObjects) = Range(tempObjects') \cup {Head(tempObjects)}
        BY <1>t, <3>1, HeadAndRest
      <3>3. ASSUME NEW k \in 1..Count, object'[k] # "absent" PROVE Accounted(k)'
        <4>1. k # Head(tempObjects) /\ object'[k] = object[k]
          BY <3>1, <3>3 DEF DriverInv, DriverTyped
        <4>2. Accounted(k)
          BY <2>a, <3>1, <3>3, <4>1
        <4> QED
          BY <1>j, <3>1, <3>2, <4>1, <4>2 DEF Accounted
      <3> QED
        BY <2>r, <3>1, <3>3 DEF TempInv
    <2>16. CASE Return
      <3>1. /\ pc = "cleanup" /\ status = "running" /\ pc' = "done" /\ status' = code
            /\ UNCHANGED <<i, allOk, object>> /\ tempObjects = <<>>
        BY <2>16 DEF Return, End, loop
      <3>2. ASSUME NEW k \in 1..Count, object'[k] # "absent"
            PROVE  ~allOk /\ (k = i \/ ~Compiled(k))
        <4>1. Accounted(k)
          BY <2>a, <3>1, <3>2
        <4> QED
          BY <3>1, <4>1 DEF Accounted, Range, Body
      <3>3. ~allOk => code = "failure"
        BY <3>1 DEF TempInv
      <3>4. TempsRemoved'
        BY <1>j, <3>1, <3>2, <3>3 DEF TempsRemoved, Compiled
      <3> QED
        BY <3>1, <3>4 DEF TempInv, DriverInv, DriverTyped
    <2>17. CASE Watchdog \/ Killed \/ FatalError
      BY <2>17, <2>e DEF Watchdog, Killed, FatalError, End
    <2>18. CASE UNCHANGED vars
      <3>1. UNCHANGED <<pc, i, allOk, code, tempObjects, object, status>>
        BY <2>18 DEF vars, driver, loop
      <3>2. \A k : Accounted(k)' <=> Accounted(k)
        BY <1>j, <3>1 DEF Accounted
      <3>3. TempsRemoved'
        BY <1>j, <3>1 DEF TempInv, TempsRemoved, ByItself, Input
      <3> QED
        BY <1>j, <1>s, <3>1, <3>2, <3>3 DEF TempInv
    <2> QED
      BY <2>1, <2>2, <2>3, <2>4, <2>5, <2>6, <2>7, <2>8, <2>9, <2>10, <2>11, <2>12, <2>13, <2>14,
         <2>15, <2>16, <2>17, <2>18 DEF Next, Ended
  <1> QED
    BY <1>1, <1>2

(* When link mode ends by itself it has removed its temporary objects, but   *)
(* for those of inputs that gave none to the list, for any number of inputs. *)
THEOREM TemporariesRemoved == Spec => []TempsRemoved
  <1>1. Init => TempInv
    BY DEF Init, TempInv, TempsRemoved, ByItself
  <1>2. DriverInv /\ TempInv /\ [Next]_vars => TempInv'
    BY TempKept
  <1>3. TempInv => TempsRemoved
    BY DEF TempInv
  <1> QED
    BY <1>1, <1>2, <1>3, DriverCorrect, PTL DEF Spec

-----------------------------------------------------------------------------
(* Outside link mode only the object of the input at hand is written, and    *)
(* only after the input compiled.                                            *)
LEMMA ObjectsWritten ==
    ASSUME DriverInv, [Next]_vars, job.mode # "link"
    PROVE  \/ object' = object
           \/ /\ status # "success" /\ UNCHANGED status /\ Compiled(i) /\ i \in 1..Count
              /\ \A k \in (1..Count) \ {i} : object'[k] = object[k]
  <1>t. /\ object \in [1..Count -> {"old", "absent", "empty", "torn", "whole"}]
        /\ i \in 0..Count /\ Count \in Nat /\ (status = "running" <=> pc # "done")
        /\ (pc \in Body => i # 0) /\ (child = "clang" => i # 0)
    BY JobFacts DEF DriverInv, DriverTyped, Waiting
  <1>1. CASE ClangEnds
    <2>1. child = "clang" /\ UNCHANGED status /\ \A k \in (1..Count) \ {i} : object'[k] = object[k]
      BY <1>1, <1>t DEF ClangEnds
    <2>2. status # "success" /\ Compiled(i) /\ i \in 1..Count
      BY SMTT(30), <1>t, <2>1 DEF DriverInv, Waiting, OnPath
    <2> QED
      BY <2>1, <2>2
  <1>2. CASE EmitBegins \/ EmitEnds
    <2>1. /\ pc \in {"emit", "emitting"} /\ UNCHANGED status /\ status = "running"
          /\ \A k \in (1..Count) \ {i} : object'[k] = object[k]
      BY <1>2, <1>t DEF EmitBegins, EmitEnds, GoTo, Running
    <2>2. Compiled(i) /\ i \in 1..Count
      BY SMTT(30), <1>t, <2>1 DEF DriverInv, OnPath, Body
    <2> QED
      BY <2>1, <2>2
  <1>3. CASE Unlink
    BY <1>3 DEF Unlink, Running, DriverInv, OnPath
  <1>4. CASE Start \/ NextInput \/ NextInputFails \/ InputsDone \/ Collect \/ Lower
             \/ StartClang \/ StartClangFails \/ WaitClang \/ EmitFails \/ UNCHANGED vars
    BY <1>4 DEF Start, NextInput, NextInputFails, InputsDone, Collect, Lower, StartClang,
                StartClangFails, WaitClang, EmitFails, vars, driver
  <1>5. CASE \E written \in BOOLEAN : Compile(written) \/ Judge(written) \/ WaitLinker(written)
    BY <1>5 DEF Compile, Judge, WaitLinker
  <1>6. CASE WriteSemantics \/ WriteUnits \/ Push \/ PushFails \/ LoopDone \/ StartLinker
             \/ StartLinkerFails \/ LinkerWrites \/ LinkerEnds \/ Return \/ Watchdog \/ Killed
             \/ FatalError
    BY <1>6 DEF WriteSemantics, WriteUnits, Push, PushFails, LoopDone, StartLinker,
                StartLinkerFails, LinkerWrites, LinkerEnds, Return, Watchdog, Killed, FatalError
  <1> QED
    BY <1>1, <1>2, <1>3, <1>4, <1>5, <1>6 DEF Next, Ended

(* The process ends with success at these places.                            *)
LEMMA SucceedsAt ==
    ASSUME DriverInv, [Next]_vars, status' = "success"
    PROVE  \/ UNCHANGED status
           \/ /\ UNCHANGED object
              /\ \/ job.mode = "plain"
                 \/ pc = "cleanup" /\ code = "success" /\ job.mode = "link"
                 \/ job.mode = "compile" /\ pc = "looped" /\ allOk
                 \/ job.mode = "manifest" /\ pc = "looped"
                 \/ job.mode = "manifest" /\ pc = "wait_linker"
  <1>j. job.mode \in {"compile", "link", "manifest", "plain"}
    BY JobFacts DEF DriverInv, DriverTyped
  <1> USE DEF Running
  <1>1. CASE Start \/ NextInput \/ NextInputFails \/ InputsDone \/ Collect \/ Lower
             \/ StartClang \/ StartClangFails \/ ClangEnds \/ WaitClang \/ EmitFails
             \/ UNCHANGED vars
    BY <1>1 DEF Start, NextInput, NextInputFails, InputsDone, Collect, Lower, StartClang, ClangEnds,
                StartClangFails, WaitClang, EmitFails, vars, driver, Stop, GoTo, End
  <1>2. ASSUME NEW written \in BOOLEAN, Compile(written) PROVE job.mode = "plain" /\ UNCHANGED object
    BY <1>2 DEF Compile, Stop, End, GoTo, Outcome
  <1>3. ASSUME NEW written \in BOOLEAN, Judge(written) PROVE UNCHANGED status
    BY <1>3 DEF Judge, Stop, End, GoTo
  <1>4. ASSUME NEW written \in BOOLEAN, WaitLinker(written)
        PROVE  job.mode = "manifest" /\ pc = "wait_linker" /\ UNCHANGED object
    <2>1. pc = "wait_linker" /\ UNCHANGED object /\ job.mode # "link"
      BY <1>4 DEF WaitLinker, CleanUp
    <2> QED
      BY <1>j, <2>1 DEF DriverInv, OnPath
  <1>5. CASE LoopDone
    <2>1. pc = "looped" /\ UNCHANGED object
      BY <1>5 DEF LoopDone
    <2>2. CASE job.mode = "compile"
      BY <1>5, <2>1, <2>2 DEF LoopDone, End, Outcome
    <2>3. CASE job.mode # "compile"
      BY <1>5, <1>j, <2>1, <2>3 DEF LoopDone, End, GoTo, CleanUp
    <2> QED
      BY <2>2, <2>3
  <1>6. CASE Return
    BY <1>6 DEF Return, End, DriverInv, OnPath
  <1>7. CASE WriteSemantics \/ WriteUnits \/ Push \/ PushFails \/ StartLinker
             \/ StartLinkerFails \/ LinkerWrites \/ LinkerEnds \/ Unlink \/ Watchdog \/ Killed
             \/ FatalError \/ EmitBegins \/ EmitEnds
    BY <1>7 DEF WriteSemantics, WriteUnits, Push, PushFails, StartLinker, EmitBegins, EmitEnds,
                StartLinkerFails, LinkerWrites, LinkerEnds, Unlink, Watchdog, Killed, FatalError,
                Stop, GoTo, End, CleanUp, Abandon
  <1> QED
    BY <1>1, <1>2, <1>3, <1>4, <1>5, <1>6, <1>7 DEF Next, Ended

LEMMA ObjectsKept ==
    ASSUME DriverInv, ObjectsInv, [Next]_vars
    PROVE  ObjectsInv'
  <1>j. /\ job' = job /\ Count \in Nat
        /\ Count' = Count /\ \A k : (Native(k)' <=> Native(k)) /\ (Compiled(k)' <=> Compiled(k))
    BY JobKept, JobFacts, JobSame DEF DriverInv, DriverTyped
  <1> SUFFICES ASSUME job.mode \in {"compile", "manifest"}
               PROVE  /\ status' = "success" => \A k \in 1..Count : object'[k] = "whole"
                      /\ \A k \in 1..Count : Compiled(k) \/ object'[k] = "old"
    BY <1>j DEF ObjectsInv
  <1>1. \A k \in 1..Count : Compiled(k) \/ object'[k] = "old"
    BY ObjectsWritten DEF ObjectsInv
  <1>2. ASSUME status' = "success" PROVE \A k \in 1..Count : object'[k] = "whole"
    <2>1. CASE UNCHANGED status
      BY <1>2, <2>1, ObjectsWritten DEF ObjectsInv
    <2>2. CASE pc = "looped" /\ allOk /\ UNCHANGED object
      <3>1. i = Count /\ Behind = i
        BY <2>2 DEF DriverInv, OnPath, Behind, Body
      <3> QED
        BY <2>2, <3>1 DEF DriverInv, Finished
    <2>3. CASE job.mode = "manifest" /\ pc = "wait_linker" /\ UNCHANGED object
      BY <2>3, AllGiven
    <2>4. job.mode = "manifest" => allOk
      BY DEF DriverInv, OnPath
    <2> QED
      BY <1>2, <2>1, <2>2, <2>3, <2>4, SucceedsAt
  <1> QED
    BY <1>1, <1>2

LEMMA MetadataWritten ==
    ASSUME DriverTyped, [Next]_vars
    PROVE  /\ UNCHANGED semantics \/ WriteSemantics
           /\ UNCHANGED units \/ WriteUnits
           /\ pc' \in {"semantics", "units"} => UNCHANGED pc \/ EmitEnds \/ WriteSemantics
  <1>1. CASE Start \/ NextInput \/ NextInputFails \/ InputsDone \/ Lower
             \/ StartClang \/ StartClangFails \/ WaitClang \/ EmitBegins \/ EmitFails
    BY <1>1 DEF Start, NextInput, NextInputFails, InputsDone, Lower, StartClang, EmitBegins,
                StartClangFails, WaitClang, EmitFails, metadata, Stop, GoTo, End, AfterObject
  <1>2. ASSUME NEW written \in BOOLEAN, Compile(written) \/ Judge(written) \/ WaitLinker(written)
        PROVE  UNCHANGED metadata /\ pc' \notin {"semantics", "units"}
    BY <1>2 DEF Compile, Judge, WaitLinker, Stop, End, GoTo, CleanUp
  <1>3. CASE ClangEnds \/ Collect \/ LinkerWrites \/ LinkerEnds \/ Unlink \/ UNCHANGED vars
    BY <1>3 DEF ClangEnds, Collect, LinkerWrites, LinkerEnds, Unlink, vars, driver, metadata
  <1>4. CASE Push \/ PushFails \/ StartLinker \/ StartLinkerFails \/ Return \/ Watchdog
             \/ Killed \/ FatalError
    BY <1>4 DEF Push, PushFails, StartLinker, StartLinkerFails, Return, Watchdog, Killed,
                FatalError, metadata, Stop, GoTo, End, CleanUp, Abandon
  <1>5. CASE LoopDone
    BY <1>5, JobFacts DEF LoopDone, metadata, GoTo, End, CleanUp, DriverTyped
  <1>6. CASE EmitEnds \/ WriteSemantics
    BY <1>6 DEF EmitEnds, WriteSemantics, metadata
  <1>7. CASE WriteUnits
    BY <1>7 DEF WriteUnits, Stop, GoTo, End, AfterObject
  <1> QED
    BY <1>1, <1>2, <1>3, <1>4, <1>5, <1>6, <1>7 DEF Next, Ended, metadata

LEMMA MetaKept ==
    ASSUME DriverInv, MetaInv, [Next]_vars
    PROVE  MetaInv'
  <1>j. /\ job' = job /\ Count \in Nat /\ Count' = Count
        /\ job.mode \in {"compile", "link", "manifest", "plain"}
        /\ (job.meta => job.mode # "plain") /\ (MetadataRefused' <=> MetadataRefused)
    BY JobKept, JobFacts, JobSame DEF DriverInv, DriverTyped, MetadataRefused
  <1>t. /\ status = "running" <=> pc # "done"
        /\ i \in 0..Count /\ (pc \in Body => i # 0)
        /\ object \in [1..Count -> {"old", "absent", "empty", "torn", "whole"}]
    BY DEF DriverInv, DriverTyped
  <1>s. pc' = "start" => i' = 0
    BY StartsOnce DEF DriverInv, MetaInv
  <1>w. /\ UNCHANGED semantics \/ WriteSemantics
        /\ UNCHANGED units \/ WriteUnits
        /\ pc' \in {"semantics", "units"} => UNCHANGED pc \/ EmitEnds \/ WriteSemantics
    BY MetadataWritten DEF DriverInv
  <1> USE DEF Running
  <1>1. CASE ~job.meta
    <2>1. semantics # "new" /\ units # "new" /\ pc \notin {"semantics", "units"} /\ ~MetadataRefused
      BY <1>1 DEF MetaInv, MetadataRefused
    <2>2. UNCHANGED <<semantics, units>>
      BY <1>w, <2>1 DEF WriteSemantics, WriteUnits
    <2>3. pc' \notin {"semantics", "units"}
      <3>1. CASE EmitEnds
        BY <1>1, <3>1 DEF EmitEnds, GoTo, AfterObject
      <3> QED
        BY <1>w, <2>1, <3>1 DEF WriteSemantics
    <2> QED
      BY <1>1, <1>j, <1>s, <2>1, <2>2, <2>3 DEF MetaInv
  <1>2. CASE MetadataRefused
    <2>1. pc \in {"start", "done"} /\ job.meta /\ semantics # "new" /\ units # "new"
      BY <1>2 DEF MetaInv, MetadataRefused
    <2>2. \/ Start \/ Watchdog \/ Killed
          \/ UNCHANGED <<pc, status, child>>
          \/ child \in {"clang", "linker"} /\ child' # "clang" /\ UNCHANGED <<pc, status>>
      <3>1. CASE ClangEnds \/ LinkerWrites \/ LinkerEnds
        BY <3>1 DEF ClangEnds, LinkerWrites, LinkerEnds
      <3>2. CASE UNCHANGED vars
        BY <3>2 DEF vars, driver
      <3>3. CASE Collect \/ \E written \in BOOLEAN : Compile(written) \/ Judge(written) \/ WaitLinker(written)
        BY <1>t, <2>1, <3>3 DEF Collect, Compile, Judge, WaitLinker
      <3>4. CASE NextInput \/ NextInputFails \/ InputsDone \/ Lower \/ StartClang \/ StartClangFails
                 \/ WaitClang \/ EmitBegins \/ EmitEnds \/ EmitFails \/ WriteSemantics \/ WriteUnits
                 \/ Push \/ PushFails \/ LoopDone \/ StartLinker \/ StartLinkerFails \/ Unlink
                 \/ Return \/ FatalError
        BY <1>t, <2>1, <3>4 DEF NextInput, NextInputFails, InputsDone, Lower, StartClang,
             StartClangFails, WaitClang, EmitBegins, EmitEnds, EmitFails, WriteSemantics, WriteUnits,
             Push, PushFails, LoopDone, StartLinker, StartLinkerFails, Unlink, Return, FatalError
      <3> QED
        BY <3>1, <3>2, <3>3, <3>4 DEF Next, Ended
    <2>3. /\ pc' \in {"start", "done"} /\ (status' = "success" => status = "success")
          /\ child' # "clang" \/ UNCHANGED child
      BY <1>2, <2>1, <2>2 DEF Start, Watchdog, Killed, End
    <2>4. UNCHANGED <<semantics, units>>
      BY <1>w, <2>1 DEF WriteSemantics, WriteUnits
    <2> QED
      BY <1>j, <1>s, <1>2, <2>1, <2>3, <2>4 DEF MetaInv, AfterMetadata
  <1>3. CASE job.meta /\ ~MetadataRefused
    <2>c. Count = 1 /\ job.mode \in {"compile", "link"} /\ i \in {0, 1}
      BY SMTT(30), <1>3, <1>j, <1>t DEF MetadataRefused
    <2>p. pc \notin {"clang", "wait_clang"} /\ child # "clang"
      BY <1>3 DEF MetaInv
    <2>n. /\ semantics = "new" => i = 1 /\ pc \notin (Body \ {"units", "push"}) \cup {"start"}
          /\ units = "new" => semantics = "new"
      BY DEF MetaInv
    \* Enough for the steps that write no metadata.
    <2>q. ASSUME UNCHANGED <<semantics, units, i>>,
                 pc' \notin {"units", "clang", "wait_clang"}, child' # "clang",
                 semantics = "new" => pc' \notin (Body \ {"units", "push"}) \cup {"start"},
                 semantics = "new" /\ job.mode # "link" => object'[1] = object[1],
                 i = 1 /\ allOk' /\ pc' \in AfterMetadata => units = "new",
                 pc' = "cleanup" /\ code' = "success" => units = "new",
                 status' = "success" => units = "new"
          PROVE  MetaInv'
      BY <1>3, <1>j, <1>s, <2>q DEF MetaInv
    \* A step out of the work on the input, after a failure.
    <2>f. ASSUME Stop, status = "running", UNCHANGED <<semantics, units, object>>, child' # "clang"
          PROVE  MetaInv'
      <3>1. CASE job.mode = "link"
        BY <2>f, <2>q, <3>1 DEF Stop, Body, AfterMetadata
      <3>2. CASE job.mode # "link"
        BY <2>f, <2>q, <3>2 DEF Stop, End, loop, Body, AfterMetadata
      <3> QED
        BY <3>1, <3>2
    <2>1. CASE Start
      <3>1. i = 0 /\ UNCHANGED <<semantics, units, i, object, child>> /\ pc = "start" /\ semantics # "new"
        BY <2>1, <2>n DEF Start, GoTo, loop, metadata, MetaInv
      <3>2. pc' \in {"input", "done"} /\ status' # "success"
        BY <2>1 DEF Start, GoTo, End
      <3> QED
        BY SMTT(30), <2>p, <2>q, <3>1, <3>2 DEF AfterMetadata
    <2>2. CASE NextInput
      <3>1. i = 0 /\ i' = 1 /\ UNCHANGED <<semantics, units, child>> /\ semantics # "new"
        BY SMTT(30), <2>2, <2>c, <2>n DEF NextInput, metadata
      <3>2. pc' = "compile" /\ status' # "success"
        BY <2>2, <1>3 DEF NextInput, should_use_clang_frontend_fallback
      <3> QED
        BY <1>3, <1>j, <2>p, <2>n, <3>1, <3>2 DEF MetaInv, AfterMetadata
    <2>3. CASE NextInputFails \/ EmitFails \/ PushFails
      BY <2>3, <2>f, <2>p DEF NextInputFails, EmitFails, PushFails, metadata
    <2>4. CASE InputsDone
      <3>1. /\ UNCHANGED <<semantics, units, i, allOk, object, child>> /\ pc = "input"
            /\ pc' = "looped" /\ status' = "running"
        BY <2>4 DEF InputsDone, GoTo, loop, metadata
      <3>2. i = 1 /\ allOk => units = "new"
        BY <1>3, <3>1 DEF MetaInv, AfterMetadata
      <3> QED
        BY <2>p, <2>q, <3>1, <3>2 DEF Body
    <2>5. ASSUME NEW written \in BOOLEAN, Compile(written) PROVE MetaInv'
      <3>1. UNCHANGED <<semantics, units, i, object, child>> /\ pc = "compile" /\ status' = "running"
        BY <2>5, <2>c DEF Compile, GoTo, loop, metadata
      <3>2. pc' \in {"collect", "lower"} \/ (pc' = "input" /\ allOk' = FALSE)
        BY <2>5, <2>c DEF Compile, GoTo
      <3>3. semantics # "new"
        BY <2>n, <3>1 DEF Body
      <3>4. CASE pc' \in {"collect", "lower"}
        BY <2>p, <2>q, <3>1, <3>3, <3>4 DEF AfterMetadata
      <3>5. CASE pc' = "input" /\ allOk' = FALSE
        BY <2>p, <2>q, <3>1, <3>3, <3>5
      <3> QED
        BY <3>2, <3>4, <3>5
    <2>6. CASE Collect
      <3>1. /\ UNCHANGED <<semantics, units, i, object, child, pc>> /\ pc = "collect"
            /\ status' = "running"
        BY <2>6 DEF Collect, metadata
      <3>2. semantics # "new"
        BY <2>n, <3>1 DEF Body
      <3> QED
        BY <2>p, <2>q, <3>1, <3>2 DEF AfterMetadata
    <2>7. ASSUME NEW written \in BOOLEAN, Judge(written) PROVE MetaInv'
      <3>1. UNCHANGED <<semantics, units, object, child>> /\ pc = "collect" /\ status = "running"
        BY <2>7 DEF Judge, metadata
      <3>2. semantics # "new"
        BY <2>n, <3>1 DEF Body
      <3>3. CASE Stop
        BY <2>f, <2>p, <3>1, <3>3
      <3>4. CASE GoTo("lower") /\ status = "running"
        BY <2>p, <2>q, <3>1, <3>2, <3>4 DEF GoTo, loop, AfterMetadata
      <3> QED
        BY <2>7, <3>3, <3>4 DEF Judge
    <2>8. CASE Lower \/ EmitBegins \/ EmitEnds
      <3>1. UNCHANGED <<semantics, units, i, child>> /\ pc \in {"lower", "emit", "emitting"}
            /\ status' = "running"
        BY <2>8 DEF Lower, EmitBegins, EmitEnds, GoTo, loop, metadata
      <3>2. semantics # "new"
        BY <2>n, <3>1 DEF Body
      <3>3. pc' \in {"emit", "emitting", "semantics"}
        BY <2>8, <1>3 DEF Lower, EmitBegins, EmitEnds, GoTo, should_use_clang_backend_fallback
      <3> QED
        BY <2>p, <2>q, <3>1, <3>2, <3>3 DEF AfterMetadata
    <2>9. CASE StartClang \/ StartClangFails \/ ClangEnds \/ WaitClang
      BY <2>9, <2>p DEF StartClang, StartClangFails, ClangEnds, WaitClang
    <2>10. CASE WriteSemantics
      <3>1. UNCHANGED <<units, object, child>> /\ pc = "semantics" /\ status = "running"
        BY <2>10 DEF WriteSemantics
      <3>2. CASE UNCHANGED semantics /\ Stop
        BY <2>f, <2>p, <3>1, <3>2
      <3>3. CASE semantics' = "new" /\ GoTo("units")
        <4>1. i = 1 /\ object[1] = "whole"
          BY <1>t, <2>c, <3>1 DEF DriverInv, OnPath, Body
        <4>2. pc' = "units" /\ i' = 1 /\ status' = "running" /\ object'[1] = "whole"
          BY <3>1, <3>3, <4>1 DEF GoTo, loop
        <4> QED
          BY <1>3, <1>j, <2>p, <3>1, <3>3, <4>2 DEF MetaInv, AfterMetadata, Body
      <3> QED
        BY <2>10, <3>2, <3>3 DEF WriteSemantics
    <2>11. CASE WriteUnits
      <3>1. UNCHANGED <<semantics, object, child>> /\ pc = "units" /\ status = "running"
        BY <2>11 DEF WriteUnits
      <3>2. CASE UNCHANGED units /\ Stop
        BY <2>f, <2>p, <3>1, <3>2
      <3>3. CASE units' = "new" /\ GoTo(AfterObject)
        <4>1. semantics = "new"
          BY <3>1 DEF MetaInv
        <4>2. pc' \in {"push", "input"} /\ i' = i /\ status' = "running"
          BY <3>1, <3>3 DEF GoTo, loop, AfterObject
        <4> QED
          BY <1>3, <1>j, <2>p, <3>1, <3>3, <4>1, <4>2 DEF MetaInv, AfterMetadata, Body
      <3> QED
        BY <2>11, <3>2, <3>3 DEF WriteUnits
    <2>12. CASE Push
      <3>1. /\ UNCHANGED <<semantics, units, i, allOk, object, child>> /\ pc = "push"
            /\ pc' = "input" /\ status' = "running"
        BY <2>12 DEF Push, metadata
      <3>2. i = 1 /\ allOk => units = "new"
        BY <1>3, <3>1 DEF MetaInv, AfterMetadata
      <3> QED
        BY <2>p, <2>q, <3>1, <3>2 DEF Body
    <2>13. CASE LoopDone \/ StartLinker \/ StartLinkerFails
      <3>1. /\ UNCHANGED <<semantics, units, i, allOk, object>> /\ pc \in {"looped", "prepare"}
            /\ child' # "clang"
        BY <2>13, <2>c, <2>p DEF LoopDone, StartLinker, StartLinkerFails, Abandon, GoTo, CleanUp,
                                 loop, metadata
      <3>2. \/ pc' \in {"prepare", "wait_linker"} /\ allOk' = allOk
            \/ pc' = "cleanup" /\ code' = "failure"
            \/ pc' = "done"
        BY <2>13, <2>c, <3>1 DEF LoopDone, StartLinker, StartLinkerFails, Abandon, GoTo, CleanUp, End
      <3>a. status' = "success" => allOk /\ pc = "looped"
        <4>1. CASE LoopDone /\ job.mode = "compile"
          BY <4>1 DEF LoopDone, End, Outcome
        <4>2. CASE StartLinker \/ StartLinkerFails \/ (LoopDone /\ job.mode = "link")
          BY <4>2 DEF LoopDone, StartLinker, StartLinkerFails, Abandon, GoTo, CleanUp, End
        <4> QED
          BY <2>13, <2>c, <4>1, <4>2
      <3>3. i = 1 /\ allOk => units = "new"
        BY <1>3, <3>1 DEF MetaInv, AfterMetadata
      <3>4. status' = "success" => units = "new"
        <4>1. allOk /\ pc = "looped" => i = 1
          BY <2>c DEF DriverInv, OnPath
        <4> QED
          BY <3>a, <3>3, <4>1
      <3>5. pc' \notin Body \cup {"start"}
        BY <3>2 DEF Body
      <3>6. i = 1 /\ allOk' /\ pc' \in AfterMetadata => units = "new"
        BY <3>2, <3>3 DEF AfterMetadata
      <3>7. pc' = "cleanup" => code' # "success"
        BY <3>2
      <3> QED
        BY <2>q, <3>1, <3>4, <3>5, <3>6, <3>7 DEF Body
    <2>14. CASE LinkerWrites \/ LinkerEnds
      <3>1. /\ UNCHANGED <<semantics, units, i, allOk, code, object, pc, status>>
            /\ child' # "clang"
        BY <2>14 DEF LinkerWrites, LinkerEnds, loop, metadata
      <3> QED
        BY <1>3, <1>j, <2>p, <3>1 DEF MetaInv
    <2>15. ASSUME NEW written \in BOOLEAN, WaitLinker(written) PROVE MetaInv'
      <3>1. /\ UNCHANGED <<semantics, units, i, object>> /\ pc = "wait_linker"
            /\ child' = "none"
        BY <2>15 DEF WaitLinker, CleanUp, End, loop, metadata
      <3>2. allOk /\ i = 1 /\ job.mode = "link"
        BY <2>c, <3>1 DEF DriverInv, OnPath
      <3>3. units = "new"
        BY <1>3, <3>1, <3>2 DEF MetaInv, AfterMetadata
      <3>4. pc' = "cleanup"
        BY <2>15, <3>2 DEF WaitLinker, CleanUp
      <3> QED
        BY <2>q, <3>1, <3>3, <3>4 DEF Body
    <2>16. CASE Unlink
      <3>1. /\ UNCHANGED <<semantics, units, i, pc, code, child>> /\ pc = "cleanup"
            /\ status' = "running"
        BY <2>16 DEF Unlink, metadata
      <3>2. job.mode = "link"
        BY <3>1 DEF DriverInv, OnPath
      <3>3. code = "success" => units = "new"
        BY <1>3, <3>1 DEF MetaInv
      <3> QED
        BY <2>p, <2>q, <3>1, <3>2, <3>3 DEF Body, AfterMetadata
    <2>17. CASE Return
      <3>1. /\ UNCHANGED <<semantics, units, i, child, object>> /\ pc = "cleanup"
            /\ status' = code /\ pc' = "done"
        BY <2>17 DEF Return, End, metadata, loop
      <3>2. code = "success" => units = "new"
        BY <1>3, <3>1 DEF MetaInv
      <3> QED
        BY <2>p, <2>q, <3>1, <3>2 DEF Body, AfterMetadata
    <2>18. CASE Watchdog \/ Killed \/ FatalError
      <3>1. /\ UNCHANGED <<semantics, units, i, object>> /\ pc' = "done"
            /\ status' # "success" /\ child' # "clang"
        BY <2>18, <2>p DEF Watchdog, Killed, FatalError, End, metadata, loop
      <3> QED
        BY <2>q, <3>1 DEF Body, AfterMetadata
    <2>19. CASE UNCHANGED vars
      <3>1. UNCHANGED <<semantics, units, i, allOk, code, object, pc, status, child>>
        BY <2>19 DEF vars, driver, loop, metadata
      <3> QED
        BY <1>3, <1>j, <2>p, <3>1 DEF MetaInv
    <2> QED
      BY <2>1, <2>2, <2>3, <2>4, <2>5, <2>6, <2>7, <2>8, <2>9, <2>10, <2>11, <2>12, <2>13, <2>14,
         <2>15, <2>16, <2>17, <2>18, <2>19 DEF Next, Ended
  <1> QED
    BY <1>1, <1>2, <1>3

(* In compile-only mode and for a manifest a success means that every object *)
(* is new and an input with errors keeps its old one; the two metadata files *)
(* are replaced after the object and in that order, wherever the process     *)
(* ends.                                                                     *)
THEOREM ObjectsMatch == Spec => []ObjectsMatchStatus
  <1>1. Init => ObjectsInv /\ MetaInv
    <2> SUFFICES ASSUME Init PROVE ObjectsInv /\ MetaInv
      OBVIOUS
    <2>1. ObjectsInv
      <3>1. object = [k \in 1..Count |-> IF job.mode = "link" THEN "absent" ELSE "old"]
            /\ status = "running"
        BY DEF Init
      <3> QED
        BY <3>1 DEF ObjectsInv
    <2>2. MetaInv
      BY DEF Init, MetaInv, AfterMetadata
    <2> QED
      BY <2>1, <2>2
  <1>2. DriverInv /\ ObjectsInv /\ MetaInv /\ [Next]_vars => ObjectsInv' /\ MetaInv'
    BY ObjectsKept, MetaKept
  <1>3. ObjectsInv /\ MetaInv => ObjectsMatchStatus
    BY DEF ObjectsInv, MetaInv, ObjectsMatchStatus, Compiled
  <1> QED
    BY <1>1, <1>2, <1>3, DriverCorrect, PTL DEF Spec

-----------------------------------------------------------------------------
(* Conflicts are symmetric, and no declaration conflicts with itself.        *)
LEMMA ConflictsBothWays ==
    ASSUME NEW s \in Symbol, NEW t \in Symbol, Conflicting(s, t)
    PROVE  Conflicting(t, s) /\ s # t
  <1>1. /\ s.name = t.name /\ s.kind = t.kind /\ ~Compatible(t, s.type, t.type)
        /\ t.kind = "function" \/ s.hasDefinition \/ t.hasDefinition
    BY DEF Conflicting
  <1>2. s.type \in Type /\ t.type \in Type
    BY DEF Symbol
  <1>3. ASSUME NEW a \in Type, NEW b \in Type, cross_tu_function_signatures_match(a, b)
        PROVE  cross_tu_function_signatures_match(b, a)
    BY <1>3 DEF cross_tu_function_signatures_match, Type
  <1>4. ASSUME NEW a \in Type, NEW b \in Type, cross_tu_array_bounds_compatible(a, b)
        PROVE  cross_tu_array_bounds_compatible(b, a)
    BY <1>4 DEF cross_tu_array_bounds_compatible, Type
  <1>5. ~Compatible(s, t.type, s.type)
    <2>1. CASE s.type.base # t.type.base
      BY <2>1 DEF Compatible
    <2>2. CASE t.kind = "function"
      BY <1>1, <1>2, <1>3, <2>2 DEF Compatible
    <2>3. CASE t.kind # "function"
      BY <1>1, <1>2, <1>4, <2>3 DEF Compatible
    <2> QED
      BY <2>1, <2>2, <2>3
  <1>6. ASSUME NEW a \in Type
        PROVE  cross_tu_function_signatures_match(a, a) /\ cross_tu_array_bounds_compatible(a, a)
    BY DEF cross_tu_function_signatures_match, cross_tu_array_bounds_compatible, Type
  <1>7. s # t
    BY <1>1, <1>2, <1>6 DEF Compatible
  <1> QED
    BY <1>1, <1>5, <1>7 DEF Conflicting

(* When the declarations of all inputs are in the ledger, they agree.        *)
LEMMA EnteredAgree ==
    ASSUME LedgerInv, NEW s, NEW t, Entered(s), Entered(t)
    PROVE  ~Conflicting(s, t)
  <1>1. items \in Seq(Symbol)
    BY DEF LedgerInv, LedgerTyped
  <1>2. PICK a \in 1..Len(items) : items[a] = s
    BY DEF Entered
  <1>3. PICK b \in 1..Len(items) : items[b] = t
    BY DEF Entered
  <1>4. s \in Symbol /\ t \in Symbol
    <2> HIDE DEF Symbol
    <2> QED
      BY <1>1, <1>2, <1>3
  <1>5. CASE a < b
    BY <1>2, <1>3, <1>5 DEF LedgerInv, LedgerConsistent
  <1>6. CASE b < a
    <2>1. ~Conflicting(t, s)
      BY <1>2, <1>3, <1>6 DEF LedgerInv, LedgerConsistent
    <2> QED
      BY <1>4, <2>1, ConflictsBothWays
  <1>7. CASE a = b
    BY <1>2, <1>3, <1>4, <1>7, ConflictsBothWays
  <1> QED
    BY <1>5, <1>6, <1>7

LEMMA EnteredStays ==
    ASSUME LedgerInv, [LedgerNext]_ledger, NEW s, Entered(s)
    PROVE  Entered(s)'
  <1>1. PICK a \in 1..Len(items) : items[a] = s
    BY DEF Entered
  <1>2. items' = items \/ items' = Append(items, sym)
    BY DEF LedgerNext, LedgerStep, ledger, Compare, Oppose, OpposeFails, OutOfMemory, Reserve,
           ReserveFails, Relink, Install, Enter, EnterFails, Take, TakeFails, PassOver
  <1>3. CASE items' = items
    BY <1>1, <1>3 DEF Entered
  <1>4. CASE items' = Append(items, sym)
    <2>1. items \in Seq(Symbol)
      BY DEF LedgerInv, LedgerTyped
    <2>2. /\ a \in 1..Len(Append(items, sym)) /\ Append(items, sym)[a] = items[a]
      <3> HIDE DEF Symbol
      <3> QED
        BY <2>1
    <2> QED
      BY <1>1, <1>4, <2>2 DEF Entered
  <1> QED
    BY <1>2, <1>3, <1>4

(* One step of the collection loses no symbol.                               *)
LEMMA HandledStays ==
    ASSUME LedgerInv, DriverTyped, Collect, ~oom', ~conflict'.found,
           NEW s, Recorded(s), ~oom /\ ~conflict.found => Handled(s)
    PROVE  Handled(s)'
  <1>i. items \in Seq(Symbol) /\ todo \in Seq(Symbol)
    BY DEF LedgerInv, LedgerTyped, DriverTyped
  <1>e. Entered(s) => Entered(s)'
    <2>1. [Next]_vars
      BY DEF Next
    <2>2. [LedgerNext]_ledger
      BY <2>1, StepOfLedger
    <2> QED
      BY <2>2, EnteredStays
  <1>f. ~oom /\ ~conflict.found /\ Handled(s)
    <2>1. \/ conflict' = [found |-> TRUE, prior |-> cursor, symbol |-> sym]
          \/ oom' = TRUE
          \/ UNCHANGED <<conflict, oom>>
      BY DEF Collect, LedgerStep, ledger, Compare, Oppose, OpposeFails, OutOfMemory, Reserve,
           ReserveFails, Relink, Install, Enter, EnterFails, Take, TakeFails, PassOver
    <2>2. conflict' # [found |-> TRUE, prior |-> cursor, symbol |-> sym]
      OBVIOUS
    <2>3. UNCHANGED <<conflict, oom>>
      BY <2>1, <2>2
    <2> QED
      BY <2>3
  <1>1. CASE /\ todo # <<>> /\ todo' = Tail(todo)
             /\ Take(Head(todo)) \/ TakeFails(Head(todo)) \/ PassOver(Head(todo))
    <2>1. Range(todo) = Range(todo') \cup {Head(todo)}
      <3> HIDE DEF Symbol
      <3> QED
        BY <1>1, <1>i, HeadAndRest
    <2>2. CASE Take(Head(todo))
      BY <1>1, <1>e, <1>f, <2>1, <2>2 DEF Take, Handled
    <2>3. CASE TakeFails(Head(todo))
      BY <2>3 DEF TakeFails, OutOfMemory
    <2>4. CASE PassOver(Head(todo))
      <3>1. stage = "idle" /\ ~Recorded(Head(todo))
        BY <1>f, <2>4 DEF PassOver
      <3> QED
        BY <1>e, <1>f, <2>1, <3>1 DEF Handled
    <2> QED
      BY <1>1, <2>2, <2>3, <2>4
  <1>2. CASE LedgerStep /\ UNCHANGED todo
    <2>1. CASE Enter
      <3>1. items' = Append(items, sym)
        BY <2>1 DEF Enter
      <3>2. Entered(sym)'
        <4>1. /\ Len(items) + 1 \in 1..Len(Append(items, sym))
              /\ Append(items, sym)[Len(items) + 1] = sym
          <5> HIDE DEF Symbol
          <5> QED
            BY <1>i
        <4>2. sym' = sym
          BY <2>1 DEF Enter
        <4> QED
          BY <3>1, <4>1, <4>2 DEF Entered
      <3>3. sym' = sym
        BY <2>1 DEF Enter
      <3> QED
        BY <1>2, <1>e, <1>f, <3>2, <3>3 DEF Handled
    <2>2. CASE Compare \/ Reserve \/ Relink \/ Install
      <3>1. stage' # "idle" /\ sym' = sym
        BY <2>2 DEF Compare, Reserve, Relink, Install
      <3> QED
        BY <1>2, <1>e, <1>f, <3>1 DEF Handled
    <2>3. CASE Oppose \/ OpposeFails \/ ReserveFails \/ EnterFails
      <3>1. ~Oppose
        <4>1. conflict' # [found |-> TRUE, prior |-> cursor, symbol |-> sym]
          OBVIOUS
        <4> QED
          BY <4>1 DEF Oppose
      <3>2. ~OutOfMemory
        BY DEF OutOfMemory
      <3> QED
        BY Zenon, <2>3, <3>1, <3>2 DEF OpposeFails, ReserveFails, EnterFails
    <2> QED
      BY <1>2, <2>1, <2>2, <2>3 DEF LedgerStep
  <1> QED
    BY <1>1, <1>2 DEF Collect

LEMMA CollectKept ==
    ASSUME LedgerInv, DriverInv, CollectInv, [Next]_vars
    PROVE  CollectInv'
  <1>j. /\ job' = job /\ Count \in Nat /\ Count' = Count
        /\ job.mode \in {"compile", "link", "manifest", "plain"}
        /\ \A k : (Native(k)' <=> Native(k)) /\ (Compiled(k)' <=> Compiled(k))
        /\ \A k : Input(k)' = Input(k)
    BY JobKept, JobFacts, JobSame DEF DriverInv, DriverTyped, Input
  <1>t. /\ status = "running" <=> pc # "done"
        /\ i \in 0..Count
    BY DEF DriverInv, DriverTyped
  <1>g. Agreeing' <=> Agreeing
    BY <1>j DEF Agreeing
  <1>e. \A k : AllEntered(k) => AllEntered(k)'
    <2>1. [LedgerNext]_ledger
      BY StepOfLedger DEF DriverInv
    <2> QED
      BY <1>j, <2>1, EnteredStays DEF AllEntered
  <1> USE DEF Running
  <1>1. CASE Collect
    <2>1. UNCHANGED <<pc, i, allOk, output, child, status>> /\ pc = "collect"
      BY <1>1 DEF Collect
    <2>2. ASSUME NEW s \in Range(Input(i).symbols), Recorded(s), ~oom', ~conflict'.found
          PROVE  Handled(s)'
      BY <1>1, <2>1, <2>2, HandledStays DEF CollectInv, DriverInv
    <2>3. ASSUME status' = "running", allOk', job'.mode = "link", NEW k \in 1..i, k # i, Native(k)
          PROVE  AllEntered(k)'
      BY <1>j, <1>e, <2>1, <2>3 DEF CollectInv
    <2> QED
      BY <1>j, <1>g, <2>1, <2>2, <2>3 DEF CollectInv
  \* Enough for the steps that neither move to the next input nor look at its symbols.
  <1>k. ASSUME UNCHANGED <<ledger, i, todo>>, status' = "running" => status = "running",
               allOk' => allOk,
               status' = "running" => pc \notin {"compile", "collect"} \/ UNCHANGED pc,
               pc' # "collect" \/ UNCHANGED pc,
               child' = "linker" => child = "linker", UNCHANGED output
        PROVE  CollectInv'
    <2>1. status' = "running" /\ pc' # "collect" => stage' = "idle"
      BY <1>k DEF CollectInv, ledger
    <2>2. ASSUME status' = "running", allOk', job'.mode = "link", NEW k \in 1..i',
                 Native(k)', k = i' => pc' \notin {"compile", "collect"}
          PROVE  AllEntered(k)'
      BY <1>j, <1>e, <1>k, <2>2 DEF CollectInv
    <2>3. ASSUME pc' = "collect", ~oom', ~conflict'.found, NEW s \in Range(Input(i).symbols),
                 Recorded(s)
          PROVE  Handled(s)'
      <3>1. Handled(s)' <=> Handled(s)
        BY <1>k DEF Handled, Entered, ledger
      <3>2. pc = "collect" /\ ~oom /\ ~conflict.found
        BY <1>k, <2>3 DEF ledger
      <3> QED
        BY <2>3, <3>1, <3>2 DEF CollectInv
    <2>4. job'.mode = "link" /\ (child' = "linker" \/ output'.kind # "old") => Agreeing'
      BY <1>j, <1>g, <1>k DEF CollectInv
    <2>5. Range(Input(i).symbols)' = Range(Input(i).symbols)
      BY <1>j, <1>k DEF Input, Range
    <2> QED
      BY <1>j, <2>1, <2>2, <2>3, <2>4, <2>5 DEF CollectInv
  <1>m. ASSUME UNCHANGED <<ledger, output>>, status = "running", pc \notin {"compile", "collect"},
               child' # "linker" \/ UNCHANGED child, pc' # "collect",
               Stop \/ GoTo(pc') \/ (UNCHANGED loop /\ End(status')) \/ CleanUp(code')
        PROVE  CollectInv'
    <2>1. UNCHANGED <<i, todo>> /\ (allOk' => allOk)
      <3>1. CASE Stop /\ job.mode = "link"
        BY <3>1 DEF Stop
      <3>2. CASE (Stop /\ job.mode # "link") \/ GoTo(pc') \/ (UNCHANGED loop /\ End(status')) \/ CleanUp(code')
        <4>1. UNCHANGED <<i, todo, allOk>>
          BY <3>2 DEF Stop, GoTo, loop, CleanUp
        <4> QED
          BY <4>1
      <3> QED
        BY <1>m, <3>1, <3>2
    <2> QED
      BY <1>k, <1>m, <2>1
  <1>2. CASE Start \/ NextInputFails \/ InputsDone \/ Lower \/ StartClang \/ StartClangFails
             \/ WaitClang \/ EmitBegins \/ EmitEnds \/ EmitFails
    BY <1>2, <1>m DEF Start, NextInputFails, InputsDone, Lower, StartClang, StartClangFails,
         WaitClang, EmitBegins, EmitEnds, EmitFails, Stop, GoTo, End, AfterObject
  <1>3. CASE WriteSemantics \/ WriteUnits \/ PushFails \/ LoopDone \/ StartLinkerFails \/ Return
    BY <1>3, <1>m, <1>j DEF WriteSemantics, WriteUnits, PushFails, LoopDone, StartLinkerFails, Abandon,
         Return, Stop, GoTo, End, CleanUp, AfterObject
  <1>4. ASSUME NEW written \in BOOLEAN, WaitLinker(written) PROVE CollectInv'
    BY <1>4, <1>m DEF WaitLinker, End, CleanUp
  <1>5. CASE ClangEnds \/ Push \/ Unlink \/ UNCHANGED vars
    <2>1. /\ UNCHANGED <<ledger, output, i, todo, allOk, status>>
          /\ child' # "linker" \/ UNCHANGED child
          /\ UNCHANGED pc \/ (pc = "push" /\ pc' = "input")
      BY <1>5 DEF ClangEnds, Push, Unlink, vars, driver, loop
    <2> QED
      BY <1>k, <2>1
  <1>6. CASE Watchdog \/ Killed \/ FatalError
    <2>1. /\ UNCHANGED <<ledger, output, i, todo, allOk>> /\ status' # "running" /\ pc' = "done"
          /\ child' # "linker" \/ UNCHANGED child
      BY <1>6 DEF Watchdog, Killed, FatalError, End, loop
    <2> QED
      BY <1>k, <2>1
  <1>7. CASE NextInput
    <2>1. /\ UNCHANGED <<ledger, output, todo, allOk, child>> /\ i' = i + 1 /\ pc = "input"
          /\ status = "running" /\ status' = "running" /\ pc' # "collect"
          /\ i + 1 \in 1..Count
      BY SMTT(30), <1>7, <1>j, <1>t DEF NextInput
    <2>2. job.mode = "link" /\ Native(i + 1) => pc' = "compile"
      BY <1>7 DEF NextInput, Native
    <2>3. ASSUME allOk', job'.mode = "link", NEW k \in 1..i', Native(k)',
                 k = i' => pc' \notin {"compile", "collect"}
          PROVE  AllEntered(k)'
      <3>1. Native(k) /\ k \in 1..i
        BY SMTT(30), <1>j, <1>t, <2>1, <2>2, <2>3
      <3> QED
        BY <1>j, <1>e, <2>1, <2>3, <3>1 DEF CollectInv
    <2>4. stage' = "idle"
      BY <2>1 DEF CollectInv, ledger
    <2>5. job'.mode = "link" /\ (child' = "linker" \/ output'.kind # "old") => Agreeing'
      BY <1>j, <1>g, <2>1 DEF CollectInv
    <2> QED
      BY <1>j, <2>1, <2>3, <2>4, <2>5 DEF CollectInv
  <1>8. ASSUME NEW written \in BOOLEAN, Compile(written) PROVE CollectInv'
    <2>1. UNCHANGED <<ledger, output, child, i>> /\ pc = "compile" /\ status = "running"
      BY <1>8 DEF Compile, Stop, GoTo, loop
    <2>2. \/ pc' = "collect" /\ todo' = Input(i).symbols /\ UNCHANGED <<i, allOk>>
          \/ pc' # "collect" /\ status' # "running"
          \/ pc' # "collect" /\ (job.mode = "link" => ~allOk')
      BY <1>8, <1>j DEF Compile, Stop, GoTo, loop, End
    <2>3. stage' = "idle"
      BY <2>1 DEF CollectInv, ledger
    <2>4. job'.mode = "link" /\ (child' = "linker" \/ output'.kind # "old") => Agreeing'
      BY <1>j, <1>g, <2>1 DEF CollectInv
    <2>5. CASE pc' = "collect" /\ todo' = Input(i).symbols /\ UNCHANGED <<i, allOk>>
      <3>1. ASSUME allOk', job'.mode = "link", NEW k \in 1..i', Native(k)', k # i'
            PROVE  AllEntered(k)'
        BY <1>j, <1>e, <2>1, <2>5, <3>1 DEF CollectInv
      <3>2. \A s \in Range(Input(i).symbols)' : Handled(s)'
        BY <1>j, <2>5 DEF Handled, Input
      <3> QED
        BY <2>3, <2>4, <2>5, <3>1, <3>2 DEF CollectInv
    <2>6. CASE pc' # "collect" /\ status' # "running"
      BY <2>4, <2>6 DEF CollectInv
    <2>7. CASE pc' # "collect" /\ (job.mode = "link" => ~allOk')
      BY <1>j, <2>3, <2>4, <2>7 DEF CollectInv
    <2> QED
      BY <2>2, <2>5, <2>6, <2>7
  <1>9. ASSUME NEW written \in BOOLEAN, Judge(written) PROVE CollectInv'
    <2>1. /\ UNCHANGED <<ledger, output, child, i, todo>> /\ pc = "collect" /\ status = "running"
          /\ todo = <<>> /\ stage = "idle" /\ pc' # "collect"
      BY <1>9 DEF Judge, Stop, GoTo, loop, End
    <2>2. job'.mode = "link" /\ (child' = "linker" \/ output'.kind # "old") => Agreeing'
      BY <1>j, <1>g, <2>1 DEF CollectInv
    <2>3. stage' = "idle"
      BY <2>1 DEF ledger
    <2>4. CASE oom \/ conflict.found
      <3>1. status' # "running" \/ (job.mode = "link" => ~allOk')
        BY <1>9, <2>4 DEF Judge, Stop, End
      <3> QED
        BY <1>j, <2>1, <2>2, <2>3, <3>1 DEF CollectInv
    <2>5. CASE ~oom /\ ~conflict.found
      <3>1. allOk' = allOk
        BY <1>9, <2>5 DEF Judge, GoTo, loop
      <3>2. AllEntered(i)
        <4>1. Range(todo) = {}
          BY <2>1 DEF Range
        <4> QED
          BY <2>1, <2>5, <4>1 DEF CollectInv, Handled, AllEntered
      <3>3. ASSUME allOk', job'.mode = "link", NEW k \in 1..i', Native(k)' PROVE AllEntered(k)'
        BY <1>j, <1>e, <2>1, <3>1, <3>2, <3>3 DEF CollectInv
      <3> QED
        BY <1>j, <2>1, <2>2, <2>3, <3>3 DEF CollectInv
    <2> QED
      BY <2>4, <2>5
  <1>10. CASE StartLinker
    <2>1. /\ UNCHANGED <<ledger, output, i, todo, allOk>> /\ pc = "prepare" /\ pc' = "wait_linker"
          /\ status = "running" /\ status' = "running"
      BY <1>10 DEF StartLinker, GoTo, loop
    <2>2. i = Count /\ allOk
      BY <2>1 DEF DriverInv, OnPath
    <2>3. ASSUME job.mode = "link", NEW k \in 1..Count, Native(k) PROVE AllEntered(k)
      BY <2>1, <2>2, <2>3 DEF CollectInv
    <2>4. job.mode = "link" => Agreeing
      BY <2>3, EnteredAgree DEF Agreeing, AllEntered
    <2>5. ASSUME allOk', job'.mode = "link", NEW k \in 1..i', Native(k)' PROVE AllEntered(k)'
      BY <1>j, <1>e, <2>1, <2>2, <2>3, <2>5
    <2>6. stage' = "idle"
      BY <2>1 DEF CollectInv, ledger
    <2> QED
      BY <1>g, <1>j, <2>1, <2>4, <2>5, <2>6 DEF CollectInv
  <1>11. CASE LinkerWrites \/ LinkerEnds
    <2>1. /\ UNCHANGED <<ledger, i, todo, allOk, pc, status>> /\ child = "linker"
      BY <1>11 DEF LinkerWrites, LinkerEnds, loop
    <2>2. job.mode = "link" => Agreeing'
      BY <1>g, <2>1 DEF CollectInv
    <2>3. pc # "collect"
      BY <1>t, <2>1 DEF DriverInv, Waiting
    <2>4. ASSUME status' = "running", allOk', job'.mode = "link", NEW k \in 1..i', Native(k)',
                 k = i' => pc' \notin {"compile", "collect"}
          PROVE  AllEntered(k)'
      BY <1>j, <1>e, <2>1, <2>4 DEF CollectInv
    <2>5. status' = "running" => stage' = "idle"
      BY <2>1, <2>3 DEF CollectInv, ledger
    <2> QED
      BY <1>j, <2>1, <2>2, <2>3, <2>4, <2>5 DEF CollectInv
  <1> QED
    BY <1>1, <1>2, <1>3, <1>4, <1>5, <1>6, <1>7, <1>8, <1>9, <1>10, <1>11 DEF Next, Ended

(* The linker of link mode writes nothing from two inputs of the own front   *)
(* end that declare one external symbol with conflicting types: all the      *)
(* declarations that count are in the ledger before the linker is started,   *)
(* and no two of the ledger conflict.                                        *)
THEOREM LinkedDeclarationsAgree == Spec => []LinkedConsistent
  <1>1. Init => CollectInv
    <2> SUFFICES ASSUME Init PROVE CollectInv
      OBVIOUS
    <2>1. /\ stage = "idle" /\ i = 0 /\ pc = "start" /\ child = "none" /\ output.kind = "old"
      BY DEF Init, LedgerInit, File
    <2> QED
      BY <2>1 DEF CollectInv
  <1>2. LedgerInv /\ DriverInv /\ CollectInv /\ [Next]_vars => CollectInv'
    BY CollectKept
  <1>3. CollectInv => LinkedConsistent
    BY DEF CollectInv, LinkedConsistent, Agreeing
  <1> QED
    BY <1>1, <1>2, <1>3, DriverCorrect, DriverImplementsLedger, LedgerCorrect, PTL DEF Spec

-----------------------------------------------------------------------------
(* The ledger stops at the first conflict or failed allocation.              *)
LEMMA FlagsKept ==
    ASSUME LedgerInv, FlagsInv, [LedgerNext]_ledger
    PROVE  FlagsInv'
  <1>1. stage # "idle" => ~conflict.found /\ ~oom
    BY DEF LedgerInv, Searched, FlagsInv
  <1>2. CASE (\E s \in Symbol : PassOver(s)) \/ UNCHANGED ledger
    BY SMTT(30), <1>2 DEF PassOver, ledger, FlagsInv
  <1>3. CASE (\E s \in Symbol : Take(s)) \/ Compare \/ Reserve \/ Relink \/ Install \/ Enter
    <2>1. UNCHANGED <<oom, conflict>> /\ ~oom /\ ~conflict.found
      BY <1>1, <1>3 DEF Take, Compare, Reserve, Relink, Install, Enter
    <2> QED
      BY <2>1 DEF FlagsInv
  <1>4. CASE (\E s \in Symbol : TakeFails(s)) \/ OpposeFails \/ ReserveFails \/ EnterFails
    <2>1. stage' = "idle" /\ UNCHANGED conflict /\ ~conflict.found
      BY <1>1, <1>4 DEF TakeFails, OpposeFails, ReserveFails, EnterFails, OutOfMemory
    <2> QED
      BY <2>1 DEF FlagsInv
  <1>5. CASE Oppose
    <2>1. stage' = "idle" /\ UNCHANGED oom /\ ~oom
      BY <1>1, <1>5 DEF Oppose
    <2> QED
      BY <2>1 DEF FlagsInv
  <1> QED
    BY <1>2, <1>3, <1>4, <1>5 DEF LedgerNext, LedgerStep

(* What the file holds at the end follows from what is known of it.          *)
LEMMA CompleteAtEnd ==
    ASSUME DriverTyped, DiagInv
    PROVE  DiagnosticsComplete
  <1> SUFFICES ASSUME job.diags, ByItself, ~warned, job.mode \in {"compile", "link"}
               PROVE  CASE diagFile.kind = "conflict" -> conflict.found
                        [] diagFile.kind = "link" -> allOk /\ status = "failure"
                        [] diagFile.kind \in {"old", "inputs"} ->
                              /\ ~conflict.found
                              /\ Ascending(diagFile.of)
                              /\ Range(diagFile.of) = {k \in 1..i : Native(k) /\ Input(k).fails # "context"}
    BY DEF DiagnosticsComplete
  <1>1. pc = "done" /\ status \in {"success", "failure"}
    BY DEF DriverTyped, ByItself
  <1>2. Reportable = {k \in 1..i : Native(k) /\ Input(k).fails # "context"}
    BY <1>1 DEF Reportable
  <1>3. diagFile.kind \in {"old", "inputs", "conflict", "link"}
    BY DEF DiagInv, KindsInv
  <1>4. CASE diagFile.kind = "conflict"
    BY <1>4 DEF DiagInv, KindsInv
  <1>5. CASE diagFile.kind = "link"
    <2>1. allOk /\ status = "failure"
      BY <1>5 DEF DiagInv, KindsInv
    <2> QED
      BY <1>5, <2>1
  <1>6. CASE diagFile.kind \in {"old", "inputs"}
    <2>1. ~conflict.found
      BY <1>1, <1>6 DEF DiagInv, ConflictShown
    <2>2. /\ diagFile.of = aggregate
          /\ Ascending(aggregate) /\ Range(aggregate) = Reportable
      BY <1>6 DEF DiagInv, ReportsInv
    <2> QED
      BY <1>2, <1>6, <2>1, <2>2
  <1> QED
    BY <1>3, <1>4, <1>5, <1>6

(* The reports stay in order when the next input's are added.                *)
LEMMA AscendingAppend ==
    ASSUME NEW S \in SUBSET Nat, NEW seq \in Seq(S), NEW e \in S, Ascending(seq),
           \A x \in Range(seq) : x < e
    PROVE  Ascending(Append(seq, e))
  <1>1. /\ DOMAIN Append(seq, e) = 1..(Len(seq) + 1) /\ Len(seq) \in Nat
        /\ \A a \in 1..(Len(seq) + 1) : Append(seq, e)[a] = IF a <= Len(seq) THEN seq[a] ELSE e
    OBVIOUS
  <1>2. \A a \in 1..Len(seq) : seq[a] < e
    BY DEF Range
  <1>3. \A a, b \in 1..Len(seq) : a < b => seq[a] < seq[b]
    BY DEF Ascending
  <1> QED
    BY <1>1, <1>2, <1>3 DEF Ascending

LEMMA DiagKept ==
    ASSUME LedgerInv, DriverInv, DiagInv, [Next]_vars
    PROVE  DiagInv'
  <1>j. /\ job' = job /\ Count \in Nat /\ Count' = Count
        /\ job.mode \in {"compile", "link", "manifest", "plain"}
        /\ \A k : (Native(k)' <=> Native(k)) /\ Input(k)' = Input(k)
    BY JobKept, JobFacts, JobSame DEF DriverInv, DriverTyped, Input
  <1>t. /\ status = "running" <=> pc # "done"
        /\ i \in 0..Count /\ (pc \in Body => i # 0) /\ aggregate \in Seq(1..Count)
    BY DEF DriverInv, DriverTyped, DiagInv, ReportsInv
  <1>f. FlagsInv'
    BY FlagsKept, StepOfLedger DEF DiagInv, DriverInv
  <1> USE DEF Running
  <1>r. ASSUME i' = i, (pc # "compile" /\ pc' # "compile") \/ pc' = pc PROVE Reportable' = Reportable
    BY <1>j, <1>r DEF Reportable
  \* While the driver works on the inputs there is no conflict and no record of a linker.
  <1>w. ASSUME status = "running", pc \notin {"collect", "looped", "cleanup", "done"}
        PROVE  ~conflict.found /\ diagFile.kind \in {"old", "inputs", "torn"}
    BY <1>w DEF DiagInv, ConflictShown, KindsInv
  \* Such a step that writes no diagnostics.
  <1>q. ASSUME status = "running", pc \notin {"collect", "looped", "cleanup", "done", "compile"},
               UNCHANGED <<ledger, i, diagnostics>>, pc' # "compile"
        PROVE  DiagInv'
    <2>1. ~conflict'.found /\ diagFile'.kind \in {"old", "inputs", "torn"}
      BY <1>q, <1>w DEF ledger, diagnostics
    <2>2. UNCHANGED <<diagFile, aggregate, warned>>
      BY <1>q DEF diagnostics
    <2>3. ReportsInv'
      BY <1>j, <1>q, <1>r, <1>t, <2>2 DEF DiagInv, ReportsInv
    <2>4. ConflictShown' /\ KindsInv'
      BY <2>1, <2>2 DEF DiagInv, KindsInv, ConflictShown
    <2> QED
      BY <1>f, <2>3, <2>4 DEF DiagInv
  <1>1. CASE Start \/ NextInputFails \/ InputsDone \/ Lower \/ StartClang \/ StartClangFails
             \/ WaitClang \/ EmitBegins \/ EmitEnds \/ EmitFails
    BY <1>1, <1>q DEF Start, NextInputFails, InputsDone, Lower, StartClang, StartClangFails,
         WaitClang, EmitBegins, EmitEnds, EmitFails, Stop, GoTo, End, AfterObject, loop
  <1>2. CASE WriteSemantics \/ WriteUnits \/ Push \/ PushFails \/ StartLinker \/ StartLinkerFails
    BY <1>2, <1>q DEF WriteSemantics, WriteUnits, Push, PushFails, StartLinker, StartLinkerFails,
         Abandon, Stop, GoTo, End, CleanUp, AfterObject, loop
  <1>3. CASE Watchdog \/ Killed \/ FatalError
    <2>1. /\ UNCHANGED <<ledger, i, allOk, diagFile, aggregate, warned>> /\ pc' = "done"
          /\ status' \in {"timeout", "killed", "fatal"} /\ status = "running"
          /\ status' = "fatal" => pc \in {"compile", "emitting"}
      BY <1>3 DEF Watchdog, Killed, FatalError, End, loop, diagnostics
    <2>2. ReportsInv'
      BY <1>j, <1>t, <2>1 DEF ReportsInv, ByItself
    <2>3. KindsInv'
      BY <2>1 DEF DiagInv, KindsInv, ByItself, ledger
    <2>4. status' = "fatal" => ~conflict'.found
      BY <1>w, <2>1 DEF ledger
    <2>5. ConflictShown'
      BY <2>1, <2>4 DEF ConflictShown
    <2> QED
      BY <1>f, <2>2, <2>3, <2>5 DEF DiagInv
  <1>4. CASE ClangEnds \/ LinkerWrites \/ LinkerEnds \/ Unlink \/ UNCHANGED vars
    <2>1. UNCHANGED <<ledger, pc, i, allOk, code, status, diagFile, aggregate, warned>>
      BY <1>4 DEF ClangEnds, LinkerWrites, LinkerEnds, Unlink, vars, driver, loop, diagnostics
    <2>2. ReportsInv'
      BY <1>j, <1>r, <1>t, <2>1 DEF DiagInv, ReportsInv, ByItself
    <2>3. KindsInv' /\ ConflictShown'
      BY <1>j, <2>1 DEF DiagInv, KindsInv, ConflictShown, ByItself, ledger
    <2> QED
      BY <1>f, <2>2, <2>3 DEF DiagInv
  <1>5. CASE LoopDone \/ Return
    <2>1. /\ UNCHANGED <<ledger, i, allOk, diagFile, aggregate, warned>> /\ status = "running"
          /\ pc \in {"looped", "cleanup"}
          /\ status' \in {"running", "success", "failure"}
      BY <1>5, <1>j DEF LoopDone, Return, End, GoTo, CleanUp, loop, diagnostics, Outcome,
                        DriverInv, DriverTyped
    <2>2. \/ pc' \in {"cleanup", "done"}
          \/ pc = "looped" /\ pc' = "prepare" /\ (allOk \/ job.mode = "manifest")
      BY <1>5, <1>j DEF LoopDone, Return, End, GoTo, CleanUp
    <2>3. ReportsInv'
      <3>1. Reportable' = Reportable
        BY <1>r, <2>1, <2>2
      <3> QED
        BY <1>j, <1>t, <2>1, <3>1 DEF DiagInv, ReportsInv
    <2>4. KindsInv'
      <3>1. CASE diagFile.kind = "link"
        <4>1. pc = "cleanup" /\ code = "failure" /\ allOk
          BY <2>1, <3>1 DEF DiagInv, KindsInv
        <4>2. pc' = "done" /\ status' = "failure"
          BY <1>5, <4>1 DEF LoopDone, Return, End
        <4> QED
          BY <2>1, <3>1, <4>1, <4>2 DEF KindsInv
      <3>2. CASE diagFile.kind # "link"
        BY <2>1, <3>2 DEF DiagInv, KindsInv, ledger
      <3> QED
        BY <3>1, <3>2
    <2>5. ConflictShown'
      <3>1. job.mode = "manifest" => allOk
        BY DEF DriverInv, OnPath
      <3>2. conflict.found => ~allOk /\ (job.diags /\ ~warned => diagFile.kind = "conflict")
        BY <2>1 DEF DiagInv, ConflictShown
      <3>3. conflict.found => pc' \in {"cleanup", "done"}
        BY <2>2, <3>1, <3>2
      <3> QED
        BY <1>j, <2>1, <3>2, <3>3 DEF ConflictShown, ledger
    <2> QED
      BY <1>f, <2>3, <2>4, <2>5 DEF DiagInv
  <1>6. CASE NextInput
    <2>1. /\ UNCHANGED <<ledger, allOk, diagFile, aggregate, warned>> /\ i' = i + 1
          /\ i + 1 \in 1..Count /\ pc = "input" /\ status = "running" /\ status' = "running"
          /\ pc' \in {"clang", "compile"}
      BY SMTT(30), <1>6, <1>j, <1>t DEF NextInput, diagnostics
    <2>2. job.mode \in {"compile", "link"} /\ pc' # "compile" => ~Native(i + 1)
      BY <1>6 DEF NextInput, Native
    <2>3. job.mode \in {"compile", "link"} => Reportable' = Reportable
      <3>1. CASE pc' = "compile"
        BY SMTT(30), <1>j, <1>t, <2>1, <3>1 DEF Reportable
      <3>2. CASE pc' # "compile" /\ job.mode \in {"compile", "link"}
        <4>1. ~Native(i + 1)
          BY <2>2, <3>2
        <4>2. \A k \in 1..(i + 1) : Native(k) => k \in 1..i
          BY <1>t, <4>1
        <4>3. Reportable = {k \in 1..i : Native(k) /\ Input(k).fails # "context"}
          BY <2>1 DEF Reportable
        <4>4. Reportable' = {k \in 1..(i + 1) : Native(k) /\ Input(k).fails # "context"}
          BY <1>j, <2>1, <3>2 DEF Reportable
        <4> QED
          BY <1>t, <4>2, <4>3, <4>4
      <3> QED
        BY <3>1, <3>2
    <2>4. ReportsInv'
      BY <1>j, <1>t, <2>1, <2>3 DEF DiagInv, ReportsInv
    <2>5. ~conflict'.found /\ diagFile'.kind \in {"old", "inputs", "torn"}
      BY <1>w, <2>1 DEF ledger
    <2>6. ConflictShown' /\ KindsInv'
      BY <2>1, <2>5 DEF DiagInv, KindsInv, ConflictShown
    <2> QED
      BY <1>f, <2>4, <2>6 DEF DiagInv
  <1>7. ASSUME NEW written \in BOOLEAN, Compile(written) PROVE DiagInv'
    <2>1. /\ UNCHANGED <<ledger, i>> /\ pc = "compile" /\ status = "running" /\ pc' # "compile"
          /\ i \in 1..Count
      BY <1>7, <1>j, <1>t DEF Compile, Stop, GoTo, loop, End, Body
    <2>2. ~conflict.found /\ diagFile.kind \in {"old", "inputs", "torn"}
      BY <1>w, <2>1
    <2>3. IF Input(i).fails # "context" THEN Reported(i, written) ELSE UNCHANGED diagnostics
      <3>1. compile_translation_unit(Input(i)).hasContext <=> Input(i).fails # "context"
        BY DEF compile_translation_unit
      <3> QED
        BY <1>7, <3>1 DEF Compile
    <2>4. \/ UNCHANGED <<aggregate, diagFile, warned>>
          \/ /\ aggregate' = Append(aggregate, i)
             /\ \/ diagFile' = File("inputs", aggregate')
                \/ diagFile' = File("torn", <<>>) /\ warned' = TRUE
      BY <2>3 DEF Reported, diagnostics
    <2>5. KindsInv' /\ ConflictShown'
      <3>1. /\ diagFile'.kind \in {"old", "inputs", "torn"}
            /\ diagFile'.kind = "torn" => warned'
        <4>1. CASE diagFile' = diagFile /\ warned' = warned
          <5>1. diagFile.kind = "torn" => warned
            BY Zenon DEF DiagInv, KindsInv
          <5> QED
            BY <2>2, <4>1, <5>1, Zenon
        <4>2. CASE diagFile' = File("inputs", aggregate')
          <5>1. diagFile'.kind = "inputs"
            BY <4>2 DEF File
          <5> QED
            BY <5>1
        <4>3. CASE diagFile' = File("torn", <<>>) /\ warned' = TRUE
          <5>1. diagFile'.kind = "torn"
            BY <4>3 DEF File
          <5> QED
            BY <4>3, <5>1, Zenon
        <4> QED
          BY <2>4, <4>1, <4>2, <4>3, Zenon
      <3> QED
        BY <2>1, <2>2, <3>1 DEF KindsInv, ConflictShown, ledger
    <2> DEFINE R == 1..Count
    <2>6. aggregate' \in Seq(R)
      <3>1. aggregate \in Seq(R) /\ i \in R
        BY <1>t, <2>1
      <3> HIDE DEF R
      <3> QED
        BY <2>4, <3>1
    <2>7. ASSUME job.diags, job.mode \in {"compile", "link"}
          PROVE  /\ diagFile'.kind \in {"old", "inputs"} => diagFile'.of = aggregate'
                 /\ Ascending(aggregate') /\ Range(aggregate') = Reportable'
      <3>1. /\ diagFile.kind \in {"old", "inputs"} => diagFile.of = aggregate
            /\ Ascending(aggregate) /\ Range(aggregate) = Reportable
        BY <2>1, <2>7 DEF DiagInv, ReportsInv
      <3>2. Native(i)
        BY <2>1, <2>7 DEF DriverInv, OnPath
      <3>3. Reportable = {k \in 1..(i - 1) : Native(k) /\ Input(k).fails # "context"}
        BY <2>1 DEF Reportable
      <3>4. Reportable' = {k \in 1..i : Native(k) /\ Input(k).fails # "context"}
        BY <1>j, <2>1 DEF Reportable
      <3>5. CASE Input(i).fails = "context"
        <4>1. UNCHANGED <<aggregate, diagFile>>
          BY <2>3, <3>5 DEF diagnostics
        <4>2. Reportable' = Reportable
          BY <2>1, <3>3, <3>4, <3>5
        <4> QED
          BY <3>1, <4>1, <4>2 DEF Ascending
      <3>6. CASE Input(i).fails # "context"
        <4>1. /\ aggregate' = Append(aggregate, i)
              /\ diagFile' = File("inputs", aggregate') \/ diagFile' = File("torn", <<>>)
          BY <2>3, <2>7, <3>6 DEF Reported
        <4>2. Reportable' = Reportable \cup {i} /\ \A x \in Reportable : x < i
          BY <2>1, <3>2, <3>3, <3>4, <3>6
        <4>3. diagFile'.kind \in {"old", "inputs"} => diagFile'.of = aggregate'
          BY SMTT(30), <4>1 DEF File
        <4>4. Range(Append(aggregate, i)) = Range(aggregate) \cup {i} /\ Ascending(Append(aggregate, i))
          <5>1. aggregate \in Seq(R) /\ i \in R /\ R \in SUBSET Nat
            BY <1>t, <2>1
          <5>2. \A x \in Range(aggregate) : x < i
            BY <3>1, <4>2
          <5> HIDE DEF R
          <5>3. Ascending(Append(aggregate, i))
            BY <3>1, <5>1, <5>2, AscendingAppend
          <5> QED
            BY <5>1, <5>3, AppendedSet
        <4> QED
          BY <3>1, <4>1, <4>2, <4>3, <4>4
      <3> QED
        BY <3>5, <3>6
    <2>8. ReportsInv'
      BY <1>j, <2>6, <2>7 DEF ReportsInv
    <2> QED
      BY <1>f, <2>5, <2>8 DEF DiagInv
  <1>8. CASE Collect
    <2>1. /\ UNCHANGED <<pc, i, allOk, code, status, diagFile, aggregate, warned>>
          /\ pc = "collect"
      BY <1>8 DEF Collect, diagnostics
    <2>2. ReportsInv'
      BY <1>j, <1>r, <1>t, <2>1 DEF DiagInv, ReportsInv, ByItself
    <2>3. conflict.found => conflict'.found
      <3>1. \/ conflict' = [found |-> TRUE, prior |-> cursor, symbol |-> sym]
            \/ UNCHANGED conflict
        BY <1>8 DEF Collect, LedgerStep, ledger, Compare, Oppose, OpposeFails, OutOfMemory, Reserve,
             ReserveFails, Relink, Install, Enter, EnterFails, Take, TakeFails, PassOver
      <3>2. CASE conflict' = [found |-> TRUE, prior |-> cursor, symbol |-> sym]
        BY <3>2
      <3> QED
        BY <3>1, <3>2
    <2>4. KindsInv'
      BY <2>1, <2>3 DEF DiagInv, KindsInv
    <2>5. ConflictShown'
      BY <2>1 DEF ConflictShown
    <2> QED
      BY <1>f, <2>2, <2>4, <2>5 DEF DiagInv
  <1>9. ASSUME NEW written \in BOOLEAN, Judge(written) PROVE DiagInv'
    <2>1. /\ UNCHANGED <<ledger, i, aggregate>> /\ pc = "collect" /\ status = "running"
          /\ pc' \notin {"collect", "compile", "cleanup"}
      BY <1>9 DEF Judge, Stop, GoTo, loop, End, diagnostics
    <2>2. allOk /\ job.mode = "link"
      BY <2>1 DEF DriverInv, OnPath
    <2>3. diagFile.kind # "link"
      BY <2>1 DEF DiagInv, KindsInv
    <2>4. Reportable' = Reportable
      BY <1>r, <2>1
    <2>5. CASE conflict.found
      <3>1. ~oom
        BY <2>5 DEF DiagInv, FlagsInv
      <3>2. allOk' = FALSE /\ pc' = "looped" /\ status' = status
        BY <1>9, <2>2, <2>5 DEF Judge, Stop
      <3>3. CASE job.diags
        <4>1. \/ diagFile' = File("conflict", <<>>) /\ warned' = (warned \/ ~written)
              \/ diagFile' = File("torn", <<>>) /\ warned' = (warned \/ ~written) /\ ~written
          BY <1>9, <2>5, <3>1, <3>3 DEF Judge
        <4>2. \/ diagFile'.kind = "conflict"
              \/ diagFile'.kind = "torn" /\ warned'
          <5>1. diagFile' = File("conflict", <<>>) \/ (diagFile' = File("torn", <<>>) /\ warned')
            BY <4>1, Zenon
          <5> QED
            BY <5>1 DEF File
        <4>3. ConflictShown' /\ KindsInv'
          BY <2>1, <2>5, <3>2, <4>2 DEF ConflictShown, KindsInv, ledger
        <4>4. ReportsInv'
          BY <1>j, <1>t, <2>1, <2>4, <3>2, <4>2 DEF DiagInv, ReportsInv
        <4> QED
          BY <1>f, <4>3, <4>4 DEF DiagInv
      <3>4. CASE ~job.diags
        <4>1. UNCHANGED <<diagFile, warned>>
          BY <1>9, <3>4 DEF Judge, diagnostics
        <4>2. KindsInv'
          BY <2>1, <2>3, <4>1 DEF DiagInv, KindsInv, ledger
        <4>3. ConflictShown'
          BY <1>j, <3>2, <3>4 DEF ConflictShown
        <4>4. ReportsInv'
          BY <1>j, <1>t, <2>1, <3>4 DEF ReportsInv
        <4> QED
          BY <1>f, <4>2, <4>3, <4>4 DEF DiagInv
      <3> QED
        BY <3>3, <3>4
    <2>6. CASE ~conflict.found
      <3>1. UNCHANGED <<diagFile, warned>>
        BY <1>9, <2>6 DEF Judge, diagnostics
      <3>2. KindsInv'
        BY <2>1, <2>3, <3>1 DEF DiagInv, KindsInv, ledger
      <3>3. ConflictShown'
        BY <2>1, <2>6 DEF ConflictShown, ledger
      <3>4. ReportsInv'
        BY <1>j, <1>t, <2>1, <2>4, <3>1 DEF DiagInv, ReportsInv
      <3> QED
        BY <1>f, <3>2, <3>3, <3>4 DEF DiagInv
    <2> QED
      BY <2>5, <2>6
  <1>10. ASSUME NEW written \in BOOLEAN, WaitLinker(written) PROVE DiagInv'
    <2>1. /\ UNCHANGED <<ledger, i, allOk, aggregate>> /\ pc = "wait_linker" /\ status = "running"
          /\ pc' \in {"cleanup", "done"}
      BY <1>10 DEF WaitLinker, CleanUp, End, loop, diagnostics
    <2>2. allOk
      BY <2>1 DEF DriverInv, OnPath
    <2>3. ~conflict.found /\ diagFile.kind \in {"old", "inputs", "torn"}
      BY <1>w, <2>1
    <2>4. Reportable' = Reportable
      BY <1>r, <2>1
    <2>5. ConflictShown'
      BY <2>1, <2>3 DEF ConflictShown, ledger
    <2>6. CASE child = "failed" /\ job.diags /\ job.mode = "link"
      <3>1. \/ diagFile' = File("link", <<>>)
            \/ diagFile' = File("torn", <<>>) /\ warned' = (warned \/ ~written) /\ ~written
        BY <1>10, <2>6 DEF WaitLinker
      <3>2. \/ diagFile'.kind = "link"
            \/ diagFile'.kind = "torn" /\ warned'
        <4>1. diagFile' = File("link", <<>>) \/ (diagFile' = File("torn", <<>>) /\ warned')
          BY <3>1, Zenon
        <4> QED
          BY SMTT(30), <4>1 DEF File
      <3>3. pc' = "cleanup" /\ code' = "failure" /\ status' = "running"
        BY <1>10, <2>1, <2>6 DEF WaitLinker, CleanUp, Outcome
      <3>4. allOk'
        BY <2>1, <2>2
      <3>5. KindsInv'
        BY <3>2, <3>3, <3>4 DEF KindsInv, ByItself
      <3>6. ReportsInv'
        BY <1>j, <1>t, <2>1, <2>4, <3>2 DEF DiagInv, ReportsInv
      <3> QED
        BY <1>f, <2>5, <3>5, <3>6 DEF DiagInv
    <2>7. CASE ~(child = "failed" /\ job.diags /\ job.mode = "link")
      <3>1. UNCHANGED <<diagFile, warned>>
        BY <1>10, <2>7 DEF WaitLinker, diagnostics
      <3>2. KindsInv'
        BY <2>3, <3>1 DEF DiagInv, KindsInv
      <3>3. ReportsInv'
        BY <1>j, <1>t, <2>1, <2>4, <3>1 DEF DiagInv, ReportsInv
      <3> QED
        BY <1>f, <2>5, <3>2, <3>3 DEF DiagInv
    <2> QED
      BY <2>6, <2>7
  <1> QED
    BY <1>1, <1>2, <1>3, <1>4, <1>5, <1>6, <1>7, <1>8, <1>9, <1>10 DEF Next, Ended

(* The file of --emit-diags-json holds, when the invocation ended by itself  *)
(* and no write failed, the diagnostics of every input that was compiled, in *)
(* their order, or the one record of the conflict or linker failure.         *)
THEOREM DiagnosticsAreComplete == Spec => []DiagnosticsComplete
  <1>1. Init => DiagInv
    <2> SUFFICES ASSUME Init PROVE DiagInv
      OBVIOUS
    <2>1. /\ stage = "idle" /\ conflict.found = FALSE /\ oom = FALSE
          /\ pc = "start" /\ i = 0 /\ status = "running" /\ aggregate = <<>>
          /\ diagFile = File("old", <<>>)
      BY DEF Init, LedgerInit, NoConflict
    <2>2. diagFile.kind = "old" /\ diagFile.of = <<>>
      BY <2>1 DEF File
    <2>3. ReportsInv
      <3>1. aggregate \in Seq(1..Count) /\ Ascending(aggregate) /\ Range(aggregate) = {}
        BY <2>1 DEF Ascending, Range
      <3>2. Reportable = {}
        BY <2>1 DEF Reportable
      <3> QED
        BY <2>1, <2>2, <3>1, <3>2 DEF ReportsInv
    <2> QED
      BY <2>1, <2>2, <2>3 DEF DiagInv, FlagsInv, ConflictShown, KindsInv
  <1>2. LedgerInv /\ DriverInv /\ DiagInv /\ [Next]_vars => DiagInv'
    BY DiagKept
  <1>3. DriverInv /\ DiagInv => DiagnosticsComplete
    BY CompleteAtEnd DEF DriverInv
  <1> QED
    BY <1>1, <1>2, <1>3, DriverCorrect, DriverImplementsLedger, LedgerCorrect, PTL DEF Spec

=============================================================================
