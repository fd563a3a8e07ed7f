----------------------------- MODULE MemoryCheck -----------------------------
(***************************************************************************)
(* The runtime of the memory-check overlay (fisics_memcheck_runtime.c).    *)
(* The compiler turns malloc, calloc, realloc and free into calls of its   *)
(* wrappers; it keeps a table of the blocks it has seen, counts, refuses   *)
(* to release what is not live, and reports when the program ends.         *)
(*                                                                         *)
(* The statics of the file are one record, and every function of the file  *)
(* is an operator on it; a wrapper is an action.  The allocator of libc is *)
(* external: it returns NULL or any address that is not in use.  Code that *)
(* is not instrumented allocates and releases blocks of its own.  The      *)
(* runtime is documented as single-threaded, so a wrapper is one step.     *)
(***************************************************************************)
EXTENDS Integers, FiniteSets, FiniteSetsExt, Functions

CONSTANTS Ptr,          \* addresses
          NULL,
          Hash,         \* ptr_hash
          Capacity,     \* FISICS_MEMCHECK_CAPACITY
          Site,         \* allocation sites, file and line
          Request,      \* sizes and sites asked for; the plain wrappers have no site
          Foreign,      \* addresses that code without instrumentation uses
          Policy,       \* the values of FISICS_MEMCHECK_REPORT tried
          MaxEvents,    \* bound on the generation
          MaxHooks      \* bound on the calls of the report and reset hooks

ASSUME MemoryCheckAssumption ==
    /\ NULL \notin Ptr
    /\ Hash \in [Ptr -> Nat]
    /\ Capacity \in Nat \ {0}
    /\ Request \subseteq [size : Nat, site : Site \cup {NULL}]
    /\ Policy \subseteq {"always", "errors", "leaks", "never"}
    /\ Foreign \subseteq Ptr
    /\ MaxEvents \in Nat
    /\ MaxHooks \in Nat

VARIABLES tracker,  \* the statics: table, counts, generations, registration
          policy,   \* g_report_policy
          heap,     \* the live blocks, and whether the runtime was told
          report,   \* the last report emitted
          hooks,    \* the calls of the report and reset hooks so far
          running   \* the program has not ended

vars == <<tracker, policy, heap, report, hooks, running>>

NoBlock == [size |-> 0, site |-> NULL]
EmptySlot == [ptr |-> NULL, state |-> "EMPTY", block |-> NoBlock]
Blocks == [size : Nat, site : Site \cup {NULL}]
Slots == [ptr : Ptr \cup {NULL}, state : {"EMPTY", "ACTIVE", "FREED"}, block : Blocks]

Range0 == 0 .. Capacity - 1
NoSlot == -1

Trackers ==
    [slots : [Range0 -> Slots], active : Nat, allocs : Nat, frees : Nat,
     doubles : Nat, unknowns : Nat, failures : Nat,
     generation : Nat, reported : Nat, registered : BOOLEAN]

IsHeap(h) ==
    DOMAIN h \subseteq Ptr /\ h \in [DOMAIN h -> [block : Blocks, tracked : BOOLEAN]]

\* A report that was never emitted.
NoReport == [trigger |-> "none"]

-------------------------------------------------------------------------------
(* The table.                                                              *)

Probe(p, i) == (Hash[p] + i) % Capacity

\* Where the probe for p stops: at an empty slot or at the slot of p.
Stops(slots, p) ==
    {i \in Range0 : \/ slots[Probe(p, i)].state = "EMPTY"
                    \/ slots[Probe(p, i)].ptr = p}

Freed(slots, p) == {i \in Range0 : slots[Probe(p, i)].state = "FREED"}

find_slot(slots, p) ==
    IF Stops(slots, p) = {} THEN NoSlot
    ELSE LET s == Probe(p, Min(Stops(slots, p)))
         IN  IF slots[s].state = "EMPTY" THEN NoSlot ELSE s

\* Faulty variant: a released slot is taken before the table is full.
find_insert_slot_eager(slots, p) ==
    IF Freed(slots, p) # {} THEN Probe(p, Min(Freed(slots, p)))
    ELSE IF Stops(slots, p) # {} THEN Probe(p, Min(Stops(slots, p)))
    ELSE NoSlot

find_insert_slot(slots, p) ==
    IF Stops(slots, p) # {} THEN Probe(p, Min(Stops(slots, p)))
    ELSE IF Freed(slots, p) # {} THEN Probe(p, Min(Freed(slots, p)))
    ELSE NoSlot

-------------------------------------------------------------------------------
(* The tracker.                                                            *)

\* ++counter; ++g_generation
CountUnknown(t) == [t EXCEPT !.unknowns = @ + 1, !.generation = @ + 1]
CountFailure(t) == [t EXCEPT !.failures = @ + 1, !.generation = @ + 1]

\* Faulty variant: the event does not advance the generation.
CountDouble_silent(t) == [t EXCEPT !.doubles = @ + 1]

CountDouble(t) == [t EXCEPT !.doubles = @ + 1, !.generation = @ + 1]

\* ok: atexit succeeds.
ensure_atexit_registered(t, ok) ==
    IF t.registered \/ policy = "never" THEN t
    ELSE IF ok THEN [t EXCEPT !.registered = TRUE]
    ELSE CountFailure(t)

track_allocation(t, p, block) ==
    LET s == find_insert_slot(t.slots, p)
    IN  IF s = NoSlot THEN CountFailure(t)
        ELSE [t EXCEPT !.slots[s] = [ptr |-> p, state |-> "ACTIVE", block |-> block],
                       !.active = IF t.slots[s].state = "ACTIVE" THEN @ ELSE @ + 1,
                       !.allocs = @ + 1,
                       !.generation = @ + 1]

mark_released(t, s) ==
    [t EXCEPT !.slots[s] = [@ EXCEPT !.state = "FREED", !.block = NoBlock],
              !.active = IF @ > 0 THEN @ - 1 ELSE @,
              !.frees = @ + 1,
              !.generation = @ + 1]

Zero == [slots |-> [s \in Range0 |-> EmptySlot],
         active |-> 0, allocs |-> 0, frees |-> 0,
         doubles |-> 0, unknowns |-> 0, failures |-> 0,
         generation |-> 0, reported |-> 0, registered |-> FALSE]

-------------------------------------------------------------------------------
(* The allocator.                                                          *)

Live == DOMAIN heap

\* The heap once p is allocated, and once p is released.
HeapWith(h, p, block, tracked) ==
    [q \in DOMAIN h \cup {p} |->
        IF q = p THEN [block |-> block, tracked |-> tracked] ELSE h[q]]
HeapWithout(h, p) == Restrict(h, DOMAIN h \ {p})

\* The allocator has returned p, and track_allocation is called.
Obtain(t, h, p, block) ==
    /\ tracker' = track_allocation(t, p, block)
    /\ heap' = HeapWith(h, p, block, find_insert_slot(t.slots, p) # NoSlot)

\* A wrapper asks for a new block; the allocator returns p.
Allocate(t, p, block) ==
    IF p = NULL THEN tracker' = t /\ heap' = heap
    ELSE p \notin Live /\ Obtain(t, heap, p, block)

-------------------------------------------------------------------------------
(* The wrappers.                                                           *)

Running == running /\ tracker.generation < MaxEvents

malloc_site(size, site) ==
    /\ Running
    /\ \E ok \in BOOLEAN, p \in Ptr \cup {NULL} :
         Allocate(ensure_atexit_registered(tracker, ok), p, [size |-> size, site |-> site])
    /\ UNCHANGED <<policy, report, hooks, running>>

calloc_site(count, size, site) == malloc_site(count * size, site)

\* Faulty variant: the slot of the old block is not released.
ReallocActive_unreleased(t, p, s, block) ==
    \/ tracker' = t /\ heap' = heap
    \/ \E q \in (Ptr \ Live) \cup {p} : Obtain(t, HeapWithout(heap, p), q, block)

\* The allocator may fail, and then the old block stays; it may extend the
\* block in place; or it moves it.
ReallocActive(t, p, s, block) ==
    \/ tracker' = t /\ heap' = heap
    \/ \E q \in (Ptr \ Live) \cup {p} :
         Obtain(mark_released(t, s), HeapWithout(heap, p), q, block)

realloc_site(p, size, site) ==
    /\ Running
    /\ \E ok \in BOOLEAN :
         LET t == ensure_atexit_registered(tracker, ok)
             block == [size |-> size, site |-> site]
         IN  IF p = NULL THEN \E q \in Ptr \cup {NULL} : Allocate(t, q, block)
             ELSE LET s == find_slot(t.slots, p)
                  IN  IF s = NoSlot THEN tracker' = CountUnknown(t) /\ heap' = heap
                      ELSE IF t.slots[s].state = "FREED"
                      THEN tracker' = CountDouble(t) /\ heap' = heap
                      ELSE ReallocActive(t, p, s, block)
    /\ UNCHANGED <<policy, report, hooks, running>>

free_site(p) ==
    /\ Running
    /\ \E ok \in BOOLEAN :
         LET t == ensure_atexit_registered(tracker, ok)
         IN  IF p = NULL THEN tracker' = t /\ heap' = heap
             ELSE LET s == find_slot(t.slots, p)
                  IN  IF s = NoSlot THEN tracker' = CountUnknown(t) /\ heap' = heap
                      ELSE IF t.slots[s].state = "FREED"
                      THEN tracker' = CountDouble(t) /\ heap' = heap
                      ELSE tracker' = mark_released(t, s) /\ heap' = HeapWithout(heap, p)
    /\ UNCHANGED <<policy, report, hooks, running>>

-------------------------------------------------------------------------------
(* Reports.                                                                *)

ActiveSlots(slots) == {s \in Range0 : slots[s].state = "ACTIVE"}

compute_leaked_bytes(slots) ==
    MapThenSumSet(LAMBDA s : slots[s].block.size, ActiveSlots(slots))

emit_leak_sites(slots) ==
    {[ptr |-> slots[s].ptr, block |-> slots[s].block] : s \in ActiveSlots(slots)}

HasErrors(t) == t.doubles > 0 \/ t.unknowns > 0 \/ t.failures > 0

should_emit_report(t) ==
    CASE policy = "never" -> FALSE
      [] policy = "errors" -> HasErrors(t)
      [] policy = "leaks" -> compute_leaked_bytes(t.slots) > 0 \/ HasErrors(t)
      [] policy = "always" -> t.allocs > 0 \/ t.frees > 0 \/ HasErrors(t)

Summary(t) ==
    [active |-> t.active, leaked |-> compute_leaked_bytes(t.slots), allocs |-> t.allocs,
     frees |-> t.frees, doubles |-> t.doubles, unknowns |-> t.unknowns,
     failures |-> t.failures]

\* The sidecar file, when the environment asks for it, lists every block.
emit_json_report(slots) == emit_leak_sites(slots)

emit_report(trigger) ==
    /\ report' = [trigger |-> trigger, summary |-> Summary(tracker),
                  leaks |-> IF compute_leaked_bytes(tracker.slots) > 0
                            THEN emit_leak_sites(tracker.slots) ELSE {},
                  json |-> emit_json_report(tracker.slots)]
    /\ tracker' = [tracker EXCEPT !.reported = tracker.generation]

CallHook == running /\ hooks < MaxHooks /\ hooks' = hooks + 1

memcheck_report ==
    /\ CallHook
    /\ emit_report("manual")
    /\ UNCHANGED <<policy, heap, running>>

report_at_exit ==
    IF tracker.registered /\ tracker.reported # tracker.generation /\ should_emit_report(tracker)
    THEN emit_report("atexit")
    ELSE UNCHANGED <<report, tracker>>

\* The program ends, and the handler runs if it was registered.
Exit ==
    /\ running
    /\ running' = FALSE
    /\ report_at_exit
    /\ UNCHANGED <<policy, heap, hooks>>

\* The blocks that are live are forgotten.
memcheck_reset ==
    /\ CallHook
    /\ tracker' = [Zero EXCEPT !.registered = tracker.registered]
    /\ heap' = [p \in Live |-> [heap[p] EXCEPT !.tracked = FALSE]]
    /\ UNCHANGED <<policy, report, running>>

-------------------------------------------------------------------------------
(* Code that is not instrumented.                                          *)

ForeignAllocate(p) ==
    /\ running /\ p \notin Live
    /\ heap' = HeapWith(heap, p, NoBlock, FALSE)
    /\ UNCHANGED <<tracker, policy, report, hooks, running>>

ForeignRelease(p) ==
    /\ running /\ p \in Live /\ ~heap[p].tracked
    /\ heap' = HeapWithout(heap, p)
    /\ UNCHANGED <<tracker, policy, report, hooks, running>>

-------------------------------------------------------------------------------
\* The environment is read at the first call and does not change.
init_report_policy == policy \in Policy

Init ==
    /\ tracker = Zero
    /\ init_report_policy
    /\ heap = [p \in {} |-> 0]
    /\ report = NoReport
    /\ hooks = 0
    /\ running = TRUE

Next ==
    \/ \E r \in Request :
         \/ malloc_site(r.size, r.site)
         \/ \E count \in {0, 1} : calloc_site(count, r.size, r.site)
         \/ \E p \in Ptr \cup {NULL} : realloc_site(p, r.size, r.site)
    \/ \E p \in Ptr \cup {NULL} : free_site(p)
    \/ \E p \in Foreign : ForeignAllocate(p) \/ ForeignRelease(p)
    \/ memcheck_report
    \/ memcheck_reset
    \/ Exit

Spec == Init /\ [][Next]_vars

-------------------------------------------------------------------------------
(* Properties.                                                             *)

\* The types of the statics and of the allocator's blocks.
TypeOK ==
    /\ tracker \in Trackers
    /\ \A s \in Range0 : tracker.slots[s].state = "EMPTY" <=> tracker.slots[s].ptr = NULL
    /\ policy \in Policy
    /\ IsHeap(heap)
    /\ hooks \in 0 .. MaxHooks
    /\ running \in BOOLEAN

\* A slot is active exactly for the blocks that are live and were handed to
\* the tracker, with their size and site: what free_site passes to free is
\* live, and what the report lists as leaked has leaked.
Tracks(slots, h) ==
    /\ \A s \in ActiveSlots(slots) :
         /\ slots[s].ptr \in DOMAIN h
         /\ h[slots[s].ptr] = [block |-> slots[s].block, tracked |-> TRUE]
    /\ \A p \in DOMAIN h : h[p].tracked => \E s \in ActiveSlots(slots) : slots[s].ptr = p

TracksLiveBlocks == Tracks(tracker.slots, heap)

\* find_slot finds a pointer exactly when a slot holds it, although probes
\* stop at empty slots and released slots are taken again; no pointer is in
\* two slots.
FindsExactly ==
    \A p \in Ptr : LET holding == {s \in Range0 : tracker.slots[s].ptr = p}
                   IN  IF holding = {} THEN find_slot(tracker.slots, p) = NoSlot
                       ELSE holding = {find_slot(tracker.slots, p)}

\* The counts printed by emit_report agree: the active count is the number
\* of active slots, and the difference of allocations and releases.
Balanced(t) ==
    /\ t.active = Cardinality(ActiveSlots(t.slots))
    /\ t.allocs = t.frees + t.active

CountsBalance == Balanced(tracker)

\* A released pointer is remembered, so that releasing it again is called a
\* double free, as long as there is an empty slot or it is allocated again.
RemembersFreed ==
    [][\A s \in Range0 :
         tracker.slots[s].state = "FREED" /\ tracker'.slots[s].ptr # tracker.slots[s].ptr
         => \/ \A r \in Range0 : tracker.slots[r].state # "EMPTY"
            \/ tracker' = [Zero EXCEPT !.registered = tracker.registered]]_vars

\* After the exit handler of a policy that asks for a report, the last report
\* shows the final state: suppressing the report when the generation has not
\* moved loses nothing, and no event fails to move it.
FinalReportIsCurrent ==
    ~running /\ tracker.registered /\ should_emit_report(tracker)
    => /\ report # NoReport
       /\ report.summary = Summary(tracker)
       /\ report.leaks \in {{}, report.json}
       /\ report.json = {[ptr |-> p, block |-> heap[p].block] :
                           p \in {q \in Live : heap[q].tracked}}
===============================================================================
