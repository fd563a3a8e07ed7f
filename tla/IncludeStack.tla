----------------------------- MODULE IncludeStack -----------------------------
(***************************************************************************)
(* The include stack of preprocessor_utils.c: the frames of the files being*)
(* read and, beside them, an open-addressing hash table with tombstones    *)
(* that answers pp_include_stack_contains, the question that decides       *)
(* whether an #include would recurse.                                      *)
(*                                                                         *)
(* The loops that could fail to end are kept: a push is the steps          *)
(* PushBegins, CapacityDoubles*, RehashBegins, RehashMoves*, PushEnds; the *)
(* probe of pp_include_stack_find_slot is the set of places where it can   *)
(* stop, empty when it would run for ever.                                 *)
(***************************************************************************)
EXTENDS Integers, Sequences, FiniteSets

CONSTANTS Path,             \* the paths that can be pushed
          NoPath,           \* NULL
          Hash,             \* pp_hash_bytes
          InitialCapacity,  \* 16 in the code
          MaxDepth          \* bound on the frames

ASSUME IncludeStackAssumption ==
    /\ NoPath \notin Path
    /\ Hash \in [Path -> Nat]
    /\ InitialCapacity \in Nat /\ InitialCapacity >= 4
    /\ MaxDepth \in Nat

VARIABLES frames,       \* frames[0 .. depth): their paths
          capacity,     \* memberCapacity
          table,        \* memberStates, memberPaths and memberCounts
          tombstones,   \* memberTombstones
          phase,        \* "idle", or where the push in progress is
          pending,      \* the path being pushed
          newCapacity,  \* the local of ensure_capacity
          old,          \* the table being moved by the rehash
          cursor        \* its next slot

vars == <<frames, capacity, table, tombstones, phase, pending, newCapacity,
          old, cursor>>

State == {"EMPTY", "ACTIVE", "TOMBSTONE"}
Slot == [state : State, path : Path \cup {NoPath}, count : Nat]

EmptySlot == [state |-> "EMPTY", path |-> NoPath, count |-> 0]
EmptyTable(n) == [s \in 0..(n - 1) |-> EmptySlot]

Depth == Len(frames)

TypeOK == /\ frames \in Seq(Path)
          /\ capacity \in Nat
          /\ table \in [0..(capacity - 1) -> Slot]
          /\ tombstones \in Nat
          /\ phase \in {"idle", "sizing", "rehashing", "ready"}
          /\ pending \in Path \cup {NoPath}
          /\ newCapacity \in Nat
          /\ cursor \in Nat
          /\ \A s \in DOMAIN old : old[s] \in Slot

-------------------------------------------------------------------------------
\* The slot looked at after k steps of the probe for path.
Probe(path, k) == (Hash[path] + k) % capacity

IsHit(path, s) == table[s].state = "ACTIVE" /\ table[s].path = path

\* The probe stops after k steps: the loop can end only at one of these.
StopsAt(path, k) == \/ table[Probe(path, k)].state = "EMPTY"
                    \/ IsHit(path, Probe(path, k))

Stops(path) == {k \in 0..(capacity - 1) : StopsAt(path, k)}

FirstStop(path) == CHOOSE k \in Stops(path) : \A j \in Stops(path) : k <= j

Found(path) == IsHit(path, Probe(path, FirstStop(path)))

PassedTombstones(path) ==
    {k \in 0..(FirstStop(path) - 1) : table[Probe(path, k)].state = "TOMBSTONE"}

\* The slot pp_include_stack_find_slot returns: the hit, or else the first
\* tombstone passed, or else the empty slot that ended the probe.
FindSlot(path) ==
    IF ~Found(path) /\ PassedTombstones(path) # {}
    THEN Probe(path, CHOOSE k \in PassedTombstones(path) :
                        \A j \in PassedTombstones(path) : k <= j)
    ELSE Probe(path, FirstStop(path))

Contains(path) == capacity # 0 /\ Found(path) /\ table[FindSlot(path)].count > 0

-------------------------------------------------------------------------------
Init == /\ frames = <<>>
        /\ capacity = 0
        /\ table = EmptyTable(0)
        /\ tombstones = 0
        /\ phase = "idle"
        /\ pending = NoPath
        /\ newCapacity = 0
        /\ old = EmptyTable(0)
        /\ cursor = 0

\* Faulty variant: counts the frames only.
RoomForOne_ignoring_tombstones == (Depth + 1) * 2 <= capacity

\* The test of pp_include_stack_member_ensure_capacity.
RoomForOne == /\ (Depth + tombstones + 1) * 2 <= capacity
              /\ (Depth + 1) * 2 <= capacity

PushBegins(path) ==
    /\ phase = "idle"
    /\ Depth < MaxDepth
    /\ pending' = path
    /\ phase' = IF capacity # 0 /\ RoomForOne THEN "ready" ELSE "sizing"
    /\ newCapacity' = IF capacity = 0 THEN InitialCapacity ELSE capacity
    /\ UNCHANGED <<frames, capacity, table, tombstones, old, cursor>>

\* while ((nextDepth + 1) * 2 > newCapacity) newCapacity *= 2, which the first
\* allocation does not go through
Growing == capacity # 0 /\ (Depth + 2) * 2 > newCapacity

CapacityDoubles ==
    /\ phase = "sizing"
    /\ Growing
    /\ newCapacity' = 2 * newCapacity
    /\ UNCHANGED <<frames, capacity, table, tombstones, phase, pending, old, cursor>>

RehashBegins ==
    LET size == IF capacity # 0 /\ (Depth + tombstones + 1) * 2 > newCapacity
                THEN 2 * newCapacity ELSE newCapacity
    IN /\ phase = "sizing"
       /\ ~Growing
       /\ old' = table
       /\ table' = EmptyTable(size)
       /\ capacity' = size
       /\ newCapacity' = size
       /\ tombstones' = 0
       /\ cursor' = 0
       /\ phase' = "rehashing"
       /\ UNCHANGED <<frames, pending>>

\* calloc fails: the push returns false and nothing has changed.
PushFails ==
    /\ phase = "sizing"
    /\ ~Growing
    /\ phase' = "idle"
    /\ pending' = NoPath
    /\ UNCHANGED <<frames, capacity, table, tombstones, newCapacity, old, cursor>>

\* Faulty variant: the loop ends one slot early.
OldSlots_short == {s \in DOMAIN old : s + 1 \in DOMAIN old}

\* for (i = 0; i < oldCapacity; ++i)
OldSlots == DOMAIN old

\* Faulty variant: a slot that is not moved is not stepped over either.
RehashMoves_stuck_on_skipped ==
    /\ phase = "rehashing"
    /\ cursor \in OldSlots
    /\ table' = IF old[cursor].state = "ACTIVE" /\ old[cursor].count # 0
                THEN [table EXCEPT ![FindSlot(old[cursor].path)] = old[cursor]]
                ELSE table
    /\ cursor' = IF old[cursor].state = "ACTIVE" THEN cursor + 1 ELSE cursor
    /\ UNCHANGED <<frames, capacity, tombstones, phase, pending, newCapacity, old>>

RehashMoves ==
    /\ phase = "rehashing"
    /\ cursor \in OldSlots
    /\ table' = IF old[cursor].state = "ACTIVE" /\ old[cursor].count # 0
                THEN [table EXCEPT ![FindSlot(old[cursor].path)] = old[cursor]]
                ELSE table
    /\ cursor' = cursor + 1
    /\ UNCHANGED <<frames, capacity, tombstones, phase, pending, newCapacity, old>>

RehashEnds ==
    /\ phase = "rehashing"
    /\ cursor \notin OldSlots
    /\ phase' = "ready"
    /\ old' = EmptyTable(0)
    /\ cursor' = 0
    /\ UNCHANGED <<frames, capacity, table, tombstones, pending, newCapacity>>

PushEnds ==
    LET s == FindSlot(pending)
    IN /\ phase = "ready"
       /\ frames' = Append(frames, pending)
       /\ tombstones' =
            IF ~Found(pending) /\ table[s].state = "TOMBSTONE" /\ tombstones > 0
            THEN tombstones - 1 ELSE tombstones
       /\ table' = [table EXCEPT ![s] = [state |-> "ACTIVE", path |-> pending,
                                         count |-> table[s].count + 1]]
       /\ phase' = "idle"
       /\ pending' = NoPath
       /\ UNCHANGED <<capacity, newCapacity, old, cursor>>

\* A slot with one occurrence of its path fewer; the last leaves a tombstone.
Released(slot) ==
    IF slot.count = 1
    THEN [state |-> "TOMBSTONE", path |-> NoPath, count |-> 0]
    ELSE [slot EXCEPT !.count = @ - 1]

Pop ==
    LET path == frames[Depth]
        s == FindSlot(path)
        counted == capacity > 0 /\ Found(path) /\ table[s].count > 0
    IN /\ phase = "idle"
       /\ Depth > 0
       /\ frames' = SubSeq(frames, 1, Depth - 1)
       /\ table' = IF counted THEN [table EXCEPT ![s] = Released(@)] ELSE table
       /\ tombstones' = IF counted /\ table[s].count = 1
                        THEN tombstones + 1 ELSE tombstones
       /\ UNCHANGED <<capacity, phase, pending, newCapacity, old, cursor>>

Work == CapacityDoubles \/ RehashBegins \/ RehashMoves \/ RehashEnds \/ PushEnds

Next == (\E path \in Path : PushBegins(path)) \/ Work \/ PushFails \/ Pop

Spec == Init /\ [][Next]_vars

\* The code is sequential: a push that has begun is carried on.
FairSpec == Spec /\ WF_vars(Work)

-------------------------------------------------------------------------------
Occurrences(path) == {i \in 1..Depth : frames[i] = path}

SlotsIn(state) == {s \in DOMAIN table : table[s].state = state}

\* "The probe loop is logically total": in every state in which find_slot can be
\* called, the rehash included, the probe for any path meets a slot that ends it.
ProbeTerminates == capacity # 0 => \A path \in Path : Stops(path) # {}

\* pp_include_stack_contains is exact: whatever was pushed and popped before, it
\* answers true for the paths of the frames and for no other.
ContainsExact ==
    phase = "idle" => \A path \in Path : Contains(path) <=> Occurrences(path) # {}

\* memberCounts holds the number of frames of a path, so that a file on the stack
\* twice is still found when its inner frame is popped.
CountsExact ==
    phase \in {"idle", "sizing", "ready"} =>
        \A s \in SlotsIn("ACTIVE") :
            table[s].count = Cardinality(Occurrences(table[s].path))

\* memberTombstones, which decides when to rehash, is the number of tombstones,
\* and with the frames it never fills more than half of the table.
HalfEmpty == /\ tombstones = Cardinality(SlotsIn("TOMBSTONE"))
             /\ (Depth + tombstones) * 2 <= capacity

\* A push that has begun comes to an end: neither the doubling nor the rehash
\* runs for ever.
PushCompletes == phase # "idle" ~> phase = "idle"
===============================================================================
