-------------------------- MODULE MemoryCheckProofs --------------------------
(***************************************************************************)
(* Proofs about the memory-check runtime, for any addresses, any hash and  *)
(* any capacity of the table.                                              *)
(***************************************************************************)
EXTENDS MemoryCheck, WellFoundedInduction, FiniteSetTheorems, TLAPS

Less == {ss \in Nat \X Nat : ss[1] < ss[2]}

\* A non-empty set of naturals has a least element.
LEMMA LeastNatural ==
    ASSUME NEW T, T \subseteq Nat, T # {}
    PROVE  \E m \in T : \A k \in T : m <= k
<1>1. IsWellFoundedOn(Less, Nat)
  BY NatLessThanWellFounded DEF OpToRel, Less
<1>2. PICK m \in T : \A k \in T : ~(<<k, m>> \in Less)
  BY <1>1, WFMin
<1>3. ASSUME NEW k \in T PROVE m <= k
  <2>1. k \in Nat /\ m \in Nat /\ <<k, m>> \in Nat \X Nat
    BY <1>2
  <2>2. ~(k < m)
    BY <1>2, <2>1 DEF Less
  <2> QED
    BY <2>1, <2>2
<1> QED
  BY <1>2, <1>3

\* What is above a multiple of c is the remainder.
LEMMA ModUnique ==
    ASSUME NEW q \in Int, NEW c \in Nat, c > 0, NEW s \in 0..(c - 1)
    PROVE  (c * q + s) % c = s
  BY Z3T(30)

\* From any hash the probe reaches every slot within one round.
LEMMA ProbeOnto ==
    ASSUME NEW h \in Nat, NEW c \in Nat, c > 0, NEW s \in 0..(c - 1)
    PROVE  \E k \in 0..(c - 1) : (h + k) % c = s
<1> DEFINE r == h % c
           q == h \div c
<1>1. r \in 0..(c - 1) /\ h = c * q + r /\ q \in Int
  OBVIOUS
<1> HIDE DEF r, q
<1>2. CASE r <= s
  <2>1. h + (s - r) = c * q + s /\ s - r \in 0..(c - 1)
    BY <1>1, <1>2
  <2> QED
    BY <1>1, <2>1, ModUnique
<1>3. CASE r > s
  <2>1. h + (s - r + c) = c * (q + 1) + s
    BY <1>1, <1>3
  <2>2. s - r + c \in 0..(c - 1) /\ q + 1 \in Int
    BY <1>1, <1>3
  <2> QED
    BY <2>1, <2>2, ModUnique
<1> QED
  BY <1>1, <1>2, <1>3

-------------------------------------------------------------------------------
(***************************************************************************)
(* The shape of the table: a slot is reached by the probe of its pointer   *)
(* without meeting an empty slot, and no pointer has two slots.            *)
(***************************************************************************)
Reached(slots, s) ==
    \E i \in Range0 :
       /\ Probe(slots[s].ptr, i) = s
       /\ \A j \in 0 .. (i - 1) : slots[Probe(slots[s].ptr, j)].state # "EMPTY"

Shape(slots) ==
    /\ slots \in [Range0 -> Slots]
    /\ \A s \in Range0 : slots[s].state = "EMPTY" <=> slots[s].ptr = NULL
    /\ \A s \in Range0 : slots[s].ptr # NULL => Reached(slots, s)
    /\ \A s, r \in Range0 : slots[s].ptr # NULL /\ slots[s].ptr = slots[r].ptr => s = r

LEMMA ProbeType ==
    ASSUME NEW p \in Ptr, NEW i \in Nat
    PROVE  Probe(p, i) \in Range0
<1>1. Hash[p] + i \in Nat /\ Capacity \in Nat /\ Capacity > 0
  BY MemoryCheckAssumption
<1> HIDE DEF Probe
<1> QED
  BY <1>1 DEF Probe, Range0

LEMMA RangeFacts == Range0 \subseteq Nat /\ IsFiniteSet(Range0) /\ NoSlot \notin Range0
<1>1. Capacity \in Nat
  BY MemoryCheckAssumption
<1>2. Range0 \subseteq Nat /\ NoSlot \notin Range0
  BY <1>1 DEF Range0, NoSlot
<1>3. IsFiniteSet(0 .. (Capacity - 1))
  BY <1>1, FS_Interval
<1> QED
  BY <1>2, <1>3 DEF Range0

\* The least element that Min chooses.
LEMMA MinFacts ==
    ASSUME NEW S, S \subseteq Nat, S # {}
    PROVE  Min(S) \in S /\ \A k \in S : Min(S) <= k
<1>1. \E m \in S : \A k \in S : m <= k
  BY LeastNatural
<1> QED
  BY <1>1 DEF Min

\* Where the probe for p stops first: the slots before are neither empty nor
\* p's, and p is in that slot or in none.
LEMMA StopFacts ==
    ASSUME NEW slots, Shape(slots), NEW p \in Ptr, Stops(slots, p) # {}
    PROVE  LET i == Min(Stops(slots, p))
               s == Probe(p, i)
           IN  /\ i \in Range0 /\ s \in Range0
               /\ \A j \in 0 .. (i - 1) : slots[Probe(p, j)].state # "EMPTY"
               /\ slots[s].state = "EMPTY" \/ slots[s].ptr = p
               /\ slots[s].ptr # p => \A r \in Range0 : slots[r].ptr # p
<1> DEFINE i == Min(Stops(slots, p))
           s == Probe(p, i)
<1>1. Stops(slots, p) \subseteq Nat /\ Stops(slots, p) \subseteq Range0
  BY RangeFacts DEF Stops
<1>2. i \in Stops(slots, p) /\ \A k \in Stops(slots, p) : i <= k
  BY <1>1, MinFacts
<1> HIDE DEF i
<1>3. i \in Range0 /\ i \in Nat
  BY <1>1, <1>2
<1>4. s \in Range0
  BY <1>3, ProbeType
<1>5. slots[s].state = "EMPTY" \/ slots[s].ptr = p
  BY <1>2 DEF Stops
<1>6. ASSUME NEW j \in 0 .. (i - 1) PROVE slots[Probe(p, j)].state # "EMPTY"
  <2>1. j \in Range0 /\ j < i
    BY <1>3, MemoryCheckAssumption DEF Range0
  <2> QED
    BY <1>2, <1>3, <2>1 DEF Stops
<1>7. ASSUME slots[s].ptr # p, NEW r \in Range0, slots[r].ptr = p PROVE FALSE
  <2>1. p # NULL
    BY MemoryCheckAssumption
  <2>2. Reached(slots, r)
    BY <1>7, <2>1 DEF Shape
  <2>3. PICK k \in Range0 : /\ Probe(p, k) = r
                            /\ \A j \in 0 .. (k - 1) : slots[Probe(p, j)].state # "EMPTY"
    BY <1>7, <2>2 DEF Reached
  <2>4. k \in Stops(slots, p)
    BY <1>7, <2>3 DEF Stops
  <2>5. i <= k /\ k \in Nat /\ i # k
    BY <1>1, <1>2, <1>7, <2>3, <2>4
  <2>6. i \in 0 .. (k - 1)
    BY <1>3, <2>5
  <2> QED
    BY <1>5, <1>7, <2>3, <2>6
<1> QED
  BY <1>3, <1>4, <1>5, <1>6, <1>7 DEF i

\* find_slot returns the slot of p, if there is one.
LEMMA FindFacts ==
    ASSUME NEW slots, Shape(slots), NEW p \in Ptr
    PROVE  LET s == find_slot(slots, p)
           IN  \/ s = NoSlot /\ \A r \in Range0 : slots[r].ptr # p
               \/ s \in Range0 /\ slots[s].ptr = p
<1>1. CASE Stops(slots, p) = {}
  <2>1. find_slot(slots, p) = NoSlot
    BY <1>1 DEF find_slot
  <2>2. ASSUME NEW r \in Range0, slots[r].ptr = p PROVE FALSE
    <3>1. p # NULL
      BY MemoryCheckAssumption
    <3>2. PICK k \in Range0 : Probe(p, k) = r
      BY <2>2, <3>1 DEF Shape, Reached
    <3> QED
      BY <1>1, <2>2, <3>2 DEF Stops
  <2> QED
    BY <2>1, <2>2
<1>2. CASE Stops(slots, p) # {}
  <2> DEFINE s == Probe(p, Min(Stops(slots, p)))
  <2>1. /\ s \in Range0
        /\ slots[s].state = "EMPTY" \/ slots[s].ptr = p
        /\ slots[s].ptr # p => \A r \in Range0 : slots[r].ptr # p
    BY <1>2, StopFacts
  <2>2. find_slot(slots, p) = IF slots[s].state = "EMPTY" THEN NoSlot ELSE s
    BY <1>2 DEF find_slot
  <2> HIDE DEF s
  <2>3. slots[s].state = "EMPTY" => slots[s].ptr # p
    BY <2>1, MemoryCheckAssumption DEF Shape
  <2> QED
    BY <2>1, <2>2, <2>3
<1> QED
  BY <1>1, <1>2

\* find_insert_slot returns the slot of p, an empty slot on its probe, or a
\* released slot of a table without empty slots; never another's active slot.
LEMMA InsertFacts ==
    ASSUME NEW slots, Shape(slots), NEW p \in Ptr, find_insert_slot(slots, p) # NoSlot
    PROVE  LET s == find_insert_slot(slots, p)
           IN  /\ s \in Range0
               /\ \E i \in Range0 :
                     /\ Probe(p, i) = s
                     /\ \A j \in 0 .. (i - 1) : slots[Probe(p, j)].state # "EMPTY"
               /\ \A r \in Range0 : slots[r].ptr = p => r = s
               /\ slots[s].state = "ACTIVE" => slots[s].ptr = p
               /\ slots[s].ptr \notin {p, NULL} => \A r \in Range0 : slots[r].state # "EMPTY"
<1> DEFINE s == find_insert_slot(slots, p)
<1>0. p # NULL /\ Capacity \in Nat /\ Capacity > 0 /\ Hash[p] \in Nat
  BY MemoryCheckAssumption
<1>1. CASE Stops(slots, p) # {}
  <2> DEFINE i == Min(Stops(slots, p))
  <2>1. s = Probe(p, i)
    BY <1>1 DEF find_insert_slot
  <2>2. /\ i \in Range0 /\ s \in Range0
        /\ \A j \in 0 .. (i - 1) : slots[Probe(p, j)].state # "EMPTY"
        /\ slots[s].state = "EMPTY" \/ slots[s].ptr = p
        /\ slots[s].ptr # p => \A r \in Range0 : slots[r].ptr # p
    BY <1>1, <2>1, StopFacts
  <2> HIDE DEF i, s
  <2>3. slots[s].state = "EMPTY" => slots[s].ptr = NULL
    BY <2>2 DEF Shape
  <2>4. ASSUME NEW r \in Range0, slots[r].ptr = p PROVE r = s
    BY <1>0, <2>2, <2>4 DEF Shape
  <2> QED
    BY <1>0, <2>1, <2>2, <2>3, <2>4 DEF s
<1>2. CASE Stops(slots, p) = {}
  <2>1. Freed(slots, p) # {} /\ s = Probe(p, Min(Freed(slots, p)))
    BY <1>2 DEF find_insert_slot
  <2> DEFINE i == Min(Freed(slots, p))
  <2>2. i \in Freed(slots, p)
    <3>1. Freed(slots, p) \subseteq Nat
      BY RangeFacts DEF Freed
    <3> QED
      BY <2>1, <3>1, MinFacts
  <2>3. s = Probe(p, i)
    BY <2>1
  <2> HIDE DEF i, s
  <2>4. i \in Range0 /\ i \in Nat /\ slots[s].state = "FREED"
    BY <2>2, <2>3, RangeFacts DEF Freed
  <2>5. s \in Range0
    BY <2>3, <2>4, ProbeType
  <2>6. ASSUME NEW k \in Range0
        PROVE  slots[Probe(p, k)].state # "EMPTY" /\ slots[Probe(p, k)].ptr # p
    BY <1>2 DEF Stops
  <2>7. ASSUME NEW r \in Range0 PROVE slots[r].state # "EMPTY" /\ slots[r].ptr # p
    <3>1. r \in 0 .. (Capacity - 1)
      BY DEF Range0
    <3>2. PICK k \in 0 .. (Capacity - 1) : (Hash[p] + k) % Capacity = r
      BY <1>0, <3>1, ProbeOnto
    <3> QED
      BY <2>6, <3>2 DEF Probe, Range0
  <2>8. \A j \in 0 .. (i - 1) : j \in Range0
    BY <1>0, <2>4 DEF Range0
  <2> QED
    BY <2>3, <2>4, <2>5, <2>6, <2>7, <2>8 DEF s
<1> QED
  BY <1>1, <1>2

\* Writing p's slot where find_insert_slot says keeps the shape.
LEMMA InsertShape ==
    ASSUME NEW slots, Shape(slots), NEW p \in Ptr, find_insert_slot(slots, p) # NoSlot,
           NEW v \in Slots, v.ptr = p, v.state = "ACTIVE"
    PROVE  Shape([slots EXCEPT ![find_insert_slot(slots, p)] = v])
<1> DEFINE s == find_insert_slot(slots, p)
           new == [slots EXCEPT ![s] = v]
<1>1. /\ s \in Range0
      /\ \E i \in Range0 : /\ Probe(p, i) = s
                           /\ \A j \in 0 .. (i - 1) : slots[Probe(p, j)].state # "EMPTY"
      /\ \A r \in Range0 : slots[r].ptr = p => r = s
  BY InsertFacts
<1> HIDE DEF s
<1>2. slots \in [Range0 -> Slots]
  BY DEF Shape
<1>3. new \in [Range0 -> Slots] /\ new[s] = v /\ \A r \in Range0 : r # s => new[r] = slots[r]
  BY <1>1, <1>2
<1> HIDE DEF new
<1>4. p # NULL
  BY MemoryCheckAssumption
<1>5. \A r \in Range0 : slots[r].state # "EMPTY" => new[r].state # "EMPTY"
  BY <1>1, <1>3
<1>6. \A r \in Range0 : new[r].state = "EMPTY" <=> new[r].ptr = NULL
  BY <1>1, <1>3, <1>4 DEF Shape
<1>7. ASSUME NEW r \in Range0, new[r].ptr # NULL PROVE Reached(new, r)
  <2> DEFINE q == new[r].ptr
  <2>1. q \in Ptr
    BY <1>3, <1>7 DEF Slots
  <2>2. PICK i \in Range0 : /\ Probe(q, i) = r
                            /\ \A j \in 0 .. (i - 1) : slots[Probe(q, j)].state # "EMPTY"
    <3>1. CASE r = s
      BY <1>1, <1>3, <3>1
    <3>2. CASE r # s
      BY <1>3, <1>7, <3>2 DEF Shape, Reached
    <3> QED
      BY <3>1, <3>2
  <2> HIDE DEF q
  <2>3. ASSUME NEW j \in 0 .. (i - 1) PROVE new[Probe(q, j)].state # "EMPTY"
    <3>1. Probe(q, j) \in Range0
      BY <2>1, <2>2, ProbeType
    <3> QED
      BY <1>5, <2>2, <3>1
  <2> QED
    BY <2>2, <2>3 DEF Reached, q
<1>8. ASSUME NEW r \in Range0, NEW u \in Range0, new[r].ptr # NULL, new[r].ptr = new[u].ptr
      PROVE  r = u
  <2>1. CASE r # s /\ u # s
    BY <1>3, <1>8, <2>1 DEF Shape
  <2>2. CASE r = s \/ u = s
    BY <1>1, <1>3, <1>8, <2>2
  <2> QED
    BY <2>1, <2>2
<1>9. Shape(new)
  BY <1>3, <1>6, <1>7, <1>8 DEF Shape
<1> QED
  BY <1>9 DEF new, s

\* Releasing a slot keeps its pointer, and the shape.
LEMMA ReleaseShape ==
    ASSUME NEW slots, Shape(slots), NEW s \in Range0, slots[s].state = "ACTIVE",
           NEW v \in Slots, v.ptr = slots[s].ptr, v.state = "FREED"
    PROVE  Shape([slots EXCEPT ![s] = v])
<1> DEFINE new == [slots EXCEPT ![s] = v]
<1>1. slots \in [Range0 -> Slots]
  BY DEF Shape
<1>2. /\ new \in [Range0 -> Slots]
      /\ new[s] = v /\ \A r \in Range0 : r # s => new[r] = slots[r]
  BY <1>1
<1> HIDE DEF new
<1>3. \A r \in Range0 : new[r].ptr = slots[r].ptr
  BY <1>2
<1>4. \A r \in Range0 : new[r].state = "EMPTY" <=> slots[r].state = "EMPTY"
  BY <1>2
<1>5. ASSUME NEW r \in Range0, new[r].ptr # NULL PROVE Reached(new, r)
  <2> DEFINE q == slots[r].ptr
  <2>1. q \in Ptr /\ new[r].ptr = q /\ Reached(slots, r)
    BY <1>1, <1>3, <1>5 DEF Slots, Shape
  <2>2. PICK i \in Range0 : /\ Probe(q, i) = r
                            /\ \A j \in 0 .. (i - 1) : slots[Probe(q, j)].state # "EMPTY"
    BY <2>1 DEF Reached
  <2> HIDE DEF q
  <2>3. ASSUME NEW j \in 0 .. (i - 1) PROVE new[Probe(q, j)].state # "EMPTY"
    <3>1. Probe(q, j) \in Range0
      BY <2>1, <2>2, ProbeType
    <3> QED
      BY <1>4, <2>2, <3>1
  <2> QED
    BY <2>1, <2>2, <2>3 DEF Reached
<1>6. Shape(new)
  BY <1>2, <1>3, <1>4, <1>5 DEF Shape
<1> QED
  BY <1>6 DEF new

-------------------------------------------------------------------------------
(***************************************************************************)
(* The inductive invariant, as a relation between a tracker and a heap, and*)
(* what each function of the runtime does to it.                           *)
(***************************************************************************)
Good(t, h) ==
    /\ t \in Trackers /\ IsHeap(h)
    /\ Shape(t.slots)
    /\ Tracks(t.slots, h)
    /\ Balanced(t)

\* A step that leaves the table and its counts alone.
LEMMA OtherCounts ==
    ASSUME NEW t, NEW h, Good(t, h), NEW u \in Trackers, u.slots = t.slots,
           u.active = t.active, u.allocs = t.allocs, u.frees = t.frees
    PROVE  Good(u, h)
  BY DEF Good, Balanced

LEMMA CountsGood ==
    ASSUME NEW t, NEW h, Good(t, h)
    PROVE  /\ Good(CountUnknown(t), h) /\ Good(CountDouble(t), h) /\ Good(CountFailure(t), h)
           /\ CountUnknown(t).slots = t.slots /\ CountDouble(t).slots = t.slots
           /\ CountFailure(t).slots = t.slots
<1>1. t \in Trackers
  BY DEF Good
<1>2. CountUnknown(t) \in Trackers /\ CountDouble(t) \in Trackers /\ CountFailure(t) \in Trackers
  <2>1. /\ t.unknowns + 1 \in Nat /\ t.doubles + 1 \in Nat /\ t.failures + 1 \in Nat
        /\ t.generation + 1 \in Nat
    BY <1>1 DEF Trackers
  <2>2. CountUnknown(t) \in Trackers
    BY <1>1, <2>1 DEF CountUnknown, Trackers
  <2>3. CountDouble(t) \in Trackers
    BY <1>1, <2>1 DEF CountDouble, Trackers
  <2>4. CountFailure(t) \in Trackers
    BY <1>1, <2>1 DEF CountFailure, Trackers
  <2> QED
    BY <2>2, <2>3, <2>4
<1>3. ASSUME NEW u \in {CountUnknown(t), CountDouble(t), CountFailure(t)}
      PROVE  /\ u.slots = t.slots /\ u.active = t.active
             /\ u.allocs = t.allocs /\ u.frees = t.frees
  BY <1>1 DEF CountUnknown, CountDouble, CountFailure, Trackers
<1> QED
  BY <1>2, <1>3, OtherCounts

LEMMA RegisterGood ==
    ASSUME NEW t, NEW h, Good(t, h), NEW ok \in BOOLEAN
    PROVE  /\ Good(ensure_atexit_registered(t, ok), h)
           /\ ensure_atexit_registered(t, ok).slots = t.slots
<1> DEFINE u == [t EXCEPT !.registered = TRUE]
<1>1. t \in Trackers
  BY DEF Good
<1>2. /\ u \in Trackers /\ u.slots = t.slots /\ u.active = t.active
      /\ u.allocs = t.allocs /\ u.frees = t.frees
  BY <1>1 DEF Trackers
<1> HIDE DEF u
<1>3. Good(u, h)
  BY <1>2, OtherCounts
<1>4. ensure_atexit_registered(t, ok) \in {t, u, CountFailure(t)}
  BY DEF ensure_atexit_registered, u
<1> QED
  BY <1>2, <1>3, <1>4, CountsGood

LEMMA ActiveFinite ==
    ASSUME NEW slots
    PROVE  IsFiniteSet(ActiveSlots(slots)) /\ Cardinality(ActiveSlots(slots)) \in Nat
<1>1. ActiveSlots(slots) \subseteq Range0
  BY DEF ActiveSlots
<1>2. IsFiniteSet(ActiveSlots(slots))
  BY <1>1, RangeFacts, FS_Subset
<1> QED
  BY <1>2, FS_CardinalityType

\* track_allocation records the block that the allocator has just handed out.
LEMMA TrackGood ==
    ASSUME NEW t, NEW h, Good(t, h), NEW p \in Ptr, p \notin DOMAIN h, NEW block \in Blocks
    PROVE  Good(track_allocation(t, p, block),
                HeapWith(h, p, block, find_insert_slot(t.slots, p) # NoSlot))
<1> DEFINE s == find_insert_slot(t.slots, p)
           known == s # NoSlot
           g == HeapWith(h, p, block, known)
           v == [ptr |-> p, state |-> "ACTIVE", block |-> block]
           u == track_allocation(t, p, block)
<1>1. t \in Trackers /\ Shape(t.slots) /\ Tracks(t.slots, h) /\ Balanced(t) /\ IsHeap(h)
  BY DEF Good
<1>2. /\ DOMAIN g = DOMAIN h \cup {p}
      /\ g[p] = [block |-> block, tracked |-> known]
      /\ \A q \in DOMAIN h : g[q] = h[q]
  BY DEF HeapWith
<1>3. IsHeap(g)
  <2>1. known \in BOOLEAN
    OBVIOUS
  <2> HIDE DEF known
  <2>2. g \in [DOMAIN h \cup {p} -> [block : Blocks, tracked : BOOLEAN]]
    BY <1>1, <2>1 DEF HeapWith, IsHeap
  <2> HIDE DEF g
  <2> QED
    BY <1>1, <1>2, <2>2 DEF IsHeap
<1>4. v \in Slots /\ v.ptr = p /\ v.state = "ACTIVE" /\ v.block = block
  BY DEF Slots
<1> HIDE DEF g, v
<1>5. CASE ~known
  <2>1. u = CountFailure(t)
    BY <1>5 DEF track_allocation
  <2>2. Good(u, h) /\ u.slots = t.slots
    BY <2>1, CountsGood
  <2>3. g[p].tracked = known
    <3> HIDE DEF known
    <3> QED
      BY <1>2
  <2>4. Tracks(u.slots, g)
    <3> HIDE DEF u, known
    <3>1. \A r \in ActiveSlots(t.slots) :
            /\ t.slots[r].ptr \in DOMAIN g
            /\ g[t.slots[r].ptr] = [block |-> t.slots[r].block, tracked |-> TRUE]
      BY <1>1, <1>2 DEF Tracks
    <3>2. ASSUME NEW q \in DOMAIN g, g[q].tracked
          PROVE  \E r \in ActiveSlots(t.slots) : t.slots[r].ptr = q
      <4>1. q # p
        BY <1>5, <2>3, <3>2
      <4> QED
        BY <1>1, <1>2, <3>2, <4>1 DEF Tracks
    <3> QED
      BY <2>2, <3>1, <3>2 DEF Tracks
  <2> QED
    BY <1>3, <2>2, <2>4 DEF Good, g
<1>6. CASE known
  <2> DEFINE new == [t.slots EXCEPT ![s] = v]
             A == ActiveSlots(t.slots)
  <2>1. /\ s \in Range0
        /\ \A r \in Range0 : t.slots[r].ptr = p => r = s
        /\ t.slots[s].state = "ACTIVE" => t.slots[s].ptr = p
    BY <1>1, <1>6, InsertFacts
  <2>2. Shape(new)
    BY <1>1, <1>4, <1>6, InsertShape
  <2>3. t.slots[s].state # "ACTIVE"
    <3> HIDE DEF s, v
    <3> SUFFICES ASSUME t.slots[s].state = "ACTIVE" PROVE FALSE
      OBVIOUS
    <3>1. s \in ActiveSlots(t.slots) /\ t.slots[s].ptr = p
      BY <2>1 DEF ActiveSlots
    <3>2. t.slots[s].ptr \in DOMAIN h
      BY <1>1, <3>1 DEF Tracks
    <3> QED
      BY <3>1, <3>2
  <2>4. /\ u.slots = new /\ u.active = t.active + 1 /\ u.allocs = t.allocs + 1
        /\ u.frees = t.frees /\ u \in Trackers
    <3>1. /\ t.slots \in [Range0 -> Slots] /\ t.active \in Nat /\ t.allocs \in Nat
          /\ t.generation \in Nat
      BY <1>1 DEF Trackers
    <3>2. new \in [Range0 -> Slots]
      BY <2>2 DEF Shape
    <3>3. u = [t EXCEPT !.slots = new, !.active = t.active + 1,
                        !.allocs = t.allocs + 1, !.generation = t.generation + 1]
      BY <1>1, <1>6, <2>3 DEF track_allocation, Trackers, v
    <3>4. t.active + 1 \in Nat /\ t.allocs + 1 \in Nat /\ t.generation + 1 \in Nat
      BY <3>1
    <3> HIDE DEF new
    <3>5. u \in Trackers
      BY <1>1, <3>2, <3>3, <3>4 DEF Trackers
    <3> QED
      BY <1>1, <3>3, <3>5 DEF Trackers
  <2>5. new[s] = v /\ \A r \in Range0 : r # s => new[r] = t.slots[r]
    BY <1>1, <2>1 DEF Shape
  <2> HIDE DEF new, s, u
  <2>6. ActiveSlots(new) = A \cup {s} /\ s \notin A
    BY <1>4, <2>1, <2>3, <2>5 DEF ActiveSlots
  <2>7. Cardinality(ActiveSlots(new)) = Cardinality(A) + 1
    BY <2>6, ActiveFinite, FS_AddElement
  <2>8. Balanced(u)
    <3>1. t.active \in Nat /\ t.allocs \in Nat /\ t.frees \in Nat
      BY <1>1 DEF Trackers
    <3>2. t.active = Cardinality(A) /\ t.allocs = t.frees + t.active
      BY <1>1 DEF Balanced
    <3> HIDE DEF A
    <3> QED
      BY <2>4, <2>7, <3>1, <3>2 DEF Balanced
  <2>9. Tracks(new, g)
    <3>1. ASSUME NEW r \in ActiveSlots(new)
          PROVE  /\ new[r].ptr \in DOMAIN g
                 /\ g[new[r].ptr] = [block |-> new[r].block, tracked |-> TRUE]
      <4>1. CASE r = s
        BY <1>2, <1>4, <1>6, <2>5, <4>1
      <4>2. CASE r # s
        <5>1. r \in A /\ r \in Range0 /\ new[r] = t.slots[r]
          BY <2>5, <2>6, <4>2, <3>1 DEF ActiveSlots
        <5> QED
          BY <1>1, <1>2, <5>1 DEF Tracks
      <4> QED
        BY <4>1, <4>2
    <3>2. ASSUME NEW q \in DOMAIN g, g[q].tracked
          PROVE  \E r \in ActiveSlots(new) : new[r].ptr = q
      <4>1. CASE q = p
        BY <1>4, <2>5, <2>6, <4>1
      <4>2. CASE q # p
        <5>1. q \in DOMAIN h /\ h[q].tracked
          BY <1>2, <3>2, <4>2
        <5>2. PICK r \in A : t.slots[r].ptr = q
          BY <1>1, <5>1 DEF Tracks
        <5>3. r # s /\ r \in Range0
          BY <2>6, <5>2 DEF ActiveSlots
        <5> QED
          BY <2>5, <2>6, <5>2, <5>3
      <4> QED
        BY <4>1, <4>2
    <3> QED
      BY <3>1, <3>2 DEF Tracks
  <2> QED
    BY <1>3, <2>2, <2>4, <2>8, <2>9 DEF Good, u, g, s
<1> QED
  BY <1>5, <1>6

\* What remains of a heap.
LEMMA WithoutFacts ==
    ASSUME NEW h, IsHeap(h), NEW p
    PROVE  /\ IsHeap(HeapWithout(h, p))
           /\ DOMAIN HeapWithout(h, p) = DOMAIN h \ {p}
           /\ \A q \in DOMAIN h \ {p} : HeapWithout(h, p)[q] = h[q]
  BY DEF IsHeap, HeapWithout, Restrict

\* mark_released and the release of the block by the allocator.
LEMMA ReleaseGood ==
    ASSUME NEW t, NEW h, Good(t, h), NEW s \in Range0, t.slots[s].state = "ACTIVE"
    PROVE  Good(mark_released(t, s), HeapWithout(h, t.slots[s].ptr))
<1> DEFINE p == t.slots[s].ptr
           g == HeapWithout(h, p)
           v == [t.slots[s] EXCEPT !.state = "FREED", !.block = NoBlock]
           new == [t.slots EXCEPT ![s] = v]
           A == ActiveSlots(t.slots)
           u == mark_released(t, s)
<1>1. t \in Trackers /\ Shape(t.slots) /\ Tracks(t.slots, h) /\ Balanced(t) /\ IsHeap(h)
  BY DEF Good
<1> HIDE DEF p
<1>2. /\ IsHeap(g) /\ DOMAIN g = DOMAIN h \ {p}
      /\ \A q \in DOMAIN h \ {p} : g[q] = h[q]
  BY ONLY <1>1, WithoutFacts DEF g
<1> USE DEF p
<1>3. t.slots \in [Range0 -> Slots] /\ t.slots[s] \in Slots
  BY <1>1 DEF Shape
<1>4. v \in Slots /\ v.ptr = p /\ v.state = "FREED"
  BY <1>3 DEF Slots, Blocks, NoBlock
<1> HIDE DEF v
<1>5. Shape(new)
  BY <1>1, <1>4, ReleaseShape
<1>6. new[s] = v /\ \A r \in Range0 : r # s => new[r] = t.slots[r]
  BY <1>3
<1>7. s \in A /\ ActiveSlots(new) = A \ {s}
  BY <1>4, <1>6 DEF ActiveSlots
<1>8. /\ Cardinality(ActiveSlots(new)) = Cardinality(A) - 1
      /\ Cardinality(A) \in Nat /\ Cardinality(A) > 0
  <2>1. IsFiniteSet(A) /\ Cardinality(A) \in Nat
    BY ActiveFinite
  <2>2. Cardinality(A) # 0
    BY <1>7, <2>1, FS_EmptySet
  <2> QED
    BY <1>7, <2>1, <2>2, FS_RemoveElement
<1>9. t.active = Cardinality(A) /\ t.allocs = t.frees + t.active
  BY <1>1 DEF Balanced
<1>10. t.active \in Nat /\ t.frees \in Nat /\ t.allocs \in Nat /\ t.generation \in Nat
  BY <1>1 DEF Trackers
<1>11. u = [t EXCEPT !.slots = new, !.active = t.active - 1,
                     !.frees = t.frees + 1, !.generation = t.generation + 1]
  <2>1. t.active > 0
    BY <1>8, <1>9
  <2> QED
    BY <1>1, <2>1 DEF mark_released, Trackers, v
<1> HIDE DEF new, A, u, p, g
<1>12. t.active - 1 \in Nat /\ t.frees + 1 \in Nat /\ t.generation + 1 \in Nat
  BY <1>8, <1>9, <1>10
<1>13. new \in [Range0 -> Slots]
  BY <1>5 DEF Shape
<1>14. u \in Trackers
  BY <1>1, <1>11, <1>12, <1>13 DEF Trackers
<1>15. /\ u.slots = new /\ u.active = t.active - 1
       /\ u.frees = t.frees + 1 /\ u.allocs = t.allocs
  BY <1>1, <1>11 DEF Trackers
<1>16. Balanced(u)
  BY <1>8, <1>9, <1>10, <1>15 DEF Balanced
<1>17. Tracks(new, g)
  <2>1. ASSUME NEW r \in ActiveSlots(new)
        PROVE  /\ new[r].ptr \in DOMAIN g
               /\ g[new[r].ptr] = [block |-> new[r].block, tracked |-> TRUE]
    <3>1. r \in A /\ r # s /\ r \in Range0 /\ new[r] = t.slots[r]
      BY <1>6, <1>7, <2>1 DEF ActiveSlots
    <3>2. t.slots[r].ptr \in DOMAIN h
          /\ h[t.slots[r].ptr] = [block |-> t.slots[r].block, tracked |-> TRUE]
      BY <1>1, <3>1 DEF Tracks, A
    <3>3. t.slots[r].ptr # p
      <4>1. t.slots[s].ptr # NULL
        BY <1>1 DEF Shape
      <4> QED
        BY <1>1, <3>1, <4>1 DEF Shape, p
    <3> QED
      BY <1>2, <3>1, <3>2, <3>3
  <2>2. ASSUME NEW q \in DOMAIN g, g[q].tracked
        PROVE  \E r \in ActiveSlots(new) : new[r].ptr = q
    <3>1. q \in DOMAIN h /\ q # p /\ h[q].tracked
      BY <1>2, <2>2
    <3>2. PICK r \in A : t.slots[r].ptr = q
      BY <1>1, <3>1 DEF Tracks, A
    <3>3. r # s /\ r \in Range0
      BY <3>1, <3>2 DEF p, A, ActiveSlots
    <3> QED
      BY <1>6, <1>7, <3>2, <3>3
  <2> QED
    BY <2>1, <2>2 DEF Tracks
<1> QED
  BY <1>2, <1>5, <1>14, <1>15, <1>16, <1>17 DEF Good, u, g, p

-------------------------------------------------------------------------------
(***************************************************************************)
(* The steps of the program.                                               *)
(***************************************************************************)
IInv == Good(tracker, heap) /\ policy \in Policy /\ hooks \in 0 .. MaxHooks /\ running \in BOOLEAN

LEMMA ZeroGood ==
    ASSUME NEW u \in Trackers, u.slots = Zero.slots, u.active = 0, u.allocs = 0, u.frees = 0,
           NEW h, IsHeap(h), \A p \in DOMAIN h : ~h[p].tracked
    PROVE  Good(u, h)
<1>1. EmptySlot \in Slots /\ EmptySlot.state = "EMPTY" /\ EmptySlot.ptr = NULL
  BY DEF EmptySlot, Slots, Blocks, NoBlock
<1>2. u.slots \in [Range0 -> Slots] /\ \A s \in Range0 : u.slots[s] = EmptySlot
  BY <1>1 DEF Zero
<1>3. Shape(u.slots)
  BY <1>1, <1>2 DEF Shape
<1>4. ActiveSlots(u.slots) = {}
  BY <1>1, <1>2 DEF ActiveSlots
<1>5. Tracks(u.slots, h)
  BY <1>4 DEF Tracks
<1>6. Balanced(u)
  BY <1>4, FS_EmptySet DEF Balanced
<1> QED
  BY <1>3, <1>5, <1>6 DEF Good

LEMMA ZeroTracker ==
    ASSUME NEW b \in BOOLEAN
    PROVE  /\ Zero \in Trackers
           /\ [Zero EXCEPT !.registered = b] \in Trackers
<1>1. [s \in Range0 |-> EmptySlot] \in [Range0 -> Slots]
  BY DEF EmptySlot, Slots, Blocks, NoBlock
<1> QED
  BY <1>1 DEF Zero, Trackers

LEMMA InitGood == Init => IInv
<1> SUFFICES ASSUME Init PROVE IInv
  OBVIOUS
<1>1. IsHeap(heap) /\ DOMAIN heap = {}
  BY DEF Init, IsHeap
<1>2. Zero.active = 0 /\ Zero.allocs = 0 /\ Zero.frees = 0 /\ Zero \in Trackers
  BY ZeroTracker DEF Zero
<1>3. Good(tracker, heap)
  BY <1>1, <1>2, ZeroGood DEF Init
<1>4. hooks \in 0 .. MaxHooks
  BY MemoryCheckAssumption DEF Init
<1> QED
  BY <1>3, <1>4 DEF Init, init_report_policy, IInv

\* The allocator hands a block to the tracker.
LEMMA ObtainGood ==
    ASSUME NEW t, NEW h, Good(t, h), NEW p \in Ptr, p \notin DOMAIN h, NEW block \in Blocks,
           Obtain(t, h, p, block)
    PROVE  Good(tracker', heap')
  BY TrackGood DEF Obtain

LEMMA AllocateGood ==
    ASSUME NEW t, Good(t, heap), NEW p \in Ptr \cup {NULL}, NEW block \in Blocks,
           Allocate(t, p, block)
    PROVE  Good(tracker', heap')
<1>1. CASE p = NULL
  BY <1>1 DEF Allocate
<1>2. CASE p # NULL
  BY <1>2, ObtainGood DEF Allocate, Live
<1> QED
  BY <1>1, <1>2

LEMMA BlockType ==
    ASSUME NEW size \in Nat, NEW site \in Site \cup {NULL}
    PROVE  [size |-> size, site |-> site] \in Blocks
  BY DEF Blocks

\* find_slot returns no slot or the slot that holds the pointer.
LEMMA FoundSlot ==
    ASSUME NEW t, NEW h, Good(t, h), NEW p \in Ptr, find_slot(t.slots, p) # NoSlot,
           t.slots[find_slot(t.slots, p)].state # "FREED"
    PROVE  /\ find_slot(t.slots, p) \in Range0
           /\ t.slots[find_slot(t.slots, p)].ptr = p
           /\ t.slots[find_slot(t.slots, p)].state = "ACTIVE"
<1> DEFINE s == find_slot(t.slots, p)
<1>1. Shape(t.slots)
  BY DEF Good
<1>2. s \in Range0 /\ t.slots[s].ptr = p
  BY <1>1, FindFacts
<1>3. t.slots[s] \in Slots /\ (t.slots[s].state = "EMPTY" <=> t.slots[s].ptr = NULL)
  BY <1>1, <1>2 DEF Shape
<1>4. p # NULL
  BY MemoryCheckAssumption
<1> QED
  BY <1>2, <1>3, <1>4 DEF Slots

LEMMA AllocateStep ==
    ASSUME IInv, NEW size \in Nat, NEW site \in Site \cup {NULL}, malloc_site(size, site)
    PROVE  IInv'
<1>1. PICK ok \in BOOLEAN, p \in Ptr \cup {NULL} :
         Allocate(ensure_atexit_registered(tracker, ok), p, [size |-> size, site |-> site])
  BY DEF malloc_site
<1>2. Good(ensure_atexit_registered(tracker, ok), heap)
  BY RegisterGood DEF IInv
<1>3. Good(tracker', heap')
  BY <1>1, <1>2, AllocateGood, BlockType
<1> QED
  BY <1>3 DEF IInv, malloc_site

LEMMA ReallocStep ==
    ASSUME IInv, NEW p \in Ptr \cup {NULL}, NEW size \in Nat, NEW site \in Site \cup {NULL},
           realloc_site(p, size, site)
    PROVE  IInv'
<1> DEFINE block == [size |-> size, site |-> site]
<1>1. PICK ok \in BOOLEAN :
         LET t == ensure_atexit_registered(tracker, ok)
         IN  IF p = NULL THEN \E q \in Ptr \cup {NULL} : Allocate(t, q, block)
             ELSE LET s == find_slot(t.slots, p)
                  IN  IF s = NoSlot THEN tracker' = CountUnknown(t) /\ heap' = heap
                      ELSE IF t.slots[s].state = "FREED"
                      THEN tracker' = CountDouble(t) /\ heap' = heap
                      ELSE ReallocActive(t, p, s, block)
  BY DEF realloc_site
<1> DEFINE t == ensure_atexit_registered(tracker, ok)
           s == find_slot(t.slots, p)
<1>2. Good(t, heap)
  BY RegisterGood DEF IInv
<1>3. block \in Blocks
  BY BlockType
<1> HIDE DEF t, block
<1>4. CASE p = NULL
  <2>1. \E q \in Ptr \cup {NULL} : Allocate(t, q, block)
    BY <1>1, <1>4 DEF t
  <2> QED
    BY <1>2, <1>3, <2>1, AllocateGood DEF IInv, realloc_site
<1>5. CASE p # NULL /\ s = NoSlot
  <2>1. tracker' = CountUnknown(t) /\ heap' = heap
    BY <1>1, <1>5 DEF t
  <2> QED
    BY <1>2, <2>1, CountsGood DEF IInv, realloc_site
<1>6. CASE p # NULL /\ s # NoSlot /\ t.slots[s].state = "FREED"
  <2>1. tracker' = CountDouble(t) /\ heap' = heap
    BY <1>1, <1>6 DEF t
  <2> QED
    BY <1>2, <2>1, CountsGood DEF IInv, realloc_site
<1>7. CASE p # NULL /\ s # NoSlot /\ t.slots[s].state # "FREED"
  <2>1. ReallocActive(t, p, s, block)
    BY <1>1, <1>7 DEF t
  <2>2. s \in Range0 /\ t.slots[s].ptr = p /\ t.slots[s].state = "ACTIVE"
    BY <1>2, <1>7, FoundSlot
  <2> HIDE DEF s
  <2>3. CASE tracker' = t /\ heap' = heap
    BY <1>2, <2>3 DEF IInv, realloc_site
  <2>4. CASE \E q \in (Ptr \ Live) \cup {p} :
               Obtain(mark_released(t, s), HeapWithout(heap, p), q, block)
    <3>1. PICK q \in (Ptr \ Live) \cup {p} :
             Obtain(mark_released(t, s), HeapWithout(heap, p), q, block)
      BY <2>4
    <3>2. Good(mark_released(t, s), HeapWithout(heap, p))
      BY <1>2, <2>2, ReleaseGood
    <3>3. q \in Ptr /\ q \notin DOMAIN HeapWithout(heap, p)
      <4>1. IsHeap(heap)
        BY DEF IInv, Good
      <4>2. DOMAIN HeapWithout(heap, p) = DOMAIN heap \ {p}
        BY <4>1, WithoutFacts
      <4> QED
        BY <1>7, <4>2 DEF Live
    <3>4. Good(tracker', heap')
      BY <1>3, <3>1, <3>2, <3>3, ObtainGood
    <3> QED
      BY <3>4 DEF IInv, realloc_site
  <2> QED
    BY <2>1, <2>3, <2>4 DEF ReallocActive
<1> QED
  BY <1>4, <1>5, <1>6, <1>7

LEMMA FreeStep ==
    ASSUME IInv, NEW p \in Ptr \cup {NULL}, free_site(p)
    PROVE  IInv'
<1>1. PICK ok \in BOOLEAN :
         LET t == ensure_atexit_registered(tracker, ok)
         IN  IF p = NULL THEN tracker' = t /\ heap' = heap
             ELSE LET s == find_slot(t.slots, p)
                  IN  IF s = NoSlot THEN tracker' = CountUnknown(t) /\ heap' = heap
                      ELSE IF t.slots[s].state = "FREED"
                      THEN tracker' = CountDouble(t) /\ heap' = heap
                      ELSE tracker' = mark_released(t, s) /\ heap' = HeapWithout(heap, p)
  BY DEF free_site
<1> DEFINE t == ensure_atexit_registered(tracker, ok)
           s == find_slot(t.slots, p)
<1>2. Good(t, heap)
  BY RegisterGood DEF IInv
<1>3. \/ tracker' = t /\ heap' = heap
      \/ tracker' = CountUnknown(t) /\ heap' = heap
      \/ tracker' = CountDouble(t) /\ heap' = heap
      \/ /\ p # NULL /\ s # NoSlot /\ t.slots[s].state # "FREED"
         /\ tracker' = mark_released(t, s) /\ heap' = HeapWithout(heap, p)
  BY <1>1
<1> HIDE DEF t
<1>4. Good(tracker', heap')
  <2>1. CASE /\ p # NULL /\ s # NoSlot /\ t.slots[s].state # "FREED"
             /\ tracker' = mark_released(t, s) /\ heap' = HeapWithout(heap, p)
    <3>1. s \in Range0 /\ t.slots[s].ptr = p /\ t.slots[s].state = "ACTIVE"
      BY <1>2, <2>1, FoundSlot
    <3> QED
      BY <1>2, <2>1, <3>1, ReleaseGood
  <2> QED
    BY <1>2, <1>3, <2>1, CountsGood
<1> QED
  BY <1>4 DEF IInv, free_site

\* A report only moves the reported generation.
LEMMA ReportStep ==
    ASSUME IInv, NEW trigger, emit_report(trigger)
    PROVE  Good(tracker', heap)
<1>1. tracker \in Trackers /\ Good(tracker, heap)
  BY DEF IInv, Good
<1>2. tracker' = [tracker EXCEPT !.reported = tracker.generation]
  BY DEF emit_report
<1>3. tracker.generation \in Nat
  BY <1>1 DEF Trackers
<1>4. tracker' \in Trackers
  BY <1>1, <1>2, <1>3 DEF Trackers
<1>5. /\ tracker'.slots = tracker.slots /\ tracker'.active = tracker.active
      /\ tracker'.allocs = tracker.allocs /\ tracker'.frees = tracker.frees
  BY <1>1, <1>2 DEF Trackers
<1> QED
  BY <1>1, <1>4, <1>5, OtherCounts

LEMMA HookStep ==
    ASSUME IInv, CallHook
    PROVE  hooks' \in 0 .. MaxHooks /\ running \in BOOLEAN
<1>1. MaxHooks \in Nat
  BY MemoryCheckAssumption
<1> QED
  BY <1>1 DEF IInv, CallHook

LEMMA ResetStep ==
    ASSUME IInv, memcheck_reset
    PROVE  IInv'
<1>1. tracker \in Trackers /\ IsHeap(heap)
  BY DEF IInv, Good
<1>2. PICK b \in BOOLEAN : tracker' = [Zero EXCEPT !.registered = b]
  <2>1. tracker.registered \in BOOLEAN
    BY <1>1 DEF Trackers
  <2> QED
    BY <2>1 DEF memcheck_reset
<1>3. tracker' \in Trackers
  BY <1>2, ZeroTracker
<1>4. /\ tracker'.slots = Zero.slots /\ tracker'.active = 0
      /\ tracker'.allocs = 0 /\ tracker'.frees = 0
  BY <1>2 DEF Zero
<1>5. /\ DOMAIN heap' = DOMAIN heap
      /\ \A p \in DOMAIN heap : heap'[p] = [heap[p] EXCEPT !.tracked = FALSE]
  BY DEF memcheck_reset, Live
<1>6. \A p \in DOMAIN heap : heap[p] \in [block : Blocks, tracked : BOOLEAN]
  BY <1>1 DEF IsHeap
<1>7. \A p \in DOMAIN heap : /\ heap'[p] \in [block : Blocks, tracked : BOOLEAN]
                             /\ ~heap'[p].tracked
  BY <1>5, <1>6
<1>8. IsHeap(heap')
  BY <1>1, <1>5, <1>7 DEF IsHeap, memcheck_reset, Live
<1>9. Good(tracker', heap')
  BY <1>3, <1>4, <1>5, <1>7, <1>8, ZeroGood
<1> QED
  BY <1>9, HookStep DEF memcheck_reset, IInv

\* Code without instrumentation does not touch a block that is tracked.
LEMMA ForeignStep ==
    ASSUME IInv, NEW p \in Foreign, ForeignAllocate(p) \/ ForeignRelease(p)
    PROVE  IInv'
<1>1. Good(tracker, heap) /\ IsHeap(heap) /\ Tracks(tracker.slots, heap)
  BY DEF IInv, Good
<1>2. p \in Ptr
  BY MemoryCheckAssumption
<1>3. IsHeap(heap') /\ Tracks(tracker.slots, heap')
  <2>1. CASE ForeignAllocate(p)
    <3>1. /\ p \notin DOMAIN heap
          /\ heap' = [q \in DOMAIN heap \cup {p} |->
                        IF q = p THEN [block |-> NoBlock, tracked |-> FALSE] ELSE heap[q]]
      BY <2>1 DEF ForeignAllocate, HeapWith, Live
    <3>2. /\ DOMAIN heap' = DOMAIN heap \cup {p}
          /\ heap'[p] = [block |-> NoBlock, tracked |-> FALSE]
          /\ \A q \in DOMAIN heap : heap'[q] = heap[q]
      BY <3>1
    <3>3. [block |-> NoBlock, tracked |-> FALSE] \in [block : Blocks, tracked : BOOLEAN]
      BY DEF NoBlock, Blocks
    <3>4. IsHeap(heap')
      BY <1>1, <1>2, <3>1, <3>3 DEF IsHeap
    <3>5. ~heap'[p].tracked
      BY <3>2
    <3> QED
      BY <1>1, <3>2, <3>4, <3>5 DEF Tracks
  <2>2. CASE ForeignRelease(p)
    <3>1. ~heap[p].tracked /\ heap' = HeapWithout(heap, p)
      BY <2>2 DEF ForeignRelease
    <3>2. /\ IsHeap(heap') /\ DOMAIN heap' = DOMAIN heap \ {p}
          /\ \A q \in DOMAIN heap \ {p} : heap'[q] = heap[q]
      BY <1>1, <3>1, WithoutFacts
    <3>3. ASSUME NEW s \in ActiveSlots(tracker.slots) PROVE tracker.slots[s].ptr # p
      <4>1. heap[tracker.slots[s].ptr] = [block |-> tracker.slots[s].block, tracked |-> TRUE]
        BY <1>1, <3>3 DEF Tracks
      <4>2. heap[tracker.slots[s].ptr].tracked
        BY <4>1
      <4> QED
        BY <3>1, <4>2
    <3> QED
      BY <1>1, <3>2, <3>3 DEF Tracks
  <2> QED
    BY <2>1, <2>2
<1>4. UNCHANGED <<tracker, policy, hooks, running>>
  BY DEF ForeignAllocate, ForeignRelease
<1>5. Good(tracker', heap')
  BY <1>1, <1>3, <1>4 DEF Good
<1> QED
  BY <1>4, <1>5 DEF IInv

LEMMA NextGood == IInv /\ [Next]_vars => IInv'
<1> SUFFICES ASSUME IInv, [Next]_vars PROVE IInv'
  OBVIOUS
<1>1. ASSUME NEW r \in Request, malloc_site(r.size, r.site) PROVE IInv'
  BY <1>1, AllocateStep, MemoryCheckAssumption
<1>2. ASSUME NEW r \in Request, NEW count \in {0, 1}, calloc_site(count, r.size, r.site)
      PROVE  IInv'
  <2>1. count * r.size \in Nat /\ r.site \in Site \cup {NULL}
    BY MemoryCheckAssumption
  <2> QED
    BY <1>2, <2>1, AllocateStep DEF calloc_site
<1>3. ASSUME NEW r \in Request, NEW p \in Ptr \cup {NULL}, realloc_site(p, r.size, r.site)
      PROVE  IInv'
  BY <1>3, ReallocStep, MemoryCheckAssumption
<1>4. ASSUME NEW p \in Ptr \cup {NULL}, free_site(p) PROVE IInv'
  BY <1>4, FreeStep
<1>5. ASSUME NEW p \in Foreign, ForeignAllocate(p) \/ ForeignRelease(p) PROVE IInv'
  BY <1>5, ForeignStep
<1>6. CASE memcheck_report
  <2>1. Good(tracker', heap)
    BY <1>6, ReportStep DEF memcheck_report
  <2> QED
    BY <1>6, <2>1, HookStep DEF memcheck_report, IInv
<1>7. CASE memcheck_reset
  BY <1>7, ResetStep
<1>8. CASE Exit
  <2>1. Good(tracker', heap)
    <3>1. CASE emit_report("atexit")
      BY <3>1, ReportStep
    <3>2. CASE UNCHANGED <<report, tracker>>
      BY <3>2 DEF IInv
    <3> QED
      BY <1>8, <3>1, <3>2 DEF Exit, report_at_exit
  <2> QED
    BY <1>8, <2>1 DEF Exit, IInv
<1>9. CASE UNCHANGED vars
  BY <1>9 DEF vars, IInv
<1> QED
  BY <1>1, <1>2, <1>3, <1>4, <1>5, <1>6, <1>7, <1>8, <1>9 DEF Next

-------------------------------------------------------------------------------
(***************************************************************************)
(* The theorems.                                                           *)
(***************************************************************************)
LEMMA Invariance == Spec => []IInv
  BY InitGood, NextGood, PTL DEF Spec

\* The statics keep their types in every run of the program.
THEOREM TypeCorrect == Spec => []TypeOK
<1>1. IInv => TypeOK
  BY DEF IInv, Good, Shape, TypeOK
<1> QED
  BY <1>1, Invariance, PTL

\* The active slots are the live blocks handed to the tracker, whatever the
\* addresses, the hash and the capacity: free_site and realloc_site hand to
\* the allocator only blocks that are live.
THEOREM TracksCorrect == Spec => []TracksLiveBlocks
<1>1. IInv => TracksLiveBlocks
  BY DEF IInv, Good, TracksLiveBlocks
<1> QED
  BY <1>1, Invariance, PTL

\* find_slot finds every pointer that a slot holds, and no other.
THEOREM FindsCorrect == Spec => []FindsExactly
<1>1. ASSUME IInv PROVE FindsExactly
  <2>1. Shape(tracker.slots)
    BY <1>1 DEF IInv, Good
  <2>2. ASSUME NEW p \in Ptr
        PROVE  LET holding == {s \in Range0 : tracker.slots[s].ptr = p}
               IN  IF holding = {} THEN find_slot(tracker.slots, p) = NoSlot
                   ELSE holding = {find_slot(tracker.slots, p)}
    <3> DEFINE f == find_slot(tracker.slots, p)
               holding == {s \in Range0 : tracker.slots[s].ptr = p}
    <3>1. \/ f = NoSlot /\ \A r \in Range0 : tracker.slots[r].ptr # p
          \/ f \in Range0 /\ tracker.slots[f].ptr = p
      BY <2>1, FindFacts
    <3>2. p # NULL
      BY MemoryCheckAssumption
    <3>3. \A s, r \in Range0 :
            tracker.slots[s].ptr # NULL /\ tracker.slots[s].ptr = tracker.slots[r].ptr => s = r
      BY <2>1 DEF Shape
    <3> HIDE DEF f
    <3>4. CASE f = NoSlot /\ \A r \in Range0 : tracker.slots[r].ptr # p
      BY <3>4 DEF f
    <3>5. CASE f \in Range0 /\ tracker.slots[f].ptr = p
      <4>1. holding = {f}
        BY <3>2, <3>3, <3>5
      <4> QED
        BY <4>1 DEF f
    <3> QED
      BY <3>1, <3>4, <3>5
  <2> QED
    BY <2>2 DEF FindsExactly
<1> QED
  BY <1>1, Invariance, PTL

\* The counts that emit_report prints agree with the table.
THEOREM CountsCorrect == Spec => []CountsBalance
<1>1. IInv => CountsBalance
  BY DEF IInv, Good, CountsBalance
<1> QED
  BY <1>1, Invariance, PTL

\* The slots of t and of u differ, at a released slot of t, only when t has
\* no empty slot.
Remembers(old, new) ==
    \A s \in Range0 : old[s].state = "FREED" /\ new[s].ptr # old[s].ptr
                      => \A r \in Range0 : old[r].state # "EMPTY"

LEMMA TrackRemembers ==
    ASSUME NEW t, NEW h, Good(t, h), NEW p \in Ptr, NEW block
    PROVE  Remembers(t.slots, track_allocation(t, p, block).slots)
<1> DEFINE s == find_insert_slot(t.slots, p)
           v == [ptr |-> p, state |-> "ACTIVE", block |-> block]
<1>1. t \in Trackers /\ Shape(t.slots)
  BY DEF Good
<1>2. CASE s = NoSlot
  <2>1. track_allocation(t, p, block).slots = t.slots
    BY <1>1, <1>2 DEF track_allocation, CountFailure, Trackers
  <2> QED
    BY <2>1 DEF Remembers
<1>3. CASE s # NoSlot
  <2>1. track_allocation(t, p, block).slots = [t.slots EXCEPT ![s] = v]
    BY <1>1, <1>3 DEF track_allocation, Trackers
  <2>2. s \in Range0
        /\ (t.slots[s].ptr \notin {p, NULL} => \A r \in Range0 : t.slots[r].state # "EMPTY")
    BY <1>1, <1>3, InsertFacts
  <2>3. t.slots \in [Range0 -> Slots]
        /\ \A r \in Range0 : t.slots[r].state = "EMPTY" <=> t.slots[r].ptr = NULL
    BY <1>1 DEF Shape
  <2> HIDE DEF s
  <2>4. ASSUME NEW r \in Range0, t.slots[r].state = "FREED",
               [t.slots EXCEPT ![s] = v][r].ptr # t.slots[r].ptr
        PROVE  \A q \in Range0 : t.slots[q].state # "EMPTY"
    <3>1. r = s /\ t.slots[s].ptr # p
      BY <2>2, <2>3, <2>4
    <3>2. t.slots[s].ptr # NULL
      BY <2>2, <2>3, <2>4, <3>1
    <3> QED
      BY <2>2, <3>1, <3>2
  <2> QED
    BY <2>1, <2>4 DEF Remembers
<1> QED
  BY <1>2, <1>3

\* Releasing a block moves no pointer.
LEMMA ReleasedSlots ==
    ASSUME NEW t \in Trackers, NEW s \in Range0, t.slots[s].state = "ACTIVE"
    PROVE  /\ \A r \in Range0 : mark_released(t, s).slots[r].ptr = t.slots[r].ptr
           /\ \A r \in Range0 : t.slots[r].state # "ACTIVE"
                                => mark_released(t, s).slots[r].state = t.slots[r].state
<1> DEFINE v == [t.slots[s] EXCEPT !.state = "FREED", !.block = NoBlock]
<1>1. mark_released(t, s).slots = [t.slots EXCEPT ![s] = v]
  BY DEF mark_released, Trackers
<1>2. t.slots \in [Range0 -> Slots]
  BY DEF Trackers
<1>3. v.ptr = t.slots[s].ptr
  BY <1>2 DEF Slots
<1> HIDE DEF v
<1> QED
  BY <1>1, <1>2, <1>3

LEMMA CountsSlots ==
    ASSUME NEW t \in Trackers
    PROVE  CountUnknown(t).slots = t.slots /\ CountDouble(t).slots = t.slots
  BY DEF CountUnknown, CountDouble, Trackers

LEMMA AllocateRemembers ==
    ASSUME NEW t, Good(t, heap), t.slots = tracker.slots, NEW p \in Ptr \cup {NULL},
           NEW block, Allocate(t, p, block)
    PROVE  Remembers(tracker.slots, tracker'.slots)
<1>1. CASE p = NULL
  <2>1. tracker'.slots = tracker.slots
    BY <1>1 DEF Allocate
  <2> QED
    BY <2>1 DEF Remembers
<1>2. CASE p # NULL
  <2>1. tracker' = track_allocation(t, p, block)
    BY <1>2 DEF Allocate, Obtain
  <2> QED
    BY <1>2, <2>1, TrackRemembers
<1> QED
  BY <1>1, <1>2

LEMMA MallocRemembers ==
    ASSUME IInv, NEW size, NEW site, malloc_site(size, site)
    PROVE  Remembers(tracker.slots, tracker'.slots)
<1>1. PICK ok \in BOOLEAN, p \in Ptr \cup {NULL} :
         Allocate(ensure_atexit_registered(tracker, ok), p, [size |-> size, site |-> site])
  BY DEF malloc_site
<1> QED
  BY <1>1, AllocateRemembers, RegisterGood DEF IInv

\* realloc moves a block: the old slot is released, and then the new pointer
\* is inserted.
LEMMA MoveRemembers ==
    ASSUME NEW t, Good(t, heap), NEW p \in Ptr, NEW s \in Range0, NEW block \in Blocks,
           t.slots[s].ptr = p, t.slots[s].state = "ACTIVE",
           NEW q \in (Ptr \ Live) \cup {p}
    PROVE  Remembers(t.slots, track_allocation(mark_released(t, s), q, block).slots)
<1> DEFINE u == mark_released(t, s)
<1>1. Good(u, HeapWithout(heap, p))
  BY ReleaseGood
<1>2. Remembers(u.slots, track_allocation(u, q, block).slots)
  BY <1>1, TrackRemembers
<1>3. /\ \A r \in Range0 : u.slots[r].ptr = t.slots[r].ptr
      /\ \A r \in Range0 : t.slots[r].state # "ACTIVE" => u.slots[r].state = t.slots[r].state
  BY ReleasedSlots DEF Good
<1> HIDE DEF u
<1> QED
  BY <1>2, <1>3 DEF Remembers, u

LEMMA ReallocRemembers ==
    ASSUME IInv, NEW p \in Ptr \cup {NULL}, NEW size \in Nat, NEW site \in Site \cup {NULL},
           realloc_site(p, size, site)
    PROVE  Remembers(tracker.slots, tracker'.slots)
<1> DEFINE block == [size |-> size, site |-> site]
<1>1. PICK ok \in BOOLEAN :
         LET t == ensure_atexit_registered(tracker, ok)
         IN  IF p = NULL THEN \E q \in Ptr \cup {NULL} : Allocate(t, q, block)
             ELSE LET s == find_slot(t.slots, p)
                  IN  IF s = NoSlot THEN tracker' = CountUnknown(t) /\ heap' = heap
                      ELSE IF t.slots[s].state = "FREED"
                      THEN tracker' = CountDouble(t) /\ heap' = heap
                      ELSE ReallocActive(t, p, s, block)
  BY DEF realloc_site
<1> DEFINE t == ensure_atexit_registered(tracker, ok)
           s == find_slot(t.slots, p)
<1>2. Good(t, heap) /\ t.slots = tracker.slots
  BY RegisterGood DEF IInv
<1>3. block \in Blocks
  BY BlockType
<1>4. \/ p = NULL /\ \E q \in Ptr \cup {NULL} : Allocate(t, q, block)
      \/ tracker' = CountUnknown(t)
      \/ tracker' = CountDouble(t)
      \/ p # NULL /\ s # NoSlot /\ t.slots[s].state # "FREED" /\ ReallocActive(t, p, s, block)
  BY <1>1
<1> HIDE DEF t, block
<1>5. CASE \E q \in Ptr \cup {NULL} : Allocate(t, q, block)
  BY <1>2, <1>5, AllocateRemembers
<1>6. CASE tracker' = CountUnknown(t) \/ tracker' = CountDouble(t)
  <2>1. tracker'.slots = tracker.slots
    BY <1>2, <1>6, CountsSlots DEF Good
  <2> QED
    BY <2>1 DEF Remembers
<1>7. CASE p # NULL /\ s # NoSlot /\ t.slots[s].state # "FREED" /\ ReallocActive(t, p, s, block)
  <2>1. s \in Range0 /\ t.slots[s].ptr = p /\ t.slots[s].state = "ACTIVE"
    BY <1>2, <1>7, FoundSlot
  <2> HIDE DEF s
  <2>2. CASE tracker' = t
    BY <1>2, <2>2 DEF Remembers
  <2>3. CASE \E q \in (Ptr \ Live) \cup {p} :
               Obtain(mark_released(t, s), HeapWithout(heap, p), q, block)
    <3>1. PICK q \in (Ptr \ Live) \cup {p} :
             tracker' = track_allocation(mark_released(t, s), q, block)
      BY <2>3 DEF Obtain
    <3> QED
      BY <1>2, <1>3, <1>7, <2>1, <3>1, MoveRemembers
  <2> QED
    BY <1>7, <2>2, <2>3 DEF ReallocActive
<1> QED
  BY <1>4, <1>5, <1>6, <1>7

LEMMA FreeRemembers ==
    ASSUME IInv, NEW p \in Ptr \cup {NULL}, free_site(p)
    PROVE  Remembers(tracker.slots, tracker'.slots)
<1>1. PICK ok \in BOOLEAN :
         LET t == ensure_atexit_registered(tracker, ok)
         IN  IF p = NULL THEN tracker' = t /\ heap' = heap
             ELSE LET s == find_slot(t.slots, p)
                  IN  IF s = NoSlot THEN tracker' = CountUnknown(t) /\ heap' = heap
                      ELSE IF t.slots[s].state = "FREED"
                      THEN tracker' = CountDouble(t) /\ heap' = heap
                      ELSE tracker' = mark_released(t, s) /\ heap' = HeapWithout(heap, p)
  BY DEF free_site
<1> DEFINE t == ensure_atexit_registered(tracker, ok)
           s == find_slot(t.slots, p)
<1>2. Good(t, heap) /\ t.slots = tracker.slots
  BY RegisterGood DEF IInv
<1>3. \/ tracker' = t
      \/ tracker' = CountUnknown(t)
      \/ tracker' = CountDouble(t)
      \/ /\ p # NULL /\ s # NoSlot /\ t.slots[s].state # "FREED"
         /\ tracker' = mark_released(t, s)
  BY <1>1
<1> HIDE DEF t
<1>4. CASE tracker' = t \/ tracker' = CountUnknown(t) \/ tracker' = CountDouble(t)
  <2>1. tracker'.slots = tracker.slots
    BY <1>2, <1>4, CountsSlots DEF Good
  <2> QED
    BY <2>1 DEF Remembers
<1>5. CASE /\ p # NULL /\ s # NoSlot /\ t.slots[s].state # "FREED"
           /\ tracker' = mark_released(t, s)
  <2>1. s \in Range0 /\ t.slots[s].ptr = p /\ t.slots[s].state = "ACTIVE"
    BY <1>2, <1>5, FoundSlot
  <2>2. \A r \in Range0 : tracker'.slots[r].ptr = tracker.slots[r].ptr
    <3>1. t \in Trackers
      BY <1>2 DEF Good
    <3> HIDE DEF s
    <3>2. \A r \in Range0 : mark_released(t, s).slots[r].ptr = t.slots[r].ptr
      BY <2>1, <3>1, ReleasedSlots
    <3> QED
      BY <1>2, <1>5, <3>2
  <2> QED
    BY <2>2 DEF Remembers
<1> QED
  BY <1>3, <1>4, <1>5

\* A released pointer is forgotten only when no slot is empty, or by the
\* reset: as long as the table is not full, a second free of the same pointer
\* is called a double free and not an unknown pointer.
THEOREM RemembersCorrect == Spec => RemembersFreed
<1> DEFINE Kept == \A s \in Range0 :
             tracker.slots[s].state = "FREED" /\ tracker'.slots[s].ptr # tracker.slots[s].ptr
             => \/ \A r \in Range0 : tracker.slots[r].state # "EMPTY"
                \/ tracker' = [Zero EXCEPT !.registered = tracker.registered]
<1>1. ASSUME IInv, [Next]_vars PROVE [Kept]_vars
  <2>1. Remembers(tracker.slots, tracker'.slots) => Kept
    BY DEF Remembers
  <2>2. memcheck_reset => Kept
    BY DEF memcheck_reset
  <2> HIDE DEF Kept
  <2>3. ASSUME NEW r \in Request
        PROVE  r.size \in Nat /\ r.site \in Site \cup {NULL}
    BY MemoryCheckAssumption
  <2>4. ASSUME NEW r \in Request,
               \/ malloc_site(r.size, r.site)
               \/ \E count \in {0, 1} : calloc_site(count, r.size, r.site)
        PROVE  Kept
    BY <1>1, <2>1, <2>4, MallocRemembers DEF calloc_site
  <2>5. ASSUME NEW r \in Request, NEW p \in Ptr \cup {NULL}, realloc_site(p, r.size, r.site)
        PROVE  Kept
    BY <1>1, <2>1, <2>3, <2>5, ReallocRemembers
  <2>6. ASSUME NEW p \in Ptr \cup {NULL}, free_site(p) PROVE Kept
    BY <1>1, <2>1, <2>6, FreeRemembers
  <2>7. ASSUME tracker'.slots = tracker.slots PROVE Kept
    BY <2>1, <2>7 DEF Remembers
  <2>8. ASSUME NEW p \in Foreign, ForeignAllocate(p) \/ ForeignRelease(p) PROVE Kept
    BY <2>7, <2>8 DEF ForeignAllocate, ForeignRelease
  <2>9. CASE memcheck_report \/ Exit
    <3>1. tracker \in Trackers
      BY <1>1 DEF IInv, Good
    <3>2. \/ tracker' = [tracker EXCEPT !.reported = tracker.generation]
          \/ tracker' = tracker
      BY <2>9 DEF memcheck_report, Exit, report_at_exit, emit_report
    <3>3. tracker'.slots = tracker.slots
      BY <3>1, <3>2 DEF Trackers
    <3> QED
      BY <2>7, <3>3
  <2> QED
    BY <1>1, <2>2, <2>4, <2>5, <2>6, <2>8, <2>9 DEF Next
<1>2. [Kept]_vars => [\A s \in Range0 :
         tracker.slots[s].state = "FREED" /\ tracker'.slots[s].ptr # tracker.slots[s].ptr
         => \/ \A r \in Range0 : tracker.slots[r].state # "EMPTY"
            \/ tracker' = [Zero EXCEPT !.registered = tracker.registered]]_vars
  OBVIOUS
<1> HIDE DEF Kept
<1> QED
  BY <1>1, <1>2, Invariance, PTL DEF Spec, RemembersFreed
-------------------------------------------------------------------------------
(***************************************************************************)
(* The last report.  report_at_exit prints nothing when the generation has *)
(* not moved since the last report, so the invariant has to say that the   *)
(* last report then still shows the counts and the table, although a call  *)
(* may register the handler without moving the generation, and that a      *)
(* tracker that has seen no event since the reset has nothing to report.   *)
(***************************************************************************)
Shows(r, t) ==
    /\ r # NoReport
    /\ r.summary = Summary(t)
    /\ r.leaks \in {{}, r.json}
    /\ r.json = emit_leak_sites(t.slots)

Counters(t) == <<t.allocs, t.frees, t.doubles, t.unknowns, t.failures>>

\* No event was counted.
Untouched(t) ==
    /\ Counters(t) = <<0, 0, 0, 0, 0>>
    /\ ActiveSlots(t.slots) = {}

ReportInv ==
    /\ tracker.reported <= tracker.generation
    /\ tracker.generation = 0 => Untouched(tracker)
    /\ tracker.reported = tracker.generation => Untouched(tracker) \/ Shows(report, tracker)
    /\ ~running /\ tracker.registered /\ should_emit_report(tracker) => Shows(report, tracker)

\* What the statics may do in a wrapper: the generation moves, or nothing
\* that a report shows does.
Advances(t, u) ==
    /\ u.reported = t.reported
    /\ \/ u.generation > t.generation
       \/ /\ u.generation = t.generation /\ u.slots = t.slots
          /\ u.active = t.active /\ Counters(u) = Counters(t)

LEMMA AdvancesTwice ==
    ASSUME NEW t \in Trackers, NEW u \in Trackers, NEW v \in Trackers,
           Advances(t, u), Advances(u, v)
    PROVE  Advances(t, v)
  BY DEF Advances, Trackers

\* A sum over no slots is zero.
LEMMA NothingLeaked ==
    ASSUME NEW slots, ActiveSlots(slots) = {} PROVE compute_leaked_bytes(slots) = 0
<1> DEFINE size(s) == slots[s].block.size
           pick(s) == CHOOSE x \in s : TRUE
           Sums(f) == f = [s \in SUBSET {} |-> IF s = {} THEN 0
                                               ELSE size(pick(s)) + f[s \ {pick(s)}]]
           iter == CHOOSE f : Sums(f)
<1>1. compute_leaked_bytes(slots) = iter[{}]
  BY DEF compute_leaked_bytes, MapThenSumSet, MapThenFoldSet
<1> HIDE DEF size, pick
<1>2. Sums([s \in SUBSET {} |-> 0])
  OBVIOUS
<1> HIDE DEF Sums
<1>3. Sums(iter)
  BY <1>2
<1> HIDE DEF iter
<1>4. iter[{}] = 0
  BY <1>3 DEF Sums
<1> QED
  BY <1>1, <1>4

\* Every operation on the statics moves the generation, or changes nothing
\* that is reported.
LEMMA OperationsAdvance ==
    ASSUME NEW t \in Trackers
    PROVE  /\ Advances(t, t)
           /\ Advances(t, CountUnknown(t)) /\ Advances(t, CountDouble(t))
           /\ Advances(t, CountFailure(t))
           /\ \A ok \in BOOLEAN : Advances(t, ensure_atexit_registered(t, ok))
           /\ \A p, block : Advances(t, track_allocation(t, p, block))
           /\ \A s : Advances(t, mark_released(t, s))
<1>1. /\ Advances(t, t) /\ Advances(t, CountUnknown(t)) /\ Advances(t, CountDouble(t))
      /\ Advances(t, CountFailure(t))
  BY DEF Advances, CountUnknown, CountDouble, CountFailure, Trackers, Counters
<1>2. ASSUME NEW ok \in BOOLEAN PROVE Advances(t, ensure_atexit_registered(t, ok))
  <2>1. Advances(t, [t EXCEPT !.registered = TRUE])
    BY DEF Advances, Trackers, Counters
  <2> QED
    BY <1>1, <2>1 DEF ensure_atexit_registered
<1>3. ASSUME NEW p, NEW block PROVE Advances(t, track_allocation(t, p, block))
  <2> DEFINE s == find_insert_slot(t.slots, p)
             u == [t EXCEPT !.slots[s] = [ptr |-> p, state |-> "ACTIVE", block |-> block],
                            !.active = IF t.slots[s].state = "ACTIVE" THEN @ ELSE @ + 1,
                            !.allocs = @ + 1,
                            !.generation = @ + 1]
  <2>1. track_allocation(t, p, block) \in {u, CountFailure(t)}
    BY DEF track_allocation
  <2> HIDE DEF s
  <2>2. u.generation > t.generation /\ u.reported = t.reported
    BY DEF Trackers
  <2> HIDE DEF u
  <2> QED
    BY <1>1, <2>1, <2>2 DEF Advances
<1>4. ASSUME NEW s PROVE Advances(t, mark_released(t, s))
  BY DEF Advances, mark_released, Trackers
<1> QED
  BY <1>1, <1>2, <1>3, <1>4

LEMMA AllocateAdvances ==
    ASSUME NEW t, Good(t, heap), Advances(tracker, t), tracker \in Trackers, tracker' \in Trackers,
           NEW p, NEW block, Allocate(t, p, block)
    PROVE  Advances(tracker, tracker')
<1>1. t \in Trackers
  BY DEF Good
<1>2. tracker' = t \/ tracker' = track_allocation(t, p, block)
  BY DEF Allocate, Obtain
<1>3. Advances(t, tracker')
  BY <1>1, <1>2, OperationsAdvance
<1> QED
  BY <1>1, <1>3, AdvancesTwice

LEMMA WrapperAdvances ==
    ASSUME IInv, IInv', NEW p \in Ptr \cup {NULL}, NEW size \in Nat, NEW site \in Site \cup {NULL},
           malloc_site(size, site) \/ realloc_site(p, size, site) \/ free_site(p)
    PROVE  Advances(tracker, tracker')
<1> DEFINE block == [size |-> size, site |-> site]
           T(ok) == ensure_atexit_registered(tracker, ok)
<1>1. tracker \in Trackers /\ tracker' \in Trackers
  BY DEF IInv, Good
<1>2. PICK ok \in BOOLEAN :
         \/ \E q \in Ptr \cup {NULL} : Allocate(T(ok), q, block)
         \/ tracker' \in {T(ok), CountUnknown(T(ok)), CountDouble(T(ok))}
         \/ p # NULL /\ ReallocActive(T(ok), p, find_slot(T(ok).slots, p), block)
            /\ find_slot(T(ok).slots, p) # NoSlot
            /\ T(ok).slots[find_slot(T(ok).slots, p)].state # "FREED"
         \/ \E s : tracker' = mark_released(T(ok), s)
  <2>1. CASE malloc_site(size, site)
    BY <2>1 DEF malloc_site
  <2>2. CASE realloc_site(p, size, site)
    BY <2>2 DEF realloc_site
  <2>3. CASE free_site(p)
    BY <2>3 DEF free_site
  <2> QED
    BY <2>1, <2>2, <2>3
<1> DEFINE t == T(ok)
<1>3. Good(t, heap) /\ t \in Trackers
  BY RegisterGood DEF IInv, Good
<1>4. Advances(tracker, t)
  BY <1>1, OperationsAdvance
<1>5. block \in Blocks
  BY BlockType
<1> HIDE DEF t, block
<1>6. CASE \E q \in Ptr \cup {NULL} : Allocate(t, q, block)
  BY <1>1, <1>3, <1>4, <1>6, AllocateAdvances
<1>7. ASSUME Advances(t, tracker') PROVE Advances(tracker, tracker')
  BY <1>1, <1>3, <1>4, <1>7, AdvancesTwice
<1>8. CASE tracker' \in {t, CountUnknown(t), CountDouble(t)} \/ \E s : tracker' = mark_released(t, s)
  BY <1>3, <1>7, <1>8, OperationsAdvance
<1>9. CASE /\ p # NULL /\ ReallocActive(t, p, find_slot(t.slots, p), block)
           /\ find_slot(t.slots, p) # NoSlot
           /\ t.slots[find_slot(t.slots, p)].state # "FREED"
  <2> DEFINE s == find_slot(t.slots, p)
             u == mark_released(t, s)
  <2>1. s \in Range0 /\ t.slots[s].ptr = p /\ t.slots[s].state = "ACTIVE"
    BY <1>3, <1>9, FoundSlot
  <2>2. Good(u, HeapWithout(heap, p))
    BY <1>3, <1>9, <2>1, ReleaseGood
  <2>3. u \in Trackers
    BY <2>2 DEF Good
  <2>4. tracker' = t \/ \E q : tracker' = track_allocation(u, q, block)
    BY <1>9 DEF ReallocActive, Obtain
  <2>5. Advances(t, u)
    BY <1>3, OperationsAdvance
  <2> HIDE DEF u
  <2>6. ASSUME NEW q, tracker' = track_allocation(u, q, block) PROVE Advances(t, tracker')
    <3>1. Advances(u, tracker')
      BY <2>3, <2>6, OperationsAdvance
    <3> QED
      BY <1>1, <1>3, <2>3, <2>5, <3>1, AdvancesTwice
  <2> QED
    BY <1>3, <1>7, <2>4, <2>6, OperationsAdvance
<1> QED
  BY <1>2, <1>6, <1>8, <1>9 DEF t

\* Trackers that agree on what is reported have the same report.
LEMMA ShowsSame ==
    ASSUME NEW t, NEW u, NEW r, u.slots = t.slots, u.active = t.active, Counters(u) = Counters(t)
    PROVE  /\ Shows(r, t) => Shows(r, u)
           /\ Untouched(t) => Untouched(u)
  BY DEF Shows, Untouched, Counters, Summary

LEMMA AdvanceKeepsReport ==
    ASSUME IInv, ReportInv, IInv', Advances(tracker, tracker'), running,
           UNCHANGED <<report, running>>
    PROVE  ReportInv'
<1>1. tracker \in Trackers /\ tracker' \in Trackers
  BY DEF IInv, Good
<1>2. /\ tracker.generation \in Nat /\ tracker'.generation \in Nat
      /\ tracker.reported \in Nat
  BY <1>1 DEF Trackers
<1>3. CASE tracker'.generation > tracker.generation
  BY <1>2, <1>3 DEF ReportInv, Advances
<1>4. CASE /\ tracker'.generation = tracker.generation /\ tracker'.slots = tracker.slots
           /\ tracker'.active = tracker.active /\ Counters(tracker') = Counters(tracker)
  <2>1. tracker'.reported = tracker.reported
    BY DEF Advances
  <2>2. /\ Shows(report, tracker) => Shows(report, tracker')
        /\ Untouched(tracker) => Untouched(tracker')
    BY <1>4, ShowsSame
  <2> QED
    BY <1>4, <2>1, <2>2 DEF ReportInv
<1> QED
  BY <1>3, <1>4 DEF Advances

\* emit_report shows the statics, and puts the generation down as reported.
LEMMA EmitShows ==
    ASSUME IInv, NEW trigger \in {"manual", "atexit"}, emit_report(trigger)
    PROVE  /\ Shows(report', tracker')
           /\ tracker'.reported = tracker.generation
           /\ tracker'.generation = tracker.generation
           /\ Untouched(tracker) => Untouched(tracker')
<1>1. tracker \in Trackers
  BY DEF IInv, Good
<1>2. tracker' = [tracker EXCEPT !.reported = tracker.generation]
  BY DEF emit_report
<1>3. /\ tracker'.slots = tracker.slots /\ tracker'.active = tracker.active
      /\ Counters(tracker') = Counters(tracker)
      /\ tracker'.reported = tracker.generation /\ tracker'.generation = tracker.generation
  BY <1>1, <1>2 DEF Trackers, Counters
<1>4. /\ report'.summary = Summary(tracker)
      /\ report'.trigger = trigger
      /\ report'.json = emit_leak_sites(tracker.slots)
      /\ report'.leaks \in {emit_leak_sites(tracker.slots), {}}
  BY DEF emit_report, emit_json_report
<1>5. report' # NoReport
  BY <1>4 DEF NoReport
<1>6. Shows(report', tracker)
  BY <1>4, <1>5 DEF Shows
<1> QED
  BY <1>3, <1>6, ShowsSame

\* A tracker that saw no event has nothing to report, under every policy.
LEMMA UntouchedSilent ==
    ASSUME IInv, Untouched(tracker) PROVE ~should_emit_report(tracker)
<1>1. compute_leaked_bytes(tracker.slots) = 0
  BY NothingLeaked DEF Untouched
<1>2. /\ tracker.allocs = 0 /\ tracker.frees = 0 /\ tracker.doubles = 0
      /\ tracker.unknowns = 0 /\ tracker.failures = 0
  BY DEF Untouched, Counters
<1>3. policy \in {"always", "errors", "leaks", "never"}
  BY MemoryCheckAssumption DEF IInv
<1>4. /\ ~HasErrors(tracker) /\ ~(compute_leaked_bytes(tracker.slots) > 0)
      /\ ~(tracker.allocs > 0) /\ ~(tracker.frees > 0)
  BY <1>1, <1>2 DEF HasErrors
<1> QED
  BY <1>3, <1>4 DEF should_emit_report

LEMMA NothingActive == ActiveSlots([s \in Range0 |-> EmptySlot]) = {}
<1>1. EmptySlot.state # "ACTIVE"
  BY DEF EmptySlot
<1> QED
  BY <1>1 DEF ActiveSlots

LEMMA NextReports == IInv /\ IInv' /\ ReportInv /\ [Next]_vars => ReportInv'
<1> SUFFICES ASSUME IInv, IInv', ReportInv, [Next]_vars PROVE ReportInv'
  OBVIOUS
<1>1. tracker \in Trackers /\ tracker' \in Trackers
  BY DEF IInv, Good
<1>2. NULL \in Ptr \cup {NULL}
  OBVIOUS
<1>3. ASSUME NEW p \in Ptr \cup {NULL}, NEW size \in Nat, NEW site \in Site \cup {NULL},
             malloc_site(size, site) \/ realloc_site(p, size, site) \/ free_site(p)
      PROVE  ReportInv'
  <2>1. running /\ UNCHANGED <<report, running>>
    BY <1>3 DEF malloc_site, realloc_site, free_site, Running
  <2> QED
    BY <1>3, <2>1, WrapperAdvances, AdvanceKeepsReport
<1>4. ASSUME NEW r \in Request
      PROVE  /\ r.size \in Nat /\ r.site \in Site \cup {NULL}
             /\ \A count \in {0, 1} : count * r.size \in Nat
  BY MemoryCheckAssumption
<1>5. ASSUME NEW size \in Nat, NEW site \in Site \cup {NULL}, malloc_site(size, site)
      PROVE  ReportInv'
  BY <1>2, <1>3, <1>5
<1>6. ASSUME NEW r \in Request, NEW count \in {0, 1}, calloc_site(count, r.size, r.site)
      PROVE  ReportInv'
  <2>1. malloc_site(count * r.size, r.site)
    BY <1>6 DEF calloc_site
  <2> QED
    BY <1>4, <1>5, <2>1
<1>7. ASSUME NEW r \in Request, NEW p \in Ptr \cup {NULL}, realloc_site(p, r.size, r.site)
      PROVE  ReportInv'
  BY <1>3, <1>4, <1>7
<1>8. ASSUME NEW p \in Ptr \cup {NULL}, free_site(p) PROVE ReportInv'
  <2>1. NULL \in Site \cup {NULL} /\ 0 \in Nat
    OBVIOUS
  <2> QED
    BY <1>3, <1>8, <2>1
<1>9. ASSUME NEW p \in Foreign, ForeignAllocate(p) \/ ForeignRelease(p) PROVE ReportInv'
  <2>1. running /\ UNCHANGED <<tracker, report, running>>
    BY <1>9 DEF ForeignAllocate, ForeignRelease
  <2> QED
    BY <1>1, <2>1, OperationsAdvance, AdvanceKeepsReport
<1>10. CASE memcheck_report
  <2>1. running' = TRUE /\ emit_report("manual")
    BY <1>10 DEF memcheck_report, CallHook, IInv
  <2>2. tracker.generation \in Nat
    BY <1>1 DEF Trackers
  <2> QED
    BY <2>1, <2>2, EmitShows DEF ReportInv
<1>11. CASE memcheck_reset
  <2>1. running' = TRUE /\ tracker' = [Zero EXCEPT !.registered = tracker.registered]
    BY <1>11 DEF memcheck_reset, CallHook, IInv
  <2>2. /\ tracker'.slots = [s \in Range0 |-> EmptySlot]
        /\ tracker'.generation = 0 /\ tracker'.reported = 0
        /\ Counters(tracker') = <<0, 0, 0, 0, 0>>
    BY <2>1 DEF Zero, Counters
  <2>3. ActiveSlots(tracker'.slots) = {}
    BY <2>2, NothingActive
  <2> QED
    BY <2>1, <2>2, <2>3 DEF ReportInv, Untouched
<1>12. CASE Exit
  <2>1. CASE emit_report("atexit")
    <3>1. tracker.generation \in Nat
      BY <1>1 DEF Trackers
    <3> QED
      BY <2>1, <3>1, EmitShows DEF ReportInv
  <2>2. CASE /\ UNCHANGED <<report, tracker>>
             /\ ~(tracker.registered /\ tracker.reported # tracker.generation
                    /\ should_emit_report(tracker))
    <3>1. policy' = policy
      BY <1>12 DEF Exit
    <3>2. should_emit_report(tracker)' <=> should_emit_report(tracker)
      BY <2>2, <3>1 DEF should_emit_report
    <3> QED
      BY <2>2, <3>2, UntouchedSilent DEF ReportInv
  <2> QED
    BY <1>12, <2>1, <2>2 DEF Exit, report_at_exit
<1>13. CASE UNCHANGED vars
  <2>1. UNCHANGED <<tracker, policy, report, running>>
    BY <1>13 DEF vars
  <2>2. should_emit_report(tracker)' <=> should_emit_report(tracker)
    BY <2>1 DEF should_emit_report
  <2> QED
    BY <2>1, <2>2 DEF ReportInv
<1> QED
  BY <1>4, <1>5, <1>6, <1>7, <1>8, <1>9, <1>10, <1>11, <1>12, <1>13 DEF Next

TrackedBlocks(h) ==
    {[ptr |-> p, block |-> h[p].block] : p \in {q \in DOMAIN h : h[q].tracked}}

\* What a report lists are the tracked blocks that are live.
LEMMA LeaksAreLive ==
    ASSUME NEW slots, NEW h, Tracks(slots, h)
    PROVE  emit_leak_sites(slots) = TrackedBlocks(h)
<1>1. ASSUME NEW s \in ActiveSlots(slots)
      PROVE  /\ slots[s].ptr \in DOMAIN h
             /\ h[slots[s].ptr].tracked = TRUE
             /\ h[slots[s].ptr].block = slots[s].block
  <2>1. slots[s].ptr \in DOMAIN h
    BY DEF Tracks
  <2>2. h[slots[s].ptr] = [block |-> slots[s].block, tracked |-> TRUE]
    BY DEF Tracks
  <2>r. \A b : LET e == [block |-> b, tracked |-> TRUE]
               IN  e.block = b /\ e.tracked = TRUE
    OBVIOUS
  <2>3. h[slots[s].ptr].block = slots[s].block
    BY <2>2, <2>r, Zenon
  <2>4. h[slots[s].ptr].tracked = TRUE
    BY <2>2, <2>r, Zenon
  <2> QED
    BY <2>1, <2>3, <2>4, Zenon
<1>2. ASSUME NEW p \in DOMAIN h, h[p].tracked
      PROVE  \E s \in ActiveSlots(slots) : slots[s].ptr = p
  BY <1>2 DEF Tracks
<1> DEFINE live == {q \in DOMAIN h : h[q].tracked}
           entry(s) == [ptr |-> slots[s].ptr, block |-> slots[s].block]
           shown(p) == [ptr |-> p, block |-> h[p].block]
<1>3. ASSUME NEW s \in ActiveSlots(slots) PROVE \E p \in live : entry(s) = shown(p)
  <2>1. slots[s].ptr \in live
    BY <1>1
  <2> QED
    BY <1>1, <2>1
<1>4. ASSUME NEW p \in live PROVE \E s \in ActiveSlots(slots) : entry(s) = shown(p)
  BY <1>1, <1>2
<1> HIDE DEF live, entry, shown
<1>5. {entry(s) : s \in ActiveSlots(slots)} = {shown(p) : p \in live}
  BY <1>3, <1>4
<1> QED
  BY <1>5 DEF emit_leak_sites, TrackedBlocks, live, entry, shown

\* The last report of a program that has ended, when the policy asks for one
\* and the handler was registered, shows the counts and the table as they
\* are, and lists exactly the tracked blocks that are still live:
\* report_at_exit may skip a report only because nothing has changed.
THEOREM FinalReport == Spec => []FinalReportIsCurrent
<1>1. Init => ReportInv
  <2> SUFFICES ASSUME Init PROVE ReportInv
    OBVIOUS
  <2>1. /\ tracker.slots = [s \in Range0 |-> EmptySlot] /\ running = TRUE
        /\ tracker.generation = 0 /\ tracker.reported = 0
        /\ Counters(tracker) = <<0, 0, 0, 0, 0>>
    BY DEF Init, Zero, Counters
  <2>2. ActiveSlots(tracker.slots) = {}
    BY <2>1, NothingActive
  <2> QED
    <3>1. Untouched(tracker)
      BY <2>1, <2>2 DEF Untouched
    <3>2. tracker.reported <= tracker.generation
      BY <2>1
    <3>3. running
      BY <2>1, Zenon
    <3> QED
      BY <3>1, <3>2, <3>3, Zenon DEF ReportInv
<1>2. ASSUME IInv, ReportInv PROVE FinalReportIsCurrent
  <2>1. Tracks(tracker.slots, heap)
    BY <1>2 DEF IInv, Good
  <2>2. emit_leak_sites(tracker.slots) = TrackedBlocks(heap)
    BY <2>1, LeaksAreLive
  <2>3. TrackedBlocks(heap)
          = {[ptr |-> p, block |-> heap[p].block] : p \in {q \in Live : heap[q].tracked}}
    BY DEF TrackedBlocks, Live
  <2> QED
    BY <1>2, <2>2, <2>3 DEF ReportInv, FinalReportIsCurrent, Shows
<1> QED
  BY <1>1, <1>2, NextReports, Invariance, PTL DEF Spec
===============================================================================
