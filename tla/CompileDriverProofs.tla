------------------------ MODULE CompileDriverProofs ------------------------
(* One invocation of the compiler, for every job: any number of inputs,      *)
(* failing anywhere, with any symbols.                                       *)
(*                                                                           *)
(* First the ledger of declarations.  The index over it is exact for every   *)
(* hash function, every number of buckets to begin with and every sequence   *)
(* of symbols: the chain of a bucket visits its entries in ledger order and  *)
(* misses none.  What is reported and what is linked rests on this.          *)
(*                                                                           *)
(* Then the driver.  The invariants say what is known at each place of the   *)
(* loop over the inputs (DriverTyped, Waiting, OnPath, Finished); with       *)
(* respect to the ledger it implements LedgerSpec.                           *)
EXTENDS CompileDriver, TLAPS

Bucket == [head : Nat, tail : Nat]

(* chain and bs describe the first k entries of its with n buckets.          *)
HeadAndTail(bs, n, its, k, b) ==
    IF bs[b].tail = NONE
    THEN /\ bs[b].head = NONE
         /\ \A j \in 1..k : cross_tu_bucket(its[j], n) # b
    ELSE /\ bs[b].tail \in 1..k /\ bs[b].head \in 1..k
         /\ cross_tu_bucket(its[bs[b].tail], n) = b
         /\ cross_tu_bucket(its[bs[b].head], n) = b
         /\ \A j \in 1..k : cross_tu_bucket(its[j], n) = b => bs[b].head <= j /\ j <= bs[b].tail

Follows(chain, n, its, k, e) ==
    IF chain[e] = NONE
    THEN \A j \in 1..k : cross_tu_bucket(its[j], n) = cross_tu_bucket(its[e], n) => j <= e
    ELSE /\ chain[e] \in 1..k /\ e < chain[e]
         /\ cross_tu_bucket(its[chain[e]], n) = cross_tu_bucket(its[e], n)
         /\ \A j \in 1..k : cross_tu_bucket(its[j], n) = cross_tu_bucket(its[e], n) /\ e < j
                              => chain[e] <= j

Chained(chain, bs, n, its, k) ==
    /\ \A b \in 0..(n - 1) : HeadAndTail(bs, n, its, k, b)
    /\ \A e \in 1..k : Follows(chain, n, its, k, e)

-----------------------------------------------------------------------------
(* A bucket number is in range, whatever the hash.                           *)
LEMMA BucketInRange ==
    ASSUME NEW s \in Symbol, NEW n \in Nat \ {0}
    PROVE  cross_tu_bucket(s, n) \in 0..(n - 1)
  <1>1. s.name \in Name /\ s.kind \in Kind
    BY DEF Symbol
  <1>2. Hash[s.name, s.kind] \in Nat
    BY <1>1, CrossTUAssumption, Zenon
  <1>3. \A h \in Nat : h % n \in 0..(n - 1)
    OBVIOUS
  <1> QED
    BY <1>2, <1>3 DEF cross_tu_bucket

(* Linking the next entry keeps the chains exact: cross_tu_index_link.       *)
LEMMA LinkKeepsChains ==
    ASSUME NEW n \in Nat \ {0}, NEW its, NEW k \in Nat, NEW m \in Nat,
           NEW chain \in [1..m -> Nat], k <= m,
           NEW bs \in [0..(n - 1) -> Bucket],
           NEW b \in 0..(n - 1), b = cross_tu_bucket(its[k + 1], n),
           Chained(chain, bs, n, its, k)
    PROVE  /\ LinkedBuckets(bs, b, k + 1) \in [0..(n - 1) -> Bucket]
           /\ Chained(LinkedNext(chain, bs, b, k + 1), LinkedBuckets(bs, b, k + 1), n, its, k + 1)
  <1> DEFINE c == LinkedNext(chain, bs, b, k + 1)
             d == LinkedBuckets(bs, b, k + 1)
  <1>b. bs[b] \in Bucket /\ HeadAndTail(bs, n, its, k, b)
    BY DEF Chained
  <1>d. /\ d \in [0..(n - 1) -> Bucket]
        /\ d[b].tail = k + 1
        /\ d[b].head = IF bs[b].tail = NONE THEN k + 1 ELSE bs[b].head
        /\ \A x \in 0..(n - 1) : x # b => d[x] = bs[x]
    BY <1>b DEF LinkedBuckets, Bucket, NONE
  <1>c. /\ c[k + 1] = NONE
        /\ \A e \in 1..k : c[e] = IF e = bs[b].tail THEN k + 1 ELSE chain[e]
    BY DEF LinkedNext
  <1>r. 1..(k + 1) = (1..k) \cup {k + 1}
    OBVIOUS
  <1> HIDE DEF c, d
  <1>1. ASSUME NEW x \in 0..(n - 1)
        PROVE  HeadAndTail(d, n, its, k + 1, x)
    <2>1. CASE x = b
      <3>1. CASE bs[b].tail = NONE
        BY <1>b, <1>d, <2>1, <3>1 DEF HeadAndTail, NONE
      <3>2. CASE bs[b].tail # NONE
        <4>1. /\ bs[b].head \in 1..k /\ cross_tu_bucket(its[bs[b].head], n) = b
              /\ \A j \in 1..k : cross_tu_bucket(its[j], n) = b => bs[b].head <= j
          BY <1>b, <3>2 DEF HeadAndTail
        <4>2. d[b].head = bs[b].head
          BY <1>d, <3>2
        <4>3. d[b].tail = k + 1 /\ d[b].tail # NONE
          BY <1>d DEF NONE
        <4>4. ASSUME NEW j \in 1..(k + 1), cross_tu_bucket(its[j], n) = b
              PROVE  bs[b].head <= j /\ j <= k + 1
          BY <4>1, <4>4
        <4> QED
          BY <1>r, <2>1, <4>1, <4>2, <4>3, <4>4 DEF HeadAndTail
      <3> QED
        BY <3>1, <3>2
    <2>2. CASE x # b
      <3>1. HeadAndTail(bs, n, its, k, x) /\ d[x] = bs[x]
        BY <1>d, <2>2 DEF Chained
      <3>2. cross_tu_bucket(its[k + 1], n) # x
        BY <2>2
      <3>3. CASE bs[x].tail = NONE
        BY <1>r, <3>1, <3>2, <3>3 DEF HeadAndTail
      <3>4. CASE bs[x].tail # NONE
        BY <1>r, <3>1, <3>2, <3>4 DEF HeadAndTail
      <3> QED
        BY <3>3, <3>4
    <2> QED
      BY <2>1, <2>2
  <1>2. ASSUME NEW e \in 1..(k + 1)
        PROVE  Follows(c, n, its, k + 1, e)
    <2>1. CASE e = k + 1
      BY <1>c, <2>1 DEF Follows, NONE
    <2>2. CASE e \in 1..k /\ e = bs[b].tail
      <3>1. c[e] = k + 1 /\ cross_tu_bucket(its[e], n) = b
        BY <1>b, <1>c, <2>2 DEF HeadAndTail, NONE
      <3>2. \A j \in 1..k : cross_tu_bucket(its[j], n) = b => j <= e
        BY <1>b, <2>2 DEF HeadAndTail, NONE
      <3> QED
        BY <1>r, <2>2, <3>1, <3>2 DEF Follows, NONE
    <2>3. CASE e \in 1..k /\ e # bs[b].tail
      <3>1. Follows(chain, n, its, k, e) /\ c[e] = chain[e] /\ chain[e] \in Nat
        BY <1>c, <2>3 DEF Chained
      <3>2. CASE chain[e] = NONE
        <4>1. \A j \in 1..k : cross_tu_bucket(its[j], n) = cross_tu_bucket(its[e], n) => j <= e
          BY <3>1, <3>2 DEF Follows
        <4>2. cross_tu_bucket(its[e], n) # b
          <5>1. SUFFICES ASSUME cross_tu_bucket(its[e], n) = b PROVE FALSE
            OBVIOUS
          <5>2. bs[b].tail \in 1..k /\ cross_tu_bucket(its[bs[b].tail], n) = b
            BY <1>b, <2>3, <5>1 DEF HeadAndTail, NONE
          <5>3. e <= bs[b].tail
            BY <1>b, <2>3, <5>1, <5>2 DEF HeadAndTail, NONE
          <5>4. bs[b].tail <= e
            BY <4>1, <5>1, <5>2
          <5> QED
            BY <2>3, <5>2, <5>3, <5>4
        <4> QED
          BY <1>r, <2>3, <3>1, <3>2, <4>1, <4>2 DEF Follows
      <3>3. CASE chain[e] # NONE
        BY <1>r, <2>3, <3>1, <3>3 DEF Follows
      <3> QED
        BY <3>2, <3>3
    <2> QED
      BY <2>1, <2>2, <2>3
  <1> QED
    BY <1>1, <1>2, <1>d DEF Chained, c, d

(* Chained depends on the entries themselves only.                           *)
LEMMA ChainedSameEntries ==
    ASSUME NEW chain, NEW bs, NEW n, NEW its, NEW other, NEW k \in Nat,
           n \in Nat, Chained(chain, bs, n, its, k),
           \A j \in 1..k : other[j] = its[j]
    PROVE  Chained(chain, bs, n, other, k)
  <1>1. ASSUME NEW b \in 0..(n - 1) PROVE HeadAndTail(bs, n, other, k, b)
    <2>1. HeadAndTail(bs, n, its, k, b)
      BY DEF Chained
    <2>2. CASE bs[b].tail = NONE
      BY <2>1, <2>2 DEF HeadAndTail
    <2>3. CASE bs[b].tail # NONE
      BY <2>1, <2>3 DEF HeadAndTail
    <2> QED
      BY <2>2, <2>3
  <1>2. ASSUME NEW e \in 1..k PROVE Follows(chain, n, other, k, e)
    <2>1. Follows(chain, n, its, k, e)
      BY DEF Chained
    <2>2. CASE chain[e] = NONE
      BY <2>1, <2>2 DEF Follows
    <2>3. CASE chain[e] # NONE
      BY <2>1, <2>3 DEF Follows
    <2> QED
      BY <2>2, <2>3
  <1> QED
    BY <1>1, <1>2 DEF Chained

-----------------------------------------------------------------------------
LedgerTyped ==
    /\ items \in Seq(Symbol)
    /\ nextInBucket \in [1..Len(items) -> Nat]
    /\ bucketCount \in Nat
    /\ buckets \in [0..(bucketCount - 1) -> Bucket]
    /\ stage \in {"idle", "walk", "rebuild", "append"}
    /\ stage # "idle" => sym \in Symbol

(* The walk has passed every entry of the bucket of sym before the cursor.   *)
Passed ==
    /\ cursor = NONE => \A j \in 1..Len(items) : ~Conflicting(items[j], sym)
    /\ cursor # NONE => /\ cursor \in 1..Len(items) /\ bucketCount # 0
                        /\ cross_tu_bucket(items[cursor], bucketCount) = cross_tu_bucket(sym, bucketCount)
                        /\ \A j \in 1..(cursor - 1) : ~Conflicting(items[j], sym)

Indexed ==
    /\ bucketCount = 0 => Len(items) = 0
    /\ stage = "append" => bucketCount # 0
    /\ stage # "rebuild" /\ bucketCount # 0 =>
           Chained(nextInBucket, buckets, bucketCount, items, Len(items))
    /\ stage = "rebuild" =>
           /\ linked \in Nat /\ linked <= Len(items)
           /\ fresh \in [0..(FreshCount - 1) -> Bucket]
           /\ Chained(nextInBucket, fresh, FreshCount, items, linked)

Searched ==
    /\ stage # "idle" => ~conflict.found
    /\ stage = "walk" => Passed
    /\ stage \in {"rebuild", "append"} => \A j \in 1..Len(items) : ~Conflicting(items[j], sym)

LedgerInv == LedgerTyped /\ Indexed /\ Searched /\ LedgerConsistent /\ FirstConflictReported

(* Symbols that conflict share a bucket, so the chain of one is enough.      *)
LEMMA ConflictsShareBucket ==
    ASSUME NEW s, NEW t, NEW n, Conflicting(s, t)
    PROVE  cross_tu_bucket(s, n) = cross_tu_bucket(t, n)
  BY DEF Conflicting, cross_tu_bucket

LEMMA LedgerInitial == LedgerInit => LedgerInv
  <1> SUFFICES ASSUME LedgerInit PROVE LedgerInv
    OBVIOUS
  <1>1. LedgerTyped
    BY DEF LedgerInit, LedgerTyped, EmptyBuckets, Bucket, NONE
  <1>2. Indexed /\ Searched /\ LedgerConsistent /\ FirstConflictReported
    BY DEF LedgerInit, Indexed, Searched, LedgerConsistent, FirstConflictReported, NoConflict
  <1> QED
    BY <1>1, <1>2 DEF LedgerInv

LEMMA FreshCountPositive ==
    ASSUME bucketCount \in Nat
    PROVE  FreshCount \in Nat \ {0}
  BY CrossTUAssumption DEF FreshCount

(* A step that leaves the ledger and its index alone and goes idle.          *)
LEMMA GoesIdle ==
    ASSUME LedgerInv, stage # "rebuild", stage' = "idle",
           UNCHANGED <<items, nextInBucket, bucketCount, buckets, conflict>>
    PROVE  LedgerInv'
  <1>1. LedgerTyped'
    BY DEF LedgerInv, LedgerTyped
  <1>2. Indexed'
    BY DEF LedgerInv, Indexed
  <1>3. Searched' /\ LedgerConsistent' /\ FirstConflictReported'
    BY DEF LedgerInv, Searched, LedgerConsistent, FirstConflictReported
  <1> QED
    BY <1>1, <1>2, <1>3 DEF LedgerInv

LEMMA TakeKeeps ==
    ASSUME LedgerInv, NEW s \in Symbol, Take(s)
    PROVE  LedgerInv'
  <1>1. LedgerTyped'
    BY DEF LedgerInv, LedgerTyped, Take
  <1>2. Indexed'
    BY DEF LedgerInv, Indexed, Take
  <1>3. Searched'
    <2>1. CASE bucketCount = 0
      BY <2>1 DEF LedgerInv, Indexed, Searched, Take, Passed, main_cross_tu_index_first, NONE
    <2>2. CASE bucketCount # 0
      <3> DEFINE b == cross_tu_bucket(s, bucketCount)
      <3>1. b \in 0..(bucketCount - 1)
        BY <2>2, BucketInRange DEF LedgerInv, LedgerTyped
      <3>2. HeadAndTail(buckets, bucketCount, items, Len(items), b)
        BY <2>2, <3>1 DEF LedgerInv, Indexed, Chained, Take
      <3>3. cursor' = buckets[b].head
        BY <2>2 DEF Take, main_cross_tu_index_first
      <3>4. \A j \in 1..Len(items) : Conflicting(items[j], s) => cross_tu_bucket(items[j], bucketCount) = b
        BY ConflictsShareBucket
      <3>l. Len(items) \in Nat
        BY DEF LedgerInv, LedgerTyped
      <3> HIDE DEF b
      <3>5. CASE buckets[b].tail = NONE
        <4>1. cursor' = NONE /\ \A j \in 1..Len(items) : ~Conflicting(items[j], s)
          BY <3>2, <3>3, <3>4, <3>5 DEF HeadAndTail
        <4>2. Passed'
          BY <4>1 DEF Take, Passed
        <4> QED
          BY <4>2 DEF Take, Searched
      <3>6. CASE buckets[b].tail # NONE
        <4>1. /\ buckets[b].head \in 1..Len(items)
              /\ cross_tu_bucket(items[buckets[b].head], bucketCount) = b
              /\ \A j \in 1..Len(items) :
                    cross_tu_bucket(items[j], bucketCount) = b => buckets[b].head <= j
          BY <3>2, <3>6 DEF HeadAndTail
        <4>2. \A j \in 1..(buckets[b].head - 1) : ~Conflicting(items[j], s)
          BY <3>4, <3>l, <4>1
        <4>3. cross_tu_bucket(items[cursor'], bucketCount) = cross_tu_bucket(s, bucketCount)
          BY <3>3, <4>1 DEF b
        <4>4. /\ sym' = s /\ UNCHANGED <<items, bucketCount>>
              /\ cursor' # NONE
          BY <3>3, <3>l, <4>1 DEF Take, NONE
        <4>5. Passed'
          BY <2>2, <3>3, <4>1, <4>2, <4>3, <4>4 DEF Passed
        <4> QED
          BY <4>5 DEF Take, Searched
      <3> QED
        BY <3>5, <3>6
    <2> QED
      BY <2>1, <2>2
  <1>4. LedgerConsistent' /\ FirstConflictReported'
    BY DEF LedgerInv, LedgerConsistent, FirstConflictReported, Take
  <1> QED
    BY <1>1, <1>2, <1>3, <1>4 DEF LedgerInv

LEMMA CompareKeeps ==
    ASSUME LedgerInv, Compare
    PROVE  LedgerInv'
  <1>1. LedgerTyped'
    BY DEF LedgerInv, LedgerTyped, Compare
  <1>2. Indexed'
    BY DEF LedgerInv, Indexed, Compare
  <1>3. Searched'
    <2>1. /\ cursor \in 1..Len(items) /\ bucketCount # 0
          /\ cross_tu_bucket(items[cursor], bucketCount) = cross_tu_bucket(sym, bucketCount)
          /\ \A j \in 1..(cursor - 1) : ~Conflicting(items[j], sym)
      BY DEF LedgerInv, Searched, Passed, Compare
    <2>2. Follows(nextInBucket, bucketCount, items, Len(items), cursor)
      BY <2>1 DEF LedgerInv, Indexed, Chained, Compare
    <2>3. \A j \in 1..Len(items) : Conflicting(items[j], sym)
             => cross_tu_bucket(items[j], bucketCount) = cross_tu_bucket(items[cursor], bucketCount)
      BY <2>1, ConflictsShareBucket
    <2>4. \A j \in 1..cursor : ~Conflicting(items[j], sym)
      <3>1. Len(items) \in Nat
        BY DEF LedgerInv, LedgerTyped
      <3>2. 1..cursor = (1..(cursor - 1)) \cup {cursor}
        BY <2>1, <3>1
      <3> QED
        BY <2>1, <3>2 DEF Compare
    <2>5. cursor' = nextInBucket[cursor] /\ Len(items) \in Nat
      BY DEF Compare, LedgerInv, LedgerTyped
    <2>6. CASE nextInBucket[cursor] = NONE
      <3>1. \A j \in 1..Len(items) : ~Conflicting(items[j], sym)
        BY <2>1, <2>2, <2>3, <2>4, <2>5, <2>6 DEF Follows
      <3> QED
        BY <2>5, <2>6, <3>1 DEF LedgerInv, Searched, Passed, Compare
    <2>7. CASE nextInBucket[cursor] # NONE
      <3>1. /\ cursor' \in 1..Len(items) /\ cursor < cursor'
            /\ cross_tu_bucket(items[cursor'], bucketCount) = cross_tu_bucket(sym, bucketCount)
            /\ \A j \in 1..Len(items) :
                  cross_tu_bucket(items[j], bucketCount) = cross_tu_bucket(items[cursor], bucketCount)
                    /\ cursor < j => cursor' <= j
        BY <2>1, <2>2, <2>5, <2>7 DEF Follows
      <3>2. \A j \in 1..(cursor' - 1) : ~Conflicting(items[j], sym)
        BY <2>1, <2>3, <2>4, <2>5, <3>1
      <3> QED
        BY <2>1, <3>1, <3>2 DEF LedgerInv, Searched, Passed, Compare, NONE
    <2> QED
      BY <2>6, <2>7
  <1>4. LedgerConsistent' /\ FirstConflictReported'
    BY DEF LedgerInv, LedgerConsistent, FirstConflictReported, Compare
  <1> QED
    BY <1>1, <1>2, <1>3, <1>4 DEF LedgerInv

LEMMA OpposeKeeps ==
    ASSUME LedgerInv, Oppose
    PROVE  LedgerInv'
  <1>1. LedgerTyped'
    BY DEF LedgerInv, LedgerTyped, Oppose
  <1>2. Indexed'
    BY DEF LedgerInv, Indexed, Oppose
  <1>3. Searched' /\ LedgerConsistent'
    BY DEF LedgerInv, Searched, LedgerConsistent, Oppose
  <1>4. FirstConflictReported'
    <2>1. /\ cursor \in 1..Len(items) /\ Conflicting(items[cursor], sym)
          /\ \A j \in 1..(cursor - 1) : ~Conflicting(items[j], sym)
      BY DEF LedgerInv, Searched, Passed, Oppose
    <2>2. conflict'.prior = cursor /\ conflict'.symbol = sym /\ items' = items
      BY DEF Oppose
    <2> QED
      BY <2>1, <2>2 DEF FirstConflictReported
  <1> QED
    BY <1>1, <1>2, <1>3, <1>4 DEF LedgerInv

LEMMA ReserveKeeps ==
    ASSUME LedgerInv, Reserve
    PROVE  LedgerInv'
  <1>1. LedgerTyped'
    BY DEF LedgerInv, LedgerTyped, Reserve
  <1>2. Indexed'
    <2>1. CASE HasRoom
      BY <2>1 DEF LedgerInv, Indexed, Reserve, HasRoom
    <2>2. CASE ~HasRoom
      <3>1. FreshCount \in Nat \ {0} /\ FreshCount' = FreshCount
        BY FreshCountPositive DEF LedgerInv, LedgerTyped, FreshCount, Reserve
      <3>2. fresh' \in [0..(FreshCount - 1) -> Bucket]
        BY <2>2, <3>1 DEF Reserve, EmptyBuckets, Bucket, NONE
      <3>3. Chained(nextInBucket', fresh', FreshCount, items', 0)
        BY <2>2, <3>1 DEF Reserve, EmptyBuckets, Chained, HeadAndTail
      <3> QED
        BY <2>2, <3>1, <3>2, <3>3 DEF LedgerInv, LedgerTyped, Indexed, Reserve
    <2> QED
      BY <2>1, <2>2
  <1>3. Searched' /\ LedgerConsistent' /\ FirstConflictReported'
    BY DEF LedgerInv, Searched, Passed, LedgerConsistent, FirstConflictReported, Reserve
  <1> QED
    BY <1>1, <1>2, <1>3 DEF LedgerInv

LEMMA RelinkKeeps ==
    ASSUME LedgerInv, Relink
    PROVE  LedgerInv'
  <1> DEFINE e == linked + 1
             b == cross_tu_bucket(items[e], FreshCount)
  <1>1. /\ FreshCount \in Nat \ {0} /\ linked \in Nat /\ e \in 1..Len(items) /\ Len(items) \in Nat
        /\ FreshCount' = FreshCount
    <2>1. /\ bucketCount \in Nat /\ Len(items) \in Nat /\ linked \in Nat /\ linked < Len(items)
          /\ bucketCount' = bucketCount
      BY DEF LedgerInv, LedgerTyped, Indexed, Relink
    <2>2. FreshCount \in Nat \ {0} /\ FreshCount' = FreshCount
      BY <2>1, FreshCountPositive DEF FreshCount
    <2> QED
      BY <2>1, <2>2
  <1>2. b \in 0..(FreshCount - 1)
    <2>1. items \in Seq(Symbol)
      BY DEF LedgerInv, LedgerTyped
    <2> HIDE DEF e
    <2>2. items[e] \in Symbol
      BY <1>1, <2>1
    <2> QED
      BY <1>1, <2>2, BucketInRange
  <1>3. /\ LinkedBuckets(fresh, b, e) \in [0..(FreshCount - 1) -> Bucket]
        /\ Chained(LinkedNext(nextInBucket, fresh, b, e), LinkedBuckets(fresh, b, e),
                   FreshCount, items, e)
    <2>1. /\ Chained(nextInBucket, fresh, FreshCount, items, linked)
          /\ fresh \in [0..(FreshCount - 1) -> Bucket]
          /\ nextInBucket \in [1..Len(items) -> Nat] /\ linked <= Len(items)
      BY DEF LedgerInv, LedgerTyped, Indexed, Relink
    <2>2. b = cross_tu_bucket(items[linked + 1], FreshCount)
      OBVIOUS
    <2> HIDE DEF b
    <2> QED
      BY <1>1, <1>2, <2>1, <2>2, LinkKeepsChains
  <1>4. LinkedNext(nextInBucket, fresh, b, e) \in [1..Len(items) -> Nat]
    <2>1. nextInBucket \in [1..Len(items) -> Nat]
      BY DEF LedgerInv, LedgerTyped
    <2> HIDE DEF b
    <2> QED
      BY <1>1, <2>1 DEF LinkedNext, NONE
  <1>5. /\ nextInBucket' = LinkedNext(nextInBucket, fresh, b, e)
        /\ fresh' = LinkedBuckets(fresh, b, e) /\ linked' = e /\ stage' = "rebuild"
        /\ UNCHANGED <<items, bucketCount, buckets, sym, cursor, conflict, oom>>
    BY DEF Relink
  <1> HIDE DEF b
  <1>6. LedgerTyped'
    BY <1>4, <1>5 DEF LedgerInv, LedgerTyped, Relink
  <1>7. Indexed'
    BY <1>1, <1>3, <1>5 DEF LedgerInv, Indexed, Relink
  <1>8. Searched' /\ LedgerConsistent' /\ FirstConflictReported'
    BY <1>5 DEF LedgerInv, Searched, LedgerConsistent, FirstConflictReported, Relink
  <1> QED
    BY <1>6, <1>7, <1>8 DEF LedgerInv

LEMMA InstallKeeps ==
    ASSUME LedgerInv, Install
    PROVE  LedgerInv'
  <1>1. FreshCount \in Nat \ {0} /\ bucketCount' = FreshCount
    BY FreshCountPositive DEF LedgerInv, LedgerTyped, Install
  <1>2. LedgerTyped'
    BY <1>1 DEF LedgerInv, LedgerTyped, Indexed, Install
  <1>3. Indexed'
    BY <1>1 DEF LedgerInv, Indexed, Install
  <1>4. Searched' /\ LedgerConsistent' /\ FirstConflictReported'
    BY DEF LedgerInv, Searched, LedgerConsistent, FirstConflictReported, Install
  <1> QED
    BY <1>2, <1>3, <1>4 DEF LedgerInv

LEMMA EnterKeeps ==
    ASSUME LedgerInv, Enter
    PROVE  LedgerInv'
  <1> DEFINE k == Len(items)
             b == cross_tu_bucket(sym, bucketCount)
             its == Append(items, sym)
  <1>1. /\ items \in Seq(Symbol) /\ k \in Nat /\ sym \in Symbol
        /\ bucketCount \in Nat \ {0}
        /\ nextInBucket \in [1..k -> Nat] /\ buckets \in [0..(bucketCount - 1) -> Bucket]
        /\ Chained(nextInBucket, buckets, bucketCount, items, k)
    BY DEF LedgerInv, LedgerTyped, Indexed, Enter
  <1>2. /\ its \in Seq(Symbol) /\ Len(its) = k + 1 /\ its[k + 1] = sym
        /\ \A j \in 1..k : its[j] = items[j]
    BY <1>1
  <1>3. b \in 0..(bucketCount - 1)
    BY <1>1, BucketInRange
  <1>4. /\ items' = its /\ stage' = "idle"
        /\ nextInBucket' = LinkedNext(nextInBucket, buckets, b, k + 1)
        /\ buckets' = LinkedBuckets(buckets, b, k + 1)
        /\ UNCHANGED <<bucketCount, sym, cursor, conflict>>
    BY DEF Enter
  <1>5. b = cross_tu_bucket(its[k + 1], bucketCount)
    BY <1>2
  <1> HIDE DEF k, b, its
  <1>6. Chained(nextInBucket, buckets, bucketCount, its, k)
    BY <1>1, <1>2, ChainedSameEntries
  <1>7. /\ buckets' \in [0..(bucketCount - 1) -> Bucket]
        /\ Chained(nextInBucket', buckets', bucketCount, its, k + 1)
    <2>1. k <= k
      BY <1>1
    <2>2. /\ LinkedBuckets(buckets, b, k + 1) \in [0..(bucketCount - 1) -> Bucket]
          /\ Chained(LinkedNext(nextInBucket, buckets, b, k + 1),
                     LinkedBuckets(buckets, b, k + 1), bucketCount, its, k + 1)
      BY <1>1, <1>3, <1>5, <1>6, <2>1, LinkKeepsChains
    <2> QED
      BY <1>4, <2>2
  <1>8. nextInBucket' \in [1..(k + 1) -> Nat]
    BY <1>1, <1>4 DEF LinkedNext, NONE
  <1>9. LedgerTyped'
    <2>1. Len(items') = k + 1 /\ items' \in Seq(Symbol)
      BY <1>2, <1>4
    <2> QED
      BY <1>1, <1>4, <1>7, <1>8, <2>1 DEF LedgerTyped
  <1>10. Indexed'
    BY <1>1, <1>2, <1>4, <1>7 DEF Indexed
  <1>11. LedgerConsistent'
    <2>1. \A j \in 1..k : ~Conflicting(items[j], sym)
      BY DEF LedgerInv, Searched, Enter, k
    <2>2. \A e, j \in 1..k : e < j => ~Conflicting(items[e], items[j])
      BY DEF LedgerInv, LedgerConsistent, k
    <2>3. ASSUME NEW e \in 1..(k + 1), NEW j \in 1..(k + 1), e < j
          PROVE  ~Conflicting(its[e], its[j])
      <3>1. e \in 1..k /\ its[e] = items[e]
        BY <1>1, <1>2, <2>3
      <3>2. CASE j = k + 1
        BY <1>2, <2>1, <3>1, <3>2
      <3>3. CASE j # k + 1
        BY <1>1, <1>2, <2>2, <2>3, <3>1, <3>3
      <3> QED
        BY <3>2, <3>3
    <2> QED
      BY <1>2, <1>4, <2>3 DEF LedgerConsistent
  <1>12. Searched' /\ FirstConflictReported'
    <2>1. ~conflict.found /\ conflict' = conflict
      BY <1>4 DEF LedgerInv, Searched, Enter
    <2> QED
      BY <1>4, <2>1 DEF Searched, FirstConflictReported
  <1> QED
    BY <1>9, <1>10, <1>11, <1>12 DEF LedgerInv

-----------------------------------------------------------------------------
(* The ledger, its index and the search through it stay as they are for any  *)
(* hash function, any number of buckets and any sequence of symbols,         *)
(* whichever allocations fail.                                               *)
THEOREM LedgerCorrect == LedgerSpec => []LedgerInv
  <1>1. LedgerInit => LedgerInv
    BY LedgerInitial
  <1>2. LedgerInv /\ [LedgerNext]_ledger => LedgerInv'
    <2> SUFFICES ASSUME LedgerInv, [LedgerNext]_ledger PROVE LedgerInv'
      OBVIOUS
    <2>1. CASE Compare
      BY <2>1, CompareKeeps
    <2>2. CASE Oppose
      BY <2>2, OpposeKeeps
    <2>3. CASE OpposeFails \/ ReserveFails \/ EnterFails
      BY <2>3, GoesIdle DEF OpposeFails, ReserveFails, EnterFails, OutOfMemory
    <2>4. CASE Reserve
      BY <2>4, ReserveKeeps
    <2>5. CASE Relink
      BY <2>5, RelinkKeeps
    <2>6. CASE Install
      BY <2>6, InstallKeeps
    <2>7. CASE Enter
      BY <2>7, EnterKeeps
    <2>8. ASSUME NEW s \in Symbol, Take(s) PROVE LedgerInv'
      BY <2>8, TakeKeeps
    <2>9. ASSUME NEW s \in Symbol, TakeFails(s) PROVE LedgerInv'
      BY <2>9, GoesIdle DEF TakeFails, OutOfMemory
    <2>u. CASE UNCHANGED ledger
      <3>1. LedgerTyped' /\ Searched' /\ LedgerConsistent' /\ FirstConflictReported'
        BY <2>u DEF LedgerInv, LedgerTyped, Searched, Passed, LedgerConsistent,
                    FirstConflictReported, ledger
      <3>2. Indexed'
        BY <2>u DEF LedgerInv, Indexed, FreshCount, ledger
      <3> QED
        BY <3>1, <3>2 DEF LedgerInv
    <2>10. ASSUME NEW s \in Symbol, PassOver(s) PROVE LedgerInv'
      BY <2>10, <2>u DEF PassOver
    <2> QED
      BY <2>1, <2>2, <2>3, <2>4, <2>5, <2>6, <2>7, <2>8, <2>9, <2>10, <2>u
         DEF LedgerNext, LedgerStep
  <1> QED
    BY <1>1, <1>2, PTL DEF LedgerSpec

(* The first conflicting declaration is the one that is reported:            *)
(* main_cross_tu_index_reserve rebuilds in ledger order.                     *)
THEOREM FirstConflict == LedgerSpec => []FirstConflictReported
  <1>1. LedgerInv => FirstConflictReported
    BY DEF LedgerInv
  <1> QED
    BY <1>1, LedgerCorrect, PTL

(* A symbol that conflicts with any earlier one is never entered: the loop   *)
(* of cross_tu_collect_symbol_cb over one bucket misses none.                *)
THEOREM NoConflictEntered == LedgerSpec => []LedgerConsistent
  <1>1. LedgerInv => LedgerConsistent
    BY DEF LedgerInv
  <1> QED
    BY <1>1, LedgerCorrect, PTL

-----------------------------------------------------------------------------
(* The driver.                                                               *)

(* The places inside the loop over the inputs.                               *)
Body == {"compile", "collect", "lower", "clang", "wait_clang", "emit", "emitting",
         "semantics", "units", "push"}
Places == {"start", "input", "looped", "prepare", "wait_linker", "cleanup", "done"} \cup Body

DriverTyped ==
    /\ job \in Jobs
    /\ pc \in Places
    /\ status \in {"running", "success", "failure", "timeout", "killed", "fatal"}
    /\ status = "running" <=> pc # "done"
    /\ i \in 0..Count
    /\ pc \in Body => i # 0
    /\ allOk \in BOOLEAN
    /\ todo \in Seq(Symbol)
    /\ tempObjects \in Seq(1..Count)
    /\ code \in {"success", "failure"}
    /\ object \in [1..Count -> {"old", "absent", "empty", "torn", "whole"}]
    /\ semantics \in {"old", "new"} /\ units \in {"old", "new"}
    /\ warned \in BOOLEAN
    /\ child \in {"none", "clang", "linker", "ok", "failed"}

(* A child was started by the one that waits for it, or is an orphan.        *)
Waiting ==
    /\ child # "none" => pc \in {"wait_clang", "wait_linker"} \/ status = "killed"
    /\ pc = "wait_clang" => child # "linker"
    /\ pc = "wait_linker" => child # "clang"
    /\ child = "clang" => i # 0

Compiled(k) == Native(k) => Input(k).fails = "none"

(* What the place where the driver is says about the job and the input.      *)
OnPath ==
    /\ pc \in {"clang", "wait_clang", "collect", "push", "cleanup"} => job.mode # "manifest"
    /\ pc \in {"collect", "push", "cleanup"} => job.mode = "link"
    /\ job.mode = "plain" => pc \in {"start", "input", "compile", "looped", "done"} /\ child = "none"
    /\ pc = "compile" /\ job.mode # "plain" => Native(i)
    /\ pc \in {"collect", "lower", "emit", "emitting", "semantics", "units"} =>
           Input(i).fails = "none"
    /\ pc \in Body \ {"compile"} \/ child = "clang" => Compiled(i)
    /\ pc \in {"semantics", "units", "push"} => object[i] = "whole"
    /\ pc = "wait_clang" /\ child = "ok" => object[i] = "whole"
    /\ pc \in {"prepare", "wait_linker"} \/ child = "linker" =>
           /\ job.mode = "link" \/ (job.mode = "manifest" /\ job.links)
           /\ allOk
    /\ pc = "collect" => allOk
    /\ (pc = "looped" /\ allOk) \/ pc \in {"prepare", "wait_linker"} => i = Count
    /\ job.mode = "manifest" => allOk
    /\ job.mode = "manifest" => child # "clang"

(* As long as nothing failed, the inputs behind the one at hand have their   *)
(* objects, and link mode has all of them in its list.                       *)
Behind == IF pc \in Body THEN i - 1 ELSE i

Finished ==
    allOk /\ job.mode # "plain" /\ pc \notin {"cleanup", "done"} =>
        /\ \A k \in 1..Behind : object[k] = "whole" /\ Compiled(k)
        /\ job.mode = "link" => tempObjects = [k \in 1..Behind |-> k]

DriverInv == DriverTyped /\ Waiting /\ OnPath /\ Finished

-----------------------------------------------------------------------------
(* Facts about a job.                                                        *)
LEMMA JobFacts ==
    ASSUME job \in Jobs
    PROVE  /\ job.mode \in {"compile", "link", "manifest", "plain"}
           /\ job.inputs \in Seq(Unit) /\ Count \in Nat
           /\ \A k \in 1..Count : Input(k) \in Unit /\ Input(k).symbols \in Seq(Symbol)
           /\ job.objects \in Nat
           /\ job.meta => job.mode # "plain"
  <1>1. /\ job.mode \in {"compile", "link", "manifest", "plain"} /\ job.inputs \in Seq(Unit)
        /\ job.objects \in Nat /\ (job.meta => job.mode # "plain")
    BY JobsAssumption
  <1>2. Count \in Nat
    BY <1>1 DEF Count
  <1>3. ASSUME NEW k \in 1..Count PROVE Input(k) \in Unit /\ Input(k).symbols \in Seq(Symbol)
    <2>1. Input(k) \in Unit
      BY <1>1, <1>3 DEF Input, Count
    <2> QED
      BY <2>1 DEF Unit
  <1> QED
    BY <1>1, <1>2, <1>3

(* A unit gives a module exactly when no stage fails.                        *)
LEMMA FailedExactly ==
    ASSUME NEW u \in Unit
    PROVE  Failed(compile_translation_unit(u)) <=> u.fails # "none"
  <1> DEFINE r == compile_translation_unit(u)
  <1>1. CASE u.fails = "none"
    <2>1. r.status = 0 /\ r.semanticErrors = 0
      BY <1>1 DEF compile_translation_unit, EarlyStages, FrontEndStages
    <2>2. r.module
      BY <1>1 DEF compile_translation_unit
    <2> QED
      BY <1>1, <2>1, <2>2 DEF Failed
  <1>2. CASE u.fails # "none"
    <2>1. ~r.module
      BY <1>2 DEF compile_translation_unit
    <2> QED
      BY <1>2, <2>1 DEF Failed
  <1> QED
    BY <1>1, <1>2

-----------------------------------------------------------------------------
(* Where the steps lead.                                                     *)
(* Inside the loop's body there is an input at hand.                         *)
LEMMA AtAnInput ==
    ASSUME DriverTyped, pc \in Body
    PROVE  i \in 1..Count
  <1>1. Count \in Nat /\ i \in 0..Count /\ i # 0
    BY JobFacts DEF DriverTyped
  <1> QED
    BY <1>1

LEMMA StopTyped ==
    ASSUME DriverTyped, Stop, status = "running", job' = job, object' = object, UNCHANGED metadata,
           warned' \in BOOLEAN, child' \in {"none", "clang", "linker", "ok", "failed"}
    PROVE  DriverTyped'
  BY DEF DriverTyped, Stop, End, loop, metadata, Places, Body, Count

LEMMA GoToTyped ==
    ASSUME DriverTyped, NEW next \in Places \ {"done"}, GoTo(next), status = "running",
           next \in Body => i # 0,
           job' = job, object' \in [1..Count -> {"old", "absent", "empty", "torn", "whole"}],
           semantics' \in {"old", "new"}, units' \in {"old", "new"},
           warned' \in BOOLEAN, child' \in {"none", "clang", "linker", "ok", "failed"}
    PROVE  DriverTyped'
  BY DEF DriverTyped, GoTo, loop, Count

LEMMA EndTyped ==
    ASSUME DriverTyped, NEW s \in {"success", "failure", "timeout", "killed", "fatal"}, End(s),
           UNCHANGED <<job, loop, object, metadata>>,
           warned' \in BOOLEAN, child' \in {"none", "clang", "linker", "ok", "failed"}
    PROVE  DriverTyped'
  BY DEF DriverTyped, End, loop, metadata, Places, Body, Count

LEMMA CleanUpTyped ==
    ASSUME DriverTyped, NEW s \in {"success", "failure"}, CleanUp(s), status = "running",
           UNCHANGED <<job, object, metadata>>,
           warned' \in BOOLEAN, child' \in {"none", "clang", "linker", "ok", "failed"}
    PROVE  DriverTyped'
  BY DEF DriverTyped, CleanUp, metadata, Places, Body, Count

LEMMA TypedKept ==
    ASSUME DriverTyped, [Next]_vars
    PROVE  DriverTyped'
  <1>j. /\ job.mode \in {"compile", "link", "manifest", "plain"} /\ Count \in Nat
        /\ \A k \in 1..Count : Input(k).symbols \in Seq(Symbol)
    BY JobFacts DEF DriverTyped
  <1>c. /\ child \in {"none", "clang", "linker", "ok", "failed"} /\ warned \in BOOLEAN
        /\ object \in [1..Count -> {"old", "absent", "empty", "torn", "whole"}]
        /\ semantics \in {"old", "new"} /\ units \in {"old", "new"}
        /\ i \in 0..Count /\ (pc \in Body => i # 0)
    BY DEF DriverTyped
  <1>p. /\ {"input", "looped", "prepare", "wait_linker"} \subseteq Places \ (Body \cup {"done"})
        /\ Body \subseteq Places \ {"done"}
    BY DEF Places, Body
  <1>1. CASE Start
    <2>1. CASE End("failure") /\ UNCHANGED loop
      BY <1>1, <1>c, <2>1, EndTyped DEF Start, diagnostics
    <2>2. CASE GoTo("input")
      BY <1>1, <1>c, <1>p, <2>2, GoToTyped DEF Start, Running, diagnostics, metadata
    <2> QED
      BY <1>1, <2>1, <2>2 DEF Start
  <1>2. CASE NextInput
    <2>1. i + 1 \in 1..Count
      BY <1>2, <1>c, <1>j DEF NextInput
    <2>2. object' \in [1..Count -> {"old", "absent", "empty", "torn", "whole"}]
      BY <1>2, <1>c, <2>1 DEF NextInput
    <2>3. pc' \in {"clang", "compile"} /\ status' = "running" /\ i' = i + 1
      BY <1>2 DEF NextInput, Running
    <2>4. UNCHANGED <<job, allOk, todo, tempObjects, code, semantics, units, warned, child>>
      BY <1>2 DEF NextInput, metadata, diagnostics
    <2> QED
      BY <1>j, <2>1, <2>2, <2>3, <2>4 DEF DriverTyped, Places, Body, Count
  <1>3. CASE NextInputFails \/ StartClangFails \/ EmitFails \/ PushFails
    <2>1. Stop /\ status = "running" /\ UNCHANGED <<job, object, metadata, diagnostics, child>>
      BY <1>3 DEF NextInputFails, StartClangFails, EmitFails, PushFails, Running
    <2> QED
      BY <1>c, <2>1, StopTyped DEF diagnostics
  <1>4. CASE InputsDone
    BY <1>4, <1>c, <1>p, GoToTyped DEF InputsDone, Running, diagnostics, metadata
  <1>5. ASSUME NEW written \in BOOLEAN, Compile(written) PROVE DriverTyped'
    <2> DEFINE result == compile_translation_unit(Input(i))
    <2>1. /\ Running("compile") /\ UNCHANGED <<job, object, metadata, child>>
          /\ warned' \in BOOLEAN
      BY <1>5, <1>c DEF Compile, Reported, diagnostics
    <2>2. i \in 1..Count
      BY <1>c, <1>j, <2>1 DEF Running, Body
    <2>3. \/ /\ UNCHANGED loop
             /\ End(Outcome(result.status = 0 /\ result.semanticErrors = 0))
          \/ Stop
          \/ allOk' = FALSE /\ pc' = "input" /\ UNCHANGED <<i, todo, tempObjects, code, status>>
          \/ /\ todo' = Input(i).symbols /\ pc' = "collect"
             /\ UNCHANGED <<i, allOk, tempObjects, code, status>>
          \/ GoTo("lower")
      BY <1>5, <1>j DEF Compile
    <2>4. CASE UNCHANGED loop /\ End(Outcome(result.status = 0 /\ result.semanticErrors = 0))
      <3>1. Outcome(result.status = 0 /\ result.semanticErrors = 0) \in {"success", "failure"}
        BY DEF Outcome
      <3> QED
        BY <1>c, <2>1, <2>4, <3>1, EndTyped
    <2>5. CASE Stop
      BY <1>c, <2>1, <2>5, StopTyped DEF Running
    <2>6. CASE allOk' = FALSE /\ pc' = "input" /\ UNCHANGED <<i, todo, tempObjects, code, status>>
      BY <2>1, <2>6 DEF DriverTyped, Running, Places, Body, metadata, Count
    <2>7. CASE /\ todo' = Input(i).symbols /\ pc' = "collect"
               /\ UNCHANGED <<i, allOk, tempObjects, code, status>>
      BY <1>j, <2>1, <2>2, <2>7 DEF DriverTyped, Running, Places, Body, metadata, Count
    <2>8. CASE GoTo("lower")
      <3>1. "lower" \in Places \ {"done"}
        BY DEF Places, Body
      <3> QED
        BY <1>c, <2>1, <2>2, <2>8, <3>1, GoToTyped DEF Running, metadata
    <2> QED
      BY <2>3, <2>4, <2>5, <2>6, <2>7, <2>8
  <1>6. CASE Collect
    <2>1. UNCHANGED <<job, pc, i, allOk, tempObjects, code, object, semantics, units, warned,
                      child, status>>
      BY <1>6 DEF Collect, metadata, diagnostics
    <2>2. todo' = todo \/ (todo # <<>> /\ todo' = Tail(todo))
      BY <1>6 DEF Collect
    <2>3. todo \in Seq(Symbol)
      BY DEF DriverTyped
    <2>4. todo' \in Seq(Symbol)
      BY <2>2, <2>3
    <2> QED
      BY <2>1, <2>4 DEF DriverTyped, Count
  <1>7. ASSUME NEW written \in BOOLEAN, Judge(written) PROVE DriverTyped'
    <2>1. /\ Running("collect") /\ UNCHANGED <<job, object, metadata, child>>
          /\ warned' \in BOOLEAN /\ (Stop \/ GoTo("lower"))
      BY <1>7, <1>c DEF Judge, diagnostics
    <2>2. "lower" \in Places \ {"done"} /\ i # 0
      BY <1>c, <2>1 DEF Places, Body, Running
    <2> QED
      BY <1>c, <2>1, <2>2, StopTyped, GoToTyped DEF Running, metadata
  <1>8. CASE Lower \/ StartClang
    <2>1. PICK next \in {"clang", "emit", "wait_clang"} :
              GoTo(next) /\ status = "running" /\ pc \in {"lower", "clang"}
              /\ UNCHANGED <<job, object, metadata, warned>>
              /\ child' \in {child, "clang"}
      BY <1>8 DEF Lower, StartClang, Running, diagnostics
    <2>2. next \in Places \ {"done"} /\ i # 0
      BY <1>c, <2>1 DEF Places, Body
    <2> QED
      BY <1>c, <2>1, <2>2, GoToTyped DEF metadata
  <1>9. CASE ClangEnds
    <2>1. /\ child' \in {"ok", "failed"}
          /\ object' \in [1..Count -> {"old", "absent", "empty", "torn", "whole"}]
          /\ UNCHANGED <<job, pc, loop, metadata, warned, status>>
      BY <1>9, <1>c DEF ClangEnds, diagnostics
    <2> QED
      BY <2>1 DEF DriverTyped, loop, metadata, Count
  <1>10. CASE WaitClang
    <2>1. /\ status = "running" /\ child' = "none" /\ pc \in Body
          /\ UNCHANGED <<job, object, metadata, warned>>
          /\ GoTo("push") \/ GoTo("input") \/ Stop
      BY <1>10 DEF WaitClang, Running, AfterObject, Body, diagnostics
    <2>2. {"push", "input"} \subseteq Places \ {"done"}
      BY DEF Places, Body
    <2> QED
      BY <1>c, <2>1, <2>2, GoToTyped, StopTyped DEF metadata
  <1>11. CASE EmitBegins \/ EmitEnds
    <2>1. /\ status = "running" /\ pc \in Body /\ UNCHANGED <<job, metadata, warned, child>>
          /\ object' \in {[object EXCEPT ![i] = "torn"], [object EXCEPT ![i] = "whole"]}
      BY <1>11 DEF EmitBegins, EmitEnds, Running, Body, diagnostics
    <2>2. object' \in [1..Count -> {"old", "absent", "empty", "torn", "whole"}]
      BY <1>c, <2>1
    <2>3. PICK next \in {"emitting", "semantics", "push", "input"} : GoTo(next)
      BY <1>11 DEF EmitBegins, EmitEnds, AfterObject
    <2>4. next \in Places \ {"done"}
      BY <2>3 DEF Places, Body
    <2> QED
      BY <1>c, <2>1, <2>2, <2>3, <2>4, GoToTyped DEF metadata
  <1>12. CASE WriteSemantics \/ WriteUnits
    <2>1. status = "running" /\ pc \in Body /\ UNCHANGED <<job, object, warned, child>>
      BY <1>12 DEF WriteSemantics, WriteUnits, Running, Body, diagnostics
    <2>2. CASE Stop /\ UNCHANGED metadata
      BY <1>c, <2>1, <2>2, StopTyped
    <2>3. CASE /\ semantics' \in {"old", "new"} /\ units' \in {"old", "new"}
               /\ \E next \in {"units", "push", "input"} : GoTo(next)
      <3>1. {"units", "push", "input"} \subseteq Places \ {"done"}
        BY DEF Places, Body
      <3> QED
        BY <1>c, <2>1, <2>3, <3>1, GoToTyped
    <2> QED
      BY <1>12, <1>c, <2>2, <2>3 DEF WriteSemantics, WriteUnits, AfterObject, metadata
  <1>13. CASE Push
    <2>1. i \in 1..Count
      BY <1>13, <1>c, <1>j DEF Push, Running, Body
    <2>2. tempObjects' \in Seq(1..Count)
      BY <1>13, <2>1 DEF Push, DriverTyped
    <2>3. /\ pc' = "input" /\ status = "running"
          /\ UNCHANGED <<job, i, allOk, todo, code, object, semantics, units, warned, child, status>>
      BY <1>13 DEF Push, Running, metadata, diagnostics
    <2> QED
      BY <2>2, <2>3 DEF DriverTyped, Places, Body, Count
  <1>14. CASE LoopDone
    <2>1. /\ status = "running" /\ UNCHANGED <<job, object, metadata, warned, child>>
          /\ \/ (\E s \in {"success", "failure"} : End(s)) /\ UNCHANGED loop
             \/ GoTo("prepare")
             \/ CleanUp("failure")
      BY <1>14, <1>j DEF LoopDone, Running, Outcome, diagnostics
    <2> QED
      BY <1>c, <1>p, <2>1, EndTyped, GoToTyped, CleanUpTyped DEF metadata
  <1>15. CASE StartLinker
    BY <1>15, <1>c, <1>p, GoToTyped DEF StartLinker, Running, diagnostics, metadata
  <1>16. CASE StartLinkerFails
    <2>1. /\ status = "running" /\ UNCHANGED <<job, object, metadata, warned, child>>
          /\ CleanUp("failure") \/ (End("failure") /\ UNCHANGED loop)
      BY <1>16 DEF StartLinkerFails, Running, Abandon, diagnostics
    <2> QED
      BY <1>c, <2>1, EndTyped, CleanUpTyped
  <1>17. CASE LinkerWrites \/ LinkerEnds
    <2>1. /\ child' \in {child, "ok", "failed"}
          /\ UNCHANGED <<job, pc, loop, object, metadata, warned, status>>
      BY <1>17 DEF LinkerWrites, LinkerEnds, diagnostics
    <2> QED
      BY <2>1 DEF DriverTyped, loop, metadata, Count
  <1>18. ASSUME NEW written \in BOOLEAN, WaitLinker(written) PROVE DriverTyped'
    <2>1. /\ status = "running" /\ UNCHANGED <<job, object, metadata>> /\ child' = "none"
          /\ warned' \in BOOLEAN
          /\ \/ (\E s \in {"success", "failure"} : End(s)) /\ UNCHANGED loop
             \/ \E s \in {"success", "failure"} : CleanUp(s)
      BY <1>18, <1>c DEF WaitLinker, Running, Outcome, diagnostics
    <2> QED
      BY <2>1, EndTyped, CleanUpTyped
  <1>19. CASE Unlink
    <2>1. /\ tempObjects \in Seq(1..Count) /\ tempObjects # <<>>
          /\ tempObjects' = Tail(tempObjects)
          /\ object' = [object EXCEPT ![Head(tempObjects)] = "absent"]
          /\ UNCHANGED <<job, pc, i, allOk, todo, code, semantics, units, warned, child, status>>
      BY <1>19 DEF Unlink, DriverTyped, metadata, diagnostics
    <2>2. tempObjects' \in Seq(1..Count)
      BY <2>1
    <2>3. object' \in [1..Count -> {"old", "absent", "empty", "torn", "whole"}]
      BY <1>c, <2>1
    <2> QED
      BY <2>1, <2>2, <2>3 DEF DriverTyped, Count
  <1>20. CASE Return \/ Watchdog \/ Killed \/ FatalError
    <2>1. /\ UNCHANGED <<job, loop, object, metadata, warned>> /\ child' \in {child, "none"}
          /\ \E s \in {"success", "failure", "timeout", "killed", "fatal"} : End(s)
      BY <1>20 DEF Return, Watchdog, Killed, FatalError, diagnostics, DriverTyped
    <2> QED
      BY <1>c, <2>1, EndTyped
  <1>21. CASE UNCHANGED vars
    <2>1. UNCHANGED <<job, pc, status, i, allOk, todo, tempObjects, code, object, semantics,
                      units, warned, child>>
      BY <1>21 DEF vars, driver, loop, metadata, diagnostics
    <2>2. Count' = Count
      BY <2>1 DEF Count
    <2> QED
      BY <2>1, <2>2 DEF DriverTyped
  <1> QED
    BY <1>1, <1>2, <1>3, <1>4, <1>5, <1>6, <1>7, <1>8, <1>9, <1>10, <1>11, <1>12, <1>13, <1>14,
       <1>15, <1>16, <1>17, <1>18, <1>19, <1>20, <1>21 DEF Next, Ended

-----------------------------------------------------------------------------
LEMMA WaitingKept ==
    ASSUME DriverTyped, Waiting, [Next]_vars
    PROVE  Waiting'
  <1>1. CASE Start \/ InputsDone \/ Lower \/ EmitBegins \/ EmitEnds \/ Push
    BY <1>1 DEF Start, InputsDone, Lower, EmitBegins, EmitEnds, Push,
                Running, Waiting, GoTo, End, loop, AfterObject
  <1>2. CASE NextInput
    BY <1>2 DEF NextInput, Running, Waiting, DriverTyped
  <1>3. CASE NextInputFails \/ StartClangFails \/ EmitFails \/ PushFails
    BY <1>3 DEF NextInputFails, StartClangFails, EmitFails, PushFails, Running, Waiting, Stop, End, loop
  <1>4. ASSUME NEW written \in BOOLEAN, Compile(written) PROVE Waiting'
    <2>1. status = "running" /\ pc = "compile" /\ child' = child
      BY <1>4 DEF Compile, Running
    <2>2. i' = i /\ pc' \in {"done", "looped", "input", "collect", "lower"}
      BY <1>4, JobFacts DEF Compile, DriverTyped, Stop, End, GoTo, loop
    <2> QED
      BY <2>1, <2>2 DEF Waiting
  <1>5. CASE Collect
    BY <1>5 DEF Collect, Waiting
  <1>6. ASSUME NEW written \in BOOLEAN, Judge(written) PROVE Waiting'
    BY <1>6 DEF Judge, Running, Waiting, Stop, End, GoTo, loop
  <1>7. CASE StartClang
    BY <1>7 DEF StartClang, Running, Waiting, GoTo, loop, DriverTyped, Body
  <1>8. CASE ClangEnds \/ LinkerWrites \/ LinkerEnds
    BY <1>8 DEF ClangEnds, LinkerWrites, LinkerEnds, Waiting, loop
  <1>9. CASE WaitClang
    BY <1>9 DEF WaitClang, Waiting, GoTo, AfterObject, Stop, End, loop
  <1>10. CASE WriteSemantics \/ WriteUnits
    BY <1>10 DEF WriteSemantics, WriteUnits, Running, Waiting, GoTo, AfterObject, Stop, End, loop
  <1>11. CASE LoopDone
    <2>1. status = "running" /\ pc = "looped" /\ child' = child
      BY <1>11 DEF LoopDone, Running
    <2>2. i' = i /\ pc' \in {"done", "prepare", "cleanup"}
      BY <1>11, JobFacts DEF LoopDone, DriverTyped, End, GoTo, CleanUp, loop
    <2> QED
      BY <2>1, <2>2 DEF Waiting
  <1>12. CASE StartLinker \/ StartLinkerFails
    BY <1>12 DEF StartLinker, StartLinkerFails, Abandon, CleanUp, Running, Waiting, GoTo, End, loop
  <1>13. ASSUME NEW written \in BOOLEAN, WaitLinker(written) PROVE Waiting'
    BY <1>13 DEF WaitLinker, CleanUp, Running, Waiting, End, loop
  <1>14. CASE Unlink \/ Return \/ Watchdog \/ Killed \/ FatalError
    BY <1>14 DEF Unlink, Return, Watchdog, Killed, FatalError, Running, Waiting, End, loop
  <1>15. CASE UNCHANGED vars
    BY <1>15 DEF vars, driver, loop, Waiting
  <1> QED
    BY <1>1, <1>2, <1>3, <1>4, <1>5, <1>6, <1>7, <1>8, <1>9, <1>10, <1>11, <1>12, <1>13, <1>14,
       <1>15 DEF Next, Ended

-----------------------------------------------------------------------------
LEMMA OnPathKept ==
    ASSUME DriverTyped, Waiting, OnPath, [Next]_vars
    PROVE  OnPath'
  <1>j. /\ job.mode \in {"compile", "link", "manifest", "plain"} /\ Count \in Nat
        /\ \A k \in 1..Count : Input(k) \in Unit
    BY JobFacts DEF DriverTyped
  <1>t. /\ i \in 0..Count /\ (pc \in Body => i # 0)
        /\ object \in [1..Count -> {"old", "absent", "empty", "torn", "whole"}]
    BY DEF DriverTyped
  <1> USE DEF Compiled, Native, Input, should_use_clang_frontend_fallback, Count, Running
  <1>1. CASE Start \/ InputsDone
    BY <1>1, <1>j, <1>t DEF Start, InputsDone, OnPath, GoTo, End, loop, Body
  <1>2. CASE NextInput
    BY <1>2, <1>j, <1>t DEF NextInput, OnPath, Waiting, Body
  <1>3. CASE NextInputFails \/ StartClangFails \/ EmitFails \/ PushFails
    BY <1>3, <1>j, <1>t DEF NextInputFails, StartClangFails, EmitFails, PushFails, OnPath, Waiting,
                            Stop, End, loop, Body
  <1>4. ASSUME NEW written \in BOOLEAN, Compile(written) PROVE OnPath'
    <2>1. status = "running" /\ pc = "compile" /\ UNCHANGED <<job, object, child, i>>
      BY <1>4, <1>j DEF Compile, Stop, End, GoTo, loop
    <2>2. Input(i) \in Unit
      BY <1>j, <1>t, <2>1 DEF Body
    <2>3. CASE pc' = "done" /\ allOk' = allOk
      BY <1>j, <2>1, <2>3 DEF OnPath, Waiting, Body
    <2>4. CASE pc' = "looped" /\ allOk' = FALSE /\ job.mode = "link"
      BY <1>j, <2>1, <2>4 DEF OnPath, Waiting, Body
    <2>5. CASE pc' = "input" /\ allOk' = FALSE /\ job.mode \in {"compile", "link"}
      BY <1>j, <2>1, <2>5 DEF OnPath, Waiting, Body
    <2>6. CASE /\ ~Failed(compile_translation_unit(Input(i))) /\ allOk' = allOk
               /\ job.mode # "plain"
               /\ pc' = "lower" \/ (pc' = "collect" /\ allOk /\ job.mode = "link")
      <3>1. Input(i).fails = "none"
        BY <2>2, <2>6, FailedExactly
      <3> QED
        BY <1>j, <2>1, <2>6, <3>1 DEF OnPath, Waiting, Body
    <2> QED
      BY <1>4, <1>j, <2>3, <2>4, <2>5, <2>6 DEF Compile, Stop, End, GoTo, loop
  <1>5. CASE Collect
    BY <1>5 DEF Collect, OnPath
  <1>6. ASSUME NEW written \in BOOLEAN, Judge(written) PROVE OnPath'
    BY <1>6, <1>j, <1>t DEF Judge, OnPath, Waiting, Stop, End, GoTo, loop, Body
  <1>7. CASE Lower \/ StartClang
    BY <1>7, <1>j, <1>t DEF Lower, StartClang, OnPath, Waiting, GoTo, loop, Body
  <1>8. CASE ClangEnds
    <2>1. /\ child = "clang" /\ child' \in {"ok", "failed"} /\ UNCHANGED <<job, pc, i, allOk>>
          /\ child' = "ok" => object' = [object EXCEPT ![i] = "whole"]
      BY <1>8 DEF ClangEnds, loop
    <2>2. pc \in {"wait_clang", "done"} /\ i \in 1..Count
      BY SMTT(30), <1>j, <1>t, <2>1 DEF Waiting, DriverTyped
    <2>3. child' = "ok" => object'[i] = "whole"
      BY <1>t, <2>1, <2>2
    <2> QED
      BY <2>1, <2>2, <2>3 DEF OnPath, Body
  <1>9. CASE WaitClang
    BY <1>9, <1>j, <1>t DEF WaitClang, OnPath, Waiting, GoTo, AfterObject, Stop, End, loop, Body
  <1>10. CASE EmitBegins \/ EmitEnds
    <2>1. UNCHANGED <<job, i, allOk, child>>
      BY <1>10 DEF EmitBegins, EmitEnds, GoTo, loop
    <2>2. status = "running" /\ pc \in {"emit", "emitting"}
      BY <1>10 DEF EmitBegins, EmitEnds
    <2>3. child = "none" /\ i \in 1..Count
      <3>1. pc \in Body
        BY <2>2 DEF Body
      <3>2. child = "none"
        BY <2>2 DEF Waiting
      <3> QED
        BY Zenon, <3>1, <3>2, AtAnInput
    <2>4. CASE EmitBegins
      <3>1. pc' = "emitting"
        BY <2>4 DEF EmitBegins, GoTo
      <3> QED
        BY <2>1, <2>2, <2>3, <3>1 DEF OnPath, Body
    <2>5. CASE EmitEnds
      <3>1. pc' \in {"semantics", "push", "input"} /\ (pc' = "push" => job.mode = "link")
        BY <2>5 DEF EmitEnds, GoTo, AfterObject
      <3>2. object' = [object EXCEPT ![i] = "whole"]
        BY <2>5 DEF EmitEnds
      <3>3. object'[i] = "whole"
        BY <1>t, <2>3, <3>2
      <3> QED
        BY <2>1, <2>2, <2>3, <3>1, <3>3 DEF OnPath, Body
    <2> QED
      BY <1>10, <2>4, <2>5
  <1>11. CASE WriteSemantics \/ WriteUnits
    BY <1>11, <1>j, <1>t DEF WriteSemantics, WriteUnits, OnPath, Waiting, GoTo, AfterObject,
                             Stop, End, loop, Body
  <1>12. CASE Push
    BY <1>12, <1>j DEF Push, OnPath, Waiting, Body
  <1>13. CASE LoopDone
    <2>1. pc = "looped" /\ status = "running" /\ UNCHANGED <<job, object, child>>
      BY <1>13 DEF LoopDone
    <2>2. child = "none"
      BY <2>1 DEF Waiting
    <2>m. job.mode \in {"compile", "link", "manifest", "plain"}
      BY <1>j
    <2>3. UNCHANGED <<i, allOk>>
      BY Zenon, <1>13, <2>m DEF LoopDone, GoTo, CleanUp, loop
    <2>4. \/ pc' = "done"
          \/ pc' = "prepare" /\ job.mode = "manifest" /\ job.links
          \/ pc' = "prepare" /\ job.mode = "link" /\ allOk
          \/ pc' = "cleanup" /\ job.mode = "link"
      BY Zenon, <1>13, <2>m DEF LoopDone, GoTo, End, CleanUp
    <2> QED
      BY <2>1, <2>2, <2>3, <2>4 DEF OnPath, Body
  <1>14. CASE StartLinker \/ StartLinkerFails
    BY <1>14, <1>j, <1>t DEF StartLinker, StartLinkerFails, Abandon, CleanUp, OnPath, Waiting,
                             GoTo, End, loop, Body
  <1>15. CASE LinkerWrites \/ LinkerEnds
    BY <1>15 DEF LinkerWrites, LinkerEnds, OnPath, Waiting, loop
  <1>16. ASSUME NEW written \in BOOLEAN, WaitLinker(written) PROVE OnPath'
    BY <1>16, <1>j, <1>t DEF WaitLinker, CleanUp, OnPath, Waiting, End, loop, Body
  <1>17. CASE Unlink
    BY <1>17, <1>j DEF Unlink, OnPath, Waiting, Body
  <1>18. CASE Return \/ Watchdog \/ Killed \/ FatalError
    BY <1>18, <1>j DEF Return, Watchdog, Killed, FatalError, OnPath, Waiting, End, loop, Body
  <1>19. CASE UNCHANGED vars
    BY <1>19 DEF vars, driver, loop, OnPath
  <1> QED
    BY <1>1, <1>2, <1>3, <1>4, <1>5, <1>6, <1>7, <1>8, <1>9, <1>10, <1>11, <1>12, <1>13, <1>14,
       <1>15, <1>16, <1>17, <1>18, <1>19 DEF Next, Ended

-----------------------------------------------------------------------------
LEMMA JobSame ==
    ASSUME job' = job
    PROVE  /\ Count' = Count
           /\ \A k : (Native(k)' <=> Native(k)) /\ (Compiled(k)' <=> Compiled(k))
  BY DEF Count, Native, Compiled, Input, should_use_clang_frontend_fallback

(* A step inside the work on one input touches no object but its own.        *)
LEMMA FinishedWithin ==
    ASSUME DriverTyped, Finished, UNCHANGED <<job, tempObjects>>, allOk' => allOk,
           pc \notin {"cleanup", "done"}, Behind' = Behind,
           \A k \in 1..Behind : object'[k] = object[k]
    PROVE  Finished'
  BY JobSame DEF Finished

(* The work on one input is done.                                            *)
LEMMA FinishedOne ==
    ASSUME DriverTyped, Finished, job' = job, allOk' = allOk, pc \in Body, pc' = "input", i' = i,
           \A k \in 1..(i - 1) : object'[k] = object[k], object'[i] = "whole", Compiled(i),
           job.mode = "link" => tempObjects' = Append(tempObjects, i)
    PROVE  Finished'
  <1>1. /\ Behind = i - 1 /\ Behind' = i /\ i \in Nat \ {0}
        /\ pc \notin {"cleanup", "done"} /\ tempObjects \in Seq(1..Count)
    BY JobFacts DEF Behind, Body, DriverTyped
  <1>2. 1..i = (1..(i - 1)) \cup {i}
    BY <1>1
  <1>3. ASSUME allOk, job.mode # "plain"
        PROVE  \A k \in 1..i : object'[k] = "whole" /\ Compiled(k)
    BY <1>1, <1>2, <1>3 DEF Finished
  <1>4. ASSUME allOk, job.mode = "link" PROVE tempObjects' = [k \in 1..i |-> k]
    <2>1. tempObjects = [k \in 1..(i - 1) |-> k]
      BY <1>1, <1>4 DEF Finished
    <2>2. Len(tempObjects) = i - 1
      BY <1>1, <2>1
    <2>3. /\ tempObjects' \in Seq(1..Count) /\ Len(tempObjects') = i
          /\ \A k \in 1..i : tempObjects'[k] = IF k <= i - 1 THEN tempObjects[k] ELSE i
      <3>1. tempObjects' = Append(tempObjects, i) /\ i \in 1..Count
        BY SMTT(30), <1>1, <1>4, JobFacts DEF DriverTyped
      <3> HIDE DEF Count
      <3> QED
        BY <1>1, <2>2, <3>1
    <2>4. tempObjects' = [k \in 1..i |-> tempObjects'[k]]
      BY <2>3, <1>1
    <2> QED
      BY <1>1, <2>1, <2>3, <2>4
  <1> QED
    BY <1>1, <1>3, <1>4, JobSame DEF Finished

LEMMA FinishedKept ==
    ASSUME DriverTyped, Waiting, OnPath, Finished, [Next]_vars
    PROVE  Finished'
  <1>j. /\ job.mode \in {"compile", "link", "manifest", "plain"} /\ Count \in Nat
    BY JobFacts DEF DriverTyped
  <1>t. /\ i \in 0..Count /\ (pc \in Body => i # 0) /\ (status = "running" <=> pc # "done")
        /\ object \in [1..Count -> {"old", "absent", "empty", "torn", "whole"}]
    BY DEF DriverTyped
  <1> USE DEF Running
  <1>1. CASE Start \/ InputsDone \/ Lower \/ StartClang \/ StartLinker
    <2>1. GoTo(pc') \/ (End("failure") /\ UNCHANGED loop)
      BY <1>1 DEF Start, InputsDone, Lower, StartClang, StartLinker, GoTo
    <2>2. UNCHANGED <<job, object>> /\ status = "running" /\ pc \notin {"cleanup", "done"}
      BY <1>1 DEF Start, InputsDone, Lower, StartClang, StartLinker
    <2>3. pc' = "done" \/ (pc' \in Body <=> pc \in Body)
      BY <1>1 DEF Start, InputsDone, Lower, StartClang, StartLinker, GoTo, End, Body
    <2>4. CASE pc' = "done"
      BY <2>4 DEF Finished
    <2>5. CASE GoTo(pc') /\ (pc' \in Body <=> pc \in Body)
      <3>1. Behind' = Behind /\ UNCHANGED <<allOk, tempObjects>>
        BY <2>5 DEF Behind, GoTo, loop
      <3> QED
        BY <2>2, <3>1, FinishedWithin
    <2> QED
      BY <2>1, <2>3, <2>4, <2>5 DEF End
  <1>2. CASE NextInput
    <2>1. /\ UNCHANGED <<job, allOk, tempObjects>> /\ i' = i + 1 /\ i + 1 \in 1..Count
          /\ pc = "input" /\ pc' \in Body
          /\ object' = IF job.mode = "link" THEN [object EXCEPT ![i + 1] = "empty"] ELSE object
      BY SMTT(30), <1>2, <1>j, <1>t DEF NextInput, Body
    <2>2. Behind' = Behind /\ Behind = i
      BY <1>t, <2>1 DEF Behind, Body
    <2>3. \A k \in 1..i : object'[k] = object[k]
      BY <1>j, <1>t, <2>1
    <2> QED
      BY <2>1, <2>2, <2>3, FinishedWithin
  <1>3. ASSUME Stop, status = "running", UNCHANGED <<job, object>>,
               pc \in Body \cup {"input"}
        PROVE  Finished'
    BY <1>3 DEF Stop, End, Finished
  <1>4. CASE NextInputFails \/ StartClangFails \/ EmitFails \/ PushFails
    BY <1>3, <1>4 DEF NextInputFails, StartClangFails, EmitFails, PushFails, Body
  <1>5. ASSUME NEW written \in BOOLEAN, Compile(written) PROVE Finished'
    <2>1. pc = "compile" /\ status = "running" /\ UNCHANGED <<job, object>>
      BY <1>5 DEF Compile
    <2>2. \/ pc' = "done"
          \/ allOk' = FALSE
          \/ pc' \in Body /\ UNCHANGED <<i, allOk, tempObjects>>
      BY <1>5, <1>j DEF Compile, Stop, End, GoTo, loop, Body
    <2>3. CASE pc' = "done" \/ allOk' = FALSE
      BY <2>3 DEF Finished
    <2>4. CASE pc' \in Body /\ UNCHANGED <<i, allOk, tempObjects>>
      <3>1. Behind' = Behind
        BY <2>1, <2>4 DEF Behind, Body
      <3> QED
        BY <2>1, <2>4, <3>1, FinishedWithin
    <2> QED
      BY <2>2, <2>3, <2>4
  <1>6. CASE Collect
    <2>1. UNCHANGED <<job, pc, i, allOk, tempObjects, object>> /\ pc = "collect"
      BY <1>6 DEF Collect
    <2>2. Behind' = Behind
      BY <2>1 DEF Behind
    <2> QED
      BY <2>1, <2>2, FinishedWithin
  <1>7. ASSUME NEW written \in BOOLEAN, Judge(written) PROVE Finished'
    <2>1. pc = "collect" /\ status = "running" /\ UNCHANGED <<job, object>>
      BY <1>7 DEF Judge
    <2>2. CASE Stop
      BY <1>3, <2>1, <2>2 DEF Body
    <2>3. CASE GoTo("lower")
      <3>1. Behind' = Behind /\ UNCHANGED <<allOk, tempObjects>>
        BY <2>1, <2>3 DEF Behind, GoTo, loop, Body
      <3> QED
        BY <2>1, <3>1, FinishedWithin
    <2> QED
      BY <1>7, <2>2, <2>3 DEF Judge
  <1>8. CASE ClangEnds
    <2>1. /\ child = "clang" /\ UNCHANGED <<job, pc, i, allOk, tempObjects>>
          /\ object' \in {object, [object EXCEPT ![i] = "whole"], [object EXCEPT ![i] = "torn"]}
      BY <1>8 DEF ClangEnds, loop
    <2>2. CASE pc = "done"
      BY <2>1, <2>2 DEF Finished
    <2>3. CASE pc = "wait_clang"
      <3>1. Behind' = Behind /\ Behind = i - 1
        BY <2>1, <2>3 DEF Behind, Body
      <3>2. \A k \in 1..(i - 1) : object'[k] = object[k]
        BY <1>j, <1>t, <2>1
      <3> QED
        BY <2>1, <2>3, <3>1, <3>2, FinishedWithin
    <2> QED
      BY <2>1, <2>2, <2>3 DEF Waiting, DriverTyped
  <1>9. ASSUME GoTo(AfterObject), pc \in Body, job' = job,
               \A k \in 1..(i - 1) : object'[k] = object[k], object'[i] = "whole", Compiled(i)
        PROVE  Finished'
    <2>1. UNCHANGED <<i, allOk, tempObjects>>
      BY <1>9 DEF GoTo, loop
    <2>2. CASE job.mode = "link"
      <3>1. Behind' = Behind /\ Behind = i - 1 /\ pc \notin {"cleanup", "done"}
        BY <1>9, <2>1, <2>2 DEF GoTo, AfterObject, Behind, Body
      <3> QED
        BY <1>9, <2>1, <3>1, FinishedWithin
    <2>3. CASE job.mode # "link"
      <3>1. pc' = "input"
        BY <1>9, <2>3 DEF GoTo, AfterObject
      <3> QED
        BY <1>9, <2>1, <2>3, <3>1, FinishedOne
    <2> QED
      BY <2>2, <2>3
  <1>10. CASE WaitClang
    <2>1. UNCHANGED <<job, object>> /\ pc = "wait_clang" /\ status = "running"
      BY <1>10 DEF WaitClang
    <2>2. CASE child = "ok" /\ GoTo(AfterObject)
      <3>1. object[i] = "whole" /\ Compiled(i) /\ pc \in Body
        BY <2>1, <2>2 DEF OnPath, Body
      <3> QED
        BY <1>9, <2>1, <2>2, <3>1
    <2>3. CASE Stop
      BY <1>3, <2>1, <2>3 DEF Body
    <2> QED
      BY <1>10, <2>2, <2>3 DEF WaitClang
  <1>11. CASE EmitBegins \/ EmitEnds
    <2>1. pc \in Body \ {"compile"} /\ job' = job /\ i \in 1..Count /\ Compiled(i)
      <3>1. pc \in {"emit", "emitting"} /\ job' = job
        BY <1>11 DEF EmitBegins, EmitEnds
      <3>2. pc \in Body \ {"compile"} /\ pc \in Body
        BY <3>1 DEF Body
      <3>3. Compiled(i)
        BY <3>2 DEF OnPath
      <3> QED
        BY Zenon, <3>1, <3>2, <3>3, AtAnInput
    <2>2. /\ \A k \in 1..(i - 1) : object'[k] = object[k]
          /\ EmitEnds => object'[i] = "whole"
      <3>1. /\ object' \in {[object EXCEPT ![i] = "torn"], [object EXCEPT ![i] = "whole"]}
            /\ EmitEnds => object' = [object EXCEPT ![i] = "whole"]
        BY <1>11 DEF EmitBegins, EmitEnds
      <3>2. \A k \in 1..(i - 1) : k \in 1..Count /\ k # i
        BY <1>j, <2>1
      <3>3. ASSUME NEW w, object' = [object EXCEPT ![i] = w]
            PROVE  object'[i] = w /\ \A k \in 1..(i - 1) : object'[k] = object[k]
        <4>1. object'[i] = w /\ \A k \in 1..Count : k # i => object'[k] = object[k]
          BY <1>t, <2>1, <3>3
        <4> QED
          BY <3>2, <4>1
      <3> QED
        BY Zenon, <3>1, <3>3
    <2>3. CASE pc' \in Body /\ GoTo(pc')
      <3>1. Behind' = Behind /\ Behind = i - 1 /\ UNCHANGED <<allOk, tempObjects>>
            /\ pc \notin {"cleanup", "done"}
        BY <2>1, <2>3 DEF Behind, GoTo, loop, Body
      <3> QED
        BY <2>1, <2>2, <3>1, FinishedWithin
    <2>4. CASE EmitEnds /\ GoTo(AfterObject)
      BY <1>9, <2>1, <2>2, <2>4
    <2> QED
      BY <1>11, <2>3, <2>4 DEF EmitBegins, EmitEnds, GoTo, Body
  <1>12. CASE WriteSemantics \/ WriteUnits
    <2>1. /\ pc \in {"semantics", "units"} /\ status = "running" /\ UNCHANGED <<job, object>>
      BY <1>12 DEF WriteSemantics, WriteUnits
    <2>2. object[i] = "whole" /\ Compiled(i) /\ pc \in Body
      BY <2>1 DEF OnPath, Body
    <2>3. CASE Stop
      BY <1>3, <2>1, <2>2, <2>3
    <2>4. CASE GoTo("units")
      <3>1. Behind' = Behind /\ UNCHANGED <<allOk, tempObjects>>
        BY <2>2, <2>4 DEF Behind, GoTo, loop, Body
      <3> QED
        BY <2>1, <3>1, FinishedWithin
    <2>5. CASE GoTo(AfterObject)
      BY <1>9, <2>1, <2>2, <2>5
    <2> QED
      BY <1>12, <2>3, <2>4, <2>5 DEF WriteSemantics, WriteUnits
  <1>13. CASE Push
    <2>1. /\ UNCHANGED <<job, i, allOk, object>> /\ pc = "push" /\ pc' = "input"
          /\ tempObjects' = Append(tempObjects, i)
      BY <1>13 DEF Push
    <2>2. object[i] = "whole" /\ Compiled(i) /\ pc \in Body
      BY <2>1 DEF OnPath, Body
    <2> QED
      BY <2>1, <2>2, FinishedOne
  <1>14. CASE LoopDone
    <2>1. pc = "looped" /\ UNCHANGED <<job, object>> /\ status = "running"
      BY <1>14 DEF LoopDone
    <2>2. \/ pc' \in {"done", "cleanup"}
          \/ pc' = "prepare" /\ UNCHANGED <<i, allOk, tempObjects>>
      BY <1>14, <1>j DEF LoopDone, End, CleanUp, GoTo, loop
    <2>3. CASE pc' \in {"done", "cleanup"}
      BY <2>3 DEF Finished
    <2>4. CASE pc' = "prepare" /\ UNCHANGED <<i, allOk, tempObjects>>
      <3>1. Behind' = Behind
        BY <2>1, <2>4 DEF Behind, Body
      <3> QED
        BY <2>1, <2>4, <3>1, FinishedWithin
    <2> QED
      BY <2>2, <2>3, <2>4
  <1>15. ASSUME NEW written \in BOOLEAN,
                StartLinkerFails \/ WaitLinker(written) \/ Unlink \/ Return
                \/ Watchdog \/ Killed \/ FatalError
         PROVE  Finished'
    <2>1. pc' \in {"cleanup", "done"}
      BY <1>15 DEF StartLinkerFails, WaitLinker, Unlink, Return, Watchdog, Killed, FatalError,
                   Abandon, CleanUp, End
    <2> QED
      BY <2>1 DEF Finished
  <1>16. ASSUME UNCHANGED <<job, pc, loop, object>> PROVE Finished'
    <2>1. UNCHANGED <<i, allOk, tempObjects>>
      BY <1>16 DEF loop
    <2>2. Behind' = Behind
      BY <1>16, <2>1 DEF Behind
    <2>3. CASE pc \in {"cleanup", "done"}
      BY <1>16, <2>3 DEF Finished
    <2>4. CASE pc \notin {"cleanup", "done"}
      BY <1>16, <2>1, <2>2, <2>4, FinishedWithin
    <2> QED
      BY <2>3, <2>4
  <1>17. CASE LinkerWrites \/ LinkerEnds \/ UNCHANGED vars
    BY <1>16, <1>17 DEF LinkerWrites, LinkerEnds, vars, driver
  <1> QED
    BY <1>1, <1>2, <1>4, <1>5, <1>6, <1>7, <1>8, <1>10, <1>11, <1>12, <1>13, <1>14,
       <1>15, <1>17 DEF Next, Ended

-----------------------------------------------------------------------------
LEMMA DriverInitial == Init => DriverInv
  <1> SUFFICES ASSUME Init PROVE DriverInv
    OBVIOUS
  <1>1. /\ job \in Jobs /\ Count \in Nat
        /\ job.mode \in {"compile", "link", "manifest", "plain"}
    BY JobFacts DEF Init
  <1>2. object \in [1..Count -> {"old", "absent", "empty", "torn", "whole"}]
    <2>1. object = [k \in 1..Count |-> IF job.mode = "link" THEN "absent" ELSE "old"]
      BY DEF Init
    <2> QED
      BY <2>1
  <1>3. DriverTyped
    <2>1. /\ pc = "start" /\ status = "running" /\ i = 0 /\ allOk = TRUE /\ code = "success"
          /\ todo = <<>> /\ tempObjects = <<>> /\ warned = FALSE /\ child = "none"
          /\ semantics = "old" /\ units = "old"
      BY DEF Init
    <2>2. todo \in Seq(Symbol) /\ tempObjects \in Seq(1..Count)
      BY <2>1
    <2>3. i \in 0..Count
      BY <1>1, <2>1
    <2>4. pc \in Places /\ pc \notin Body
      BY <2>1 DEF Places, Body
    <2> QED
      BY <1>1, <1>2, <2>1, <2>2, <2>3, <2>4 DEF DriverTyped
  <1>4. Waiting
    BY DEF Init, Waiting
  <1>5. OnPath
    BY DEF Init, OnPath, Body
  <1>6. Finished
    <2>1. Behind = 0 /\ tempObjects = <<>>
      BY DEF Init, Behind, Body
    <2>2. <<>> = [k \in 1..0 |-> k]
      OBVIOUS
    <2> QED
      BY <2>1, <2>2 DEF Finished
  <1> QED
    BY <1>3, <1>4, <1>5, <1>6 DEF DriverInv

(* What is known at each place of the driver, for every job.                 *)
THEOREM DriverCorrect == Spec => []DriverInv
  <1>1. DriverInv /\ [Next]_vars => DriverInv'
    BY TypedKept, WaitingKept, OnPathKept, FinishedKept DEF DriverInv
  <1> QED
    BY <1>1, DriverInitial, PTL DEF Spec

(* Only the collection of symbols touches the ledger.                        *)
LEMMA LedgerUntouched ==
    ASSUME [Next]_vars
    PROVE  Collect \/ UNCHANGED ledger
  BY DEF Next, vars, Start, NextInput, NextInputFails, InputsDone, Compile, Judge, WaitLinker,
         Lower, StartClang, StartClangFails, ClangEnds, WaitClang, EmitBegins, EmitEnds,
         EmitFails, WriteSemantics, WriteUnits, Push, PushFails, LoopDone, StartLinker,
         StartLinkerFails, LinkerWrites, LinkerEnds, Unlink, Return, Watchdog, Killed,
         FatalError, Ended

LEMMA JobKept ==
    ASSUME [Next]_vars
    PROVE  job' = job
  BY DEF Next, vars, driver, Start, NextInput, NextInputFails, InputsDone, Compile, Judge,
         WaitLinker, Collect,
         Lower, StartClang, StartClangFails, ClangEnds, WaitClang, EmitBegins, EmitEnds,
         EmitFails, WriteSemantics, WriteUnits, Push, PushFails, LoopDone, StartLinker,
         StartLinkerFails, LinkerWrites, LinkerEnds, Unlink, Return, Watchdog, Killed,
         FatalError, Ended

LEMMA StepOfLedger ==
    ASSUME DriverTyped, [Next]_vars
    PROVE  [LedgerNext]_ledger
  <1>1. CASE Collect
    <2>1. ASSUME todo # <<>>, Take(Head(todo)) \/ TakeFails(Head(todo)) \/ PassOver(Head(todo))
          PROVE  LedgerNext
      <3>1. Head(todo) \in Symbol
        <4>1. todo \in Seq(Symbol)
          BY DEF DriverTyped
        <4> HIDE DEF Symbol
        <4> QED
          BY <2>1, <4>1
      <3> QED
        BY <2>1, <3>1 DEF LedgerNext
    <2> QED
      BY <1>1, <2>1 DEF Collect, LedgerNext
  <1> QED
    BY <1>1, LedgerUntouched

(* main_run_driver_mode uses the ledger only as the callback does: with      *)
(* respect to the ledger and its index, the driver implements LedgerSpec,    *)
(* whatever fails between two translation units.                             *)
THEOREM DriverImplementsLedger == Spec => LedgerSpec
  <1>1. Init => LedgerInit
    BY DEF Init
  <1>2. DriverInv /\ [Next]_vars => [LedgerNext]_ledger
    BY StepOfLedger DEF DriverInv
  <1> QED
    BY <1>1, <1>2, DriverCorrect, PTL DEF Spec, LedgerSpec

(* In every invocation the conflict that is reported names the first of the  *)
(* declarations that conflict.                                               *)
THEOREM DriverFirstConflict == Spec => []FirstConflictReported
  BY DriverImplementsLedger, FirstConflict, PTL

=============================================================================
