------------------------------ MODULE CrossTU ------------------------------
(* The ledger of external declarations that link mode keeps while it         *)
(* compiles one translation unit after the other (main_diagnostics.c), and   *)
(* the hash index over it (main_cross_tu_index.c).  A symbol is compared     *)
(* with the entries of its bucket, in the order of the chain, and is entered *)
(* in the ledger when none of them conflicts with it.                        *)
(*                                                                           *)
(* Entries are numbered from 1, so that NONE, CROSS_TU_INDEX_NONE, is 0.     *)
(* One step of the specification is one turn of a loop of the code.          *)
EXTENDS Integers, Sequences

CONSTANTS Name,           \* the names of symbols
          Base,           \* types without array bounds and parameters
          Promoted,       \* the types that the default argument promotions keep
          Hash,           \* the FNV hash of a name and a kind, before masking
          InitialBuckets  \* 64 in the code

Kind == {"variable", "function"}

ASSUME CrossTUAssumption ==
    /\ Hash \in [Name \X Kind -> Nat]
    /\ InitialBuckets \in Nat \ {0}

NONE == 0

(* A type: its base, the bounds of its array derivations (0 for an incomplete *)
(* one), and, for a function, its parameters.                                *)
Type == [base : Base, dims : Seq(Nat), params : Seq(Base),
         hasPrototype : BOOLEAN, isVariadic : BOOLEAN]

Symbol == [name : Name, kind : Kind, type : Type, static : BOOLEAN,
           hasDefinition : BOOLEAN, declared : BOOLEAN]

VARIABLES
    items,         \* the ledger: declarations in the order they were entered
    nextInBucket,  \* for each entry, the next one of its bucket or NONE
    bucketCount, buckets,
    fresh, linked, \* the buckets under construction and the entries linked so far
    stage,         \* what the callback is doing
    sym, cursor,   \* the symbol in hand and the entry it is compared with
    conflict,      \* the conflict that was found
    oom

ledger == <<items, nextInBucket, bucketCount, buckets, fresh, linked, stage,
            sym, cursor, conflict, oom>>

NoConflict == [found |-> FALSE]
NoSymbol == [name |-> "none"]

-----------------------------------------------------------------------------
(* Which symbols are entered and which pairs conflict.                       *)

(* declared says that a variable is tentative or declared extern.            *)
Recorded(s) ==
    \/ s.kind = "variable" /\ ~s.static /\ (s.hasDefinition \/ s.declared)
    \/ s.kind = "function" /\ ~s.static /\ s.hasDefinition

cross_tu_array_bounds_compatible(a, b) ==
    /\ Len(a.dims) = Len(b.dims)
    /\ \A i \in 1..Len(a.dims) :
           a.dims[i] # 0 /\ b.dims[i] # 0 => a.dims[i] = b.dims[i]

KeptByPromotion(t) == ~t.isVariadic /\ \A i \in DOMAIN t.params : t.params[i] \in Promoted

cross_tu_function_signatures_match(a, b) ==
    CASE ~a.hasPrototype /\ ~b.hasPrototype -> TRUE
      [] a.hasPrototype /\ ~b.hasPrototype -> KeptByPromotion(a)
      [] ~a.hasPrototype /\ b.hasPrototype -> KeptByPromotion(b)
      [] OTHER -> a.params = b.params /\ a.isVariadic = b.isVariadic

Compatible(s, a, b) ==
    /\ a.base = b.base
    /\ IF s.kind = "function" THEN cross_tu_function_signatures_match(a, b)
                              ELSE cross_tu_array_bounds_compatible(a, b)

Conflicting(prior, s) ==
    /\ prior.name = s.name /\ prior.kind = s.kind
    /\ ~Compatible(s, prior.type, s.type)
    /\ s.kind = "function" \/ prior.hasDefinition \/ s.hasDefinition

-----------------------------------------------------------------------------
(* The index.                                                                *)

cross_tu_bucket(s, count) == Hash[s.name, s.kind] % count

EmptyBuckets(count) == [b \in 0..(count - 1) |-> [head |-> NONE, tail |-> NONE]]

(* cross_tu_index_link of entry e in bucket b: what it does to the chains    *)
(* and to the buckets.                                                       *)
\* Faulty variant: the entry is put in front of the chain, whose head stays.
LinkedNext_prepending(chain, bs, b, e) ==
    [i \in DOMAIN chain \cup {e} |-> IF i = e THEN bs[b].head ELSE chain[i]]
LinkedNext(chain, bs, b, e) ==
    [i \in DOMAIN chain \cup {e} |->
        IF i = e THEN NONE ELSE IF i = bs[b].tail THEN e ELSE chain[i]]

LinkedBuckets(bs, b, e) ==
    [bs EXCEPT ![b] = [head |-> IF bs[b].tail = NONE THEN e ELSE bs[b].head,
                       tail |-> e]]

main_cross_tu_index_first(s) ==
    IF bucketCount = 0 THEN NONE ELSE buckets[cross_tu_bucket(s, bucketCount)].head

-----------------------------------------------------------------------------
(* cross_tu_collect_symbol_cb for one symbol.                                *)

LedgerInit ==
    /\ items = <<>> /\ nextInBucket = [i \in {} |-> NONE]
    /\ bucketCount = 0 /\ buckets = EmptyBuckets(0)
    /\ fresh = EmptyBuckets(0) /\ linked = 0
    /\ stage = "idle" /\ sym = NoSymbol /\ cursor = NONE
    /\ conflict = NoConflict /\ oom = FALSE

OutOfMemory ==
    /\ oom' = TRUE /\ stage' = "idle"
    /\ UNCHANGED <<items, nextInBucket, bucketCount, buckets, fresh, linked,
                   sym, cursor, conflict>>

(* The early returns: after a conflict or a failed allocation every further  *)
(* symbol is passed over, and so is one that is not recorded.                *)
PassOver(s) ==
    /\ stage = "idle"
    /\ oom \/ conflict.found \/ ~Recorded(s)
    /\ UNCHANGED ledger

Take(s) ==
    /\ stage = "idle" /\ ~oom /\ ~conflict.found /\ Recorded(s)
    /\ sym' = s /\ cursor' = main_cross_tu_index_first(s) /\ stage' = "walk"
    /\ UNCHANGED <<items, nextInBucket, bucketCount, buckets, fresh, linked,
                   conflict, oom>>

(* The signature of a function could not be cloned.                          *)
TakeFails(s) ==
    /\ stage = "idle" /\ ~oom /\ ~conflict.found /\ Recorded(s)
    /\ s.kind = "function"
    /\ OutOfMemory

(* One turn of the loop over the chain.  cross_tu_set_type_conflict copies   *)
(* strings and may fail, which leaves no conflict.                           *)
Compare ==
    /\ stage = "walk" /\ cursor # NONE
    /\ ~Conflicting(items[cursor], sym)
    /\ cursor' = nextInBucket[cursor]
    /\ UNCHANGED <<items, nextInBucket, bucketCount, buckets, fresh, linked,
                   stage, sym, conflict, oom>>

Oppose ==
    /\ stage = "walk" /\ cursor # NONE
    /\ Conflicting(items[cursor], sym)
    /\ conflict' = [found |-> TRUE, prior |-> cursor, symbol |-> sym]
    /\ stage' = "idle"
    /\ UNCHANGED <<items, nextInBucket, bucketCount, buckets, fresh, linked,
                   sym, cursor, oom>>

OpposeFails ==
    /\ stage = "walk" /\ cursor # NONE
    /\ Conflicting(items[cursor], sym)
    /\ OutOfMemory

(* main_cross_tu_index_reserve: room for one more entry.                     *)
HasRoom == bucketCount # 0 /\ Len(items) < bucketCount

FreshCount == IF bucketCount = 0 THEN InitialBuckets ELSE 2 * bucketCount

Reserve ==
    /\ stage = "walk" /\ cursor = NONE
    /\ IF HasRoom
       THEN stage' = "append" /\ UNCHANGED <<fresh, linked>>
       ELSE stage' = "rebuild" /\ fresh' = EmptyBuckets(FreshCount) /\ linked' = 0
    /\ UNCHANGED <<items, nextInBucket, bucketCount, buckets, sym, cursor,
                   conflict, oom>>

ReserveFails ==
    /\ stage = "walk" /\ cursor = NONE /\ ~HasRoom
    /\ OutOfMemory

(* The rebuild overwrites the chains of the old buckets in place.            *)
\* Faulty variant: the entries are linked again from the last to the first.
Relink_backwards ==
    /\ stage = "rebuild" /\ linked < Len(items)
    /\ LET e == Len(items) - linked
           b == cross_tu_bucket(items[e], FreshCount)
       IN  /\ nextInBucket' = LinkedNext(nextInBucket, fresh, b, e)
           /\ fresh' = LinkedBuckets(fresh, b, e)
           /\ linked' = linked + 1
    /\ UNCHANGED <<items, bucketCount, buckets, stage, sym, cursor, conflict, oom>>
Relink ==
    /\ stage = "rebuild" /\ linked < Len(items)
    /\ LET e == linked + 1
           b == cross_tu_bucket(items[e], FreshCount)
       IN  /\ nextInBucket' = LinkedNext(nextInBucket, fresh, b, e)
           /\ fresh' = LinkedBuckets(fresh, b, e)
           /\ linked' = e
    /\ UNCHANGED <<items, bucketCount, buckets, stage, sym, cursor, conflict, oom>>

Install ==
    /\ stage = "rebuild" /\ linked = Len(items)
    /\ buckets' = fresh /\ bucketCount' = FreshCount /\ stage' = "append"
    /\ UNCHANGED <<items, nextInBucket, fresh, linked, sym, cursor, conflict, oom>>

(* The rest of cross_tu_var_defs_push: the array of items is grown, the      *)
(* strings and types are copied, and the new entry is linked.                *)
Enter ==
    /\ stage = "append"
    /\ LET e == Len(items) + 1
           b == cross_tu_bucket(sym, bucketCount)
       IN  /\ items' = Append(items, sym)
           /\ nextInBucket' = LinkedNext(nextInBucket, buckets, b, e)
           /\ buckets' = LinkedBuckets(buckets, b, e)
    /\ stage' = "idle"
    /\ UNCHANGED <<bucketCount, fresh, linked, sym, cursor, conflict, oom>>

EnterFails == stage = "append" /\ OutOfMemory

LedgerStep ==
    \/ Compare \/ Oppose \/ OpposeFails \/ Reserve \/ ReserveFails
    \/ Relink \/ Install \/ Enter \/ EnterFails

LedgerNext ==
    \/ LedgerStep
    \/ \E s \in Symbol : Take(s) \/ TakeFails(s) \/ PassOver(s)

LedgerSpec == LedgerInit /\ [][LedgerNext]_ledger

-----------------------------------------------------------------------------
(* The declaration that is reported with a conflict is the first one in the  *)
(* ledger that conflicts, whatever the hash function and however often the   *)
(* index was rebuilt: "Rebuild in ledger order so that the first conflicting *)
(* prior declaration and its source remain stable."                          *)
FirstConflictReported ==
    conflict.found =>
        /\ conflict.prior \in 1..Len(items)
        /\ Conflicting(items[conflict.prior], conflict.symbol)
        /\ \A i \in 1..(conflict.prior - 1) : ~Conflicting(items[i], conflict.symbol)

(* No declaration of the ledger conflicts with an earlier one: following the *)
(* chain of one bucket misses no entry, also right after a rebuild.          *)
LedgerConsistent ==
    \A i, j \in 1..Len(items) : i < j => ~Conflicting(items[i], items[j])
=============================================================================
