------------------------------ MODULE HashTable ------------------------------
(***************************************************************************)
(* Hash tables of the kernel (lib/kernel/hash.c): chained buckets, moved   *)
(* to another number of buckets as the table grows and shrinks.            *)
(***************************************************************************)
EXTENDS Integers, Sequences, FiniteSets, SequencesExt, FiniteSetsExt

CONSTANTS
    HashElem,                 \* elements: [key, id]; equal keys are equal to LESS
    MinBuckets,               \* 4
    BEST_ELEMS_PER_BUCKET     \* 2

ASSUME HashAssumption == MinBuckets \in Nat \ {0} /\ BEST_ELEMS_PER_BUCKET \in Nat \ {0}

VARIABLES
    ht_buckets,   \* sequences of elements, from 0
    ht_cnt,       \* elem_cnt
    ht_iter,      \* a hash_iterator [bucket, at], or one that is not in use
    ht_seen,      \* history: what the iterator has returned
    ht_abs        \* history: the elements in the table

hashVars == <<ht_buckets, ht_cnt, ht_iter, ht_seen, ht_abs>>
NoIter == [bucket |-> 0, at |-> -1]
-----------------------------------------------------------------------------
HashTableOf(cnt) == [i \in 0..cnt - 1 |-> <<>>]
bucket_cnt(h) == Cardinality(DOMAIN h)
\* The hash of an element is its key here.
find_bucket(h, e) == e.key % bucket_cnt(h)
find_elem(h, e) == {x \in ToSet(h[find_bucket(h, e)]) : x.key = e.key}
insert_elem(h, e) == [h EXCEPT ![find_bucket(h, e)] = <<e>> \o @]
remove_elem(h, e) == [h EXCEPT ![find_bucket(h, e)] = SelectSeq(@, LAMBDA x : x # e)]

\* Bits are turned off from the lowest until one is left.
RECURSIVE HighBit(_)
HighBit(x) == IF x = 1 THEN 1 ELSE 2 * HighBit(x \div 2)
ideal_bucket_cnt(n) ==
    LET best == n \div BEST_ELEMS_PER_BUCKET IN HighBit(IF best < MinBuckets THEN MinBuckets ELSE best)

\* Every element, bucket by bucket, to the front of its new bucket.
moved(old, new) ==
    LET in == FlattenSeq([i \in 1..bucket_cnt(old) |-> old[i - 1]])
    IN  FoldLeft(insert_elem, new, in)
rehash(h, n) ==
    IF ideal_bucket_cnt(n) = bucket_cnt(h) THEN h ELSE moved(h, HashTableOf(ideal_bucket_cnt(n)))

\* The table h with n elements, rehashed or, without memory for it, as it is.
Settles(h, n) ==
    /\ ht_buckets' \in {rehash(h, n), h}
    /\ ht_cnt' = n
    /\ ht_iter' = NoIter /\ ht_seen' = {}
-----------------------------------------------------------------------------
hash_insert(e) ==
    LET old == find_elem(ht_buckets, e)
    IN  /\ IF old = {} THEN Settles(insert_elem(ht_buckets, e), ht_cnt + 1) ELSE Settles(ht_buckets, ht_cnt)
        /\ ht_abs' = IF \E x \in ht_abs : x.key = e.key THEN ht_abs ELSE ht_abs \cup {e}
hash_replace(e) ==
    LET old == find_elem(ht_buckets, e)
        h == FoldSet(LAMBDA x, g : remove_elem(g, x), ht_buckets, old)
    IN  /\ e \notin ht_abs
        /\ Settles(insert_elem(h, e), ht_cnt - Cardinality(old) + 1)
        /\ ht_abs' = {x \in ht_abs : x.key # e.key} \cup {e}
hash_delete(e) ==
    LET old == find_elem(ht_buckets, e)
    IN  /\ IF old = {} THEN UNCHANGED <<ht_buckets, ht_cnt, ht_iter, ht_seen>>
           ELSE \E x \in old : Settles(remove_elem(ht_buckets, x), ht_cnt - 1)
        /\ ht_abs' = {x \in ht_abs : x.key # e.key}
hash_clear ==
    /\ ht_buckets' = HashTableOf(bucket_cnt(ht_buckets)) /\ ht_cnt' = 0
    /\ ht_iter' = NoIter /\ ht_seen' = {} /\ ht_abs' = {}

hash_first ==
    /\ ht_iter' = [bucket |-> 0, at |-> 0] /\ ht_seen' = {}
    /\ UNCHANGED <<ht_buckets, ht_cnt, ht_abs>>
\* The next element: further on in the bucket, or the first of the next bucket
\* that has one, or none.
hash_next ==
    LET i == ht_iter
        later == {b \in DOMAIN ht_buckets : b > i.bucket /\ ht_buckets[b] # <<>>}
        to == IF i.at < Len(ht_buckets[i.bucket]) THEN [i EXCEPT !.at = @ + 1]
              ELSE IF later # {} THEN [bucket |-> Min(later), at |-> 1] ELSE NoIter
    IN  /\ i # NoIter
        /\ ht_iter' = to
        /\ ht_seen' = IF to = NoIter THEN ht_seen ELSE ht_seen \cup {ht_buckets[to.bucket][to.at]}
        /\ UNCHANGED <<ht_buckets, ht_cnt, ht_abs>>
-----------------------------------------------------------------------------
HashInit ==
    /\ ht_buckets = HashTableOf(MinBuckets) /\ ht_cnt = 0
    /\ ht_iter = NoIter /\ ht_seen = {} /\ ht_abs = {}
HashNext ==
    \/ \E e \in HashElem : hash_insert(e) \/ hash_replace(e) \/ hash_delete(e)
    \/ hash_clear \/ hash_first \/ hash_next
HashSpec == HashInit /\ [][HashNext]_hashVars
-----------------------------------------------------------------------------
(***************************************************************************)
(* Properties.                                                             *)
(***************************************************************************)

HashTypeOK ==
    /\ \A b \in DOMAIN ht_buckets : ToSet(ht_buckets[b]) \subseteq HashElem
    /\ ht_cnt \in Nat /\ ht_seen \subseteq HashElem /\ ht_iter.bucket \in DOMAIN ht_buckets

\* The table is the set of the elements put in and not taken out, each of them
\* found through its bucket whatever the number of buckets was when it came in and
\* whether or not there was memory to rehash; elem_cnt counts them; and an iterator
\* that comes to its end has returned each of them.
HashAgrees ==
    /\ HashTypeOK
    /\ ht_cnt = Cardinality(ht_abs)
    /\ \A e \in HashElem : find_elem(ht_buckets, e) = {x \in ht_abs : x.key = e.key}
    /\ FoldFunction(LAMBDA s, n : Len(s) + n, 0, ht_buckets) = ht_cnt
    /\ ht_seen \subseteq ht_abs
    /\ (ht_iter # NoIter /\ ~ENABLED (hash_next /\ ht_iter' # NoIter)) => ht_seen = ht_abs
=============================================================================
