----------------------------- MODULE HashTable ------------------------------
(***************************************************************************)
(* The chained hash table of util.c, in which every scope of the symbol    *)
(* table keeps its variables, functions and types.  A bucket is a list     *)
(* (LinkedList), used here as the sequence it implements (SeqList).        *)
(***************************************************************************)
EXTENDS Integers, Sequences, FiniteSets

CONSTANTS
  Key, Val,               \* keys up to tab->comp, and the values stored
  MISSING,                \* the pointer -1; a stored value may be equal to it
  NumBuckets,             \* tab->num_buckets
  Hash,                   \* tab->hash: any function of the key
  MaxInserts              \* bound: calls of hash_insert

ASSUME HashTableAssumption ==
  /\ NumBuckets \in Nat \ {0}
  /\ Hash \in [Key -> Nat]
  /\ MISSING \in Val
  /\ MaxInserts \in Nat

VARIABLES
  buckets,                \* tab->buckets: one sequence of entries each
  released,               \* history: the values handed to tab->val_dtor
  inserted,               \* history: the values handed to hash_insert
  freed                   \* hash_free has run

vars == <<buckets, released, inserted, freed>>

Bucket == 0..(NumBuckets - 1)
Entry == [key : Key, val : Val]

(* The macro HASH. *)
HASH(k) == Hash[k] % NumBuckets

(* The positions of a bucket whose key compares equal to k. *)
Hits(bucket, k) == {i \in DOMAIN bucket : bucket[i].key = k}

(* hash_lookup answers the first hit. *)
Lookup(k) ==
  LET b == buckets[HASH(k)]
      hits == Hits(b, k)
  IN  IF hits = {} THEN MISSING
      ELSE b[CHOOSE i \in hits : \A j \in hits : i <= j].val

-----------------------------------------------------------------------------
(* hash_new: every bucket an empty list. *)
Init ==
  /\ buckets = [b \in Bucket |-> <<>>]
  /\ released = <<>>
  /\ inserted = <<>>
  /\ freed = FALSE

(* Faulty variants, to see properties fail.  An insertion that does not    *)
(* look for the key, and one that does not release the old value.          *)
ReplaceByAppend(k, v) ==
  /\ Hits(buckets[HASH(k)], k) # {}
  /\ ~freed /\ Len(inserted) < MaxInserts
  /\ buckets' = [buckets EXCEPT ![HASH(k)] = Append(@, [key |-> k, val |-> v])]
  /\ inserted' = Append(inserted, v)
  /\ UNCHANGED <<released, freed>>

ReplaceKeepsOld(k, v) ==
  /\ Hits(buckets[HASH(k)], k) # {}
  /\ ~freed /\ Len(inserted) < MaxInserts
  /\ \E i \in Hits(buckets[HASH(k)], k) :
       buckets' = [buckets EXCEPT ![HASH(k)][i].val = v]
  /\ inserted' = Append(inserted, v)
  /\ UNCHANGED <<released, freed>>

(* hash_insert of a key already present: the whole bucket is scanned, the  *)
(* last hit has its value released and replaced; its key stays.            *)
Replace(k, v) ==
  LET b == buckets[HASH(k)]
      hits == Hits(b, k)
  IN  /\ ~freed /\ Len(inserted) < MaxInserts
      /\ \E i \in hits :
           /\ \A j \in hits : j <= i
           /\ released' = Append(released, b[i].val)
           /\ buckets' = [buckets EXCEPT ![HASH(k)] = [b EXCEPT ![i].val = v]]
      /\ inserted' = Append(inserted, v)
      /\ freed' = freed

(* A faulty variant, to see TypeOK fail: key and value exchanged. *)
InsertSwapped(k, v) ==
  /\ ~freed /\ Len(inserted) < MaxInserts
  /\ Hits(buckets[HASH(k)], k) = {}
  /\ buckets' = [buckets EXCEPT ![HASH(k)] = Append(@, [key |-> v, val |-> k])]
  /\ inserted' = Append(inserted, v)
  /\ UNCHANGED <<released, freed>>

(* hash_insert otherwise: a new entry at the end of the bucket. *)
Insert(k, v) ==
  /\ ~freed /\ Len(inserted) < MaxInserts
  /\ Hits(buckets[HASH(k)], k) = {}
  /\ buckets' = [buckets EXCEPT ![HASH(k)] = Append(@, [key |-> k, val |-> v])]
  /\ inserted' = Append(inserted, v)
  /\ UNCHANGED <<released, freed>>

(* The values of a bucket in list order, and of the table in bucket order. *)
Vals(bucket) == [i \in DOMAIN bucket |-> bucket[i].val]
AllVals[b \in -1..(NumBuckets - 1)] ==
  IF b = -1 THEN <<>> ELSE AllVals[b - 1] \o Vals(buckets[b])

(* hash_free walks every bucket and releases every value. *)
Free ==
  /\ ~freed
  /\ freed' = TRUE
  /\ released' = released \o AllVals[NumBuckets - 1]
  /\ UNCHANGED <<buckets, inserted>>

Next ==
  \/ \E k \in Key, v \in Val : Replace(k, v)
  \/ \E k \in Key, v \in Val : Insert(k, v)
  \/ Free

Spec == Init /\ [][Next]_vars

-----------------------------------------------------------------------------
(* HFOREACH: `__bucket` starts at bucket 0 and is advanced with            *)
(* hm->buckets[__hi++], the bucket of the index before the increment.      *)
VisitedBucket(step) == IF step = 0 THEN 0 ELSE step - 1

(* How often HFOREACH visits bucket b in its NumBuckets rounds. *)
Visits(b) == Cardinality({step \in Bucket : VisitedBucket(step) = b})

-----------------------------------------------------------------------------
TypeOK ==
  /\ buckets \in [Bucket -> Seq(Entry)]
  /\ released \in Seq(Val)
  /\ inserted \in Seq(Val)
  /\ freed \in BOOLEAN

(* A key lives in the bucket its hash names, and only once. *)
OneEntryPerKey ==
  \A b \in Bucket : \A i, j \in DOMAIN buckets[b] :
    /\ HASH(buckets[b][i].key) = b
    /\ buckets[b][i].key = buckets[b][j].key => i = j

Count(s, v) == Cardinality({i \in DOMAIN s : s[i] = v})

(* Every value handed to hash_insert is in the table or was handed to      *)
(* val_dtor, once; after hash_free all of them were.                       *)
ValuesConserved ==
  \A v \in Val :
    Count(inserted, v) =
      Count(released, v) + IF freed THEN 0 ELSE Count(AllVals[NumBuckets - 1], v)

(* The table implements the map: what hash_lookup answers is what was      *)
(* inserted last.                                                          *)
Abstract == INSTANCE KeyMap WITH
  map <- [k \in Key |-> Lookup(k)], log <- inserted

ImplementsKeyMap == Abstract!Spec

(* analysis.c, before the first HFOREACH over a scope's variables: "Go     *)
(* over all our locals".  HFOREACH visits every entry of the table.        *)
VisitsEveryEntry ==
  \A b \in Bucket : buckets[b] # <<>> => Visits(b) >= 1
=============================================================================
