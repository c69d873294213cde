-------------------------- MODULE HashTableProofs ---------------------------
(***************************************************************************)
(* Proofs about HashTable: a key has one entry, in the bucket its hash     *)
(* names, the table implements KeyMap, and no value is lost or released    *)
(* twice, for every hash function and every number of buckets.             *)
(***************************************************************************)
EXTENDS HashTable, FiniteSetTheorems, SequenceTheorems, NaturalsInduction,
        WellFoundedInduction, TLAPS

(* What the proofs need: the buckets are sequences of entries and a key    *)
(* has one entry.  The history of released values plays no part.           *)
IInv ==
  /\ buckets \in [Bucket -> Seq(Entry)]
  /\ inserted \in Seq(Val)
  /\ freed \in BOOLEAN
  /\ OneEntryPerKey

(* The macro HASH gives an index of tab->buckets. *)
LEMMA HashInRange == ASSUME NEW k \in Key PROVE HASH(k) \in Bucket
  BY HashTableAssumption DEF HASH, Bucket

(* hash_lookup's search of one bucket. *)
LookupIn(d, n) ==
  IF Hits(d, n) = {} THEN MISSING
  ELSE d[CHOOSE i \in Hits(d, n) : \A j \in Hits(d, n) : i <= j].val

(* Where a bucket has one entry for the key, the search answers its value. *)
LEMMA SearchHit ==
  \A d \in Seq(Entry), n \in Key : \A i \in DOMAIN d :
    d[i].key = n /\ (\A j \in DOMAIN d : d[j].key = n => j = i)
      => LookupIn(d, n) = d[i].val
<1> SUFFICES ASSUME NEW d \in Seq(Entry), NEW n \in Key, NEW i \in DOMAIN d, d[i].key = n,
                    \A j \in DOMAIN d : d[j].key = n => j = i
             PROVE  LookupIn(d, n) = d[i].val
  OBVIOUS
<1>1. Hits(d, n) = {i}
  BY DEF Hits
<1>2. (CHOOSE h \in {i} : \A j \in {i} : h <= j) = i
  <2>1. i <= i
    OBVIOUS
  <2> QED
    BY <2>1
<1> QED
  BY <1>1, <1>2 DEF LookupIn

(* Where it has none, the search answers MISSING. *)
LEMMA SearchMiss ==
  \A d \in Seq(Entry), n \in Key :
    (\A j \in DOMAIN d : d[j].key # n) => LookupIn(d, n) = MISSING
  BY DEF LookupIn, Hits

(* An empty table satisfies the invariant. *)
LEMMA InitIInv == Init => IInv
<1> SUFFICES ASSUME Init PROVE IInv
  OBVIOUS
<1>1. buckets \in [Bucket -> Seq(Entry)]
  BY DEF Init
<1>2. OneEntryPerKey
  BY DEF Init, OneEntryPerKey
<1>3. inserted \in Seq(Val) /\ freed \in BOOLEAN
  <2>1. <<>> \in Seq(Val)
    OBVIOUS
  <2> QED
    BY <2>1 DEF Init
<1> QED
  BY <1>1, <1>2, <1>3 DEF IInv

(* Replacing the value of an entry keeps its key and its place. *)
LEMMA ReplaceIInv ==
  ASSUME IInv, NEW k \in Key, NEW v \in Val, Replace(k, v)
  PROVE  IInv'
<1> DEFINE b == buckets[HASH(k)]
<1>1. HASH(k) \in Bucket
  BY HashInRange
<1>2. b \in Seq(Entry)
  BY <1>1 DEF IInv
<1>3. PICK i \in Hits(b, k) :
        buckets' = [buckets EXCEPT ![HASH(k)] = [b EXCEPT ![i].val = v]]
  BY DEF Replace
<1>4. i \in DOMAIN b /\ b[i] \in Entry
  BY <1>2, <1>3 DEF Hits
<1> DEFINE c == [b EXCEPT ![i].val = v]
<1>5. c \in Seq(Entry) /\ DOMAIN c = DOMAIN b
  BY <1>2, <1>4 DEF Entry
<1>6. \A j \in DOMAIN b : c[j].key = b[j].key
  BY <1>2, <1>4 DEF Entry
<1>7. buckets' \in [Bucket -> Seq(Entry)] /\ buckets'[HASH(k)] = c
      /\ \A x \in Bucket : x # HASH(k) => buckets'[x] = buckets[x]
  BY <1>1, <1>3, <1>5 DEF IInv
<1>8. OneEntryPerKey'
  <2> SUFFICES ASSUME NEW x \in Bucket, NEW p \in DOMAIN buckets'[x], NEW q \in DOMAIN buckets'[x]
               PROVE  /\ HASH(buckets'[x][p].key) = x
                      /\ buckets'[x][p].key = buckets'[x][q].key => p = q
    BY DEF OneEntryPerKey, HASH, Bucket
  <2>1. p \in DOMAIN buckets[x] /\ q \in DOMAIN buckets[x]
    BY <1>5, <1>7
  <2>2. \A j \in DOMAIN buckets[x] : buckets'[x][j].key = buckets[x][j].key
    <3>1. CASE x = HASH(k)
      <4>1. buckets'[x] = c /\ buckets[x] = b
        BY <1>7, <3>1
      <4> HIDE DEF b, c
      <4> QED
        BY <1>6, <4>1
    <3>2. CASE x # HASH(k)
      BY <1>7, <3>2
    <3> QED
      BY <3>1, <3>2
  <2> QED
    BY <2>1, <2>2 DEF IInv, OneEntryPerKey
<1> QED
  BY <1>7, <1>8 DEF IInv, Replace, Bucket

(* A new entry goes where no other entry has its key. *)
LEMMA InsertIInv ==
  ASSUME IInv, NEW k \in Key, NEW v \in Val, Insert(k, v)
  PROVE  IInv'
<1> DEFINE b == buckets[HASH(k)]
           e == [key |-> k, val |-> v]
           c == Append(b, e)
<1>1. HASH(k) \in Bucket
  BY HashInRange
<1>2. b \in Seq(Entry) /\ e \in Entry
  BY <1>1 DEF IInv, Entry
<1>3. buckets' = [buckets EXCEPT ![HASH(k)] = c]
  BY DEF Insert
<1>4. /\ c \in Seq(Entry) /\ DOMAIN c = 1..(Len(b) + 1)
      /\ DOMAIN b = 1..Len(b) /\ Len(b) \in Nat
      /\ c[Len(b) + 1] = e /\ \A j \in 1..Len(b) : c[j] = b[j]
  BY <1>2
<1>5. buckets' \in [Bucket -> Seq(Entry)] /\ buckets'[HASH(k)] = c
      /\ \A x \in Bucket : x # HASH(k) => buckets'[x] = buckets[x]
  BY <1>1, <1>3, <1>4 DEF IInv
<1>6. \A j \in DOMAIN b : b[j].key # k
  BY DEF Insert, Hits
<1>7. OneEntryPerKey'
  <2> SUFFICES ASSUME NEW x \in Bucket, NEW p \in DOMAIN buckets'[x], NEW q \in DOMAIN buckets'[x]
               PROVE  /\ HASH(buckets'[x][p].key) = x
                      /\ buckets'[x][p].key = buckets'[x][q].key => p = q
    BY DEF OneEntryPerKey, HASH, Bucket
  <2>1. CASE x # HASH(k)
    BY <1>5, <2>1 DEF IInv, OneEntryPerKey
  <2>2. CASE x = HASH(k)
    <3>1. /\ p \in 1..(Len(b) + 1) /\ q \in 1..(Len(b) + 1)
          /\ buckets'[x][p] = c[p] /\ buckets'[x][q] = c[q]
      BY <1>4, <1>5, <2>2
    <3>2. \A j \in 1..Len(b) : HASH(b[j].key) = x
      BY <1>1, <1>4, <2>2 DEF IInv, OneEntryPerKey
    <3>3. \A j, l \in 1..Len(b) : b[j].key = b[l].key => j = l
      BY <1>1, <1>4 DEF IInv, OneEntryPerKey
    <3>4. \A j \in 1..(Len(b) + 1) : j \in 1..Len(b) \/ j = Len(b) + 1
      BY <1>4
    <3>5. HASH(c[p].key) = x
      BY <1>4, <2>2, <3>1, <3>2, <3>4
    <3>6. c[p].key = c[q].key => p = q
      BY <1>4, <1>6, <3>1, <3>3, <3>4
    <3> QED
      BY <3>1, <3>5, <3>6
  <2> QED
    BY <2>1, <2>2
<1> QED
  BY <1>5, <1>7 DEF IInv, Insert, Bucket

(* Every step keeps the invariant. *)
LEMMA NextIInv == IInv /\ [Next]_vars => IInv'
<1> SUFFICES ASSUME IInv, [Next]_vars PROVE IInv'
  OBVIOUS
<1>1. ASSUME NEW k \in Key, NEW v \in Val, Replace(k, v) PROVE IInv'
  BY <1>1, ReplaceIInv
<1>2. ASSUME NEW k \in Key, NEW v \in Val, Insert(k, v) PROVE IInv'
  BY <1>2, InsertIInv
<1>3. CASE Free
  BY <1>3 DEF IInv, Free, OneEntryPerKey, Bucket, HASH
<1>4. CASE UNCHANGED vars
  BY <1>4 DEF IInv, vars, OneEntryPerKey, Bucket, HASH
<1> QED
  BY <1>1, <1>2, <1>3, <1>4 DEF Next

(* The invariant holds throughout, whatever hash_insert is called with. *)
THEOREM HashTableIInv == Spec => []IInv
  BY InitIInv, NextIInv, PTL DEF Spec

(* hash_insert never makes a second entry for a key, and every entry stays *)
(* in the bucket hash_lookup will search.                                  *)
THEOREM HashTableOneEntryPerKey == Spec => []OneEntryPerKey
<1>1. IInv => OneEntryPerKey
  BY DEF IInv
<1> QED
  BY <1>1, HashTableIInv, PTL

-----------------------------------------------------------------------------
(* hash_lookup searches the bucket its key hashes to, before and after.    *)
LEMMA LookupSearches ==
  ASSUME NEW n \in Key
  PROVE  /\ Lookup(n) = LookupIn(buckets[HASH(n)], n)
         /\ Lookup(n)' = LookupIn(buckets'[HASH(n)], n)
  BY DEF Lookup, LookupIn, HASH, Hits

(* An insertion that finds its key changes what is answered for that key   *)
(* only.                                                                   *)
LEMMA ReplaceLookup ==
  ASSUME IInv, NEW k \in Key, NEW v \in Val, Replace(k, v), NEW n \in Key
  PROVE  Lookup(n)' = IF n = k THEN v ELSE Lookup(n)
<1> DEFINE b == buckets[HASH(k)]
<1>1. HASH(k) \in Bucket /\ HASH(n) \in Bucket
  BY HashInRange
<1>2. b \in Seq(Entry)
  BY <1>1 DEF IInv
<1>3. PICK i \in Hits(b, k) :
        buckets' = [buckets EXCEPT ![HASH(k)] = [b EXCEPT ![i].val = v]]
  BY DEF Replace
<1> DEFINE c == [b EXCEPT ![i].val = v]
<1>4. i \in DOMAIN b /\ b[i].key = k /\ b[i] \in Entry
  BY <1>2, <1>3 DEF Hits
<1>5. c \in Seq(Entry) /\ DOMAIN c = DOMAIN b /\ c[i].val = v
      /\ \A j \in DOMAIN b : c[j].key = b[j].key /\ (j # i => c[j] = b[j])
  BY <1>2, <1>4 DEF Entry
<1>6. buckets'[HASH(k)] = c /\ \A x \in Bucket : x # HASH(k) => buckets'[x] = buckets[x]
  BY <1>1, <1>3 DEF IInv
<1>7. \A p, q \in DOMAIN b : b[p].key = b[q].key => p = q
  BY <1>1 DEF IInv, OneEntryPerKey
<1>8. CASE HASH(n) # HASH(k)
  <2>1. Lookup(n)' = Lookup(n)
    BY <1>1, <1>6, <1>8, LookupSearches
  <2>2. n # k
    BY <1>8
  <2> QED
    BY <2>1, <2>2
<1>9. CASE HASH(n) = HASH(k)
  <2>1. Lookup(n) = LookupIn(b, n) /\ Lookup(n)' = LookupIn(c, n)
    BY <1>6, <1>9, LookupSearches
  <2> HIDE DEF b, c
  <2>2. CASE n = k
    <3>1. LookupIn(c, n) = c[i].val
      BY <1>4, <1>5, <1>7, <2>2, SearchHit
    <3> QED
      BY <1>5, <2>1, <2>2, <3>1
  <2>3. CASE n # k /\ \A j \in DOMAIN b : b[j].key # n
    BY <1>2, <1>5, <2>1, <2>3, SearchMiss
  <2>4. CASE n # k /\ \E j \in DOMAIN b : b[j].key = n
    <3>1. PICK p \in DOMAIN b : b[p].key = n
      BY <2>4
    <3>2. LookupIn(b, n) = b[p].val
      BY <1>2, <1>7, <3>1, SearchHit
    <3>3. LookupIn(c, n) = c[p].val
      BY <1>5, <1>7, <3>1, SearchHit
    <3>4. c[p] = b[p]
      BY <1>4, <1>5, <2>4, <3>1
    <3> QED
      BY <2>1, <2>4, <3>2, <3>3, <3>4
  <2> QED
    BY <2>2, <2>3, <2>4
<1> QED
  BY <1>8, <1>9

(* So does one that does not. *)
LEMMA InsertLookup ==
  ASSUME IInv, NEW k \in Key, NEW v \in Val, Insert(k, v), NEW n \in Key
  PROVE  Lookup(n)' = IF n = k THEN v ELSE Lookup(n)
<1> DEFINE b == buckets[HASH(k)]
           e == [key |-> k, val |-> v]
           c == Append(b, e)
<1>1. HASH(k) \in Bucket /\ HASH(n) \in Bucket
  BY HashInRange
<1>2. b \in Seq(Entry) /\ e \in Entry /\ e.key = k /\ e.val = v
  BY <1>1 DEF IInv, Entry
<1>3. buckets' = [buckets EXCEPT ![HASH(k)] = c]
  BY DEF Insert
<1>4. /\ c \in Seq(Entry) /\ DOMAIN c = 1..(Len(b) + 1)
      /\ DOMAIN b = 1..Len(b) /\ Len(b) \in Nat
      /\ c[Len(b) + 1] = e /\ \A j \in 1..Len(b) : c[j] = b[j]
  BY <1>2
<1>5. \A j \in DOMAIN c : j \in DOMAIN b \/ j = Len(b) + 1
  BY <1>4
<1>6. buckets'[HASH(k)] = c /\ \A x \in Bucket : x # HASH(k) => buckets'[x] = buckets[x]
  BY <1>1, <1>3 DEF IInv
<1>7. \A p, q \in DOMAIN b : b[p].key = b[q].key => p = q
  BY <1>1 DEF IInv, OneEntryPerKey
<1>8. \A j \in DOMAIN b : b[j].key # k
  BY DEF Insert, Hits
<1>9. CASE HASH(n) # HASH(k)
  <2>1. Lookup(n)' = Lookup(n)
    BY <1>1, <1>6, <1>9, LookupSearches
  <2>2. n # k
    BY <1>9
  <2> QED
    BY <2>1, <2>2
<1>10. CASE HASH(n) = HASH(k)
  <2>1. Lookup(n) = LookupIn(b, n) /\ Lookup(n)' = LookupIn(c, n)
    BY <1>6, <1>10, LookupSearches
  <2>2. \A j \in DOMAIN b : j \in DOMAIN c /\ c[j] = b[j]
    BY <1>4
  <2>3. Len(b) + 1 \in DOMAIN c
    BY <1>4
  <2> HIDE DEF b, c, e
  <2>4. CASE n = k
    <3>1. \A j \in DOMAIN c : c[j].key = n => j = Len(b) + 1
      BY <1>5, <1>8, <2>2, <2>4
    <3>2. LookupIn(c, n) = c[Len(b) + 1].val
      BY <1>2, <1>4, <2>3, <2>4, <3>1, SearchHit
    <3> QED
      BY <1>2, <1>4, <2>1, <2>4, <3>2
  <2>5. CASE n # k /\ \A j \in DOMAIN b : b[j].key # n
    <3>1. \A j \in DOMAIN c : c[j].key # n
      BY <1>2, <1>4, <1>5, <2>2, <2>5
    <3> QED
      BY <1>2, <1>4, <2>1, <2>5, <3>1, SearchMiss
  <2>6. CASE n # k /\ \E j \in DOMAIN b : b[j].key = n
    <3>1. PICK p \in DOMAIN b : b[p].key = n
      BY <2>6
    <3>2. LookupIn(b, n) = b[p].val
      BY <1>2, <1>7, <3>1, SearchHit
    <3>3. \A j \in DOMAIN c : c[j].key = n => j = p
      BY <1>2, <1>4, <1>5, <1>7, <2>2, <2>6, <3>1
    <3>4. LookupIn(c, n) = c[p].val
      BY <1>4, <2>2, <3>1, <3>3, SearchHit
    <3> QED
      BY <2>1, <2>2, <2>6, <3>1, <3>2, <3>4
  <2> QED
    BY <2>4, <2>5, <2>6
<1> QED
  BY <1>9, <1>10

(* An empty table answers MISSING for every key. *)
LEMMA InitAbstract == Init => Abstract!Init
<1> SUFFICES ASSUME Init PROVE Abstract!Init
  OBVIOUS
<1>1. ASSUME NEW k \in Key PROVE Lookup(k) = MISSING
  <2>1. buckets[HASH(k)] = <<>>
    BY HashInRange DEF Init
  <2>2. <<>> \in Seq(Entry) /\ \A j \in DOMAIN <<>> : <<>>[j].key # k
    OBVIOUS
  <2> QED
    BY <2>1, <2>2, LookupSearches, SearchMiss
<1> QED
  BY <1>1 DEF Init, Abstract!Init

(* Either way of inserting is the map's Put. *)
LEMMA StepAbstract == IInv /\ [Next]_vars => [Abstract!Next]_(Abstract!vars)
<1> SUFFICES ASSUME IInv, [Next]_vars PROVE [Abstract!Next]_(Abstract!vars)
  OBVIOUS
<1> DEFINE map == [k \in Key |-> Lookup(k)]
<1>1. ASSUME NEW k \in Key, NEW v \in Val, \A n \in Key : Lookup(n)' = IF n = k THEN v ELSE Lookup(n)
      PROVE  map' = [map EXCEPT ![k] = v]
  BY <1>1
<1>2. ASSUME NEW k \in Key, NEW v \in Val, Replace(k, v) PROVE Abstract!Put(k, v)
  BY <1>1, <1>2, ReplaceLookup DEF Replace, Abstract!Put
<1>3. ASSUME NEW k \in Key, NEW v \in Val, Insert(k, v) PROVE Abstract!Put(k, v)
  BY <1>1, <1>3, InsertLookup DEF Insert, Abstract!Put
<1>4. ASSUME UNCHANGED buckets, NEW n \in Key PROVE Lookup(n)' = Lookup(n)
  BY <1>4, LookupSearches
<1>5. CASE Free
  BY <1>4, <1>5 DEF Free, Abstract!Free, Abstract!Next
<1>6. CASE UNCHANGED vars
  BY <1>4, <1>6 DEF vars, Abstract!vars
<1> QED
  BY <1>2, <1>3, <1>5, <1>6 DEF Next, Abstract!Next

(* The table implements the map of KeyMap: whatever the hash function, and *)
(* however many keys share a bucket, hash_lookup answers what hash_insert  *)
(* was given last for the key.                                             *)
THEOREM HashTableImplementsKeyMap == Spec => ImplementsKeyMap
  BY InitAbstract, StepAbstract, HashTableIInv, PTL DEF Spec, ImplementsKeyMap, Abstract!Spec

-----------------------------------------------------------------------------
(* What happens to the values.  How often a value occurs in a sequence.    *)
LEMMA CountNat ==
  ASSUME NEW s \in Seq(Val), NEW v
  PROVE  IsFiniteSet({i \in DOMAIN s : s[i] = v}) /\ Count(s, v) \in Nat
<1> DEFINE I == {i \in DOMAIN s : s[i] = v}
<1>1. IsFiniteSet(I)
  <2>1. Len(s) \in Nat /\ DOMAIN s = 1..Len(s)
    BY LenProperties
  <2>2. IsFiniteSet(1..Len(s))
    BY <2>1, FS_Interval
  <2> QED
    BY <2>1, <2>2, FS_Subset
<1>2. Cardinality(I) \in Nat
  BY <1>1, FS_CardinalityType
<1> QED
  BY <1>1, <1>2 DEF Count

LEMMA CountEmpty == ASSUME NEW v PROVE Count(<<>>, v) = 0
<1>1. {i \in DOMAIN <<>> : <<>>[i] = v} = {}
  OBVIOUS
<1> QED
  BY <1>1, FS_EmptySet DEF Count

LEMMA CountConcat ==
  ASSUME NEW s \in Seq(Val), NEW t \in Seq(Val), NEW v
  PROVE  Count(s \o t, v) = Count(s, v) + Count(t, v)
<1> DEFINE n == Len(s)
           A == {i \in DOMAIN s : s[i] = v}
           J == {j \in DOMAIN t : t[j] = v}
           B == {n + j : j \in J}
           C == {i \in DOMAIN (s \o t) : (s \o t)[i] = v}
           f == [j \in J |-> n + j]
<1>1. /\ n \in Nat /\ Len(t) \in Nat /\ DOMAIN s = 1..n /\ DOMAIN t = 1..Len(t)
      /\ DOMAIN (s \o t) = 1..(n + Len(t))
      /\ \A i \in 1..(n + Len(t)) : (s \o t)[i] = IF i <= n THEN s[i] ELSE t[i - n]
  BY LenProperties, ConcatProperties
<1>2. C = A \cup B /\ A \cap B = {}
  <2>1. ASSUME NEW i \in C PROVE i \in A \cup B
    <3>1. CASE i <= n
      BY <1>1, <3>1
    <3>2. CASE i > n
      <4>1. i - n \in 1..Len(t) /\ t[i - n] = v /\ i = n + (i - n)
        BY <1>1, <3>2
      <4> QED
        BY <1>1, <4>1
    <3> QED
      BY <1>1, <3>1, <3>2
  <2>2. A \subseteq C
    BY <1>1
  <2>3. ASSUME NEW j \in J PROVE n + j \in C
    <3>1. n + j \in 1..(n + Len(t)) /\ ~(n + j <= n) /\ (n + j) - n = j
      BY <1>1
    <3> QED
      BY <1>1, <3>1
  <2>4. A \cap B = {}
    BY <1>1
  <2> QED
    BY <2>1, <2>2, <2>3, <2>4
<1>3. IsFiniteSet(A) /\ IsFiniteSet(J) /\ Count(s, v) \in Nat /\ Count(t, v) \in Nat
  BY CountNat
<1>4. f \in Bijection(J, B)
  BY <1>1 DEF Bijection, Injection, Surjection, IsInjective
<1>5. IsFiniteSet(B) /\ Cardinality(B) = Cardinality(J)
  <2>1. ExistsBijection(J, B)
    BY <1>4 DEF ExistsBijection
  <2> QED
    BY <1>3, <2>1, FS_Bijection
<1>6. Cardinality(A) = Count(s, v) /\ Cardinality(J) = Count(t, v) /\ Cardinality(C) = Count(s \o t, v)
  BY DEF Count
<1> HIDE DEF A, B, C, J, f
<1>7. Cardinality(C) = Cardinality(A) + Cardinality(B) - Cardinality({})
  BY <1>2, <1>3, <1>5, FS_Union
<1>8. Cardinality({}) = 0
  BY FS_EmptySet
<1> QED
  BY <1>3, <1>5, <1>6, <1>7, <1>8

(* One occurrence more or less. *)
Is(x, v) == IF x = v THEN 1 ELSE 0

LEMMA CountAppend ==
  ASSUME NEW s \in Seq(Val), NEW e \in Val, NEW v
  PROVE  Append(s, e) \in Seq(Val) /\ Count(Append(s, e), v) = Count(s, v) + Is(e, v)
<1> DEFINE A == {i \in DOMAIN s : s[i] = v}
           m == Len(s) + 1
           C == {i \in DOMAIN Append(s, e) : Append(s, e)[i] = v}
<1>1. /\ Len(s) \in Nat /\ DOMAIN s = 1..Len(s) /\ Append(s, e) \in Seq(Val)
      /\ DOMAIN Append(s, e) = 1..m /\ Append(s, e)[m] = e
      /\ \A i \in 1..Len(s) : Append(s, e)[i] = s[i]
  BY LenProperties
<1>2. m \notin A /\ \A i \in 1..m : i \in 1..Len(s) \/ i = m
  BY <1>1
<1>3. IsFiniteSet(A) /\ Count(s, v) \in Nat
  BY CountNat
<1>4. Count(s, v) = Cardinality(A) /\ Count(Append(s, e), v) = Cardinality(C)
  BY DEF Count
<1>5. CASE e = v
  <2>1. C = A \cup {m}
    BY <1>1, <1>2, <1>5
  <2>2. Cardinality(C) = Cardinality(A) + 1
    <3> HIDE DEF A, C, m
    <3> QED
      BY <1>2, <1>3, <2>1, FS_AddElement
  <2> HIDE DEF A, C
  <2> QED
    BY <1>1, <1>5, <1>4, <2>2 DEF Is
<1>6. CASE e # v
  <2>1. C = A
    BY <1>1, <1>2, <1>6
  <2> HIDE DEF A, C
  <2> QED
    BY <1>1, <1>3, <1>6, <1>4, <2>1 DEF Is
<1> QED
  BY <1>5, <1>6

LEMMA CountExcept ==
  ASSUME NEW s \in Seq(Val), NEW i \in DOMAIN s, NEW e \in Val, NEW v
  PROVE  Count([s EXCEPT ![i] = e], v) = Count(s, v) + (Is(e, v) - Is(s[i], v))
<1> DEFINE t == [s EXCEPT ![i] = e]
           A == {j \in DOMAIN s : s[j] = v}
           C == {j \in DOMAIN t : t[j] = v}
           R == A \ {i}
<1>1. DOMAIN t = DOMAIN s /\ t[i] = e /\ \A j \in DOMAIN s : j # i => t[j] = s[j]
  OBVIOUS
<1>2. IsFiniteSet(A) /\ Cardinality(A) = Count(s, v) /\ Count(s, v) \in Nat
      /\ Cardinality(C) = Count(t, v)
  BY CountNat DEF Count
<1>3. C = IF e = v THEN R \cup {i} ELSE R
  BY <1>1
<1>4. i \in A <=> s[i] = v
  OBVIOUS
<1>5. i \notin R
  OBVIOUS
<1> HIDE DEF t, A, C
<1>6. IsFiniteSet(R) /\ Cardinality(R) = IF i \in A THEN Cardinality(A) - 1 ELSE Cardinality(A)
  BY <1>2, FS_RemoveElement
<1>7. Cardinality(R \cup {i}) = Cardinality(R) + 1
  <2> HIDE DEF R
  <2> QED
    BY <1>5, <1>6, FS_AddElement
<1>8. Count(t, v) = Count(s, v) + (Is(e, v) - Is(s[i], v))
  BY <1>2, <1>3, <1>4, <1>6, <1>7 DEF Is
<1> QED
  BY <1>8 DEF t

-----------------------------------------------------------------------------
(* A set of naturals that is not empty has a least element.                *)
LEMMA LessWellFounded ==
  \E R : IsWellFoundedOn(R, Nat) /\ \A x, y \in Nat : x < y => <<x, y>> \in R
<1>1. IsWellFoundedOn(OpToRel(<, Nat), Nat)
  BY NatLessThanWellFounded
<1>2. \A x, y \in Nat : x < y => <<x, y>> \in OpToRel(<, Nat)
  BY DEF OpToRel
<1> QED
  BY <1>1, <1>2

LEMMA Least ==
  ASSUME NEW U, U \subseteq Nat, U # {}
  PROVE  \E u \in U : \A y \in U : u <= y
<1>1. PICK R : IsWellFoundedOn(R, Nat) /\ \A x, y \in Nat : x < y => <<x, y>> \in R
  BY LessWellFounded
<1>2. \E u \in U : \A y \in U : ~(<<y, u>> \in R)
  <2>1. IsWellFoundedOn(R, Nat)
    BY <1>1
  <2> QED
    BY <2>1, WFMin
<1>3. PICK u \in U : \A y \in U : ~(<<y, u>> \in R)
  BY <1>2
<1>4. ASSUME NEW y \in U PROVE u <= y
  <2>1. u \in Nat /\ y \in Nat
    OBVIOUS
  <2>2. ~(<<y, u>> \in R)
    BY <1>3
  <2>3. ~(y < u)
    BY <1>1, <2>1, <2>2
  <2> QED
    BY <2>1, <2>3
<1> QED
  BY <1>4

(* So a set of counts that has zero, and with each count the next, has all *)
(* of them.                                                                *)
LEMMA Climb ==
  ASSUME NEW N \in Nat, NEW P, 0 \in P, \A n \in 0..(N - 1) : n \in P => n + 1 \in P
  PROVE  \A n \in 0..N : n \in P
<1> DEFINE U == {n \in 0..N : n \notin P}
<1>1. SUFFICES ASSUME U # {} PROVE FALSE
  OBVIOUS
<1>2. PICK n \in U : \A m \in U : n <= m
  <2>1. U \subseteq Nat
    OBVIOUS
  <2> HIDE DEF U
  <2> QED
    BY <1>1, <2>1, Least
<1>3. n # 0
  OBVIOUS
<1>4. n - 1 \in 0..(N - 1) /\ n - 1 \in 0..N /\ ~(n <= n - 1) /\ (n - 1) + 1 = n
  BY <1>3
<1>5. n - 1 \in P
  BY <1>2, <1>4
<1> QED
  BY <1>4, <1>5

(* The recursion of AllVals over the first n buckets of a table t.         *)
Gathers(f, t, n) ==
  f = [b \in -1..(n - 1) |-> IF b = -1 THEN <<>> ELSE f[b - 1] \o Vals(t[b])]

LEMMA GathersNext ==
  ASSUME NEW t, NEW n \in Nat, NEW f, Gathers(f, t, n)
  PROVE  \E g : Gathers(g, t, n + 1)
<1> DEFINE W(h, b) == IF b = -1 THEN <<>> ELSE h[b - 1] \o Vals(t[b])
           g == [b \in -1..n |-> W(f, b)]
<1>1. ASSUME NEW b \in -1..n PROVE W(f, b) = W(g, b)
  <2>1. CASE b = -1
    BY <2>1
  <2>2. CASE b # -1
    <3>1. b - 1 \in -1..(n - 1) /\ b - 1 \in -1..n
      BY <2>2
    <3>2. f[b - 1] = W(f, b - 1)
      BY <3>1 DEF Gathers
    <3>3. g[b - 1] = W(f, b - 1)
      BY <3>1
    <3> HIDE DEF g
    <3> QED
      BY <2>2, <3>2, <3>3
  <2> QED
    BY <2>1, <2>2
<1>2. g = [b \in -1..n |-> W(g, b)]
  <2>1. \A G : (\A b \in -1..n : W(f, b) = W(G, b))
                 => [b \in -1..n |-> W(f, b)] = [b \in -1..n |-> W(G, b)]
    OBVIOUS
  <2> HIDE DEF W
  <2> QED
    BY <1>1, <2>1
<1>3. (n + 1) - 1 = n
  OBVIOUS
<1> HIDE DEF g
<1> QED
  BY <1>2, <1>3 DEF Gathers

LEMMA SomeGathers == \A t : \A n \in Nat : \E f : Gathers(f, t, n)
<1> TAKE t
<1> TAKE N \in Nat
<1> DEFINE P == {n \in Nat : \E f : Gathers(f, t, n)}
<1>1. 0 \in P
  <2> DEFINE f == [b \in -1..(0 - 1) |-> <<>>]
  <2>1. f = [b \in -1..(0 - 1) |-> IF b = -1 THEN <<>> ELSE f[b - 1] \o Vals(t[b])]
    <3>1. \A b \in -1..(0 - 1) : b = -1
      OBVIOUS
    <3> QED
      BY <3>1
  <2> HIDE DEF f
  <2> QED
    BY <2>1 DEF Gathers
<1>2. \A n \in 0..(N - 1) : n \in P => n + 1 \in P
  BY GathersNext
<1>3. \A n \in 0..N : n \in P
  <2> HIDE DEF P
  <2> QED
    BY <1>1, <1>2, Climb
<1> QED
  BY <1>3

(* So AllVals is what its definition says, before and after a step. *)
LEMMA AllValsIs ==
  Gathers(AllVals, buckets, NumBuckets) /\ Gathers(AllVals', buckets', NumBuckets)
<1>1. (\E f : Gathers(f, buckets, NumBuckets)) /\ (\E f : Gathers(f, buckets', NumBuckets))
  BY SomeGathers, HashTableAssumption
<1>2. Gathers(AllVals, buckets, NumBuckets)
  BY <1>1 DEF AllVals, Gathers
<1>3. Gathers(AllVals', buckets', NumBuckets)
  BY <1>1 DEF AllVals, Gathers
<1> QED
  BY <1>2, <1>3

(* The values of one bucket, and of all buckets so far. *)
LEMMA ValsSeq ==
  ASSUME NEW b \in Seq(Entry)
  PROVE  Vals(b) \in Seq(Val) /\ DOMAIN Vals(b) = DOMAIN b
<1>1. Len(b) \in Nat /\ DOMAIN b = 1..Len(b) /\ \A i \in 1..Len(b) : b[i] \in Entry
  BY LenProperties, ElementOfSeq
<1>2. \A i \in 1..Len(b) : b[i].val \in Val
  BY <1>1 DEF Entry
<1> QED
  BY <1>1, <1>2 DEF Vals

LEMMA GathersStep ==
  ASSUME NEW t, NEW f, Gathers(f, t, NumBuckets)
  PROVE  /\ f[0 - 1] = <<>>
         /\ \A n \in 0..(NumBuckets - 1) : n \in Bucket /\ f[(n + 1) - 1] = f[n - 1] \o Vals(t[n])
<1>1. f[0 - 1] = <<>>
  <2>1. 0 - 1 \in -1..(NumBuckets - 1) /\ 0 - 1 = -1
    BY HashTableAssumption
  <2> QED
    BY <2>1 DEF Gathers
<1>2. ASSUME NEW n \in 0..(NumBuckets - 1)
      PROVE  n \in Bucket /\ f[(n + 1) - 1] = f[n - 1] \o Vals(t[n])
  <2>1. n \in -1..(NumBuckets - 1) /\ n # -1 /\ (n + 1) - 1 = n
    BY HashTableAssumption
  <2> QED
    BY <2>1 DEF Gathers, Bucket
<1> QED
  BY <1>1, <1>2

LEMMA GathersSeq ==
  ASSUME NEW t \in [Bucket -> Seq(Entry)], NEW f, Gathers(f, t, NumBuckets)
  PROVE  \A n \in 0..NumBuckets : f[n - 1] \in Seq(Val)
<1> DEFINE P == {n \in Int : f[n - 1] \in Seq(Val)}
<1>1. 0 \in P
  <2>1. f[0 - 1] = <<>>
    BY GathersStep
  <2>2. <<>> \in Seq(Val)
    OBVIOUS
  <2>3. f[0 - 1] \in Seq(Val)
    BY <2>1, <2>2
  <2>4. 0 \in Int
    OBVIOUS
  <2> QED
    BY <2>3, <2>4, Zenon
<1>2. ASSUME NEW n \in 0..(NumBuckets - 1), n \in P PROVE n + 1 \in P
  <2>1. n \in Bucket /\ f[(n + 1) - 1] = f[n - 1] \o Vals(t[n])
    BY GathersStep
  <2>2. f[n - 1] \in Seq(Val)
    BY <1>2
  <2>3. Vals(t[n]) \in Seq(Val)
    BY <2>1, ValsSeq
  <2>4. f[(n + 1) - 1] \in Seq(Val)
    BY <2>1, <2>2, <2>3, ConcatProperties
  <2>5. n + 1 \in Int
    BY HashTableAssumption
  <2> QED
    BY <2>4, <2>5
<1>3. \A n \in 0..NumBuckets : n \in P
  <2> HIDE DEF P
  <2> QED
    BY <1>1, <1>2, Climb, HashTableAssumption
<1> QED
  BY <1>3

(* No entries, no values. *)
LEMMA GathersNothing ==
  ASSUME NEW t, \A b \in Bucket : t[b] = <<>>, NEW f, Gathers(f, t, NumBuckets)
  PROVE  \A n \in 0..NumBuckets : f[n - 1] = <<>>
<1> DEFINE P == {n \in Int : f[n - 1] = <<>>}
<1>1. 0 \in P
  <2>1. f[0 - 1] = <<>>
    BY GathersStep
  <2> QED
    BY <2>1
<1>2. ASSUME NEW n \in 0..(NumBuckets - 1), n \in P PROVE n + 1 \in P
  <2>1. n \in Bucket /\ f[(n + 1) - 1] = f[n - 1] \o Vals(t[n])
    BY GathersStep
  <2>2. f[n - 1] = <<>> /\ Vals(t[n]) = <<>>
    BY <1>2, <2>1 DEF Vals
  <2>3. f[(n + 1) - 1] = <<>>
    BY <2>1, <2>2
  <2>4. n + 1 \in Int
    BY HashTableAssumption
  <2> QED
    BY <2>3, <2>4
<1>3. \A n \in 0..NumBuckets : n \in P
  <2> HIDE DEF P
  <2> QED
    BY <1>1, <1>2, Climb, HashTableAssumption
<1> QED
  BY <1>3

-----------------------------------------------------------------------------
(* All values of the table, before and after a step. *)
LEMMA AllSeq ==
  ASSUME IInv, IInv'
  PROVE  AllVals[NumBuckets - 1] \in Seq(Val) /\ AllVals'[NumBuckets - 1] \in Seq(Val)
<1>1. buckets \in [Bucket -> Seq(Entry)] /\ buckets' \in [Bucket -> Seq(Entry)]
  BY DEF IInv, Bucket, Entry
<1>2. NumBuckets \in 0..NumBuckets
  BY HashTableAssumption
<1>3. \A n \in 0..NumBuckets : AllVals[n - 1] \in Seq(Val)
  BY <1>1, AllValsIs, GathersSeq
<1>4. \A n \in 0..NumBuckets : AllVals'[n - 1] \in Seq(Val)
  BY <1>1, AllValsIs, GathersSeq
<1> QED
  BY <1>2, <1>3, <1>4

(* A change of one bucket changes the whole by as much.                    *)
LEMMA OneBucket ==
  ASSUME IInv, IInv', NEW h \in Bucket, NEW v, NEW d \in Int,
         \A b \in Bucket : b # h => buckets'[b] = buckets[b],
         Count(Vals(buckets'[h]), v) = Count(Vals(buckets[h]), v) + d
  PROVE  Count(AllVals'[NumBuckets - 1], v) = Count(AllVals[NumBuckets - 1], v) + d
<1>1. PICK t \in [Bucket -> Seq(Entry)] : t = buckets
  BY DEF IInv
<1>2. PICK u \in [Bucket -> Seq(Entry)] : u = buckets'
  BY DEF IInv, Bucket, Entry
<1>3. PICK f : f = AllVals
  OBVIOUS
<1>4. PICK g : g = AllVals'
  OBVIOUS
<1>5. Gathers(f, t, NumBuckets) /\ Gathers(g, u, NumBuckets)
  BY <1>1, <1>2, <1>3, <1>4, AllValsIs
<1>6. /\ \A b \in Bucket : b # h => u[b] = t[b]
      /\ Count(Vals(u[h]), v) = Count(Vals(t[h]), v) + d
  BY <1>1, <1>2
<1> DEFINE F(n) == Count(f[n - 1], v)
           G(n) == Count(g[n - 1], v)
           P == {n \in Int : G(n) = F(n) + IF h < n THEN d ELSE 0}
<1>7. 0 \in P
  <2>1. F(0) = 0 /\ G(0) = 0
    BY <1>5, GathersStep, CountEmpty
  <2>2. ~(h < 0)
    BY HashTableAssumption DEF Bucket
  <2> HIDE DEF F, G
  <2> QED
    BY <2>1, <2>2
<1>8. ASSUME NEW n \in 0..(NumBuckets - 1), n \in P PROVE n + 1 \in P
  <2> DEFINE a == Vals(t[n])
             c == Vals(u[n])
  <2>1. n \in Bucket /\ f[(n + 1) - 1] = f[n - 1] \o a
    BY <1>5, GathersStep
  <2>2. g[(n + 1) - 1] = g[n - 1] \o c
    BY <1>5, GathersStep
  <2>3. a \in Seq(Val) /\ c \in Seq(Val)
    BY <2>1, ValsSeq
  <2>4. f[n - 1] \in Seq(Val) /\ g[n - 1] \in Seq(Val)
    <3>1. n \in 0..NumBuckets
      BY HashTableAssumption
    <3>2. \A m \in 0..NumBuckets : f[m - 1] \in Seq(Val)
      BY <1>5, GathersSeq
    <3>3. \A m \in 0..NumBuckets : g[m - 1] \in Seq(Val)
      BY <1>5, GathersSeq
    <3> QED
      BY <3>1, <3>2, <3>3
  <2>5. F(n + 1) = F(n) + Count(a, v) /\ G(n + 1) = G(n) + Count(c, v)
    <3> HIDE DEF a, c
    <3> QED
      BY <2>1, <2>2, <2>3, <2>4, CountConcat
  <2>6. F(n) \in Nat /\ Count(a, v) \in Nat
    BY <2>3, <2>4, CountNat
  <2>7. Count(c, v) = Count(a, v) + IF h = n THEN d ELSE 0
    <3>1. CASE h = n
      BY <1>6, <3>1
    <3>2. CASE h # n
      <4>1. c = a
        BY <1>6, <2>1, <3>2
      <4> QED
        BY <2>6, <3>2, <4>1
    <3> QED
      BY <3>1, <3>2
  <2>8. n \in Int /\ h \in Int
    BY HashTableAssumption DEF Bucket
  <2>9. G(n) = F(n) + IF h < n THEN d ELSE 0
    BY <1>8
  <2>10. G(n + 1) = F(n + 1) + IF h < n + 1 THEN d ELSE 0
    <3> HIDE DEF F, G, a, c
    <3> QED
      BY <2>5, <2>6, <2>7, <2>8, <2>9
  <2> QED
    BY <2>8, <2>10
<1>9. NumBuckets \in P
  <2>1. \A n \in 0..NumBuckets : n \in P
    <3> HIDE DEF P
    <3> QED
      BY <1>7, <1>8, Climb, HashTableAssumption
  <2> HIDE DEF P
  <2> QED
    BY <2>1, HashTableAssumption
<1>10. G(NumBuckets) = F(NumBuckets) + d
  <2>1. h < NumBuckets
    BY HashTableAssumption DEF Bucket
  <2> HIDE DEF F, G
  <2> QED
    BY <1>9, <2>1
<1> HIDE DEF F, G
<1>11. Count(g[NumBuckets - 1], v) = Count(f[NumBuckets - 1], v) + d
  BY <1>10 DEF F, G
<1> QED
  BY <1>3, <1>4, <1>11

(* Replacing a value takes one occurrence of the old one and adds one of   *)
(* the new.                                                                *)
LEMMA ReplaceValues ==
  ASSUME IInv, IInv', NEW k \in Key, NEW v \in Val, Replace(k, v)
  PROVE  \E old \in Val :
           /\ released' = Append(released, old)
           /\ inserted' = Append(inserted, v)
           /\ \A x : Count(AllVals'[NumBuckets - 1], x)
                       = Count(AllVals[NumBuckets - 1], x) + (Is(v, x) - Is(old, x))
<1> DEFINE b == buckets[HASH(k)]
<1>1. HASH(k) \in Bucket
  BY HashInRange
<1>2. b \in Seq(Entry)
  BY <1>1 DEF IInv
<1>3. PICK i \in Hits(b, k) :
        /\ released' = Append(released, b[i].val)
        /\ buckets' = [buckets EXCEPT ![HASH(k)] = [b EXCEPT ![i].val = v]]
  BY DEF Replace
<1> DEFINE c == [b EXCEPT ![i].val = v]
           old == b[i].val
<1>4. i \in DOMAIN b /\ b[i] \in Entry /\ old \in Val
  <2>1. i \in DOMAIN b /\ b[i] \in Entry
    BY <1>2, <1>3 DEF Hits
  <2> QED
    BY <2>1 DEF Entry
<1>5. c \in Seq(Entry) /\ DOMAIN c = DOMAIN b /\ c[i].val = v
      /\ \A j \in DOMAIN b : j # i => c[j] = b[j]
  BY <1>2, <1>4 DEF Entry
<1>6. /\ buckets \in [Bucket -> Seq(Entry)] /\ buckets' \in [Bucket -> Seq(Entry)]
      /\ buckets'[HASH(k)] = c /\ \A x \in Bucket : x # HASH(k) => buckets'[x] = buckets[x]
  BY <1>1, <1>3, <1>5 DEF IInv
<1>7. Vals(b) \in Seq(Val) /\ DOMAIN Vals(b) = DOMAIN b /\ Vals(b)[i] = old
  BY <1>2, <1>4, ValsSeq DEF Vals
<1>8. Vals(c) = [Vals(b) EXCEPT ![i] = v]
  <2>1. \A j \in DOMAIN b : c[j].val = IF j = i THEN v ELSE b[j].val
    BY <1>5
  <2>2. DOMAIN c = DOMAIN b
    BY <1>5
  <2> HIDE DEF b, c
  <2> QED
    BY <2>1, <2>2 DEF Vals
<1>9. ASSUME NEW x
      PROVE  Count(AllVals'[NumBuckets - 1], x)
               = Count(AllVals[NumBuckets - 1], x) + (Is(v, x) - Is(old, x))
  <2>1. Count(Vals(c), x) = Count(Vals(b), x) + (Is(v, x) - Is(old, x))
    <3>1. PICK s \in Seq(Val) : s = Vals(b)
      BY <1>7
    <3>2. i \in DOMAIN s /\ s[i] = old
      BY <1>4, <1>7, <3>1
    <3>3. Count([s EXCEPT ![i] = v], x) = Count(s, x) + (Is(v, x) - Is(s[i], x))
      BY <3>2, CountExcept
    <3> HIDE DEF b, c, old
    <3> QED
      BY <1>8, <3>1, <3>2, <3>3
  <2>2. Is(v, x) - Is(old, x) \in Int
    BY DEF Is
  <2>3. Count(Vals(buckets'[HASH(k)]), x)
          = Count(Vals(buckets[HASH(k)]), x) + (Is(v, x) - Is(old, x))
    BY <1>6, <2>1
  <2>4. PICK d \in Int : d = Is(v, x) - Is(old, x)
    BY <2>2
  <2>5. Count(AllVals'[NumBuckets - 1], x) = Count(AllVals[NumBuckets - 1], x) + d
    <3> HIDE DEF b, c, old
    <3> QED
      BY <1>1, <1>6, <2>3, <2>4, OneBucket
  <2> HIDE DEF b, c, old
  <2> QED
    BY <2>4, <2>5
<1>10. inserted' = Append(inserted, v)
  BY DEF Replace
<1> HIDE DEF c
<1> QED
  BY <1>3, <1>4, <1>9, <1>10

(* Inserting a new entry adds one occurrence of its value.                 *)
LEMMA InsertValues ==
  ASSUME IInv, IInv', NEW k \in Key, NEW v \in Val, Insert(k, v)
  PROVE  \A x : Count(AllVals'[NumBuckets - 1], x)
                  = Count(AllVals[NumBuckets - 1], x) + Is(v, x)
<1> DEFINE b == buckets[HASH(k)]
           e == [key |-> k, val |-> v]
           c == Append(b, e)
<1>1. HASH(k) \in Bucket
  BY HashInRange
<1>2. b \in Seq(Entry) /\ e \in Entry /\ e.val = v
  BY <1>1 DEF IInv, Entry
<1>3. buckets' = [buckets EXCEPT ![HASH(k)] = c]
  BY DEF Insert
<1>4. /\ c \in Seq(Entry) /\ DOMAIN c = 1..(Len(b) + 1)
      /\ DOMAIN b = 1..Len(b) /\ Len(b) \in Nat
      /\ c[Len(b) + 1] = e /\ \A j \in 1..Len(b) : c[j] = b[j]
  BY <1>2
<1>5. /\ buckets \in [Bucket -> Seq(Entry)] /\ buckets' \in [Bucket -> Seq(Entry)]
      /\ buckets'[HASH(k)] = c /\ \A x \in Bucket : x # HASH(k) => buckets'[x] = buckets[x]
  BY <1>1, <1>3, <1>4 DEF IInv
<1>6. Vals(b) \in Seq(Val) /\ Len(Vals(b)) = Len(b)
  BY <1>2, <1>4, ValsSeq
<1>7. Vals(c) = Append(Vals(b), v)
  <2>1. Vals(c) \in Seq(Val) /\ Len(Vals(c)) = Len(b) + 1
    <3> HIDE DEF b, c, e
    <3>1. Vals(c) \in Seq(Val) /\ DOMAIN Vals(c) = 1..(Len(b) + 1)
      BY <1>4, ValsSeq
    <3> QED
      BY <1>4, <3>1
  <2>2. \A j \in 1..(Len(b) + 1) : Vals(c)[j] = IF j <= Len(b) THEN b[j].val ELSE v
    BY <1>2, <1>4 DEF Vals
  <2>3. \A j \in 1..Len(b) : Vals(b)[j] = b[j].val
    BY <1>4 DEF Vals
  <2>4. PICK p : p = Vals(b)
    OBVIOUS
  <2>5. PICK q : q = Append(p, v)
    OBVIOUS
  <2>6. PICK r : r = Vals(c)
    OBVIOUS
  <2>7. q \in Seq(Val) /\ Len(q) = Len(b) + 1
        /\ \A j \in 1..(Len(b) + 1) : q[j] = IF j <= Len(b) THEN p[j] ELSE v
    <3> HIDE DEF b
    <3> QED
      BY <1>4, <1>6, <2>4, <2>5
  <2> HIDE DEF b, c, e
  <2>8. q = r
    <3>1. \A j \in 1..(Len(b) + 1) : q[j] = r[j]
      BY <1>4, <2>2, <2>3, <2>4, <2>6, <2>7
    <3> QED
      BY <2>1, <2>6, <2>7, <3>1, SeqEqual
  <2> QED
    BY <2>4, <2>5, <2>6, <2>8
<1>8. ASSUME NEW x
      PROVE  Count(AllVals'[NumBuckets - 1], x) = Count(AllVals[NumBuckets - 1], x) + Is(v, x)
  <2>1. Count(Vals(c), x) = Count(Vals(b), x) + Is(v, x)
    <3> HIDE DEF b, c
    <3> QED
      BY <1>6, <1>7, CountAppend
  <2>2. Is(v, x) \in Int
    BY DEF Is
  <2>3. Count(Vals(buckets'[HASH(k)]), x) = Count(Vals(buckets[HASH(k)]), x) + Is(v, x)
    BY <1>5, <2>1
  <2> HIDE DEF b, c, e
  <2> QED
    BY <1>1, <1>5, <2>2, <2>3, OneBucket
<1> QED
  BY <1>8

(* The inductive invariant for the values adds the type of `released`.     *)
VInv == IInv /\ released \in Seq(Val) /\ ValuesConserved

LEMMA InitVInv == Init => VInv
<1> SUFFICES ASSUME Init PROVE VInv
  OBVIOUS
<1>1. AllVals[NumBuckets - 1] = <<>>
  <2>1. \A n \in 0..NumBuckets : AllVals[n - 1] = <<>>
    <3>1. \A b \in Bucket : buckets[b] = <<>>
      BY DEF Init
    <3> QED
      BY <3>1, AllValsIs, GathersNothing
  <2> QED
    BY <2>1, HashTableAssumption
<1>2. ValuesConserved
  BY <1>1, CountEmpty DEF Init, ValuesConserved
<1>3. released \in Seq(Val)
  <2>1. <<>> \in Seq(Val)
    OBVIOUS
  <2> QED
    BY <2>1 DEF Init
<1> QED
  BY <1>2, <1>3, InitIInv DEF VInv

LEMMA NextVInv == VInv /\ [Next]_vars => VInv'
<1> SUFFICES ASSUME VInv, [Next]_vars PROVE VInv'
  OBVIOUS
<1> DEFINE all == AllVals[NumBuckets - 1]
<1>1. IInv /\ IInv'
  BY NextIInv DEF VInv
<1>2. /\ all \in Seq(Val) /\ released \in Seq(Val) /\ inserted \in Seq(Val)
      /\ \A x : Count(all, x) \in Nat /\ Count(released, x) \in Nat /\ Count(inserted, x) \in Nat
  BY <1>1, AllSeq, CountNat DEF VInv, IInv
<1>3. ASSUME NEW x \in Val
      PROVE  Count(inserted, x) = Count(released, x) + IF freed THEN 0 ELSE Count(all, x)
  BY DEF VInv, ValuesConserved
<1>4. ASSUME NEW k \in Key, NEW v \in Val, Replace(k, v) PROVE VInv'
  <2>1. PICK old \in Val :
           /\ released' = Append(released, old)
           /\ inserted' = Append(inserted, v)
           /\ \A x : Count(all', x) = Count(all, x) + (Is(v, x) - Is(old, x))
    BY <1>1, <1>4, ReplaceValues
  <2>2. /\ released' \in Seq(Val)
        /\ \A x : /\ Count(released', x) = Count(released, x) + Is(old, x)
                  /\ Count(inserted', x) = Count(inserted, x) + Is(v, x)
    BY <1>2, <2>1, CountAppend
  <2>3. ~freed /\ freed' = freed
    BY <1>4 DEF Replace
  <2>4. ASSUME NEW x \in Val
        PROVE  Count(inserted', x) = Count(released', x) + IF freed' THEN 0 ELSE Count(all', x)
    <3>1. Is(old, x) \in Int /\ Is(v, x) \in Int
      BY DEF Is
    <3> HIDE DEF all
    <3> QED
      BY <1>2, <1>3, <2>1, <2>2, <2>3, <3>1
  <2> QED
    BY <1>1, <2>2, <2>4 DEF VInv, ValuesConserved, Count
<1>5. ASSUME NEW k \in Key, NEW v \in Val, Insert(k, v) PROVE VInv'
  <2>1. \A x : Count(all', x) = Count(all, x) + Is(v, x)
    BY <1>1, <1>5, InsertValues
  <2>2. released' = released /\ inserted' = Append(inserted, v) /\ ~freed /\ freed' = freed
    BY <1>5 DEF Insert
  <2>3. \A x : Count(inserted', x) = Count(inserted, x) + Is(v, x)
    BY <1>2, <2>2, CountAppend
  <2>4. ASSUME NEW x \in Val
        PROVE  Count(inserted', x) = Count(released', x) + IF freed' THEN 0 ELSE Count(all', x)
    <3>1. Is(v, x) \in Int
      BY DEF Is
    <3> HIDE DEF all
    <3> QED
      BY <1>2, <1>3, <2>1, <2>2, <2>3, <3>1
  <2> QED
    BY <1>1, <1>2, <2>2, <2>4 DEF VInv, ValuesConserved, Count
<1>6. CASE Free
  <2>1. released' = released \o all /\ inserted' = inserted /\ ~freed /\ freed' = TRUE
    BY <1>6 DEF Free
  <2>2. released' \in Seq(Val) /\ \A x : Count(released', x) = Count(released, x) + Count(all, x)
    <3> HIDE DEF all
    <3> QED
      BY <1>2, <2>1, ConcatProperties, CountConcat
  <2>3. ASSUME NEW x \in Val
        PROVE  Count(inserted', x) = Count(released', x) + IF freed' THEN 0 ELSE Count(all', x)
    <3> HIDE DEF all
    <3> QED
      BY <1>2, <1>3, <2>1, <2>2
  <2> QED
    BY <1>1, <2>2, <2>3 DEF VInv, ValuesConserved, Count
<1>7. CASE UNCHANGED vars
  <2>1. all' = all
    BY <1>7 DEF vars, AllVals
  <2>2. released' = released /\ inserted' = inserted /\ freed' = freed
    BY <1>7 DEF vars
  <2> QED
    BY <1>1, <1>2, <1>3, <2>1, <2>2 DEF VInv, ValuesConserved, Count
<1> QED
  BY <1>4, <1>5, <1>6, <1>7 DEF Next

LEMMA ValueInvariance == Spec => []VInv
  BY InitVInv, NextVInv, PTL DEF Spec

(* The table and its histories keep their types; for hash_free this says   *)
(* that only values that were stored reach val_dtor.                       *)
THEOREM HashTableTypeOK == Spec => []TypeOK
<1>1. VInv => TypeOK
  BY DEF VInv, IInv, TypeOK
<1> QED
  BY <1>1, ValueInvariance, PTL

(* Every value handed to hash_insert is in the table or was handed to      *)
(* val_dtor, exactly once, for any number of buckets and any hash.         *)
THEOREM HashTableValuesConserved == Spec => []ValuesConserved
<1>1. VInv => ValuesConserved
  BY DEF VInv
<1> QED
  BY <1>1, ValueInvariance, PTL
=============================================================================
