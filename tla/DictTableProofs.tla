---------------------------- MODULE DictTableProofs ----------------------------
(***************************************************************************)
(* Theorems about DictTable, for every set of keys and of values, every     *)
(* hash function and all the sizes.                                        *)
(***************************************************************************)
EXTENDS DictTable, FiniteSetTheorems, WellFoundedInduction, TLAPS

(* A table as the calls leave it. *)
Good(d) ==
  /\ DOMAIN d = {"size", "used", "table"}
  /\ d.size \in {0} \cup Sizes
  /\ d.table \in [0 .. d.size - 1 -> SUBSET Entries]
  /\ IsFiniteSet(All(d)) /\ d.used = Cardinality(All(d)) /\ d.used <= d.size
  /\ \A b \in 0 .. d.size - 1 : \A e \in d.table[b] : Bucket(d, e.key) = b
  /\ \A e, f \in All(d) : e.key = f.key => e = f

(* What an iterator has before it: the rest of the chain it is in, and the  *)
(* entries of the buckets it has not come to.                              *)
Remaining(i) == IF i.entry = None THEN {} ELSE i.rest \ {i.entry}

Later(i, d) == {e \in All(d) : Bucket(d, e.key) > i.index}

Ahead(i, d) == Remaining(i) \cup Later(i, d)

(* What has been returned and what is ahead share no key, and together are *)
(* all that was there when the iteration began.                            *)
Iterating(i, d) ==
  /\ i \in Iterators /\ i.index <= d.size
  /\ IsFiniteSet(i.seen) /\ i.returned = Cardinality(i.seen)
  /\ Remaining(i) \subseteq All(d)
  /\ \A e \in Remaining(i) : Bucket(d, e.key) = i.index
  /\ \A e \in Ahead(i, d) : e.key \notin i.seen
  /\ i.start = i.seen \cup {e.key : e \in Ahead(i, d)}
  /\ i.entry # None => i.entry.key \in i.seen /\ i.index < d.size

ResultType ==
  \/ result \in {<<"ok">>, <<"err">>, <<"none">>, <<"end">>, <<"dead">>}
  \/ result \in {"val"} \X Vals \/ result \in {"entry"} \X Keys \X Vals

Inv == Good(ht) /\ (iter # None => Iterating(iter, ht)) /\ ResultType

-----------------------------------------------------------------------------
(* The sizes of tables                                                     *)

LEMMA LeastNatural ==
  ASSUME NEW T, T \subseteq Nat, T # {}
  PROVE  \E x \in T : \A y \in T : x <= y
<1> DEFINE Below(x) == {y \in T : y < x}
           D == {Below(x) : x \in T}
<1>1. \A x \in T : IsFiniteSet(Below(x))
  BY FS_BoundedSetOfNaturals
<1>2. D \subseteq FiniteSubsetsOf(Nat) /\ D # {}
  BY <1>1 DEF FiniteSubsetsOf
<1>3. PICK U \in D : \A V \in D : ~ (<<V, U>> \in StrictSubsetOrdering(Nat))
  <2> HIDE DEF D
  <2> QED
    BY <1>2, FS_StrictSubsetOrderingWellFounded, WFMin
<1>4. PICK x \in T : U = Below(x)
  OBVIOUS
<1>5. ASSUME NEW y \in T, y < x PROVE FALSE
  <2>1. Below(y) \in D
    OBVIOUS
  <2>2. Below(y) \subseteq Below(x) /\ Below(x) \subseteq Nat
    <3>1. x \in Nat /\ y \in Nat
      OBVIOUS
    <3>2. \A z \in T : z < y => z < x
      BY <1>5, <3>1
    <3> QED
      BY <3>2
  <2>3. y \in Below(x) /\ y \notin Below(y)
    BY <1>5
  <2> QED
    BY <1>3, <1>4, <2>1, <2>2, <2>3 DEF StrictSubsetOrdering
<1> QED
  BY <1>5

LEMMA SizesAreNatural == Sizes \subseteq Nat \ {0} /\ \A n \in Sizes : n <= Limit
BY SizesAssumption

LEMMA NextPowerFits ==
  ASSUME NEW n \in 1 .. Limit
  PROVE  NextPower(n) \in Sizes /\ NextPower(n) >= n
<1> DEFINE T == {s \in Sizes : s >= n}
<1>1. T \subseteq Nat /\ T # {}
  <2>1. Limit \in Nat /\ Limit \in Sizes /\ Limit >= n
    BY SizesAssumption
  <2> QED
    BY <2>1, SizesAreNatural
<1>2. PICK s \in T : \A t \in T : s <= t
  <2> HIDE DEF T
  <2> QED
    BY <1>1, LeastNatural
<1>3. \E r \in Sizes : r >= n /\ \A t \in Sizes : t >= n => r <= t
  BY <1>2
<1> QED
  BY <1>3 DEF NextPower

-----------------------------------------------------------------------------
(* One table                                                               *)

LEMMA AllMembers ==
  ASSUME NEW d
  PROVE  \A e : e \in All(d) <=> \E b \in 0 .. d.size - 1 : e \in d.table[b]
BY DEF All

LEMMA BucketRange ==
  ASSUME NEW d, d.size \in Nat \ {0}, NEW k \in Keys
  PROVE  Bucket(d, k) \in 0 .. d.size - 1
<1>1. Hash[k] \in Nat
  BY DictTableAssumption
<1>2. \A a \in Nat, b \in Nat \ {0} : a % b \in 0 .. b - 1
  OBVIOUS
<1> QED
  BY <1>1, <1>2 DEF Bucket

LEMMA GoodTypes ==
  ASSUME NEW d, Good(d)
  PROVE  /\ d.size \in Nat /\ d.size <= Limit /\ (d.size = 0 \/ d.size \in Sizes)
         /\ d.used \in Nat /\ d.used <= d.size /\ Limit \in Nat
         /\ d.used = 0 <=> All(d) = {}
<1>1. d.used \in Nat /\ (d.used = 0 <=> All(d) = {})
  BY FS_CardinalityType, FS_EmptySet DEF Good
<1>2. /\ d.size \in Nat /\ d.size <= Limit /\ Limit \in Nat /\ (d.size = 0 \/ d.size \in Sizes)
      /\ d.used <= d.size
  <2>1. d.size \in {0} \cup Sizes /\ d.used <= d.size /\ Limit \in Nat
    BY SizesAssumption DEF Good
  <2>2. CASE d.size = 0
    BY <2>1, <2>2
  <2>3. CASE d.size \in Sizes
    BY <2>1, <2>3, SizesAreNatural
  <2> QED
    BY <2>1, <2>2, <2>3
<1> QED
  BY <1>1, <1>2

LEMMA InItsBucket ==
  ASSUME NEW d, Good(d), NEW e \in All(d)
  PROVE  /\ d.size \in Nat \ {0} /\ e \in Entries /\ e.key \in Keys /\ e.val \in Vals
         /\ Bucket(d, e.key) \in 0 .. d.size - 1 /\ e \in d.table[Bucket(d, e.key)]
<1>1. PICK b \in 0 .. d.size - 1 : e \in d.table[b]
  BY AllMembers
<1>2. e \in Entries /\ Bucket(d, e.key) = b
  BY <1>1 DEF Good
<1>3. d.size \in Nat \ {0}
  BY <1>1, GoodTypes
<1> QED
  BY <1>1, <1>2, <1>3 DEF Entries

LEMMA MatchingMembers ==
  ASSUME NEW d, Good(d), NEW k \in Keys
  PROVE  \A e : e \in Matching(d, k) <=> e \in All(d) /\ e.key = k
<1>1. CASE d.used = 0
  BY <1>1, GoodTypes DEF Matching
<1>2. CASE d.used # 0
  <2>1. d.size \in Nat \ {0}
    BY <1>2, GoodTypes
  <2>2. Bucket(d, k) \in 0 .. d.size - 1
    BY <2>1, BucketRange
  <2>3. \A e : e \in Matching(d, k) <=> e \in d.table[Bucket(d, k)] /\ e.key = k
    BY <1>2 DEF Matching
  <2> QED
    BY <2>2, <2>3, AllMembers, InItsBucket
<1> QED
  BY <1>1, <1>2

(* Moving the entries to more buckets, or fewer, loses none.               *)
LEMMA Expanded ==
  ASSUME NEW d, Good(d), NEW n \in 1 .. Limit, d.used <= n
  PROVE  LET x == DictExpand(d, n) IN
         Good(x) /\ All(x) = All(d) /\ x.used = d.used /\ x.size >= n /\ x.size \in Sizes
<1> DEFINE x == DictExpand(d, n)
           size == NextPower(n)
<1>1. size \in Sizes /\ size \in Nat \ {0} /\ size >= n
  BY NextPowerFits, SizesAreNatural
<1>2. /\ DOMAIN x = {"size", "used", "table"}
      /\ x.size = size /\ x.used = d.used
      /\ x.table = [b \in 0 .. size - 1 |-> {e \in All(d) : Hash[e.key] % size = b}]
  BY DEF DictExpand, Moved
<1> HIDE DEF x, size
<1>3. \A e \in All(d) : Hash[e.key] % size \in 0 .. size - 1
  BY <1>1, <1>2, InItsBucket, BucketRange DEF Bucket
<1>4. All(d) \subseteq Entries
  BY InItsBucket
<1>5. All(x) = All(d)
  <2>1. \A b \in 0 .. size - 1 : x.table[b] = {e \in All(d) : Hash[e.key] % size = b}
    BY <1>2
  <2>2. \A e : e \in All(x) <=> \E b \in 0 .. size - 1 : e \in x.table[b]
    BY <1>2, AllMembers
  <2> QED
    BY <1>3, <2>1, <2>2
<1>6. x.table \in [0 .. x.size - 1 -> SUBSET Entries]
  BY <1>2, <1>4
<1>7. \A b \in 0 .. x.size - 1 : \A e \in x.table[b] : Bucket(x, e.key) = b
  BY <1>2 DEF Bucket
<1>8. x.used <= x.size
  BY <1>1, <1>2, GoodTypes
<1> QED
  BY <1>1, <1>2, <1>5, <1>6, <1>7, <1>8 DEF Good, x

LEMMA GrownGood ==
  ASSUME NEW d, Good(d), ~ CannotGrow(d)
  PROVE  LET x == Grown(d) IN
         Good(x) /\ All(x) = All(d) /\ x.used = d.used /\ x.used < x.size
<1>1. /\ d.size \in Nat /\ d.size <= Limit /\ d.used \in Nat /\ d.used <= d.size
      /\ Limit \in Nat /\ InitialSize \in 1 .. Limit
  BY GoodTypes, SizesAssumption
<1>2. CASE d.size = 0
  <2>1. Grown(d) = DictExpand(d, InitialSize)
    BY <1>2 DEF Grown
  <2>2. d.used = 0 /\ d.used <= InitialSize
    BY <1>1, <1>2
  <2>3. LET x == DictExpand(d, InitialSize) IN
        Good(x) /\ All(x) = All(d) /\ x.used = d.used /\ x.size >= InitialSize /\ x.size \in Sizes
    BY <1>1, <2>2, Expanded
  <2>4. Grown(d).size \in Nat \ {0}
    BY <2>1, <2>3, SizesAreNatural
  <2> QED
    BY <1>1, <2>1, <2>2, <2>3, <2>4
<1>3. CASE d.size # 0 /\ d.used = d.size
  <2> DEFINE n == d.size * 2
  <2>1. Grown(d) = DictExpand(d, n)
    BY <1>3 DEF Grown
  <2>2. d.size \in Sizes \ {Limit}
    BY <1>3 DEF CannotGrow, Good
  <2>3. 2 * d.size \in Sizes
    BY <2>2, SizesAssumption
  <2>4. n \in Sizes /\ n \in 1 .. Limit /\ d.used < n
    BY <1>1, <1>3, <2>3, SizesAreNatural
  <2> HIDE DEF n
  <2>5. d.used <= n /\ n \in Nat
    BY <1>1, <2>4
  <2>6. LET x == DictExpand(d, n) IN
        Good(x) /\ All(x) = All(d) /\ x.used = d.used /\ x.size >= n /\ x.size \in Sizes
    BY <2>4, <2>5, Expanded
  <2>7. Grown(d).size \in Nat /\ Grown(d).size >= n
    BY <2>1, <2>6, SizesAreNatural
  <2>8. d.used < Grown(d).size
    BY <1>1, <2>4, <2>5, <2>7
  <2> QED
    BY <2>1, <2>6, <2>8
<1>4. CASE d.size # 0 /\ d.used # d.size
  BY <1>1, <1>4 DEF Grown
<1> QED
  BY <1>2, <1>3, <1>4

(* One bucket changes, to the entries of X. *)
Changed(d, x, b, X) ==
  /\ DOMAIN x = {"size", "used", "table"}
  /\ x.size = d.size /\ x.table = [d.table EXCEPT ![b] = X]
  /\ \A e \in X : Bucket(d, e.key) = b

LEMMA BucketChanged ==
  ASSUME NEW d, Good(d), NEW x, NEW b \in 0 .. d.size - 1, NEW X \in SUBSET Entries,
         Changed(d, x, b, X)
  PROVE  /\ DOMAIN x = {"size", "used", "table"} /\ x.size = d.size
         /\ x.table \in [0 .. x.size - 1 -> SUBSET Entries]
         /\ \A c \in 0 .. x.size - 1 : \A e \in x.table[c] : Bucket(x, e.key) = c
         /\ All(x) = (All(d) \ d.table[b]) \cup X
<1>1. /\ x.size = d.size /\ x.table = [d.table EXCEPT ![b] = X]
      /\ DOMAIN x = {"size", "used", "table"} /\ \A e \in X : Bucket(d, e.key) = b
  BY DEF Changed
<1>2. x.table \in [0 .. x.size - 1 -> SUBSET Entries]
  BY <1>1 DEF Good
<1>3. \A c \in 0 .. x.size - 1 : x.table[c] = IF c = b THEN X ELSE d.table[c]
  BY <1>1 DEF Good
<1>4. \A k : Bucket(x, k) = Bucket(d, k)
  BY <1>1 DEF Bucket
<1>5. \A c \in 0 .. x.size - 1 : \A e \in x.table[c] : Bucket(x, e.key) = c
  BY <1>1, <1>3, <1>4 DEF Good
<1>6. All(x) = (All(d) \ d.table[b]) \cup X
  <2>1. \A e : e \in All(x) <=> \E c \in 0 .. d.size - 1 :
                                  e \in (IF c = b THEN X ELSE d.table[c])
    <3>1. \A e : e \in All(x) <=> \E c \in 0 .. x.size - 1 : e \in x.table[c]
      BY AllMembers
    <3> QED
      BY <1>1, <1>3, <3>1
  <2>2. \A e : e \in All(d) <=> \E c \in 0 .. d.size - 1 : e \in d.table[c]
    BY AllMembers
  <2>3. \A c \in 0 .. d.size - 1 : \A e \in d.table[c] : e \in d.table[b] => c = b
    BY DEF Good
  <2> QED
    BY <2>1, <2>2, <2>3
<1> QED
  BY <1>1, <1>2, <1>5, <1>6

LEMMA AddedGood ==
  ASSUME NEW d, Good(d), d.used < d.size, NEW k \in Keys, NEW v \in Vals,
         Matching(d, k) = {}
  PROVE  Good(Added(d, k, v)) /\ All(Added(d, k, v)) = All(d) \cup {[key |-> k, val |-> v]}
<1> DEFINE x == Added(d, k, v)
           b == Bucket(d, k)
           new == [key |-> k, val |-> v]
           X == d.table[b] \cup {new}
<1>1. d.size \in Nat \ {0} /\ d.used \in Nat
  BY GoodTypes
<1>2. b \in 0 .. d.size - 1
  BY <1>1, BucketRange
<1>3. /\ DOMAIN x = {"size", "used", "table"}
      /\ x.size = d.size /\ x.table = [d.table EXCEPT ![b] = X]
      /\ x.used = d.used + 1
  BY <1>2 DEF Added, Good
<1>4. new \in Entries /\ X \in SUBSET Entries
  <2>1. new \in Entries
    BY DEF Entries
  <2>2. d.table[b] \subseteq Entries
    BY <1>2 DEF Good
  <2> QED
    BY <2>1, <2>2
<1>5. \A e \in X : Bucket(d, e.key) = b
  BY <1>2 DEF Good
<1>6. new \notin All(d) /\ \A e \in All(d) : e.key # k
  BY MatchingMembers
<1> HIDE DEF x, b, new
<1>7. /\ DOMAIN x = {"size", "used", "table"} /\ x.size = d.size
      /\ x.table \in [0 .. x.size - 1 -> SUBSET Entries]
      /\ \A c \in 0 .. x.size - 1 : \A e \in x.table[c] : Bucket(x, e.key) = c
      /\ All(x) = (All(d) \ d.table[b]) \cup X
  <2> HIDE DEF X
  <2>1. Changed(d, x, b, X)
    BY <1>2, <1>3, <1>4, <1>5 DEF Changed
  <2> QED
    BY <1>2, <1>4, <2>1, BucketChanged
<1>8. d.table[b] \subseteq All(d)
  BY <1>2, AllMembers
<1>9. All(x) = All(d) \cup {new}
  BY <1>7, <1>8
<1>10. IsFiniteSet(All(x)) /\ x.used = Cardinality(All(x))
  <2>1. IsFiniteSet(All(d)) /\ d.used = Cardinality(All(d))
    BY DEF Good
  <2>2. /\ IsFiniteSet(All(d) \cup {new})
        /\ Cardinality(All(d) \cup {new}) = Cardinality(All(d)) + 1
    BY <1>6, <2>1, FS_AddElement
  <2> QED
    BY <1>3, <1>9, <2>1, <2>2
<1>11. x.used <= x.size
  BY <1>1, <1>3, <1>7
<1>12. \A e, f \in All(x) : e.key = f.key => e = f
  BY <1>6, <1>9 DEF Good, new
<1>13. Good(x)
  BY <1>7, <1>10, <1>11, <1>12 DEF Good
<1> QED
  BY <1>9, <1>13 DEF x, new

LEMMA DeletedGood ==
  ASSUME NEW d, Good(d), NEW e \in All(d)
  PROVE  /\ Good(Deleted(d, e)) /\ All(Deleted(d, e)) = All(d) \ {e}
         /\ Deleted(d, e).size = d.size
<1> DEFINE x == Deleted(d, e)
           b == Bucket(d, e.key)
           X == d.table[b] \ {e}
<1>1. d.size \in Nat \ {0} /\ b \in 0 .. d.size - 1 /\ e \in d.table[b]
  BY InItsBucket
<1>2. /\ DOMAIN x = {"size", "used", "table"}
      /\ x.size = d.size /\ x.table = [d.table EXCEPT ![b] = X]
      /\ x.used = d.used - 1
  BY <1>1 DEF Deleted, Good
<1>3. X \in SUBSET Entries /\ \A f \in X : Bucket(d, f.key) = b
  BY <1>1 DEF Good
<1> HIDE DEF x, b
<1>4. /\ DOMAIN x = {"size", "used", "table"} /\ x.size = d.size
      /\ x.table \in [0 .. x.size - 1 -> SUBSET Entries]
      /\ \A c \in 0 .. x.size - 1 : \A f \in x.table[c] : Bucket(x, f.key) = c
      /\ All(x) = (All(d) \ d.table[b]) \cup X
  <2> HIDE DEF X
  <2>1. Changed(d, x, b, X)
    BY <1>1, <1>2, <1>3 DEF Changed
  <2> QED
    BY <1>1, <1>3, <2>1, BucketChanged
<1>5. d.table[b] \subseteq All(d)
  BY <1>1, AllMembers
<1>6. All(x) = All(d) \ {e}
  BY <1>1, <1>4, <1>5
<1>7. IsFiniteSet(All(x)) /\ x.used = Cardinality(All(x))
  BY <1>2, <1>6, FS_RemoveElement DEF Good
<1>8. x.used <= x.size
  BY <1>1, <1>2, <1>4, GoodTypes
<1>9. Good(x)
  BY <1>4, <1>6, <1>7, <1>8 DEF Good
<1> QED
  BY <1>4, <1>6, <1>9 DEF x

Replaced(d, e, v) ==
  [d EXCEPT !.table[Bucket(d, e.key)] = (@ \ {e}) \cup {[e EXCEPT !.val = v]}]

LEMMA ReplacedGood ==
  ASSUME NEW d, Good(d), NEW e \in All(d), NEW v \in Vals
  PROVE  LET x == Replaced(d, e, v) IN
         Good(x) /\ All(x) = (All(d) \ {e}) \cup {[key |-> e.key, val |-> v]}
<1> DEFINE x == Replaced(d, e, v)
           b == Bucket(d, e.key)
           new == [key |-> e.key, val |-> v]
           X == (d.table[b] \ {e}) \cup {new}
<1>1. /\ d.size \in Nat \ {0} /\ b \in 0 .. d.size - 1 /\ e \in d.table[b]
      /\ e \in Entries /\ e.key \in Keys
  BY InItsBucket
<1>2. new = [e EXCEPT !.val = v] /\ new \in Entries /\ new.key = e.key
  BY <1>1 DEF Entries
<1>3. /\ DOMAIN x = {"size", "used", "table"}
      /\ x.size = d.size /\ x.table = [d.table EXCEPT ![b] = X]
      /\ x.used = d.used
  BY <1>1, <1>2 DEF Replaced, Good
<1>4. X \in SUBSET Entries /\ \A f \in X : Bucket(d, f.key) = b
  BY <1>1, <1>2 DEF Good
<1> HIDE DEF x, b, new
<1>5. /\ DOMAIN x = {"size", "used", "table"} /\ x.size = d.size
      /\ x.table \in [0 .. x.size - 1 -> SUBSET Entries]
      /\ \A c \in 0 .. x.size - 1 : \A f \in x.table[c] : Bucket(x, f.key) = c
      /\ All(x) = (All(d) \ d.table[b]) \cup X
  <2> HIDE DEF X
  <2>1. Changed(d, x, b, X)
    BY <1>1, <1>3, <1>4 DEF Changed
  <2> QED
    <3>1. b \in 0 .. d.size - 1 /\ X \in SUBSET Entries
      BY <1>1, <1>4
    <3> QED
      BY ONLY Good(d), <2>1, <3>1, BucketChanged
<1>6. d.table[b] \subseteq All(d)
  BY <1>1, AllMembers
<1>7. All(x) = (All(d) \ {e}) \cup {new}
  BY <1>1, <1>5, <1>6
<1>8. new \notin All(d) \ {e} /\ \A f \in All(d) \ {e} : f.key # e.key
  BY <1>2 DEF Good
<1>9. IsFiniteSet(All(x)) /\ x.used = Cardinality(All(x))
  <2> DEFINE R == All(d) \ {e}
  <2>1. IsFiniteSet(R) /\ Cardinality(R) = d.used - 1 /\ d.used \in Nat
    BY FS_RemoveElement, GoodTypes DEF Good
  <2> HIDE DEF R
  <2>2. IsFiniteSet(R \cup {new}) /\ Cardinality(R \cup {new}) = Cardinality(R) + 1
    BY <1>8, <2>1, FS_AddElement DEF R
  <2>3. All(x) = R \cup {new} /\ Cardinality(R) + 1 = d.used
    BY <1>7, <2>1 DEF R
  <2> QED
    BY <1>3, <2>2, <2>3
<1>10. x.used <= x.size
  BY <1>3, <1>5 DEF Good
<1>11. \A f, g \in All(x) : f.key = g.key => f = g
  BY <1>2, <1>7, <1>8 DEF Good
<1>12. Good(x)
  BY <1>5, <1>9, <1>10, <1>11 DEF Good
<1> QED
  BY <1>7, <1>12 DEF x, new

-----------------------------------------------------------------------------
(* An iterator                                                             *)

LEMMA AheadInTable ==
  ASSUME NEW d, NEW i, Iterating(i, d)
  PROVE  Ahead(i, d) \subseteq All(d)
BY DEF Iterating, Ahead, Later

LEMMA IteratorFields ==
  ASSUME NEW i \in Iterators
  PROVE  /\ i = [index |-> i.index, rest |-> i.rest, entry |-> i.entry,
                 seen |-> i.seen, returned |-> i.returned, start |-> i.start]
         /\ i.index \in -1 .. Limit /\ i.rest \in SUBSET Entries
         /\ i.entry \in Entries \cup {None} /\ i.seen \in SUBSET Keys
         /\ i.returned \in Nat /\ i.start \in SUBSET Keys
BY DEF Iterators

(* A new iterator has the whole table ahead.                               *)
LEMMA IterationBegins ==
  ASSUME NEW d, Good(d)
  PROVE  Iterating([index |-> -1, rest |-> {}, entry |-> None, seen |-> {}, returned |-> 0,
                    start |-> {e.key : e \in All(d)}], d)
<1> DEFINE i == [index |-> -1, rest |-> {}, entry |-> None, seen |-> {}, returned |-> 0,
                 start |-> {e.key : e \in All(d)}]
<1>1. /\ i.index = -1 /\ i.entry = None /\ i.seen = {} /\ i.returned = 0
      /\ i.start = {e.key : e \in All(d)}
  OBVIOUS
<1>2. d.size \in Nat /\ Limit \in Nat
  BY GoodTypes
<1>3. i \in Iterators
  <2>1. {e.key : e \in All(d)} \in SUBSET Keys
    BY InItsBucket
  <2>2. -1 \in -1 .. Limit /\ 0 \in Nat
    BY <1>2
  <2> QED
    BY <2>1, <2>2 DEF Iterators
<1> HIDE DEF i
<1>4. Remaining(i) = {}
  BY <1>1 DEF Remaining
<1>5. Later(i, d) = All(d)
  <2>1. \A e \in All(d) : Bucket(d, e.key) \in Nat
    BY InItsBucket, <1>2
  <2>2. \A n \in Nat : n > -1
    OBVIOUS
  <2> QED
    BY <1>1, <2>1, <2>2 DEF Later
<1>6. Ahead(i, d) = All(d)
  BY <1>4, <1>5 DEF Ahead
<1>7. IsFiniteSet({}) /\ Cardinality({}) = 0
  BY FS_EmptySet
<1>8. i.index <= d.size
  BY <1>1, <1>2
<1>9. Iterating(i, d)
  BY <1>1, <1>3, <1>4, <1>6, <1>7, <1>8 DEF Iterating
<1> QED
  BY <1>9 DEF i

(* An entry that is ahead is returned, and is not ahead any more.          *)
LEMMA EntryReturned ==
  ASSUME NEW d, Good(d), NEW i, Iterating(i, d), NEW e \in Ahead(i, d),
         NEW chain \in SUBSET All(d), NEW b \in 0 .. d.size - 1,
         \A f \in chain : Bucket(d, f.key) = b,
         (chain \ {e}) \cup {f \in All(d) : Bucket(d, f.key) > b} = Ahead(i, d) \ {e}
  PROVE  Iterating([i EXCEPT !.index = b, !.rest = chain, !.entry = e,
                             !.seen = @ \cup {e.key}, !.returned = @ + 1], d)
<1> DEFINE j == [i EXCEPT !.index = b, !.rest = chain, !.entry = e,
                          !.seen = @ \cup {e.key}, !.returned = @ + 1]
<1>1. e \in All(d) /\ e \in Entries /\ e.key \in Keys /\ e # None
  BY AheadInTable, InItsBucket, NoneAssumption
<1>2. /\ i \in Iterators /\ IsFiniteSet(i.seen) /\ i.returned = Cardinality(i.seen)
      /\ \A f \in Ahead(i, d) : f.key \notin i.seen
      /\ i.start = i.seen \cup {f.key : f \in Ahead(i, d)}
  BY DEF Iterating
<1>3. d.size \in Nat /\ Limit \in Nat /\ d.size <= Limit
  BY GoodTypes
<1>4. /\ j.index = b /\ j.rest = chain /\ j.entry = e /\ j.seen = i.seen \cup {e.key}
      /\ j.returned = i.returned + 1 /\ j.start = i.start
  BY <1>2 DEF Iterators
<1>5. j \in Iterators
  <2>1. chain \in SUBSET Entries
    BY InItsBucket
  <2>2. b \in -1 .. Limit
    BY <1>3
  <2>3. i.seen \cup {e.key} \in SUBSET Keys /\ i.returned + 1 \in Nat /\ i.start \in SUBSET Keys
    BY <1>1, <1>2, IteratorFields
  <2> QED
    BY <1>1, <1>2, <2>1, <2>2, <2>3 DEF Iterators
<1> HIDE DEF j
<1>6. Remaining(j) = chain \ {e} /\ Later(j, d) = {f \in All(d) : Bucket(d, f.key) > b}
  BY <1>1, <1>4 DEF Remaining, Later
<1>7. Ahead(j, d) = Ahead(i, d) \ {e}
  BY <1>6 DEF Ahead
<1>8. e.key \notin i.seen
  BY <1>2
<1>9. IsFiniteSet(j.seen) /\ j.returned = Cardinality(j.seen)
  <2>1. /\ IsFiniteSet(i.seen \cup {e.key})
        /\ Cardinality(i.seen \cup {e.key}) = Cardinality(i.seen) + 1
    BY <1>2, <1>8, FS_AddElement
  <2> QED
    BY <1>2, <1>4, <2>1
<1>10. \A f \in Ahead(j, d) : f.key \notin j.seen
  <2>1. \A f \in Ahead(j, d) : f \in All(d) /\ f # e /\ f.key \notin i.seen
    BY <1>2, <1>7, AheadInTable
  <2>2. \A f \in Ahead(j, d) : f.key # e.key
    BY <1>1, <2>1 DEF Good
  <2> QED
    BY <1>4, <2>1, <2>2
<1>11. j.start = j.seen \cup {f.key : f \in Ahead(j, d)}
  <2> DEFINE A == Ahead(i, d)
  <2>1. {f.key : f \in A} = {e.key} \cup {f.key : f \in A \ {e}}
    OBVIOUS
  <2> QED
    BY <1>2, <1>4, <1>7, <2>1
<1>12. j.index <= d.size /\ j.index < d.size
  BY <1>3, <1>4
<1>13. e.key \in j.seen
  BY <1>4
<1>14. Iterating(j, d)
  BY <1>4, <1>5, <1>6, <1>9, <1>10, <1>11, <1>12, <1>13 DEF Iterating
<1> QED
  BY <1>14 DEF j

(* The iterator goes on along its chain.                                   *)
LEMMA NextOfChain ==
  ASSUME NEW d, Good(d), NEW i, Iterating(i, d), NEW e \in Remaining(i)
  PROVE  /\ Iterating([i EXCEPT !.index = i.index, !.rest = Remaining(i), !.entry = e,
                                !.seen = @ \cup {e.key}, !.returned = @ + 1], d)
         /\ e \in All(d)
<1>1. /\ Remaining(i) \in SUBSET All(d) /\ \A f \in Remaining(i) : Bucket(d, f.key) = i.index
      /\ e \in Ahead(i, d) /\ e \in All(d)
  BY DEF Iterating, Ahead
<1>2. i.index \in 0 .. d.size - 1
  BY <1>1, InItsBucket
<1>3. i.index \in Int /\ \A f \in All(d) : Bucket(d, f.key) \in Int
  BY <1>2, InItsBucket
<1>4. e \notin Later(i, d)
  BY <1>1, <1>3 DEF Later
<1>5. (Remaining(i) \ {e}) \cup {f \in All(d) : Bucket(d, f.key) > i.index} = Ahead(i, d) \ {e}
  BY <1>4 DEF Ahead, Later
<1> QED
  BY <1>1, <1>2, <1>5, EntryReturned

(* The iterator comes to the next bucket that is not empty.                *)
LEMMA NextOfTable ==
  ASSUME NEW d, Good(d), NEW i, Iterating(i, d), Remaining(i) = {},
         NEW b \in i.index + 1 .. d.size - 1,
         \A c \in i.index + 1 .. d.size - 1 : d.table[c] # {} => b <= c,
         NEW e \in d.table[b]
  PROVE  /\ Iterating([i EXCEPT !.index = b, !.rest = d.table[b], !.entry = e,
                                !.seen = @ \cup {e.key}, !.returned = @ + 1], d)
         /\ e \in All(d)
<1>1. i.index \in -1 .. Limit /\ d.size \in Nat /\ Limit \in Nat
  BY GoodTypes, IteratorFields DEF Iterating
<1>2. b \in 0 .. d.size - 1 /\ b > i.index
  BY <1>1
<1>3. /\ d.table[b] \in SUBSET All(d) /\ e \in All(d)
      /\ \A f \in d.table[b] : Bucket(d, f.key) = b
  BY <1>2, AllMembers DEF Good
<1>4. \A f \in All(d) : Bucket(d, f.key) > i.index <=> f \in d.table[b] \/ Bucket(d, f.key) > b
  <2> SUFFICES ASSUME NEW f \in All(d)
               PROVE  Bucket(d, f.key) > i.index <=> f \in d.table[b] \/ Bucket(d, f.key) > b
    OBVIOUS
  <2>1. Bucket(d, f.key) \in 0 .. d.size - 1 /\ f \in d.table[Bucket(d, f.key)]
    BY InItsBucket
  <2>2. ASSUME Bucket(d, f.key) > i.index PROVE Bucket(d, f.key) >= b
    <3>1. Bucket(d, f.key) \in i.index + 1 .. d.size - 1
      BY <1>1, <2>1, <2>2
    <3> QED
      BY <1>1, <1>2, <2>1, <3>1
  <2>3. ASSUME f \in d.table[b] PROVE Bucket(d, f.key) = b
    BY <1>3, <2>3
  <2>4. Bucket(d, f.key) = b => f \in d.table[b]
    BY <2>1
  <2> QED
    BY <1>1, <1>2, <2>1, <2>2, <2>3, <2>4
<1>5. Ahead(i, d) = d.table[b] \cup {f \in All(d) : Bucket(d, f.key) > b}
  BY <1>3, <1>4 DEF Ahead, Later
<1>6. e \in Ahead(i, d) /\ Bucket(d, e.key) = b
  BY <1>3, <1>5
<1>7. (d.table[b] \ {e}) \cup {f \in All(d) : Bucket(d, f.key) > b} = Ahead(i, d) \ {e}
  <2>1. ~ (Bucket(d, e.key) > b)
    BY <1>2, <1>6
  <2> QED
    BY <1>5, <2>1
<1> QED
  <2>1. d.table[b] \in SUBSET All(d)
    BY <1>3
  <2>2. \A f \in d.table[b] : Bucket(d, f.key) = b
    BY <1>3
  <2>3. b \in 0 .. d.size - 1 /\ e \in Ahead(i, d) /\ e \in All(d)
    BY <1>2, <1>3, <1>6
  <2> QED
    BY ONLY Good(d), Iterating(i, d), <1>7, <2>1, <2>2, <2>3, EntryReturned

(* The iterator comes to the end of the table.                             *)
LEMMA NextOfNone ==
  ASSUME NEW d, Good(d), NEW i, Iterating(i, d), Remaining(i) = {},
         \A c \in i.index + 1 .. d.size - 1 : d.table[c] = {}
  PROVE  Iterating([i EXCEPT !.index = d.size, !.entry = None, !.rest = {}], d)
<1> DEFINE j == [i EXCEPT !.index = d.size, !.entry = None, !.rest = {}]
<1>1. /\ i.index \in -1 .. Limit /\ d.size \in Nat /\ Limit \in Nat /\ d.size <= Limit
      /\ i \in Iterators
  BY GoodTypes, IteratorFields DEF Iterating
<1>2. /\ j.index = d.size /\ j.rest = {} /\ j.entry = None /\ j.seen = i.seen
      /\ j.returned = i.returned /\ j.start = i.start
  BY <1>1 DEF Iterators
<1>3. j \in Iterators
  <2>1. d.size \in -1 .. Limit
    BY <1>1
  <2> QED
    BY <1>1, <2>1 DEF Iterators
<1> HIDE DEF j
<1>4. \A e \in All(d) : ~ (Bucket(d, e.key) > i.index) /\ ~ (Bucket(d, e.key) > d.size)
  <2> SUFFICES ASSUME NEW e \in All(d)
               PROVE  ~ (Bucket(d, e.key) > i.index) /\ ~ (Bucket(d, e.key) > d.size)
    OBVIOUS
  <2>1. Bucket(d, e.key) \in 0 .. d.size - 1 /\ d.table[Bucket(d, e.key)] # {}
    BY InItsBucket
  <2>2. Bucket(d, e.key) \notin i.index + 1 .. d.size - 1
    BY <2>1
  <2> QED
    BY <1>1, <2>1, <2>2
<1>5. Remaining(j) = {} /\ Later(j, d) = {} /\ Later(i, d) = {}
  BY <1>2, <1>4 DEF Remaining, Later
<1>6. Ahead(j, d) = {} /\ Ahead(i, d) = {}
  BY <1>5 DEF Ahead
<1>7. j.index <= d.size
  BY <1>1, <1>2
<1>8. Iterating(j, d)
  BY <1>2, <1>3, <1>5, <1>6, <1>7 DEF Iterating
<1> QED
  BY <1>8 DEF j

(* The entry returned last may be deleted: it is not ahead.                *)
LEMMA DeletedBehind ==
  ASSUME NEW d, Good(d), NEW i, Iterating(i, d), NEW e \in All(d), e.key \in i.seen
  PROVE  Iterating(i, Deleted(d, e))
<1> DEFINE x == Deleted(d, e)
<1>1. Good(x) /\ All(x) = All(d) \ {e} /\ x.size = d.size
  BY DeletedGood
<1> HIDE DEF x
<1>2. \A k : Bucket(x, k) = Bucket(d, k)
  BY <1>1 DEF Bucket
<1>3. e \notin Ahead(i, d)
  BY DEF Iterating
<1>4. Later(i, x) = Later(i, d)
  BY <1>1, <1>2, <1>3 DEF Later, Ahead
<1>5. Ahead(i, x) = Ahead(i, d)
  BY <1>4 DEF Ahead
<1>6. Remaining(i) \subseteq All(x)
  BY <1>1, <1>3 DEF Iterating, Ahead
<1>7. Iterating(i, x)
  BY <1>1, <1>2, <1>5, <1>6 DEF Iterating
<1> QED
  BY <1>7 DEF x

-----------------------------------------------------------------------------
(* The invariant                                                           *)

LEMMA EmptyGood == Good(Empty) /\ All(Empty) = {}
<1>1. /\ Empty.size = 0 /\ Empty.used = 0 /\ Empty.table = [b \in {} |-> {}]
      /\ DOMAIN Empty = {"size", "used", "table"}
  BY DEF Empty
<1>2. All(Empty) = {}
  BY <1>1, AllMembers
<1>3. IsFiniteSet({}) /\ Cardinality({}) = 0
  BY FS_EmptySet
<1>4. Good(Empty)
  <2>1. 0 .. Empty.size - 1 = {}
    BY <1>1
  <2>2. Empty.table \in [{} -> SUBSET Entries]
    BY <1>1
  <2> QED
    BY <1>1, <1>2, <1>3, <2>1, <2>2 DEF Good
<1> QED
  BY <1>2, <1>4

LEMMA InitInv == Init => Inv
BY EmptyGood DEF Init, Inv, ResultType

LEMMA ResizedGood ==
  ASSUME NEW d, Good(d), d.size >= MinSlots
  PROVE  Good(DictResize(d)) /\ All(DictResize(d)) = All(d)
<1>1. /\ d.size \in Nat /\ d.used \in Nat /\ d.used <= d.size /\ d.size <= Limit
      /\ Limit \in Nat /\ InitialSize \in 1 .. Limit
  BY GoodTypes, SizesAssumption
<1>2. Minimal(d) \in 1 .. Limit /\ d.used <= Minimal(d)
  BY <1>1 DEF Minimal
<1>3. LET x == DictExpand(d, Minimal(d)) IN
      Good(x) /\ All(x) = All(d) /\ x.used = d.used /\ x.size >= Minimal(d) /\ x.size \in Sizes
  BY <1>2, Expanded
<1> QED
  BY <1>3 DEF DictResize

LEMMA ResultsTyped ==
  /\ \A r \in {<<"ok">>, <<"err">>, <<"none">>, <<"end">>, <<"dead">>} :
       result' = r => ResultType'
  /\ \A v \in Vals : result' = <<"val", v>> => ResultType'
  /\ \A k \in Keys, v \in Vals : result' = <<"entry", k, v>> => ResultType'
BY DEF ResultType

(* What DictAdd and DictReplace do to a table with room, d, for a key.     *)
LEMMA AddStep ==
  ASSUME Inv, NEW k \in Keys, NEW v \in Vals, DictAdd(k, v) PROVE Inv'
<1> DEFINE d == Grown(ht)
<1>1. Good(ht) /\ ~ CannotGrow(ht) /\ iter = None
  BY DEF Inv, DictAdd, Idle
<1>2. Good(d) /\ d.used < d.size
  BY <1>1, GrownGood
<1>3. /\ \/ Matching(d, k) # {} /\ ht' = d /\ result' = <<"err">>
         \/ Matching(d, k) = {} /\ ht' = Added(d, k, v) /\ result' = <<"ok">>
      /\ iter' = None
  BY <1>1 DEF DictAdd
<1> HIDE DEF d
<1>4. Good(ht')
  BY <1>2, <1>3, AddedGood
<1>5. ResultType'
  BY <1>3, ResultsTyped
<1> QED
  BY <1>3, <1>4, <1>5 DEF Inv

LEMMA ReplaceStep ==
  ASSUME Inv, NEW k \in Keys, NEW v \in Vals, DictReplace(k, v) PROVE Inv'
<1> DEFINE d == Grown(ht)
<1>1. Good(ht) /\ ~ CannotGrow(ht) /\ iter = None
  BY DEF Inv, DictReplace, Idle
<1>2. Good(d) /\ d.used < d.size
  BY <1>1, GrownGood
<1>3. /\ \/ \E e \in Matching(d, k) :
              ht' = [d EXCEPT !.table[Bucket(d, k)] = (@ \ {e}) \cup {[e EXCEPT !.val = v]}]
         \/ Matching(d, k) = {} /\ ht' = Added(d, k, v)
      /\ result' = <<"ok">> /\ iter' = None
  BY <1>1 DEF DictReplace
<1> HIDE DEF d
<1>4. CASE Matching(d, k) = {} /\ ht' = Added(d, k, v)
  <2>1. Good(ht')
    BY <1>2, <1>4, AddedGood
  <2> QED
    BY <1>3, <2>1, ResultsTyped DEF Inv
<1>5. ASSUME NEW e \in Matching(d, k),
             ht' = [d EXCEPT !.table[Bucket(d, k)] = (@ \ {e}) \cup {[e EXCEPT !.val = v]}]
      PROVE  Inv'
  <2>1. e \in All(d) /\ e.key = k
    BY <1>2, <1>5, MatchingMembers
  <2>2. ht' = Replaced(d, e, v)
    BY <1>5, <2>1 DEF Replaced
  <2>3. Good(ht')
    BY <1>2, <2>1, <2>2, ReplacedGood
  <2> QED
    BY <1>3, <2>3, ResultsTyped DEF Inv
<1> QED
  BY <1>3, <1>4, <1>5

LEMMA DeleteStep ==
  ASSUME Inv, NEW k \in Keys, DictDelete(k) PROVE Inv'
<1>1. Good(ht) /\ (iter # None => Iterating(iter, ht)) /\ iter' = iter
  BY DEF Inv, DictDelete
<1>2. CASE ht' = ht /\ result' = <<"err">>
  BY <1>1, <1>2, ResultsTyped DEF Inv
<1>3. ASSUME NEW e \in Matching(ht, k), ht' = Deleted(ht, e), result' = <<"ok">> PROVE Inv'
  <2>1. e \in All(ht) /\ e.key = k
    BY <1>1, MatchingMembers
  <2>2. Good(ht')
    BY <1>1, <1>3, <2>1, DeletedGood
  <2>3. ASSUME iter # None PROVE Iterating(iter, ht')
    <3>1. iter.entry # None /\ iter.entry.key = k
      BY <2>3 DEF DictDelete
    <3>2. e.key \in iter.seen
      BY <1>1, <2>1, <2>3, <3>1 DEF Iterating
    <3> QED
      BY <1>1, <1>3, <2>1, <2>3, <3>2, DeletedBehind
  <2>4. ResultType'
    BY <1>3, ResultsTyped
  <2> QED
    BY <1>1, <2>2, <2>3, <2>4 DEF Inv
<1> QED
  BY <1>2, <1>3 DEF DictDelete

LEMMA LookStep ==
  ASSUME Inv, DictGetRandomKey \/ \E k \in Keys : DictFind(k) PROVE Inv'
<1>1. Good(ht) /\ (iter # None => Iterating(iter, ht)) /\ ht' = ht /\ iter' = iter
  BY DEF Inv, DictGetRandomKey, DictFind
<1>2. ResultType'
  <2>1. CASE result' = <<"none">>
    BY <2>1, ResultsTyped
  <2>2. CASE \E e \in All(ht) : result' = <<"entry", e.key, e.val>>
    BY <1>1, <2>2, InItsBucket, ResultsTyped
  <2>3. ASSUME NEW k \in Keys, NEW e \in Matching(ht, k), result' = <<"val", e.val>>
        PROVE  ResultType'
    BY <1>1, <2>3, MatchingMembers, InItsBucket, ResultsTyped
  <2> QED
    BY <2>1, <2>2, <2>3 DEF DictGetRandomKey, DictFind
<1> QED
  BY <1>1, <1>2 DEF Inv

LEMMA TableStep ==
  ASSUME Inv, GrowBeyondLimit \/ DictEmpty \/ ServerCron \/ DictReleaseIterator
              \/ DictGetIterator
  PROVE  Inv'
<1>1. Good(ht) /\ (iter # None => Iterating(iter, ht))
  BY DEF Inv
<1>2. CASE GrowBeyondLimit
  BY <1>1, <1>2, ResultsTyped DEF Inv, GrowBeyondLimit
<1>3. CASE DictEmpty
  BY <1>1, <1>3, EmptyGood, ResultsTyped DEF Inv, DictEmpty, Idle
<1>4. CASE ServerCron
  <2>1. Good(ht')
    BY <1>1, <1>4, ResizedGood DEF ServerCron
  <2> QED
    BY <1>4, <2>1, ResultsTyped DEF Inv, ServerCron, Idle
<1>5. CASE DictReleaseIterator
  BY <1>1, <1>5, ResultsTyped DEF Inv, DictReleaseIterator
<1>6. CASE DictGetIterator
  <2>1. Iterating(iter', ht')
    BY <1>1, <1>6, IterationBegins DEF DictGetIterator
  <2> QED
    BY <1>1, <1>6, <2>1, ResultsTyped DEF Inv, DictGetIterator
<1> QED
  BY <1>2, <1>3, <1>4, <1>5, <1>6

(* Each of the three ways on of an iterator; the entry it returns is one of *)
(* the table.                                                              *)
LEMMA NextEntry ==
  ASSUME Good(ht), Iterating(iter, ht), DictNext
  PROVE  /\ Iterating(iter', ht) /\ ht' = ht
         /\ result' = <<"end">> \/ \E e \in All(ht) : result' = <<"entry", e.key, e.val>>
<1> DEFINE later == {b \in iter.index + 1 .. ht.size - 1 : ht.table[b] # {}}
           Return(e, chain, b) ==
             /\ iter' = [iter EXCEPT !.index = b, !.rest = chain, !.entry = e,
                                     !.seen = @ \cup {e.key}, !.returned = @ + 1]
             /\ result' = <<"entry", e.key, e.val>>
<1>1. /\ \/ \E e \in Remaining(iter) : Return(e, Remaining(iter), iter.index)
         \/ /\ Remaining(iter) = {}
            /\ \E b \in later : (\A c \in later : b <= c)
                                /\ \E e \in ht.table[b] : Return(e, ht.table[b], b)
         \/ /\ Remaining(iter) = {} /\ later = {}
            /\ iter' = [iter EXCEPT !.index = ht.size, !.entry = None, !.rest = {}]
            /\ result' = <<"end">>
      /\ ht' = ht
  BY DEF DictNext, Remaining, Following
<1>2. ASSUME NEW e \in Remaining(iter), Return(e, Remaining(iter), iter.index)
      PROVE  Iterating(iter', ht) /\ e \in All(ht)
  BY <1>2, NextOfChain
<1>3. ASSUME Remaining(iter) = {}, NEW b \in later, \A c \in later : b <= c,
             NEW e \in ht.table[b], Return(e, ht.table[b], b)
      PROVE  Iterating(iter', ht) /\ e \in All(ht)
  <2>1. \A c \in iter.index + 1 .. ht.size - 1 : ht.table[c] # {} => b <= c
    BY <1>3
  <2> QED
    BY <1>3, <2>1, NextOfTable
<1>4. ASSUME Remaining(iter) = {}, later = {},
             iter' = [iter EXCEPT !.index = ht.size, !.entry = None, !.rest = {}]
      PROVE  Iterating(iter', ht)
  <2>1. \A c \in iter.index + 1 .. ht.size - 1 : ht.table[c] = {}
    BY <1>4
  <2> QED
    BY <1>4, <2>1, NextOfNone
<1> QED
  BY <1>1, <1>2, <1>3, <1>4

LEMMA NextStep ==
  ASSUME Inv, DictNext PROVE Inv'
<1>1. Good(ht) /\ Iterating(iter, ht)
  BY DEF Inv, DictNext
<1>2. /\ Iterating(iter', ht) /\ ht' = ht
      /\ result' = <<"end">> \/ \E e \in All(ht) : result' = <<"entry", e.key, e.val>>
  BY <1>1, NextEntry
<1>3. ResultType'
  BY <1>1, <1>2, InItsBucket, ResultsTyped
<1> QED
  BY <1>1, <1>2, <1>3 DEF Inv

LEMMA InvAlways == Spec => []Inv
<1>1. ASSUME Inv, [Next]_vars PROVE Inv'
  <2>1. CASE UNCHANGED vars
    BY <1>1, <2>1 DEF vars, Inv, ResultType
  <2>2. CASE Next
    BY <1>1, <2>2, AddStep, ReplaceStep, DeleteStep, LookStep, TableStep, NextStep DEF Next
  <2> QED
    BY <1>1, <2>1, <2>2
<1> QED
  BY <1>1, InitInv, PTL DEF Spec

-----------------------------------------------------------------------------
(* The size of a table is one of Sizes or 0, and everything in it and in   *)
(* its iterator is what it should be.                                      *)
THEOREM DictTypeCorrect == Spec => []TypeOK
<1>1. Inv => TypeOK
  <2> SUFFICES ASSUME Inv PROVE TypeOK
    OBVIOUS
  <2>1. /\ ht.size \in {0} \cup Sizes /\ ht.used \in 0 .. Limit
        /\ ht.table \in [0 .. ht.size - 1 -> SUBSET Entries]
    BY GoodTypes DEF Inv, Good
  <2>2. iter = None \/ (iter \in Iterators /\ iter.index <= ht.size)
    BY DEF Inv, Iterating
  <2> QED
    BY <2>1, <2>2 DEF Inv, TypeOK, ResultType
<1> QED
  BY <1>1, InvAlways, PTL

(* dict.c:201 at every size: used counts the entries, there is never more  *)
(* than one to a bucket on the average, and each is where a search for its *)
(* key will find it.                                                       *)
THEOREM TableWellFormed == Spec => []WellFormed
<1>1. Inv => WellFormed
  BY DEF Inv, Good, WellFormed
<1> QED
  BY <1>1, InvAlways, PTL

(* dict.c:366-386: an iteration returns each entry once, even if entries   *)
(* it has returned are deleted under it.                                   *)
THEOREM IterationsComplete == Spec => []IterationComplete
<1>1. Inv => IterationComplete
  <2> SUFFICES ASSUME Inv, iter # None
               PROVE  /\ iter.returned = Cardinality(iter.seen)
                      /\ iter.index >= ht.size => iter.seen = iter.start
    BY DEF IterationComplete
  <2>1. Good(ht) /\ Iterating(iter, ht)
    BY DEF Inv
  <2>2. ASSUME iter.index >= ht.size PROVE Ahead(iter, ht) = {}
    <3>1. iter.index \in Int /\ ht.size \in Nat
      BY <2>1, IteratorFields, GoodTypes DEF Iterating
    <3>2. iter.entry = None
      BY <2>1, <2>2, <3>1 DEF Iterating
    <3>3. \A e \in All(ht) : ~ (Bucket(ht, e.key) > iter.index)
      BY <2>1, <2>2, <3>1, InItsBucket
    <3> QED
      BY <3>2, <3>3 DEF Ahead, Remaining, Later
  <2> QED
    BY <2>1, <2>2 DEF Iterating
<1> QED
  BY <1>1, InvAlways, PTL

-----------------------------------------------------------------------------
(* The map that a table is                                                 *)

LEMMA ContentsOf ==
  ASSUME NEW d, Good(d)
  PROVE  /\ Contents(d) \in [Keys -> Vals \cup {None}]
         /\ \A e \in All(d) : e.key \in Keys /\ e.val \in Vals /\ Contents(d)[e.key] = e.val
         /\ \A k \in Keys : Contents(d)[k] # None <=> \E e \in All(d) : e.key = k
<1>1. \A e \in All(d) : e.key \in Keys /\ e.val \in Vals /\ e.val # None
  BY InItsBucket, NoneAssumption
<1>2. ASSUME NEW e \in All(d) PROVE Contents(d)[e.key] = e.val
  <2>1. \A f \in All(d) : f.key = e.key => f = e
    BY DEF Good
  <2>2. (CHOOSE f \in All(d) : f.key = e.key) = e
    BY <2>1
  <2> QED
    BY <1>1, <2>2 DEF Contents
<1>3. ASSUME NEW k \in Keys, ~ \E e \in All(d) : e.key = k PROVE Contents(d)[k] = None
  BY <1>3 DEF Contents
<1>4. \A k \in Keys : Contents(d)[k] \in Vals \cup {None}
  BY <1>1, <1>2, <1>3
<1>5. Contents(d) \in [Keys -> Vals \cup {None}]
  BY <1>4 DEF Contents
<1> QED
  BY <1>1, <1>2, <1>3, <1>5

LEMMA SameContents ==
  ASSUME NEW d, NEW x, All(x) = All(d) PROVE Contents(x) = Contents(d)
BY DEF Contents

(* Two maps are the same that have the same value for each key.            *)
LEMMA SameMap ==
  ASSUME NEW S, NEW f \in [Keys -> S], NEW T, NEW g \in [Keys -> T],
         \A k \in Keys : f[k] = g[k]
  PROVE  f = g
OBVIOUS

(* An entry takes the place of what there was for its key, if anything.    *)
LEMMA PutContents ==
  ASSUME NEW d, Good(d), NEW x, Good(x), NEW new \in Entries,
         \A f : f \in All(x) <=> f = new \/ (f \in All(d) /\ f.key # new.key)
  PROVE  Contents(x) = [Contents(d) EXCEPT ![new.key] = new.val]
<1> DEFINE m == [Contents(d) EXCEPT ![new.key] = new.val]
<1>1. new.key \in Keys /\ new.val \in Vals
  BY DEF Entries
<1>2. /\ Contents(d) \in [Keys -> Vals \cup {None}]
      /\ \A e \in All(d) : Contents(d)[e.key] = e.val
      /\ \A k \in Keys : Contents(d)[k] # None <=> \E e \in All(d) : e.key = k
  BY ContentsOf
<1>3. /\ Contents(x) \in [Keys -> Vals \cup {None}]
      /\ \A e \in All(x) : Contents(x)[e.key] = e.val
      /\ \A k \in Keys : Contents(x)[k] # None <=> \E e \in All(x) : e.key = k
  BY ContentsOf
<1>4. m \in [Keys -> Vals \cup {None}] /\ m[new.key] = new.val
      /\ \A k \in Keys : k # new.key => m[k] = Contents(d)[k]
  BY <1>1, <1>2
<1> HIDE DEF m
<1>5. ASSUME NEW k \in Keys PROVE Contents(x)[k] = m[k]
  <2>1. CASE k = new.key
    BY <1>3, <1>4, <2>1
  <2>2. CASE k # new.key /\ \E e \in All(d) : e.key = k
    BY <1>2, <1>3, <1>4, <2>2
  <2>3. CASE k # new.key /\ ~ \E e \in All(d) : e.key = k
    BY <1>2, <1>3, <1>4, <2>3
  <2> QED
    BY <2>1, <2>2, <2>3
<1>6. Contents(x) = m
  BY <1>3, <1>4, <1>5, SameMap
<1> QED
  BY <1>6 DEF m

LEMMA DeletedContents ==
  ASSUME NEW d, Good(d), NEW e \in All(d)
  PROVE  Contents(Deleted(d, e)) = [Contents(d) EXCEPT ![e.key] = None]
<1> DEFINE x == Deleted(d, e)
           m == [Contents(d) EXCEPT ![e.key] = None]
<1>1. Good(x) /\ All(x) = All(d) \ {e}
  BY DeletedGood
<1> HIDE DEF x
<1>2. /\ Contents(d) \in [Keys -> Vals \cup {None}] /\ e.key \in Keys
      /\ \A f \in All(d) : Contents(d)[f.key] = f.val
      /\ \A k \in Keys : Contents(d)[k] # None <=> \E f \in All(d) : f.key = k
  BY ContentsOf
<1>3. /\ Contents(x) \in [Keys -> Vals \cup {None}]
      /\ \A f \in All(x) : Contents(x)[f.key] = f.val
      /\ \A k \in Keys : Contents(x)[k] # None <=> \E f \in All(x) : f.key = k
  BY <1>1, ContentsOf
<1>4. m \in [Keys -> Vals \cup {None}] /\ m[e.key] = None
      /\ \A k \in Keys : k # e.key => m[k] = Contents(d)[k]
  BY <1>2
<1> HIDE DEF m
<1>5. \A f : f \in All(x) <=> f \in All(d) /\ f.key # e.key
  BY <1>1 DEF Good
<1>6. ASSUME NEW k \in Keys PROVE Contents(x)[k] = m[k]
  <2>1. CASE k = e.key
    BY <1>3, <1>4, <1>5, <2>1
  <2>2. CASE k # e.key /\ \E f \in All(d) : f.key = k
    BY <1>2, <1>3, <1>4, <1>5, <2>2
  <2>3. CASE k # e.key /\ ~ \E f \in All(d) : f.key = k
    BY <1>2, <1>3, <1>4, <1>5, <2>3
  <2> QED
    BY <2>1, <2>2, <2>3
<1>7. Contents(x) = m
  BY <1>3, <1>4, <1>6, SameMap
<1> QED
  BY <1>7 DEF x, m

(* As many keys are present as used says.                                  *)
LEMMA PresentCount ==
  ASSUME NEW d, Good(d)
  PROVE  LET P == {k \in Keys : Contents(d)[k] # None} IN
         P = {e.key : e \in All(d)} /\ IsFiniteSet(P) /\ Cardinality(P) = d.used
<1> DEFINE P == {k \in Keys : Contents(d)[k] # None}
           f == [e \in All(d) |-> e.key]
<1>1. P = {e.key : e \in All(d)}
  BY ContentsOf
<1>2. f \in Surjection(All(d), P)
  BY <1>1 DEF Surjection
<1>3. f \in Injection(All(d), P)
  BY <1>1 DEF Injection, IsInjective, Good
<1> HIDE DEF f, P
<1>4. f \in Bijection(All(d), P)
  BY <1>2, <1>3 DEF Bijection
<1>5. IsFiniteSet(P) /\ Cardinality(P) = Cardinality(All(d))
  BY <1>4, FS_Bijection DEF ExistsBijection, Good
<1> QED
  BY <1>1, <1>5 DEF Good, P

-----------------------------------------------------------------------------
(* The table implements the map                                            *)

LEMMA PresentKeys ==
  ASSUME NEW d, Good(d), NEW k \in Keys
  PROVE  Contents(d)[k] # None <=> Matching(d, k) # {}
BY ContentsOf, MatchingMembers

LEMMA AddedContents ==
  ASSUME NEW d, Good(d), d.used < d.size, NEW k \in Keys, NEW v \in Vals,
         Matching(d, k) = {}
  PROVE  Contents(Added(d, k, v)) = [Contents(d) EXCEPT ![k] = v]
<1> DEFINE x == Added(d, k, v)
           new == [key |-> k, val |-> v]
<1>1. Good(x) /\ All(x) = All(d) \cup {new}
  BY AddedGood
<1>2. \A f : f \in All(x) <=> f = new \/ (f \in All(d) /\ f.key # k)
  BY <1>1, MatchingMembers
<1>3. new \in Entries /\ new.key = k /\ new.val = v
  BY DEF Entries
<1> HIDE DEF x, new
<1>4. Contents(x) = [Contents(d) EXCEPT ![new.key] = new.val]
  BY <1>1, <1>2, <1>3, PutContents
<1> QED
  BY <1>3, <1>4 DEF x

LEMMA ReplacedContents ==
  ASSUME NEW d, Good(d), NEW e \in All(d), NEW v \in Vals
  PROVE  Contents(Replaced(d, e, v)) = [Contents(d) EXCEPT ![e.key] = v]
<1> DEFINE x == Replaced(d, e, v)
           new == [key |-> e.key, val |-> v]
<1>1. Good(x) /\ All(x) = (All(d) \ {e}) \cup {new}
  BY ReplacedGood
<1>2. \A f : f \in All(x) <=> f = new \/ (f \in All(d) /\ f.key # e.key)
  BY <1>1 DEF Good
<1>3. new \in Entries /\ new.key = e.key /\ new.val = v
  BY InItsBucket DEF Entries
<1> HIDE DEF x, new
<1>4. Contents(x) = [Contents(d) EXCEPT ![new.key] = new.val]
  BY <1>1, <1>2, <1>3, PutContents
<1> QED
  BY <1>3, <1>4 DEF x

MapVars == <<Contents(ht), result>>

LEMMA AddMaps ==
  ASSUME Inv, NEW k \in Keys, NEW v \in Vals, DictAdd(k, v) PROVE Map!Insert(k, v)
<1> DEFINE d == Grown(ht)
<1>1. Good(ht) /\ ~ CannotGrow(ht)
  BY DEF Inv, DictAdd
<1>2. Good(d) /\ d.used < d.size /\ Contents(d) = Contents(ht)
  BY <1>1, GrownGood, SameContents
<1>3. \/ Matching(d, k) # {} /\ ht' = d /\ result' = <<"err">>
      \/ Matching(d, k) = {} /\ ht' = Added(d, k, v) /\ result' = <<"ok">>
  BY DEF DictAdd
<1> HIDE DEF d
<1>4. CASE Matching(d, k) # {} /\ ht' = d /\ result' = <<"err">>
  <2>1. Contents(ht)[k] # None /\ Contents(ht') = Contents(ht)
    BY <1>2, <1>4, PresentKeys
  <2> QED
    BY <1>4, <2>1 DEF Map!Insert, Map!Present
<1>5. CASE Matching(d, k) = {} /\ ht' = Added(d, k, v) /\ result' = <<"ok">>
  <2>1. ~ (Contents(ht)[k] # None)
    BY <1>2, <1>5, PresentKeys
  <2>2. Contents(ht') = [Contents(ht) EXCEPT ![k] = v]
    BY <1>2, <1>5, AddedContents
  <2> QED
    BY <1>5, <2>1, <2>2 DEF Map!Insert, Map!Present
<1> QED
  BY <1>3, <1>4, <1>5

LEMMA ReplaceMaps ==
  ASSUME Inv, NEW k \in Keys, NEW v \in Vals, DictReplace(k, v) PROVE Map!Replace(k, v)
<1> DEFINE d == Grown(ht)
<1>1. Good(ht) /\ ~ CannotGrow(ht)
  BY DEF Inv, DictReplace
<1>2. Good(d) /\ d.used < d.size /\ Contents(d) = Contents(ht)
  BY <1>1, GrownGood, SameContents
<1>3. /\ \/ \E e \in Matching(d, k) :
              ht' = [d EXCEPT !.table[Bucket(d, k)] = (@ \ {e}) \cup {[e EXCEPT !.val = v]}]
         \/ Matching(d, k) = {} /\ ht' = Added(d, k, v)
      /\ result' = <<"ok">>
  BY DEF DictReplace
<1> HIDE DEF d
<1>4. ASSUME NEW e \in Matching(d, k),
             ht' = [d EXCEPT !.table[Bucket(d, k)] = (@ \ {e}) \cup {[e EXCEPT !.val = v]}]
      PROVE  Contents(ht') = [Contents(ht) EXCEPT ![k] = v]
  <2>1. e \in All(d) /\ e.key = k
    BY <1>2, MatchingMembers
  <2>2. ht' = Replaced(d, e, v)
    BY <1>4, <2>1 DEF Replaced
  <2> QED
    BY <1>2, <2>1, <2>2, ReplacedContents
<1>5. ASSUME Matching(d, k) = {}, ht' = Added(d, k, v)
      PROVE  Contents(ht') = [Contents(ht) EXCEPT ![k] = v]
  BY <1>2, <1>5, AddedContents
<1> QED
  BY <1>3, <1>4, <1>5 DEF Map!Replace

LEMMA DeleteMaps ==
  ASSUME Inv, NEW k \in Keys, DictDelete(k) PROVE Map!Remove(k)
<1>1. Good(ht)
  BY DEF Inv
<1>2. CASE Matching(ht, k) = {} /\ ht' = ht /\ result' = <<"err">>
  <2>1. Contents(ht)[k] = None /\ Contents(ht') = Contents(ht)
    BY <1>1, <1>2, PresentKeys
  <2>2. Contents(ht') = [Contents(ht) EXCEPT ![k] = None]
    BY <1>1, <2>1, ContentsOf
  <2> QED
    BY <1>2, <2>1, <2>2 DEF Map!Remove, Map!Present
<1>3. ASSUME NEW e \in Matching(ht, k), ht' = Deleted(ht, e), result' = <<"ok">>
      PROVE  Map!Remove(k)
  <2>1. e \in All(ht) /\ e.key = k
    BY <1>1, MatchingMembers
  <2>2. Contents(ht)[k] # None
    BY <1>1, <1>3, PresentKeys
  <2>3. Contents(ht') = [Contents(ht) EXCEPT ![k] = None]
    BY <1>1, <1>3, <2>1, DeletedContents
  <2> QED
    BY <1>3, <2>2, <2>3 DEF Map!Remove, Map!Present
<1> QED
  BY <1>2, <1>3 DEF DictDelete

LEMMA FindMaps ==
  ASSUME Inv, NEW k \in Keys, DictFind(k) PROVE Map!Find(k)
<1>1. Good(ht) /\ Contents(ht') = Contents(ht)
  BY DEF Inv, DictFind
<1>2. CASE Matching(ht, k) = {} /\ result' = <<"none">>
  <2>1. Contents(ht)[k] = None
    BY <1>1, <1>2, PresentKeys
  <2> QED
    BY <1>1, <1>2, <2>1 DEF Map!Find, Map!Present
<1>3. ASSUME NEW e \in Matching(ht, k), result' = <<"val", e.val>> PROVE Map!Find(k)
  <2>1. e \in All(ht) /\ e.key = k
    BY <1>1, MatchingMembers
  <2>2. Contents(ht)[k] # None /\ Contents(ht)[k] = e.val
    BY <1>1, <1>3, <2>1, PresentKeys, ContentsOf
  <2> QED
    BY <1>1, <1>3, <2>2 DEF Map!Find, Map!Present
<1> QED
  BY <1>2, <1>3 DEF DictFind

(* An entry that is handed out is the key's entry in the map.              *)
LEMMA EntryMaps ==
  ASSUME Good(ht), ht' = ht, NEW e \in All(ht), result' = <<"entry", e.key, e.val>>
  PROVE  \E k \in Keys : Map!Pick(k)
<1>1. e.key \in Keys /\ Contents(ht)[e.key] = e.val /\ Contents(ht)[e.key] # None
  BY ContentsOf
<1>2. Contents(ht') = Contents(ht)
  OBVIOUS
<1>3. Map!Pick(e.key)
  BY <1>1, <1>2 DEF Map!Pick, Map!Present
<1> QED
  BY <1>1, <1>3

LEMMA RandomMaps ==
  ASSUME Inv, DictGetRandomKey PROVE Map!RandomOfNone \/ \E k \in Keys : Map!Pick(k)
<1>1. Good(ht) /\ ht' = ht
  BY DEF Inv, DictGetRandomKey
<1>2. CASE ht.used = 0 /\ result' = <<"none">>
  <2>1. All(ht) = {}
    BY <1>1, <1>2, GoodTypes
  <2>2. \A k \in Keys : ~ (Contents(ht)[k] # None)
    BY <1>1, <2>1, ContentsOf
  <2> QED
    BY <1>1, <1>2, <2>2 DEF Map!RandomOfNone, Map!Present
<1>3. CASE \E e \in All(ht) : result' = <<"entry", e.key, e.val>>
  BY <1>1, <1>3, EntryMaps
<1> QED
  BY <1>2, <1>3 DEF DictGetRandomKey

LEMMA TableMaps ==
  ASSUME Inv, GrowBeyondLimit \/ DictEmpty \/ ServerCron \/ DictReleaseIterator
              \/ DictGetIterator
  PROVE  Map!Full \/ Map!Clear \/ Map!Other
<1>1. Good(ht)
  BY DEF Inv
<1>2. CASE GrowBeyondLimit
  <2>1. ht.used = Limit /\ Contents(ht') = Contents(ht) /\ result' = <<"dead">>
    BY <1>2 DEF GrowBeyondLimit, CannotGrow
  <2>2. Cardinality({k \in Keys : Contents(ht)[k] # None}) = Limit
    BY <1>1, <2>1, PresentCount
  <2>3. \A S : Map!Cardinality(S) = Cardinality(S)
    BY DEF Map!Cardinality, Cardinality
  <2> QED
    BY <2>1, <2>2, <2>3 DEF Map!Full, Map!Present
<1>3. CASE DictEmpty
  <2>1. Contents(Empty) = [k \in Keys |-> None]
    BY EmptyGood DEF Contents
  <2> QED
    BY <1>3, <2>1 DEF DictEmpty, Map!Clear
<1>4. CASE ServerCron
  <2>1. Contents(ht') = Contents(ht)
    BY <1>1, <1>4, ResizedGood, SameContents DEF ServerCron
  <2> QED
    BY <1>4, <2>1 DEF ServerCron, Map!Other
<1>5. CASE DictReleaseIterator \/ DictGetIterator
  BY <1>5 DEF DictReleaseIterator, DictGetIterator, Map!Other
<1> QED
  BY <1>2, <1>3, <1>4, <1>5

LEMMA NextMaps ==
  ASSUME Inv, DictNext PROVE Map!Other \/ \E k \in Keys : Map!Pick(k)
<1>1. Good(ht) /\ Iterating(iter, ht)
  BY DEF Inv, DictNext
<1>2. /\ ht' = ht
      /\ result' = <<"end">> \/ \E e \in All(ht) : result' = <<"entry", e.key, e.val>>
  BY <1>1, NextEntry
<1>3. CASE result' = <<"end">>
  BY <1>2, <1>3 DEF Map!Other
<1>4. CASE \E e \in All(ht) : result' = <<"entry", e.key, e.val>>
  BY <1>1, <1>2, <1>4, EntryMaps
<1> QED
  BY <1>2, <1>3, <1>4

(* No call does but what its counterpart does to the map, and the moving of *)
(* entries between buckets is a stutter.                                   *)
LEMMA StepMaps == Inv /\ [Next]_vars => [Map!Next]_MapVars
<1> SUFFICES ASSUME Inv, [Next]_vars PROVE [Map!Next]_MapVars
  OBVIOUS
<1>1. CASE UNCHANGED vars
  BY <1>1 DEF vars, MapVars
<1>2. CASE Next
  <2>1. Map!Alive
    BY <1>2 DEF Next, Idle, Alive, Map!Alive, DictAdd, DictReplace, DictDelete, DictFind,
                GrowBeyondLimit, DictGetRandomKey, DictEmpty, ServerCron, DictGetIterator,
                DictNext, DictReleaseIterator
  <2> QED
    BY <1>2, <2>1, AddMaps, ReplaceMaps, DeleteMaps, FindMaps, RandomMaps, TableMaps, NextMaps
       DEF Next, Map!Next
<1> QED
  BY <1>1, <1>2

(* dict.c:154-284, 327-344: at every size and under every hash function the *)
(* table is a map, and its growing and shrinking cannot be seen.           *)
THEOREM TableImplementsMap == Spec => ImplementsMap
<1>1. Init => Map!Init
  BY EmptyGood DEF Init, Contents, Map!Init
<1>2. Inv /\ [Next]_vars => [Map!Next]_<<Contents(ht), result>>
  BY StepMaps DEF MapVars
<1> QED
  BY <1>1, <1>2, InvAlways, PTL DEF Spec, ImplementsMap, Map!Spec, Map!vars
=============================================================================
