------------------------------- MODULE DictTable -------------------------------
(***************************************************************************)
(* The hash table of cutis (src/src/data_struct/dict.c): the databases and *)
(* the sets are such tables.                                               *)
(*                                                                         *)
(* An entry sits in the bucket that the hash of its key selects for the    *)
(* present number of buckets.  The table doubles when it is full, and      *)
(* ServerCron shrinks it when it is sparse; each time all the entries move. *)
(*                                                                         *)
(* The order of the entries in a bucket is left open: a bucket is a set.   *)
(***************************************************************************)
EXTENDS Integers, FiniteSets

CONSTANTS
  Keys, Vals, None,
  Hash,          \* of each key, as the type's hashFunction gives it
  InitialSize,   \* DICT_HT_INITIAL_SIZE (16)
  Limit,         \* the largest number of buckets that can be had (2^27)
  Sizes,         \* the numbers of buckets: InitialSize, doubled until Limit
  UInt,          \* unsigned int is taken modulo UInt (2^32)
  MinSlots,      \* CUTIS_HT_MINSLOTS (16384)
  MinFill        \* CUTIS_HT_MINFILL (10), a percentage

ASSUME SizesAssumption ==
  /\ InitialSize \in Nat \ {0} /\ Limit \in Nat
  /\ {InitialSize, Limit} \subseteq Sizes /\ Sizes \subseteq InitialSize .. Limit
  /\ \A n \in Sizes \ {Limit} : 2 * n \in Sizes
  /\ \A n \in Sizes \ {InitialSize} : \E m \in Sizes : n = 2 * m

ASSUME DictTableAssumption ==
  /\ Hash \in [Keys -> Nat]
  /\ UInt \in Nat /\ UInt > 2 * Limit
  /\ MinSlots \in Nat \ {0} /\ MinFill \in Nat

VARIABLES
  ht,      \* the table
  iter,    \* an iterator, or None; seen, returned and start are history
  result   \* what the last call returned

vars == <<ht, iter, result>>

Entries == [key : Keys, val : Vals]

Iterators == [index : -1 .. Limit, rest : SUBSET Entries, entry : Entries \cup {None},
              seen : SUBSET Keys, returned : Nat, start : SUBSET Keys]

ASSUME NoneAssumption == None \notin Vals \cup Entries \cup Iterators

TypeOK ==
  /\ ht.size \in {0} \cup Sizes /\ ht.used \in 0 .. Limit
  /\ ht.table \in [0 .. ht.size - 1 -> SUBSET Entries]
  /\ iter = None \/ (iter \in Iterators /\ iter.index <= ht.size)
  /\ \/ result \in {<<"ok">>, <<"err">>, <<"none">>, <<"end">>, <<"dead">>}
     \/ result \in {"val"} \X Vals \/ result \in {"entry"} \X Keys \X Vals

Empty == [size |-> 0, used |-> 0, table |-> [b \in {} |-> {}]]

Init == ht = Empty /\ iter = None /\ result = <<"ok">>

-----------------------------------------------------------------------------
All(d) == UNION {d.table[b] : b \in 0 .. d.size - 1}

Bucket(d, k) == Hash[k] % d.size

(* The entries that a walk along the key's bucket finds. *)
Matching(d, k) ==
  IF d.used = 0 THEN {} ELSE {e \in d.table[Bucket(d, k)] : e.key = k}

(* The least size of a table that is not less than n. *)
NextPower(n) == CHOOSE s \in Sizes : s >= n /\ \A t \in Sizes : t >= n => s <= t

MovedByOldMask(d, size) ==  \* mutant
  [b \in 0 .. size - 1 |-> IF b < d.size THEN d.table[b] ELSE {}]

(* Every entry moves to the bucket that its hash selects now. *)
Moved(d, size) ==
  [b \in 0 .. size - 1 |-> {e \in All(d) : Hash[e.key] % size = b}]

DictExpand(d, n) ==
  [size |-> NextPower(n), used |-> d.used, table |-> Moved(d, NextPower(n))]

(* _DictExpandIfNeeded.  Beyond Limit the number of bytes of the buckets   *)
(* does not fit the int that _DictAlloc takes, no memory is had, and the   *)
(* program ends: CannotGrow.                                               *)
Grown(d) ==
  CASE d.size = 0 -> DictExpand(d, InitialSize)
    [] d.size # 0 /\ d.used = d.size -> DictExpand(d, d.size * 2)
    [] OTHER -> d

CannotGrow(d) == d.size = Limit /\ d.used = d.size

AddedCountedTwice(d, k, v) ==  \* mutant
  [d EXCEPT !.table[Bucket(d, k)] = @ \cup {[key |-> k, val |-> v]},
            !.used = @ + 2]

Added(d, k, v) ==
  [d EXCEPT !.table[Bucket(d, k)] = @ \cup {[key |-> k, val |-> v]},
            !.used = @ + 1]

-----------------------------------------------------------------------------
Alive == result # <<"dead">>
Idle == Alive /\ iter = None

(* The table grows even if the key turns out to be there. *)
DictAdd(k, v) ==
  /\ Idle /\ ~ CannotGrow(ht)
  /\ LET d == Grown(ht) IN
     \/ Matching(d, k) # {} /\ ht' = d /\ result' = <<"err">>
     \/ Matching(d, k) = {} /\ ht' = Added(d, k, v) /\ result' = <<"ok">>
  /\ iter' = iter

DictReplace(k, v) ==
  /\ Idle /\ ~ CannotGrow(ht)
  /\ LET d == Grown(ht) IN
     \/ \E e \in Matching(d, k) :
          ht' = [d EXCEPT !.table[Bucket(d, k)] =
                            (@ \ {e}) \cup {[e EXCEPT !.val = v]}]
     \/ Matching(d, k) = {} /\ ht' = Added(d, k, v)
  /\ result' = <<"ok">> /\ iter' = iter

GrowBeyondLimit ==
  /\ Idle /\ CannotGrow(ht)
  /\ result' = <<"dead">>
  /\ UNCHANGED <<ht, iter>>

DeletedUncounted(d, e) ==  \* mutant
  [d EXCEPT !.table[Bucket(d, e.key)] = @ \ {e}]

Deleted(d, e) ==
  [d EXCEPT !.table[Bucket(d, e.key)] = @ \ {e}, !.used = @ - 1]

(* DictDelete and DictDeleteNoFree.  While a table is iterated over only   *)
(* the entry returned last may be deleted.                                 *)
DictDelete(k) ==
  /\ Alive
  /\ iter # None => iter.entry # None /\ iter.entry.key = k
  /\ \/ \E e \in Matching(ht, k) : ht' = Deleted(ht, e) /\ result' = <<"ok">>
     \/ Matching(ht, k) = {} /\ ht' = ht /\ result' = <<"err">>
  /\ iter' = iter

DictFind(k) ==
  /\ Alive
  /\ \/ \E e \in Matching(ht, k) : result' = <<"val", e.val>>
     \/ Matching(ht, k) = {} /\ result' = <<"none">>
  /\ UNCHANGED <<ht, iter>>

DictGetRandomKey ==
  /\ Idle
  /\ \/ ht.used = 0 /\ result' = <<"none">>
     \/ ht.used > 0 /\ \E e \in All(ht) : result' = <<"entry", e.key, e.val>>
  /\ UNCHANGED <<ht, iter>>

(* _DictClear *)
DictEmpty == Idle /\ ht' = Empty /\ result' = <<"ok">> /\ iter' = iter

Minimal(d) == IF d.used < InitialSize THEN InitialSize ELSE d.used

DictResize(d) == DictExpand(d, Minimal(d))

(* The part of ServerCron that is about this table. *)
ServerCron ==
  /\ Idle
  /\ ht.size >= MinSlots /\ ((ht.used * 100) % UInt) \div ht.size < MinFill
  /\ ht' = DictResize(ht) /\ result' = <<"ok">> /\ iter' = iter

-----------------------------------------------------------------------------
(* Iteration *)

DictGetIterator ==
  /\ Idle
  /\ iter' = [index |-> -1, rest |-> {}, entry |-> None,
              seen |-> {}, returned |-> 0, start |-> {e.key : e \in All(ht)}]
  /\ result' = <<"ok">> /\ ht' = ht

FollowingOfDeleted(e, chain) ==  \* mutant
  IF e \in ht.table[Bucket(ht, e.key)] THEN chain \ {e} ELSE {}

(* next_entry, saved when e is returned, leads to what is left of the chain *)
(* e was taken from, whether e is deleted meanwhile or not.                *)
Following(e, chain) == chain \ {e}

(* The next entry of the bucket at hand, or else of a later one. *)
DictNext ==
  LET rest == IF iter.entry = None THEN {} ELSE Following(iter.entry, iter.rest)
      later == {b \in iter.index + 1 .. ht.size - 1 : ht.table[b] # {}}
      Return(e, chain, b) ==
        /\ iter' = [iter EXCEPT !.index = b, !.rest = chain, !.entry = e,
                                !.seen = @ \cup {e.key}, !.returned = @ + 1]
        /\ result' = <<"entry", e.key, e.val>>
  IN /\ Alive /\ iter # None /\ iter.index < ht.size
     /\ \/ \E e \in rest : Return(e, rest, iter.index)
        \/ /\ rest = {}
           /\ \E b \in later : (\A c \in later : b <= c)
                               /\ \E e \in ht.table[b] : Return(e, ht.table[b], b)
        \/ /\ rest = {} /\ later = {}
           /\ iter' = [iter EXCEPT !.index = ht.size, !.entry = None, !.rest = {}]
           /\ result' = <<"end">>
     /\ ht' = ht

DictReleaseIterator ==
  /\ Alive /\ iter # None
  /\ iter' = None /\ result' = <<"ok">> /\ ht' = ht

Next ==
  \/ \E k \in Keys, v \in Vals : DictAdd(k, v) \/ DictReplace(k, v)
  \/ \E k \in Keys : DictDelete(k) \/ DictFind(k)
  \/ GrowBeyondLimit \/ DictGetRandomKey \/ DictEmpty \/ ServerCron
  \/ DictGetIterator \/ DictNext \/ DictReleaseIterator

Spec == Init /\ [][Next]_vars

-----------------------------------------------------------------------------
(* Properties *)

(* dict.c:201 asserts as much of used: it counts the entries, each of them *)
(* is in the bucket of its key and the only one of its key, and a table    *)
(* never holds more entries than it has buckets, though it is shrunk to    *)
(* fit them.                                                               *)
WellFormed ==
  /\ ht.used = Cardinality(All(ht)) /\ ht.used <= ht.size
  /\ \A b \in 0 .. ht.size - 1 : \A e \in ht.table[b] : Bucket(ht, e.key) = b
  /\ \A e, f \in All(ht) : e.key = f.key => e = f

(* dict.c:366-386: an iteration that has come to its end has returned all  *)
(* the entries that were there when it began, and none twice: KEYS, SINTER *)
(* and a dump leave nothing out.                                           *)
IterationComplete ==
  iter # None =>
    /\ iter.returned = Cardinality(iter.seen)
    /\ iter.index >= ht.size => iter.seen = iter.start

(* The map that the entries make up. *)
Contents(d) ==
  [k \in Keys |-> IF \E e \in All(d) : e.key = k
                  THEN (CHOOSE e \in All(d) : e.key = k).val ELSE None]

Map == INSTANCE KeyMap WITH map <- Contents(ht), Capacity <- Limit

(* dict.c:154-284, 327-344: growing and shrinking cannot be seen; each call *)
(* does and returns what a map would.                                      *)
ImplementsMap == Map!Spec
=============================================================================
