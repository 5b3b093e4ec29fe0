---------------------------- MODULE KeyspaceProofs ----------------------------
(***************************************************************************)
(* Theorems about the objects of the databases: their reference counts are *)
(* exact, and so no reply that waits loses its object.  A command is taken *)
(* apart into the steps of its C code: between two of them it holds        *)
(* references of its own, and x[i] says how many to object i.              *)
(***************************************************************************)
EXTENDS Keyspace, SequenceTheorems, FiniteSetTheorems, TLAPS

IsList(l) == l \in Seq(Ids) /\ \A p, q \in 1 .. Len(l) : l[p] = l[q] => p = q

Object(o) ==
  /\ o = [type |-> o.type, ptr |-> o.ptr, refcount |-> o.refcount]
  /\ o.type \in Types \cup {"unallocated", "pooled"}
  /\ IF o.type \in Types THEN o.refcount \in Nat \ {0} ELSE o.refcount = 0 /\ o.ptr = <<>>
  /\ o.type = "string" => o.ptr \in Strings
  /\ o.type = "list" => IsList(o.ptr)
  /\ o.type = "set" => o.ptr \in SUBSET Ids

(* The members of lists and sets are strings. *)
HeapType(h) ==
  /\ h = [i \in Ids |-> h[i]]
  /\ \A i \in Ids : Object(h[i])
  /\ \A i, j \in Ids : i \in Members(h[j]) => h[i].type = "string"

DictType(d) == d \in [Dbs -> [Keys -> Ids \cup {Null}]]

ReplyType(r) == r \in [Clients -> Seq([obj : Ids, was : Strings])]

Intact(h, r) ==
  \A c \in Clients : \A n \in 1 .. Len(r[c]) :
    h[r[c][n].obj].type = "string" /\ h[r[c][n].obj].ptr = r[c][n].was

InDict(d, i) == {e \in Dbs \X Keys : d[e[1]][e[2]] = i}

Holders(h, i) == {j \in Ids : i \in Members(h[j])}

Has(h, j, i) == IF i \in Members(h[j]) THEN 1 ELSE 0

InReplies(r, i) ==
  {e \in UNION {{c} \X DOMAIN r[c] : c \in Clients} : r[e[1]][e[2]].obj = i}

(* The places at which object i can be found. *)
Places(h, d, r, i) ==
  Cardinality(InDict(d, i)) + Cardinality(Holders(h, i)) + Cardinality(InReplies(r, i))

Balanced(h, d, r, x) ==
  \A i \in Ids : x[i] \in Nat /\ h[i].refcount = Places(h, d, r, i) + x[i]

Sound(h, d, r, x) ==
  HeapType(h) /\ DictType(d) /\ ReplyType(r) /\ Intact(h, r) /\ Balanced(h, d, r, x)

Nothing == [i \in Ids |-> 0]

(* Between two commands nothing is held. *)
Inv ==
  /\ Sound(heap, dict, reply, Nothing)
  /\ selected \in [Clients -> Dbs] /\ dirty \in 0 .. MaxDirty

-----------------------------------------------------------------------------
(* Counting                                                                *)

(* There are finitely many places at which an object can be found.         *)
LEMMA CountsFinite ==
  ASSUME NEW h, NEW d, NEW r, ReplyType(r), NEW i
  PROVE  /\ IsFiniteSet(InDict(d, i)) /\ Cardinality(InDict(d, i)) \in Nat
         /\ IsFiniteSet(Holders(h, i)) /\ Cardinality(Holders(h, i)) \in Nat
         /\ IsFiniteSet(InReplies(r, i)) /\ Cardinality(InReplies(r, i)) \in Nat
<1>1. IsFiniteSet(InDict(d, i))
  <2>1. IsFiniteSet(Dbs \X Keys)
    BY KeyspaceAssumption, FS_Product
  <2> QED
    BY <2>1, FS_Subset DEF InDict
<1>2. IsFiniteSet(Holders(h, i))
  BY KeyspaceAssumption, FS_Subset DEF Holders
<1>3. IsFiniteSet(InReplies(r, i))
  <2> DEFINE S == {{c} \X DOMAIN r[c] : c \in Clients}
  <2>1. IsFiniteSet(S)
    <3> DEFINE f == [c \in Clients |-> {c} \X DOMAIN r[c]]
    <3>1. f \in Surjection(Clients, S)
      BY DEF Surjection
    <3> QED
      BY <3>1, KeyspaceAssumption, FS_Surjection
  <2>2. ASSUME NEW c \in Clients PROVE IsFiniteSet({c} \X DOMAIN r[c])
    <3>1. r[c] \in Seq([obj : Ids, was : Strings])
      BY DEF ReplyType
    <3>2. DOMAIN r[c] = 1 .. Len(r[c]) /\ Len(r[c]) \in Nat
      BY <3>1
    <3>3. IsFiniteSet(1 .. Len(r[c]))
      BY <3>2, FS_Interval
    <3> QED
      BY <3>2, <3>3, FS_Singleton, FS_Product
  <2>3. IsFiniteSet(UNION S)
    BY <2>1, <2>2, FS_UNION
  <2> QED
    BY <2>3, FS_Subset DEF InReplies
<1> QED
  BY <1>1, <1>2, <1>3, FS_CardinalityType

(* An object that can be found, or is held, is alive, and one of which all *)
(* references are held cannot be found.                                    *)
LEMMA Referenced ==
  ASSUME NEW h, NEW d, NEW r, NEW x, Sound(h, d, r, x), NEW i \in Ids
  PROVE  /\ x[i] \in Nat /\ h[i].refcount \in Nat /\ h[i].refcount >= x[i]
         /\ h[i].refcount = x[i]
              => InDict(d, i) = {} /\ Holders(h, i) = {} /\ InReplies(r, i) = {}
         /\ InDict(d, i) # {} \/ Holders(h, i) # {} \/ InReplies(r, i) # {}
              => h[i].refcount > x[i]
<1>1. /\ IsFiniteSet(InDict(d, i)) /\ Cardinality(InDict(d, i)) \in Nat
      /\ IsFiniteSet(Holders(h, i)) /\ Cardinality(Holders(h, i)) \in Nat
      /\ IsFiniteSet(InReplies(r, i)) /\ Cardinality(InReplies(r, i)) \in Nat
  BY CountsFinite DEF Sound
<1>2. x[i] \in Nat /\ h[i].refcount = Places(h, d, r, i) + x[i]
  BY DEF Sound, Balanced
<1>3. PICK a \in Nat, b \in Nat, e \in Nat, y \in Nat :
        /\ a = Cardinality(InDict(d, i)) /\ b = Cardinality(Holders(h, i))
        /\ e = Cardinality(InReplies(r, i)) /\ y = x[i] /\ h[i].refcount = a + b + e + y
  BY <1>1, <1>2 DEF Places
<1>4. /\ (a = 0 <=> InDict(d, i) = {}) /\ (b = 0 <=> Holders(h, i) = {})
      /\ (e = 0 <=> InReplies(r, i) = {})
  BY <1>1, <1>3, FS_EmptySet
<1>5. /\ h[i].refcount \in Nat /\ h[i].refcount >= y
      /\ h[i].refcount = y => a = 0 /\ b = 0 /\ e = 0
      /\ a # 0 \/ b # 0 \/ e # 0 => h[i].refcount > y
  BY <1>3
<1> QED
  BY <1>3, <1>4, <1>5

(* A free object is not referenced, has no members and is no member.       *)
LEMMA Alive ==
  ASSUME NEW h, NEW d, NEW r, NEW x, Sound(h, d, r, x), NEW i \in Ids
  PROVE  /\ h[i].type \in Types <=> h[i].refcount > 0
         /\ h[i].type \notin Types <=> h[i].refcount = 0
         /\ x[i] > 0 => h[i].type \in Types
         /\ h[i].type \notin Types => Members(h[i]) = {} /\ h[i].ptr = <<>>
         /\ \A j \in Ids : i \in Members(h[j]) => h[i].type = "string" /\ h[i].refcount > x[i]
<1>1. Object(h[i]) /\ h[i].refcount \in Nat /\ x[i] \in Nat /\ h[i].refcount >= x[i]
  BY Referenced DEF Sound, HeapType
<1>2. h[i].type \in Types <=> h[i].refcount > 0
  BY <1>1 DEF Object
<1>3. h[i].type \notin Types => Members(h[i]) = {} /\ h[i].ptr = <<>>
  BY <1>1 DEF Object, Members, Types, Containers
<1>4. ASSUME NEW j \in Ids, i \in Members(h[j])
      PROVE  h[i].type = "string" /\ h[i].refcount > x[i]
  <2>1. Holders(h, i) # {}
    BY <1>4 DEF Holders
  <2> QED
    BY <1>4, <2>1, Referenced DEF Sound, HeapType
<1> QED
  BY <1>1, <1>2, <1>3, <1>4

(* Only object o has other members than before. *)
LEMMA HoldersChange ==
  ASSUME NEW h, NEW g, NEW r, ReplyType(r), NEW o \in Ids, NEW i,
         \A j \in Ids \ {o} : Members(g[j]) = Members(h[j])
  PROVE  /\ Cardinality(Holders(h, i)) \in Nat /\ Cardinality(Holders(g, i)) \in Nat
         /\ Cardinality(Holders(g, i)) + Has(h, o, i)
              = Cardinality(Holders(h, i)) + Has(g, o, i)
<1>1. /\ IsFiniteSet(Holders(h, i)) /\ Cardinality(Holders(h, i)) \in Nat
      /\ IsFiniteSet(Holders(g, i)) /\ Cardinality(Holders(g, i)) \in Nat
  BY KeyspaceAssumption, FS_Subset, FS_CardinalityType DEF Holders
<1> DEFINE B == Holders(h, i) \ {o}
<1>2. IsFiniteSet(B) /\ Cardinality(B) \in Nat
  BY <1>1, FS_RemoveElement, FS_CardinalityType
<1>3. Cardinality(B \cup {o}) = Cardinality(B) + 1
  BY <1>2, FS_AddElement
<1>4. Holders(h, i) = IF i \in Members(h[o]) THEN B \cup {o} ELSE B
  BY DEF Holders
<1>5. Holders(g, i) = IF i \in Members(g[o]) THEN B \cup {o} ELSE B
  BY DEF Holders
<1> QED
  BY <1>1, <1>2, <1>3, <1>4, <1>5 DEF Has

(* A reply is one of the places of its object.                             *)
LEMMA ReplyElement ==
  ASSUME NEW r, ReplyType(r), NEW c \in Clients, NEW n \in 1 .. Len(r[c])
  PROVE  /\ n \in DOMAIN r[c] /\ r[c][n].obj \in Ids /\ r[c][n].was \in Strings
         /\ <<c, n>> \in InReplies(r, r[c][n].obj)
<1>1. r[c] \in Seq([obj : Ids, was : Strings])
  BY DEF ReplyType
<1>2. DOMAIN r[c] = 1 .. Len(r[c])
  BY <1>1
<1>3. r[c][n] \in [obj : Ids, was : Strings]
  BY <1>1, ElementOfSeq
<1>4. <<c, n>> \in {c} \X DOMAIN r[c]
  BY <1>2
<1> QED
  BY <1>2, <1>3, <1>4 DEF InReplies

-----------------------------------------------------------------------------
(* The steps that commands are made of                                     *)

(* CreateCutisObject: an object that was free gets one reference, which is *)
(* held, and takes over the references to its members.                     *)
LEMMA CreateSound ==
  ASSUME NEW h, NEW d, NEW r, NEW x, Sound(h, d, r, x), NEW o \in Ids, h[o].type \notin Types,
         NEW g, g = [i \in Ids |-> g[i]], \A i \in Ids \ {o} : g[i] = h[i],
         Object(g[o]), g[o].refcount = 1,
         \A m \in Members(g[o]) : h[m].type = "string" /\ x[m] >= 1,
         NEW y, \A i \in Ids : y[i] = x[i] + (IF i = o THEN 1 ELSE 0)
                                           - Has(g, o, i)
  PROVE  Sound(g, d, r, y)
<1>1. /\ HeapType(h) /\ DictType(d) /\ ReplyType(r) /\ Intact(h, r) /\ Balanced(h, d, r, x)
  BY DEF Sound
<1>2. /\ h[o].refcount = 0 /\ x[o] = 0 /\ Members(h[o]) = {} /\ o \notin Members(g[o])
      /\ InDict(d, o) = {} /\ Holders(h, o) = {} /\ InReplies(r, o) = {}
  <2>1. h[o].refcount = 0 /\ Members(h[o]) = {}
    BY Alive
  <2>2. x[o] = 0
    BY <2>1, Referenced
  <2>3. o \notin Members(g[o])
    BY DEF Types
  <2> QED
    BY <2>1, <2>2, <2>3, Referenced
<1>3. \A m \in Members(g[o]) : m \in Ids
  <2>1. g[o].type = "list" => g[o].ptr \in Seq(Ids)
    BY DEF Object, IsList
  <2>2. g[o].type = "list" => \A m \in Range(g[o].ptr) : m \in Ids
    BY <2>1 DEF Range
  <2> QED
    BY <2>2 DEF Object, Members
<1>4. HeapType(g)
  <2>1. \A i \in Ids : Object(g[i])
    BY <1>1 DEF HeapType
  <2>2. ASSUME NEW i \in Ids, NEW j \in Ids, i \in Members(g[j]) PROVE g[i].type = "string"
    <3>1. i # o
      <4>1. CASE j = o
        BY <1>2, <2>2, <4>1
      <4>2. CASE j # o
        BY <1>2, <2>2, <4>2 DEF Holders
      <4> QED
        BY <4>1, <4>2
    <3>2. h[i].type = "string"
      BY <1>1, <2>2 DEF HeapType
    <3> QED
      BY <3>1, <3>2
  <2> QED
    BY <2>1, <2>2 DEF HeapType
<1>5. Intact(g, r)
  <2> SUFFICES ASSUME NEW c \in Clients, NEW n \in 1 .. Len(r[c])
               PROVE  g[r[c][n].obj] = h[r[c][n].obj]
    BY <1>1 DEF Intact
  <2>1. r[c][n].obj \in Ids /\ <<c, n>> \in InReplies(r, r[c][n].obj)
    BY <1>1, ReplyElement
  <2> QED
    BY <1>2, <2>1
<1>6. Balanced(g, d, r, y)
  <2> SUFFICES ASSUME NEW i \in Ids
               PROVE  y[i] \in Nat /\ g[i].refcount = Places(g, d, r, i) + y[i]
    BY DEF Balanced
  <2>1. \A j \in Ids \ {o} : Members(g[j]) = Members(h[j])
    OBVIOUS
  <2>2. /\ Cardinality(Holders(h, i)) \in Nat /\ Cardinality(Holders(g, i)) \in Nat
        /\ Cardinality(Holders(g, i)) + Has(h, o, i)
              = Cardinality(Holders(h, i)) + Has(g, o, i)
    BY <1>1, <2>1, HoldersChange
  <2>3. PICK a \in Nat, b \in Nat, b2 \in Nat, e \in Nat, z \in Nat :
          /\ a = Cardinality(InDict(d, i)) /\ e = Cardinality(InReplies(r, i)) /\ z = x[i]
          /\ b = Cardinality(Holders(h, i)) /\ b2 = Cardinality(Holders(g, i))
          /\ h[i].refcount = a + b + e + z
    <3>1. /\ Cardinality(InDict(d, i)) \in Nat /\ Cardinality(InReplies(r, i)) \in Nat
      BY <1>1, CountsFinite
    <3>2. x[i] \in Nat /\ h[i].refcount = Places(h, d, r, i) + x[i]
      BY <1>1 DEF Balanced
    <3> QED
      BY ONLY <2>2, <3>1, <3>2 DEF Places
  <2>4. CASE i = o
    <3>1. a = 0 /\ b = 0 /\ e = 0 /\ z = 0
      BY <1>2, <2>3, <2>4, FS_EmptySet
    <3>2. b2 = 0 /\ y[i] = 1
      BY <1>2, <2>2, <2>3, <2>4, <3>1 DEF Has
    <3> QED
      BY <2>3, <2>4, <3>1, <3>2 DEF Places
  <2>5. CASE i # o
    <3>1. g[i].refcount = h[i].refcount
      BY <2>5
    <3>2. b2 = b + Has(g, o, i)
      BY <1>2, <2>2, <2>3 DEF Has
    <3>3. y[i] = z - Has(g, o, i)
      BY <2>3, <2>5 DEF Has
    <3>4. i \in Members(g[o]) => z >= 1
      BY <2>3
    <3>5. y[i] \in Nat /\ a + b + e + z = a + b2 + e + y[i]
      BY <3>2, <3>3, <3>4 DEF Has
    <3> QED
      BY <2>3, <3>1, <3>5 DEF Places
  <2> QED
    BY <2>4, <2>5
<1> QED
  BY <1>1, <1>4, <1>5, <1>6 DEF Sound

(* A list or set gets other members, of which the new ones were held; what *)
(* it lets go of is held from then on.                                     *)
LEMMA SetContainerSound ==
  ASSUME NEW h, NEW d, NEW r, NEW x, Sound(h, d, r, x), NEW o \in Ids, h[o].type \in Containers,
         NEW g, g = [i \in Ids |-> g[i]], \A i \in Ids \ {o} : g[i] = h[i],
         Object(g[o]), g[o].type \in Containers, g[o].refcount = h[o].refcount,
         \A m \in Members(g[o]) \ Members(h[o]) : h[m].type = "string" /\ x[m] >= 1,
         NEW y, \A i \in Ids : y[i] = x[i] + Has(h, o, i) - Has(g, o, i)
  PROVE  Sound(g, d, r, y)
<1>1. /\ HeapType(h) /\ DictType(d) /\ ReplyType(r) /\ Intact(h, r) /\ Balanced(h, d, r, x)
  BY DEF Sound
<1>2. h[o].type # "string" /\ \A j \in Ids \ {o} : Members(g[j]) = Members(h[j])
  BY DEF Containers
<1>3. HeapType(g)
  <2>1. \A i \in Ids : Object(g[i])
    BY <1>1 DEF HeapType
  <2>2. ASSUME NEW i \in Ids, NEW j \in Ids, i \in Members(g[j]) PROVE g[i].type = "string"
    <3>1. h[i].type = "string"
      BY <1>1, <1>2, <2>2 DEF HeapType
    <3> QED
      BY <1>2, <3>1
  <2> QED
    BY <2>1, <2>2 DEF HeapType
<1>4. Intact(g, r)
  <2> SUFFICES ASSUME NEW c \in Clients, NEW n \in 1 .. Len(r[c])
               PROVE  g[r[c][n].obj] = h[r[c][n].obj]
    BY <1>1 DEF Intact
  <2>1. r[c][n].obj \in Ids /\ h[r[c][n].obj].type = "string"
    BY <1>1, ReplyElement DEF Intact
  <2> QED
    BY <1>2, <2>1
<1>5. Balanced(g, d, r, y)
  <2> SUFFICES ASSUME NEW i \in Ids
               PROVE  y[i] \in Nat /\ g[i].refcount = Places(g, d, r, i) + y[i]
    BY DEF Balanced
  <2>1. /\ Cardinality(Holders(h, i)) \in Nat /\ Cardinality(Holders(g, i)) \in Nat
        /\ Cardinality(Holders(g, i)) + Has(h, o, i)
              = Cardinality(Holders(h, i)) + Has(g, o, i)
    <3>1. \A j \in Ids \ {o} : Members(g[j]) = Members(h[j])
      BY <1>2
    <3>2. ReplyType(r)
      BY <1>1
    <3> QED
      BY <3>1, <3>2, HoldersChange
  <2>2. PICK a \in Nat, b \in Nat, b2 \in Nat, e \in Nat, z \in Nat :
          /\ a = Cardinality(InDict(d, i)) /\ e = Cardinality(InReplies(r, i)) /\ z = x[i]
          /\ b = Cardinality(Holders(h, i)) /\ b2 = Cardinality(Holders(g, i))
          /\ h[i].refcount = a + b + e + z
    <3>1. /\ Cardinality(InDict(d, i)) \in Nat /\ Cardinality(InReplies(r, i)) \in Nat
      BY <1>1, CountsFinite
    <3>2. x[i] \in Nat /\ h[i].refcount = Places(h, d, r, i) + x[i]
      BY <1>1 DEF Balanced
    <3> QED
      BY ONLY <2>1, <3>1, <3>2 DEF Places
  <2>3. PICK u \in {0, 1}, v \in {0, 1} :
          /\ u = Has(h, o, i) /\ v = Has(g, o, i)
    BY DEF Has
  <2>4. y[i] = z + u - v /\ b2 + u = b + v /\ (v = 1 /\ u = 0 => z >= 1)
    BY <2>1, <2>2, <2>3 DEF Has
  <2>5. y[i] \in Nat /\ a + b + e + z = a + b2 + e + y[i]
    BY <2>4
  <2>6. g[i].refcount = h[i].refcount
    OBVIOUS
  <2> QED
    BY <2>2, <2>5, <2>6 DEF Places
<1> QED
  BY <1>1, <1>3, <1>4, <1>5 DEF Sound

(* One reference given up: the last one frees the object.                  *)
LEMMA DecrByOne ==
  ASSUME NEW o, Object(o), o.type \in Types
  PROVE  /\ o.refcount = 1 => DecrBy(o, 1) = Pooled
         /\ o.refcount # 1 =>
              /\ Object(DecrBy(o, 1)) /\ DecrBy(o, 1).refcount = o.refcount - 1
              /\ DecrBy(o, 1).type = o.type /\ DecrBy(o, 1).ptr = o.ptr
              /\ Members(DecrBy(o, 1)) = Members(o)
<1>1. o.refcount = 1 => DecrBy(o, 1) = Pooled
  BY DEF DecrBy
<1>2. ASSUME o.refcount # 1
      PROVE  DecrBy(o, 1) = [type |-> o.type, ptr |-> o.ptr, refcount |-> o.refcount - 1]
  BY <1>2 DEF DecrBy, Object
<1>3. o.refcount # 1 => o.refcount - 1 \in Nat \ {0}
  BY DEF Object
<1> QED
  BY <1>1, <1>2, <1>3 DEF Object, Members

(* Free objects are objects without members.                               *)
LEMMA PooledObject ==
  Object(Pooled) /\ Members(Pooled) = {} /\ Pooled.refcount = 0 /\ Pooled.type \notin Types
  /\ Object(Unallocated) /\ Members(Unallocated) = {} /\ Unallocated.type \notin Types
BY DEF Pooled, Unallocated, Object, Members, Types, Containers

(* DecrRefCount of held objects of which none goes with members.           *)
LEMMA DropSound ==
  ASSUME NEW h, NEW d, NEW r, NEW x, Sound(h, d, r, x), NEW S \in SUBSET Ids,
         \A o \in S : x[o] >= 1 /\ (h[o].refcount = 1 => Members(h[o]) = {}),
         NEW y, \A i \in Ids : y[i] = x[i] - (IF i \in S THEN 1 ELSE 0)
  PROVE  Sound(DecrAll(h, S), d, r, y)
<1> DEFINE g == DecrAll(h, S)
<1>1. /\ HeapType(h) /\ DictType(d) /\ ReplyType(r) /\ Intact(h, r) /\ Balanced(h, d, r, x)
  BY DEF Sound
<1>2. /\ g = [i \in Ids |-> g[i]]
      /\ \A i \in Ids : g[i] = IF i \in S THEN DecrBy(h[i], 1) ELSE h[i]
  BY DEF DecrAll
<1> HIDE DEF g
<1>3. ASSUME NEW i \in Ids
      PROVE  /\ Object(h[i]) /\ Object(g[i]) /\ Members(g[i]) = Members(h[i])
             /\ g[i].refcount = h[i].refcount - (IF i \in S THEN 1 ELSE 0)
             /\ h[i].refcount > x[i] => g[i].type = h[i].type /\ g[i].ptr = h[i].ptr
  <2>1. Object(h[i]) /\ x[i] \in Nat /\ h[i].refcount \in Nat /\ h[i].refcount >= x[i]
    BY <1>1, Referenced DEF HeapType
  <2>2. CASE i \notin S
    BY <1>2, <2>1, <2>2
  <2>3. CASE i \in S
    <3>1. h[i].type \in Types
      <4>1. x[i] > 0
        BY <2>1, <2>3
      <4> QED
        BY <4>1, Alive
    <3>2. g[i] = DecrBy(h[i], 1)
      BY <1>2, <2>3
    <3>3. CASE h[i].refcount = 1
      <4>1. g[i] = Pooled /\ Members(h[i]) = {} /\ ~ (h[i].refcount > x[i])
        BY <2>1, <2>3, <3>1, <3>2, <3>3, DecrByOne
      <4> QED
        BY <2>1, <2>3, <3>3, <4>1, PooledObject
    <3>4. CASE h[i].refcount # 1
      BY <2>1, <2>3, <3>1, <3>2, <3>4, DecrByOne
    <3> QED
      BY <3>3, <3>4
  <2> QED
    BY <2>2, <2>3
<1>4. HeapType(g)
  <2>1. ASSUME NEW i \in Ids, NEW j \in Ids, i \in Members(g[j]) PROVE g[i].type = "string"
    <3>1. i \in Members(h[j])
      BY <1>3, <2>1
    <3>2. h[i].type = "string" /\ h[i].refcount > x[i]
      BY <3>1, Alive
    <3> QED
      BY <1>3, <3>2
  <2> QED
    BY <1>2, <1>3, <2>1 DEF HeapType
<1>5. Intact(g, r)
  <2> SUFFICES ASSUME NEW c \in Clients, NEW n \in 1 .. Len(r[c]), NEW i, i = r[c][n].obj
               PROVE  g[i].type = h[i].type /\ g[i].ptr = h[i].ptr
    BY <1>1 DEF Intact
  <2>1. i \in Ids /\ InReplies(r, i) # {}
    BY <1>1, ReplyElement
  <2> QED
    BY <1>3, <2>1, Referenced
<1>6. Balanced(g, d, r, y)
  <2> SUFFICES ASSUME NEW i \in Ids
               PROVE  y[i] \in Nat /\ g[i].refcount = Places(g, d, r, i) + y[i]
    BY DEF Balanced
  <2>1. Holders(g, i) = Holders(h, i)
    BY <1>3 DEF Holders
  <2>2. PICK p \in Nat, z \in Nat :
          p = Places(h, d, r, i) /\ z = x[i] /\ h[i].refcount = p + z
    <3>1. /\ Cardinality(InDict(d, i)) \in Nat /\ Cardinality(InReplies(r, i)) \in Nat
          /\ Cardinality(Holders(h, i)) \in Nat
      BY <1>1, CountsFinite
    <3>2. x[i] \in Nat /\ h[i].refcount = Places(h, d, r, i) + x[i]
      BY <1>1 DEF Balanced
    <3> QED
      BY <3>1, <3>2 DEF Places
  <2>3. p = Places(g, d, r, i)
    BY <2>1, <2>2 DEF Places
  <2>4. CASE i \in S
    BY <1>3, <2>2, <2>3, <2>4
  <2>5. CASE i \notin S
    BY <1>3, <2>2, <2>3, <2>5
  <2> QED
    BY <2>4, <2>5
<1> QED
  BY <1>1, <1>4, <1>5, <1>6 DEF Sound, g

(* DecrRefCount of a held object, which may be the last reference to a     *)
(* list or set.                                                            *)
LEMMA DecrSound ==
  ASSUME NEW h, NEW d, NEW r, NEW x, Sound(h, d, r, x), NEW o \in Ids, x[o] >= 1,
         NEW y, \A i \in Ids : y[i] = x[i] - (IF i = o THEN 1 ELSE 0)
  PROVE  Sound(DecrRefCount(h, o), d, r, y)
<1>1. HeapType(h) /\ Object(h[o]) /\ h[o].type \in Types /\ x[o] \in Nat
  <2>1. x[o] > 0
    BY Referenced
  <2> QED
    BY <2>1, Alive, Referenced DEF Sound, HeapType
<1>2. CASE h[o].refcount = 1 => Members(h[o]) = {}
  <2>1. DecrRefCount(h, o) = DecrAll(h, {o})
    BY <1>2 DEF DecrRefCount
  <2>2. Sound(DecrAll(h, {o}), d, r, y)
    <3>1. \A i \in {o} : x[i] >= 1 /\ (h[i].refcount = 1 => Members(h[i]) = {})
      BY <1>2
    <3>2. \A i \in Ids : y[i] = x[i] - (IF i \in {o} THEN 1 ELSE 0)
      OBVIOUS
    <3> QED
      BY <3>1, <3>2, DropSound
  <2> QED
    BY <2>1, <2>2
<1>3. CASE h[o].refcount = 1 /\ Members(h[o]) # {}
  <2> DEFINE M == Members(h[o])
             E == [type |-> h[o].type, ptr |-> IF h[o].type = "list" THEN <<>> ELSE {}, refcount |-> 1]
             k == [i \in Ids |-> IF i = o THEN E ELSE h[i]]
             z == [i \in Ids |-> x[i] + (IF i \in M THEN 1 ELSE 0)]
  <2>1. h[o].type \in Containers
    BY <1>3 DEF Members, Containers
  <2>2. Object(E) /\ Members(E) = {} /\ E.refcount = 1 /\ E.type = h[o].type
    BY <2>1 DEF Object, Types, Containers, Members, IsList, Range
  <2>3. o \notin M /\ \A i \in M : i \in Ids => h[i].type = "string"
    BY <1>1, <2>1 DEF HeapType, Containers
  <2>4. M \in SUBSET Ids
    BY <1>1 DEF Object, IsList, Members, Range
  <2> HIDE DEF M, E
  <2>5. Sound(k, d, r, z)
    <3>1. /\ k = [i \in Ids |-> k[i]] /\ \A i \in Ids \ {o} : k[i] = h[i]
          /\ k[o] = E
      OBVIOUS
    <3>2. /\ Object(k[o]) /\ k[o].type \in Containers /\ k[o].refcount = h[o].refcount
          /\ Members(k[o]) = {}
      BY <1>3, <2>1, <2>2, <3>1
    <3>3. \A i \in Ids : z[i] = x[i] + Has(h, o, i) - Has(k, o, i)
      <4> SUFFICES ASSUME NEW i \in Ids
                   PROVE  z[i] = x[i] + Has(h, o, i) - Has(k, o, i)
        OBVIOUS
      <4>1. x[i] \in Nat
        BY Referenced
      <4> QED
        BY <3>2, <4>1 DEF M, Has
    <3>4. \A m \in Members(k[o]) \ Members(h[o]) : h[m].type = "string" /\ x[m] >= 1
      BY <3>2
    <3> HIDE DEF k, z
    <3> QED
      BY <2>1, <3>1, <3>2, <3>3, <3>4, SetContainerSound
  <2>6. Sound(DecrAll(k, {o} \cup M), d, r, y)
    <3>1. ASSUME NEW i \in {o} \cup M
          PROVE  i \in Ids /\ z[i] >= 1 /\ (k[i].refcount = 1 => Members(k[i]) = {})
      <4>1. i \in Ids /\ x[i] \in Nat
        BY <2>4, Referenced
      <4>2. z[i] >= 1
        BY <4>1
      <4>3. Members(k[i]) = {}
        <5>1. CASE i = o
          BY <2>2, <5>1
        <5>2. CASE i # o
          <6>1. k[i] = h[i] /\ h[i].type = "string"
            BY <2>3, <4>1, <5>2
          <6> QED
            BY <6>1 DEF Members
        <5> QED
          BY <5>1, <5>2
      <4> QED
        BY <4>1, <4>2, <4>3
    <3>2. \A i \in Ids : y[i] = z[i] - (IF i \in {o} \cup M THEN 1 ELSE 0)
      <4> SUFFICES ASSUME NEW i \in Ids PROVE y[i] = z[i] - (IF i \in {o} \cup M THEN 1 ELSE 0)
        OBVIOUS
      <4>1. x[i] \in Nat
        BY Referenced
      <4> QED
        BY <2>3, <4>1
    <3>3. ({o} \cup M) \in SUBSET Ids
      BY <2>4
    <3> HIDE DEF k, z
    <3> QED
      BY <2>5, <3>1, <3>2, <3>3, DropSound
  <2>7. DecrAll(k, {o} \cup M) = DecrAll(h, {o} \cup M)
    <3>1. DecrBy(E, 1) = Pooled /\ DecrBy(h[o], 1) = Pooled
      BY <1>3, <2>2 DEF DecrBy
    <3> QED
      BY <3>1 DEF DecrAll
  <2>8. DecrRefCount(h, o) = DecrAll(h, {o} \cup M)
    BY <1>3 DEF DecrRefCount, M
  <2> QED
    BY <2>6, <2>7, <2>8
<1> QED
  BY <1>2, <1>3

(* An entry gives up the object it held, and takes a held one or nothing.  *)
LEMMA SetEntrySound ==
  ASSUME NEW h, NEW d, NEW r, NEW x, Sound(h, d, r, x), NEW s \in Dbs, NEW k \in Keys,
         NEW o \in Ids \cup {Null}, o \in Ids => x[o] >= 1,
         NEW y, \A i \in Ids : y[i] = x[i] + (IF i = d[s][k] THEN 1 ELSE 0)
                                           - (IF i = o THEN 1 ELSE 0)
  PROVE  Sound(h, [d EXCEPT ![s][k] = o], r, y)
<1> DEFINE f == [d EXCEPT ![s][k] = o]
           e == <<s, k>>
<1>1. /\ HeapType(h) /\ DictType(d) /\ ReplyType(r) /\ Intact(h, r) /\ Balanced(h, d, r, x)
  BY DEF Sound
<1>2. DictType(f)
  BY <1>1 DEF DictType
<1>3. \A t \in Dbs, l \in Keys : f[t][l] = IF <<t, l>> = e THEN o ELSE d[t][l]
  BY <1>1 DEF DictType
<1> HIDE DEF f
<1>4. Balanced(h, f, r, y)
  <2> SUFFICES ASSUME NEW i \in Ids
               PROVE  y[i] \in Nat /\ h[i].refcount = Places(h, f, r, i) + y[i]
    BY DEF Balanced
  <2> DEFINE B == InDict(d, i) \ {e}
  <2>1. /\ IsFiniteSet(InDict(d, i)) /\ Cardinality(InDict(d, i)) \in Nat
        /\ IsFiniteSet(InDict(f, i)) /\ Cardinality(InDict(f, i)) \in Nat
        /\ Cardinality(InReplies(r, i)) \in Nat /\ Cardinality(Holders(h, i)) \in Nat
    BY <1>1, CountsFinite
  <2>2. IsFiniteSet(B) /\ Cardinality(B) \in Nat /\ Cardinality(B \cup {e}) = Cardinality(B) + 1
    BY <2>1, FS_RemoveElement, FS_AddElement, FS_CardinalityType
  <2>3. InDict(d, i) = IF i = d[s][k] THEN B \cup {e} ELSE B
    BY DEF InDict
  <2>4. InDict(f, i) = IF i = o THEN B \cup {e} ELSE B
    <3>1. ASSUME NEW t \in Dbs, NEW l \in Keys
          PROVE  <<t, l>> \in InDict(f, i)
                   <=> <<t, l>> \in (IF i = o THEN B \cup {e} ELSE B)
      BY <1>3 DEF InDict
    <3>2. InDict(f, i) \subseteq Dbs \X Keys /\ B \cup {e} \subseteq Dbs \X Keys
      BY DEF InDict
    <3> QED
      BY <3>1, <3>2
  <2>5. PICK a \in Nat, a2 \in Nat, n \in Nat, z \in Nat :
          /\ a = Cardinality(InDict(d, i)) /\ a2 = Cardinality(InDict(f, i)) /\ z = x[i]
          /\ n = Cardinality(Holders(h, i)) + Cardinality(InReplies(r, i))
          /\ h[i].refcount = a + n + z
    <3>1. x[i] \in Nat /\ h[i].refcount = Places(h, d, r, i) + x[i]
      BY <1>1 DEF Balanced
    <3>2. PICK b \in Nat, c \in Nat :
            b = Cardinality(Holders(h, i)) /\ c = Cardinality(InReplies(r, i))
      BY <2>1
    <3>3. PICK a \in Nat : a = Cardinality(InDict(d, i))
      BY <2>1
    <3>4. h[i].refcount = a + (b + c) + x[i] /\ b + c \in Nat
      BY <3>1, <3>2, <3>3 DEF Places
    <3> QED
      BY <2>1, <3>1, <3>2, <3>3, <3>4
  <2>6. PICK u \in {0, 1}, v \in {0, 1} :
          u = (IF i = d[s][k] THEN 1 ELSE 0) /\ v = (IF i = o THEN 1 ELSE 0)
    OBVIOUS
  <2>7. a2 + u = a + v
    <3>1. PICK b \in Nat : b = Cardinality(B) /\ Cardinality(B \cup {e}) = b + 1
      BY <2>2
    <3> HIDE DEF B
    <3>3. a = b + u
      BY <2>3, <2>5, <2>6, <3>1
    <3>4. a2 = b + v
      BY <2>4, <2>5, <2>6, <3>1
    <3> QED
      BY <3>3, <3>4
  <2>8. y[i] = z + u - v /\ (v = 1 => z >= 1)
    BY <2>5, <2>6
  <2>9. y[i] \in Nat /\ a + n + z = a2 + n + y[i]
    BY <2>7, <2>8
  <2>10. Places(h, f, r, i) = a2 + n
    BY <2>1, <2>5 DEF Places
  <2> QED
    BY <2>5, <2>9, <2>10
<1> QED
  BY <1>1, <1>2, <1>4 DEF Sound, f

-----------------------------------------------------------------------------
(* Reply lists                                                             *)

(* The places of object i in the list s of objects, or of replies.         *)
PlacesIn(s, i) == {n \in DOMAIN s : s[n].obj = i}

(* A list has finitely many places for an object.                          *)
LEMMA PlacesInFinite ==
  ASSUME NEW S, NEW s \in Seq(S), NEW i
  PROVE  /\ IsFiniteSet(PlacesIn(s, i)) /\ Cardinality(PlacesIn(s, i)) \in Nat
         /\ PlacesIn(s, i) \subseteq 1 .. Len(s)
<1>1. Len(s) \in Nat /\ DOMAIN s = 1 .. Len(s)
  OBVIOUS
<1>2. IsFiniteSet(1 .. Len(s))
  BY <1>1, FS_Interval
<1>3. PlacesIn(s, i) \subseteq 1 .. Len(s)
  BY <1>1 DEF PlacesIn
<1> QED
  BY <1>2, <1>3, FS_Subset, FS_CardinalityType

(* The places in two lists one after the other add up.                     *)
LEMMA PlacesInConcat ==
  ASSUME NEW S, NEW s \in Seq(S), NEW t \in Seq(S), NEW i
  PROVE  Cardinality(PlacesIn(s \o t, i)) = Cardinality(PlacesIn(s, i)) + Cardinality(PlacesIn(t, i))
<1> DEFINE n == Len(s)
           m == Len(t)
           A == PlacesIn(s, i)
           B == PlacesIn(t, i)
           C == {p \in n + 1 .. n + m : t[p - n].obj = i}
<1>1. /\ n \in Nat /\ m \in Nat /\ DOMAIN s = 1 .. n /\ DOMAIN t = 1 .. m
      /\ DOMAIN (s \o t) = 1 .. n + m
      /\ \A p \in 1 .. n + m : (s \o t)[p] = IF p <= n THEN s[p] ELSE t[p - n]
  BY ConcatProperties, LenProperties
<1>2. IsFiniteSet(A) /\ IsFiniteSet(B) /\ Cardinality(A) \in Nat /\ Cardinality(B) \in Nat
  BY PlacesInFinite
<1> DEFINE u == s \o t
<1> HIDE DEF n, m, u
<1>3. PlacesIn(u, i) = A \cup C
  <2>1. \A p \in 1 .. n + m : p \in PlacesIn(u, i) <=> p \in A \cup C
    BY <1>1 DEF PlacesIn, u
  <2>2. PlacesIn(u, i) \subseteq 1 .. n + m
    BY <1>1 DEF PlacesIn, u
  <2>3. A \cup C \subseteq 1 .. n + m
    BY <1>1 DEF PlacesIn
  <2> QED
    BY <2>1, <2>2, <2>3
<1>4. A \cap C = {}
  BY <1>1 DEF PlacesIn
<1>5. IsFiniteSet(C) /\ Cardinality(C) = Cardinality(B)
  <2> DEFINE f == [p \in B |-> n + p]
  <2>1. f \in Bijection(B, C)
    <3>1. \A p \in B : p \in 1 .. m /\ n + p \in C
      BY <1>1 DEF PlacesIn
    <3>2. \A p \in C : p - n \in B /\ n + (p - n) = p
      BY <1>1 DEF PlacesIn
    <3>3. \A p, q \in B : n + p = n + q => p = q
      BY <1>1, <3>1
    <3> HIDE DEF B, C
    <3>4. f \in [B -> C] /\ \A p \in B : f[p] = n + p
      BY <3>1
    <3>5. \A p, q \in B : f[p] = f[q] => p = q
      BY <3>3, <3>4
    <3>6. \A p \in C : \E q \in B : f[q] = p
      BY <3>2, <3>4
    <3> QED
      BY <3>4, <3>5, <3>6 DEF Bijection, Injection, IsInjective, Surjection
  <2> QED
    BY <1>2, <2>1, FS_Bijection DEF ExistsBijection
<1>6. Cardinality(A \cup C) = Cardinality(A) + Cardinality(C) - Cardinality({})
  BY <1>2, <1>4, <1>5, FS_Union
<1> QED
  BY <1>2, <1>3, <1>5, <1>6, FS_EmptySet DEF u

(* Only the replies of client c differ.                                    *)
LEMMA RepliesChange ==
  ASSUME NEW r, NEW q, ReplyType(r), ReplyType(q), NEW c \in Clients, NEW i,
         \A b \in Clients \ {c} : q[b] = r[b]
  PROVE  /\ Cardinality(InReplies(r, i)) \in Nat /\ Cardinality(InReplies(q, i)) \in Nat
         /\ Cardinality(PlacesIn(r[c], i)) \in Nat /\ Cardinality(PlacesIn(q[c], i)) \in Nat
         /\ Cardinality(InReplies(q, i)) + Cardinality(PlacesIn(r[c], i))
              = Cardinality(InReplies(r, i)) + Cardinality(PlacesIn(q[c], i))
<1> DEFINE Others == {e \in InReplies(r, i) : e[1] # c}
<1>1. /\ IsFiniteSet(InReplies(r, i)) /\ Cardinality(InReplies(r, i)) \in Nat
      /\ Cardinality(InReplies(q, i)) \in Nat
  BY CountsFinite
<1>2. IsFiniteSet(Others) /\ Cardinality(Others) \in Nat
  BY <1>1, FS_Subset, FS_CardinalityType
<1>3. Others = {e \in InReplies(q, i) : e[1] # c}
  BY DEF InReplies
<1>4. ASSUME NEW l, ReplyType(l), Others = {e \in InReplies(l, i) : e[1] # c}
      PROVE  /\ Cardinality(PlacesIn(l[c], i)) \in Nat
             /\ Cardinality(InReplies(l, i)) = Cardinality(Others) + Cardinality(PlacesIn(l[c], i))
  <2> DEFINE P == PlacesIn(l[c], i)
             C == {c} \X P
  <2>1. IsFiniteSet(P) /\ Cardinality(P) \in Nat
    <3>1. l[c] \in Seq([obj : Ids, was : Strings])
      BY <1>4 DEF ReplyType
    <3> QED
      BY <3>1, PlacesInFinite
  <2>2. IsFiniteSet(C) /\ Cardinality(C) = Cardinality(P)
    <3>1. IsFiniteSet({c}) /\ Cardinality({c}) = 1
      BY FS_Singleton
    <3>2. IsFiniteSet(C) /\ Cardinality(C) = Cardinality({c}) * Cardinality(P)
      BY <2>1, <3>1, FS_Product
    <3> HIDE DEF P, C
    <3> QED
      BY <2>1, <3>1, <3>2
  <2>3. InReplies(l, i) = Others \cup C
    BY <1>4 DEF InReplies, PlacesIn
  <2>4. Others \cap C = {}
    OBVIOUS
  <2>5. Cardinality(Others \cup C) = Cardinality(Others) + Cardinality(C) - Cardinality({})
    BY <1>2, <2>2, <2>4, FS_Union
  <2> HIDE DEF Others, C
  <2> QED
    BY <1>2, <2>1, <2>2, <2>3, <2>5, FS_EmptySet
<1>5. /\ Cardinality(PlacesIn(r[c], i)) \in Nat /\ Cardinality(PlacesIn(q[c], i)) \in Nat
      /\ Cardinality(InReplies(r, i)) = Cardinality(Others) + Cardinality(PlacesIn(r[c], i))
      /\ Cardinality(InReplies(q, i)) = Cardinality(Others) + Cardinality(PlacesIn(q[c], i))
  BY <1>3, <1>4
<1> HIDE DEF Others
<1> QED
  BY <1>1, <1>2, <1>5

(* AddReply for each of the strings os: their counts go up with the places *)
(* they get in the list of the client.                                     *)
LEMMA AddReplySound ==
  ASSUME NEW h, NEW d, NEW r, NEW x, Sound(h, d, r, x), NEW c \in Clients, NEW os \in Seq(Ids),
         \A n \in 1 .. Len(os) : h[os[n]].type = "string",
         NEW w, \A n \in 1 .. Len(os) : w[os[n]].ptr = h[os[n]].ptr
  PROVE  Sound(Retain(h, os), d, [r EXCEPT ![c] = @ \o Queue(w, os)], x)
<1> DEFINE g == Retain(h, os)
           s == Queue(w, os)
           q == [r EXCEPT ![c] = @ \o s]
<1>1. /\ HeapType(h) /\ DictType(d) /\ ReplyType(r) /\ Intact(h, r) /\ Balanced(h, d, r, x)
  BY DEF Sound
<1>2. \A n \in 1 .. Len(os) : os[n] \in Ids /\ h[os[n]].ptr \in Strings /\ os[n] \in Ids
  BY <1>1 DEF HeapType, Object
<1>3. /\ s \in Seq([obj : Ids, was : Strings]) /\ Len(s) = Len(os)
      /\ \A n \in 1 .. Len(os) : s[n] = [obj |-> os[n], was |-> h[os[n]].ptr]
      /\ \A i : PlacesIn(s, i) = {n \in DOMAIN os : os[n] = i}
  <2>1. Len(os) \in Nat /\ DOMAIN os = 1 .. Len(os) /\ \A n \in 1 .. Len(os) : os[n] \in Ids
    OBVIOUS
  <2>2. s = [n \in 1 .. Len(os) |-> [obj |-> os[n], was |-> h[os[n]].ptr]]
    BY <2>1 DEF Queue
  <2>3. \A n \in 1 .. Len(os) : [obj |-> os[n], was |-> h[os[n]].ptr] \in [obj : Ids, was : Strings]
    BY <1>2
  <2> HIDE DEF s
  <2> QED
    BY <2>1, <2>2, <2>3 DEF PlacesIn
<1> HIDE DEF s
<1>4. r[c] \in Seq([obj : Ids, was : Strings])
  BY <1>1 DEF ReplyType
<1>5. ReplyType(q) /\ q[c] = r[c] \o s /\ \A b \in Clients \ {c} : q[b] = r[b]
  <2>1. r[c] \o s \in Seq([obj : Ids, was : Strings])
    <3>1. s \in Seq([obj : Ids, was : Strings])
      BY <1>3
    <3> HIDE DEF q, g
    <3> QED
      BY <3>1, <1>4
  <2> QED
    BY <1>1, <2>1 DEF ReplyType
<1>6. ASSUME NEW i \in Ids
      PROVE  /\ Object(g[i]) /\ Members(g[i]) = Members(h[i])
             /\ g[i].type = h[i].type /\ g[i].ptr = h[i].ptr
             /\ Occurrences(os, i) \in Nat
             /\ g[i].refcount = h[i].refcount + Occurrences(os, i)
             /\ Occurrences(os, i) = Cardinality(PlacesIn(s, i))
  <2>1. Occurrences(os, i) = Cardinality(PlacesIn(s, i)) /\ Cardinality(PlacesIn(s, i)) \in Nat
    BY <1>3, PlacesInFinite DEF Occurrences
  <2>2. Object(h[i]) /\ h[i].refcount \in Nat
    BY <1>1, Referenced DEF HeapType
  <2>3. g[i] = [type |-> h[i].type, ptr |-> h[i].ptr, refcount |-> h[i].refcount + Occurrences(os, i)]
    BY <2>2 DEF Retain, Object
  <2>4. h[i].type \notin Types => Occurrences(os, i) = 0
    <3>1. ASSUME h[i].type \notin Types PROVE PlacesIn(s, i) = {}
      <4>1. \A n \in DOMAIN os : os[n] # i
        BY <3>1 DEF Types
      <4> QED
        BY <1>3, <4>1
    <3> QED
      BY <2>1, <3>1, FS_EmptySet
  <2>5. g[i].refcount = h[i].refcount + Occurrences(os, i) /\ g[i].type = h[i].type /\ g[i].ptr = h[i].ptr
    BY <2>3
  <2>6. h[i].refcount \in Nat \ {0} => g[i].refcount \in Nat \ {0}
    BY <2>1, <2>2, <2>5
  <2> HIDE DEF g
  <2>7. Object(g[i])
    BY <2>2, <2>3, <2>4, <2>5, <2>6 DEF Object
  <2>8. Members(g[i]) = Members(h[i])
    BY <2>5 DEF Members
  <2> QED
    BY <2>1, <2>5, <2>7, <2>8
<1>7. g = [i \in Ids |-> g[i]]
  BY DEF Retain
<1> HIDE DEF g, q
<1>8. HeapType(g)
  BY <1>1, <1>6, <1>7 DEF HeapType
<1>9. Intact(g, q)
  <2> SUFFICES ASSUME NEW b \in Clients, NEW n \in 1 .. Len(q[b])
               PROVE  g[q[b][n].obj].type = "string" /\ g[q[b][n].obj].ptr = q[b][n].was
    BY DEF Intact
  <2>1. q[b][n].obj \in Ids
    BY <1>5, ReplyElement
  <2>2. CASE n \in 1 .. Len(r[b]) /\ q[b][n] = r[b][n]
    BY SMTT(40), <1>1, <1>6, <2>1, <2>2 DEF Intact
  <2>3. CASE b = c /\ n \notin 1 .. Len(r[c])
    <3>1. PICK k \in 1 .. Len(os) : q[b][n] = s[k]
      <4>0. s \in Seq([obj : Ids, was : Strings])
        BY <1>3
      <4>1. /\ r[c] \o s \in Seq([obj : Ids, was : Strings])
            /\ Len(r[c] \o s) = Len(r[c]) + Len(s)
            /\ \A p \in 1 .. Len(r[c]) + Len(s) :
                 (r[c] \o s)[p] = IF p <= Len(r[c]) THEN r[c][p] ELSE s[p - Len(r[c])]
        BY <4>0, <1>4, ConcatProperties
      <4>2. Len(r[c]) \in Nat /\ Len(s) \in Nat
        BY <1>3, <1>4
      <4>3. n - Len(r[c]) \in 1 .. Len(s) /\ n \in 1 .. Len(r[c]) + Len(s) /\ ~ (n <= Len(r[c]))
        BY <1>5, <2>3, <4>1, <4>2
      <4> QED
        BY ONLY ZenonT(60), <1>3, <1>5, <2>3, <4>1, <4>3
    <3>2. q[b][n].obj = os[k] /\ q[b][n].was = h[os[k]].ptr
      <4>1. s[k] = [obj |-> os[k], was |-> h[os[k]].ptr]
        BY <1>3
      <4> QED
        BY <3>1, <4>1
    <3> QED
      BY <1>2, <1>6, <3>2
  <2>4. CASE b = c /\ n \in 1 .. Len(r[c])
    <3>1. q[b][n] = r[b][n]
      BY <1>3, <1>4, <1>5, <2>4, ConcatProperties
    <3> QED
      BY <2>2, <2>4, <3>1
  <2>5. CASE b # c
    BY <1>5, <2>2, <2>5
  <2> QED
    BY <2>3, <2>4, <2>5
<1>10. Balanced(g, d, q, x)
  <2> SUFFICES ASSUME NEW i \in Ids
               PROVE  x[i] \in Nat /\ g[i].refcount = Places(g, d, q, i) + x[i]
    BY DEF Balanced
  <2>1. Holders(g, i) = Holders(h, i)
    BY <1>6 DEF Holders
  <2>2. /\ Cardinality(InReplies(r, i)) \in Nat /\ Cardinality(InReplies(q, i)) \in Nat
        /\ Cardinality(PlacesIn(r[c], i)) \in Nat /\ Cardinality(PlacesIn(q[c], i)) \in Nat
        /\ Cardinality(InReplies(q, i)) + Cardinality(PlacesIn(r[c], i))
              = Cardinality(InReplies(r, i)) + Cardinality(PlacesIn(q[c], i))
    <3>1. ReplyType(r) /\ ReplyType(q)
      BY <1>1, <1>5
    <3>2. \A b \in Clients \ {c} : q[b] = r[b]
      BY <1>5
    <3> QED
      BY <3>1, <3>2, RepliesChange
  <2>3. Cardinality(PlacesIn(q[c], i)) = Cardinality(PlacesIn(r[c], i)) + Cardinality(PlacesIn(s, i))
    BY <1>3, <1>4, <1>5, PlacesInConcat
  <2>4. /\ Cardinality(InDict(d, i)) \in Nat /\ Cardinality(Holders(h, i)) \in Nat
        /\ x[i] \in Nat /\ h[i].refcount = Places(h, d, r, i) + x[i]
    BY <1>1, CountsFinite DEF Balanced
  <2>5. PICK a \in Nat, b \in Nat, n \in Nat, n2 \in Nat, m \in Nat, k \in Nat :
          /\ a = Cardinality(InDict(d, i)) /\ b = Cardinality(Holders(h, i))
          /\ n = Cardinality(InReplies(r, i)) /\ n2 = Cardinality(InReplies(q, i))
          /\ m = Cardinality(PlacesIn(r[c], i)) /\ k = Occurrences(os, i)
    BY <1>6, <2>2, <2>4
  <2>6. n2 + m = n + (m + k)
    BY <1>6, <2>2, <2>3, <2>5
  <2>7. h[i].refcount = a + b + n + x[i]
    BY <2>4, <2>5 DEF Places
  <2>8. g[i].refcount = a + b + n + x[i] + k
    BY <1>6, <2>5, <2>7
  <2>9. Places(g, d, q, i) = a + b + n2
    BY <2>1, <2>5 DEF Places
  <2>10. n2 = n + k
    BY <2>6
  <2> QED
    BY <2>4, <2>8, <2>9, <2>10
<1> QED
  BY <1>1, <1>5, <1>8, <1>9, <1>10 DEF Sound, g, q, s

(* The list of a client loses replies: what they refer to is held.         *)
LEMMA RepliesSound ==
  ASSUME NEW h, NEW d, NEW r, NEW x, Sound(h, d, r, x), NEW c \in Clients,
         NEW s \in Seq([obj : Ids, was : Strings]),
         \A n \in 1 .. Len(s) : \E m \in 1 .. Len(r[c]) : s[n] = r[c][m],
         NEW y, \A i \in Ids : /\ y[i] \in Nat
                               /\ y[i] + Cardinality(PlacesIn(s, i))
                                    = x[i] + Cardinality(PlacesIn(r[c], i))
  PROVE  Sound(h, d, [r EXCEPT ![c] = s], y)
<1> DEFINE q == [r EXCEPT ![c] = s]
<1>1. /\ HeapType(h) /\ DictType(d) /\ ReplyType(r) /\ Intact(h, r) /\ Balanced(h, d, r, x)
  BY DEF Sound
<1>2. ReplyType(q) /\ q[c] = s /\ \A b \in Clients \ {c} : q[b] = r[b]
  BY <1>1 DEF ReplyType
<1> HIDE DEF q
<1>3. Intact(h, q)
  <2> SUFFICES ASSUME NEW b \in Clients, NEW n \in 1 .. Len(q[b])
               PROVE  h[q[b][n].obj].type = "string" /\ h[q[b][n].obj].ptr = q[b][n].was
    BY DEF Intact
  <2>1. PICK m \in 1 .. Len(r[b]) : q[b][n] = r[b][m]
    BY <1>2
  <2> QED
    BY <1>1, <2>1 DEF Intact
<1>4. Balanced(h, d, q, y)
  <2> SUFFICES ASSUME NEW i \in Ids
               PROVE  y[i] \in Nat /\ h[i].refcount = Places(h, d, q, i) + y[i]
    BY DEF Balanced
  <2>1. /\ Cardinality(InReplies(r, i)) \in Nat /\ Cardinality(InReplies(q, i)) \in Nat
        /\ Cardinality(PlacesIn(r[c], i)) \in Nat /\ Cardinality(PlacesIn(q[c], i)) \in Nat
        /\ Cardinality(InReplies(q, i)) + Cardinality(PlacesIn(r[c], i))
              = Cardinality(InReplies(r, i)) + Cardinality(PlacesIn(q[c], i))
    <3>1. ReplyType(r) /\ ReplyType(q)
      BY <1>1, <1>2
    <3>2. \A b \in Clients \ {c} : q[b] = r[b]
      BY <1>2
    <3> QED
      BY <3>1, <3>2, RepliesChange
  <2>2. /\ Cardinality(InDict(d, i)) \in Nat /\ Cardinality(Holders(h, i)) \in Nat
        /\ x[i] \in Nat /\ h[i].refcount = Places(h, d, r, i) + x[i]
    BY <1>1, CountsFinite DEF Balanced
  <2>3. PICK a \in Nat, n \in Nat, n2 \in Nat, m \in Nat, m2 \in Nat, u \in Nat, v \in Nat :
          /\ a = Cardinality(InDict(d, i)) + Cardinality(Holders(h, i))
          /\ n = Cardinality(InReplies(r, i)) /\ n2 = Cardinality(InReplies(q, i))
          /\ m = Cardinality(PlacesIn(r[c], i)) /\ m2 = Cardinality(PlacesIn(q[c], i))
          /\ u = x[i] /\ v = y[i]
    <3>1. \A p, k \in Nat : p + k \in Nat
      OBVIOUS
    <3> QED
      BY <2>1, <2>2, <3>1
  <2>4. h[i].refcount = a + n + u /\ Places(h, d, q, i) = a + n2
    BY <2>2, <2>3 DEF Places
  <2>5. n2 + m = n + m2 /\ v + m2 = u + m
    BY <1>2, <2>1, <2>3
  <2>6. a + n + u = a + n2 + v
    <3>1. n2 + v = n + u
      BY ONLY <2>5, n \in Nat, n2 \in Nat, m \in Nat, m2 \in Nat, u \in Nat, v \in Nat
    <3> QED
      BY <3>1
  <2> QED
    BY <2>3, <2>4, <2>6
<1> QED
  BY <1>1, <1>2, <1>3, <1>4 DEF Sound, q

(* The first reply of a client leaves its list, and its object is held.    *)
LEMMA UnqueueSound ==
  ASSUME NEW h, NEW d, NEW r, NEW x, Sound(h, d, r, x), NEW c \in Clients, r[c] # <<>>,
         NEW y, \A i \in Ids : y[i] = x[i] + (IF i = Head(r[c]).obj THEN 1 ELSE 0)
  PROVE  Head(r[c]).obj \in Ids /\ Sound(h, d, [r EXCEPT ![c] = Tail(@)], y)
<1> DEFINE S == [obj : Ids, was : Strings]
           s == r[c]
           t == Tail(s)
           e == Head(s)
           u == <<e>>
<1>1. /\ ReplyType(r) /\ s \in Seq(S) /\ s # <<>>
      /\ \A i \in Ids : x[i] \in Nat
  BY DEF Sound, ReplyType, Balanced
<1> HIDE DEF S, s
<1>2. /\ t \in Seq(S) /\ e \in S /\ Len(s) \in Nat /\ Len(s) >= 1 /\ Len(t) = Len(s) - 1
      /\ \A n \in 1 .. Len(t) : t[n] = s[n + 1]
  BY <1>1, HeadTailProperties
<1>3. s = u \o t
  BY <1>1, <1>2
<1>4. \A n \in 1 .. Len(t) : \E m \in 1 .. Len(s) : t[n] = s[m]
  <2>1. \A n \in 1 .. Len(t) : n + 1 \in 1 .. Len(s)
    BY <1>2
  <2> QED
    BY <1>2, <2>1
<1> HIDE DEF t, e
<1>5. e.obj \in Ids
  BY <1>2 DEF S
<1>6. ASSUME NEW i \in Ids
      PROVE  /\ y[i] \in Nat
             /\ y[i] + Cardinality(PlacesIn(t, i)) = x[i] + Cardinality(PlacesIn(s, i))
  <2>1. u \in Seq(S) /\ Len(u) = 1 /\ u[1] = e
    BY <1>2
  <2>2. PlacesIn(u, i) = IF i = e.obj THEN {1} ELSE {}
    BY <2>1 DEF PlacesIn
  <2>3. Cardinality(PlacesIn(u, i)) = IF i = e.obj THEN 1 ELSE 0
    BY <2>2, FS_Singleton, FS_EmptySet
  <2>4. PICK a \in Nat : a = Cardinality(PlacesIn(t, i))
    BY <1>2, PlacesInFinite
  <2>5. Cardinality(PlacesIn(s, i)) = Cardinality(PlacesIn(u, i)) + Cardinality(PlacesIn(t, i))
    <3> HIDE DEF u
    <3>1. Cardinality(PlacesIn(u \o t, i)) = Cardinality(PlacesIn(u, i)) + Cardinality(PlacesIn(t, i))
      BY <1>2, <2>1, PlacesInConcat
    <3> QED
      BY <1>3, <3>1
  <2>6. x[i] \in Nat /\ y[i] = x[i] + (IF i = e.obj THEN 1 ELSE 0)
    BY <1>1 DEF e, s
  <2> QED
    BY <2>3, <2>4, <2>5, <2>6
<1>7. Sound(h, d, [r EXCEPT ![c] = t], y)
  <2>1. t \in Seq([obj : Ids, was : Strings])
    BY <1>2 DEF S
  <2>2. \A n \in 1 .. Len(t) : \E m \in 1 .. Len(r[c]) : t[n] = r[c][m]
    BY <1>4 DEF s
  <2>3. \A i \in Ids : /\ y[i] \in Nat
                       /\ y[i] + Cardinality(PlacesIn(t, i))
                            = x[i] + Cardinality(PlacesIn(r[c], i))
    BY <1>6 DEF s
  <2> QED
    BY <2>1, <2>2, <2>3, RepliesSound
<1>8. [r EXCEPT ![c] = Tail(@)] = [r EXCEPT ![c] = t]
  BY DEF t, s
<1> QED
  BY <1>5, <1>7, <1>8 DEF e, s

(* FreeClient: the whole list goes, and with it the counts of its objects. *)
LEMMA ReleaseSound ==
  ASSUME NEW h, NEW d, NEW r, NEW x, Sound(h, d, r, x), NEW c \in Clients
  PROVE  Sound(Release(h, ObjectsOf(r[c])), d, [r EXCEPT ![c] = <<>>], x)
<1> DEFINE g == Release(h, ObjectsOf(r[c]))
           q == [r EXCEPT ![c] = <<>>]
           k == [i \in Ids |-> Cardinality(PlacesIn(r[c], i))]
           z == [i \in Ids |-> x[i] + k[i]]
<1>1. /\ HeapType(h) /\ DictType(d) /\ ReplyType(r) /\ Intact(h, r) /\ Balanced(h, d, r, x)
  BY DEF Sound
<1>2. r[c] \in Seq([obj : Ids, was : Strings])
  BY <1>1 DEF ReplyType
<1>3. ASSUME NEW i \in Ids
      PROVE  /\ x[i] \in Nat /\ k[i] \in Nat /\ z[i] = x[i] + k[i] /\ z[i] \in Nat
             /\ k[i] = Occurrences(ObjectsOf(r[c]), i)
             /\ k[i] = 0 <=> i \notin Range(ObjectsOf(r[c]))
             /\ k[i] # 0 => h[i].type = "string"
  <2>1. IsFiniteSet(PlacesIn(r[c], i)) /\ k[i] \in Nat
    BY <1>2, PlacesInFinite
  <2>2. x[i] \in Nat
    BY <1>1 DEF Balanced
  <2>3. k[i] = Occurrences(ObjectsOf(r[c]), i)
    BY DEF ObjectsOf, Occurrences, PlacesIn
  <2>4. i \notin Range(ObjectsOf(r[c])) <=> PlacesIn(r[c], i) = {}
    BY DEF ObjectsOf, Range, PlacesIn
  <2>5. k[i] = 0 <=> PlacesIn(r[c], i) = {}
    BY <2>1, FS_EmptySet
  <2>6. k[i] # 0 => h[i].type = "string"
    <3>1. DOMAIN r[c] = 1 .. Len(r[c])
      BY <1>2
    <3> QED
      BY <1>1, <2>5, <3>1 DEF Intact, PlacesIn
  <2> QED
    BY <2>1, <2>2, <2>3, <2>4, <2>5, <2>6
<1>4. Sound(h, d, q, z)
  <2> DEFINE s == <<>>
  <2>1. s \in Seq([obj : Ids, was : Strings])
    OBVIOUS
  <2>2. \A n \in 1 .. Len(s) : \E m \in 1 .. Len(r[c]) : s[n] = r[c][m]
    OBVIOUS
  <2>3. \A i \in Ids : /\ z[i] \in Nat
                       /\ z[i] + Cardinality(PlacesIn(s, i))
                            = x[i] + Cardinality(PlacesIn(r[c], i))
    <3> SUFFICES ASSUME NEW i \in Ids
                 PROVE  z[i] \in Nat /\ z[i] + Cardinality(PlacesIn(s, i)) = x[i] + k[i]
      OBVIOUS
    <3>1. PlacesIn(s, i) = {}
      BY DEF PlacesIn
    <3>2. Cardinality(PlacesIn(s, i)) = 0
      BY <3>1, FS_EmptySet
    <3> HIDE DEF s, z, k
    <3> QED
      BY <1>3, <3>2
  <2>4. Sound(h, d, [r EXCEPT ![c] = s], z)
    <3> HIDE DEF s, z
    <3> QED
      BY <2>1, <2>2, <2>3, RepliesSound
  <2> QED
    BY <2>4
<1> HIDE DEF q, z, k
<1>5. /\ g = [i \in Ids |-> g[i]]
      /\ \A i \in Ids : g[i] = IF k[i] # 0 THEN DecrBy(h[i], k[i]) ELSE h[i]
  BY <1>3 DEF Release
<1> HIDE DEF g
<1>6. ASSUME NEW i \in Ids
      PROVE  /\ Object(g[i]) /\ Members(g[i]) = Members(h[i])
             /\ h[i].refcount \in Nat /\ g[i].refcount = h[i].refcount - k[i]
             /\ h[i].refcount > z[i] => g[i].type = h[i].type /\ g[i].ptr = h[i].ptr
  <2>1. Object(h[i]) /\ h[i].refcount \in Nat /\ h[i].refcount >= z[i]
    BY <1>1, <1>4, Referenced DEF HeapType
  <2>2. CASE k[i] = 0
    BY <1>3, <1>5, <2>1, <2>2
  <2>3. CASE k[i] # 0
    <3>1. /\ h[i].type = "string" /\ g[i] = DecrBy(h[i], k[i]) /\ Members(h[i]) = {}
          /\ h[i].refcount >= k[i] /\ k[i] \in Nat
      BY <1>3, <1>5, <2>1, <2>3 DEF Members
    <3>2. CASE h[i].refcount = k[i]
      <4>1. g[i] = Pooled
        BY <3>1, <3>2 DEF DecrBy
      <4> QED
        BY <1>3, <2>1, <3>1, <3>2, <4>1, PooledObject
    <3>3. CASE h[i].refcount # k[i]
      <4>1. g[i] = [type |-> h[i].type, ptr |-> h[i].ptr, refcount |-> h[i].refcount - k[i]]
        BY <2>1, <3>1, <3>3 DEF DecrBy, Object
      <4>2. h[i].refcount - k[i] \in Nat \ {0}
        BY <2>1, <3>1, <3>3
      <4>3. Object(g[i])
        BY <2>1, <3>1, <4>1, <4>2 DEF Object, Types
      <4>4. Members(g[i]) = Members(h[i])
        BY <3>1, <4>1 DEF Members
      <4> QED
        BY <2>1, <4>1, <4>3, <4>4
    <3> QED
      BY <3>2, <3>3
  <2> QED
    BY <2>2, <2>3
<1>7. HeapType(g)
  <2>1. ASSUME NEW i \in Ids, NEW j \in Ids, i \in Members(g[j]) PROVE g[i].type = "string"
    <3>1. i \in Members(h[j])
      BY <1>6, <2>1
    <3>2. h[i].type = "string" /\ h[i].refcount > z[i]
      BY <1>4, <3>1, Alive
    <3> QED
      BY <1>6, <3>2
  <2> QED
    BY <1>5, <1>6, <2>1 DEF HeapType
<1>8. Intact(g, q)
  <2> SUFFICES ASSUME NEW b \in Clients, NEW n \in 1 .. Len(q[b]), NEW i, i = q[b][n].obj
               PROVE  g[i].type = h[i].type /\ g[i].ptr = h[i].ptr
    BY <1>4 DEF Intact, Sound
  <2>1. i \in Ids /\ InReplies(q, i) # {}
    BY <1>4, ReplyElement DEF Sound
  <2>2. h[i].refcount > z[i]
    BY <1>4, <2>1, Referenced
  <2> QED
    BY <1>6, <2>1, <2>2
<1>9. Balanced(g, d, q, x)
  <2> SUFFICES ASSUME NEW i \in Ids
               PROVE  x[i] \in Nat /\ g[i].refcount = Places(g, d, q, i) + x[i]
    BY DEF Balanced
  <2>1. Holders(g, i) = Holders(h, i)
    BY <1>6 DEF Holders
  <2>2. Places(g, d, q, i) = Places(h, d, q, i)
    BY <2>1 DEF Places
  <2>3. PICK p \in Nat : p = Places(h, d, q, i) /\ h[i].refcount = p + z[i]
    <3>1. /\ Cardinality(InDict(d, i)) \in Nat /\ Cardinality(InReplies(q, i)) \in Nat
          /\ Cardinality(Holders(h, i)) \in Nat
      BY <1>4, CountsFinite DEF Sound
    <3>2. h[i].refcount = Places(h, d, q, i) + z[i]
      BY <1>4 DEF Balanced, Sound
    <3> QED
      BY <3>1, <3>2 DEF Places
  <2> QED
    BY <1>3, <1>6, <2>2, <2>3
<1> QED
  BY <1>1, <1>4, <1>7, <1>8, <1>9 DEF Sound, g, q

-----------------------------------------------------------------------------
(* The same steps, where at most one reference is held                     *)

Held(o) == [i \in Ids |-> IF i = o THEN 1 ELSE 0]

(* CreateCutisObject takes an object that is free.                         *)
LEMMA FreshIsFree ==
  ASSUME NEW h, NEW o \in Fresh(h)
  PROVE  o \in Ids /\ h[o].type \notin Types
<1>1. o \in Ids /\ h[o] \in {Pooled, Unallocated}
  BY DEF Fresh
<1> QED
  BY <1>1, PooledObject

(* The new string is held by the command; it was nowhere before.           *)
LEMMA CreateString ==
  ASSUME NEW h, NEW d, NEW r, Sound(h, d, r, Nothing), NEW o \in Fresh(h), NEW v \in Strings
  PROVE  LET g == Create(h, o, "string", v) IN
         /\ Sound(g, d, r, Held(o)) /\ o \in Ids /\ h[o].type \notin Types
         /\ g[o] = [type |-> "string", ptr |-> v, refcount |-> 1]
         /\ \A i \in Ids \ {o} : g[i] = h[i]
         /\ \A j \in Ids : o \notin Members(h[j])
<1> DEFINE g == Create(h, o, "string", v)
<1>1. o \in Ids /\ h[o].type \notin Types
  BY FreshIsFree
<1>2. h = [i \in Ids |-> h[i]]
  BY DEF Sound, HeapType
<1>3. /\ g = [i \in Ids |-> g[i]] /\ g[o] = [type |-> "string", ptr |-> v, refcount |-> 1]
      /\ \A i \in Ids \ {o} : g[i] = h[i]
  BY <1>1, <1>2 DEF Create
<1> HIDE DEF g
<1>4. Object(g[o]) /\ Members(g[o]) = {} /\ g[o].refcount = 1
  BY <1>3 DEF Object, Members, Types
<1>5. Sound(g, d, r, Held(o))
  <2>1. \A i \in Ids : Held(o)[i] = Nothing[i] + (IF i = o THEN 1 ELSE 0) - Has(g, o, i)
    BY <1>4 DEF Held, Nothing, Has
  <2>2. \A m \in Members(g[o]) : h[m].type = "string" /\ Nothing[m] >= 1
    BY <1>4
  <2>3. /\ g = [i \in Ids |-> g[i]] /\ \A i \in Ids \ {o} : g[i] = h[i]
        /\ Object(g[o]) /\ g[o].refcount = 1 /\ o \in Ids /\ h[o].type \notin Types
    BY <1>1, <1>3, <1>4
  <2> QED
    BY <2>1, <2>2, <2>3, CreateSound
<1>6. \A j \in Ids : o \notin Members(h[j])
  BY <1>1, Alive DEF Types
<1> QED
  BY <1>1, <1>3, <1>5, <1>6 DEF g

(* The command gives up what it holds.                                     *)
LEMMA DecrHeld ==
  ASSUME NEW h, NEW d, NEW r, NEW o \in Ids, Sound(h, d, r, Held(o))
  PROVE  Sound(DecrRefCount(h, o), d, r, Nothing)
<1>1. Held(o)[o] >= 1 /\ \A i \in Ids : Nothing[i] = Held(o)[i] - (IF i = o THEN 1 ELSE 0)
  BY DEF Held, Nothing
<1> QED
  BY <1>1, DecrSound

(* What an entry held before, if anything, is held after it takes o.       *)
LEMMA StoreHeld ==
  ASSUME NEW h, NEW d, NEW r, NEW o \in Ids, Sound(h, d, r, Held(o)),
         NEW s \in Dbs, NEW k \in Keys
  PROVE  /\ d[s][k] \in Ids => Sound(h, [d EXCEPT ![s][k] = o], r, Held(d[s][k]))
         /\ d[s][k] \notin Ids => Sound(h, [d EXCEPT ![s][k] = o], r, Nothing)
<1>1. o \in Ids \cup {Null} /\ (o \in Ids => Held(o)[o] >= 1)
  BY DEF Held
<1>2. ASSUME d[s][k] \in Ids
      PROVE  Sound(h, [d EXCEPT ![s][k] = o], r, Held(d[s][k]))
  <2>1. \A i \in Ids : Held(d[s][k])[i] = Held(o)[i] + (IF i = d[s][k] THEN 1 ELSE 0)
                                            - (IF i = o THEN 1 ELSE 0)
    BY DEF Held
  <2> QED
    BY <1>1, <2>1, SetEntrySound
<1>3. ASSUME d[s][k] \notin Ids
      PROVE  Sound(h, [d EXCEPT ![s][k] = o], r, Nothing)
  <2>1. \A i \in Ids : Nothing[i] = Held(o)[i] + (IF i = d[s][k] THEN 1 ELSE 0)
                                      - (IF i = o THEN 1 ELSE 0)
    BY <1>3 DEF Held, Nothing
  <2> QED
    BY <1>1, <2>1, SetEntrySound
<1> QED
  BY <1>2, <1>3

(* What an entry held is held by the command when the entry goes.          *)
LEMMA ClearEntry ==
  ASSUME NEW h, NEW d, NEW r, Sound(h, d, r, Nothing), NEW s \in Dbs, NEW k \in Keys,
         d[s][k] \in Ids
  PROVE  Sound(h, [d EXCEPT ![s][k] = Null], r, Held(d[s][k]))
<1>1. Null \in Ids \cup {Null} /\ (Null \in Ids => Nothing[Null] >= 1)
  BY KeyspaceAssumption
<1>2. \A i \in Ids : Held(d[s][k])[i] = Nothing[i] + (IF i = d[s][k] THEN 1 ELSE 0)
                                          - (IF i = Null THEN 1 ELSE 0)
  BY KeyspaceAssumption DEF Held, Nothing
<1> QED
  BY <1>1, <1>2, SetEntrySound

(* What a client finds at a key.                                           *)
LEMMA KeyFacts ==
  ASSUME Inv, NEW c \in Clients, NEW k \in Keys
  PROVE  /\ selected[c] \in Dbs /\ Entry(c, k) = dict[selected[c]][k]
         /\ Entry(c, k) \in Ids \cup {Null}
         /\ Found(c, k) <=> Entry(c, k) \in Ids
         /\ Found(c, k) => /\ Object(heap[Entry(c, k)]) /\ heap[Entry(c, k)].type \in Types
                           /\ Members(heap[Entry(c, k)]) \in SUBSET Ids
                           /\ \A m \in Members(heap[Entry(c, k)]) :
                                heap[m].type = "string" /\ heap[m].ptr \in Strings
<1>1. Sound(heap, dict, reply, Nothing) /\ selected[c] \in Dbs
  BY DEF Inv
<1>2. DictType(dict) /\ HeapType(heap)
  BY <1>1 DEF Sound
<1>3. dict[selected[c]][k] \in Ids \cup {Null} /\ Null \notin Ids
  BY <1>1, <1>2, KeyspaceAssumption DEF DictType
<1>4. Found(c, k) <=> Entry(c, k) \in Ids
  BY <1>3 DEF Found, Entry
<1>5. ASSUME Found(c, k)
      PROVE  /\ Object(heap[Entry(c, k)]) /\ heap[Entry(c, k)].type \in Types
             /\ Members(heap[Entry(c, k)]) \in SUBSET Ids
             /\ \A m \in Members(heap[Entry(c, k)]) :
                  heap[m].type = "string" /\ heap[m].ptr \in Strings
  <2> DEFINE o == Entry(c, k)
  <2>1. o \in Ids /\ Object(heap[o])
    BY <1>2, <1>4, <1>5 DEF HeapType
  <2>2. heap[o].type \in Types
    <3>1. <<selected[c], k>> \in InDict(dict, o)
      BY <1>1 DEF InDict, Entry
    <3>2. heap[o].refcount > Nothing[o] /\ Nothing[o] = 0
      BY <1>1, <2>1, <3>1, Referenced DEF Nothing
    <3> QED
      BY <1>1, <2>1, <3>2, Alive
  <2>3. Members(heap[o]) \in SUBSET Ids
    BY <2>1 DEF Object, Members, IsList, Range
  <2>4. \A m \in Members(heap[o]) : heap[m].type = "string" /\ heap[m].ptr \in Strings
    BY <1>2, <2>1, <2>3 DEF HeapType, Object
  <2> QED
    BY <2>1, <2>2, <2>3, <2>4
<1> QED
  BY <1>1, <1>3, <1>4, <1>5 DEF Entry

-----------------------------------------------------------------------------
(* Each command leaves the heap sound, with nothing held                   *)

(* SET, SETNX (command.c:134-178).                                         *)
LEMMA SetGenericSound ==
  ASSUME Inv, NEW c \in Clients, NEW k \in Keys, NEW v \in Strings, NEW nx,
         SetGenericCommand(c, k, v, nx)
  PROVE  Sound(heap', dict', reply', Nothing)
<1> DEFINE s == selected[c]
           e == Entry(c, k)
<1>1. Sound(heap, dict, reply, Nothing) /\ s \in Dbs /\ e = dict[s][k] /\ (Found(c, k) <=> e \in Ids)
  BY KeyFacts DEF Inv
<1>2. PICK o \in Fresh(heap) :
        LET h == Create(heap, o, "string", v) IN
        \/ ~ Found(c, k) /\ heap' = h /\ SetEntry(c, k, o)
        \/ Found(c, k) /\ nx /\ heap' = DecrRefCount(h, o) /\ dict' = dict
        \/ /\ Found(c, k) /\ ~ nx
           /\ heap' = DecrRefCount(h, e) /\ SetEntry(c, k, o)
  BY DEF SetGenericCommand
<1> DEFINE h == Create(heap, o, "string", v)
<1>3. o \in Ids /\ Sound(h, dict, reply, Held(o)) /\ reply' = reply
  BY <1>1, CreateString DEF SetGenericCommand
<1> HIDE DEF h
<1>4. CASE ~ Found(c, k) /\ heap' = h /\ SetEntry(c, k, o)
  BY <1>1, <1>3, <1>4, StoreHeld DEF SetEntry
<1>5. CASE Found(c, k) /\ heap' = DecrRefCount(h, o) /\ dict' = dict
  BY <1>3, <1>5, DecrHeld
<1>6. CASE Found(c, k) /\ heap' = DecrRefCount(h, e) /\ SetEntry(c, k, o)
  <2>1. Sound(h, [dict EXCEPT ![s][k] = o], reply, Held(e))
    BY <1>1, <1>3, <1>6, StoreHeld
  <2>2. e \in Ids
    BY <1>1, <1>6
  <2> HIDE DEF e
  <2> QED
    BY <1>3, <1>6, <2>1, <2>2, DecrHeld DEF SetEntry
<1> QED
  BY <1>2, <1>4, <1>5, <1>6 DEF h

(* GET (command.c:154-170).                                                *)
LEMMA GetSound ==
  ASSUME Inv, NEW c \in Clients, NEW k \in Keys, GetCommand(c, k)
  PROVE  Sound(heap', dict', reply', Nothing)
<1> DEFINE os == <<Entry(c, k)>>
<1>1. Sound(heap, dict, reply, Nothing) /\ Entry(c, k) \in Ids /\ heap[Entry(c, k)].type = "string"
  BY KeyFacts DEF Inv, GetCommand, Holds
<1>2. /\ os \in Seq(Ids) /\ \A n \in 1 .. Len(os) : heap[os[n]].type = "string"
      /\ \A n \in 1 .. Len(os) : heap[os[n]].ptr = heap[os[n]].ptr
  BY <1>1
<1>3. /\ heap' = Retain(heap, os) /\ dict' = dict
      /\ reply' = [reply EXCEPT ![c] = @ \o Queue(heap, os)]
  BY DEF GetCommand, NoChange, AddReply
<1> HIDE DEF os
<1>4. Sound(Retain(heap, os), dict, [reply EXCEPT ![c] = @ \o Queue(heap, os)], Nothing)
  BY <1>1, <1>2, AddReplySound
<1> QED
  BY <1>3, <1>4

(* DEL (command.c:189-194).                                                *)
LEMMA DelSound ==
  ASSUME Inv, NEW c \in Clients, NEW k \in Keys, DelCommand(c, k)
  PROVE  Sound(heap', dict', reply', Nothing)
<1> DEFINE s == selected[c]
           e == Entry(c, k)
<1>1. Sound(heap, dict, reply, Nothing) /\ s \in Dbs /\ e = dict[s][k] /\ e \in Ids
  BY KeyFacts DEF Inv, DelCommand
<1>2. heap' = DecrRefCount(heap, e) /\ dict' = [dict EXCEPT ![s][k] = Null] /\ reply' = reply
  BY DEF DelCommand, SetEntry
<1> HIDE DEF s, e
<1>3. Sound(heap, [dict EXCEPT ![s][k] = Null], reply, Held(e))
  BY <1>1, ClearEntry
<1> QED
  BY <1>1, <1>2, <1>3, DecrHeld

(* What is neither given up nor a member of it stays as it is.             *)
LEMMA DecrLeaves ==
  ASSUME NEW h, NEW o, NEW i \in Ids, i # o, i \notin Members(h[o])
  PROVE  DecrRefCount(h, o)[i] = h[i]
BY DEF DecrRefCount, DecrAll

(* INCR, DECR and their like.  The reply shares the new object.            *)
LEMMA IncrDecrSound ==
  ASSUME Inv, NEW c \in Clients, NEW k \in Keys, NEW incr, IncrDecrCommand(c, k, incr)
  PROVE  Sound(heap', dict', reply', Nothing)
<1> DEFINE s == selected[c]
           e == Entry(c, k)
           value == NumberOf(c, k) + incr
<1>1. Sound(heap, dict, reply, Nothing) /\ s \in Dbs /\ e = dict[s][k] /\ (Found(c, k) <=> e \in Ids)
  BY KeyFacts DEF Inv
<1>2. PICK o \in Fresh(heap) :
        LET h == Create(heap, o, "string", value)
            replaced == IF Found(c, k) THEN DecrRefCount(h, e) ELSE h
        IN heap' = Retain(replaced, <<o>>) /\ AddReply(c, h, <<o>>) /\ SetEntry(c, k, o)
  BY DEF IncrDecrCommand
<1> DEFINE h == Create(heap, o, "string", value)
           replaced == IF Found(c, k) THEN DecrRefCount(h, e) ELSE h
           os == <<o>>
<1>3. /\ o \in Ids /\ Sound(h, dict, reply, Held(o)) /\ heap[o].type \notin Types
      /\ h[o].type = "string" /\ \A i \in Ids \ {o} : h[i] = heap[i]
      /\ \A j \in Ids : o \notin Members(heap[j])
  <2>1. value \in Strings
    BY DEF IncrDecrCommand, Strings
  <2> HIDE DEF value
  <2>2. /\ Sound(h, dict, reply, Held(o)) /\ o \in Ids /\ heap[o].type \notin Types
        /\ h[o] = [type |-> "string", ptr |-> value, refcount |-> 1]
        /\ \A i \in Ids \ {o} : h[i] = heap[i]
        /\ \A j \in Ids : o \notin Members(heap[j])
    BY <1>1, <2>1, CreateString
  <2> QED
    BY <2>2
<1>4. heap' = Retain(replaced, os) /\ reply' = [reply EXCEPT ![c] = @ \o Queue(h, os)]
      /\ dict' = [dict EXCEPT ![s][k] = o]
  BY <1>2 DEF AddReply, SetEntry
<1> HIDE DEF h
<1>5. /\ Sound(replaced, [dict EXCEPT ![s][k] = o], reply, Nothing)
      /\ replaced[o].ptr = h[o].ptr /\ replaced[o].type = "string"
  <2>1. CASE ~ Found(c, k)
    BY <1>1, <1>3, <2>1, StoreHeld
  <2>2. CASE Found(c, k)
    <3>1. Sound(h, [dict EXCEPT ![s][k] = o], reply, Held(e)) /\ e \in Ids
      BY <1>1, <1>3, <2>2, StoreHeld
    <3>2. e # o /\ h[e] = heap[e]
      BY <1>3, <2>2, <3>1, KeyFacts
    <3>3. DecrRefCount(h, e)[o] = h[o]
      BY <1>3, <3>1, <3>2, DecrLeaves
    <3> HIDE DEF e
    <3> QED
      BY <1>3, <2>2, <3>1, <3>3, DecrHeld
  <2> QED
    BY <2>1, <2>2
<1>6. /\ os \in Seq(Ids) /\ \A n \in 1 .. Len(os) : replaced[os[n]].type = "string"
      /\ \A n \in 1 .. Len(os) : h[os[n]].ptr = replaced[os[n]].ptr
  BY <1>3, <1>5
<1> HIDE DEF replaced, os
<1>7. Sound(Retain(replaced, os), [dict EXCEPT ![s][k] = o], [reply EXCEPT ![c] = @ \o Queue(h, os)], Nothing)
  BY <1>5, <1>6, AddReplySound
<1> QED
  BY <1>4, <1>7

-----------------------------------------------------------------------------
(* Lists that name no object twice                                         *)

(* What the elements of a list are.                                        *)
LEMMA ListFacts ==
  ASSUME NEW l, IsList(l)
  PROVE  /\ l \in Seq(Ids) /\ Len(l) \in Nat /\ DOMAIN l = 1 .. Len(l)
         /\ Range(l) = {l[n] : n \in 1 .. Len(l)} /\ Range(l) \in SUBSET Ids
         /\ \A n \in 1 .. Len(l) : l[n] \in Ids /\ l[n] \in Range(l)
BY DEF IsList, Range

(* A new element at an end of a list.                                      *)
LEMMA ListEnds ==
  ASSUME NEW l, IsList(l), NEW el \in Ids, el \notin Range(l), NEW where
  PROVE  IsList(AtEnd(l, el, where)) /\ Range(AtEnd(l, el, where)) = Range(l) \cup {el}
<1>1. /\ l \in Seq(Ids) /\ Len(l) \in Nat /\ \A n \in 1 .. Len(l) : l[n] \in Ids /\ l[n] # el
      /\ Range(l) = {l[n] : n \in 1 .. Len(l)}
      /\ \A p, q \in 1 .. Len(l) : l[p] = l[q] => p = q
  BY ListFacts DEF IsList
<1> DEFINE m == <<el>> \o l
           t == Append(l, el)
<1>2. IsList(m) /\ Range(m) = Range(l) \cup {el}
  <2>1. /\ m \in Seq(Ids) /\ Len(m) = 1 + Len(l) /\ m[1] = el
        /\ \A n \in 2 .. 1 + Len(l) : m[n] = l[n - 1]
    BY <1>1
  <2> HIDE DEF m
  <2>2. \A p, q \in 1 .. Len(m) : m[p] = m[q] => p = q
    <3>1. \A p \in 2 .. 1 + Len(l) : p - 1 \in 1 .. Len(l)
      BY <1>1
    <3>2. \A p \in 1 .. Len(m) : p = 1 \/ p \in 2 .. 1 + Len(l)
      BY <1>1, <2>1
    <3>3. ASSUME NEW p \in 2 .. 1 + Len(l), NEW q \in 2 .. 1 + Len(l), m[p] = m[q] PROVE p = q
      <4>1. p - 1 = q - 1
        BY ONLY <1>1, <2>1, <3>1, <3>3
      <4> QED
        BY <4>1
    <3>4. \A p \in 2 .. 1 + Len(l) : m[p] # m[1]
      BY <1>1, <2>1, <3>1
    <3> QED
      BY <3>2, <3>3, <3>4
  <2>3. Range(m) = {m[n] : n \in 1 .. Len(m)}
    BY <2>1 DEF Range
  <2>4. \A n \in 1 .. Len(l) : n + 1 \in 2 .. 1 + Len(l) /\ m[n + 1] = l[n]
    BY <1>1, <2>1
  <2>5. \A n \in 2 .. 1 + Len(l) : n - 1 \in 1 .. Len(l)
    BY <1>1
  <2>6. Range(m) \subseteq Range(l) \cup {el}
    BY <1>1, <2>1, <2>3, <2>5
  <2>7. Range(l) \cup {el} \subseteq Range(m)
    BY <1>1, <2>1, <2>3, <2>4
  <2> QED
    BY <2>1, <2>2, <2>6, <2>7 DEF IsList
<1>3. IsList(t) /\ Range(t) = Range(l) \cup {el}
  <2>1. /\ t \in Seq(Ids) /\ Len(t) = Len(l) + 1 /\ t[Len(l) + 1] = el
        /\ \A n \in 1 .. Len(l) : t[n] = l[n]
    BY <1>1
  <2> HIDE DEF t
  <2>2. \A p, q \in 1 .. Len(t) : t[p] = t[q] => p = q
    <3>1. \A p \in 1 .. Len(t) : p = Len(l) + 1 \/ p \in 1 .. Len(l)
      BY <1>1, <2>1
    <3> QED
      BY <1>1, <2>1, <3>1
  <2>3. Range(t) = {t[n] : n \in 1 .. Len(t)}
    BY <2>1 DEF Range
  <2>4. 1 .. Len(t) = 1 .. Len(l) \cup {Len(l) + 1}
    BY <1>1, <2>1
  <2> QED
    BY <1>1, <2>1, <2>2, <2>3, <2>4 DEF IsList
<1> QED
  BY <1>2, <1>3 DEF AtEnd

(* The elements of list l from place a + 1 on.                             *)
LEMMA SliceOfList ==
  ASSUME NEW l, IsList(l), NEW s \in Seq(Ids), NEW a \in Nat, a + Len(s) <= Len(l),
         \A n \in 1 .. Len(s) : s[n] = l[n + a]
  PROVE  /\ IsList(s) /\ Range(s) \subseteq Range(l)
         /\ Range(s) = {l[n] : n \in a + 1 .. a + Len(s)}
<1>1. /\ Len(l) \in Nat /\ Range(l) = {l[n] : n \in 1 .. Len(l)} /\ Len(s) \in Nat
      /\ \A p, q \in 1 .. Len(l) : l[p] = l[q] => p = q
  BY ListFacts DEF IsList
<1>2. \A n \in 1 .. Len(s) : n + a \in a + 1 .. a + Len(s) /\ n + a \in 1 .. Len(l)
  BY <1>1
<1>3. \A n \in a + 1 .. a + Len(s) : n - a \in 1 .. Len(s) /\ (n - a) + a = n /\ n \in 1 .. Len(l)
  BY <1>1
<1>4. \A p, q \in 1 .. Len(s) : s[p] = s[q] => p = q
  <2> SUFFICES ASSUME NEW p \in 1 .. Len(s), NEW q \in 1 .. Len(s), s[p] = s[q] PROVE p = q
    OBVIOUS
  <2>1. p + a = q + a
    BY <1>1, <1>2
  <2> QED
    BY <2>1
<1>5. Range(s) = {s[n] : n \in 1 .. Len(s)}
  BY DEF Range
<1>6. Range(s) \subseteq {l[n] : n \in a + 1 .. a + Len(s)}
  BY <1>2, <1>5
<1>7. {l[n] : n \in a + 1 .. a + Len(s)} \subseteq Range(s)
  BY <1>3, <1>5
<1>8. {l[n] : n \in a + 1 .. a + Len(s)} \subseteq Range(l)
  BY <1>1, <1>3
<1> QED
  BY <1>4, <1>6, <1>7, <1>8 DEF IsList

(* A list without its first, or its last, element.                         *)
LEMMA ListRest ==
  ASSUME NEW l, IsList(l), l # <<>>
  PROVE  /\ Head(l) \in Range(l) /\ IsList(Tail(l)) /\ Range(Tail(l)) = Range(l) \ {Head(l)}
         /\ Last(l) \in Range(l) /\ IsList(Front(l)) /\ Range(Front(l)) = Range(l) \ {Last(l)}
<1> DEFINE t == Tail(l)
           f == Front(l)
           len == Len(l)
<1>1. /\ l \in Seq(Ids) /\ len \in Nat /\ len >= 1 /\ Range(l) = {l[n] : n \in 1 .. len}
      /\ \A p, q \in 1 .. len : l[p] = l[q] => p = q
      /\ \A n \in 1 .. len : l[n] \in Ids
  BY ListFacts DEF IsList
<1>2. /\ t \in Seq(Ids) /\ Len(t) = len - 1 /\ Head(l) = l[1]
      /\ \A n \in 1 .. Len(t) : t[n] = l[n + 1]
  BY <1>1, HeadTailProperties
<1>3. /\ f \in Seq(Ids) /\ Len(f) = len - 1 /\ Last(l) = l[len]
      /\ \A n \in 1 .. Len(f) : f[n] = l[n + 0]
  <2>1. len - 1 \in Nat /\ \A n \in 1 .. len - 1 : l[n] \in Ids
    BY <1>1
  <2>2. /\ SubSeq(l, 1, len - 1) \in Seq(Ids)
        /\ Len(SubSeq(l, 1, len - 1)) = IF 1 <= len - 1 THEN len - 1 - 1 + 1 ELSE 0
        /\ \A n \in 1 .. len - 1 - 1 + 1 : SubSeq(l, 1, len - 1)[n] = l[1 + n - 1]
    <3> HIDE DEF len
    <3> QED
      BY <1>1, <2>1, SubSeqProperties
  <2>3. f = SubSeq(l, 1, len - 1) /\ Last(l) = l[len]
    BY DEF Front, Last
  <2> HIDE DEF f, len
  <2>4. Len(f) = len - 1
    BY <1>1, <2>2, <2>3
  <2>5. \A n \in 1 .. len - 1 : 1 + n - 1 = n /\ n + 0 = n /\ n \in 1 .. len - 1 - 1 + 1
    BY <1>1
  <2> QED
    BY <2>2, <2>3, <2>4, <2>5
<1> HIDE DEF t, f, len
<1>4. IsList(t) /\ Range(t) = {l[n] : n \in 1 + 1 .. 1 + Len(t)}
  <2>1. 1 \in Nat /\ 1 + Len(t) <= Len(l)
    BY <1>1, <1>2 DEF len
  <2> QED
    BY <1>2, <2>1, SliceOfList
<1>5. IsList(f) /\ Range(f) = {l[n] : n \in 0 + 1 .. 0 + Len(f)}
  <2>1. 0 \in Nat /\ 0 + Len(f) <= Len(l)
    BY <1>1, <1>3 DEF len
  <2> QED
    BY <1>3, <2>1, SliceOfList
<1>6. Range(t) = Range(l) \ {l[1]}
  <2>1. 1 + 1 .. 1 + Len(t) = (1 .. len) \ {1}
    BY <1>1, <1>2
  <2> QED
    BY <1>1, <1>4, <2>1
<1>7. Range(f) = Range(l) \ {l[len]}
  <2>1. 0 + 1 .. 0 + Len(f) = (1 .. len) \ {len}
    BY <1>1, <1>3
  <2> QED
    BY <1>1, <1>5, <2>1
<1> QED
  BY <1>1, <1>2, <1>3, <1>4, <1>5, <1>6, <1>7 DEF t, f

(* A list with another element at place p.                                 *)
LEMMA ListReplaced ==
  ASSUME NEW l, IsList(l), NEW p \in DOMAIN l, NEW el \in Ids, el \notin Range(l) \ {l[p]}
  PROVE  /\ IsList([l EXCEPT ![p] = el])
         /\ Range([l EXCEPT ![p] = el]) = (Range(l) \ {l[p]}) \cup {el}
<1> DEFINE s == [l EXCEPT ![p] = el]
<1>1. /\ l \in Seq(Ids) /\ DOMAIN l = 1 .. Len(l) /\ Range(l) = {l[n] : n \in 1 .. Len(l)}
      /\ \A m, n \in 1 .. Len(l) : l[m] = l[n] => m = n
  BY ListFacts DEF IsList
<1>2. /\ s \in Seq(Ids) /\ Len(s) = Len(l) /\ DOMAIN s = 1 .. Len(l)
      /\ \A n \in 1 .. Len(l) : s[n] = IF n = p THEN el ELSE l[n]
  BY <1>1
<1> HIDE DEF s
<1>3. Range(s) = {s[n] : n \in 1 .. Len(l)}
  BY <1>2 DEF Range
<1>4. \A n \in 1 .. Len(l) : n # p => l[n] \in Range(l) \ {l[p]}
  BY <1>1
<1>5. IsList(s)
  BY <1>1, <1>2, <1>4 DEF IsList
<1>6. Range(s) = (Range(l) \ {l[p]}) \cup {el}
  BY <1>1, <1>2, <1>3
<1> QED
  BY <1>5, <1>6 DEF s

(* The offsets that LRANGE and LTRIM work with.                            *)
LEMMA RangeOffsets ==
  ASSUME NEW start \in Int, NEW end \in Int, NEW llen \in Nat
  PROVE  /\ Normalised(start, llen) \in Nat /\ Normalised(end, llen) \in Nat
         /\ ~ EmptyRange(start, end, llen) =>
              /\ LastIndex(end, llen) \in Nat /\ LastIndex(end, llen) < llen
              /\ Normalised(start, llen) <= LastIndex(end, llen)
<1>1. Normalised(start, llen) \in Nat /\ Normalised(end, llen) \in Nat
  BY DEF Normalised
<1> QED
  BY <1>1 DEF EmptyRange, LastIndex

(* They give the same part of the list.                                    *)
LEMMA RangedOrTrimmed ==
  ASSUME NEW l, l \in Seq(Ids), NEW start \in Int, NEW end \in Int
  PROVE  /\ EmptyRange(start, end, Len(l)) =>
              Ranged(l, start, end) = <<>> /\ Trimmed(l, start, end) = <<>>
         /\ ~ EmptyRange(start, end, Len(l)) =>
              /\ Ranged(l, start, end)
                   = SubSeq(l, Normalised(start, Len(l)) + 1, LastIndex(end, Len(l)) + 1)
              /\ Trimmed(l, start, end)
                   = SubSeq(l, Normalised(start, Len(l)) + 1, LastIndex(end, Len(l)) + 1)
<1>1. Len(l) \in Nat
  OBVIOUS
<1>2. ASSUME EmptyRange(start, end, Len(l))
      PROVE  Ranged(l, start, end) = <<>> /\ Trimmed(l, start, end) = <<>>
  <2>1. Ranged(l, start, end) = <<>>
    BY <1>2 DEF Ranged
  <2>2. Trimmed(l, start, end) = SubSeq(l, Len(l) + 1, Len(l) - 0)
    BY <1>2 DEF Trimmed
  <2>3. Len(l) + 1 \in Int /\ Len(l) - 0 \in Int /\ Len(l) - 0 < Len(l) + 1
    BY <1>1
  <2>4. SubSeq(l, Len(l) + 1, Len(l) - 0) = <<>>
    BY <2>3, SubSeqEmpty
  <2> QED
    BY <2>1, <2>2, <2>4
<1>3. ASSUME ~ EmptyRange(start, end, Len(l))
      PROVE  /\ Ranged(l, start, end)
                  = SubSeq(l, Normalised(start, Len(l)) + 1, LastIndex(end, Len(l)) + 1)
             /\ Trimmed(l, start, end)
                  = SubSeq(l, Normalised(start, Len(l)) + 1, LastIndex(end, Len(l)) + 1)
  <2>1. PICK a \in Nat, b \in Nat, n \in Nat :
          a = Normalised(start, Len(l)) /\ b = LastIndex(end, Len(l)) /\ n = Len(l)
    BY <1>1, <1>3, RangeOffsets
  <2>2. a + (b - a + 1) = b + 1 /\ n - (n - b - 1) = b + 1
    OBVIOUS
  <2>3. Ranged(l, start, end) = SubSeq(l, a + 1, a + (b - a + 1))
    BY <1>3, <2>1 DEF Ranged
  <2>4. Trimmed(l, start, end) = SubSeq(l, a + 1, n - (n - b - 1))
    BY <1>3, <2>1 DEF Trimmed
  <2> QED
    BY <2>1, <2>2, <2>3, <2>4
<1> QED
  BY <1>2, <1>3

(* The elements of a range that is not empty.                              *)
LEMMA RangeElements ==
  ASSUME NEW l, l \in Seq(Ids), NEW start \in Int, NEW end \in Int,
         ~ EmptyRange(start, end, Len(l)), NEW part, part \in {Ranged(l, start, end), Trimmed(l, start, end)}
  PROVE  /\ part \in Seq(Ids)
         /\ Len(part) = LastIndex(end, Len(l)) - Normalised(start, Len(l)) + 1
         /\ \A n \in 1 .. Len(part) : part[n] = l[n + Normalised(start, Len(l))]
<1>1. PICK a \in Nat, b \in Nat, n \in Nat :
        /\ a = Normalised(start, Len(l)) /\ b = LastIndex(end, Len(l)) /\ n = Len(l)
        /\ a <= b /\ b < n /\ part = SubSeq(l, a + 1, b + 1)
  <2>1. Len(l) \in Nat
    OBVIOUS
  <2>2. /\ Normalised(start, Len(l)) \in Nat
        /\ LastIndex(end, Len(l)) \in Nat /\ LastIndex(end, Len(l)) < Len(l)
        /\ Normalised(start, Len(l)) <= LastIndex(end, Len(l))
    BY <2>1, RangeOffsets
  <2>3. part = SubSeq(l, Normalised(start, Len(l)) + 1, LastIndex(end, Len(l)) + 1)
    BY RangedOrTrimmed
  <2> QED
    BY <2>1, <2>2, <2>3
<1>2. a + 1 \in Int /\ b + 1 \in Int /\ \A i \in a + 1 .. b + 1 : i \in 1 .. n
  BY ONLY SMTT(40), <1>1
<1>3. \A i \in a + 1 .. b + 1 : l[i] \in Ids
  BY <1>1, <1>2
<1>4. /\ SubSeq(l, a + 1, b + 1) \in Seq(Ids)
      /\ Len(SubSeq(l, a + 1, b + 1)) = IF a + 1 <= b + 1 THEN b + 1 - (a + 1) + 1 ELSE 0
      /\ \A i \in 1 .. b + 1 - (a + 1) + 1 : SubSeq(l, a + 1, b + 1)[i] = l[a + 1 + i - 1]
  BY <1>2, <1>3, SubSeqProperties
<1>5. a + 1 <= b + 1 /\ b + 1 - (a + 1) + 1 = b - a + 1
  <2>1. a <= b
    BY <1>1
  <2> QED
    BY ONLY <2>1, a \in Nat, b \in Nat
<1>6. \A i \in 1 .. b - a + 1 : a + 1 + i - 1 = i + a
  OBVIOUS
<1> QED
  BY ONLY ZenonT(60), <1>1, <1>4, <1>5, <1>6

(* LRANGE and LTRIM yield lists of elements of the list.                   *)
LEMMA RangeIsSlice ==
  ASSUME NEW l, IsList(l), NEW start \in Int, NEW end \in Int
  PROVE  /\ IsList(Ranged(l, start, end)) /\ Range(Ranged(l, start, end)) \subseteq Range(l)
         /\ IsList(Trimmed(l, start, end)) /\ Range(Trimmed(l, start, end)) \subseteq Range(l)
<1>1. l \in Seq(Ids) /\ Len(l) \in Nat
  BY ListFacts
<1>2. CASE EmptyRange(start, end, Len(l))
  <2>1. IsList(<<>>) /\ Range(<<>>) \subseteq Range(l)
    BY DEF IsList, Range
  <2> QED
    BY <1>1, <1>2, <2>1, RangedOrTrimmed
<1>3. ASSUME ~ EmptyRange(start, end, Len(l)),
             NEW part, part \in {Ranged(l, start, end), Trimmed(l, start, end)}
      PROVE  IsList(part) /\ Range(part) \subseteq Range(l)
  <2>1. PICK a \in Nat, b \in Nat, n \in Nat :
          /\ a = Normalised(start, Len(l)) /\ b = LastIndex(end, Len(l)) /\ n = Len(l)
          /\ a <= b /\ b < n
    BY <1>1, <1>3, RangeOffsets
  <2>2. /\ part \in Seq(Ids) /\ Len(part) = b - a + 1
        /\ \A i \in 1 .. Len(part) : part[i] = l[i + a]
    BY ONLY SMTT(40), <1>1, <1>3, <2>1, RangeElements
  <2>3. a + Len(part) <= Len(l)
    BY <2>1, <2>2
  <2> QED
    BY <2>2, <2>3, SliceOfList
<1> QED
  BY <1>2, <1>3

-----------------------------------------------------------------------------
(* Commands on lists                                                       *)

(* The container o of heap h gets the members M, as p.                     *)
LEMMA SetPtrSound ==
  ASSUME NEW h, NEW d, NEW r, NEW x, Sound(h, d, r, x), NEW o \in Ids, h[o].type \in Containers,
         NEW p, NEW M,
         h[o].type = "list" => IsList(p) /\ M = Range(p),
         h[o].type = "set" => p \in SUBSET Ids /\ M = p,
         \A m \in M \ Members(h[o]) : h[m].type = "string" /\ x[m] >= 1,
         NEW y, \A i \in Ids : y[i] = x[i] + (IF i \in Members(h[o]) \ M THEN 1 ELSE 0)
                                           - (IF i \in M \ Members(h[o]) THEN 1 ELSE 0)
  PROVE  Sound([h EXCEPT ![o].ptr = p], d, r, y)
<1> DEFINE g == [h EXCEPT ![o].ptr = p]
<1>1. h = [i \in Ids |-> h[i]] /\ Object(h[o]) /\ \A i \in Ids : x[i] \in Nat
  BY DEF Sound, HeapType, Balanced
<1>2. /\ g = [i \in Ids |-> g[i]] /\ \A i \in Ids \ {o} : g[i] = h[i]
      /\ g[o] = [type |-> h[o].type, ptr |-> p, refcount |-> h[o].refcount]
  <2>1. h[o] = [type |-> h[o].type, ptr |-> h[o].ptr, refcount |-> h[o].refcount]
    BY <1>1 DEF Object
  <2>2. g = [i \in Ids |-> IF i = o THEN [h[o] EXCEPT !.ptr = p] ELSE h[i]]
    BY <1>1
  <2>3. [h[o] EXCEPT !.ptr = p] = [type |-> h[o].type, ptr |-> p, refcount |-> h[o].refcount]
    BY <2>1
  <2> HIDE DEF g
  <2> QED
    BY <2>2, <2>3
<1> HIDE DEF g
<1>3. g[o].type = h[o].type /\ g[o].ptr = p /\ g[o].refcount = h[o].refcount
  BY <1>2
<1>4. Members(g[o]) = M
  BY <1>3 DEF Members, Containers
<1>5. Object(g[o])
  BY <1>1, <1>2, <1>3 DEF Object, Containers, Types
<1>6. \A i \in Ids : y[i] = x[i] + Has(h, o, i) - Has(g, o, i)
  BY <1>1, <1>4 DEF Has
<1>7. \A m \in Members(g[o]) \ Members(h[o]) : h[m].type = "string" /\ x[m] >= 1
  BY <1>4
<1>8. g[o].type \in Containers /\ g[o].refcount = h[o].refcount /\ \A i \in Ids \ {o} : g[i] = h[i]
  BY <1>2, <1>3
<1>9. g = [i \in Ids |-> g[i]]
  BY <1>2
<1>10. Sound(g, d, r, y)
  BY <1>5, <1>6, <1>7, <1>8, <1>9, SetContainerSound
<1> QED
  BY <1>10 DEF g

(* A list that a client finds at a key.                                    *)
LEMMA FoundList ==
  ASSUME Inv, NEW c \in Clients, NEW k \in Keys, Holds(c, k, "list")
  PROVE  /\ Entry(c, k) \in Ids /\ heap[Entry(c, k)].type = "list"
         /\ Value(c, k) = heap[Entry(c, k)].ptr /\ IsList(Value(c, k))
         /\ Members(heap[Entry(c, k)]) = Range(Value(c, k))
         /\ Range(Value(c, k)) \in SUBSET Ids
         /\ \A m \in Range(Value(c, k)) : /\ heap[m].type = "string" /\ heap[m].ptr \in Strings
                                          /\ m # Entry(c, k)
<1>1. Entry(c, k) \in Ids /\ heap[Entry(c, k)].type = "list" /\ Object(heap[Entry(c, k)])
  BY KeyFacts DEF Holds
<1>2. Value(c, k) = heap[Entry(c, k)].ptr /\ IsList(Value(c, k))
  BY <1>1 DEF Object, Value
<1>3. Members(heap[Entry(c, k)]) = Range(Value(c, k))
  BY <1>1, <1>2 DEF Members
<1>4. /\ Range(Value(c, k)) \in SUBSET Ids
      /\ \A m \in Range(Value(c, k)) : heap[m].type = "string" /\ heap[m].ptr \in Strings
  BY <1>3, KeyFacts DEF Holds
<1> QED
  BY <1>1, <1>2, <1>3, <1>4

(* LRANGE queues elements that the list keeps.                             *)
LEMMA LRangeSound ==
  ASSUME Inv, NEW c \in Clients, NEW k \in Keys, NEW start \in Int, NEW end \in Int,
         LRangeCommand(c, k, start, end)
  PROVE  Sound(heap', dict', reply', Nothing)
<1> DEFINE l == Value(c, k)
           os == Ranged(l, start, end)
<1>1. Sound(heap, dict, reply, Nothing) /\ Holds(c, k, "list")
  BY DEF Inv, LRangeCommand
<1>2. IsList(l) /\ \A m \in Range(l) : heap[m].type = "string"
  BY <1>1, FoundList
<1>3. IsList(os) /\ Range(os) \subseteq Range(l)
  BY <1>2, RangeIsSlice
<1>4. os \in Seq(Ids) /\ \A n \in 1 .. Len(os) : os[n] \in Range(os)
  BY <1>3, ListFacts
<1>5. /\ heap' = Retain(heap, os) /\ dict' = dict
      /\ reply' = [reply EXCEPT ![c] = @ \o Queue(heap, os)]
  BY DEF LRangeCommand, NoChange, AddReply
<1> HIDE DEF os, l
<1>6. \A n \in 1 .. Len(os) : heap[os[n]].type = "string"
  BY <1>2, <1>3, <1>4
<1>7. \A n \in 1 .. Len(os) : heap[os[n]].ptr = heap[os[n]].ptr
  OBVIOUS
<1>8. Sound(Retain(heap, os), dict, [reply EXCEPT ![c] = @ \o Queue(heap, os)], Nothing)
  BY <1>1, <1>4, <1>6, <1>7, AddReplySound
<1> QED
  BY <1>5, <1>8

(* LINDEX queues an element that the list keeps.                           *)
LEMMA LIndexSound ==
  ASSUME Inv, NEW c \in Clients, NEW k \in Keys, NEW index \in Int, LIndexCommand(c, k, index)
  PROVE  Sound(heap', dict', reply', Nothing)
<1> DEFINE l == Value(c, k)
           el == l[Position(l, index)]
           os == <<el>>
<1>1. Sound(heap, dict, reply, Nothing) /\ Holds(c, k, "list") /\ Position(l, index) \in DOMAIN l
  BY DEF Inv, LIndexCommand
<1>2. IsList(l) /\ \A m \in Range(l) : heap[m].type = "string"
  BY <1>1, FoundList
<1>3. el \in Ids /\ el \in Range(l)
  BY <1>1, <1>2, ListFacts
<1>4. /\ heap' = Retain(heap, os) /\ dict' = dict
      /\ reply' = [reply EXCEPT ![c] = @ \o Queue(heap, os)]
  BY DEF LIndexCommand, NoChange, AddReply
<1> HIDE DEF el, l
<1>5. os \in Seq(Ids) /\ \A n \in 1 .. Len(os) : heap[os[n]].type = "string"
  BY <1>2, <1>3
<1>6. \A n \in 1 .. Len(os) : heap[os[n]].ptr = heap[os[n]].ptr
  OBVIOUS
<1> HIDE DEF os
<1>7. Sound(Retain(heap, os), dict, [reply EXCEPT ![c] = @ \o Queue(heap, os)], Nothing)
  BY <1>1, <1>5, <1>6, AddReplySound
<1> QED
  BY <1>4, <1>7

(* LPUSH, RPUSH: a new list, no list, or one element more.                 *)
LEMMA PushSound ==
  ASSUME Inv, NEW c \in Clients, NEW k \in Keys, NEW v \in Strings, NEW where,
         PushGenericCommand(c, k, v, where)
  PROVE  Sound(heap', dict', reply', Nothing)
<1> DEFINE s == selected[c]
           e == Entry(c, k)
<1>1. /\ Sound(heap, dict, reply, Nothing) /\ s \in Dbs /\ e = dict[s][k] /\ reply' = reply
      /\ Found(c, k) <=> e \in Ids
  BY KeyFacts DEF Inv, PushGenericCommand
<1>2. PICK el \in Fresh(heap) :
        LET h == Create(heap, el, "string", v) IN
        \/ /\ ~ Found(c, k)
           /\ \E o \in Fresh(h) :
                heap' = Create(h, o, "list", <<el>>) /\ SetEntry(c, k, o)
        \/ /\ Found(c, k) /\ ~ Holds(c, k, "list")
           /\ heap' = DecrRefCount(h, el)
           /\ UNCHANGED <<dict, dirty>>
        \/ /\ Holds(c, k, "list")
           /\ heap' = [h EXCEPT ![e].ptr = AtEnd(@, el, where)]
           /\ dict' = dict
  BY DEF PushGenericCommand
<1> DEFINE h == Create(heap, el, "string", v)
<1>3. /\ Sound(h, dict, reply, Held(el)) /\ el \in Ids /\ heap[el].type \notin Types
      /\ h[el] = [type |-> "string", ptr |-> v, refcount |-> 1]
      /\ \A i \in Ids \ {el} : h[i] = heap[i]
      /\ \A j \in Ids : el \notin Members(heap[j])
  BY <1>1, CreateString
<1> HIDE DEF h
<1>4. h = [i \in Ids |-> h[i]]
  BY <1>3 DEF Sound, HeapType
<1>5. ASSUME ~ Found(c, k), NEW o \in Fresh(h), heap' = Create(h, o, "list", <<el>>),
             SetEntry(c, k, o)
      PROVE  Sound(heap', dict', reply', Nothing)
  <2>1. o \in Ids /\ h[o].type \notin Types
    BY <1>5, FreshIsFree
  <2> DEFINE g == Create(h, o, "list", <<el>>)
  <2>2. /\ g = [i \in Ids |-> g[i]] /\ \A i \in Ids \ {o} : g[i] = h[i]
        /\ g[o] = [type |-> "list", ptr |-> <<el>>, refcount |-> 1]
    BY <1>4, <2>1 DEF Create
  <2> HIDE DEF g
  <2>3. IsList(<<el>>) /\ Range(<<el>>) = {el}
    BY <1>3 DEF IsList, Range
  <2>4. Object(g[o]) /\ Members(g[o]) = {el} /\ g[o].refcount = 1
    BY <2>2, <2>3 DEF Object, Members, Types, Containers
  <2>5. \A m \in Members(g[o]) : h[m].type = "string" /\ Held(el)[m] >= 1
    BY <1>3, <2>4 DEF Held
  <2>6. \A i \in Ids : Held(o)[i] = Held(el)[i] + (IF i = o THEN 1 ELSE 0) - Has(g, o, i)
    BY <2>4 DEF Held, Has
  <2>7. g = [i \in Ids |-> g[i]] /\ \A i \in Ids \ {o} : g[i] = h[i]
    BY <2>2
  <2>8. Object(g[o]) /\ g[o].refcount = 1
    BY <2>4
  <2>9. Sound(g, dict, reply, Held(o))
    BY <1>3, <2>1, <2>5, <2>6, <2>7, <2>8, CreateSound
  <2>10. Sound(g, [dict EXCEPT ![s][k] = o], reply, Nothing)
    BY <1>1, <1>5, <2>1, <2>9, StoreHeld
  <2> QED
    BY <1>1, <1>5, <2>10 DEF g, SetEntry
<1>6. CASE heap' = DecrRefCount(h, el) /\ dict' = dict
  BY <1>1, <1>3, <1>6, DecrHeld
<1>7. CASE Holds(c, k, "list") /\ heap' = [h EXCEPT ![e].ptr = AtEnd(@, el, where)] /\ dict' = dict
  <2> DEFINE l == Value(c, k)
             p == AtEnd(l, el, where)
             M == Range(l) \cup {el}
  <2>1. /\ e \in Ids /\ heap[e].type = "list" /\ l = heap[e].ptr /\ IsList(l)
        /\ Members(heap[e]) = Range(l)
    BY <1>7, FoundList
  <2>2. e # el /\ h[e] = heap[e] /\ el \notin Range(l)
    BY <1>3, <2>1 DEF Types, Containers
  <2>3. IsList(p) /\ Range(p) = M
    BY <1>3, <2>1, <2>2, ListEnds
  <2>4. [h EXCEPT ![e].ptr = AtEnd(@, el, where)] = [h EXCEPT ![e].ptr = p]
    BY <2>1, <2>2
  <2>5. Members(h[e]) = Range(l) /\ h[e].type = "list"
    BY <2>1, <2>2
  <2>6. h[e].type \in Containers
    BY <2>5 DEF Containers
  <2>7. \A m \in M \ Members(h[e]) : h[m].type = "string" /\ Held(el)[m] >= 1
    BY <1>3, <2>5 DEF Held
  <2>8. \A i \in Ids : Nothing[i] = Held(el)[i] + (IF i \in Members(h[e]) \ M THEN 1 ELSE 0)
                                      - (IF i \in M \ Members(h[e]) THEN 1 ELSE 0)
    BY <2>2, <2>5 DEF Held, Nothing
  <2>9. /\ h[e].type = "list" => IsList(p) /\ M = Range(p)
        /\ h[e].type = "set" => p \in SUBSET Ids /\ M = p
    BY <2>3, <2>5
  <2> HIDE DEF p, M, e, l
  <2>10. Sound([h EXCEPT ![e].ptr = p], dict, reply, Nothing)
    BY <1>3, <2>1, <2>6, <2>7, <2>8, <2>9, SetPtrSound
  <2> QED
    BY <1>1, <1>7, <2>4, <2>10
<1> QED
  BY <1>2, <1>5, <1>6, <1>7 DEF h

(* The element has two references more than places while it is queued.     *)
LEMMA PopSound ==
  ASSUME Inv, NEW c \in Clients, NEW k \in Keys, NEW where, PopGenericCommand(c, k, where)
  PROVE  Sound(heap', dict', reply', Nothing)
<1> DEFINE e == Entry(c, k)
           l == Value(c, k)
           el == IF where = "head" THEN Head(l) ELSE Last(l)
           rest == IF where = "head" THEN Tail(l) ELSE Front(l)
           os == <<el>>
           h == Retain(heap, os)
           q == [reply EXCEPT ![c] = @ \o Queue(heap, os)]
<1>1. Sound(heap, dict, reply, Nothing) /\ Holds(c, k, "list") /\ l # <<>>
  BY DEF Inv, PopGenericCommand
<1>2. /\ heap' = DecrRefCount([h EXCEPT ![e].ptr = rest], el)
      /\ reply' = q /\ dict' = dict
  BY DEF PopGenericCommand, AddReply
<1>3. /\ e \in Ids /\ heap[e].type = "list" /\ l = heap[e].ptr /\ IsList(l)
      /\ Members(heap[e]) = Range(l) /\ \A m \in Range(l) : heap[m].type = "string"
      /\ Range(l) \in SUBSET Ids
  BY <1>1, FoundList
<1>4. el \in Range(l) /\ IsList(rest) /\ Range(rest) = Range(l) \ {el}
  BY <1>1, <1>3, ListRest
<1> HIDE DEF el, rest, l, e
<1>5. el \in Ids
  BY <1>3, <1>4
<1>6. Sound(h, dict, q, Nothing)
  <2>1. os \in Seq(Ids) /\ \A n \in 1 .. Len(os) : heap[os[n]].type = "string"
    BY <1>3, <1>4, <1>5
  <2>2. \A n \in 1 .. Len(os) : heap[os[n]].ptr = heap[os[n]].ptr
    OBVIOUS
  <2> HIDE DEF os
  <2>3. Sound(Retain(heap, os), dict, [reply EXCEPT ![c] = @ \o Queue(heap, os)], Nothing)
    BY <1>1, <2>1, <2>2, AddReplySound
  <2> QED
    BY <2>3
<1>7. h[e].type = "list" /\ Members(h[e]) = Range(l)
  <2>1. h[e] = [heap[e] EXCEPT !.refcount = @ + Occurrences(os, e)]
    BY <1>3 DEF Retain
  <2>2. Object(heap[e])
    BY <1>1, <1>3 DEF Sound, HeapType
  <2>3. h[e].type = heap[e].type /\ h[e].ptr = heap[e].ptr
    BY <2>1, <2>2 DEF Object
  <2> HIDE DEF h
  <2> QED
    BY <1>3, <2>3 DEF Members
<1> HIDE DEF h, q
<1>8. Sound([h EXCEPT ![e].ptr = rest], dict, q, Held(el))
  <2> DEFINE M == Range(rest)
  <2>1. /\ h[e].type \in Containers
        /\ h[e].type = "list" => IsList(rest) /\ M = Range(rest)
        /\ h[e].type = "set" => rest \in SUBSET Ids /\ M = rest
    BY <1>4, <1>7 DEF Containers
  <2>2. \A m \in M \ Members(h[e]) : h[m].type = "string" /\ Nothing[m] >= 1
    BY <1>4, <1>7
  <2>3. \A i \in Ids : Held(el)[i] = Nothing[i] + (IF i \in Members(h[e]) \ M THEN 1 ELSE 0)
                                       - (IF i \in M \ Members(h[e]) THEN 1 ELSE 0)
    BY <1>4, <1>7 DEF Held, Nothing
  <2> HIDE DEF M
  <2> QED
    BY <1>3, <1>6, <2>1, <2>2, <2>3, SetPtrSound
<1> QED
  BY <1>2, <1>5, <1>8, DecrHeld

(* LTRIM: what leaves the list is given up.                                *)
LEMMA LTrimSound ==
  ASSUME Inv, NEW c \in Clients, NEW k \in Keys, NEW start \in Int, NEW end \in Int,
         LTrimCommand(c, k, start, end)
  PROVE  Sound(heap', dict', reply', Nothing)
<1> DEFINE e == Entry(c, k)
           l == Value(c, k)
           kept == Trimmed(l, start, end)
           gone == Range(l) \ Range(kept)
           h == [heap EXCEPT ![e].ptr = kept]
           x == [i \in Ids |-> IF i \in gone THEN 1 ELSE 0]
<1>1. Sound(heap, dict, reply, Nothing) /\ Holds(c, k, "list")
  BY DEF Inv, LTrimCommand
<1>2. heap' = DecrAll(h, gone) /\ dict' = dict /\ reply' = reply
  BY DEF LTrimCommand
<1>3. /\ e \in Ids /\ heap[e].type = "list" /\ l = heap[e].ptr /\ IsList(l)
      /\ Members(heap[e]) = Range(l) /\ \A m \in Range(l) : heap[m].type = "string" /\ m # e
      /\ Range(l) \in SUBSET Ids
  BY <1>1, FoundList
<1>4. IsList(kept) /\ Range(kept) \subseteq Range(l)
  BY <1>3, RangeIsSlice
<1> HIDE DEF kept, l, e
<1>5. Sound(h, dict, reply, x)
  <2> DEFINE M == Range(kept)
  <2>1. /\ heap[e].type \in Containers
        /\ heap[e].type = "list" => IsList(kept) /\ M = Range(kept)
        /\ heap[e].type = "set" => kept \in SUBSET Ids /\ M = kept
    BY <1>3, <1>4 DEF Containers
  <2>2. \A m \in M \ Members(heap[e]) : heap[m].type = "string" /\ Nothing[m] >= 1
    BY <1>3, <1>4
  <2>3. \A i \in Ids : x[i] = Nothing[i] + (IF i \in Members(heap[e]) \ M THEN 1 ELSE 0)
                                       - (IF i \in M \ Members(heap[e]) THEN 1 ELSE 0)
    BY <1>3, <1>4 DEF Nothing
  <2> HIDE DEF M, x
  <2> QED
    BY <1>1, <1>3, <2>1, <2>2, <2>3, SetPtrSound
<1>6. Sound(DecrAll(h, gone), dict, reply, Nothing)
  <2>1. gone \in SUBSET Ids
    BY <1>3
  <2>2. \A o \in gone : x[o] >= 1 /\ (h[o].refcount = 1 => Members(h[o]) = {})
    <3> SUFFICES ASSUME NEW o \in gone PROVE x[o] >= 1 /\ Members(h[o]) = {}
      OBVIOUS
    <3>1. o \in Ids /\ heap[o].type = "string" /\ o # e /\ x[o] = 1
      BY <1>3
    <3>2. h[o] = heap[o]
      BY <1>1, <3>1 DEF Sound, HeapType
    <3> QED
      BY <3>1, <3>2 DEF Members
  <2>3. \A i \in Ids : Nothing[i] = x[i] - (IF i \in gone THEN 1 ELSE 0)
    BY DEF Nothing
  <2> HIDE DEF gone, x, h
  <2> QED
    BY <1>5, <2>1, <2>2, <2>3, DropSound
<1> QED
  BY <1>2, <1>6

(* Between the old element and the new one the list is taken for a set.    *)
LEMMA LSetSound ==
  ASSUME Inv, NEW c \in Clients, NEW k \in Keys, NEW index \in Int, NEW v \in Strings,
         LSetCommand(c, k, index, v)
  PROVE  Sound(heap', dict', reply', Nothing)
<1> DEFINE e == Entry(c, k)
           l == Value(c, k)
           p == Position(l, index)
           old == l[p]
           h == DecrRefCount(heap, old)
           E == [type |-> "set", ptr |-> Range(l) \ {old}, refcount |-> heap[e].refcount]
           g1 == [i \in Ids |-> IF i = e THEN E ELSE heap[i]]
           g2 == DecrRefCount(g1, old)
<1>1. Sound(heap, dict, reply, Nothing) /\ Holds(c, k, "list") /\ p \in DOMAIN l
  BY DEF Inv, LSetCommand
<1>2. PICK el \in Fresh(h) :
        heap' = [Create(h, el, "string", v) EXCEPT ![e].ptr = [l EXCEPT ![p] = el]]
  BY DEF LSetCommand
<1>3. dict' = dict /\ reply' = reply
  BY DEF LSetCommand
<1>4. /\ e \in Ids /\ heap[e].type = "list" /\ l = heap[e].ptr /\ IsList(l)
      /\ Members(heap[e]) = Range(l) /\ \A m \in Range(l) : heap[m].type = "string" /\ m # e
      /\ Range(l) \in SUBSET Ids
  BY <1>1, FoundList
<1>5. old \in Range(l) /\ old \in Ids
  BY <1>1, <1>4, ListFacts
<1>6. /\ Object(heap[e]) /\ heap = [i \in Ids |-> heap[i]] /\ heap[e].refcount \in Nat \ {0}
      /\ heap[e] = [type |-> "list", ptr |-> l, refcount |-> heap[e].refcount]
  <2>1. Object(heap[e]) /\ heap = [i \in Ids |-> heap[i]]
    BY <1>1, <1>4 DEF Sound, HeapType
  <2> QED
    BY <1>4, <2>1 DEF Object, Types, Containers
<1> HIDE DEF e, l, p
<1>7. /\ E.type = "set" /\ Members(E) = Range(l) \ {old} /\ E.refcount = heap[e].refcount
      /\ Object(E)
  <2>1. E.type = "set" /\ E.ptr = Range(l) \ {old} /\ E.refcount = heap[e].refcount
    OBVIOUS
  <2>2. E = [type |-> E.type, ptr |-> E.ptr, refcount |-> E.refcount]
    OBVIOUS
  <2> HIDE DEF E
  <2> QED
    BY <1>4, <1>6, <2>1, <2>2 DEF Members, Object, Types, Containers
<1> HIDE DEF E, old
<1>8. /\ g1 = [i \in Ids |-> g1[i]] /\ g1[e] = E /\ \A i \in Ids \ {e} : g1[i] = heap[i]
      /\ g1[old] = heap[old] /\ heap[old].type = "string"
  BY <1>4, <1>5
<1> HIDE DEF g1
<1>9. Sound(g1, dict, reply, Held(old))
  <2>1. /\ heap[e].type \in Containers /\ g1[e].type \in Containers
        /\ Object(g1[e]) /\ g1[e].refcount = heap[e].refcount
    BY <1>4, <1>7, <1>8 DEF Containers
  <2>2. \A m \in Members(g1[e]) \ Members(heap[e]) : heap[m].type = "string" /\ Nothing[m] >= 1
    BY <1>4, <1>7, <1>8
  <2>3. \A i \in Ids : Held(old)[i] = Nothing[i] + Has(heap, e, i) - Has(g1, e, i)
    BY <1>4, <1>5, <1>7, <1>8 DEF Held, Nothing, Has
  <2>4. g1 = [i \in Ids |-> g1[i]] /\ \A i \in Ids \ {e} : g1[i] = heap[i]
    BY <1>8
  <2> QED
    BY <1>1, <1>4, <2>1, <2>2, <2>3, <2>4, SetContainerSound
<1>10. Sound(g2, dict, reply, Nothing)
  BY <1>5, <1>9, DecrHeld
<1>11. /\ h[e] = heap[e] /\ g2[e] = E /\ \A i \in Ids \ {e} : g2[i] = h[i]
       /\ h = [i \in Ids |-> h[i]]
  <2>1. Members(heap[old]) = {} /\ Members(g1[old]) = {} /\ e # old
    BY <1>4, <1>8 DEF Members
  <2>2. h = DecrAll(heap, {old}) /\ g2 = DecrAll(g1, {old})
    BY <2>1 DEF DecrRefCount
  <2> HIDE DEF h, g2
  <2> QED
    BY <1>4, <1>8, <2>1, <2>2 DEF DecrAll
<1> HIDE DEF h, g2
<1>12. el \in Fresh(g2)
  <2>1. ASSUME NEW i \in Ids
        PROVE  (g2[i] = Pooled <=> h[i] = Pooled) /\ (g2[i] = Unallocated <=> h[i] = Unallocated)
    <3>1. CASE i = e
      <4>1. g2[i].type = "set" /\ h[i].type = "list"
        BY <1>4, <1>7, <1>11, <3>1
      <4>2. Pooled.type = "pooled" /\ Unallocated.type = "unallocated"
        BY DEF Pooled, Unallocated
      <4> QED
        BY <4>1, <4>2
    <3>2. CASE i # e
      BY <1>11, <3>2
    <3> QED
      BY <3>1, <3>2
  <2>2. /\ {i \in Ids : g2[i] = Pooled} = {i \in Ids : h[i] = Pooled}
        /\ {i \in Ids : g2[i] = Unallocated} = {i \in Ids : h[i] = Unallocated}
    BY <2>1
  <2>3. Fresh(g2) = Fresh(h)
    BY <2>2 DEF Fresh
  <2> QED
    BY <2>3
<1> DEFINE g3 == Create(g2, el, "string", v)
           s == [l EXCEPT ![p] = el]
           g4 == [Create(h, el, "string", v) EXCEPT ![e].ptr = s]
<1>13. /\ Sound(g3, dict, reply, Held(el)) /\ el \in Ids /\ g2[el].type \notin Types
       /\ g3[el] = [type |-> "string", ptr |-> v, refcount |-> 1]
       /\ \A i \in Ids \ {el} : g3[i] = g2[i]
       /\ \A j \in Ids : el \notin Members(g2[j])
  BY <1>10, <1>12, CreateString
<1>14. e # el /\ el \notin Range(l) \ {old}
  BY <1>4, <1>7, <1>11, <1>13 DEF Types, Containers
<1>15. IsList(s) /\ Range(s) = (Range(l) \ {old}) \cup {el}
  BY <1>1, <1>4, <1>13, <1>14, ListReplaced DEF old
<1> HIDE DEF s
<1>16. /\ g4 = [i \in Ids |-> g4[i]] /\ \A i \in Ids \ {e} : g4[i] = g3[i]
       /\ g4[e] = [type |-> "list", ptr |-> s, refcount |-> heap[e].refcount]
  <2> DEFINE g == Create(h, el, "string", v)
  <2>1. /\ g = [i \in Ids |-> g[i]] /\ g[e] = heap[e]
        /\ g[el] = [type |-> "string", ptr |-> v, refcount |-> 1]
        /\ \A i \in Ids \ {el} : g[i] = h[i]
    BY <1>4, <1>11, <1>13, <1>14 DEF Create
  <2> HIDE DEF g
  <2>2. g4 = [i \in Ids |-> IF i = e THEN [heap[e] EXCEPT !.ptr = s] ELSE g[i]]
    BY <1>4, <2>1 DEF g
  <2>3. [heap[e] EXCEPT !.ptr = s] = [type |-> "list", ptr |-> s, refcount |-> heap[e].refcount]
    BY <1>6
  <2> HIDE DEF g3, g4
  <2> QED
    BY <1>4, <1>11, <1>13, <2>1, <2>2, <2>3
<1> HIDE DEF g3, g4
<1>17. Sound(g4, dict, reply, Nothing)
  <2>1. g3[e].type = "set" /\ Members(g3[e]) = Range(l) \ {old} /\ g3[e].refcount = heap[e].refcount
    BY <1>4, <1>7, <1>11, <1>13, <1>14
  <2>2. g4[e].type = "list" /\ g4[e].ptr = s /\ g4[e].refcount = heap[e].refcount
    BY <1>16
  <2>3. Members(g4[e]) = Range(s)
    BY <2>2 DEF Members
  <2>4. Object(g4[e])
    BY <1>6, <1>15, <1>16, <2>2 DEF Object, Types, Containers
  <2>5. /\ g3[e].type \in Containers /\ g4[e].type \in Containers
        /\ g4[e].refcount = g3[e].refcount
    BY <2>1, <2>2 DEF Containers
  <2>6. \A m \in Members(g4[e]) \ Members(g3[e]) : g3[m].type = "string" /\ Held(el)[m] >= 1
    BY <1>13, <1>15, <2>1, <2>3 DEF Held
  <2>7. \A i \in Ids : Nothing[i] = Held(el)[i] + Has(g3, e, i) - Has(g4, e, i)
    BY <1>14, <1>15, <2>1, <2>3 DEF Held, Nothing, Has
  <2>8. g4 = [i \in Ids |-> g4[i]] /\ \A i \in Ids \ {e} : g4[i] = g3[i]
    BY <1>16
  <2> QED
    BY <1>4, <1>13, <2>4, <2>5, <2>6, <2>7, <2>8, SetContainerSound
<1> QED
  BY <1>2, <1>3, <1>17 DEF g4, s

-----------------------------------------------------------------------------
(* Commands on sets                                                        *)

(* A set that a client finds at a key.                                     *)
LEMMA FoundSet ==
  ASSUME Inv, NEW c \in Clients, NEW k \in Keys, Holds(c, k, "set")
  PROVE  /\ Entry(c, k) \in Ids /\ heap[Entry(c, k)].type = "set"
         /\ Value(c, k) = heap[Entry(c, k)].ptr /\ Value(c, k) \in SUBSET Ids
         /\ Members(heap[Entry(c, k)]) = Value(c, k)
         /\ \A m \in Value(c, k) : heap[m].type = "string" /\ m # Entry(c, k)
<1>1. Entry(c, k) \in Ids /\ heap[Entry(c, k)].type = "set" /\ Object(heap[Entry(c, k)])
  BY KeyFacts DEF Holds
<1>2. Value(c, k) = heap[Entry(c, k)].ptr /\ Value(c, k) \in SUBSET Ids
  BY <1>1 DEF Object, Value
<1>3. Members(heap[Entry(c, k)]) = Value(c, k)
  BY <1>1, <1>2 DEF Members
<1>4. \A m \in Value(c, k) : heap[m].type = "string"
  BY <1>3, KeyFacts DEF Holds
<1> QED
  BY <1>1, <1>2, <1>3, <1>4

(* SADD: a new set, or an existing one that may have the value.            *)
LEMMA SAddSound ==
  ASSUME Inv, NEW c \in Clients, NEW k \in Keys, NEW v \in Strings, SAddCommand(c, k, v)
  PROVE  Sound(heap', dict', reply', Nothing)
<1> DEFINE s == selected[c]
           e == Entry(c, k)
<1>1. /\ Sound(heap, dict, reply, Nothing) /\ s \in Dbs /\ e = dict[s][k] /\ reply' = reply
      /\ Found(c, k) <=> e \in Ids
  BY KeyFacts DEF Inv, SAddCommand
<1>2. ASSUME ~ Found(c, k), NEW o \in Fresh(heap), NEW el \in Fresh(Create(heap, o, "set", {})),
             heap' = [Create(Create(heap, o, "set", {}), el, "string", v) EXCEPT ![o].ptr = {el}],
             SetEntry(c, k, o)
      PROVE  Sound(heap', dict', reply', Nothing)
  <2> DEFINE h == Create(heap, o, "set", {})
             d == [dict EXCEPT ![s][k] = o]
             g == Create(h, el, "string", v)
             M == {el}
  <2>1. o \in Ids /\ heap[o].type \notin Types /\ heap = [i \in Ids |-> heap[i]]
    BY <1>1, FreshIsFree DEF Sound, HeapType
  <2>2. /\ h = [i \in Ids |-> h[i]] /\ \A i \in Ids \ {o} : h[i] = heap[i]
        /\ h[o] = [type |-> "set", ptr |-> {}, refcount |-> 1]
    BY <2>1 DEF Create
  <2> HIDE DEF h
  <2>3. Object(h[o]) /\ Members(h[o]) = {} /\ h[o].refcount = 1
    BY <2>2 DEF Object, Members, Types, Containers
  <2>4. Sound(h, dict, reply, Held(o))
    <3>1. \A m \in Members(h[o]) : heap[m].type = "string" /\ Nothing[m] >= 1
      BY <2>3
    <3>2. \A i \in Ids : Held(o)[i] = Nothing[i] + (IF i = o THEN 1 ELSE 0) - Has(h, o, i)
      BY <2>3 DEF Held, Nothing, Has
    <3>3. h = [i \in Ids |-> h[i]] /\ \A i \in Ids \ {o} : h[i] = heap[i]
      BY <2>2
    <3>4. Object(h[o]) /\ h[o].refcount = 1
      BY <2>3
    <3> QED
      BY <1>1, <2>1, <3>1, <3>2, <3>3, <3>4, CreateSound
  <2>5. Sound(h, d, reply, Nothing)
    BY <1>1, <1>2, <2>1, <2>4, StoreHeld
  <2> HIDE DEF d
  <2>6. /\ Sound(g, d, reply, Held(el)) /\ el \in Ids /\ h[el].type \notin Types
        /\ g[el] = [type |-> "string", ptr |-> v, refcount |-> 1]
        /\ \A i \in Ids \ {el} : g[i] = h[i]
        /\ \A j \in Ids : el \notin Members(h[j])
    BY <1>2, <2>5, CreateString DEF h
  <2> HIDE DEF g
  <2>7. g[o].type = "set" /\ Members(g[o]) = {}
    <3>1. o # el
      BY <2>2, <2>6 DEF Types, Containers
    <3> QED
      BY <2>1, <2>2, <2>3, <2>6, <3>1
  <2>8. /\ g[o].type \in Containers
        /\ g[o].type = "list" => IsList({el}) /\ M = Range({el})
        /\ g[o].type = "set" => {el} \in SUBSET Ids /\ M = {el}
    BY <2>6, <2>7 DEF Containers
  <2>9. \A m \in M \ Members(g[o]) : g[m].type = "string" /\ Held(el)[m] >= 1
    BY <2>6 DEF Held
  <2>10. \A i \in Ids : Nothing[i] = Held(el)[i] + (IF i \in Members(g[o]) \ M THEN 1 ELSE 0)
                                       - (IF i \in M \ Members(g[o]) THEN 1 ELSE 0)
    BY <2>7 DEF Held, Nothing
  <2> HIDE DEF M
  <2>11. Sound([g EXCEPT ![o].ptr = {el}], d, reply, Nothing)
    BY <2>1, <2>6, <2>8, <2>9, <2>10, SetPtrSound
  <2> QED
    BY <1>1, <1>2, <2>11 DEF g, h, d, SetEntry
<1>3. ASSUME Holds(c, k, "set"), NEW el \in Fresh(heap), dict' = dict,
             heap' \in {[Create(heap, el, "string", v) EXCEPT ![e].ptr = @ \cup {el}],
                        DecrRefCount(Create(heap, el, "string", v), el)}
      PROVE  Sound(heap', dict', reply', Nothing)
  <2> DEFINE h == Create(heap, el, "string", v)
             p == Value(c, k) \cup {el}
             M == p
  <2>1. /\ Sound(h, dict, reply, Held(el)) /\ el \in Ids /\ heap[el].type \notin Types
        /\ h[el] = [type |-> "string", ptr |-> v, refcount |-> 1]
        /\ \A i \in Ids \ {el} : h[i] = heap[i]
        /\ \A j \in Ids : el \notin Members(heap[j])
    BY <1>1, CreateString
  <2> HIDE DEF h
  <2>2. CASE heap' = DecrRefCount(h, el)
    BY <1>1, <1>3, <2>1, <2>2, DecrHeld
  <2>3. CASE heap' = [h EXCEPT ![e].ptr = @ \cup {el}]
    <3>1. /\ e \in Ids /\ heap[e].type = "set" /\ Value(c, k) = heap[e].ptr
          /\ Value(c, k) \in SUBSET Ids /\ Members(heap[e]) = Value(c, k)
      BY <1>3, FoundSet
    <3>2. e # el /\ h[e] = heap[e] /\ el \notin Value(c, k)
      BY <2>1, <3>1 DEF Types, Containers
    <3>3. [h EXCEPT ![e].ptr = @ \cup {el}] = [h EXCEPT ![e].ptr = p]
      BY <3>1, <3>2
    <3>4. /\ h[e].type \in Containers
          /\ h[e].type = "list" => IsList(p) /\ M = Range(p)
          /\ h[e].type = "set" => p \in SUBSET Ids /\ M = p
      BY <2>1, <3>1, <3>2 DEF Containers
    <3>5. \A m \in M \ Members(h[e]) : h[m].type = "string" /\ Held(el)[m] >= 1
      BY <2>1, <3>1, <3>2 DEF Held
    <3>6. \A i \in Ids : Nothing[i] = Held(el)[i] + (IF i \in Members(h[e]) \ M THEN 1 ELSE 0)
                                        - (IF i \in M \ Members(h[e]) THEN 1 ELSE 0)
      BY <3>1, <3>2 DEF Held, Nothing
    <3> HIDE DEF M, p, e
    <3>7. Sound([h EXCEPT ![e].ptr = p], dict, reply, Nothing)
      BY <2>1, <3>1, <3>4, <3>5, <3>6, SetPtrSound
    <3> QED
      <4>1. heap' = [h EXCEPT ![e].ptr = p] /\ dict' = dict /\ reply' = reply
        BY <1>1, <1>3, <2>3, <3>3
      <4> QED
        BY ONLY <3>7, <4>1
  <2> QED
    BY <1>3, <2>2, <2>3 DEF h
<1> QED
  BY <1>2, <1>3 DEF SAddCommand

(* SREM: the probe and the members that are gone are given up.             *)
LEMMA SRemSound ==
  ASSUME Inv, NEW c \in Clients, NEW k \in Keys, NEW v \in Strings, SRemCommand(c, k, v)
  PROVE  Sound(heap', dict', reply', Nothing)
<1> DEFINE e == Entry(c, k)
           old == Value(c, k)
           gone == Equal(heap, e, v)
           left == old \ gone
<1>1. Sound(heap, dict, reply, Nothing) /\ Holds(c, k, "set") /\ dict' = dict /\ reply' = reply
  BY DEF Inv, SRemCommand
<1>2. PICK probe \in Fresh(heap) :
        heap' = DecrRefCount(DecrAll([Create(heap, probe, "string", v) EXCEPT ![e].ptr = @ \ gone],
                                     gone), probe)
  BY DEF SRemCommand
<1>3. /\ e \in Ids /\ heap[e].type = "set" /\ old = heap[e].ptr /\ old \in SUBSET Ids
      /\ Members(heap[e]) = old /\ \A m \in old : heap[m].type = "string" /\ m # e
  BY <1>1, FoundSet
<1>4. gone \subseteq old
  BY <1>3 DEF Equal
<1> DEFINE h == Create(heap, probe, "string", v)
           g == [h EXCEPT ![e].ptr = left]
           x == [i \in Ids |-> IF i = probe \/ i \in gone THEN 1 ELSE 0]
<1>5. /\ Sound(h, dict, reply, Held(probe)) /\ probe \in Ids /\ heap[probe].type \notin Types
      /\ h[probe] = [type |-> "string", ptr |-> v, refcount |-> 1]
      /\ \A i \in Ids \ {probe} : h[i] = heap[i]
      /\ \A j \in Ids : probe \notin Members(heap[j])
  BY <1>1, CreateString
<1> HIDE DEF gone, old, e, h
<1>6. h[e] = heap[e] /\ probe \notin old /\ probe # e
  BY <1>3, <1>5 DEF Types, Containers
<1>7. [h EXCEPT ![e].ptr = @ \ gone] = g
  BY <1>3, <1>6
<1>8. Sound(g, dict, reply, x)
  <2> DEFINE M == left
  <2>1. /\ h[e].type \in Containers
        /\ h[e].type = "list" => IsList(left) /\ M = Range(left)
        /\ h[e].type = "set" => left \in SUBSET Ids /\ M = left
    BY <1>3, <1>6 DEF Containers
  <2>2. \A m \in M \ Members(h[e]) : h[m].type = "string" /\ Held(probe)[m] >= 1
    BY <1>3, <1>6
  <2>3. \A i \in Ids : x[i] = Held(probe)[i] + (IF i \in Members(h[e]) \ M THEN 1 ELSE 0)
                                - (IF i \in M \ Members(h[e]) THEN 1 ELSE 0)
    BY <1>3, <1>4, <1>6 DEF Held
  <2> HIDE DEF M, left, x
  <2> QED
    BY <1>3, <1>5, <2>1, <2>2, <2>3, SetPtrSound
<1>9. Sound(DecrAll(g, gone), dict, reply, Held(probe))
  <2>1. gone \in SUBSET Ids
    BY <1>3, <1>4
  <2>2. \A o \in gone : x[o] >= 1 /\ (g[o].refcount = 1 => Members(g[o]) = {})
    <3> SUFFICES ASSUME NEW o \in gone PROVE x[o] >= 1 /\ Members(g[o]) = {}
      OBVIOUS
    <3>1. o \in Ids /\ heap[o].type = "string" /\ o # e /\ o # probe /\ x[o] = 1
      BY <1>3, <1>4, <1>6
    <3>2. h = [i \in Ids |-> h[i]]
      BY <1>5 DEF Sound, HeapType
    <3>3. g[o] = heap[o]
      BY <1>5, <3>1, <3>2
    <3> QED
      BY <3>1, <3>3 DEF Members
  <2>3. \A i \in Ids : Held(probe)[i] = x[i] - (IF i \in gone THEN 1 ELSE 0)
    BY <1>4, <1>6 DEF Held
  <2> HIDE DEF x, g
  <2> QED
    BY <1>8, <2>1, <2>2, <2>3, DropSound
<1> QED
  BY <1>1, <1>2, <1>5, <1>7, <1>9, DecrHeld DEF h

(* SISMEMBER creates a probe and gives it up.                              *)
LEMMA SIsMemberSound ==
  ASSUME Inv, NEW c \in Clients, NEW k \in Keys, NEW v \in Strings, SIsMemberCommand(c, k, v)
  PROVE  Sound(heap', dict', reply', Nothing)
<1>1. Sound(heap, dict, reply, Nothing) /\ dict' = dict /\ reply' = reply
  BY DEF Inv, SIsMemberCommand, NoChange
<1>2. PICK probe \in Fresh(heap) :
        heap' = DecrRefCount(Create(heap, probe, "string", v), probe)
  BY DEF SIsMemberCommand
<1>3. probe \in Ids /\ Sound(Create(heap, probe, "string", v), dict, reply, Held(probe))
  BY <1>1, CreateString
<1> QED
  BY <1>1, <1>2, <1>3, DecrHeld

(* SINTER, SMEMBERS queue members that the sets keep.                      *)
LEMMA SInterSound ==
  ASSUME Inv, NEW c \in Clients, NEW ks \in SUBSET Keys, SInterCommand(c, ks)
  PROVE  Sound(heap', dict', reply', Nothing)
<1>1. Sound(heap, dict, reply, Nothing) /\ dict' = dict
  BY DEF Inv, SInterCommand, NoChange
<1> DEFINE Common(small) == {m \in Value(c, small) :
                               \A k \in ks : Equal(heap, Entry(c, k), heap[m].ptr) # {}}
<1>2. PICK small \in ks : \E os \in SetToSeqs(Common(small)) :
        heap' = Retain(heap, os) /\ reply' = [reply EXCEPT ![c] = @ \o Queue(heap, os)]
  BY DEF SInterCommand, AddReply
<1> DEFINE common == Common(small)
<1>2a. PICK os \in SetToSeqs(common) :
        heap' = Retain(heap, os) /\ reply' = [reply EXCEPT ![c] = @ \o Queue(heap, os)]
  BY <1>2
<1>3. Value(c, small) \in SUBSET Ids /\ \A m \in Value(c, small) : heap[m].type = "string"
  BY FoundSet DEF SInterCommand
<1>4. common \subseteq Value(c, small) /\ os \in SetToSeqs(common)
  OBVIOUS
<1> HIDE DEF common
<1>5. IsFiniteSet(common) /\ Cardinality(common) \in Nat
  <2>1. common \subseteq Ids
    BY <1>3, <1>4
  <2> QED
    BY <2>1, KeyspaceAssumption, FS_Subset, FS_CardinalityType
<1>6. os \in [1 .. Cardinality(common) -> common]
  BY <1>4 DEF SetToSeqs
<1>7. os \in Seq(Ids) /\ \A n \in 1 .. Len(os) : os[n] \in common
  BY <1>3, <1>4, <1>5, <1>6
<1>8. \A n \in 1 .. Len(os) : heap[os[n]].type = "string"
  BY <1>3, <1>4, <1>7
<1>9. \A n \in 1 .. Len(os) : heap[os[n]].ptr = heap[os[n]].ptr
  OBVIOUS
<1>10. Sound(Retain(heap, os), dict, [reply EXCEPT ![c] = @ \o Queue(heap, os)], Nothing)
  BY <1>1, <1>7, <1>8, <1>9, AddReplySound
<1> QED
  BY <1>1, <1>2a, <1>10

-----------------------------------------------------------------------------
(* Commands on keys, and the reply list                                    *)

(* The object leaves one entry before it enters the other.                 *)
LEMMA MoveSound ==
  ASSUME Inv, NEW c \in Clients, NEW k \in Keys, NEW t \in Dbs, MoveCommand(c, k, t)
  PROVE  Sound(heap', dict', reply', Nothing)
<1> DEFINE s == selected[c]
           e == Entry(c, k)
           d == [dict EXCEPT ![s][k] = Null]
<1>1. /\ Sound(heap, dict, reply, Nothing) /\ s \in Dbs /\ e = dict[s][k] /\ e \in Ids
      /\ t # s /\ dict[t][k] = Null /\ heap' = heap /\ reply' = reply
  BY KeyFacts DEF Inv, MoveCommand
<1>2. DictType(dict)
  BY <1>1 DEF Sound
<1>3. Sound(heap, d, reply, Held(e))
  BY <1>1, ClearEntry
<1>4. d[t][k] \notin Ids
  BY <1>1, <1>2, KeyspaceAssumption DEF DictType
<1>5. dict' = [d EXCEPT ![t][k] = e]
  <2>1. dict' = [dict EXCEPT ![t][k] = e, ![s][k] = Null]
    BY DEF MoveCommand
  <2> HIDE DEF e, s
  <2> QED
    BY <1>1, <1>2, <2>1 DEF DictType
<1> HIDE DEF d, e
<1>6. Sound(heap, [d EXCEPT ![t][k] = e], reply, Nothing)
  BY <1>1, <1>3, <1>4, StoreHeld
<1> QED
  BY <1>1, <1>5, <1>6

(* IncrRefCount: the reference is held.                                    *)
LEMMA IncrSound ==
  ASSUME NEW h, NEW d, NEW r, Sound(h, d, r, Nothing), NEW o \in Ids, h[o].type \in Types
  PROVE  Sound(IncrRefCount(h, o), d, r, Held(o))
<1> DEFINE g == IncrRefCount(h, o)
<1>1. /\ HeapType(h) /\ DictType(d) /\ ReplyType(r) /\ Intact(h, r) /\ Balanced(h, d, r, Nothing)
  BY DEF Sound
<1>2. Object(h[o]) /\ h[o].refcount \in Nat \ {0} /\ h = [i \in Ids |-> h[i]]
  BY <1>1 DEF HeapType, Object
<1>3. /\ g = [i \in Ids |-> g[i]] /\ \A i \in Ids \ {o} : g[i] = h[i]
      /\ g[o] = [type |-> h[o].type, ptr |-> h[o].ptr, refcount |-> h[o].refcount + 1]
  BY <1>2 DEF IncrRefCount, Object
<1> HIDE DEF g
<1>4. Object(g[o]) /\ Members(g[o]) = Members(h[o])
  BY <1>2, <1>3 DEF Object, Members
<1>5. \A i \in Ids : /\ Object(g[i]) /\ Members(g[i]) = Members(h[i])
                     /\ g[i].type = h[i].type /\ g[i].ptr = h[i].ptr
                     /\ g[i].refcount = h[i].refcount + Held(o)[i]
                     /\ h[i].refcount \in Nat
  <2>1. \A i \in Ids : Object(h[i]) /\ h[i].refcount \in Nat
    BY <1>1, Referenced DEF HeapType
  <2> QED
    BY <1>3, <1>4, <2>1 DEF Held
<1>6. HeapType(g)
  BY <1>1, <1>3, <1>5 DEF HeapType
<1>7. Intact(g, r)
  BY <1>1, <1>5, ReplyElement DEF Intact
<1>8. Balanced(g, d, r, Held(o))
  <2> SUFFICES ASSUME NEW i \in Ids
               PROVE  Held(o)[i] \in Nat /\ g[i].refcount = Places(g, d, r, i) + Held(o)[i]
    BY DEF Balanced
  <2>1. Holders(g, i) = Holders(h, i)
    BY <1>5 DEF Holders
  <2>2. Places(g, d, r, i) = Places(h, d, r, i)
    BY <2>1 DEF Places
  <2>3. h[i].refcount = Places(h, d, r, i)
    <3>1. /\ Cardinality(InDict(d, i)) \in Nat /\ Cardinality(InReplies(r, i)) \in Nat
          /\ Cardinality(Holders(h, i)) \in Nat
      BY <1>1, CountsFinite
    <3>2. h[i].refcount = Places(h, d, r, i) + Nothing[i] /\ Nothing[i] = 0
      BY <1>1 DEF Balanced, Nothing
    <3> QED
      BY <3>1, <3>2 DEF Places
  <2> QED
    BY <1>5, <2>2, <2>3 DEF Held
<1> QED
  BY <1>1, <1>6, <1>7, <1>8 DEF Sound, g

(* RENAME, RENAMENX: the object is held while its entries change.          *)
LEMMA RenameGenericSound ==
  ASSUME Inv, NEW c \in Clients, NEW src \in Keys, NEW dst \in Keys, NEW nx,
         RenameGenericCommand(c, src, dst, nx)
  PROVE  Sound(heap', dict', reply', Nothing)
<1> DEFINE s == selected[c]
           o == Entry(c, src)
           old == Entry(c, dst)
           h == IncrRefCount(heap, o)
           h2 == IF Found(c, dst) THEN DecrRefCount(h, old) ELSE h
           d == [dict EXCEPT ![s][dst] = o]
<1>1. /\ Sound(heap, dict, reply, Nothing) /\ s \in Dbs /\ src # dst /\ reply' = reply
      /\ o = dict[s][src] /\ o \in Ids /\ heap[o].type \in Types
      /\ old = dict[s][dst] /\ (Found(c, dst) <=> old \in Ids)
  BY KeyFacts DEF Inv, RenameGenericCommand
<1>2. heap' = DecrRefCount(h2, o) /\ dict' = [d EXCEPT ![s][src] = Null]
  <2>1. /\ heap' = DecrRefCount(h2, o)
        /\ dict' = [dict EXCEPT ![s][dst] = o, ![s][src] = Null]
    BY DEF RenameGenericCommand
  <2>2. DictType(dict)
    BY <1>1 DEF Sound
  <2> HIDE DEF o, old, s, h2
  <2>3. [dict EXCEPT ![s][dst] = o, ![s][src] = Null] = [d EXCEPT ![s][src] = Null]
    BY <1>1, <2>2 DEF DictType
  <2> QED
    BY <2>1, <2>3
<1>3. Sound(h, dict, reply, Held(o))
  BY <1>1, IncrSound
<1> HIDE DEF h, o, old
<1>4. Sound(h2, d, reply, Nothing)
  <2>1. CASE Found(c, dst)
    <3>1. Sound(h, d, reply, Held(old)) /\ old \in Ids
      BY <1>1, <1>3, <2>1, StoreHeld
    <3> QED
      BY <2>1, <3>1, DecrHeld
  <2>2. CASE ~ Found(c, dst)
    BY <1>1, <1>3, <2>2, StoreHeld
  <2> QED
    BY <2>1, <2>2
<1>5. d[s][src] = o
  <2>1. DictType(dict)
    BY <1>1 DEF Sound
  <2> QED
    BY <1>1, <2>1 DEF DictType
<1> HIDE DEF d, h2
<1>6. Sound(h2, [d EXCEPT ![s][src] = Null], reply, Held(o))
  BY <1>1, <1>4, <1>5, ClearEntry
<1> QED
  BY <1>1, <1>2, <1>6, DecrHeld

(* The first reply of a client has been sent.                              *)
LEMMA SendReplySound ==
  ASSUME Inv, NEW c \in Clients, SendReplyToClient(c)
  PROVE  Sound(heap', dict', reply', Nothing)
<1> DEFINE o == Head(reply[c]).obj
<1>1. Sound(heap, dict, reply, Nothing) /\ reply[c] # <<>> /\ dict' = dict
  BY DEF Inv, SendReplyToClient, NoChange
<1>2. heap' = DecrRefCount(heap, o) /\ reply' = [reply EXCEPT ![c] = Tail(@)]
  BY DEF SendReplyToClient
<1>3. \A i \in Ids : Held(o)[i] = Nothing[i] + (IF i = o THEN 1 ELSE 0)
  BY DEF Held, Nothing
<1>4. o \in Ids /\ Sound(heap, dict, [reply EXCEPT ![c] = Tail(@)], Held(o))
  BY <1>1, <1>3, UnqueueSound
<1> QED
  BY <1>1, <1>2, <1>4, DecrHeld

(* A client goes, and its replies with it.                                 *)
LEMMA ReconnectSound ==
  ASSUME Inv, NEW c \in Clients, Reconnect(c)
  PROVE  Sound(heap', dict', reply', Nothing)
<1>1. Sound(heap, dict, reply, Nothing)
  BY DEF Inv
<1>2. Sound(Release(heap, ObjectsOf(reply[c])), dict, [reply EXCEPT ![c] = <<>>], Nothing)
  BY <1>1, ReleaseSound
<1> QED
  BY <1>2 DEF Reconnect

-----------------------------------------------------------------------------
(* The invariant                                                           *)

(* Nothing is referenced in an empty server.                               *)
LEMMA InitSound == Init => Inv
<1> SUFFICES ASSUME Init PROVE Inv
  OBVIOUS
<1> USE DEF Init
<1>1. \A i \in Ids : heap[i] = Unallocated /\ Members(heap[i]) = {} /\ Object(heap[i])
  BY PooledObject
<1>2. HeapType(heap) /\ DictType(dict) /\ ReplyType(reply)
  BY <1>1 DEF HeapType, DictType, ReplyType
<1>3. \A c \in Clients : reply[c] = <<>>
  OBVIOUS
<1>4. Intact(heap, reply)
  BY <1>3 DEF Intact
<1>5. Balanced(heap, dict, reply, Nothing)
  <2> SUFFICES ASSUME NEW i \in Ids
               PROVE  Nothing[i] \in Nat /\ heap[i].refcount = Places(heap, dict, reply, i) + Nothing[i]
    BY DEF Balanced
  <2>1. InDict(dict, i) = {}
    BY KeyspaceAssumption DEF InDict
  <2>2. Holders(heap, i) = {}
    BY <1>1 DEF Holders
  <2>3. InReplies(reply, i) = {}
    BY <1>3 DEF InReplies
  <2>4. Places(heap, dict, reply, i) = 0 + 0 + 0
    BY <2>1, <2>2, <2>3, FS_EmptySet DEF Places
  <2>5. heap[i].refcount = 0 /\ Nothing[i] = 0
    BY <1>1 DEF Unallocated, Nothing
  <2> QED
    BY <2>4, <2>5
<1>6. selected \in [Clients -> Dbs] /\ dirty \in 0 .. MaxDirty
  BY KeyspaceAssumption
<1> QED
  BY <1>2, <1>4, <1>5, <1>6 DEF Inv, Sound

(* The databases that clients select exist, and dirty is bounded.          *)
LEMMA NextKeepsTypes ==
  ASSUME Inv, Next
  PROVE  selected' \in [Clients -> Dbs] /\ dirty' \in 0 .. MaxDirty
<1>1. selected \in [Clients -> Dbs] /\ dirty \in 0 .. MaxDirty /\ MaxDirty \in Nat /\ 0 \in Dbs
  BY KeyspaceAssumption DEF Inv
<1>2. Dirtied => dirty' \in 0 .. MaxDirty
  BY <1>1 DEF Dirtied
<1>3. PICK c \in Clients :
        \/ \E k \in Keys : StringCommand(c, k) \/ ListCommand(c, k)
                           \/ SetCommand(c, k) \/ KeyCommand(c, k)
        \/ \E ks \in SUBSET Keys : SInterCommand(c, ks)
        \/ \E t \in Dbs : SelectCommand(c, t)
        \/ SendReplyToClient(c) \/ Reconnect(c)
  BY DEF Next
<1>4. CASE \E k \in Keys : StringCommand(c, k)
  BY <1>1, <1>2, <1>4
     DEF StringCommand, SetGenericCommand, GetCommand, DelCommand, IncrDecrCommand, NoChange
<1>5. CASE \E k \in Keys : ListCommand(c, k)
  BY ZenonT(60), <1>1, <1>2, <1>5
     DEF ListCommand, PopGenericCommand, PushGenericCommand, LRangeCommand, LTrimCommand,
         LIndexCommand, LSetCommand, NoChange
<1>6. CASE \E k \in Keys : SetCommand(c, k)
  BY <1>1, <1>2, <1>6
     DEF SetCommand, SAddCommand, SRemCommand, SIsMemberCommand, NoChange
<1>7. CASE \E k \in Keys : KeyCommand(c, k)
  BY <1>1, <1>2, <1>7 DEF KeyCommand, MoveCommand, RenameGenericCommand
<1>8. CASE \E ks \in SUBSET Keys : SInterCommand(c, ks)
  BY <1>1, <1>8 DEF SInterCommand, NoChange
<1>9. CASE \E t \in Dbs : SelectCommand(c, t)
  BY <1>1, <1>9 DEF SelectCommand
<1>10. CASE SendReplyToClient(c) \/ Reconnect(c)
  BY <1>1, <1>10 DEF SendReplyToClient, Reconnect, NoChange
<1> QED
  BY <1>3, <1>4, <1>5, <1>6, <1>7, <1>8, <1>9, <1>10

(* One step per command.                                                   *)
LEMMA NextKeepsSound ==
  ASSUME Inv, Next
  PROVE  Sound(heap', dict', reply', Nothing)
<1>1. PICK c \in Clients :
        \/ \E k \in Keys : StringCommand(c, k) \/ ListCommand(c, k)
                           \/ SetCommand(c, k) \/ KeyCommand(c, k)
        \/ \E ks \in SUBSET Keys : SInterCommand(c, ks)
        \/ \E t \in Dbs : SelectCommand(c, t)
        \/ SendReplyToClient(c) \/ Reconnect(c)
  BY DEF Next
<1>2. Indices \subseteq Int
  BY KeyspaceAssumption DEF Indices
<1>3. ASSUME NEW k \in Keys, StringCommand(c, k) PROVE Sound(heap', dict', reply', Nothing)
  BY <1>3, SetGenericSound, GetSound, DelSound, IncrDecrSound DEF StringCommand
<1>4. ASSUME NEW k \in Keys, ListCommand(c, k) PROVE Sound(heap', dict', reply', Nothing)
  <2>1. ASSUME NEW where, PopGenericCommand(c, k, where) PROVE Sound(heap', dict', reply', Nothing)
    BY <2>1, PopSound
  <2>2. ASSUME NEW where, NEW v \in Strings, PushGenericCommand(c, k, v, where)
        PROVE  Sound(heap', dict', reply', Nothing)
    BY <2>2, PushSound
  <2>3. ASSUME NEW start \in Indices, NEW end \in Indices,
               LRangeCommand(c, k, start, end) \/ LTrimCommand(c, k, start, end)
        PROVE  Sound(heap', dict', reply', Nothing)
    <3>1. start \in Int /\ end \in Int
      BY <1>2
    <3> QED
      BY <2>3, <3>1, LRangeSound, LTrimSound
  <2>4. ASSUME NEW index \in Indices, LIndexCommand(c, k, index)
        PROVE  Sound(heap', dict', reply', Nothing)
    <3>1. index \in Int
      BY <1>2
    <3> QED
      BY <2>4, <3>1, LIndexSound
  <2>5. ASSUME NEW index \in Indices, NEW v \in Strings, LSetCommand(c, k, index, v)
        PROVE  Sound(heap', dict', reply', Nothing)
    <3>1. index \in Int
      BY <1>2
    <3> QED
      BY <2>5, <3>1, LSetSound
  <2> QED
    BY <1>4, <2>1, <2>2, <2>3, <2>4, <2>5 DEF ListCommand
<1>5. ASSUME NEW k \in Keys, SetCommand(c, k) PROVE Sound(heap', dict', reply', Nothing)
  BY <1>5, SAddSound, SRemSound, SIsMemberSound DEF SetCommand
<1>6. ASSUME NEW k \in Keys, KeyCommand(c, k) PROVE Sound(heap', dict', reply', Nothing)
  BY <1>6, MoveSound, RenameGenericSound DEF KeyCommand
<1>7. CASE \E ks \in SUBSET Keys : SInterCommand(c, ks)
  BY <1>7, SInterSound
<1>8. CASE \E t \in Dbs : SelectCommand(c, t)
  BY <1>8 DEF SelectCommand, Inv
<1>9. CASE SendReplyToClient(c) \/ Reconnect(c)
  BY <1>9, SendReplySound, ReconnectSound
<1> QED
  BY <1>1, <1>3, <1>4, <1>5, <1>6, <1>7, <1>8, <1>9

(* The heap, the databases and the reply lists fit together after each     *)
(* command: every reference is counted, and nothing else is.               *)
THEOREM Invariance == Spec => []Inv
<1>1. Inv /\ [Next]_vars => Inv'
  <2>1. ASSUME Inv, Next PROVE Inv'
    BY <2>1, NextKeepsTypes, NextKeepsSound DEF Inv
  <2>2. ASSUME Inv, UNCHANGED vars PROVE Inv'
    BY <2>2 DEF Inv, vars
  <2> QED
    BY <2>1, <2>2
<1> QED
  BY InitSound, <1>1, PTL DEF Spec

-----------------------------------------------------------------------------
(* What the invariant says                                                 *)

(* object.c:34-124: what is at an address is an object of one of the types *)
(* with a count of at least one, or free with none.                        *)
THEOREM TypesHold == Spec => []TypeOK
<1>1. Inv => TypeOK
  <2> SUFFICES ASSUME Inv PROVE TypeOK
    OBVIOUS
  <2>1. /\ HeapType(heap) /\ DictType(dict) /\ ReplyType(reply)
        /\ selected \in [Clients -> Dbs] /\ dirty \in 0 .. MaxDirty
    BY DEF Inv, Sound
  <2>2. ASSUME NEW i \in Ids
        PROVE  \/ heap[i] \in {Unallocated, Pooled}
               \/ /\ heap[i].type \in Types /\ heap[i].refcount \in Nat \ {0}
                  /\ heap[i].type = "string" => heap[i].ptr \in Strings
                  /\ heap[i].type = "list" => heap[i].ptr \in Seq(Ids)
                  /\ heap[i].type = "set" => heap[i].ptr \in SUBSET Ids
    <3>1. Object(heap[i])
      BY <2>1 DEF HeapType
    <3>2. CASE heap[i].type \in Types
      BY <3>1, <3>2 DEF Object, IsList
    <3>3. CASE heap[i].type \notin Types
      BY <3>1, <3>3 DEF Object, Unallocated, Pooled
    <3> QED
      BY <3>2, <3>3
  <2>3. ASSUME NEW c \in Clients, NEW n \in DOMAIN reply[c] PROVE reply[c][n].obj \in Ids
    <3>1. reply[c] \in Seq([obj : Ids, was : Strings])
      BY <2>1 DEF ReplyType
    <3>2. n \in 1 .. Len(reply[c])
      BY <3>1
    <3> QED
      BY <2>1, <3>2, ReplyElement
  <2> QED
    BY <2>1, <2>2, <2>3 DEF TypeOK, DictType
<1> QED
  BY Invariance, <1>1, PTL

(* A list names an object at most once, so the lists that hold it are as   *)
(* many as its places in them.                                             *)
LEMMA PlacesAreReferences ==
  ASSUME Inv, NEW i \in Ids
  PROVE  Places(heap, dict, reply, i) = References(i)
<1> DEFINE Lists == {j \in Ids : heap[j].type = "list" /\ i \in Range(heap[j].ptr)}
<1>1. ReplyType(reply) /\ \A j \in Ids : heap[j].type = "list" => IsList(heap[j].ptr)
  BY DEF Inv, Sound, HeapType, Object
<1>2. /\ IsFiniteSet(Lists) /\ Cardinality(Lists) \in Nat
      /\ IsFiniteSet(SetsWith(i)) /\ Cardinality(SetsWith(i)) \in Nat
  BY KeyspaceAssumption, FS_Subset, FS_CardinalityType DEF SetsWith
<1>3. Cardinality(Holders(heap, i)) = Cardinality(Lists) + Cardinality(SetsWith(i))
  <2>1. Holders(heap, i) = Lists \cup SetsWith(i)
    BY DEF Holders, Members, SetsWith
  <2>2. Lists \cap SetsWith(i) = {}
    BY DEF SetsWith
  <2>3. Cardinality(Lists \cup SetsWith(i))
          = Cardinality(Lists) + Cardinality(SetsWith(i)) - Cardinality({})
    BY <1>2, <2>2, FS_Union
  <2> HIDE DEF Lists
  <2> QED
    BY <1>2, <2>1, <2>3, FS_EmptySet
<1>4. Cardinality(Elements(i)) = Cardinality(Lists)
  <2> DEFINE At(j) == CHOOSE p \in DOMAIN heap[j].ptr : heap[j].ptr[p] = i
             f == [j \in Lists |-> <<j, At(j)>>]
  <2>1. ASSUME NEW j \in Lists
        PROVE  At(j) \in DOMAIN heap[j].ptr /\ heap[j].ptr[At(j)] = i
    BY DEF Range
  <2>2. \A e : e \in Elements(i) <=>
          \E j \in Ids : \E p \in DOMAIN heap[j].ptr :
            e = <<j, p>> /\ heap[j].type = "list" /\ heap[j].ptr[p] = i
    BY DEF Elements, ListPlaces
  <2>3. ASSUME NEW j \in Ids, NEW p \in DOMAIN heap[j].ptr, heap[j].type = "list",
               heap[j].ptr[p] = i
        PROVE  j \in Lists /\ p = At(j)
    <3>1. j \in Lists
      BY <2>3 DEF Range
    <3>2. IsList(heap[j].ptr)
      BY <1>1, <2>3
    <3>3. DOMAIN heap[j].ptr = 1 .. Len(heap[j].ptr)
      BY <3>2, ListFacts
    <3>4. At(j) \in DOMAIN heap[j].ptr /\ heap[j].ptr[At(j)] = i
      BY <2>1, <3>1
    <3> HIDE DEF At
    <3> QED
      BY <2>3, <3>1, <3>2, <3>3, <3>4 DEF IsList
  <2> HIDE DEF At
  <2>4. \A j \in Lists : <<j, At(j)>> \in Elements(i)
    BY <2>1, <2>2
  <2>5. \A e \in Elements(i) : \E j \in Lists : e = <<j, At(j)>>
    BY <2>2, <2>3
  <2> HIDE DEF Lists
  <2>6. f \in [Lists -> Elements(i)] /\ \A j \in Lists : f[j] = <<j, At(j)>>
    BY <2>4
  <2>7. \A j, k \in Lists : f[j] = f[k] => j = k
    BY <2>6
  <2>8. f \in Bijection(Lists, Elements(i))
    BY <2>5, <2>6, <2>7 DEF Bijection, Injection, IsInjective, Surjection
  <2> QED
    BY <1>2, <2>8, FS_Bijection DEF ExistsBijection
<1>5. Entries(i) = InDict(dict, i) /\ RepliesWith(i) = InReplies(reply, i)
  BY DEF Entries, InDict, RepliesWith, ReplyPlaces, InReplies
<1>6. Cardinality(InDict(dict, i)) \in Nat /\ Cardinality(InReplies(reply, i)) \in Nat
  BY <1>1, CountsFinite
<1> HIDE DEF Lists
<1>7. \A a, l, s, r \in Nat : a + (l + s) + r = a + l + s + r
  OBVIOUS
<1> QED
  BY <1>2, <1>3, <1>4, <1>5, <1>6, <1>7 DEF Places, References

(* object.c:92-117: whatever commands share, replace, move and remove, the *)
(* count of an object is the number of references to it.                   *)
THEOREM CountsAreExact == Spec => []RefCountsExact
<1>1. Inv => RefCountsExact
  <2> SUFFICES ASSUME Inv, NEW i \in Ids PROVE heap[i].refcount = References(i)
    BY DEF RefCountsExact
  <2>1. heap[i].refcount = Places(heap, dict, reply, i) + Nothing[i] /\ Nothing[i] = 0
    BY DEF Inv, Sound, Balanced, Nothing
  <2>2. /\ Cardinality(InDict(dict, i)) \in Nat /\ Cardinality(InReplies(reply, i)) \in Nat
        /\ Cardinality(Holders(heap, i)) \in Nat
    BY CountsFinite DEF Inv, Sound
  <2>3. Places(heap, dict, reply, i) \in Nat
    BY <2>2 DEF Places
  <2> QED
    BY <2>1, <2>3, PlacesAreReferences
<1> QED
  BY Invariance, <1>1, PTL

(* client.c:99-111, 265: the object of a reply that waits for its socket   *)
(* is what the command saw, whatever the commands since did with its key.  *)
THEOREM RepliesStayIntact == Spec => []RepliesIntact
<1>1. Inv => RepliesIntact
  <2> SUFFICES ASSUME Inv, NEW c \in Clients, NEW n \in DOMAIN reply[c]
               PROVE  /\ heap[reply[c][n].obj].type = "string"
                      /\ heap[reply[c][n].obj].ptr = reply[c][n].was
    BY DEF RepliesIntact
  <2>1. Intact(heap, reply) /\ reply[c] \in Seq([obj : Ids, was : Strings])
    BY DEF Inv, Sound, ReplyType
  <2>2. n \in 1 .. Len(reply[c])
    BY <2>1
  <2> QED
    BY <2>1, <2>2 DEF Intact
<1> QED
  BY Invariance, <1>1, PTL

(* Offsets that lie before the list and those made 0 have the same places  *)
(* between them, but for FirstInstead, whose end is 0.                     *)
LEMMA PlacesBetween ==
  ASSUME NEW llen \in Nat, NEW start \in Int, NEW end \in Int, NEW A, NEW B,
         A = IF start < 0 THEN llen + start ELSE start,
         B = IF llen # 0 /\ A <= 0 /\ (IF end < 0 THEN llen + end ELSE end) < 0
               THEN 0 ELSE IF end < 0 THEN llen + end ELSE end,
         NEW n \in 1 .. llen
  PROVE  A < n /\ n <= B + 1
           <=> Normalised(start, llen) < n /\ n <= Normalised(end, llen) + 1
BY DEF Normalised

(* The places after one offset up to the other are the interval from a + 1 *)
(* to the last index of the range, or there are none.                      *)
LEMMA RangeIsBetween ==
  ASSUME NEW l, IsList(l), NEW start \in Int, NEW end \in Int,
         ~ FirstInstead(l, start, end),
         NEW part, part \in {Ranged(l, start, end), Trimmed(l, start, end)}
  PROVE  IsBetween(part, l, start, end)
<1> DEFINE between == Between(l, start, end)
<1>1. l \in Seq(Ids) /\ Len(l) \in Nat /\ DOMAIN l = 1 .. Len(l)
  BY ListFacts
<1>2. PICK llen \in Nat : llen = Len(l)
  BY <1>1
<1>3. PICK a \in Nat, b \in Nat : a = Normalised(start, Len(l)) /\ b = Normalised(end, Len(l))
  BY <1>1, RangeOffsets
<1>4. between = {n \in 1 .. llen : a < n /\ n <= b + 1}
  <2> DEFINE A == Offset(start, l)
             B == Offset(end, l)
  <2>1. /\ A = IF start < 0 THEN llen + start ELSE start
        /\ B = IF end < 0 THEN llen + end ELSE end
    BY <1>2 DEF Offset
  <2>2. llen # 0 => l # <<>>
    BY <1>2
  <2>3. ~ (llen # 0 /\ A <= 0 /\ B < 0)
    BY <2>2 DEF FirstInstead
  <2>4. between = {n \in 1 .. llen : A < n /\ n <= B + 1}
    BY <1>1, <1>2 DEF Between
  <2>5. a = Normalised(start, llen) /\ b = Normalised(end, llen)
    BY <1>2, <1>3
  <2> HIDE DEF A, B, between
  <2>6. B = IF llen # 0 /\ A <= 0 /\ (IF end < 0 THEN llen + end ELSE end) < 0
              THEN 0 ELSE IF end < 0 THEN llen + end ELSE end
    BY <2>1, <2>3
  <2>7. \A n \in 1 .. llen : A < n /\ n <= B + 1
          <=> Normalised(start, llen) < n /\ n <= Normalised(end, llen) + 1
    BY <2>1, <2>6, PlacesBetween
  <2> QED
    BY <2>4, <2>5, <2>7
<1> HIDE DEF between
<1>5. /\ Len(part) = Cardinality(between)
      /\ \A p \in DOMAIN part :
           \E n \in between : part[p] = l[n] /\ Cardinality({m \in between : m < n}) = p - 1
  <2>1. CASE EmptyRange(start, end, Len(l))
    <3>1. part = <<>>
      BY <1>1, <2>1, RangedOrTrimmed
    <3>2. a > b \/ a >= llen
      BY <1>2, <1>3, <2>1 DEF EmptyRange
    <3>3. \A n \in 1 .. llen : ~ (a < n /\ n <= b + 1)
      BY <3>2
    <3>4. between = {}
      BY <1>4, <3>3
    <3> QED
      BY <3>1, <3>4, FS_EmptySet
  <2>2. CASE ~ EmptyRange(start, end, Len(l))
    <3>1. PICK last \in Nat : last = LastIndex(end, Len(l)) /\ a <= last /\ last < llen
      BY <1>1, <1>2, <1>3, <2>2, RangeOffsets
    <3>2. last = IF b >= llen THEN llen - 1 ELSE b
      BY <1>2, <1>3, <3>1 DEF LastIndex
    <3>3. \A n \in Int : (n \in 1 .. llen /\ a < n /\ n <= b + 1) <=> n \in a + 1 .. last + 1
      BY <3>1, <3>2
    <3>4. between = a + 1 .. last + 1
      <4>1. \A n \in between : n \in a + 1 .. last + 1
        BY ONLY <1>4, <3>3, llen \in Nat
      <4>2. \A n \in a + 1 .. last + 1 : n \in between
        BY ONLY <1>4, <3>3, a \in Nat, last \in Nat
      <4> QED
        BY ONLY <4>1, <4>2
    <3>5. Cardinality(between) = last - a + 1
      <4>1. a + 1 \in Int /\ last + 1 \in Int /\ ~ (a + 1 > last + 1)
        BY <3>1
      <4>2. Cardinality(a + 1 .. last + 1) = last + 1 - (a + 1) + 1
        BY <4>1, FS_Interval
      <4>3. last + 1 - (a + 1) + 1 = last - a + 1
        OBVIOUS
      <4> QED
        BY <3>4, <4>2, <4>3
    <3>6. /\ part \in Seq(Ids) /\ Len(part) = last - a + 1
          /\ \A p \in 1 .. Len(part) : part[p] = l[p + a]
      <4>1. /\ part \in Seq(Ids)
            /\ Len(part) = LastIndex(end, Len(l)) - Normalised(start, Len(l)) + 1
            /\ \A n \in 1 .. Len(part) : part[n] = l[n + Normalised(start, Len(l))]
        BY <1>1, <2>2, RangeElements
      <4> QED
        BY <1>3, <3>1, <4>1
    <3>7. DOMAIN part = 1 .. last - a + 1
      BY <3>6
    <3>8. ASSUME NEW p \in 1 .. last - a + 1
          PROVE  \E n \in between : part[p] = l[n] /\ Cardinality({m \in between : m < n}) = p - 1
      <4>1. a <= last
        BY <3>1
      <4>2. PICK n \in Int : n = p + a
        BY ONLY a \in Nat, last \in Nat, p \in 1 .. last - a + 1
      <4>3. /\ n \in a + 1 .. last + 1 /\ n - 1 \in Int /\ a + 1 \in Int /\ p - 1 = n - 1 - a
            /\ n >= a + 1
        BY ONLY <4>1, <4>2, a \in Nat, last \in Nat, p \in 1 .. last - a + 1
      <4>4. \A m \in Int : (m \in a + 1 .. last + 1 /\ m < n) <=> m \in a + 1 .. n - 1
        BY ONLY <4>3, n \in Int, a \in Nat, last \in Nat
      <4>5. {m \in between : m < n} = a + 1 .. n - 1
        BY <3>4, <4>4
      <4>6. Cardinality(a + 1 .. n - 1) = n - 1 - a
        <5>1. PICK u \in Int, v \in Int : u = a + 1 /\ v = n - 1
          BY <4>3
        <5>2. Cardinality(u .. v) = IF u > v THEN 0 ELSE v - u + 1
          BY FS_Interval
        <5>3. (IF u > v THEN 0 ELSE v - u + 1) = n - 1 - a
          BY ONLY <4>3, <5>1, u \in Int, v \in Int, a \in Nat, n \in Int
        <5> QED
          BY <5>1, <5>2, <5>3
      <4>7. part[p] = l[n]
        BY <3>6, <4>2
      <4> QED
        BY <3>4, <4>3, <4>5, <4>6, <4>7
    <3> QED
      BY <3>5, <3>6, <3>7, <3>8
  <2> QED
    BY <2>1, <2>2
<1> QED
  BY <1>5 DEF IsBetween, between

(* README.md:266-294: LRANGE gives, and LTRIM leaves, the elements between *)
(* the two offsets, of any list and for all offsets, in and out of range,  *)
(* but where an end before the first element is taken for that element.    *)
THEOREM RangesAreAsDocumented == Spec => []RangeAsDocumented
<1>1. Inv => RangeAsDocumented
  <2> SUFFICES ASSUME Inv, NEW o \in Ids, heap[o].type = "list", NEW l, l = heap[o].ptr,
                      NEW start \in Indices, NEW end \in Indices,
                      ~ FirstInstead(l, start, end)
               PROVE  /\ IsBetween(Ranged(l, start, end), l, start, end)
                      /\ IsBetween(Trimmed(l, start, end), l, start, end)
    BY DEF RangeAsDocumented
  <2>1. IsList(l)
    BY DEF Inv, Sound, HeapType, Object
  <2>2. start \in Int /\ end \in Int
    BY KeyspaceAssumption DEF Indices
  <2> QED
    BY <2>1, <2>2, RangeIsBetween
<1> QED
  BY Invariance, <1>1, PTL

-----------------------------------------------------------------------------
(* Commands that count no change make none                                 *)

(* h2 is heap h but for objects that are free in h2.                       *)
SameValues(h, h2) ==
  \A i \in Ids : h2[i].type \in Types => h2[i].type = h[i].type /\ h2[i].ptr = h[i].ptr

(* Clients see no difference when no object in use has changed.            *)
LEMMA SameDataset ==
  ASSUME Inv, Sound(heap', dict', reply', Nothing), dict' = dict, SameValues(heap, heap')
  PROVE  Dataset' = Dataset
<1>1. DictType(dict) /\ HeapType(heap) /\ HeapType(heap')
  BY DEF Inv, Sound
<1>2. ASSUME NEW t \in Dbs, NEW k \in Keys
      PROVE  Contents(dict[t][k])' = Contents(dict[t][k])
  <2> DEFINE o == dict[t][k]
  <2>1. CASE o = Null
    BY <2>1 DEF Contents
  <2>2. CASE o # Null
    <3>1. o \in Ids /\ <<t, k>> \in InDict(dict', o)
      BY <1>1, <2>2 DEF DictType, InDict
    <3>2. heap'[o].refcount > Nothing[o] /\ Nothing[o] = 0
      BY <3>1, Referenced DEF Nothing
    <3>3. heap'[o].type \in Types
      BY <3>1, <3>2, Alive
    <3>4. heap'[o].type = heap[o].type /\ heap'[o].ptr = heap[o].ptr
      BY <3>1, <3>3 DEF SameValues
    <3>5. Members(heap'[o]) = Members(heap[o]) /\ Object(heap[o])
      BY <1>1, <3>1, <3>4 DEF Members, HeapType
    <3>6. ASSUME NEW m \in Members(heap[o]) PROVE heap'[m].ptr = heap[m].ptr
      <4>1. m \in Ids
        <5>1. heap[o].type = "list" => heap[o].ptr \in Seq(Ids)
          BY <3>5 DEF Object, IsList
        <5>2. heap[o].type = "list" => \A j \in Range(heap[o].ptr) : j \in Ids
          BY <5>1 DEF Range
        <5>3. heap[o].type = "set" => heap[o].ptr \in SUBSET Ids
          BY <3>5 DEF Object
        <5> QED
          BY <5>2, <5>3 DEF Members
      <4>2. heap'[m].type = "string"
        BY <1>1, <3>1, <3>5, <4>1 DEF HeapType
      <4> QED
        BY <4>1, <4>2 DEF SameValues, Types
    <3>7. CASE heap[o].type = "string"
      <4>1. /\ Contents(o) = <<"string", heap[o].ptr>>
            /\ Contents(o)' = <<"string", heap'[o].ptr>>
        BY Zenon, <2>2, <3>4, <3>7 DEF Contents
      <4> QED
        BY <3>4, <4>1
    <3>8. CASE heap[o].type = "list"
      <4>1. \A p \in DOMAIN heap[o].ptr : heap[o].ptr[p] \in Members(heap[o])
        BY <3>8 DEF Members, Range
      <4>2. \A p \in DOMAIN heap[o].ptr : heap'[heap[o].ptr[p]].ptr = heap[heap[o].ptr[p]].ptr
        BY Zenon, <3>6, <4>1
      <4>3. /\ Contents(o) = <<"list", [p \in DOMAIN heap[o].ptr |-> heap[heap[o].ptr[p]].ptr]>>
            /\ Contents(o)' = <<"list", [p \in DOMAIN heap[o].ptr |-> heap'[heap[o].ptr[p]].ptr]>>
        BY Zenon, <2>2, <3>4, <3>8 DEF Contents
      <4> QED
        BY Zenon, <4>2, <4>3
    <3>9. CASE heap[o].type = "set"
      <4>1. \A m \in heap[o].ptr : heap'[m].ptr = heap[m].ptr
        BY <3>6, <3>9 DEF Members
      <4>2. /\ Contents(o) = <<"set", {heap[m].ptr : m \in heap[o].ptr}>>
            /\ Contents(o)' = <<"set", {heap'[m].ptr : m \in heap[o].ptr}>>
        BY Zenon, <2>2, <3>4, <3>9 DEF Contents
      <4>3. {heap'[m].ptr : m \in heap[o].ptr} = {heap[m].ptr : m \in heap[o].ptr}
        BY <4>1
      <4> QED
        BY <4>2, <4>3
    <3> QED
      BY <3>3, <3>4, <3>7, <3>8, <3>9 DEF Types, Containers
  <2> QED
    BY <2>1, <2>2
<1> QED
  BY <1>2 DEF Dataset

(* Counting references changes no value.                                   *)
LEMMA RetainKeepsValues ==
  ASSUME NEW h, HeapType(h), NEW os
  PROVE  SameValues(h, Retain(h, os))
<1>1. \A i \in Ids : Object(h[i])
  BY DEF HeapType
<1>2. \A i \in Ids : Retain(h, os)[i] = [h[i] EXCEPT !.refcount = @ + Occurrences(os, i)]
  BY DEF Retain
<1> QED
  BY <1>1, <1>2 DEF SameValues, Object

(* An object that is created and given up again leaves no trace.           *)
LEMMA ProbeKeepsValues ==
  ASSUME Inv, NEW probe \in Fresh(heap), NEW v \in Strings
  PROVE  SameValues(heap, DecrRefCount(Create(heap, probe, "string", v), probe))
<1> DEFINE h == Create(heap, probe, "string", v)
           g == DecrRefCount(h, probe)
<1>1. /\ probe \in Ids /\ h[probe] = [type |-> "string", ptr |-> v, refcount |-> 1]
      /\ \A i \in Ids \ {probe} : h[i] = heap[i]
  BY CreateString DEF Inv
<1> HIDE DEF h
<1>2. Members(h[probe]) = {}
  BY <1>1 DEF Members
<1>3. g = DecrAll(h, {probe})
  BY <1>2 DEF DecrRefCount
<1>4. g[probe] = Pooled /\ \A i \in Ids \ {probe} : g[i] = heap[i]
  BY <1>1, <1>3 DEF DecrAll, DecrBy
<1> HIDE DEF g
<1>5. SameValues(heap, g)
  BY <1>4, PooledObject DEF SameValues
<1> QED
  BY <1>5 DEF g, h

(* Giving up references frees the object or leaves its value.              *)
LEMMA DecrByKeepsValue ==
  ASSUME NEW o, Object(o), NEW n
  PROVE  DecrBy(o, n).type \in Types => DecrBy(o, n).type = o.type /\ DecrBy(o, n).ptr = o.ptr
BY PooledObject DEF DecrBy, Object

(* Sending or dropping replies changes no value in use.                    *)
LEMMA RepliesKeepValues ==
  ASSUME Inv, NEW c \in Clients
  PROVE  /\ SendReplyToClient(c) => SameValues(heap, heap')
         /\ Reconnect(c) => SameValues(heap, heap')
<1>1. \A i \in Ids : Object(heap[i])
  BY DEF Inv, Sound, HeapType
<1>2. ASSUME SendReplyToClient(c) PROVE SameValues(heap, heap')
  <2> DEFINE o == Head(reply[c]).obj
             S == IF heap[o].refcount = 1 THEN {o} \cup Members(heap[o]) ELSE {o}
  <2>1. heap' = DecrAll(heap, S)
    BY <1>2 DEF SendReplyToClient, DecrRefCount
  <2>2. \A i \in Ids : heap'[i] = DecrBy(heap[i], 1) \/ heap'[i] = heap[i]
    BY <2>1 DEF DecrAll
  <2> QED
    BY <1>1, <2>2, DecrByKeepsValue DEF SameValues
<1>3. ASSUME Reconnect(c) PROVE SameValues(heap, heap')
  <2>1. heap' = Release(heap, ObjectsOf(reply[c]))
    BY <1>3 DEF Reconnect
  <2>2. \A i \in Ids : \/ heap'[i] = DecrBy(heap[i], Occurrences(ObjectsOf(reply[c]), i))
                       \/ heap'[i] = heap[i]
    BY <2>1 DEF Release
  <2> QED
    BY <1>1, <2>2, DecrByKeepsValue DEF SameValues
<1> QED
  BY <1>2, <1>3

(* server.h:48: a step that changes what the databases hold counts it.     *)
THEOREM ChangesAreCounted == Spec => ChangesCounted
<1>1. ASSUME Inv, Next PROVE dirty' = dirty + 1 \/ (dict' = dict /\ SameValues(heap, heap'))
  <2> DEFINE Goal == dirty' = dirty + 1 \/ (dict' = dict /\ SameValues(heap, heap'))
  <2>1. HeapType(heap)
    BY <1>1 DEF Inv, Sound
  <2>2. SameValues(heap, heap)
    BY DEF SameValues
  <2>3. PICK c \in Clients :
          \/ \E k \in Keys : StringCommand(c, k) \/ ListCommand(c, k)
                             \/ SetCommand(c, k) \/ KeyCommand(c, k)
          \/ \E ks \in SUBSET Keys : SInterCommand(c, ks)
          \/ \E t \in Dbs : SelectCommand(c, t)
          \/ SendReplyToClient(c) \/ Reconnect(c)
    BY <1>1 DEF Next
  <2>4. ASSUME NEW os, heap' = Retain(heap, os), dict' = dict PROVE Goal
    BY <2>1, <2>4, RetainKeepsValues
  <2>5. ASSUME NEW probe \in Fresh(heap), NEW v \in Strings, dict' = dict,
               heap' = DecrRefCount(Create(heap, probe, "string", v), probe)
        PROVE  Goal
    BY <1>1, <2>5, ProbeKeepsValues
  <2>6. ASSUME NEW k \in Keys, StringCommand(c, k) PROVE Goal
    BY <2>4, <2>6
       DEF StringCommand, SetGenericCommand, GetCommand, DelCommand, IncrDecrCommand,
           Dirtied, NoChange
  <2>7. ASSUME NEW k \in Keys, ListCommand(c, k) PROVE Goal
    <3>1. ASSUME NEW v \in Strings, NEW where, PushGenericCommand(c, k, v, where) PROVE Goal
      BY <2>5, <3>1 DEF PushGenericCommand, Dirtied
    <3>2. ASSUME NEW start, NEW end, LRangeCommand(c, k, start, end) PROVE Goal
      BY <2>4, <3>2 DEF LRangeCommand, NoChange
    <3>3. ASSUME NEW index, LIndexCommand(c, k, index) PROVE Goal
      BY <2>4, <3>3 DEF LIndexCommand, NoChange
    <3> QED
      BY <2>7, <3>1, <3>2, <3>3
         DEF ListCommand, PopGenericCommand, LTrimCommand, LSetCommand, Dirtied
  <2>8. ASSUME NEW k \in Keys, SetCommand(c, k) PROVE Goal
    <3>1. ASSUME NEW v \in Strings, SAddCommand(c, k, v) PROVE Goal
      BY <2>5, <3>1 DEF SAddCommand, Dirtied
    <3>2. ASSUME NEW v \in Strings, SIsMemberCommand(c, k, v) PROVE Goal
      BY <2>5, <3>2 DEF SIsMemberCommand, NoChange
    <3>3. ASSUME NEW v \in Strings, SRemCommand(c, k, v) PROVE Goal
      <4>1. CASE Equal(heap, Entry(c, k), v) # {}
        BY <3>3, <4>1 DEF SRemCommand, Dirtied
      <4>2. CASE Equal(heap, Entry(c, k), v) = {}
        <5>1. PICK probe \in Fresh(heap) :
                heap' = DecrRefCount(DecrAll([Create(heap, probe, "string", v) EXCEPT
                                                ![Entry(c, k)].ptr = @ \ {}], {}), probe)
          BY <3>3, <4>2 DEF SRemCommand
        <5> DEFINE h == Create(heap, probe, "string", v)
                   e == Entry(c, k)
        <5>2. /\ probe \in Ids /\ heap[probe].type \notin Types
              /\ h[probe] = [type |-> "string", ptr |-> v, refcount |-> 1]
              /\ \A i \in Ids \ {probe} : h[i] = heap[i]
          BY <1>1, CreateString DEF Inv
        <5>3. h = [i \in Ids |-> h[i]]
          BY <2>1, <5>2 DEF HeapType, Create
        <5>4. e \in Ids /\ heap[e].type = "set" /\ heap[e].ptr \in SUBSET Ids /\ Object(heap[e])
          BY <1>1, <2>1, <3>3, FoundSet DEF SRemCommand, HeapType
        <5> HIDE DEF h, e
        <5>5. h[e] = heap[e]
          BY <5>2, <5>4 DEF Types, Containers
        <5>6. [h EXCEPT ![e].ptr = @ \ {}] = h
          <6>1. h[e] = [type |-> h[e].type, ptr |-> h[e].ptr, refcount |-> h[e].refcount]
            BY <5>4, <5>5 DEF Object
          <6>2. h[e].ptr \ {} = h[e].ptr
            BY <5>4, <5>5
          <6>3. [h[e] EXCEPT !.ptr = @ \ {}] = h[e]
            BY <6>1, <6>2
          <6>4. [h EXCEPT ![e] = h[e]] = h
            BY <5>3
          <6>5. [h EXCEPT ![e].ptr = @ \ {}] = [h EXCEPT ![e] = [h[e] EXCEPT !.ptr = @ \ {}]]
            BY <5>3
          <6> QED
            BY <6>3, <6>4, <6>5
        <5>7. DecrAll(h, {}) = h
          BY <5>3 DEF DecrAll
        <5>8. heap' = DecrRefCount(Create(heap, probe, "string", v), probe) /\ dict' = dict
          BY <3>3, <5>1, <5>6, <5>7 DEF h, e, SRemCommand
        <5> QED
          BY <2>5, <3>3, <5>8
      <4> QED
        BY <4>1, <4>2
    <3> QED
      BY <2>8, <3>1, <3>2, <3>3 DEF SetCommand
  <2>9. ASSUME NEW k \in Keys, KeyCommand(c, k) PROVE Goal
    BY <2>9 DEF KeyCommand, MoveCommand, RenameGenericCommand, Dirtied
  <2>10. ASSUME NEW ks \in SUBSET Keys, SInterCommand(c, ks) PROVE Goal
    BY <2>4, <2>10 DEF SInterCommand, NoChange
  <2>11. ASSUME NEW t \in Dbs, SelectCommand(c, t) PROVE Goal
    BY <2>2, <2>11 DEF SelectCommand
  <2>12. ASSUME SendReplyToClient(c) \/ Reconnect(c) PROVE Goal
    BY <1>1, <2>12, RepliesKeepValues DEF SendReplyToClient, Reconnect, NoChange
  <2> QED
    BY <2>3, <2>6, <2>7, <2>8, <2>9, <2>10, <2>11, <2>12
<1>2. ASSUME Inv, Next PROVE Dataset' # Dataset => dirty' = dirty + 1
  BY <1>1, <1>2, NextKeepsSound, SameDataset
<1>3. Inv /\ [Next]_vars => [Dataset' # Dataset => dirty' = dirty + 1]_vars
  BY <1>2
<1> QED
  BY Invariance, <1>3, PTL DEF Spec, ChangesCounted
=============================================================================
