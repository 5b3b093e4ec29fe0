---------------------------- MODULE DatabaseProofs ----------------------------
(***************************************************************************)
(* Keyspace implements Database: no client can tell that values are shared *)
(* by databases, containers and reply lists and their memory used again.   *)
(* A command writes to a few objects; Effect says when this shows at one   *)
(* key only, and each command is then a step of Database or a stutter.     *)
(***************************************************************************)
EXTENDS KeyspaceProofs

(* No object is the value of two keys. *)
Once(d) ==
  \A a, b \in Dbs \X Keys :
    d[a[1]][a[2]] \in Ids /\ d[a[1]][a[2]] = d[b[1]][b[2]] => a = b

(* A set has each value once. *)
DistinctIn(h, s) == \A m, n \in h[s].ptr : h[m].ptr = h[n].ptr => m = n
Distinct(h) == \A s \in Ids : h[s].type = "set" => DistinctIn(h, s)

(* What the proofs need beside the invariant of KeyspaceProofs. *)
Separate == Inv /\ Once(dict) /\ Distinct(heap)

(* Of the objects in use in heap h2, only those of N may have another value *)
(* than in heap h.                                                          *)
SameBut(h, h2, N) ==
  \A i \in Ids \ N : h2[i].type \in Types => h2[i].type = h[i].type /\ h2[i].ptr = h[i].ptr

(* The values of a list of objects. *)
Values(h, l) == [p \in DOMAIN l |-> h[l[p]].ptr]

(* What object o holds in heap h, for the clients. *)
Shown(h, o) ==
  IF o = Null THEN <<"none">>
  ELSE CASE h[o].type = "string" -> <<"string", h[o].ptr>>
         [] h[o].type = "list" -> <<"list", Values(h, h[o].ptr)>>
         [] h[o].type = "set" -> <<"set", {h[m].ptr : m \in h[o].ptr}>>

-----------------------------------------------------------------------------
(* What a command changes                                                  *)

(* Before and after a step. *)
LEMMA ShownIsContents ==
  ASSUME NEW o
  PROVE  Contents(o) = Shown(heap, o) /\ Contents(o)' = Shown(heap', o)
BY DEF Contents, Shown, Values

(* An object that is not written to, nor any of its members, holds what it *)
(* did.                                                                    *)
LEMMA ShownKept ==
  ASSUME NEW h, NEW h2, HeapType(h), HeapType(h2), NEW N, SameBut(h, h2, N),
         NEW o \in Ids \ N, h2[o].type \in Types, Members(h[o]) \cap N = {}
  PROVE  /\ Shown(h2, o) = Shown(h, o)
         /\ h2[o].type = h[o].type /\ h2[o].ptr = h[o].ptr
         /\ \A m \in Members(h[o]) : m \in Ids /\ h2[m].ptr = h[m].ptr
<1>1. h2[o].type = h[o].type /\ h2[o].ptr = h[o].ptr
  BY DEF SameBut
<1>2. Members(h2[o]) = Members(h[o]) /\ Object(h[o])
  BY <1>1 DEF Members, HeapType
<1>3. ASSUME NEW m \in Members(h[o]) PROVE m \in Ids /\ h2[m].ptr = h[m].ptr
  <2>1. m \in Ids
    BY <1>2 DEF Object, Members, IsList, Range
  <2>2. h2[m].type = "string"
    BY <1>2, <2>1 DEF HeapType
  <2> QED
    BY <2>1, <2>2 DEF SameBut, Types
<1>4. Shown(h2, o) = Shown(h, o)
  <2>0. o # Null
    BY KeyspaceAssumption
  <2>1. CASE h[o].type = "string"
    BY <1>1, <2>0, <2>1 DEF Shown
  <2>2. CASE h[o].type = "list"
    <3>1. \A p \in DOMAIN h[o].ptr : h[o].ptr[p] \in Members(h[o])
      BY <2>2 DEF Members, Range
    <3>2. \A p \in DOMAIN h[o].ptr : h2[h[o].ptr[p]].ptr = h[h[o].ptr[p]].ptr
      BY <1>3, <3>1
    <3>3. Values(h2, h[o].ptr) = Values(h, h[o].ptr)
      BY <3>2 DEF Values
    <3> QED
      BY <1>1, <2>0, <2>2, <3>3 DEF Shown
  <2>3. CASE h[o].type = "set"
    <3>1. \A m \in h[o].ptr : h2[m].ptr = h[m].ptr
      BY <1>3, <2>3 DEF Members
    <3>2. {h2[m].ptr : m \in h[o].ptr} = {h[m].ptr : m \in h[o].ptr}
      BY <3>1
    <3> QED
      BY <1>1, <2>0, <2>3, <3>2 DEF Shown
  <2> QED
    BY <1>1, <2>1, <2>2, <2>3 DEF Types, Containers
<1> QED
  BY <1>1, <1>3, <1>4

(* What a key holds is in use. *)
LEMMA EntryInUse ==
  ASSUME NEW h, NEW d, NEW r, NEW x, Sound(h, d, r, x), NEW t \in Dbs, NEW k \in Keys,
         d[t][k] \in Ids
  PROVE  h[d[t][k]].type \in Types
<1> DEFINE o == d[t][k]
<1>1. <<t, k>> \in InDict(d, o)
  BY DEF InDict
<1>2. x[o] \in Nat /\ h[o].refcount \in Nat /\ h[o].refcount > x[o]
  BY <1>1, Referenced
<1> HIDE DEF o
<1>3. h[o].refcount > 0
  BY <1>2
<1>4. o \in Ids
  BY DEF o
<1>5. h[o].type \in Types
  BY <1>3, <1>4, Alive
<1> QED
  BY <1>5 DEF o

(* A command that writes to the objects of N only, of which no other key   *)
(* and no object outside of N knows, changes one key for the clients.      *)
LEMMA Effect ==
  ASSUME Separate, Sound(heap', dict', reply', Nothing), NEW N, SameBut(heap, heap', N),
         \A j \in Ids \ N : Members(heap[j]) \cap N = {},
         NEW t \in Dbs, NEW k \in Keys,
         \A t2 \in Dbs, k2 \in Keys : <<t2, k2>> # <<t, k>> =>
           dict'[t2][k2] = dict[t2][k2] /\ dict[t2][k2] \notin N,
         \A s \in N \cap Ids : heap'[s].type = "set" => DistinctIn(heap', s)
  PROVE  /\ Dataset' = [Dataset EXCEPT ![t][k] = Shown(heap', dict'[t][k])]
         /\ Distinct(heap')
<1>1. DictType(dict) /\ HeapType(heap) /\ HeapType(heap')
  BY DEF Separate, Inv, Sound
<1>2. ASSUME NEW t2 \in Dbs, NEW k2 \in Keys, <<t2, k2>> # <<t, k>>
      PROVE  Contents(dict[t2][k2])' = Contents(dict[t2][k2])
  <2> DEFINE o == dict[t2][k2]
  <2>1. dict'[t2][k2] = o /\ o \notin N
    BY <1>2
  <2>2. CASE o = Null
    BY <2>1, <2>2 DEF Contents
  <2>3. CASE o # Null
    <3>1. o \in Ids \ N
      BY <1>1, <2>1, <2>3 DEF DictType
    <3>2. heap'[o].type \in Types
      BY <2>1, <3>1, EntryInUse
    <3>3. Members(heap[o]) \cap N = {}
      BY <3>1
    <3> HIDE DEF o
    <3>4. Shown(heap', o) = Shown(heap, o)
      BY <1>1, <3>1, <3>2, <3>3, ShownKept
    <3>5. /\ Contents(dict[t2][k2]) = Shown(heap, dict[t2][k2])
          /\ Contents(dict[t2][k2])' = Shown(heap', dict'[t2][k2])
      BY ShownIsContents
    <3>6. dict'[t2][k2] = dict[t2][k2]
      BY <2>1 DEF o
    <3> QED
      BY <3>4, <3>5, <3>6 DEF o
  <2> QED
    BY <2>2, <2>3
<1>3. Distinct(heap')
  <2> SUFFICES ASSUME NEW s \in Ids, heap'[s].type = "set" PROVE DistinctIn(heap', s)
    BY DEF Distinct
  <2>1. CASE s \in N
    BY <2>1
  <2>2. CASE s \notin N
    <3>1. s \in Ids \ N /\ heap'[s].type \in Types /\ Members(heap[s]) \cap N = {}
      BY <2>2 DEF Types, Containers
    <3>2. /\ heap'[s].type = heap[s].type /\ heap'[s].ptr = heap[s].ptr
          /\ \A m \in Members(heap[s]) : heap'[m].ptr = heap[m].ptr
      BY <1>1, <3>1, ShownKept
    <3>3. Members(heap[s]) = heap[s].ptr /\ DistinctIn(heap, s)
      BY <3>2 DEF Members, Separate, Distinct
    <3> QED
      BY <3>2, <3>3 DEF DistinctIn
  <2> QED
    BY <2>1, <2>2
<1>4. Dataset' = [Dataset EXCEPT ![t][k] = Shown(heap', dict'[t][k])]
  <2>1. Dataset = [t2 \in Dbs |-> [k2 \in Keys |-> Contents(dict[t2][k2])]]
    BY DEF Dataset
  <2>2. Dataset' = [t2 \in Dbs |-> [k2 \in Keys |-> Contents(dict[t2][k2])']]
    BY DEF Dataset
  <2>3. Contents(dict[t][k])' = Shown(heap', dict'[t][k])
    BY ShownIsContents
  <2>4. ASSUME NEW t2 \in Dbs, NEW k2 \in Keys
        PROVE  Dataset'[t2][k2] = [Dataset EXCEPT ![t][k] = Shown(heap', dict'[t][k])][t2][k2]
    <3>1. CASE <<t2, k2>> = <<t, k>>
      BY <2>1, <2>2, <2>3, <3>1
    <3>2. CASE <<t2, k2>> # <<t, k>>
      BY <1>2, <2>1, <2>2, <3>2
    <3> QED
      BY <3>1, <3>2
  <2>5. /\ Dataset' = [t2 \in Dbs |-> [k2 \in Keys |-> Dataset'[t2][k2]]]
        /\ [Dataset EXCEPT ![t][k] = Shown(heap', dict'[t][k])]
             = [t2 \in Dbs |-> [k2 \in Keys |->
                 [Dataset EXCEPT ![t][k] = Shown(heap', dict'[t][k])][t2][k2]]]
    BY <2>1, <2>2
  <2> QED
    BY <2>4, <2>5
<1> QED
  BY <1>3, <1>4

-----------------------------------------------------------------------------
(* Steps of a command                                                      *)

(* The heap is a function and its objects are records. *)
Records(h) ==
  /\ h = [i \in Ids |-> h[i]]
  /\ \A i \in Ids : h[i] = [type |-> h[i].type, ptr |-> h[i].ptr, refcount |-> h[i].refcount]

(* The objects of a well-typed heap are records. *)
LEMMA HeapRecords ==
  ASSUME NEW h, HeapType(h)
  PROVE  Records(h)
BY DEF HeapType, Object, Records

(* Two steps write to what either of them writes to. *)
LEMMA SameThrough ==
  ASSUME NEW h, NEW h2, NEW h3, NEW N, NEW M, SameBut(h, h2, N), SameBut(h2, h3, M)
  PROVE  SameBut(h, h3, N \cup M)
BY DEF SameBut

(* Giving up references changes no value in use. *)
LEMMA DecrKeeps ==
  ASSUME NEW h, Records(h), NEW S
  PROVE  Records(DecrAll(h, S)) /\ SameBut(h, DecrAll(h, S), {})
<1>1. \A i \in Ids : DecrAll(h, S)[i] = DecrBy(h[i], 1) \/ DecrAll(h, S)[i] = h[i]
  BY DEF DecrAll
<1>2. ASSUME NEW i \in Ids
      PROVE  LET o == DecrBy(h[i], 1) IN
             /\ o = [type |-> o.type, ptr |-> o.ptr, refcount |-> o.refcount]
             /\ o.type \in Types => o.type = h[i].type /\ o.ptr = h[i].ptr
  <2>1. h[i] = [type |-> h[i].type, ptr |-> h[i].ptr, refcount |-> h[i].refcount]
    BY DEF Records
  <2> QED
    BY <2>1 DEF DecrBy, Pooled, Types, Containers
<1>3. Records(DecrAll(h, S))
  <2>1. DecrAll(h, S) = [i \in Ids |-> DecrAll(h, S)[i]]
    BY DEF DecrAll
  <2> QED
    BY <1>1, <1>2, <2>1 DEF Records
<1>4. SameBut(h, DecrAll(h, S), {})
  BY <1>1, <1>2 DEF SameBut
<1> QED
  BY <1>3, <1>4

(* Giving up one reference changes no value in use. *)
LEMMA DecrRefCountKeeps ==
  ASSUME NEW h, Records(h), NEW o
  PROVE  Records(DecrRefCount(h, o)) /\ SameBut(h, DecrRefCount(h, o), {})
BY DecrKeeps DEF DecrRefCount

(* Taking references changes no value. *)
LEMMA RetainKeeps ==
  ASSUME NEW h, Records(h), NEW os
  PROVE  Records(Retain(h, os)) /\ SameBut(h, Retain(h, os), {})
<1>1. \A i \in Ids :
        Retain(h, os)[i] = [type |-> h[i].type, ptr |-> h[i].ptr,
                            refcount |-> h[i].refcount + Occurrences(os, i)]
  BY DEF Retain, Records
<1> QED
  BY <1>1 DEF Records, SameBut, Retain

(* A created object was free before. *)
LEMMA CreateKeeps ==
  ASSUME NEW h, Records(h), NEW o \in Fresh(h), NEW type, NEW ptr
  PROVE  /\ Records(Create(h, o, type, ptr)) /\ SameBut(h, Create(h, o, type, ptr), {o})
         /\ o \in Ids /\ h[o].type \notin Types
         /\ Create(h, o, type, ptr)[o].type = type /\ Create(h, o, type, ptr)[o].ptr = ptr
<1>1. o \in Ids /\ h[o].type \notin Types
  BY FreshIsFree
<1> QED
  BY <1>1 DEF Records, Create, SameBut

(* Writing to an object in place changes no other object. *)
Written(h, e, ptr) == [h EXCEPT ![e].ptr = ptr]

LEMMA SetPtrKeeps ==
  ASSUME NEW h, Records(h), NEW e \in Ids, NEW ptr
  PROVE  /\ Records(Written(h, e, ptr)) /\ SameBut(h, Written(h, e, ptr), {e})
         /\ Written(h, e, ptr)[e].type = h[e].type /\ Written(h, e, ptr)[e].ptr = ptr
<1>1. h[e] = [type |-> h[e].type, ptr |-> h[e].ptr, refcount |-> h[e].refcount]
  BY DEF Records
<1> DEFINE g == [h EXCEPT ![e].ptr = ptr]
<1>2. g[e] = [type |-> h[e].type, ptr |-> ptr, refcount |-> h[e].refcount]
  BY <1>1 DEF Records
<1>3. g = [i \in Ids |-> g[i]] /\ \A i \in Ids \ {e} : g[i] = h[i]
  BY DEF Records
<1> HIDE DEF g
<1>4. /\ Records(g) /\ SameBut(h, g, {e})
      /\ g[e].type = h[e].type /\ g[e].ptr = ptr
  BY <1>2, <1>3 DEF Records, SameBut
<1>5. Written(h, e, ptr) = g
  BY DEF g, Written
<1> QED
  BY <1>4, <1>5

-----------------------------------------------------------------------------
(* What waits to be sent                                                   *)

(* A value that waits is what it was when it was queued. *)
LEMMA WaitingAsQueued ==
  /\ Inv => Outgoing = [c \in Clients |-> [n \in DOMAIN reply[c] |-> reply[c][n].was]]
  /\ Sound(heap', dict', reply', Nothing) =>
       Outgoing' = [c \in Clients |-> [n \in DOMAIN reply'[c] |-> reply'[c][n].was]]
<1>1. ASSUME NEW h, NEW d, NEW r, Sound(h, d, r, Nothing)
      PROVE  [c \in Clients |-> [n \in DOMAIN r[c] |-> h[r[c][n].obj].ptr]]
               = [c \in Clients |-> [n \in DOMAIN r[c] |-> r[c][n].was]]
  <2>1. ASSUME NEW c \in Clients PROVE DOMAIN r[c] = 1 .. Len(r[c])
    BY <1>1 DEF Sound, ReplyType
  <2> QED
    BY <1>1, <2>1 DEF Sound, Intact
<1> QED
  BY <1>1 DEF Outgoing, Inv

(* A concatenation, position by position. *)
LEMMA Concat ==
  ASSUME NEW m \in Nat, NEW n \in Nat, NEW s, s = [i \in 1 .. m |-> s[i]],
         NEW t, t = [i \in 1 .. n |-> t[i]]
  PROVE  s \o t = [i \in 1 .. m + n |-> IF i <= m THEN s[i] ELSE t[i - m]]
<1> DEFINE S == {s[i] : i \in 1 .. m} \cup {t[i] : i \in 1 .. n}
<1>1. s \in [1 .. m -> S] /\ t \in [1 .. n -> S]
  OBVIOUS
<1> HIDE DEF S
<1>2. s \in Seq(S) /\ t \in Seq(S) /\ Len(s) = m /\ Len(t) = n
  BY <1>1
<1>3. /\ s \o t \in Seq(S) /\ Len(s \o t) = m + n
      /\ \A i \in 1 .. m + n : (s \o t)[i] = IF i <= m THEN s[i] ELSE t[i - m]
  BY <1>2, ConcatProperties
<1>4. s \o t = [i \in 1 .. m + n |-> (s \o t)[i]]
  BY <1>3
<1> QED
  BY <1>3, <1>4

(* Without a new reply, no value that waits is another. *)
LEMMA NothingSent ==
  ASSUME Inv, Sound(heap', dict', reply', Nothing), reply' = reply
  PROVE  Outgoing' = Outgoing
BY WaitingAsQueued

(* AddReply: the values as they are now wait after those of before. *)
LEMMA ValuesSent ==
  ASSUME Inv, Sound(heap', dict', reply', Nothing), NEW c \in Clients, NEW h,
         NEW os \in Seq(Ids), reply' = [reply EXCEPT ![c] = @ \o Queue(h, os)]
  PROVE  Outgoing' = [Outgoing EXCEPT ![c] = @ \o Values(h, os)]
<1>1. /\ Outgoing = [b \in Clients |-> [n \in DOMAIN reply[b] |-> reply[b][n].was]]
      /\ Outgoing' = [b \in Clients |-> [n \in DOMAIN reply'[b] |-> reply'[b][n].was]]
  BY WaitingAsQueued
<1>2. reply \in [Clients -> Seq([obj : Ids, was : Strings])]
  BY DEF Inv, Sound, ReplyType
<1> DEFINE r == reply[c]
           q == Queue(h, os)
<1>0. r \in Seq([obj : Ids, was : Strings])
  BY <1>2
<1> HIDE DEF r
<1>3. Len(r) \in Nat /\ r = [n \in 1 .. Len(r) |-> r[n]] /\ DOMAIN r = 1 .. Len(r)
  BY <1>0
<1>5. Len(os) \in Nat /\ DOMAIN os = 1 .. Len(os)
  OBVIOUS
<1>4. q = [n \in 1 .. Len(os) |-> [obj |-> os[n], was |-> h[os[n]].ptr]]
  BY <1>5 DEF Queue
<1>6. Values(h, os) = [n \in 1 .. Len(os) |-> h[os[n]].ptr]
  BY <1>5 DEF Values
<1> HIDE DEF q
<1>7. [n \in DOMAIN (r \o q) |-> (r \o q)[n].was]
        = [n \in DOMAIN r |-> r[n].was] \o Values(h, os)
  <2> DEFINE a == [n \in 1 .. Len(r) |-> r[n].was]
             b == Values(h, os)
  <2>0. q = [n \in 1 .. Len(os) |-> q[n]]
    BY <1>4
  <2>1. r \o q = [n \in 1 .. Len(r) + Len(os) |->
                    IF n <= Len(r) THEN r[n] ELSE q[n - Len(r)]]
    BY <1>3, <1>5, <2>0, Concat
  <2>2. a = [n \in 1 .. Len(r) |-> a[n]]
    OBVIOUS
  <2>3. b = [n \in 1 .. Len(os) |-> b[n]]
    BY <1>6
  <2> HIDE DEF b
  <2>4. a \o b = [n \in 1 .. Len(r) + Len(os) |->
                    IF n <= Len(r) THEN a[n] ELSE b[n - Len(r)]]
    <3> HIDE DEF a
    <3> QED
      BY <1>3, <1>5, <2>2, <2>3, Concat
  <2>5. ASSUME NEW n \in 1 .. Len(r) + Len(os)
        PROVE  (r \o q)[n].was = IF n <= Len(r) THEN a[n] ELSE b[n - Len(r)]
    <3>1. CASE n <= Len(r)
      BY <1>3, <2>1, <3>1
    <3>2. CASE ~ n <= Len(r)
      <4>1. n - Len(r) \in 1 .. Len(os)
        BY <1>3, <1>5, <3>2
      <4>2. q[n - Len(r)].was = b[n - Len(r)]
        BY <1>4, <1>6, <4>1 DEF b
      <4> QED
        BY <2>1, <3>2, <4>2
    <3> QED
      BY <3>1, <3>2
  <2>6. a = [n \in DOMAIN r |-> r[n].was]
    BY <1>3
  <2> HIDE DEF a
  <2>7. [n \in DOMAIN (r \o q) |-> (r \o q)[n].was] = a \o b
    BY <2>1, <2>4, <2>5
  <2> QED
    BY <2>6, <2>7 DEF b
<1>8. reply'[c] = r \o q /\ \A b \in Clients \ {c} : reply'[b] = reply[b]
  BY <1>2 DEF r, q
<1>9. ASSUME NEW b \in Clients
      PROVE  Outgoing'[b] = [Outgoing EXCEPT ![c] = @ \o Values(h, os)][b]
  <2>1. CASE b = c
    <3>1. Outgoing[c] = [n \in DOMAIN r |-> r[n].was]
      BY <1>1 DEF r
    <3>2. Outgoing'[c] = [n \in DOMAIN reply'[c] |-> reply'[c][n].was]
      BY <1>1
    <3>3. Outgoing'[c] = [n \in DOMAIN (r \o q) |-> (r \o q)[n].was]
      BY ONLY <1>8, <3>2
    <3> QED
      BY <1>1, <1>7, <2>1, <3>1, <3>3
  <2>2. CASE b # c
    <3>1. /\ Outgoing[b] = [n \in DOMAIN reply[b] |-> reply[b][n].was]
          /\ Outgoing'[b] = [n \in DOMAIN reply'[b] |-> reply'[b][n].was]
      BY <1>1
    <3>2. reply'[b] = reply[b]
      BY <1>8, <2>2
    <3>3. Outgoing'[b] = Outgoing[b]
      BY ONLY <3>1, <3>2
    <3> QED
      BY <1>1, <2>2, <3>3
  <2> QED
    BY ONLY <2>1, <2>2
<1> QED
  BY <1>1, <1>9

-----------------------------------------------------------------------------
(* What a client sees at a key                                             *)

(* Database and Keyspace agree on what is at a key. *)
LEMMA KeyShown ==
  ASSUME Inv, NEW c \in Clients, NEW k \in Keys
  PROVE  /\ selected[c] \in Dbs
         /\ Abstract!At(c, k) = Shown(heap, Entry(c, k))
         /\ Found(c, k) <=> Abstract!At(c, k) # Abstract!None
         /\ \A type \in Types : Abstract!IsType(c, k, type) <=> Holds(c, k, type)
         /\ Holds(c, k, "string") => Abstract!Of(c, k) = Value(c, k)
         /\ Holds(c, k, "list") => Abstract!Of(c, k) = Values(heap, Value(c, k))
         /\ Holds(c, k, "set") => Abstract!Of(c, k) = {heap[m].ptr : m \in Value(c, k)}
<1> DEFINE o == Entry(c, k)
<1>1. /\ selected[c] \in Dbs /\ o = dict[selected[c]][k] /\ o \in Ids \cup {Null}
      /\ Found(c, k) <=> o \in Ids
      /\ Found(c, k) => heap[o].type \in Types
  BY KeyFacts
<1>2. Abstract!At(c, k) = Shown(heap, o)
  <2>1. Abstract!At(c, k) = Contents(dict[selected[c]][k])
    BY <1>1 DEF Abstract!At, Dataset
  <2> QED
    BY <1>1, <2>1, ShownIsContents
<1>3. CASE o = Null
  <2>1. ~ Found(c, k) /\ Null \notin Ids
    BY <1>1, <1>3, KeyspaceAssumption
  <2>2. Shown(heap, o) = <<"none">>
    BY <1>3 DEF Shown
  <2>3. \A type \in Types : ~ Holds(c, k, type) /\ type # "none"
    BY <2>1 DEF Holds, Types, Containers
  <2> QED
    BY <1>1, <1>2, <2>1, <2>2, <2>3 DEF Abstract!None, Abstract!IsType, Types, Containers
<1>4. CASE o # Null
  <2>1. Found(c, k) /\ heap[o].type \in {"string", "list", "set"}
    BY <1>1, <1>4 DEF Types, Containers
  <2>2. /\ heap[o].type = "string" => Shown(heap, o) = <<"string", heap[o].ptr>>
        /\ heap[o].type = "list" => Shown(heap, o) = <<"list", Values(heap, heap[o].ptr)>>
        /\ heap[o].type = "set" => Shown(heap, o) = <<"set", {heap[m].ptr : m \in heap[o].ptr}>>
    BY <1>4 DEF Shown
  <2>3. \A type \in Types : Holds(c, k, type) <=> heap[o].type = type
    BY <2>1 DEF Holds
  <2>4. Value(c, k) = heap[o].ptr
    BY DEF Value
  <2> HIDE DEF o
  <2>5. Abstract!At(c, k)[1] = heap[o].type /\ Abstract!At(c, k) # <<"none">>
    BY <1>2, <2>1, <2>2
  <2>6. \A type \in Types : Abstract!IsType(c, k, type) <=> Holds(c, k, type)
    BY <2>3, <2>5 DEF Abstract!IsType
  <2>7. /\ Holds(c, k, "string") => Abstract!Of(c, k) = Value(c, k)
        /\ Holds(c, k, "list") => Abstract!Of(c, k) = Values(heap, Value(c, k))
        /\ Holds(c, k, "set") => Abstract!Of(c, k) = {heap[m].ptr : m \in Value(c, k)}
    BY <1>2, <2>2, <2>3, <2>4 DEF Abstract!Of, Types, Containers
  <2> QED
    BY <1>1, <1>2, <2>1, <2>5, <2>6, <2>7 DEF o, Abstract!None
<1> QED
  BY <1>3, <1>4

(* What a key holds is a string, a list or a set, if it holds anything. *)
LEMMA TypeShown ==
  ASSUME Inv, NEW c \in Clients, NEW k \in Keys
  PROVE  \/ Abstract!At(c, k) = Abstract!None \/ Abstract!IsType(c, k, "string")
         \/ Abstract!IsType(c, k, "list") \/ Abstract!IsType(c, k, "set")
<1>1. Found(c, k) => heap[Entry(c, k)].type \in {"string", "list", "set"}
  BY KeyFacts DEF Types, Containers
<1>2. Found(c, k) => \E type \in {"string", "list", "set"} : Holds(c, k, type)
  BY <1>1 DEF Holds
<1>3. /\ Found(c, k) <=> Abstract!At(c, k) # Abstract!None
      /\ \A type \in {"string", "list", "set"} :
           Abstract!IsType(c, k, type) <=> Holds(c, k, type)
  BY KeyShown DEF Types, Containers
<1> QED
  BY ONLY <1>2, <1>3

(* A command that leaves the dictionaries alone stores what was there. *)
LEMMA SameEntry ==
  ASSUME Inv, NEW c \in Clients, NEW k \in Keys
  PROVE  dict = [dict EXCEPT ![selected[c]][k] = Entry(c, k)]
<1>1. dict \in [Dbs -> [Keys -> Ids \cup {Null}]] /\ selected[c] \in Dbs
  BY DEF Inv, Sound, DictType
<1> QED
  BY <1>1 DEF Entry

(* The objects of N a command writes to are free ones, the container of    *)
(* its key, which is the value of no other key, and what only such a       *)
(* container has.                                                          *)
Private(n, c, k, N) ==
  \/ heap[n].type \notin Types
  \/ n = Entry(c, k) /\ heap[n].type \in Containers
  \/ InDict(dict, n) = {} /\ Holders(heap, n) \subseteq N

(* A command that writes to private objects changes its own key only. *)
LEMMA Writes ==
  ASSUME Separate, Sound(heap', dict', reply', Nothing), NEW c \in Clients, NEW k \in Keys,
         NEW N \in SUBSET Ids, SameBut(heap, heap', N),
         \A n \in N : Private(n, c, k, N),
         NEW o, dict' = [dict EXCEPT ![selected[c]][k] = o],
         o = Null \/ o = Entry(c, k) \/ (o \in Ids /\ heap[o].type \notin Types),
         \A s \in N : heap'[s].type = "set" => DistinctIn(heap', s)
  PROVE  /\ Dataset' = [Dataset EXCEPT ![selected[c]][k] = Shown(heap', o)]
         /\ Once(dict') /\ Distinct(heap')
<1> DEFINE t == selected[c]
<1>1. /\ Sound(heap, dict, reply, Nothing) /\ HeapType(heap) /\ t \in Dbs
      /\ dict \in [Dbs -> [Keys -> Ids \cup {Null}]] /\ Null \notin Ids
  BY KeyspaceAssumption DEF Separate, Inv, Sound, DictType
<1>2. \A j \in Ids \ N : Members(heap[j]) \cap N = {}
  <2> SUFFICES ASSUME NEW j \in Ids \ N, NEW n \in N, n \in Members(heap[j]) PROVE FALSE
    OBVIOUS
  <2>1. n \in Ids /\ heap[n].type = "string" /\ j \in Holders(heap, n)
    BY <1>1 DEF HeapType, Holders
  <2> QED
    BY <2>1 DEF Types, Containers, Private
<1>3. dict'[t][k] = o
  BY <1>1
<1>4. ASSUME NEW t2 \in Dbs, NEW k2 \in Keys, <<t2, k2>> # <<t, k>>
      PROVE  dict'[t2][k2] = dict[t2][k2]
  BY <1>1, <1>4
<1>5. ASSUME NEW t2 \in Dbs, NEW k2 \in Keys, <<t2, k2>> # <<t, k>>,
             dict[t2][k2] = Entry(c, k)
      PROVE  Entry(c, k) = Null
  <2>1. dict[t][k] = Entry(c, k)
    BY DEF Entry
  <2>2. <<t2, k2>> \in Dbs \X Keys /\ <<t, k>> \in Dbs \X Keys
    BY <1>1
  <2>3. dict[t2][k2] \notin Ids
    BY <1>5, <2>1, <2>2 DEF Separate, Once
  <2> QED
    BY <1>1, <1>5, <2>3
<1>6. ASSUME NEW t2 \in Dbs, NEW k2 \in Keys, <<t2, k2>> # <<t, k>>
      PROVE  dict[t2][k2] \notin N
  <2> SUFFICES ASSUME dict[t2][k2] \in N PROVE FALSE
    OBVIOUS
  <2>1. dict[t2][k2] \in Ids
    OBVIOUS
  <2>2. heap[dict[t2][k2]].type \in Types
    BY <1>1, <2>1, EntryInUse
  <2>3. dict[t2][k2] = Entry(c, k)
    <3>1. <<t2, k2>> \in InDict(dict, dict[t2][k2])
      BY DEF InDict
    <3> QED
      BY <2>2, <3>1 DEF Private
  <2>4. Entry(c, k) = Null
    BY <1>5, <1>6, <2>3
  <2> QED
    BY <1>1, <2>1, <2>3, <2>4
<1>7. Once(dict')
  <2> SUFFICES ASSUME NEW t1 \in Dbs, NEW k1 \in Keys, NEW t2 \in Dbs, NEW k2 \in Keys,
                      dict'[t1][k1] \in Ids, dict'[t1][k1] = dict'[t2][k2]
               PROVE  <<t1, k1>> = <<t2, k2>>
    BY DEF Once
  <2>1. ASSUME NEW t3 \in Dbs, NEW k3 \in Keys, <<t3, k3>> # <<t, k>>, dict[t3][k3] \in Ids
        PROVE  dict[t3][k3] # o
    <3>1. heap[dict[t3][k3]].type \in Types
      BY <1>1, <2>1, EntryInUse
    <3>2. dict[t3][k3] # Entry(c, k)
      BY <1>1, <1>5, <2>1
    <3> QED
      BY <1>1, <2>1, <3>1, <3>2
  <2>2. CASE <<t1, k1>> # <<t, k>> /\ <<t2, k2>> # <<t, k>>
    <3>1. dict'[t1][k1] = dict[t1][k1] /\ dict'[t2][k2] = dict[t2][k2]
      BY <1>4, <2>2
    <3>2. <<t1, k1>> \in Dbs \X Keys /\ <<t2, k2>> \in Dbs \X Keys
      OBVIOUS
    <3>3. dict[t1][k1] \in Ids /\ dict[t1][k1] = dict[t2][k2]
      BY <3>1
    <3> QED
      BY <3>2, <3>3 DEF Separate, Once
  <2>3. CASE <<t1, k1>> = <<t, k>> /\ <<t2, k2>> # <<t, k>>
    BY <1>3, <1>4, <2>1, <2>3
  <2>4. CASE <<t1, k1>> # <<t, k>> /\ <<t2, k2>> = <<t, k>>
    BY <1>3, <1>4, <2>1, <2>4
  <2> QED
    BY <2>2, <2>3, <2>4
<1>8. /\ Dataset' = [Dataset EXCEPT ![t][k] = Shown(heap', dict'[t][k])]
      /\ Distinct(heap')
  <2>1. \A t2 \in Dbs, k2 \in Keys : <<t2, k2>> # <<t, k>> =>
          dict'[t2][k2] = dict[t2][k2] /\ dict[t2][k2] \notin N
    BY <1>4, <1>6
  <2>2. \A s \in N \cap Ids : heap'[s].type = "set" => DistinctIn(heap', s)
    OBVIOUS
  <2>3. t \in Dbs
    BY <1>1
  <2> HIDE DEF t
  <2> QED
    BY <1>2, <2>1, <2>2, <2>3, Effect
<1> QED
  BY <1>3, <1>7, <1>8

(* A step that writes to nothing in use leaves each set as it was. *)
LEMMA StillDistinct ==
  ASSUME Separate, Sound(heap', dict', reply', Nothing), SameBut(heap, heap', {})
  PROVE  Distinct(heap')
<1>1. HeapType(heap) /\ HeapType(heap')
  BY DEF Separate, Inv, Sound
<1>2. ASSUME NEW s \in Ids, heap'[s].type = "set" PROVE DistinctIn(heap', s)
  <2>1. s \in Ids \ {} /\ heap'[s].type \in Types /\ Members(heap[s]) \cap {} = {}
    BY <1>2 DEF Types, Containers
  <2>2. /\ heap'[s].type = heap[s].type /\ heap'[s].ptr = heap[s].ptr
        /\ \A m \in Members(heap[s]) : heap'[m].ptr = heap[m].ptr
    BY <1>1, <2>1, ShownKept
  <2>3. Members(heap[s]) = heap[s].ptr /\ DistinctIn(heap, s)
    BY <1>2, <2>2 DEF Members, Separate, Distinct
  <2> QED
    BY <2>2, <2>3 DEF DistinctIn
<1> QED
  BY <1>2 DEF Distinct

(* A command that writes to no object in use changes nothing. *)
LEMMA WritesNothing ==
  ASSUME Separate, Sound(heap', dict', reply', Nothing), dict' = dict,
         SameBut(heap, heap', {})
  PROVE  Dataset' = Dataset /\ Once(dict') /\ Distinct(heap')
<1>1. SameValues(heap, heap')
  BY DEF SameBut, SameValues
<1>2. Dataset' = Dataset
  BY <1>1, SameDataset DEF Separate
<1> QED
  BY <1>2, StillDistinct DEF Separate

-----------------------------------------------------------------------------
(* Strings                                                                 *)

(* Nothing that a client can see changes. *)
SameData == UNCHANGED <<Dataset, selected, Outgoing>>

(* A string that was created becomes the value of a key. *)
LEMMA StringStored ==
  ASSUME Separate, Sound(heap', dict', reply', Nothing), NEW c \in Clients, NEW k \in Keys,
         NEW o \in Fresh(heap), NEW v, SameBut(Create(heap, o, "string", v), heap', {}),
         dict' = [dict EXCEPT ![selected[c]][k] = o]
  PROVE  /\ Dataset' = [Dataset EXCEPT ![selected[c]][k] = <<"string", v>>]
         /\ Once(dict') /\ Distinct(heap')
<1> DEFINE h == Create(heap, o, "string", v)
<1>1. Records(heap)
  BY HeapRecords DEF Separate, Inv, Sound
<1>2. /\ SameBut(heap, h, {o}) /\ o \in Ids /\ heap[o].type \notin Types
      /\ h[o].type = "string" /\ h[o].ptr = v
  BY <1>1, CreateKeeps
<1>3. SameBut(h, heap', {})
  OBVIOUS
<1> HIDE DEF h
<1>4. SameBut(heap, heap', {o})
  BY <1>2, <1>3, SameThrough
<1>5. selected[c] \in Dbs /\ dict \in [Dbs -> [Keys -> Ids \cup {Null}]]
  BY DEF Separate, Inv, Sound, DictType
<1>6. dict'[selected[c]][k] = o
  BY <1>5
<1>7. heap'[o].type \in Types
  <2>1. dict'[selected[c]][k] \in Ids
    BY <1>2, <1>6
  <2>2. heap'[dict'[selected[c]][k]].type \in Types
    BY <1>5, <2>1, EntryInUse
  <2> QED
    BY <1>6, <2>2
<1>8. heap'[o].type = "string" /\ heap'[o].ptr = v
  BY <1>2, <1>3, <1>7 DEF SameBut
<1>9. o # Null
  BY <1>2, KeyspaceAssumption
<1>10. Shown(heap', o) = <<"string", v>>
  BY <1>8, <1>9 DEF Shown
<1>11. /\ Dataset' = [Dataset EXCEPT ![selected[c]][k] = Shown(heap', o)]
       /\ Once(dict') /\ Distinct(heap')
  <2>1. \A s \in {o} : heap'[s].type = "set" => DistinctIn(heap', s)
    BY <1>8
  <2>2. \A n \in {o} : Private(n, c, k, {o})
    BY <1>2 DEF Private
  <2>3. {o} \in SUBSET Ids
    BY <1>2
  <2>4. o = Null \/ o = Entry(c, k) \/ (o \in Ids /\ heap[o].type \notin Types)
    BY <1>2
  <2> QED
    BY <1>4, <2>1, <2>2, <2>3, <2>4, Writes
<1> QED
  BY <1>10, <1>11

(* An object created and freed by the same command is never seen. *)
LEMMA ProbeLeavesAll ==
  ASSUME Separate, Sound(heap', dict', reply', Nothing), dict' = dict, reply' = reply,
         selected' = selected,
         NEW probe \in Fresh(heap), NEW v \in Strings,
         heap' = DecrRefCount(Create(heap, probe, "string", v), probe)
  PROVE  Once(dict') /\ Distinct(heap') /\ SameData
<1>1. SameValues(heap, heap')
  BY ProbeKeepsValues DEF Separate
<1>2. SameBut(heap, heap', {})
  BY <1>1 DEF SameBut, SameValues
<1>3. Outgoing' = Outgoing
  BY NothingSent DEF Separate
<1>4. Dataset' = Dataset /\ Once(dict') /\ Distinct(heap')
  BY <1>2, WritesNothing
<1> QED
  BY <1>3, <1>4 DEF SameData

(* SET and SETNX: the string is stored, or the key was there. *)
LEMMA SetGenericStep ==
  ASSUME Separate, Sound(heap', dict', reply', Nothing), NEW c \in Clients, NEW k \in Keys,
         NEW v \in Strings, NEW nx, SetGenericCommand(c, k, v, nx)
  PROVE  /\ Once(dict') /\ Distinct(heap')
         /\ Abstract!Store(c, k) \/ SameData
<1>1. PICK o \in Fresh(heap) :
        LET h == Create(heap, o, "string", v) IN
        \/ ~ Found(c, k) /\ heap' = h /\ SetEntry(c, k, o)
        \/ Found(c, k) /\ nx /\ heap' = DecrRefCount(h, o) /\ dict' = dict
        \/ /\ Found(c, k) /\ ~ nx
           /\ heap' = DecrRefCount(h, Entry(c, k)) /\ SetEntry(c, k, o)
  BY DEF SetGenericCommand
<1>2. selected' = selected /\ reply' = reply
  BY DEF SetGenericCommand
<1> DEFINE h == Create(heap, o, "string", v)
<1>3. CASE heap' = DecrRefCount(h, o) /\ dict' = dict
  BY <1>2, <1>3, ProbeLeavesAll
<1>4. CASE SetEntry(c, k, o) /\ (heap' = h \/ heap' = DecrRefCount(h, Entry(c, k)))
  <2>1. Records(heap)
    BY HeapRecords DEF Separate, Inv, Sound
  <2>2. Records(h)
    BY <2>1, CreateKeeps
  <2>3. SameBut(h, heap', {})
    <3> HIDE DEF h
    <3>1. SameBut(h, h, {})
      BY DEF SameBut
    <3> QED
      BY <1>4, <2>2, <3>1, DecrRefCountKeeps
  <2>4. dict' = [dict EXCEPT ![selected[c]][k] = o]
    BY <1>4 DEF SetEntry
  <2>5. /\ Dataset' = [Dataset EXCEPT ![selected[c]][k] = <<"string", v>>]
        /\ Once(dict') /\ Distinct(heap')
    BY <2>3, <2>4, StringStored
  <2>6. Outgoing' = Outgoing
    BY <1>2, NothingSent DEF Separate
  <2> QED
    BY <1>2, <2>5, <2>6
       DEF Abstract!Store, Abstract!OnlyData, Abstract!Put, Abstract!String, Abstract!Strings,
           Strings
<1> QED
  BY <1>1, <1>3, <1>4

(* GET: the value of the key waits to be sent. *)
LEMMA GetStep ==
  ASSUME Separate, Sound(heap', dict', reply', Nothing), NEW c \in Clients, NEW k \in Keys,
         GetCommand(c, k)
  PROVE  Once(dict') /\ Distinct(heap') /\ Abstract!Get(c, k)
<1> DEFINE os == <<Entry(c, k)>>
<1>1. /\ Holds(c, k, "string") /\ heap' = Retain(heap, os)
      /\ reply' = [reply EXCEPT ![c] = @ \o Queue(heap, os)]
      /\ dict' = dict /\ selected' = selected
  BY DEF GetCommand, AddReply, NoChange
<1>2. Records(heap) /\ Inv
  BY HeapRecords DEF Separate, Inv, Sound
<1>3. SameBut(heap, heap', {})
  BY <1>1, <1>2, RetainKeeps
<1>4. Dataset' = Dataset /\ Once(dict') /\ Distinct(heap')
  BY <1>1, <1>3, WritesNothing
<1>5. Entry(c, k) \in Ids
  BY <1>1, <1>2, KeyFacts DEF Holds
<1>6. os \in Seq(Ids)
  BY <1>5
<1>7. Values(heap, os) = <<Value(c, k)>>
  BY DEF Values, Value
<1> HIDE DEF os
<1>8. Outgoing' = [Outgoing EXCEPT ![c] = @ \o Values(heap, os)]
  BY <1>1, <1>2, <1>6, ValuesSent
<1>9. Abstract!IsType(c, k, "string") /\ Abstract!Of(c, k) = Value(c, k)
  BY <1>1, <1>2, KeyShown DEF Types
<1> QED
  BY <1>1, <1>4, <1>7, <1>8, <1>9 DEF Abstract!Get, Abstract!OnlyOut, Abstract!Send

(* DEL: the key is empty. *)
LEMMA DelStep ==
  ASSUME Separate, Sound(heap', dict', reply', Nothing), NEW c \in Clients, NEW k \in Keys,
         DelCommand(c, k)
  PROVE  Once(dict') /\ Distinct(heap') /\ Abstract!Delete(c, k)
<1>1. /\ Found(c, k) /\ heap' = DecrRefCount(heap, Entry(c, k))
      /\ dict' = [dict EXCEPT ![selected[c]][k] = Null]
      /\ selected' = selected /\ reply' = reply
  BY DEF DelCommand, SetEntry
<1>2. Records(heap) /\ Inv
  BY HeapRecords DEF Separate, Inv, Sound
<1>3. SameBut(heap, heap', {})
  BY <1>1, <1>2, DecrRefCountKeeps
<1>4. /\ Dataset' = [Dataset EXCEPT ![selected[c]][k] = Shown(heap', Null)]
      /\ Once(dict') /\ Distinct(heap')
  <2>1. {} \in SUBSET Ids
    OBVIOUS
  <2>2. \A n \in {} : Private(n, c, k, {})
    OBVIOUS
  <2>3. \A s \in {} : heap'[s].type = "set" => DistinctIn(heap', s)
    OBVIOUS
  <2> QED
    BY <1>1, <1>3, <2>1, <2>2, <2>3, Writes
<1>5. Shown(heap', Null) = <<"none">>
  BY DEF Shown
<1>6. Outgoing' = Outgoing
  BY <1>1, <1>2, NothingSent
<1>7. Abstract!At(c, k) # Abstract!None
  BY <1>1, <1>2, KeyShown
<1> QED
  BY <1>1, <1>4, <1>5, <1>6, <1>7
     DEF Abstract!Delete, Abstract!OnlyData, Abstract!Put, Abstract!None

(* INCR and DECR: the new number is stored, and shared with the reply. *)
LEMMA IncrDecrStep ==
  ASSUME Separate, Sound(heap', dict', reply', Nothing), NEW c \in Clients, NEW k \in Keys,
         NEW incr \in {1, -1}, IncrDecrCommand(c, k, incr)
  PROVE  /\ Once(dict') /\ Distinct(heap')
         /\ Abstract!Count(c, k) \/ Abstract!CountOver(c, k)
<1> DEFINE value == NumberOf(c, k) + incr
<1>1. PICK o \in Fresh(heap) :
        LET h == Create(heap, o, "string", value)
            replaced == IF Found(c, k) THEN DecrRefCount(h, Entry(c, k)) ELSE h
        IN /\ heap' = Retain(replaced, <<o>>)
           /\ AddReply(c, h, <<o>>)
           /\ SetEntry(c, k, o)
  BY DEF IncrDecrCommand
<1>2. selected' = selected
  BY DEF IncrDecrCommand
<1> DEFINE h == Create(heap, o, "string", value)
           replaced == IF Found(c, k) THEN DecrRefCount(h, Entry(c, k)) ELSE h
           os == <<o>>
<1>3. /\ heap' = Retain(replaced, os) /\ dict' = [dict EXCEPT ![selected[c]][k] = o]
      /\ reply' = [reply EXCEPT ![c] = @ \o Queue(h, os)]
  BY <1>1 DEF AddReply, SetEntry
<1>4. Records(heap) /\ Inv
  BY HeapRecords DEF Separate, Inv, Sound
<1>5. Records(h) /\ o \in Ids /\ h[o].ptr = value
  <2> HIDE DEF value, os, replaced
  <2>1. /\ Records(h) /\ SameBut(heap, h, {o})
        /\ o \in Ids /\ heap[o].type \notin Types /\ h[o].type = "string" /\ h[o].ptr = value
    BY <1>4, CreateKeeps
  <2> QED
    BY <2>1
<1>6. SameBut(h, heap', {})
  <2> HIDE DEF h, os
  <2>1. SameBut(h, h, {})
    BY DEF SameBut
  <2>2. Records(replaced) /\ SameBut(h, replaced, {})
    BY <1>5, <2>1, DecrRefCountKeeps
  <2> HIDE DEF replaced
  <2>3. SameBut(replaced, heap', {})
    BY <1>3, <2>2, RetainKeeps
  <2>4. SameBut(h, heap', {} \cup {})
    BY <2>2, <2>3, SameThrough
  <2> QED
    BY <2>4
<1>7. /\ Dataset' = [Dataset EXCEPT ![selected[c]][k] = <<"string", value>>]
      /\ Once(dict') /\ Distinct(heap')
  <2> HIDE DEF value, os
  <2> QED
    BY <1>3, <1>6, StringStored
<1>8. os \in Seq(Ids)
  BY <1>5
<1>9. Values(h, os) = <<value>>
  <2> HIDE DEF h, value
  <2> QED
    BY <1>5 DEF Values
<1>10. Outgoing' = [Outgoing EXCEPT ![c] = @ \o <<value>>]
  <2> HIDE DEF h, value, os
  <2>1. Outgoing' = [Outgoing EXCEPT ![c] = @ \o Values(h, os)]
    BY <1>3, <1>4, <1>8, ValuesSent
  <2> QED
    BY <1>9, <2>1
<1> DEFINE number == IF Abstract!IsType(c, k, "string") /\ Abstract!Of(c, k) \in Numbers
                       THEN Abstract!Of(c, k) ELSE 0
<1>11. number = NumberOf(c, k)
  BY <1>4, KeyShown DEF NumberOf, Types
<1>12. number \in Int
  BY KeyspaceAssumption
<1> HIDE DEF number
<1>13. value \in {number + 1, number - 1}
  BY <1>11, <1>12
<1> HIDE DEF value
<1>14. Abstract!Send(c, {<<value>>}) /\ Abstract!Put(c, k, {Abstract!String(value)})
  BY <1>7, <1>10 DEF Abstract!Send, Abstract!Put, Abstract!String
<1>15. Abstract!CountFrom(c, k, number)
  BY <1>2, <1>13, <1>14 DEF Abstract!CountFrom
<1>16. \/ Abstract!At(c, k) = Abstract!None \/ Abstract!IsType(c, k, "string")
       \/ Abstract!IsType(c, k, "list") \/ Abstract!IsType(c, k, "set")
  BY <1>4, TypeShown
<1>17. CASE Abstract!IsType(c, k, "string")
  BY <1>7, <1>15, <1>17 DEF Abstract!Count, number
<1>18. CASE ~ Abstract!IsType(c, k, "string")
  <2>1. number = 0
    BY <1>18 DEF number
  <2>2. Abstract!CountFrom(c, k, 0)
    BY <1>15, <2>1
  <2> QED
    BY <1>7, <1>16, <1>18, <2>2 DEF Abstract!Count, Abstract!CountOver
<1> QED
  BY <1>17, <1>18

-----------------------------------------------------------------------------
(* Lists                                                                   *)

(* A container that is written to stays in use, and so do its members. *)
LEMMA ContainerWritten ==
  ASSUME Separate, Sound(heap', dict', reply', Nothing), NEW c \in Clients, NEW k \in Keys,
         NEW e \in Ids, dict'[selected[c]][k] = e,
         NEW N, SameBut(heap, heap', N), NEW g, SameBut(g, heap', {})
  PROVE  /\ heap'[e].type \in Types /\ heap'[e].type = g[e].type /\ heap'[e].ptr = g[e].ptr
         /\ \A m \in Members(heap'[e]) :
              /\ m \in Ids /\ heap'[m].type = "string" /\ heap'[m].ptr = g[m].ptr
              /\ m \notin N => heap'[m].ptr = heap[m].ptr
<1>1. selected[c] \in Dbs /\ HeapType(heap')
  BY DEF Separate, Inv, Sound
<1>2. heap'[e].type \in Types
  <2>1. dict'[selected[c]][k] \in Ids
    OBVIOUS
  <2>2. heap'[dict'[selected[c]][k]].type \in Types
    BY <1>1, <2>1, EntryInUse
  <2> QED
    BY <2>2
<1>3. ASSUME NEW m \in Members(heap'[e]) PROVE m \in Ids /\ heap'[m].type = "string"
  <2>1. Object(heap'[e])
    BY <1>1 DEF HeapType
  <2>2. m \in Ids
    BY <2>1 DEF Object, Members, IsList, Range
  <2> QED
    BY <1>1, <2>2 DEF HeapType
<1> QED
  BY <1>2, <1>3 DEF SameBut, Types

(* An object with one reference, from a container, is nowhere else. *)
LEMMA OnlyHolder ==
  ASSUME Inv, NEW i \in Ids, heap[i].refcount = 1, NEW j \in Ids, i \in Members(heap[j])
  PROVE  InDict(dict, i) = {} /\ Holders(heap, i) = {j}
<1>1. /\ IsFiniteSet(InDict(dict, i)) /\ Cardinality(InDict(dict, i)) \in Nat
      /\ IsFiniteSet(Holders(heap, i)) /\ Cardinality(Holders(heap, i)) \in Nat
      /\ IsFiniteSet(InReplies(reply, i)) /\ Cardinality(InReplies(reply, i)) \in Nat
  BY CountsFinite DEF Inv, Sound
<1>2. 1 = Cardinality(InDict(dict, i)) + Cardinality(Holders(heap, i))
            + Cardinality(InReplies(reply, i)) + 0
  BY DEF Inv, Sound, Balanced, Places, Nothing
<1>3. j \in Holders(heap, i)
  BY DEF Holders
<1>4. Cardinality(Holders(heap, i)) # 0
  BY <1>1, <1>3, FS_EmptySet
<1>5. Cardinality(Holders(heap, i)) = 1 /\ Cardinality(InDict(dict, i)) = 0
  BY <1>1, <1>2, <1>4
<1>6. PICK x : Holders(heap, i) = {x}
  BY <1>1, <1>5, FS_Singleton
<1> QED
  BY <1>1, <1>3, <1>5, <1>6, FS_EmptySet

(* The values of a list are as many as its elements. *)
LEMMA ValuesOfList ==
  ASSUME NEW h, NEW l, l \in Seq(Ids)
  PROVE  /\ Len(l) \in Nat /\ DOMAIN l = 1 .. Len(l)
         /\ Values(h, l) = [n \in 1 .. Len(l) |-> h[l[n]].ptr]
         /\ Values(h, l) \in Seq(Range(Values(h, l)))
         /\ Len(Values(h, l)) = Len(l) /\ DOMAIN Values(h, l) = 1 .. Len(l)
         /\ \A n \in 1 .. Len(l) : Values(h, l)[n] = h[l[n]].ptr
<1>1. Len(l) \in Nat /\ DOMAIN l = 1 .. Len(l)
  OBVIOUS
<1>2. Values(h, l) = [n \in 1 .. Len(l) |-> h[l[n]].ptr]
  BY <1>1 DEF Values
<1>3. Values(h, l) \in Seq(Range(Values(h, l))) /\ Len(Values(h, l)) = Len(l)
  BY <1>1, <1>2 DEF Range
<1> QED
  BY <1>1, <1>2, <1>3

(* An element pushed at either end is a value at that end. *)
LEMMA ValuesAtEnd ==
  ASSUME NEW h, NEW h2, NEW l, IsList(l), NEW el \in Ids,
         \A m \in Range(l) : h2[m].ptr = h[m].ptr
  PROVE  /\ Values(h2, <<el>> \o l) = <<h2[el].ptr>> \o Values(h, l)
         /\ Values(h2, Append(l, el)) = Append(Values(h, l), h2[el].ptr)
<1>1. /\ l \in Seq(Ids) /\ Len(l) \in Nat /\ DOMAIN l = 1 .. Len(l)
      /\ \A n \in 1 .. Len(l) : l[n] \in Ids /\ l[n] \in Range(l)
  BY ListFacts
<1> DEFINE vs == Values(h, l)
<1>6. Values(h, l) = [n \in 1 .. Len(l) |-> h[l[n]].ptr]
  BY <1>1, ValuesOfList
<1>7. vs = [n \in 1 .. Len(l) |-> vs[n]]
  BY <1>6
<1>8. /\ vs \in Seq(Range(vs)) /\ Len(vs) = Len(l)
      /\ \A n \in 1 .. Len(l) : vs[n] = h[l[n]].ptr
  <2>1. l \in Seq(Ids)
    BY <1>1
  <2> QED
    BY ONLY <2>1, ValuesOfList
<1> DEFINE v == h2[el].ptr
<1> HIDE DEF vs
<1>2. /\ vs \in Seq(Range(vs)) /\ Len(vs) = Len(l)
      /\ vs = [n \in 1 .. Len(l) |-> vs[n]]
      /\ \A n \in 1 .. Len(l) : vs[n] = h[l[n]].ptr
  BY <1>7, <1>8
<1>3. \A n \in 1 .. Len(l) : h2[l[n]].ptr = vs[n]
  BY <1>1, <1>2
<1>4. Values(h2, <<el>> \o l) = <<v>> \o vs
  <2> DEFINE s == <<el>> \o l
             t == <<v>> \o vs
  <2>1. s = [n \in 1 .. 1 + Len(l) |-> IF n <= 1 THEN <<el>>[n] ELSE l[n - 1]]
    <3>1. l = [n \in 1 .. Len(l) |-> l[n]] /\ <<el>> = [n \in 1 .. 1 |-> <<el>>[n]]
      BY <1>1
    <3> QED
      BY <1>1, <3>1, Concat
  <2>2. t = [n \in 1 .. 1 + Len(l) |-> IF n <= 1 THEN <<v>>[n] ELSE vs[n - 1]]
    <3>1. <<v>> = [n \in 1 .. 1 |-> <<v>>[n]]
      OBVIOUS
    <3> QED
      BY <1>1, <1>2, <3>1, Concat
  <2>3. Values(h2, s) = [n \in 1 .. 1 + Len(l) |-> h2[s[n]].ptr]
    BY <2>1 DEF Values
  <2>4. ASSUME NEW n \in 1 .. 1 + Len(l) PROVE h2[s[n]].ptr = t[n]
    <3>1. CASE n <= 1
      <4>1. n = 1 /\ s[n] = el /\ t[n] = v
        BY <1>1, <2>1, <2>2, <3>1
      <4> QED
        BY <4>1
    <3>2. CASE ~ n <= 1
      <4>1. n - 1 \in 1 .. Len(l)
        BY <1>1, <3>2
      <4>2. s[n] = l[n - 1] /\ t[n] = vs[n - 1]
        BY <2>1, <2>2, <3>2
      <4> QED
        BY <1>3, <4>1, <4>2
    <3> QED
      BY <3>1, <3>2
  <2>5. t = [n \in 1 .. 1 + Len(l) |-> t[n]]
    BY <2>2
  <2> HIDE DEF s, t
  <2>6. Values(h2, s) = t
    BY <2>3, <2>4, <2>5
  <2> QED
    BY <2>6 DEF s, t
<1>5. Values(h2, Append(l, el)) = Append(vs, v)
  <2> DEFINE s == Append(l, el)
             t == Append(vs, v)
  <2>1. s = [n \in 1 .. Len(l) + 1 |-> IF n = Len(l) + 1 THEN el ELSE l[n]]
    <3>1. /\ s \in Seq(Ids) /\ Len(s) = Len(l) + 1 /\ s[Len(l) + 1] = el
          /\ \A n \in 1 .. Len(l) : s[n] = l[n]
      BY <1>1, AppendProperties
    <3> HIDE DEF s
    <3>2. s = [n \in 1 .. Len(l) + 1 |-> s[n]]
      <4>1. s \in [1 .. Len(s) -> Ids]
        BY <3>1, LenProperties
      <4> QED
        BY <3>1, <4>1
    <3>3. ASSUME NEW n \in 1 .. Len(l) + 1
          PROVE  s[n] = IF n = Len(l) + 1 THEN el ELSE l[n]
      BY <1>1, <3>1
    <3> QED
      BY <3>2, <3>3
  <2>2. t = [n \in 1 .. Len(l) + 1 |-> IF n = Len(l) + 1 THEN v ELSE vs[n]]
    BY <1>1, <1>2
  <2>3. Values(h2, s) = [n \in 1 .. Len(l) + 1 |-> h2[s[n]].ptr]
    BY <2>1 DEF Values
  <2>4. ASSUME NEW n \in 1 .. Len(l) + 1 PROVE h2[s[n]].ptr = t[n]
    <3>1. CASE n = Len(l) + 1
      BY <2>1, <2>2, <3>1
    <3>2. CASE n # Len(l) + 1
      <4>1. n \in 1 .. Len(l)
        BY <1>1, <3>2
      <4>2. s[n] = l[n] /\ t[n] = vs[n]
        BY <2>1, <2>2, <3>2
      <4> QED
        BY <1>3, <4>1, <4>2
    <3> QED
      BY <3>1, <3>2
  <2>5. t = [n \in 1 .. Len(l) + 1 |-> t[n]]
    BY <2>2
  <2> HIDE DEF s, t
  <2>6. Values(h2, s) = t
    BY <2>3, <2>4, <2>5
  <2> QED
    BY <2>6 DEF s, t
<1> QED
  BY <1>4, <1>5 DEF vs

(* What a command makes of a list; g is the heap before it frees objects. *)
LEMMA ListWritten ==
  ASSUME Separate, Sound(heap', dict', reply', Nothing), NEW c \in Clients, NEW k \in Keys,
         Holds(c, k, "list"), dict' = dict,
         NEW N \in SUBSET Ids, SameBut(heap, heap', N), \A n \in N : Private(n, c, k, N),
         NEW g, SameBut(g, heap', {}), NEW l,
         g[Entry(c, k)].type = "list", g[Entry(c, k)].ptr = l,
         \A s \in N \ {Entry(c, k)} : heap'[s].type # "set"
  PROVE  /\ Dataset' = [Dataset EXCEPT ![selected[c]][k] = <<"list", Values(g, l)>>]
         /\ Once(dict') /\ Distinct(heap') /\ IsList(l)
         /\ \A m \in Range(l) : m \in Ids /\ (m \notin N => g[m].ptr = heap[m].ptr)
<1> DEFINE e == Entry(c, k)
<1>1. e \in Ids /\ dict = [dict EXCEPT ![selected[c]][k] = e]
  BY FoundList, SameEntry DEF Separate
<1>2. dict'[selected[c]][k] = e /\ HeapType(heap') /\ Null \notin Ids
  BY KeyspaceAssumption DEF Entry, Sound
<1>3. /\ heap'[e].type = "list" /\ heap'[e].ptr = l
      /\ \A m \in Members(heap'[e]) :
           m \in Ids /\ heap'[m].ptr = g[m].ptr /\ (m \notin N => heap'[m].ptr = heap[m].ptr)
  <2>1. g[e].type = "list" /\ g[e].ptr = l
    OBVIOUS
  <2> HIDE DEF e
  <2> QED
    BY <1>1, <1>2, <2>1, ContainerWritten
<1>4. Members(heap'[e]) = Range(l) /\ IsList(l)
  BY <1>1, <1>2, <1>3 DEF Members, HeapType, Object
<1>5. Values(heap', l) = Values(g, l)
  <2>1. \A n \in DOMAIN l : l[n] \in Range(l)
    BY DEF Range
  <2>2. \A n \in DOMAIN l : heap'[l[n]].ptr = g[l[n]].ptr
    BY <1>3, <1>4, <2>1
  <2> QED
    BY <2>2 DEF Values
<1>6. Shown(heap', e) = <<"list", Values(g, l)>>
  BY <1>1, <1>2, <1>3, <1>5 DEF Shown
<1>7. /\ Dataset' = [Dataset EXCEPT ![selected[c]][k] = Shown(heap', e)]
      /\ Once(dict') /\ Distinct(heap')
  <2>1. dict' = [dict EXCEPT ![selected[c]][k] = e]
    BY <1>1
  <2>2. \A s \in N : heap'[s].type = "set" => DistinctIn(heap', s)
    BY <1>3
  <2>3. e = Null \/ e = Entry(c, k) \/ (e \in Ids /\ heap[e].type \notin Types)
    OBVIOUS
  <2>4. /\ Separate /\ Sound(heap', dict', reply', Nothing) /\ c \in Clients /\ k \in Keys
        /\ N \in SUBSET Ids /\ SameBut(heap, heap', N) /\ \A n \in N : Private(n, c, k, N)
    OBVIOUS
  <2> HIDE DEF e
  <2> QED
    BY ONLY <2>1, <2>2, <2>3, <2>4, Writes
<1> QED
  BY <1>3, <1>4, <1>6, <1>7

(* A pushed value, at either end, is what Database allows. *)
LEMMA PushOne ==
  ASSUME NEW c \in Clients, NEW k \in Keys, NEW v \in Strings, NEW l,
         \/ l = Abstract!List(<<v>> \o Abstract!Elements(c, k))
         \/ l = Abstract!List(Append(Abstract!Elements(c, k), v)),
         Abstract!At(c, k) = Abstract!None \/ Abstract!IsType(c, k, "list"),
         selected' = selected, Outgoing' = Outgoing,
         Dataset' = [Dataset EXCEPT ![selected[c]][k] = l]
  PROVE  Abstract!Push(c, k)
<1>1. v \in Abstract!Strings
  BY DEF Abstract!Strings, Strings
<1>2. l \in UNION {{Abstract!List(<<x>> \o Abstract!Elements(c, k)),
                    Abstract!List(Append(Abstract!Elements(c, k), x))} : x \in Abstract!Strings}
  BY <1>1
<1>3. Abstract!Put(c, k, UNION {{Abstract!List(<<x>> \o Abstract!Elements(c, k)),
                    Abstract!List(Append(Abstract!Elements(c, k), x))} : x \in Abstract!Strings})
  BY <1>2 DEF Abstract!Put
<1> QED
  BY <1>3 DEF Abstract!Push, Abstract!OnlyData

(* LPUSH and RPUSH: a new list, a longer one, or a value of another type. *)
LEMMA PushStep ==
  ASSUME Separate, Sound(heap', dict', reply', Nothing), NEW c \in Clients, NEW k \in Keys,
         NEW v \in Strings, NEW where, PushGenericCommand(c, k, v, where)
  PROVE  /\ Once(dict') /\ Distinct(heap')
         /\ Abstract!Push(c, k) \/ SameData
<1>1. PICK el \in Fresh(heap) :
        LET h == Create(heap, el, "string", v) IN
        \/ /\ ~ Found(c, k)
           /\ \E o \in Fresh(h) : heap' = Create(h, o, "list", <<el>>) /\ SetEntry(c, k, o)
        \/ heap' = DecrRefCount(h, el) /\ dict' = dict
        \/ /\ Holds(c, k, "list")
           /\ heap' = [h EXCEPT ![Entry(c, k)].ptr = AtEnd(@, el, where)]
           /\ dict' = dict
  BY DEF PushGenericCommand
<1>2. selected' = selected /\ reply' = reply
  BY DEF PushGenericCommand
<1> DEFINE h == Create(heap, el, "string", v)
<1>3. Records(heap) /\ Inv
  BY HeapRecords DEF Separate, Inv, Sound
<1>4. /\ Records(h) /\ SameBut(heap, h, {el}) /\ el \in Ids /\ heap[el].type \notin Types
      /\ h[el].type = "string" /\ h[el].ptr = v
  BY <1>3, CreateKeeps
<1>5. \A i \in Ids \ {el} : h[i] = heap[i]
  BY DEF Create
<1>6. Outgoing' = Outgoing
  BY <1>2, <1>3, NothingSent
<1>7. CASE heap' = DecrRefCount(h, el) /\ dict' = dict
  BY <1>2, <1>7, ProbeLeavesAll
<1>8. CASE ~ Found(c, k) /\ \E o \in Fresh(h) : heap' = Create(h, o, "list", <<el>>) /\ SetEntry(c, k, o)
  <2> HIDE DEF h
  <2>1. PICK o \in Fresh(h) : heap' = Create(h, o, "list", <<el>>) /\ SetEntry(c, k, o)
    BY <1>8
  <2>2. /\ SameBut(h, heap', {o}) /\ o \in Ids /\ h[o].type \notin Types
        /\ heap'[o].type = "list" /\ heap'[o].ptr = <<el>>
    BY <1>4, <2>1, CreateKeeps
  <2>3. o # el /\ heap[o].type \notin Types
    BY <1>4, <1>5, <2>2 DEF Types
  <2>4. heap'[el].type = "string" /\ heap'[el].ptr = v
    <3>1. heap'[el] = h[el]
      BY <1>4, <2>1, <2>3 DEF Create
    <3> QED
      BY <1>4, <3>1
  <2>5. /\ Dataset' = [Dataset EXCEPT ![selected[c]][k] = Shown(heap', o)]
        /\ Once(dict') /\ Distinct(heap')
    <3> DEFINE N == {el} \cup {o}
    <3>1. SameBut(heap, heap', N)
      BY <1>4, <2>2, SameThrough
    <3>2. \A n \in N : Private(n, c, k, N)
      BY <1>4, <2>3 DEF Private
    <3>3. \A s \in N : heap'[s].type = "set" => DistinctIn(heap', s)
      BY <2>2, <2>4
    <3>4. N \in SUBSET Ids
      BY <1>4, <2>2
    <3>5. dict' = [dict EXCEPT ![selected[c]][k] = o]
      BY <2>1 DEF SetEntry
    <3>6. o = Null \/ o = Entry(c, k) \/ (o \in Ids /\ heap[o].type \notin Types)
      BY <2>2, <2>3
    <3> HIDE DEF N
    <3> QED
      BY <3>1, <3>2, <3>3, <3>4, <3>5, <3>6, Writes
  <2>6. Shown(heap', o) = <<"list", <<v>>>>
    <3>1. Values(heap', <<el>>) = <<v>>
      BY <2>4 DEF Values
    <3>2. o # Null
      BY <2>2, KeyspaceAssumption
    <3> QED
      BY <2>2, <3>1, <3>2 DEF Shown
  <2>7. Abstract!At(c, k) = Abstract!None
    BY <1>3, <1>8, KeyShown
  <2>8. Abstract!Elements(c, k) = <<>> /\ Append(<<>>, v) = <<v>>
    BY <2>7 DEF Abstract!Elements
  <2>9. Abstract!List(Append(Abstract!Elements(c, k), v)) = <<"list", <<v>>>>
    BY <2>8 DEF Abstract!List
  <2> QED
    BY <1>2, <1>6, <2>5, <2>6, <2>7, <2>9, PushOne
<1>9. CASE /\ Holds(c, k, "list") /\ dict' = dict
           /\ heap' = [h EXCEPT ![Entry(c, k)].ptr = AtEnd(@, el, where)]
  <2> DEFINE e == Entry(c, k)
             list == Value(c, k)
             l2 == AtEnd(list, el, where)
             N == {el} \cup {e}
  <2>1. /\ e \in Ids /\ heap[e].type = "list" /\ list = heap[e].ptr /\ IsList(list)
        /\ \A m \in Range(list) : heap[m].type = "string"
    BY <1>3, <1>9, FoundList
  <2>2. h[e] = heap[e] /\ e # el
    BY <1>4, <1>5, <2>1 DEF Types, Containers
  <2>3. heap' = [h EXCEPT ![e].ptr = l2]
    BY <1>9, <2>1, <2>2
  <2> HIDE DEF h, e, list, l2, N
  <2>4. /\ SameBut(h, heap', {e}) /\ heap'[e].type = "list" /\ heap'[e].ptr = l2
    <3>1. /\ SameBut(h, Written(h, e, l2), {e})
          /\ Written(h, e, l2)[e].type = h[e].type /\ Written(h, e, l2)[e].ptr = l2
      BY <1>4, <2>1, SetPtrKeeps
    <3>2. heap' = Written(h, e, l2)
      BY <2>3 DEF Written
    <3> QED
      BY <2>1, <2>2, <3>1, <3>2
  <2>5. /\ Dataset' = [Dataset EXCEPT ![selected[c]][k] = <<"list", Values(heap', l2)>>]
        /\ Once(dict') /\ Distinct(heap')
        /\ \A m \in Range(l2) : m \in Ids /\ (m \notin N => heap'[m].ptr = heap[m].ptr)
    <3>1. SameBut(heap, heap', N)
      BY <1>4, <2>4, SameThrough DEF N
    <3>2. \A n \in N : Private(n, c, k, N)
      BY <1>4, <2>1 DEF Private, N, e, Containers
    <3>3. \A s \in N \ {Entry(c, k)} : heap'[s].type # "set"
      BY <1>4, <2>2, <2>3 DEF N, e
    <3>4. N \in SUBSET Ids
      BY <1>4, <2>1 DEF N
    <3>5. SameBut(heap', heap', {})
      BY DEF SameBut
    <3>6. heap'[Entry(c, k)].type = "list" /\ heap'[Entry(c, k)].ptr = l2
      BY <2>4 DEF e
    <3>7. /\ Separate /\ Sound(heap', dict', reply', Nothing) /\ c \in Clients /\ k \in Keys
          /\ Holds(c, k, "list") /\ dict' = dict
      BY <1>9
    <3> QED
      BY ONLY <3>1, <3>2, <3>3, <3>4, <3>5, <3>6, <3>7, ListWritten
  <2>6. heap'[el].ptr = v
    BY <1>4, <2>2, <2>3
  <2>7. \A m \in Range(list) : heap'[m].ptr = heap[m].ptr
    <3>1. \A m \in Range(list) : m \in Range(l2)
      BY <1>4, <2>1, ListEnds DEF l2, Types
    <3>2. \A m \in Range(list) : m \notin N
      BY <1>4, <2>1 DEF N, Types
    <3> QED
      BY <2>5, <3>1, <3>2
  <2>8. \/ Values(heap', l2) = <<v>> \o Values(heap, list)
        \/ Values(heap', l2) = Append(Values(heap, list), v)
    <3>1. /\ Values(heap', <<el>> \o list) = <<heap'[el].ptr>> \o Values(heap, list)
          /\ Values(heap', Append(list, el)) = Append(Values(heap, list), heap'[el].ptr)
      <4>1. IsList(list) /\ el \in Ids
        BY <1>4, <2>1
      <4> QED
        BY ONLY <2>7, <4>1, ValuesAtEnd
    <3> QED
      BY <2>6, <3>1 DEF l2, AtEnd
  <2>9. Abstract!IsType(c, k, "list") /\ Abstract!At(c, k) # Abstract!None
        /\ Abstract!Elements(c, k) = Values(heap, list)
    BY <1>3, <1>9, KeyShown DEF Abstract!Elements, Types, Containers, list, Holds
  <2>10. \/ <<"list", Values(heap', l2)>> = Abstract!List(<<v>> \o Abstract!Elements(c, k))
         \/ <<"list", Values(heap', l2)>> = Abstract!List(Append(Abstract!Elements(c, k), v))
    BY <2>8, <2>9 DEF Abstract!List
  <2> QED
    BY <1>2, <1>6, <2>5, <2>9, <2>10, PushOne
<1> QED
  BY <1>1, <1>7, <1>8, <1>9

(* Elements that keep their values make up the same list of values. *)
LEMMA SameValuesOf ==
  ASSUME NEW h, NEW g, NEW l, \A m \in Range(l) : g[m].ptr = h[m].ptr
  PROVE  Values(g, l) = Values(h, l)
<1>1. \A n \in DOMAIN l : l[n] \in Range(l)
  BY DEF Range
<1>2. \A n \in DOMAIN l : g[l[n]].ptr = h[l[n]].ptr
  BY <1>1
<1> QED
  BY <1>2 DEF Values

(* A list and its values have the same ends. *)
LEMMA ValuesOfRest ==
  ASSUME NEW h, NEW l, IsList(l), l # <<>>
  PROVE  /\ Values(h, l) # <<>>
         /\ h[Head(l)].ptr = Head(Values(h, l)) /\ Values(h, Tail(l)) = Tail(Values(h, l))
         /\ h[Last(l)].ptr = Abstract!Last(Values(h, l))
         /\ Values(h, Front(l)) = Abstract!Front(Values(h, l))
<1> DEFINE n == Len(l)
           vs == Values(h, l)
           S == Range(vs)
<1>1. l \in Seq(Ids) /\ n \in Nat \ {0} /\ DOMAIN l = 1 .. n
  BY DEF IsList
<1>2. /\ vs \in Seq(S) /\ Len(vs) = n /\ \A p \in 1 .. n : vs[p] = h[l[p]].ptr
  <2>1. l \in Seq(Ids)
    BY <1>1
  <2> QED
    BY ONLY <2>1, ValuesOfList
<1> HIDE DEF vs, S
<1>3. vs # <<>>
  BY <1>1, <1>2
<1>4. h[Head(l)].ptr = Head(vs) /\ h[Last(l)].ptr = Abstract!Last(vs)
  BY <1>1, <1>2, <1>3 DEF Last, Abstract!Last
<1>5. Values(h, Tail(l)) = Tail(vs)
  <2>1. /\ Tail(l) \in Seq(Ids) /\ Len(Tail(l)) = n - 1
        /\ \A p \in 1 .. n - 1 : Tail(l)[p] = l[p + 1]
    BY <1>1
  <2>2. /\ Tail(vs) \in Seq(S) /\ Len(Tail(vs)) = n - 1
        /\ \A p \in 1 .. n - 1 : Tail(vs)[p] = vs[p + 1]
    BY <1>1, <1>2, <1>3
  <2>3. \A p \in 1 .. n - 1 : p + 1 \in 1 .. n
    BY <1>1
  <2> DEFINE t == Tail(l)
             ts == Tail(vs)
  <2> HIDE DEF t, ts, n
  <2>4. Values(h, t) = [p \in 1 .. n - 1 |-> h[t[p]].ptr]
    BY <2>1 DEF Values, t
  <2>5. ts = [p \in 1 .. n - 1 |-> ts[p]]
    <3>1. ts \in Seq(S) /\ Len(ts) = n - 1
      BY <2>2 DEF ts
    <3>2. ts \in [1 .. Len(ts) -> S]
      BY <3>1
    <3> QED
      BY <3>1, <3>2
  <2>6. \A p \in 1 .. n - 1 : h[t[p]].ptr = ts[p]
    BY <1>2, <2>1, <2>2, <2>3 DEF t, ts
  <2>7. Values(h, t) = ts
    BY <2>4, <2>5, <2>6
  <2> QED
    BY <2>7 DEF t, ts
<1>6. Values(h, Front(l)) = Abstract!Front(vs)
  <2>1. Front(l) = [p \in 1 .. n - 1 |-> l[p]]
    BY <1>1 DEF Front
  <2>2. Abstract!Front(vs) = [p \in 1 .. n - 1 |-> vs[p]]
    BY <1>1, <1>2 DEF Abstract!Front
  <2>3. \A p \in 1 .. n - 1 : p \in 1 .. n
    BY <1>1
  <2> HIDE DEF n
  <2>4. Values(h, Front(l)) = [p \in 1 .. n - 1 |-> h[l[p]].ptr]
    BY <2>1 DEF Values
  <2> QED
    BY <1>2, <2>2, <2>3, <2>4
<1> QED
  BY <1>3, <1>4, <1>5, <1>6 DEF vs

(* LPOP and RPOP: the element goes to the client and out of the list. *)
LEMMA PopStep ==
  ASSUME Separate, Sound(heap', dict', reply', Nothing), NEW c \in Clients, NEW k \in Keys,
         NEW where, PopGenericCommand(c, k, where)
  PROVE  Once(dict') /\ Distinct(heap') /\ Abstract!Pop(c, k)
<1> DEFINE e == Entry(c, k)
           list == Value(c, k)
           el == IF where = "head" THEN Head(list) ELSE Last(list)
           rest == IF where = "head" THEN Tail(list) ELSE Front(list)
           os == <<el>>
           h == Retain(heap, os)
           g == [h EXCEPT ![e].ptr = rest]
           N == {e}
<1>1. /\ Holds(c, k, "list") /\ list # <<>>
      /\ heap' = DecrRefCount(g, el) /\ dict' = dict /\ selected' = selected
      /\ reply' = [reply EXCEPT ![c] = @ \o Queue(heap, os)]
  BY DEF PopGenericCommand, AddReply
<1>2. Records(heap) /\ Inv
  BY HeapRecords DEF Separate, Inv, Sound
<1>3. /\ e \in Ids /\ heap[e].type = "list" /\ IsList(list) /\ Range(list) \in SUBSET Ids
      /\ \A m \in Range(list) : heap[m].type = "string" /\ m # e
  BY <1>1, <1>2, FoundList
<1>4. el \in Range(list) /\ IsList(rest) /\ Range(rest) \subseteq Range(list)
  BY <1>1, <1>3, ListRest
<1>5. Records(h) /\ SameBut(heap, h, {})
  BY <1>2, RetainKeeps
<1>6. h[e].type = "list"
  BY <1>2, <1>3 DEF Retain, Records
<1> HIDE DEF e, list, el, rest, os, h
<1>7. Records(g) /\ SameBut(h, g, {e}) /\ g[e].type = "list" /\ g[e].ptr = rest
  <2>1. g = Written(h, e, rest)
    BY DEF Written
  <2> HIDE DEF g
  <2> QED
    BY <1>3, <1>5, <1>6, <2>1, SetPtrKeeps
<1> HIDE DEF g, N
<1>8. SameBut(g, heap', {})
  BY <1>1, <1>7, DecrRefCountKeeps
<1>9. SameBut(heap, heap', N)
  <2>1. SameBut(heap, g, {} \cup {e})
    BY <1>5, <1>7, SameThrough
  <2>2. SameBut(heap, heap', ({} \cup {e}) \cup {})
    BY <1>8, <2>1, SameThrough
  <2>3. ({} \cup {e}) \cup {} = N
    BY DEF N
  <2> QED
    BY <2>2, <2>3
<1>10. /\ Dataset' = [Dataset EXCEPT ![selected[c]][k] = <<"list", Values(g, rest)>>]
       /\ Once(dict') /\ Distinct(heap')
       /\ \A m \in Range(rest) : m \in Ids /\ (m \notin N => g[m].ptr = heap[m].ptr)
  <2>1. /\ Separate /\ Sound(heap', dict', reply', Nothing) /\ c \in Clients /\ k \in Keys
        /\ Holds(c, k, "list") /\ dict' = dict
    BY <1>1
  <2>2. \A n \in N : Private(n, c, k, N)
    BY <1>3 DEF Private, N, e, Containers
  <2>3. N \in SUBSET Ids /\ \A s \in N \ {Entry(c, k)} : heap'[s].type # "set"
    BY <1>3 DEF N, e
  <2>4. g[Entry(c, k)].type = "list" /\ g[Entry(c, k)].ptr = rest
    BY <1>7 DEF e
  <2> QED
    BY ONLY <1>8, <1>9, <2>1, <2>2, <2>3, <2>4, ListWritten
<1>11. Values(g, rest) = Values(heap, rest)
  <2>1. \A m \in Range(rest) : g[m].ptr = heap[m].ptr
    BY <1>3, <1>4, <1>10 DEF N
  <2> QED
    BY ONLY <2>1, SameValuesOf
<1>12. Outgoing' = [Outgoing EXCEPT ![c] = @ \o Values(heap, os)]
  <2>1. os \in Seq(Ids)
    BY <1>3, <1>4 DEF os
  <2> QED
    BY <1>1, <1>2, <2>1, ValuesSent
<1>13. Values(heap, os) = <<heap[el].ptr>>
  BY DEF Values, os
<1> DEFINE vs == Values(heap, list)
<1>14. /\ vs # <<>>
       /\ heap[Head(list)].ptr = Head(vs) /\ Values(heap, Tail(list)) = Tail(vs)
       /\ heap[Last(list)].ptr = Abstract!Last(vs)
       /\ Values(heap, Front(list)) = Abstract!Front(vs)
  BY <1>1, <1>3, ValuesOfRest
<1>15. Abstract!IsType(c, k, "list") /\ Abstract!Of(c, k) = vs
  BY <1>1, <1>2, KeyShown DEF Types, Containers, list
<1> HIDE DEF vs
<1>16. CASE where = "head"
  <2>1. Abstract!Send(c, {<<Head(Abstract!Of(c, k))>>})
    BY <1>12, <1>13, <1>14, <1>15, <1>16 DEF Abstract!Send, el
  <2>2. Abstract!Put(c, k, {Abstract!List(Tail(Abstract!Of(c, k)))})
    BY <1>10, <1>11, <1>14, <1>15, <1>16 DEF Abstract!Put, Abstract!List, rest
  <2> QED
    BY <1>1, <1>10, <1>14, <1>15, <2>1, <2>2 DEF Abstract!Pop
<1>17. CASE where # "head"
  <2>1. Abstract!Send(c, {<<Abstract!Last(Abstract!Of(c, k))>>})
    BY <1>12, <1>13, <1>14, <1>15, <1>17 DEF Abstract!Send, el
  <2>2. Abstract!Put(c, k, {Abstract!List(Abstract!Front(Abstract!Of(c, k)))})
    BY <1>10, <1>11, <1>14, <1>15, <1>17 DEF Abstract!Put, Abstract!List, rest
  <2> QED
    BY <1>1, <1>10, <1>14, <1>15, <2>1, <2>2 DEF Abstract!Pop
<1> QED
  BY <1>16, <1>17

(* The end of a range that is taken for the first element. *)
EndTaken(l, start, end) == IF FirstInstead(l, start, end) THEN 0 ELSE end

(* Both pieces of arithmetic select the places Slice does. *)
LEMMA SliceShown ==
  ASSUME NEW h, NEW l, IsList(l), NEW start \in Int, NEW end \in Int,
         NEW part, part \in {Ranged(l, start, end), Trimmed(l, start, end)}
  PROVE  Values(h, part) = Abstract!Slice(Values(h, l), start, EndTaken(l, start, end))
<1> DEFINE n == Len(l)
           vs == Values(h, l)
           a == Normalised(start, n)
           b == Normalised(end, n)
           last == LastIndex(end, n)
           places == {m \in DOMAIN vs : a < m /\ m <= b + 1}
           taken == EndTaken(l, start, end)
<1>1. l \in Seq(Ids) /\ n \in Nat
  BY DEF IsList
<1>2. Len(vs) = n /\ DOMAIN vs = 1 .. n /\ \A p \in 1 .. n : vs[p] = h[l[p]].ptr
  <2>1. l \in Seq(Ids)
    BY <1>1
  <2> QED
    BY ONLY <2>1, ValuesOfList
<1> HIDE DEF vs
<1>3. /\ (IF Abstract!Offset(vs, start) < 0 THEN 0 ELSE Abstract!Offset(vs, start)) = a
      /\ {m \in DOMAIN vs : Abstract!Offset(vs, start) < m
                              /\ m <= Abstract!Offset(vs, taken) + 1} = places
  <2> DEFINE A == Abstract!Offset(vs, start)
             B == Abstract!Offset(vs, taken)
  <2>1. A = IF start < 0 THEN n + start ELSE start
    BY <1>1, <1>2 DEF Abstract!Offset
  <2>2. B = IF taken < 0 THEN n + taken ELSE taken
    <3>1. taken \in Int
      BY DEF EndTaken
    <3> HIDE DEF taken
    <3> QED
      BY <1>1, <1>2, <3>1 DEF Abstract!Offset
  <2>3. FirstInstead(l, start, end)
          <=> n # 0 /\ A <= 0 /\ (IF end < 0 THEN n + end ELSE end) < 0
    <3>1. l # <<>> <=> n # 0
      BY <1>1
    <3>2. Offset(start, l) = A /\ Offset(end, l) = IF end < 0 THEN n + end ELSE end
      BY <1>1, <2>1 DEF Offset
    <3> HIDE DEF A, n
    <3> QED
      BY <3>1, <3>2 DEF FirstInstead
  <2> HIDE DEF A, B
  <2>4. B = IF n # 0 /\ A <= 0 /\ (IF end < 0 THEN n + end ELSE end) < 0
              THEN 0 ELSE IF end < 0 THEN n + end ELSE end
    BY <2>2, <2>3 DEF EndTaken
  <2>5. \A m \in 1 .. n : A < m /\ m <= B + 1 <=> a < m /\ m <= b + 1
    <3> HIDE DEF n
    <3>1. n \in Nat
      BY <1>1
    <3>2. ASSUME NEW m \in 1 .. n
          PROVE  A < m /\ m <= B + 1
                   <=> Normalised(start, n) < m /\ m <= Normalised(end, n) + 1
      BY ONLY <2>1, <2>4, <3>1, start \in Int, end \in Int, m \in 1 .. n DEF Normalised
    <3> QED
      BY ONLY <3>2
  <2> HIDE DEF n
  <2>6. (IF A < 0 THEN 0 ELSE A) = a
    BY <1>1, <2>1 DEF Normalised
  <2> QED
    BY <1>2, <2>5, <2>6 DEF A, B
<1>4. Abstract!Slice(vs, start, taken) = [i \in 1 .. Cardinality(places) |-> vs[a + i]]
  <2>1. Abstract!Cardinality(places) = Cardinality(places)
    BY DEF Abstract!Cardinality, Cardinality
  <2> HIDE DEF taken, places
  <2> QED
    BY <1>3, <2>1 DEF Abstract!Slice
<1> HIDE DEF taken
<1>5. /\ a \in Nat /\ b \in Nat
      /\ ~ EmptyRange(start, end, n) => last \in Nat /\ last < n /\ a <= last
  BY <1>1, RangeOffsets
<1>6. CASE EmptyRange(start, end, n)
  <2>1. part = <<>>
    BY <1>1, <1>6, RangedOrTrimmed
  <2>2. a > b \/ a >= n
    BY <1>6 DEF EmptyRange
  <2> HIDE DEF a, b, n
  <2>3. places = {}
    BY <1>1, <1>2, <1>5, <2>2
  <2>4. Cardinality(places) = 0
    BY <2>3, FS_EmptySet
  <2>5. 1 .. Cardinality(places) = {}
    BY <2>4
  <2> HIDE DEF places
  <2>6. Abstract!Slice(vs, start, taken) = <<>>
    BY <1>4, <2>5
  <2>7. Values(h, part) = <<>>
    BY <2>1 DEF Values
  <2> QED
    BY <2>6, <2>7 DEF vs, taken
<1>7. CASE ~ EmptyRange(start, end, n)
  <2>1. /\ part \in Seq(Ids) /\ Len(part) = last - a + 1
        /\ \A i \in 1 .. Len(part) : part[i] = l[i + a]
    BY <1>1, <1>7, RangeElements
  <2>2. ~ (a > b) /\ last = IF b >= n THEN n - 1 ELSE b
    BY <1>7 DEF EmptyRange, LastIndex
  <2>3. last \in Nat /\ last < n /\ a <= last
    BY <1>5, <1>7
  <2> HIDE DEF a, b, n, last
  <2>4. places = (a + 1) .. (last + 1)
    BY <1>1, <1>2, <1>5, <2>2, <2>3
  <2>5. Cardinality(places) = last - a + 1
    <3>1. a + 1 \in Int /\ last + 1 \in Int /\ ~ (a + 1 > last + 1)
      BY <1>5, <2>3
    <3>2. Cardinality((a + 1) .. (last + 1)) = (last + 1) - (a + 1) + 1
      BY <3>1, FS_Interval
    <3>3. \A x, y \in Nat : (x + 1) - (y + 1) + 1 = x - y + 1
      OBVIOUS
    <3>4. (last + 1) - (a + 1) + 1 = last - a + 1
      BY <1>5, <2>3, <3>3
    <3> QED
      BY <2>4, <3>2, <3>4
  <2> HIDE DEF places
  <2>6. Values(h, part) = [i \in 1 .. last - a + 1 |-> h[part[i]].ptr]
    BY <2>1 DEF Values
  <2>7. \A i \in 1 .. last - a + 1 : a + i \in 1 .. n /\ i + a = a + i
    BY <1>1, <1>5, <2>3
  <2>8. \A i \in 1 .. last - a + 1 : h[part[i]].ptr = vs[a + i]
    BY <1>2, <2>1, <2>7
  <2>9. Values(h, part) = Abstract!Slice(vs, start, taken)
    BY <1>4, <2>5, <2>6, <2>8
  <2> QED
    BY <2>9 DEF vs, taken
<1> QED
  BY <1>6, <1>7

(* It is the end of another range. *)
LEMMA TakenIsIndex ==
  ASSUME NEW l, NEW start \in Indices, NEW end \in Indices
  PROVE  EndTaken(l, start, end) \in Indices
<1>1. 0 \in Indices
  BY KeyspaceAssumption DEF Indices
<1> QED
  BY <1>1 DEF EndTaken

(* A command that only queues objects. *)
LEMMA ValuesRead ==
  ASSUME Separate, Sound(heap', dict', reply', Nothing), NEW c \in Clients, NEW os \in Seq(Ids),
         heap' = Retain(heap, os), AddReply(c, heap, os), NoChange
  PROVE  /\ Once(dict') /\ Distinct(heap') /\ Dataset' = Dataset /\ selected' = selected
         /\ Outgoing' = [Outgoing EXCEPT ![c] = @ \o Values(heap, os)]
<1>1. Records(heap) /\ Inv
  BY HeapRecords DEF Separate, Inv, Sound
<1>2. SameBut(heap, heap', {})
  BY <1>1, RetainKeeps
<1>3. dict' = dict /\ selected' = selected
  BY DEF NoChange
<1>4. Dataset' = Dataset /\ Once(dict') /\ Distinct(heap')
  BY <1>2, <1>3, WritesNothing
<1>5. reply' = [reply EXCEPT ![c] = @ \o Queue(heap, os)]
  BY DEF AddReply
<1>6. Outgoing' = [Outgoing EXCEPT ![c] = @ \o Values(heap, os)]
  BY <1>1, <1>5, ValuesSent
<1> QED
  BY <1>3, <1>4, <1>6

(* LRANGE: the values between the two places wait to be sent. *)
LEMMA LRangeStep ==
  ASSUME Separate, Sound(heap', dict', reply', Nothing), NEW c \in Clients, NEW k \in Keys,
         NEW start \in Indices, NEW end \in Indices, LRangeCommand(c, k, start, end)
  PROVE  Once(dict') /\ Distinct(heap') /\ Abstract!ReadRange(c, k)
<1> DEFINE os == Ranged(Value(c, k), start, end)
<1>1. /\ Holds(c, k, "list") /\ heap' = Retain(heap, os) /\ AddReply(c, heap, os) /\ NoChange
  BY DEF LRangeCommand
<1>2. Inv /\ start \in Int /\ end \in Int
  BY KeyspaceAssumption DEF Separate, Indices
<1>3. IsList(Value(c, k))
  BY <1>1, <1>2, FoundList
<1>4. os \in Seq(Ids)
  BY <1>2, <1>3, RangeIsSlice DEF IsList
<1>5. Values(heap, os) = Abstract!Slice(Values(heap, Value(c, k)), start,
                                        EndTaken(Value(c, k), start, end))
  BY <1>2, <1>3, SliceShown
<1> HIDE DEF os
<1>6. /\ Once(dict') /\ Distinct(heap') /\ Dataset' = Dataset /\ selected' = selected
      /\ Outgoing' = [Outgoing EXCEPT ![c] = @ \o Values(heap, os)]
  BY <1>1, <1>4, ValuesRead
<1>7. /\ Abstract!IsType(c, k, "list")
      /\ Abstract!Of(c, k) = Values(heap, Value(c, k))
  BY <1>1, <1>2, KeyShown DEF Types, Containers
<1>8. Values(heap, os) \in Abstract!Slices(Abstract!Of(c, k))
  BY <1>5, <1>7, TakenIsIndex DEF Abstract!Slices
<1> QED
  BY <1>6, <1>7, <1>8 DEF Abstract!ReadRange, Abstract!OnlyOut, Abstract!Send

(* LINDEX: the value at the place waits to be sent. *)
LEMMA LIndexStep ==
  ASSUME Separate, Sound(heap', dict', reply', Nothing), NEW c \in Clients, NEW k \in Keys,
         NEW index \in Indices, LIndexCommand(c, k, index)
  PROVE  Once(dict') /\ Distinct(heap') /\ Abstract!ReadElement(c, k)
<1> DEFINE list == Value(c, k)
           p == Position(list, index)
           os == <<list[p]>>
<1>1. /\ Holds(c, k, "list") /\ p \in DOMAIN list
      /\ heap' = Retain(heap, os) /\ AddReply(c, heap, os) /\ NoChange
  BY DEF LIndexCommand
<1>2. Inv
  BY DEF Separate
<1>3. IsList(list)
  BY <1>1, <1>2, FoundList
<1>4. Abstract!IsType(c, k, "list") /\ Abstract!Of(c, k) = Values(heap, list)
  BY <1>1, <1>2, KeyShown DEF Types, Containers
<1> HIDE DEF list, p
<1>5. os \in Seq(Ids) /\ Values(heap, os) = <<heap[list[p]].ptr>>
  BY <1>1, <1>3 DEF IsList, Values
<1> HIDE DEF os
<1>6. /\ Once(dict') /\ Distinct(heap') /\ Dataset' = Dataset /\ selected' = selected
      /\ Outgoing' = [Outgoing EXCEPT ![c] = @ \o Values(heap, os)]
  BY <1>1, <1>5, ValuesRead
<1>7. heap[list[p]].ptr \in Abstract!Range(Values(heap, list))
  BY <1>1 DEF Abstract!Range, Values
<1> QED
  BY <1>4, <1>5, <1>6, <1>7 DEF Abstract!ReadElement, Abstract!OnlyOut, Abstract!Send

(* LTRIM: what is kept stays in its order, what is not is given up. *)
LEMMA LTrimStep ==
  ASSUME Separate, Sound(heap', dict', reply', Nothing), NEW c \in Clients, NEW k \in Keys,
         NEW start \in Indices, NEW end \in Indices, LTrimCommand(c, k, start, end)
  PROVE  Once(dict') /\ Distinct(heap') /\ Abstract!Trim(c, k)
<1> DEFINE e == Entry(c, k)
           list == Value(c, k)
           kept == Trimmed(list, start, end)
           g == [heap EXCEPT ![e].ptr = kept]
           N == {e}
<1>1. /\ Holds(c, k, "list") /\ dict' = dict /\ selected' = selected /\ reply' = reply
      /\ heap' = DecrAll(g, Range(list) \ Range(kept))
  BY DEF LTrimCommand
<1>2. Records(heap) /\ Inv /\ start \in Int /\ end \in Int
  BY HeapRecords, KeyspaceAssumption DEF Separate, Inv, Sound, Indices
<1>3. /\ e \in Ids /\ heap[e].type = "list" /\ IsList(list)
      /\ \A m \in Range(list) : m \in Ids /\ m # e
  BY <1>1, <1>2, FoundList
<1>4. Range(kept) \subseteq Range(list)
  BY <1>2, <1>3, RangeIsSlice
<1>5. Values(heap, kept) = Abstract!Slice(Values(heap, list), start, EndTaken(list, start, end))
  BY <1>2, <1>3, SliceShown
<1> HIDE DEF e, list, kept
<1>6. Records(g) /\ SameBut(heap, g, {e}) /\ g[e].type = "list" /\ g[e].ptr = kept
  <2>1. Records(heap)
    BY <1>2
  <2>2. e \in Ids
    BY <1>3
  <2>3. g = Written(heap, e, kept)
    BY DEF Written
  <2> HIDE DEF g
  <2> QED
    BY <1>3, <2>1, <2>2, <2>3, SetPtrKeeps
<1> HIDE DEF g, N
<1>7. SameBut(g, heap', {})
  BY <1>1, <1>6, DecrKeeps
<1>8. SameBut(heap, heap', N)
  <2>1. SameBut(heap, heap', {e} \cup {})
    BY <1>6, <1>7, SameThrough
  <2>2. {e} \cup {} = N
    BY DEF N
  <2> QED
    BY <2>1, <2>2
<1>9. /\ Dataset' = [Dataset EXCEPT ![selected[c]][k] = <<"list", Values(g, kept)>>]
      /\ Once(dict') /\ Distinct(heap')
      /\ \A m \in Range(kept) : m \in Ids /\ (m \notin N => g[m].ptr = heap[m].ptr)
  <2>1. /\ Separate /\ Sound(heap', dict', reply', Nothing) /\ c \in Clients /\ k \in Keys
        /\ Holds(c, k, "list") /\ dict' = dict
    BY <1>1
  <2>2. \A n \in N : Private(n, c, k, N)
    BY <1>3 DEF Private, N, e, Containers
  <2>3. N \in SUBSET Ids /\ \A s \in N \ {Entry(c, k)} : heap'[s].type # "set"
    BY <1>3 DEF N, e
  <2>4. g[Entry(c, k)].type = "list" /\ g[Entry(c, k)].ptr = kept
    BY <1>6 DEF e
  <2> QED
    BY ONLY <1>7, <1>8, <2>1, <2>2, <2>3, <2>4, ListWritten
<1>10. Values(g, kept) = Values(heap, kept)
  <2>1. \A m \in Range(kept) : g[m].ptr = heap[m].ptr
    BY <1>3, <1>4, <1>9 DEF N
  <2> QED
    BY ONLY <2>1, SameValuesOf
<1>11. Outgoing' = Outgoing
  BY <1>1, <1>2, NothingSent
<1>12. Abstract!IsType(c, k, "list") /\ Abstract!Of(c, k) = Values(heap, list)
  BY <1>1, <1>2, KeyShown DEF Types, Containers, list
<1>13. Values(heap, kept) \in Abstract!Slices(Abstract!Of(c, k))
  BY <1>5, <1>12, TakenIsIndex DEF Abstract!Slices
<1> QED
  BY <1>1, <1>9, <1>10, <1>11, <1>12, <1>13
     DEF Abstract!Trim, Abstract!OnlyData, Abstract!Put, Abstract!List

(* LSET: the old element is given up before the new one takes its place,   *)
(* perhaps at its very address; no one else knows either then.             *)
LEMMA LSetStep ==
  ASSUME Separate, Sound(heap', dict', reply', Nothing), NEW c \in Clients, NEW k \in Keys,
         NEW index \in Indices, NEW v \in Strings, LSetCommand(c, k, index, v)
  PROVE  Once(dict') /\ Distinct(heap') /\ Abstract!SetElement(c, k)
<1> DEFINE e == Entry(c, k)
           list == Value(c, k)
           p == Position(list, index)
           old == list[p]
           h == DecrRefCount(heap, old)
<1>1. /\ Holds(c, k, "list") /\ dict' = dict /\ selected' = selected /\ reply' = reply
      /\ p \in DOMAIN list
  BY DEF LSetCommand
<1>2. PICK el \in Fresh(h) :
        heap' = [Create(h, el, "string", v) EXCEPT ![e].ptr = [list EXCEPT ![p] = el]]
  BY DEF LSetCommand
<1> DEFINE h2 == Create(h, el, "string", v)
           l2 == [list EXCEPT ![p] = el]
           N == {el} \cup {e}
<1>3. Records(heap) /\ Inv
  BY HeapRecords DEF Separate, Inv, Sound
<1>4. /\ e \in Ids /\ heap[e].type = "list" /\ list = heap[e].ptr /\ IsList(list)
      /\ Members(heap[e]) = Range(list)
      /\ \A m \in Range(list) : m \in Ids /\ heap[m].type = "string" /\ m # e
  BY <1>1, <1>3, FoundList
<1>5. old \in Range(list) /\ old \in Ids
  BY <1>1, <1>4, ListFacts
<1> HIDE DEF e, list, p, old
<1>6. Records(h) /\ SameBut(heap, h, {})
  BY <1>3, DecrRefCountKeeps
<1>7. h = DecrAll(heap, {old})
  <2>1. Members(heap[old]) = {}
    BY <1>4, <1>5 DEF Members
  <2> QED
    BY <2>1 DEF DecrRefCount
<1>8. \A i \in Ids \ {old} : h[i] = heap[i]
  BY <1>7 DEF DecrAll
<1>9. h[old] = DecrBy(heap[old], 1)
  BY <1>5, <1>7 DEF DecrAll
<1> HIDE DEF h
<1>10. /\ Records(h2) /\ SameBut(h, h2, {el}) /\ el \in Ids /\ h[el].type \notin Types
       /\ h2[el].type = "string" /\ h2[el].ptr = v
  BY <1>6, CreateKeeps
<1>11. el # e /\ h2[e] = heap[e]
  <2>1. h[e] = heap[e]
    BY <1>4, <1>5, <1>8
  <2>2. el # e
    BY <1>4, <1>10, <2>1 DEF Types, Containers
  <2> QED
    BY <1>4, <2>1, <2>2 DEF Create
<1> HIDE DEF h2, l2, N
<1>12. /\ SameBut(h2, heap', {e}) /\ heap'[e].type = "list" /\ heap'[e].ptr = l2
  <2>1. /\ SameBut(h2, Written(h2, e, l2), {e})
        /\ Written(h2, e, l2)[e].type = h2[e].type /\ Written(h2, e, l2)[e].ptr = l2
    BY <1>4, <1>10, SetPtrKeeps
  <2>2. heap' = Written(h2, e, l2)
    BY <1>2 DEF Written, h2, l2
  <2> QED
    BY <1>4, <1>11, <2>1, <2>2
<1>13. SameBut(heap, heap', N)
  <2>1. SameBut(heap, h2, {} \cup {el})
    BY <1>6, <1>10, SameThrough
  <2>2. SameBut(heap, heap', ({} \cup {el}) \cup {e})
    BY <1>12, <2>1, SameThrough
  <2>3. ({} \cup {el}) \cup {e} = N
    BY DEF N
  <2> QED
    BY <2>2, <2>3
<1>14. heap'[el].type = "string" /\ heap'[el].ptr = v
  <2> DEFINE g == [h2 EXCEPT ![e].ptr = l2]
  <2>1. heap' = g
    BY <1>2 DEF h2, l2
  <2>2. g[el] = h2[el]
    <3>1. h2 = [i \in Ids |-> h2[i]]
      BY <1>10 DEF Records
    <3> QED
      BY <1>10, <1>11, <3>1
  <2> HIDE DEF g
  <2> QED
    BY <1>10, <2>1, <2>2
<1>15. el \notin Range(list) \ {old}
  BY <1>4, <1>8, <1>10 DEF Types
<1>16. Private(el, c, k, N)
  <2>1. CASE el # old
    BY <1>8, <1>10, <2>1 DEF Private
  <2>2. CASE el = old
    <3>1. heap[old].refcount = 1
      <4>1. h[old].type \notin Types /\ heap[old].type \in Types
        BY <1>4, <1>5, <1>10, <2>2 DEF Types
      <4>2. heap[old] = [type |-> heap[old].type, ptr |-> heap[old].ptr, refcount |-> heap[old].refcount]
        BY <1>3, <1>5 DEF Records
      <4> QED
        BY <1>9, <4>1, <4>2 DEF DecrBy
    <3>2. InDict(dict, old) = {} /\ Holders(heap, old) = {e}
      BY <1>3, <1>4, <1>5, <3>1, OnlyHolder
    <3> QED
      BY <2>2, <3>2 DEF Private, N
  <2> QED
    BY <2>1, <2>2
<1>17. /\ Dataset' = [Dataset EXCEPT ![selected[c]][k] = <<"list", Values(heap', l2)>>]
       /\ Once(dict') /\ Distinct(heap') /\ IsList(l2)
       /\ \A m \in Range(l2) : m \in Ids /\ (m \notin N => heap'[m].ptr = heap[m].ptr)
  <2>1. /\ Separate /\ Sound(heap', dict', reply', Nothing) /\ c \in Clients /\ k \in Keys
        /\ Holds(c, k, "list") /\ dict' = dict
    BY <1>1
  <2>2. \A n \in N : Private(n, c, k, N)
    BY <1>4, <1>16 DEF Private, N, e, Containers
  <2>3. N \in SUBSET Ids /\ \A s \in N \ {Entry(c, k)} : heap'[s].type # "set"
    BY <1>4, <1>10, <1>14 DEF N, e
  <2>4. SameBut(heap', heap', {})
    BY DEF SameBut
  <2>5. heap'[Entry(c, k)].type = "list" /\ heap'[Entry(c, k)].ptr = l2
    BY <1>12 DEF e
  <2> QED
    BY ONLY <1>13, <2>1, <2>2, <2>3, <2>4, <2>5, ListWritten
<1> DEFINE vs == Values(heap, list)
<1>18. Values(heap', l2) = [vs EXCEPT ![p] = v]
  <2>1. /\ list \in Seq(Ids) /\ DOMAIN list = 1 .. Len(list)
        /\ \A m, n \in 1 .. Len(list) : list[m] = list[n] => m = n
    BY <1>4, ListFacts DEF IsList
  <2>2. DOMAIN l2 = DOMAIN list /\ \A n \in DOMAIN list : l2[n] = IF n = p THEN el ELSE list[n]
    BY <1>1, <2>1 DEF l2
  <2>3. Values(heap', l2) = [n \in DOMAIN list |-> heap'[l2[n]].ptr]
    BY <2>2 DEF Values
  <2>4. [vs EXCEPT ![p] = v] = [n \in DOMAIN list |-> IF n = p THEN v ELSE heap[list[n]].ptr]
    BY <1>1 DEF Values
  <2>5. ASSUME NEW n \in DOMAIN list
        PROVE  heap'[l2[n]].ptr = IF n = p THEN v ELSE heap[list[n]].ptr
    <3>1. CASE n = p
      BY <1>14, <2>2, <3>1
    <3>2. CASE n # p
      <4>1. list[n] # old /\ list[n] \in Range(list)
        BY <1>1, <2>1, <3>2 DEF old, Range
      <4>2. list[n] \notin N
        BY <1>4, <1>15, <4>1 DEF N
      <4>3. l2[n] = list[n] /\ l2[n] \in Range(l2)
        BY <2>2, <3>2 DEF Range
      <4>4. heap'[list[n]].ptr = heap[list[n]].ptr
        BY <1>17, <4>2, <4>3
      <4> QED
        BY <3>2, <4>3, <4>4
    <3> QED
      BY <3>1, <3>2
  <2> QED
    BY <2>3, <2>4, <2>5
<1>19. Outgoing' = Outgoing
  BY <1>1, <1>3, NothingSent
<1>20. Abstract!IsType(c, k, "list") /\ Abstract!Of(c, k) = vs
  BY <1>1, <1>3, KeyShown DEF Types, Containers, list
<1>21. p \in DOMAIN vs
  BY <1>1 DEF Values
<1> HIDE DEF vs
<1>22. Abstract!Put(c, k, {Abstract!List([Abstract!Of(c, k) EXCEPT ![i] = w]) :
                             i \in DOMAIN Abstract!Of(c, k), w \in Abstract!Strings})
  <2>1. v \in Abstract!Strings
    BY DEF Abstract!Strings, Strings
  <2>2. Dataset' = [Dataset EXCEPT ![selected[c]][k] = Abstract!List([vs EXCEPT ![p] = v])]
    BY <1>17, <1>18 DEF Abstract!List
  <2> DEFINE W == {Abstract!List([Abstract!Of(c, k) EXCEPT ![i] = w]) :
                     i \in DOMAIN Abstract!Of(c, k), w \in Abstract!Strings}
  <2>3. Abstract!List([vs EXCEPT ![p] = v]) \in W
    BY <1>20, <1>21, <2>1
  <2> HIDE DEF W
  <2>4. Abstract!Put(c, k, W)
    BY <2>2, <2>3 DEF Abstract!Put
  <2> QED
    BY <2>4 DEF W
<1> QED
  BY <1>1, <1>17, <1>19, <1>20, <1>22 DEF Abstract!SetElement, Abstract!OnlyData

-----------------------------------------------------------------------------
(* Sets                                                                    *)

(* The values of a set of objects. *)
ValuesIn(h, s) == {h[m].ptr : m \in s}

(* What a command makes of a set; g is the heap before it frees objects. *)
LEMMA SetWritten ==
  ASSUME Separate, Sound(heap', dict', reply', Nothing), NEW c \in Clients, NEW k \in Keys,
         Holds(c, k, "set"), dict' = dict,
         NEW N \in SUBSET Ids, SameBut(heap, heap', N), \A n \in N : Private(n, c, k, N),
         NEW g, SameBut(g, heap', {}), NEW p,
         g[Entry(c, k)].type = "set", g[Entry(c, k)].ptr = p,
         \A m, n \in p : g[m].ptr = g[n].ptr => m = n,
         \A s \in N \ {Entry(c, k)} : heap'[s].type # "set"
  PROVE  /\ Dataset' = [Dataset EXCEPT ![selected[c]][k] = <<"set", ValuesIn(g, p)>>]
         /\ Once(dict') /\ Distinct(heap')
<1> DEFINE e == Entry(c, k)
<1>1. e \in Ids /\ dict = [dict EXCEPT ![selected[c]][k] = e]
  BY FoundSet, SameEntry DEF Separate
<1>2. dict'[selected[c]][k] = e /\ Null \notin Ids
  BY KeyspaceAssumption DEF Entry
<1>3. /\ heap'[e].type = "set" /\ heap'[e].ptr = p
      /\ \A m \in Members(heap'[e]) : heap'[m].ptr = g[m].ptr
  <2>1. g[e].type = "set" /\ g[e].ptr = p
    OBVIOUS
  <2> HIDE DEF e
  <2> QED
    BY <1>1, <1>2, <2>1, ContainerWritten
<1>4. Members(heap'[e]) = p
  BY <1>3 DEF Members
<1>5. ValuesIn(heap', p) = ValuesIn(g, p)
  BY <1>3, <1>4 DEF ValuesIn
<1>6. Shown(heap', e) = <<"set", ValuesIn(g, p)>>
  BY <1>1, <1>2, <1>3, <1>5 DEF Shown, ValuesIn
<1>7. DistinctIn(heap', e)
  BY <1>3, <1>4 DEF DistinctIn
<1>8. /\ Dataset' = [Dataset EXCEPT ![selected[c]][k] = Shown(heap', e)]
      /\ Once(dict') /\ Distinct(heap')
  <2>1. dict' = [dict EXCEPT ![selected[c]][k] = e]
    BY <1>1
  <2>2. \A s \in N : heap'[s].type = "set" => DistinctIn(heap', s)
    BY <1>7
  <2>3. e = Null \/ e = Entry(c, k) \/ (e \in Ids /\ heap[e].type \notin Types)
    OBVIOUS
  <2>4. /\ Separate /\ Sound(heap', dict', reply', Nothing) /\ c \in Clients /\ k \in Keys
        /\ N \in SUBSET Ids /\ SameBut(heap, heap', N) /\ \A n \in N : Private(n, c, k, N)
    OBVIOUS
  <2> HIDE DEF e
  <2> QED
    BY ONLY <2>1, <2>2, <2>3, <2>4, Writes
<1> QED
  BY <1>6, <1>8

(* The set at a key, for the client and in the heap. *)
LEMMA SetShown ==
  ASSUME Separate, NEW c \in Clients, NEW k \in Keys, Holds(c, k, "set")
  PROVE  /\ Abstract!IsType(c, k, "set") /\ Abstract!At(c, k) # Abstract!None
         /\ Abstract!Of(c, k) = ValuesIn(heap, Value(c, k))
         /\ \A m, n \in Value(c, k) : heap[m].ptr = heap[n].ptr => m = n
         /\ \A m \in Value(c, k) : /\ m \in Ids /\ heap[m].type = "string" /\ m # Entry(c, k)
                                   /\ heap[m].ptr \in Strings
         /\ Entry(c, k) \in Ids /\ heap[Entry(c, k)].type = "set"
         /\ Value(c, k) = heap[Entry(c, k)].ptr
<1>1. Inv /\ HeapType(heap)
  BY DEF Separate, Inv, Sound
<1>2. /\ Abstract!IsType(c, k, "set") /\ Abstract!At(c, k) # Abstract!None
      /\ Abstract!Of(c, k) = ValuesIn(heap, Value(c, k))
  BY <1>1, KeyShown DEF Types, Containers, ValuesIn, Holds
<1>3. /\ Entry(c, k) \in Ids /\ heap[Entry(c, k)].type = "set"
      /\ Value(c, k) = heap[Entry(c, k)].ptr /\ Value(c, k) \in SUBSET Ids
      /\ \A m \in Value(c, k) : heap[m].type = "string" /\ m # Entry(c, k)
  BY <1>1, FoundSet
<1>4. \A m, n \in Value(c, k) : heap[m].ptr = heap[n].ptr => m = n
  BY <1>3 DEF Separate, Distinct, DistinctIn
<1>5. \A m \in Value(c, k) : heap[m].ptr \in Strings
  BY <1>1, <1>3 DEF HeapType, Object
<1> QED
  BY <1>2, <1>3, <1>4, <1>5

(* SADD: a value that the set has is not added again. *)
LEMMA SAddStep ==
  ASSUME Separate, Sound(heap', dict', reply', Nothing), NEW c \in Clients, NEW k \in Keys,
         NEW v \in Strings, SAddCommand(c, k, v)
  PROVE  /\ Once(dict') /\ Distinct(heap')
         /\ Abstract!AddMember(c, k) \/ SameData
<1>1. Records(heap) /\ Inv
  BY HeapRecords DEF Separate, Inv, Sound
<1>2. selected' = selected /\ reply' = reply
  BY DEF SAddCommand
<1>3. Outgoing' = Outgoing
  BY <1>1, <1>2, NothingSent
<1>4. v \in Abstract!Strings
  BY DEF Abstract!Strings, Strings
<1>5. ASSUME ~ Found(c, k), NEW s \in Fresh(heap), NEW el \in Fresh(Create(heap, s, "set", {})),
             heap' = [Create(Create(heap, s, "set", {}), el, "string", v) EXCEPT ![s].ptr = {el}],
             SetEntry(c, k, s)
      PROVE  Once(dict') /\ Distinct(heap') /\ Abstract!AddMember(c, k)
  <2> DEFINE h == Create(heap, s, "set", {})
             h2 == Create(h, el, "string", v)
             N == {s} \cup {el}
  <2>1. /\ Records(h) /\ SameBut(heap, h, {s}) /\ s \in Ids /\ heap[s].type \notin Types
        /\ h[s].type = "set"
    BY <1>1, CreateKeeps
  <2>2. \A i \in Ids \ {s} : h[i] = heap[i]
    BY DEF Create
  <2>3. el \in Fresh(h)
    OBVIOUS
  <2> HIDE DEF h
  <2>4. /\ Records(h2) /\ SameBut(h, h2, {el}) /\ el \in Ids /\ h[el].type \notin Types
        /\ h2[el].type = "string" /\ h2[el].ptr = v
    BY <2>1, <2>3, CreateKeeps
  <2>5. el # s /\ h2[s] = h[s] /\ heap[el].type \notin Types
    <3>1. el # s
      BY <2>1, <2>4 DEF Types, Containers
    <3> QED
      BY <2>1, <2>2, <2>4, <3>1 DEF Create
  <2>5a. heap' = [h2 EXCEPT ![s].ptr = {el}]
    BY <1>5 DEF h
  <2> HIDE DEF h2, N
  <2>6. SameBut(h2, heap', {s}) /\ heap'[s].type = "set" /\ heap'[s].ptr = {el}
    <3> DEFINE new == {el}
    <3> HIDE DEF new
    <3>0. Records(h2) /\ s \in Ids
      BY <2>1, <2>4
    <3>1. /\ SameBut(h2, Written(h2, s, new), {s})
          /\ Written(h2, s, new)[s].type = h2[s].type /\ Written(h2, s, new)[s].ptr = new
      BY ONLY <3>0, SetPtrKeeps
    <3>2. heap' = Written(h2, s, new)
      BY <2>5a DEF Written, new
    <3> QED
      BY <2>1, <2>5, <3>1, <3>2 DEF new
  <2>7. SameBut(heap, heap', N)
    <3>1. SameBut(heap, h2, {s} \cup {el})
      BY <2>1, <2>4, SameThrough
    <3>2. SameBut(heap, heap', ({s} \cup {el}) \cup {s})
      BY <2>6, <3>1, SameThrough
    <3>3. ({s} \cup {el}) \cup {s} = N
      BY DEF N
    <3> QED
      BY <3>2, <3>3
  <2>8. heap'[el].type = "string" /\ heap'[el].ptr = v
    <3>1. heap'[el] = h2[el]
      BY <2>4, <2>5, <2>5a DEF Records
    <3> QED
      BY <2>4, <3>1
  <2>9. /\ Dataset' = [Dataset EXCEPT ![selected[c]][k] = Shown(heap', s)]
        /\ Once(dict') /\ Distinct(heap')
    <3>1. \A n \in N : Private(n, c, k, N)
      BY <2>1, <2>5 DEF Private, N
    <3>2. \A n \in N : heap'[n].type = "set" => DistinctIn(heap', n)
      BY <2>6, <2>8 DEF DistinctIn, N
    <3>3. N \in SUBSET Ids
      BY <2>1, <2>4 DEF N
    <3>4. dict' = [dict EXCEPT ![selected[c]][k] = s]
      BY <1>5 DEF SetEntry
    <3>5. s = Null \/ s = Entry(c, k) \/ (s \in Ids /\ heap[s].type \notin Types)
      BY <2>1
    <3>6. Separate /\ Sound(heap', dict', reply', Nothing) /\ c \in Clients /\ k \in Keys
      OBVIOUS
    <3> QED
      BY ONLY <2>7, <3>1, <3>2, <3>3, <3>4, <3>5, <3>6, Writes
  <2>10. Shown(heap', s) = <<"set", {v}>>
    <3>1. s # Null
      BY <2>1, KeyspaceAssumption
    <3>2. {heap'[m].ptr : m \in {el}} = {v}
      BY <2>8
    <3> QED
      BY <2>6, <3>1, <3>2 DEF Shown
  <2>11. Abstract!At(c, k) = Abstract!None
    BY <1>1, <1>5, KeyShown
  <2>12. Abstract!Set(Abstract!Members(c, k) \cup {v}) = <<"set", {v}>>
    BY <2>11 DEF Abstract!Members, Abstract!Set
  <2>13. Dataset' = [Dataset EXCEPT ![selected[c]][k] = Abstract!Set(Abstract!Members(c, k) \cup {v})]
    BY <2>9, <2>10, <2>12
  <2> QED
    BY <1>2, <1>3, <1>4, <2>9, <2>11, <2>13
       DEF Abstract!AddMember, Abstract!OnlyData, Abstract!Put
<1>6. ASSUME NEW el \in Fresh(heap), dict' = dict,
             heap' = DecrRefCount(Create(heap, el, "string", v), el)
      PROVE  Once(dict') /\ Distinct(heap') /\ SameData
  BY <1>2, <1>6, ProbeLeavesAll
<1>7. ASSUME Holds(c, k, "set"), NEW el \in Fresh(heap), dict' = dict,
             Equal(heap, Entry(c, k), v) = {},
             heap' = [Create(heap, el, "string", v) EXCEPT ![Entry(c, k)].ptr = @ \cup {el}]
      PROVE  Once(dict') /\ Distinct(heap') /\ Abstract!AddMember(c, k)
  <2> DEFINE e == Entry(c, k)
             old == Value(c, k)
             p == old \cup {el}
             h == Create(heap, el, "string", v)
             N == {el} \cup {e}
  <2>1. /\ Abstract!IsType(c, k, "set") /\ Abstract!At(c, k) # Abstract!None
        /\ Abstract!Of(c, k) = ValuesIn(heap, old)
        /\ \A m, n \in old : heap[m].ptr = heap[n].ptr => m = n
        /\ \A m \in old : m \in Ids /\ heap[m].type = "string" /\ m # e
        /\ e \in Ids /\ heap[e].type = "set" /\ old = heap[e].ptr
    BY <1>7, SetShown
  <2>2. /\ Records(h) /\ SameBut(heap, h, {el}) /\ el \in Ids /\ heap[el].type \notin Types
        /\ h[el].type = "string" /\ h[el].ptr = v
    BY <1>1, CreateKeeps
  <2>3. \A i \in Ids \ {el} : h[i] = heap[i]
    BY DEF Create
  <2>4. \A m \in old : heap[m].ptr # v
    BY <1>7, <2>1 DEF Equal
  <2>5. e # el /\ h[e] = heap[e] /\ el \notin old
    BY <2>1, <2>2, <2>3 DEF Types, Containers
  <2>6. heap' = [h EXCEPT ![e].ptr = p]
    BY <1>7, <2>1, <2>5
  <2> HIDE DEF e, old, p, h, N
  <2>7. SameBut(h, heap', {e}) /\ heap'[e].type = "set" /\ heap'[e].ptr = p
    <3>1. /\ SameBut(h, Written(h, e, p), {e})
          /\ Written(h, e, p)[e].type = h[e].type /\ Written(h, e, p)[e].ptr = p
      BY <2>1, <2>2, SetPtrKeeps
    <3>2. heap' = Written(h, e, p)
      BY <2>6 DEF Written
    <3> QED
      BY <2>1, <2>5, <3>1, <3>2
  <2>8. SameBut(heap, heap', N)
    <3>1. SameBut(heap, heap', {el} \cup {e})
      BY <2>2, <2>7, SameThrough
    <3> QED
      BY <3>1 DEF N
  <2>9. /\ heap'[el].type = "string" /\ heap'[el].ptr = v
        /\ \A m \in old : heap'[m].ptr = heap[m].ptr
    <3>1. \A i \in Ids \ {e} : heap'[i] = h[i]
      BY <2>2, <2>6 DEF Records
    <3> QED
      BY <2>1, <2>2, <2>3, <2>5, <3>1
  <2>10. \A m, n \in p : heap'[m].ptr = heap'[n].ptr => m = n
    BY <2>1, <2>4, <2>9 DEF p
  <2>11. /\ Dataset' = [Dataset EXCEPT ![selected[c]][k] = <<"set", ValuesIn(heap', p)>>]
         /\ Once(dict') /\ Distinct(heap')
    <3>1. /\ Separate /\ Sound(heap', dict', reply', Nothing) /\ c \in Clients /\ k \in Keys
          /\ Holds(c, k, "set") /\ dict' = dict
      BY <1>7
    <3>2. \A n \in N : Private(n, c, k, N)
      BY <2>1, <2>2 DEF Private, N, e, Containers
    <3>3. N \in SUBSET Ids /\ \A s \in N \ {Entry(c, k)} : heap'[s].type # "set"
      BY <2>1, <2>2, <2>9 DEF N, e
    <3>4. SameBut(heap', heap', {})
      BY DEF SameBut
    <3>5. heap'[Entry(c, k)].type = "set" /\ heap'[Entry(c, k)].ptr = p
      BY <2>7 DEF e
    <3> QED
      BY ONLY <2>8, <2>10, <3>1, <3>2, <3>3, <3>4, <3>5, SetWritten
  <2>12. ValuesIn(heap', p) = ValuesIn(heap, old) \cup {v}
    BY <2>9 DEF ValuesIn, p
  <2>13. Abstract!Set(Abstract!Members(c, k) \cup {v}) = <<"set", ValuesIn(heap', p)>>
    BY <2>1, <2>12 DEF Abstract!Members, Abstract!Set
  <2> QED
    BY <1>2, <1>3, <1>4, <2>1, <2>11, <2>13
       DEF Abstract!AddMember, Abstract!OnlyData, Abstract!Put
<1> QED
  BY <1>5, <1>6, <1>7 DEF SAddCommand

(* SREM: a set has a value once, so the member that goes takes it along. *)
LEMMA SRemStep ==
  ASSUME Separate, Sound(heap', dict', reply', Nothing), NEW c \in Clients, NEW k \in Keys,
         NEW v \in Strings, SRemCommand(c, k, v)
  PROVE  /\ Once(dict') /\ Distinct(heap')
         /\ Abstract!RemoveMember(c, k) \/ SameData
<1> DEFINE e == Entry(c, k)
           old == Value(c, k)
           gone == Equal(heap, e, v)
           p == old \ gone
<1>1. /\ Holds(c, k, "set") /\ dict' = dict /\ selected' = selected /\ reply' = reply
  BY DEF SRemCommand
<1>2. PICK probe \in Fresh(heap) :
        heap' = DecrRefCount(DecrAll([Create(heap, probe, "string", v) EXCEPT ![e].ptr = @ \ gone],
                                     gone), probe)
  BY DEF SRemCommand
<1> DEFINE h == Create(heap, probe, "string", v)
           g == [h EXCEPT ![e].ptr = p]
           M == {probe} \cup {e}
<1>3. Records(heap) /\ Inv
  BY HeapRecords DEF Separate, Inv, Sound
<1>4. /\ Abstract!IsType(c, k, "set") /\ Abstract!Of(c, k) = ValuesIn(heap, old)
      /\ \A m, n \in old : heap[m].ptr = heap[n].ptr => m = n
      /\ \A m \in old : m \in Ids /\ heap[m].type = "string" /\ m # e
      /\ e \in Ids /\ heap[e].type = "set" /\ old = heap[e].ptr
  BY <1>1, SetShown
<1>5. /\ Records(h) /\ SameBut(heap, h, {probe}) /\ probe \in Ids /\ heap[probe].type \notin Types
      /\ h[probe].type = "string" /\ h[probe].ptr = v
  BY <1>3, CreateKeeps
<1>6. \A i \in Ids \ {probe} : h[i] = heap[i]
  BY DEF Create
<1>7. gone = {m \in old : heap[m].ptr = v}
  BY <1>4 DEF Equal
<1>8. e # probe /\ h[e] = heap[e] /\ probe \notin old
  BY <1>4, <1>5, <1>6 DEF Types, Containers
<1> HIDE DEF h
<1>9. heap' = DecrRefCount(DecrAll(g, gone), probe)
  <2>1. [h EXCEPT ![e].ptr = @ \ gone] = g
    BY <1>4, <1>8
  <2> QED
    BY <1>2, <2>1 DEF h
<1> HIDE DEF e, old, gone, p
<1>10. Records(g) /\ SameBut(h, g, {e}) /\ g[e].type = "set" /\ g[e].ptr = p
  <2>1. g = Written(h, e, p)
    BY DEF Written
  <2> HIDE DEF g
  <2>2. /\ Records(g) /\ SameBut(h, g, {e})
        /\ g[e].type = h[e].type /\ g[e].ptr = p
    BY <1>4, <1>5, <2>1, SetPtrKeeps
  <2> QED
    BY <1>4, <1>8, <2>2
<1>11. \A m \in old : g[m].ptr = heap[m].ptr
  <2>1. \A i \in Ids \ {e} : g[i] = h[i]
    BY <1>5 DEF Records
  <2> QED
    BY <1>4, <1>6, <1>8, <2>1
<1> HIDE DEF g, M
<1>12. SameBut(g, heap', {})
  <2>1. Records(DecrAll(g, gone)) /\ SameBut(g, DecrAll(g, gone), {})
    BY <1>10, DecrKeeps
  <2> DEFINE f == DecrAll(g, gone)
  <2> HIDE DEF f
  <2>2. SameBut(f, heap', {})
    BY <1>9, <2>1, DecrRefCountKeeps DEF f
  <2>3. SameBut(g, heap', {} \cup {})
    BY <2>1, <2>2, SameThrough DEF f
  <2> QED
    BY <2>3
<1>13. SameBut(heap, heap', M)
  <2>1. SameBut(heap, g, {probe} \cup {e})
    BY <1>5, <1>10, SameThrough
  <2>2. SameBut(heap, heap', ({probe} \cup {e}) \cup {})
    BY <1>12, <2>1, SameThrough
  <2>3. ({probe} \cup {e}) \cup {} = M
    BY DEF M
  <2> QED
    BY <2>2, <2>3
<1>14. /\ Dataset' = [Dataset EXCEPT ![selected[c]][k] = <<"set", ValuesIn(g, p)>>]
       /\ Once(dict') /\ Distinct(heap')
  <2>1. /\ Separate /\ Sound(heap', dict', reply', Nothing) /\ c \in Clients /\ k \in Keys
        /\ Holds(c, k, "set") /\ dict' = dict
    BY <1>1
  <2>2. \A n \in M : Private(n, c, k, M)
    BY <1>4, <1>5 DEF Private, M, e, Containers
  <2>3. M \in SUBSET Ids /\ \A s \in M \ {Entry(c, k)} : heap'[s].type # "set"
    <3>1. g[probe].type = "string"
      BY <1>5, <1>8, <1>10 DEF Records, g
    <3>2. heap'[probe].type # "set"
      BY <1>5, <1>12, <3>1 DEF SameBut, Types, Containers
    <3> QED
      BY <1>4, <1>5, <3>2 DEF M, e
  <2>4. g[Entry(c, k)].type = "set" /\ g[Entry(c, k)].ptr = p
    BY <1>10 DEF e
  <2>5. \A m, n \in p : g[m].ptr = g[n].ptr => m = n
    BY <1>4, <1>11 DEF p
  <2> QED
    BY ONLY <1>12, <1>13, <2>1, <2>2, <2>3, <2>4, <2>5, SetWritten
<1>15. ValuesIn(g, p) = ValuesIn(heap, old) \ {v}
  <2>1. \A m \in p : m \in old /\ g[m].ptr = heap[m].ptr /\ heap[m].ptr # v
    BY <1>7, <1>11 DEF p
  <2>2. \A m \in old : heap[m].ptr # v => m \in p
    BY <1>7 DEF p
  <2> QED
    BY <2>1, <2>2 DEF ValuesIn
<1>16. Outgoing' = Outgoing
  BY <1>1, <1>3, NothingSent
<1>17. CASE v \in ValuesIn(heap, old)
  <2>1. Dataset' = [Dataset EXCEPT ![selected[c]][k] = Abstract!Set(Abstract!Of(c, k) \ {v})]
    BY <1>4, <1>14, <1>15 DEF Abstract!Set
  <2>2. v \in Abstract!Of(c, k)
    BY <1>4, <1>17
  <2>3. Abstract!Put(c, k, {Abstract!Set(Abstract!Of(c, k) \ {w}) : w \in Abstract!Of(c, k)})
    BY <2>1, <2>2 DEF Abstract!Put
  <2>4. Abstract!RemoveMember(c, k)
    BY <1>1, <1>4, <1>16, <2>3 DEF Abstract!RemoveMember, Abstract!OnlyData
  <2> QED
    BY <1>14, <2>4
<1>18. CASE v \notin ValuesIn(heap, old)
  <2>1. Dataset' = Dataset
    <3>1. ValuesIn(g, p) = ValuesIn(heap, old)
      BY <1>15, <1>18
    <3>2. selected[c] \in Dbs /\ Contents(Entry(c, k)) = <<"set", ValuesIn(heap, old)>>
      <4>1. selected[c] \in Dbs
        BY <1>3, KeyShown
      <4>2. Shown(heap, Entry(c, k)) = <<"set", ValuesIn(heap, old)>>
        BY <1>4, KeyspaceAssumption DEF Shown, ValuesIn, e
      <4> QED
        BY <4>1, <4>2, ShownIsContents
    <3>3. Dataset = [t \in Dbs |-> [j \in Keys |-> Contents(dict[t][j])]]
      BY DEF Dataset
    <3>4. Dataset[selected[c]][k] = <<"set", ValuesIn(heap, old)>>
      BY <3>2, <3>3 DEF Entry
    <3>5. [Dataset EXCEPT ![selected[c]][k] = Dataset[selected[c]][k]] = Dataset
      BY <3>2, <3>3
    <3> QED
      BY <1>14, <3>1, <3>4, <3>5
  <2> QED
    BY <1>1, <1>14, <1>16, <2>1 DEF SameData
<1> QED
  BY <1>17, <1>18

(* SISMEMBER leaves everything as it was. *)
LEMMA SIsMemberStep ==
  ASSUME Separate, Sound(heap', dict', reply', Nothing), NEW c \in Clients, NEW k \in Keys,
         NEW v \in Strings, SIsMemberCommand(c, k, v)
  PROVE  Once(dict') /\ Distinct(heap') /\ SameData
<1>1. PICK probe \in Fresh(heap) :
        heap' = DecrRefCount(Create(heap, probe, "string", v), probe)
  BY DEF SIsMemberCommand
<1>2. dict' = dict /\ reply' = reply /\ selected' = selected
  BY DEF SIsMemberCommand, NoChange
<1> QED
  BY <1>1, <1>2, ProbeLeavesAll

(* Members in any order, each once: so are their values. *)
LEMMA ValuesOfSet ==
  ASSUME NEW h, NEW S \in SUBSET Ids, \A m, n \in S : h[m].ptr = h[n].ptr => m = n,
         NEW os \in SetToSeqs(S)
  PROVE  os \in Seq(Ids) /\ Values(h, os) \in Abstract!SetToSeqs(ValuesIn(h, S))
<1> DEFINE n == Cardinality(S)
           T == ValuesIn(h, S)
<1>1. IsFiniteSet(S) /\ n \in Nat
  BY KeyspaceAssumption, FS_Subset, FS_CardinalityType
<1>2. os \in [1 .. n -> S] /\ \A i, j \in 1 .. n : i # j => os[i] # os[j]
  BY DEF SetToSeqs
<1>3. Cardinality(T) = n
  <2> DEFINE f == [m \in S |-> h[m].ptr]
  <2>1. f \in Surjection(S, T)
    BY DEF Surjection, ValuesIn
  <2>2. f \in Injection(S, T)
    <3>1. f \in [S -> T] /\ \A i, j \in S : f[i] = f[j] => i = j
      BY DEF ValuesIn
    <3> QED
      BY <3>1 DEF Injection, IsInjective
  <2> HIDE DEF f, T
  <2> QED
    BY <1>1, <2>1, <2>2, FS_Surjection
<1>4. Abstract!Cardinality(T) = Cardinality(T)
  BY DEF Abstract!Cardinality, Cardinality
<1> HIDE DEF n
<1>5. os \in Seq(Ids)
  <2>1. os \in [1 .. n -> Ids]
    BY <1>2
  <2> QED
    BY <1>1, <2>1
<1>6. Values(h, os) = [i \in 1 .. n |-> h[os[i]].ptr]
  BY <1>2 DEF Values
<1>7. Values(h, os) \in [1 .. n -> T]
  BY <1>2, <1>6 DEF ValuesIn
<1>8. \A i, j \in 1 .. n : i # j => Values(h, os)[i] # Values(h, os)[j]
  <2>1. \A i \in 1 .. n : os[i] \in S
    BY <1>2
  <2> QED
    BY <1>2, <1>6, <2>1
<1> HIDE DEF T
<1>9. Values(h, os) \in Abstract!SetToSeqs(T)
  <2>1. Abstract!Cardinality(T) = n
    BY <1>3, <1>4
  <2> QED
    BY <1>7, <1>8, <2>1 DEF Abstract!SetToSeqs
<1> QED
  BY <1>5, <1>9 DEF T

(* SINTER, SMEMBERS: it does not matter whose objects are queued. *)
LEMMA SInterStep ==
  ASSUME Separate, Sound(heap', dict', reply', Nothing), NEW c \in Clients,
         NEW ks \in SUBSET Keys, SInterCommand(c, ks)
  PROVE  Once(dict') /\ Distinct(heap') /\ Abstract!Intersect(c)
<1> DEFINE Common(small) == {m \in Value(c, small) :
                               \A k \in ks : Equal(heap, Entry(c, k), heap[m].ptr) # {}}
<1>1. PICK small \in ks : \E os \in SetToSeqs(Common(small)) :
        heap' = Retain(heap, os) /\ AddReply(c, heap, os)
  BY DEF SInterCommand
<1> DEFINE common == Common(small)
<1>2. PICK os \in SetToSeqs(common) : heap' = Retain(heap, os) /\ AddReply(c, heap, os)
  BY <1>1
<1>3. /\ ks # {} /\ NoChange
      /\ \A k \in ks : k \in Keys /\ Holds(c, k, "set")
  BY DEF SInterCommand
<1>4. ASSUME NEW k \in ks
      PROVE  /\ Abstract!IsType(c, k, "set")
             /\ Abstract!Of(c, k) = ValuesIn(heap, Value(c, k))
             /\ \A m, n \in Value(c, k) : heap[m].ptr = heap[n].ptr => m = n
             /\ \A m \in Value(c, k) : m \in Ids /\ heap[m].ptr \in Strings
             /\ \A v : Equal(heap, Entry(c, k), v) = {m \in Value(c, k) : heap[m].ptr = v}
  <2>1. k \in Keys /\ Holds(c, k, "set")
    BY <1>3
  <2>2. /\ Abstract!IsType(c, k, "set")
        /\ Abstract!Of(c, k) = ValuesIn(heap, Value(c, k))
        /\ \A m, n \in Value(c, k) : heap[m].ptr = heap[n].ptr => m = n
        /\ \A m \in Value(c, k) : m \in Ids /\ heap[m].ptr \in Strings
        /\ Value(c, k) = heap[Entry(c, k)].ptr
    BY <2>1, SetShown
  <2> QED
    BY <2>2 DEF Equal
<1> DEFINE V == {v \in Abstract!Strings : \A k \in ks : v \in Abstract!Of(c, k)}
<1>5. ValuesIn(heap, common) = V
  <2>1. ASSUME NEW m \in common PROVE heap[m].ptr \in V
    <3>1. heap[m].ptr \in Abstract!Strings
      BY <1>4 DEF Abstract!Strings, Strings
    <3>2. ASSUME NEW k \in ks PROVE heap[m].ptr \in Abstract!Of(c, k)
      <4>1. PICK n \in Value(c, k) : heap[n].ptr = heap[m].ptr
        BY <1>4
      <4> QED
        BY <1>4, <4>1 DEF ValuesIn
    <3> QED
      BY <3>1, <3>2
  <2>2. ASSUME NEW v \in V PROVE \E m \in common : heap[m].ptr = v
    <3>1. \A k \in ks : \E m \in Value(c, k) : heap[m].ptr = v
      BY <1>4 DEF ValuesIn
    <3>2. PICK m \in Value(c, small) : heap[m].ptr = v
      BY <3>1
    <3>3. \A k \in ks : Equal(heap, Entry(c, k), v) # {}
      BY <1>4, <3>1
    <3> QED
      BY <3>2, <3>3
  <2> HIDE DEF common, V
  <2> QED
    BY <2>1, <2>2 DEF ValuesIn
<1>6. os \in Seq(Ids) /\ Values(heap, os) \in Abstract!SetToSeqs(ValuesIn(heap, common))
  <2>1. common \in SUBSET Ids /\ \A m, n \in common : heap[m].ptr = heap[n].ptr => m = n
    BY <1>4
  <2> HIDE DEF common
  <2> QED
    BY <2>1, ValuesOfSet
<1> HIDE DEF common
<1>7. /\ Once(dict') /\ Distinct(heap') /\ Dataset' = Dataset /\ selected' = selected
      /\ Outgoing' = [Outgoing EXCEPT ![c] = @ \o Values(heap, os)]
  BY <1>2, <1>3, <1>6, ValuesRead
<1>8. Abstract!Send(c, Abstract!SetToSeqs(V))
  <2> HIDE DEF V
  <2> QED
    BY <1>5, <1>6, <1>7 DEF Abstract!Send
<1>9. ks \in (SUBSET Keys) \ {{}}
  BY <1>3
<1> QED
  BY <1>4, <1>7, <1>8, <1>9 DEF Abstract!Intersect, Abstract!OnlyOut

-----------------------------------------------------------------------------
(* Keys                                                                    *)

(* A dataset changed at two keys. *)
Both(D, t2, k2, a, t1, k1, b) == [D EXCEPT ![t2][k2] = a, ![t1][k1] = b]

(* Changes at two keys, key by key. *)
LEMMA BothChanged ==
  ASSUME NEW D, D = [t \in Dbs |-> [k \in Keys |-> D[t][k]]],
         NEW t1 \in Dbs, NEW k1 \in Keys, NEW t2 \in Dbs, NEW k2 \in Keys, NEW a, NEW b
  PROVE  /\ Both(D, t2, k2, a, t1, k1, b)
              = [t \in Dbs |-> [k \in Keys |-> Both(D, t2, k2, a, t1, k1, b)[t][k]]]
         /\ \A t \in Dbs, k \in Keys :
              Both(D, t2, k2, a, t1, k1, b)[t][k]
                = IF t = t1 /\ k = k1 THEN b
                  ELSE IF t = t2 /\ k = k2 THEN a ELSE D[t][k]
<1> DEFINE D1 == [D EXCEPT ![t2][k2] = a]
           D2 == [D1 EXCEPT ![t1][k1] = b]
<1>1. D1 = [t \in Dbs |-> [k \in Keys |-> IF t = t2 /\ k = k2 THEN a ELSE D[t][k]]]
  <2>1. D1 = [t \in Dbs |-> IF t = t2 THEN [D[t2] EXCEPT ![k2] = a] ELSE D[t]]
    OBVIOUS
  <2>2. [D[t2] EXCEPT ![k2] = a] = [k \in Keys |-> IF k = k2 THEN a ELSE D[t2][k]]
    OBVIOUS
  <2>3. \A t \in Dbs : D[t] = [k \in Keys |-> D[t][k]]
    OBVIOUS
  <2> HIDE DEF D1
  <2> QED
    BY ONLY <2>1, <2>2, <2>3
<1>2. D2 = [t \in Dbs |-> [k \in Keys |-> IF t = t1 /\ k = k1 THEN b ELSE D1[t][k]]]
  <2> HIDE DEF D1
  <2>0. D1 = [t \in Dbs |-> [k \in Keys |-> D1[t][k]]]
    BY <1>1
  <2>1. D2 = [t \in Dbs |-> IF t = t1 THEN [D1[t1] EXCEPT ![k1] = b] ELSE D1[t]]
    BY <2>0
  <2>2. [D1[t1] EXCEPT ![k1] = b] = [k \in Keys |-> IF k = k1 THEN b ELSE D1[t1][k]]
    BY <2>0
  <2>3. \A t \in Dbs : D1[t] = [k \in Keys |-> D1[t][k]]
    BY <2>0
  <2> HIDE DEF D2
  <2> QED
    BY ONLY <2>1, <2>2, <2>3
<1>3. D2 = Both(D, t2, k2, a, t1, k1, b)
  BY DEF Both
<1> HIDE DEF D1, D2
<1>4. D2 = [t \in Dbs |-> [k \in Keys |-> D2[t][k]]]
  BY <1>2
<1>5. \A t \in Dbs, k \in Keys :
        D2[t][k] = IF t = t1 /\ k = k1 THEN b
                   ELSE IF t = t2 /\ k = k2 THEN a ELSE D[t][k]
  BY <1>1, <1>2
<1> QED
  BY <1>3, <1>4, <1>5

(* An object that goes from one key to another takes its value along. *)
LEMMA EntryMoved ==
  ASSUME Separate, Sound(heap', dict', reply', Nothing), SameBut(heap, heap', {}),
         NEW t1 \in Dbs, NEW k1 \in Keys, NEW t2 \in Dbs, NEW k2 \in Keys,
         <<t1, k1>> # <<t2, k2>>, dict[t1][k1] \in Ids,
         dict' = [dict EXCEPT ![t2][k2] = dict[t1][k1], ![t1][k1] = Null]
  PROVE  /\ Dataset' = [Dataset EXCEPT ![t2][k2] = Dataset[t1][k1], ![t1][k1] = <<"none">>]
         /\ Once(dict') /\ Distinct(heap')
<1> DEFINE e == dict[t1][k1]
<1>1. /\ dict \in [Dbs -> [Keys -> Ids \cup {Null}]] /\ HeapType(heap) /\ HeapType(heap')
      /\ Null \notin Ids /\ dict' \in [Dbs -> [Keys -> Ids \cup {Null}]]
  BY KeyspaceAssumption DEF Separate, Inv, Sound, DictType
<1>2. dict' = Both(dict, t2, k2, e, t1, k1, Null) /\ e \in Ids
  BY DEF Both
<1> HIDE DEF e
<1>3. \A t \in Dbs, k \in Keys :
        dict'[t][k] = IF t = t1 /\ k = k1 THEN Null
                      ELSE IF t = t2 /\ k = k2 THEN e ELSE dict[t][k]
  <2>1. dict = [t \in Dbs |-> [k \in Keys |-> dict[t][k]]]
    BY <1>1
  <2> DEFINE B == Both(dict, t2, k2, e, t1, k1, Null)
  <2>2. \A t \in Dbs, k \in Keys :
          B[t][k] = IF t = t1 /\ k = k1 THEN Null
                    ELSE IF t = t2 /\ k = k2 THEN e ELSE dict[t][k]
    BY ONLY <2>1, t1 \in Dbs, k1 \in Keys, t2 \in Dbs, k2 \in Keys, BothChanged
  <2>3. dict' = B
    BY <1>2
  <2> HIDE DEF B
  <2> QED
    BY ONLY <2>2, <2>3
<1>4. ASSUME NEW t \in Dbs, NEW k \in Keys
      PROVE  Contents(dict[t][k])' = Shown(heap, dict'[t][k])
  <2> DEFINE o == dict'[t][k]
  <2>1. CASE o = Null
    BY <2>1, ShownIsContents DEF Shown
  <2>2. CASE o # Null
    <3>1. o \in Ids \ {} /\ Members(heap[o]) \cap {} = {}
      BY <1>1, <2>2
    <3>2. heap'[o].type \in Types
      BY <3>1, EntryInUse
    <3> HIDE DEF o
    <3>3. Shown(heap', o) = Shown(heap, o)
      BY <1>1, <3>1, <3>2, ShownKept
    <3> QED
      BY <3>3, ShownIsContents DEF o
  <2> QED
    BY <2>1, <2>2
<1>5. \A t \in Dbs, k \in Keys : Contents(dict[t][k]) = Shown(heap, dict[t][k])
  BY ShownIsContents
<1>6. Dataset' = [Dataset EXCEPT ![t2][k2] = Dataset[t1][k1], ![t1][k1] = <<"none">>]
  <2> DEFINE D == [t \in Dbs |-> [k \in Keys |-> Shown(heap, dict[t][k])]]
             D2 == [t \in Dbs |-> [k \in Keys |-> Shown(heap, dict'[t][k])]]
             D3 == Both(D, t2, k2, D[t1][k1], t1, k1, <<"none">>)
  <2>1. Dataset = D /\ Dataset' = D2
    <3>1. /\ Dataset = [t \in Dbs |-> [k \in Keys |-> Contents(dict[t][k])]]
          /\ Dataset' = [t \in Dbs |-> [k \in Keys |-> Contents(dict[t][k])']]
      BY DEF Dataset
    <3>2. D = [t \in Dbs |-> [k \in Keys |-> Contents(dict[t][k])]]
      BY <1>5
    <3>3. D2 = [t \in Dbs |-> [k \in Keys |-> Contents(dict[t][k])']]
      BY <1>4
    <3> QED
      BY <3>1, <3>2, <3>3
  <2>2. Shown(heap, Null) = <<"none">>
    BY DEF Shown
  <2>3. \A t \in Dbs, k \in Keys : D[t][k] = Shown(heap, dict[t][k])
    OBVIOUS
  <2>4. \A t \in Dbs, k \in Keys : D2[t][k] = Shown(heap, dict'[t][k])
    OBVIOUS
  <2>5. /\ D = [t \in Dbs |-> [k \in Keys |-> D[t][k]]]
        /\ D2 = [t \in Dbs |-> [k \in Keys |-> D2[t][k]]]
    OBVIOUS
  <2> HIDE DEF D, D2
  <2>6. /\ D3 = [t \in Dbs |-> [k \in Keys |-> D3[t][k]]]
        /\ \A t \in Dbs, k \in Keys :
             D3[t][k] = IF t = t1 /\ k = k1 THEN <<"none">>
                        ELSE IF t = t2 /\ k = k2 THEN D[t1][k1] ELSE D[t][k]
    BY <2>5, BothChanged
  <2> HIDE DEF D3
  <2>7. e = dict[t1][k1]
    BY DEF e
  <2>8. ASSUME NEW t \in Dbs, NEW k \in Keys PROVE D2[t][k] = D3[t][k]
    <3>1. dict'[t][k] = IF t = t1 /\ k = k1 THEN Null
                        ELSE IF t = t2 /\ k = k2 THEN e ELSE dict[t][k]
      BY <1>3
    <3>2. D3[t][k] = IF t = t1 /\ k = k1 THEN <<"none">>
                     ELSE IF t = t2 /\ k = k2 THEN D[t1][k1] ELSE D[t][k]
      BY <2>6
    <3>3. /\ D[t][k] = Shown(heap, dict[t][k]) /\ D[t1][k1] = Shown(heap, e)
          /\ D2[t][k] = Shown(heap, dict'[t][k])
      BY <2>3, <2>4, <2>7
    <3> QED
      BY ONLY <2>2, <3>1, <3>2, <3>3
  <2>9. D2 = D3
    BY <2>5, <2>6, <2>8
  <2> QED
    BY <2>1, <2>9 DEF D3, Both
<1>7. Once(dict')
  <2> SUFFICES ASSUME NEW t3 \in Dbs, NEW k3 \in Keys, NEW t4 \in Dbs, NEW k4 \in Keys,
                      dict'[t3][k3] \in Ids, dict'[t3][k3] = dict'[t4][k4]
               PROVE  <<t3, k3>> = <<t4, k4>>
    BY DEF Once
  <2>1. ASSUME NEW t \in Dbs, NEW k \in Keys, NEW t5 \in Dbs, NEW k5 \in Keys,
               dict[t][k] \in Ids, dict[t][k] = dict[t5][k5]
        PROVE  t = t5 /\ k = k5
    <3>1. <<t, k>> \in Dbs \X Keys /\ <<t5, k5>> \in Dbs \X Keys
      OBVIOUS
    <3> QED
      BY <2>1, <3>1 DEF Separate, Once
  <2>2. /\ dict'[t3][k3] = IF t3 = t1 /\ k3 = k1 THEN Null
                           ELSE IF t3 = t2 /\ k3 = k2 THEN e ELSE dict[t3][k3]
        /\ dict'[t4][k4] = IF t4 = t1 /\ k4 = k1 THEN Null
                           ELSE IF t4 = t2 /\ k4 = k2 THEN e ELSE dict[t4][k4]
    BY <1>3
  <2>3. ~ (t3 = t1 /\ k3 = k1) /\ ~ (t4 = t1 /\ k4 = k1)
    BY <1>1, <2>2
  <2>4. e = dict[t1][k1]
    BY DEF e
  <2> QED
    BY SMTT(40), <1>2, <2>1, <2>2, <2>3, <2>4
<1> QED
  BY <1>6, <1>7, StillDistinct

(* MOVE: between databases. *)
LEMMA MoveStep ==
  ASSUME Separate, Sound(heap', dict', reply', Nothing), NEW c \in Clients, NEW k \in Keys,
         NEW d \in Dbs, MoveCommand(c, k, d)
  PROVE  Once(dict') /\ Distinct(heap') /\ Abstract!Move(c, k)
<1> DEFINE s == selected[c]
<1>1. /\ d # s /\ Found(c, k) /\ dict[d][k] = Null
      /\ heap' = heap /\ selected' = selected /\ reply' = reply
      /\ dict' = [dict EXCEPT ![d][k] = dict[s][k], ![s][k] = Null]
  BY DEF MoveCommand, Entry
<1>2. Inv
  BY DEF Separate
<1>3. s \in Dbs /\ dict[s][k] \in Ids
  BY <1>1, <1>2, KeyFacts
<1>4. SameBut(heap, heap', {})
  BY <1>1 DEF SameBut
<1>5. Outgoing' = Outgoing
  BY <1>1, <1>2, NothingSent
<1>6. Abstract!At(c, k) # Abstract!None
  <2>1. Found(c, k)
    BY ONLY <1>2, <1>3, c \in Clients, k \in Keys, KeyFacts
  <2> QED
    BY ONLY <1>2, <2>1, c \in Clients, k \in Keys, KeyShown
<1>7. Dataset[d][k] = <<"none">>
  <2>1. Contents(dict[d][k]) = <<"none">>
    BY Zenon, <1>1 DEF Contents
  <2> QED
    BY <2>1 DEF Dataset
<1>8. Abstract!At(c, k) = Dataset[s][k]
  BY DEF Abstract!At
<1> HIDE DEF s
<1>9. <<s, k>> # <<d, k>>
  BY <1>1
<1>10. /\ Dataset' = [Dataset EXCEPT ![d][k] = Dataset[s][k], ![s][k] = <<"none">>]
       /\ Once(dict') /\ Distinct(heap')
  BY <1>1, <1>3, <1>4, <1>9, EntryMoved
<1> QED
  BY <1>1, <1>5, <1>6, <1>7, <1>8, <1>10
     DEF Abstract!Move, Abstract!OnlyData, Abstract!None, s

(* RENAME, RENAMENX: what was at the new name goes. *)
LEMMA RenameStep ==
  ASSUME Separate, Sound(heap', dict', reply', Nothing), NEW c \in Clients,
         NEW src \in Keys, NEW dst \in Keys, NEW nx, RenameGenericCommand(c, src, dst, nx)
  PROVE  Once(dict') /\ Distinct(heap') /\ Abstract!Rename(c, src)
<1> DEFINE s == selected[c]
           o == Entry(c, src)
           h == IncrRefCount(heap, o)
           h2 == IF Found(c, dst) THEN DecrRefCount(h, Entry(c, dst)) ELSE h
<1>1. /\ src # dst /\ Found(c, src) /\ heap' = DecrRefCount(h2, o)
      /\ selected' = selected /\ reply' = reply
      /\ dict' = [dict EXCEPT ![s][dst] = dict[s][src], ![s][src] = Null]
  BY DEF RenameGenericCommand, Entry
<1>2. Inv /\ Records(heap)
  BY HeapRecords DEF Separate, Inv, Sound
<1>3. s \in Dbs /\ dict[s][src] \in Ids /\ o \in Ids
  BY <1>1, <1>2, KeyFacts
<1>4. Outgoing' = Outgoing
  BY <1>1, <1>2, NothingSent
<1>5. Abstract!At(c, src) # Abstract!None
  BY <1>1, <1>2, KeyShown
<1>6. Abstract!At(c, src) = Dataset[s][src]
  BY DEF Abstract!At
<1> HIDE DEF o
<1>7. SameBut(heap, heap', {})
  <2>1. Records(h) /\ SameBut(heap, h, {})
    <3>1. /\ h[o] = [type |-> heap[o].type, ptr |-> heap[o].ptr, refcount |-> heap[o].refcount + 1]
          /\ h = [i \in Ids |-> h[i]] /\ \A i \in Ids \ {o} : h[i] = heap[i]
      BY <1>2, <1>3 DEF Records, IncrRefCount
    <3> HIDE DEF h
    <3> QED
      BY <1>2, <3>1 DEF Records, SameBut
  <2> HIDE DEF h
  <2>2. SameBut(h, h, {})
    BY DEF SameBut
  <2>3. Records(h2) /\ SameBut(h, h2, {})
    BY <2>1, <2>2, DecrRefCountKeeps
  <2> HIDE DEF h2
  <2>4. SameBut(h2, heap', {})
    BY <1>1, <2>3, DecrRefCountKeeps
  <2>5. SameBut(heap, h2, {} \cup {})
    BY <2>1, <2>3, SameThrough
  <2>6. SameBut(heap, heap', ({} \cup {}) \cup {})
    BY <2>4, <2>5, SameThrough
  <2> QED
    BY <2>6
<1> HIDE DEF s, h, h2
<1>8. <<s, src>> # <<s, dst>>
  BY <1>1
<1>9. /\ Dataset' = [Dataset EXCEPT ![s][dst] = Dataset[s][src], ![s][src] = <<"none">>]
      /\ Once(dict') /\ Distinct(heap')
  BY <1>1, <1>3, <1>7, <1>8, EntryMoved
<1> QED
  BY <1>1, <1>4, <1>5, <1>6, <1>9
     DEF Abstract!Rename, Abstract!OnlyData, Abstract!None, s

(* SELECT: another database, and nothing else. *)
LEMMA SelectStep ==
  ASSUME Separate, Sound(heap', dict', reply', Nothing), NEW c \in Clients, NEW d \in Dbs,
         SelectCommand(c, d)
  PROVE  Once(dict') /\ Distinct(heap') /\ Abstract!Choose(c)
<1>1. /\ selected' = [selected EXCEPT ![c] = d]
      /\ heap' = heap /\ dict' = dict /\ reply' = reply
  BY DEF SelectCommand
<1>2. SameBut(heap, heap', {})
  BY <1>1 DEF SameBut
<1>3. Dataset' = Dataset /\ Once(dict') /\ Distinct(heap')
  BY <1>1, <1>2, WritesNothing
<1>4. Outgoing' = Outgoing
  BY <1>1, NothingSent DEF Separate
<1> QED
  BY <1>1, <1>3, <1>4 DEF Abstract!Choose

-----------------------------------------------------------------------------
(* The reply list                                                          *)

(* The rest of a sequence, position by position. *)
LEMMA TailAt ==
  ASSUME NEW S, NEW q \in Seq(S), q # <<>>
  PROVE  Tail(q) = [n \in 1 .. Len(q) - 1 |-> q[n + 1]]
<1> DEFINE t == Tail(q)
<1>1. /\ t \in Seq(S) /\ Len(t) = Len(q) - 1
      /\ \A n \in 1 .. Len(t) : t[n] = q[n + 1]
  BY HeadTailProperties
<1> HIDE DEF t
<1>2. t = [n \in 1 .. Len(t) |-> t[n]]
  BY <1>1
<1>3. t = [n \in 1 .. Len(q) - 1 |-> q[n + 1]]
  BY <1>1, <1>2
<1> QED
  BY <1>3 DEF t

(* SendReplyToClient: the value that waited longest goes. *)
LEMMA SendReplyStep ==
  ASSUME Separate, Sound(heap', dict', reply', Nothing), NEW c \in Clients,
         SendReplyToClient(c)
  PROVE  Once(dict') /\ Distinct(heap') /\ Abstract!Sent(c)
<1>1. /\ reply[c] # <<>> /\ reply' = [reply EXCEPT ![c] = Tail(@)]
      /\ dict' = dict /\ selected' = selected
  BY DEF SendReplyToClient, NoChange
<1>2. Inv
  BY DEF Separate
<1>3. SameBut(heap, heap', {})
  <2>1. SameValues(heap, heap')
    BY <1>2, RepliesKeepValues
  <2> QED
    BY <2>1 DEF SameBut, SameValues
<1>4. Dataset' = Dataset /\ Once(dict') /\ Distinct(heap')
  BY <1>1, <1>3, WritesNothing
<1>5. /\ Outgoing = [b \in Clients |-> [n \in DOMAIN reply[b] |-> reply[b][n].was]]
      /\ Outgoing' = [b \in Clients |-> [n \in DOMAIN reply'[b] |-> reply'[b][n].was]]
  BY <1>2, WaitingAsQueued
<1> DEFINE r == reply[c]
           vs == [n \in DOMAIN r |-> r[n].was]
           ts == [n \in DOMAIN Tail(r) |-> Tail(r)[n].was]
<1>6. /\ reply \in [Clients -> Seq([obj : Ids, was : Strings])]
      /\ r \in Seq([obj : Ids, was : Strings])
  BY <1>2 DEF Inv, Sound, ReplyType
<1>7. vs # <<>> /\ ts = Tail(vs)
  <2>1. /\ r # <<>> /\ r \in Seq([obj : Ids, was : Strings])
        /\ Len(r) \in Nat /\ DOMAIN r = 1 .. Len(r) /\ Len(r) # 0
    BY <1>1, <1>6
  <2> HIDE DEF r
  <2>2. vs = [n \in 1 .. Len(r) |-> r[n].was]
    BY <2>1
  <2>3. vs \in Seq(Strings) /\ Len(vs) = Len(r)
    <3> DEFINE R == [obj : Ids, was : Strings]
    <3>1. \A n \in 1 .. Len(r) : r[n] \in R
      <4>1. r \in Seq(R)
        BY <2>1
      <4> HIDE DEF R
      <4> QED
        BY <4>1
    <3>2. \A n \in 1 .. Len(r) : r[n].was \in Strings
      BY <3>1
    <3> QED
      BY <2>1, <2>2, <3>2
  <2>4. /\ Tail(r) = [n \in 1 .. Len(r) - 1 |-> r[n + 1]]
        /\ Tail(vs) = [n \in 1 .. Len(r) - 1 |-> vs[n + 1]]
    <3>1. Tail(r) = [n \in 1 .. Len(r) - 1 |-> r[n + 1]]
      BY ONLY <2>1, TailAt
    <3>2. vs # <<>>
      BY <2>1, <2>3
    <3> HIDE DEF vs
    <3>3. Tail(vs) = [n \in 1 .. Len(vs) - 1 |-> vs[n + 1]]
      BY ONLY <2>3, <3>2, TailAt
    <3> QED
      BY <2>3, <3>1, <3>3
  <2>5. \A n \in 1 .. Len(r) - 1 : n + 1 \in 1 .. Len(r)
    BY <2>1
  <2>6. ts = [n \in 1 .. Len(r) - 1 |-> r[n + 1].was]
    BY <2>4
  <2>7. \A n \in 1 .. Len(r) - 1 : vs[n + 1] = r[n + 1].was
    BY <2>2, <2>5
  <2>8. vs # <<>>
    BY <2>1, <2>3
  <2> HIDE DEF vs, ts
  <2> QED
    BY <2>4, <2>6, <2>7, <2>8
<1>8. Outgoing[c] = vs
  BY <1>5
<1>9. reply'[c] = Tail(r) /\ \A b \in Clients \ {c} : reply'[b] = reply[b]
  BY <1>1, <1>6
<1>10. Outgoing' = [Outgoing EXCEPT ![c] = Tail(Outgoing[c])]
  <2>1. Outgoing'[c] = ts
    BY <1>5, <1>9
  <2>2. \A b \in Clients \ {c} : Outgoing'[b] = Outgoing[b]
    BY <1>5, <1>9
  <2> HIDE DEF vs, ts
  <2> QED
    BY <1>5, <1>7, <1>8, <2>1, <2>2
<1> HIDE DEF vs
<1> QED
  BY <1>1, <1>4, <1>7, <1>8, <1>10 DEF Abstract!Sent, Abstract!OnlyOut

(* FreeClient: what the client was not sent goes with it. *)
LEMMA ReconnectStep ==
  ASSUME Separate, Sound(heap', dict', reply', Nothing), NEW c \in Clients, Reconnect(c)
  PROVE  Once(dict') /\ Distinct(heap') /\ Abstract!Leave(c)
<1>1. /\ reply' = [reply EXCEPT ![c] = <<>>] /\ selected' = [selected EXCEPT ![c] = 0]
      /\ dict' = dict
  BY DEF Reconnect
<1>2. Inv
  BY DEF Separate
<1>3. SameBut(heap, heap', {})
  <2>1. SameValues(heap, heap')
    BY <1>2, RepliesKeepValues
  <2> QED
    BY <2>1 DEF SameBut, SameValues
<1>4. Dataset' = Dataset /\ Once(dict') /\ Distinct(heap')
  BY <1>1, <1>3, WritesNothing
<1>5. /\ Outgoing = [b \in Clients |-> [n \in DOMAIN reply[b] |-> reply[b][n].was]]
      /\ Outgoing' = [b \in Clients |-> [n \in DOMAIN reply'[b] |-> reply'[b][n].was]]
  BY <1>2, WaitingAsQueued
<1>6. reply'[c] = <<>> /\ \A b \in Clients \ {c} : reply'[b] = reply[b]
  BY <1>1, <1>2 DEF Inv, Sound, ReplyType
<1>7. Outgoing' = [Outgoing EXCEPT ![c] = <<>>]
  <2>1. Outgoing'[c] = <<>>
    BY <1>5, <1>6
  <2>2. \A b \in Clients \ {c} : Outgoing'[b] = Outgoing[b]
    BY <1>5, <1>6
  <2> QED
    BY <1>5, <2>1, <2>2
<1> QED
  BY <1>1, <1>4, <1>7 DEF Abstract!Leave

-----------------------------------------------------------------------------
(* The refinement                                                          *)

(* An empty server has no key and owes no reply. *)
LEMMA InitRefines == Init => Separate /\ Abstract!Init
<1> SUFFICES ASSUME Init PROVE Separate /\ Abstract!Init
  OBVIOUS
<1>1. Inv
  BY InitSound
<1>2. \A d \in Dbs, k \in Keys : dict[d][k] = Null
  BY DEF Init
<1>3. Once(dict)
  BY <1>2, KeyspaceAssumption DEF Once
<1>4. Distinct(heap)
  <2>1. \A i \in Ids : heap[i] = Unallocated
    BY DEF Init
  <2>2. Unallocated.type = "unallocated"
    BY Zenon DEF Unallocated
  <2> QED
    BY <2>1, <2>2 DEF Distinct
<1>5. Dataset = [d \in Dbs |-> [k \in Keys |-> <<"none">>]]
  <2>1. \A d \in Dbs, k \in Keys : Contents(dict[d][k]) = <<"none">>
    BY ONLY Zenon, <1>2 DEF Contents
  <2> QED
    BY ONLY <2>1 DEF Dataset
<1>6. Outgoing = [c \in Clients |-> <<>>]
  BY DEF Outgoing, Init
<1> QED
  BY <1>1, <1>3, <1>4, <1>5, <1>6 DEF Separate, Abstract!Init, Abstract!None, Init

(* Each command of a client is a command of Database, or none. *)
LEMMA NextRefines ==
  ASSUME Separate, Next
  PROVE  Separate' /\ (Abstract!Next \/ SameData)
<1> DEFINE Kept == Once(dict') /\ Distinct(heap')
           Goal == Kept /\ (Abstract!Next \/ SameData)
<1>1. Sound(heap', dict', reply', Nothing) /\ Inv'
  <2>1. Inv
    BY DEF Separate
  <2>2. Sound(heap', dict', reply', Nothing)
    BY <2>1, NextKeepsSound
  <2>3. selected' \in [Clients -> Dbs] /\ dirty' \in 0 .. MaxDirty
    BY <2>1, NextKeepsTypes
  <2> QED
    BY <2>2, <2>3 DEF Inv
<1>2. PICK c \in Clients :
        \/ \E k \in Keys : StringCommand(c, k) \/ ListCommand(c, k)
                           \/ SetCommand(c, k) \/ KeyCommand(c, k)
        \/ \E ks \in SUBSET Keys : SInterCommand(c, ks)
        \/ \E t \in Dbs : SelectCommand(c, t)
        \/ SendReplyToClient(c) \/ Reconnect(c)
  BY DEF Next
<1>3. ASSUME NEW k \in Keys, StringCommand(c, k) PROVE Goal
  <2>1. ASSUME NEW v \in Strings, NEW nx, SetGenericCommand(c, k, v, nx) PROVE Goal
    BY <1>1, <2>1, SetGenericStep DEF Abstract!Next
  <2>2. CASE GetCommand(c, k)
    BY <1>1, <2>2, GetStep DEF Abstract!Next
  <2>3. CASE DelCommand(c, k)
    BY <1>1, <2>3, DelStep DEF Abstract!Next
  <2>4. ASSUME NEW incr \in {1, -1}, IncrDecrCommand(c, k, incr) PROVE Goal
    BY <1>1, <2>4, IncrDecrStep DEF Abstract!Next
  <2> QED
    BY <1>3, <2>1, <2>2, <2>3, <2>4 DEF StringCommand
<1>4. ASSUME NEW k \in Keys, ListCommand(c, k) PROVE Goal
  <2>1. ASSUME NEW where, PopGenericCommand(c, k, where) PROVE Goal
    BY <1>1, <2>1, PopStep DEF Abstract!Next
  <2>2. ASSUME NEW where, NEW v \in Strings, PushGenericCommand(c, k, v, where) PROVE Goal
    BY <1>1, <2>2, PushStep DEF Abstract!Next
  <2>3. ASSUME NEW start \in Indices, NEW end \in Indices, LRangeCommand(c, k, start, end)
        PROVE  Goal
    BY <1>1, <2>3, LRangeStep DEF Abstract!Next
  <2>4. ASSUME NEW start \in Indices, NEW end \in Indices, LTrimCommand(c, k, start, end)
        PROVE  Goal
    BY <1>1, <2>4, LTrimStep DEF Abstract!Next
  <2>5. ASSUME NEW index \in Indices, LIndexCommand(c, k, index) PROVE Goal
    BY <1>1, <2>5, LIndexStep DEF Abstract!Next
  <2>6. ASSUME NEW index \in Indices, NEW v \in Strings, LSetCommand(c, k, index, v) PROVE Goal
    BY <1>1, <2>6, LSetStep DEF Abstract!Next
  <2> QED
    BY <1>4, <2>1, <2>2, <2>3, <2>4, <2>5, <2>6 DEF ListCommand
<1>5. ASSUME NEW k \in Keys, SetCommand(c, k) PROVE Goal
  <2>1. ASSUME NEW v \in Strings, SAddCommand(c, k, v) PROVE Goal
    BY <1>1, <2>1, SAddStep DEF Abstract!Next
  <2>2. ASSUME NEW v \in Strings, SRemCommand(c, k, v) PROVE Goal
    BY <1>1, <2>2, SRemStep DEF Abstract!Next
  <2>3. ASSUME NEW v \in Strings, SIsMemberCommand(c, k, v) PROVE Goal
    BY <1>1, <2>3, SIsMemberStep
  <2> QED
    BY <1>5, <2>1, <2>2, <2>3 DEF SetCommand
<1>6. ASSUME NEW k \in Keys, KeyCommand(c, k) PROVE Goal
  <2>1. ASSUME NEW d \in Dbs, MoveCommand(c, k, d) PROVE Goal
    BY <1>1, <2>1, MoveStep DEF Abstract!Next
  <2>2. ASSUME NEW dst \in Keys, NEW nx, RenameGenericCommand(c, k, dst, nx) PROVE Goal
    BY <1>1, <2>2, RenameStep DEF Abstract!Next
  <2> QED
    BY <1>6, <2>1, <2>2 DEF KeyCommand
<1>7. ASSUME NEW ks \in SUBSET Keys, SInterCommand(c, ks) PROVE Goal
  BY <1>1, <1>7, SInterStep DEF Abstract!Next
<1>8. ASSUME NEW t \in Dbs, SelectCommand(c, t) PROVE Goal
  BY <1>1, <1>8, SelectStep DEF Abstract!Next
<1>9. ASSUME SendReplyToClient(c) PROVE Goal
  <2>1. Sound(heap', dict', reply', Nothing)
    BY <1>1
  <2>2. Once(dict') /\ Distinct(heap') /\ Abstract!Sent(c)
    BY ONLY Separate, <1>9, <2>1, c \in Clients, SendReplyStep
  <2> QED
    BY <2>2 DEF Abstract!Next
<1>10. ASSUME Reconnect(c) PROVE Goal
  <2>1. Sound(heap', dict', reply', Nothing)
    BY <1>1
  <2>2. Once(dict') /\ Distinct(heap') /\ Abstract!Leave(c)
    BY ONLY Separate, <1>10, <2>1, c \in Clients, ReconnectStep
  <2> QED
    BY <2>2 DEF Abstract!Next
<1> HIDE DEF Goal
<1>11. Goal
  BY <1>2, <1>3, <1>4, <1>5, <1>6, <1>7, <1>8, <1>9, <1>10
<1> USE DEF Goal
<1>12. Once(dict)' /\ Distinct(heap)'
  BY <1>11 DEF Once, Distinct, DistinctIn
<1> QED
  BY <1>1, <1>11, <1>12 DEF Separate

(* command.c:135-829, object.c:34-117: objects are shared by databases,    *)
(* containers and reply lists, and their memory is used again at once, yet *)
(* each client sees values that are copied: one key, or the two of MOVE    *)
(* and RENAME, changes, and no value that waits to be sent.                *)
THEOREM KeyspaceImplementsDatabase == Spec => ImplementsDatabase
<1>1. Init => Separate /\ Abstract!Init
  BY InitRefines
<1>2. Separate /\ [Next]_vars =>
        Separate' /\ [Abstract!Next]_<<Dataset, selected, Outgoing>>
  <2>1. ASSUME Separate, Next
        PROVE  Separate' /\ [Abstract!Next]_<<Dataset, selected, Outgoing>>
    BY <2>1, NextRefines DEF SameData
  <2>2. ASSUME Separate, UNCHANGED vars
        PROVE  Separate' /\ UNCHANGED <<Dataset, selected, Outgoing>>
    <3>1. Separate'
      BY <2>2 DEF vars, Separate, Inv, Once, Distinct, DistinctIn
    <3>2. Dataset' = Dataset /\ Outgoing' = Outgoing /\ selected' = selected
      BY <2>2 DEF vars, Dataset, Contents, Outgoing
    <3> QED
      BY <3>1, <3>2
  <2> QED
    BY <2>1, <2>2
<1> QED
  BY <1>1, <1>2, PTL DEF Spec, ImplementsDatabase, Abstract!Spec
=============================================================================
