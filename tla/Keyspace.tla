------------------------------- MODULE Keyspace -------------------------------
(***************************************************************************)
(* The commands of cutis on its databases (src/src/commands/command.c) and *)
(* the objects they work on (src/src/commands/object.c).                   *)
(*                                                                         *)
(* A value is an object with a reference count.  The databases, the lists  *)
(* and sets in them and the reply lists of the clients share objects, so a *)
(* reply that waits for its socket may hold a value that other clients     *)
(* have removed from the databases since.  An object whose count falls to  *)
(* zero goes into a pool, from which the next one is taken.                *)
(*                                                                         *)
(* A command runs to its end in one step, as it does in the server's only  *)
(* thread.  Of its reply the model keeps the objects that are values; the  *)
(* shared objects and the texts made for one reply belong to nobody else.  *)
(***************************************************************************)
EXTENDS Integers, SequencesExt

CONSTANTS
  Clients,
  Dbs,         \* the indices of the databases
  Keys,
  Numbers,     \* the numbers clients store, and those INCR and DECR reach
  Words,       \* other strings
  Ids,         \* addresses of objects (bounds how many exist)
  Null,
  MaxDirty,    \* bound: changes to the databases
  MaxLen,      \* bound: elements of a list
  MaxReplies   \* bound: values queued for the clients, all together

ASSUME KeyspaceAssumption ==
  /\ 0 \in Dbs
  /\ IsFiniteSet(Clients) /\ IsFiniteSet(Dbs) /\ IsFiniteSet(Keys) /\ IsFiniteSet(Ids)
  /\ Numbers \subseteq Int /\ 0 \in Numbers /\ Words \cap Numbers = {}
  /\ Null \notin Ids
  /\ MaxDirty \in Nat /\ MaxLen \in Nat /\ MaxReplies \in Nat

VARIABLES
  heap,      \* the objects
  dict,      \* server->dict: for each database, the object of each key
  selected,  \* c->dict, as an index
  reply,     \* c->reply; was is the value when it was queued, for RepliesIntact
  dirty      \* server->dirty

vars == <<heap, dict, selected, reply, dirty>>

Strings == Numbers \cup Words
Containers == {"list", "set"}
Types == {"string"} \cup Containers

(* What is at an address: nothing yet, an object of the pool, or an object. *)
Unallocated == [type |-> "unallocated", ptr |-> <<>>, refcount |-> 0]
Pooled == [type |-> "pooled", ptr |-> <<>>, refcount |-> 0]

TypeOK ==
  /\ \A i \in Ids :
       \/ heap[i] \in {Unallocated, Pooled}
       \/ /\ heap[i].type \in Types /\ heap[i].refcount \in Nat \ {0}
          /\ heap[i].type = "string" => heap[i].ptr \in Strings
          /\ heap[i].type = "list" => heap[i].ptr \in Seq(Ids)
          /\ heap[i].type = "set" => heap[i].ptr \in SUBSET Ids
  /\ dict \in [Dbs -> [Keys -> Ids \cup {Null}]]
  /\ selected \in [Clients -> Dbs]
  /\ \A c \in Clients : \A i \in DOMAIN reply[c] : reply[c][i].obj \in Ids
  /\ dirty \in 0 .. MaxDirty

Init ==
  /\ heap = [i \in Ids |-> Unallocated]
  /\ dict = [d \in Dbs |-> [k \in Keys |-> Null]]
  /\ selected = [c \in Clients |-> 0]
  /\ reply = [c \in Clients |-> <<>>]
  /\ dirty = 0

-----------------------------------------------------------------------------
(* object.c: each operator gives the heap after the call, for the heap h   *)
(* before it.                                                              *)

(* Where CreateCutisObject may put an object: malloc only if the pool is   *)
(* empty.  The code takes the object that entered the pool last.           *)
Fresh(h) ==
  LET pool == {i \in Ids : h[i] = Pooled}
  IN IF pool # {} THEN pool ELSE {i \in Ids : h[i] = Unallocated}

Create(h, o, type, ptr) ==
  [h EXCEPT ![o] = [type |-> type, ptr |-> ptr, refcount |-> 1]]

IncrRefCount(h, o) == [h EXCEPT ![o].refcount = @ + 1]

MembersOfList(object) ==  \* mutant
  IF object.type = "list" THEN Range(object.ptr) ELSE {}

Members(object) ==
  CASE object.type = "list" -> Range(object.ptr)
    [] object.type = "set" -> object.ptr
    [] OTHER -> {}

DecrByLate(object, n) ==  \* mutant
  IF object.refcount < n THEN Pooled
  ELSE [object EXCEPT !.refcount = @ - n]

(* An object that n references are given up to. *)
DecrBy(object, n) ==
  IF object.refcount = n THEN Pooled
  ELSE [object EXCEPT !.refcount = @ - n]

DecrAll(h, os) == [i \in Ids |-> IF i \in os THEN DecrBy(h[i], 1) ELSE h[i]]

(* A container that is freed lets go of its members, which are strings.    *)
DecrRefCount(h, o) ==
  IF h[o].refcount = 1 THEN DecrAll(h, {o} \cup Members(h[o]))
                       ELSE DecrAll(h, {o})

-----------------------------------------------------------------------------
Entry(c, k) == dict[selected[c]][k]
Found(c, k) == Entry(c, k) # Null
Holds(c, k, type) == Found(c, k) /\ heap[Entry(c, k)].type = type
Value(c, k) == heap[Entry(c, k)].ptr

(* The entry of key k in the client's database becomes o. *)
SetEntry(c, k, o) == dict' = [dict EXCEPT ![selected[c]][k] = o]

Dirtied == dirty < MaxDirty /\ dirty' = dirty + 1

Occurrences(os, i) == Cardinality({n \in DOMAIN os : os[n] = i})

Queue(h, os) == [i \in DOMAIN os |-> [obj |-> os[i], was |-> h[os[i]].ptr]]

RetainNone(h, os) == h  \* mutant

(* AddReply, called for each of the objects os: what it does to the heap,  *)
(* and to the client.                                                      *)
Retain(h, os) == [i \in Ids |-> [h[i] EXCEPT !.refcount = @ + Occurrences(os, i)]]

Queued == SumFunction([c \in Clients |-> Len(reply[c])])

AddReply(c, h, os) ==
  /\ Queued + Len(os) <= MaxReplies
  /\ reply' = [reply EXCEPT ![c] = @ \o Queue(h, os)]

NoChange == UNCHANGED <<dict, selected, dirty>>

-----------------------------------------------------------------------------
(* Strings *)

SetGenericCommand(c, k, v, nx) ==
  /\ Dirtied
  /\ \E o \in Fresh(heap) :
       LET h == Create(heap, o, "string", v) IN
       \/ ~ Found(c, k) /\ heap' = h /\ SetEntry(c, k, o)
       \/ Found(c, k) /\ nx /\ heap' = DecrRefCount(h, o) /\ dict' = dict
       \/ /\ Found(c, k) /\ ~ nx
          /\ heap' = DecrRefCount(h, Entry(c, k)) /\ SetEntry(c, k, o)
  /\ UNCHANGED <<selected, reply>>

GetCommand(c, k) ==
  /\ Holds(c, k, "string")
  /\ heap' = Retain(heap, <<Entry(c, k)>>)
  /\ AddReply(c, heap, <<Entry(c, k)>>)
  /\ NoChange

DelCommand(c, k) ==
  /\ Found(c, k) /\ Dirtied
  /\ heap' = DecrRefCount(heap, Entry(c, k))
  /\ SetEntry(c, k, Null)
  /\ UNCHANGED <<selected, reply>>

(* strtoll gives 0 for a word; what is not a string counts as 0 as well.   *)
NumberOf(c, k) ==
  IF Holds(c, k, "string") /\ Value(c, k) \in Numbers THEN Value(c, k) ELSE 0

IncrDecrCommand(c, k, incr) ==
  LET value == NumberOf(c, k) + incr IN
  /\ Dirtied
  /\ value \in Numbers   \* bounds the counter
  /\ \E o \in Fresh(heap) :
       LET h == Create(heap, o, "string", value)
           replaced == IF Found(c, k) THEN DecrRefCount(h, Entry(c, k)) ELSE h
       IN /\ heap' = Retain(replaced, <<o>>)
          /\ AddReply(c, h, <<o>>)
          /\ SetEntry(c, k, o)
  /\ UNCHANGED selected

-----------------------------------------------------------------------------
(* Lists *)

AtEnd(list, o, where) ==
  IF where = "head" THEN <<o>> \o list ELSE Append(list, o)

(* The element is created first, and given up when the key holds something *)
(* that is not a list.                                                     *)
PushGenericCommand(c, k, v, where) ==
  /\ \E el \in Fresh(heap) :
       LET h == Create(heap, el, "string", v) IN
       \/ /\ ~ Found(c, k) /\ Dirtied
          /\ \E o \in Fresh(h) :
               heap' = Create(h, o, "list", <<el>>) /\ SetEntry(c, k, o)
       \/ /\ Found(c, k) /\ ~ Holds(c, k, "list")
          /\ heap' = DecrRefCount(h, el)
          /\ UNCHANGED <<dict, dirty>>
       \/ /\ Holds(c, k, "list") /\ Len(Value(c, k)) < MaxLen /\ Dirtied
          /\ heap' = [h EXCEPT ![Entry(c, k)].ptr = AtEnd(@, el, where)]
          /\ dict' = dict
  /\ UNCHANGED <<selected, reply>>

(* The element is queued before it leaves the list. *)
PopGenericCommand(c, k, where) ==
  /\ Holds(c, k, "list") /\ Value(c, k) # <<>> /\ Dirtied
  /\ LET list == Value(c, k)
         el == IF where = "head" THEN Head(list) ELSE Last(list)
         rest == IF where = "head" THEN Tail(list) ELSE Front(list)
         h == Retain(heap, <<el>>)
     IN /\ heap' = DecrRefCount([h EXCEPT ![Entry(c, k)].ptr = rest], el)
        /\ AddReply(c, heap, <<el>>)
  /\ UNCHANGED <<dict, selected>>

(* Negative indices count from the end; those that are still negative then *)
(* become 0.                                                               *)
Normalised(index, llen) ==
  LET i == IF index < 0 THEN llen + index ELSE index
  IN IF i < 0 THEN 0 ELSE i

EmptyRange(start, end, llen) ==
  Normalised(start, llen) > Normalised(end, llen) \/ Normalised(start, llen) >= llen

LastIndex(end, llen) ==
  IF Normalised(end, llen) >= llen THEN llen - 1 ELSE Normalised(end, llen)

(* What LRANGE replies with: range_len elements from start on.             *)
Ranged(list, start, end) ==
  LET llen == Len(list)
      first == Normalised(start, llen)
      range_len == LastIndex(end, llen) - first + 1
  IN IF EmptyRange(start, end, llen) THEN <<>>
     ELSE SubSeq(list, first + 1, first + range_len)

TrimmedOneLess(list, start, end) ==  \* mutant
  LET llen == Len(list)
      ltrim == Normalised(start, llen)
      rtrim == llen - LastIndex(end, llen)
  IN IF EmptyRange(start, end, llen) THEN <<>>
     ELSE SubSeq(list, ltrim + 1, llen - rtrim)

(* What LTRIM leaves: ltrim elements go from the head, rtrim from the tail. *)
Trimmed(list, start, end) ==
  LET llen == Len(list)
      ltrim == IF EmptyRange(start, end, llen) THEN llen ELSE Normalised(start, llen)
      rtrim == IF EmptyRange(start, end, llen) THEN 0 ELSE llen - LastIndex(end, llen) - 1
  IN SubSeq(list, ltrim + 1, llen - rtrim)

Indices == -(MaxLen + 1) .. MaxLen

LRangeCommand(c, k, start, end) ==
  /\ Holds(c, k, "list")
  /\ LET os == Ranged(Value(c, k), start, end) IN
       heap' = Retain(heap, os) /\ AddReply(c, heap, os)
  /\ NoChange

LTrimCommand(c, k, start, end) ==
  /\ Holds(c, k, "list") /\ Dirtied
  /\ LET list == Value(c, k)
         kept == Trimmed(list, start, end)
         h == [heap EXCEPT ![Entry(c, k)].ptr = kept]
     IN heap' = DecrAll(h, Range(list) \ Range(kept))
  /\ UNCHANGED <<dict, selected, reply>>

(* listIndex, counted from 1; outside of DOMAIN list it returns NULL.      *)
Position(list, index) == IF index < 0 THEN Len(list) + index + 1 ELSE index + 1

LIndexCommand(c, k, index) ==
  /\ Holds(c, k, "list")
  /\ LET list == Value(c, k) IN
       /\ Position(list, index) \in DOMAIN list
       /\ heap' = Retain(heap, <<list[Position(list, index)]>>)
       /\ AddReply(c, heap, <<list[Position(list, index)]>>)
  /\ NoChange

LSetInPlace(c, k, index, v) ==  \* mutant
  /\ Holds(c, k, "list") /\ Dirtied
  /\ LET list == Value(c, k)
         p == Position(list, index)
     IN /\ p \in DOMAIN list
        /\ heap' = [heap EXCEPT ![list[p]].ptr = v]
  /\ UNCHANGED <<dict, selected, reply>>

(* The old element is let go before the new one is created, which may thus *)
(* be put in its place.                                                    *)
LSetCommand(c, k, index, v) ==
  /\ Holds(c, k, "list") /\ Dirtied
  /\ LET list == Value(c, k)
         p == Position(list, index)
     IN /\ p \in DOMAIN list
        /\ LET h == DecrRefCount(heap, list[p]) IN
             \E el \in Fresh(h) :
               heap' = [Create(h, el, "string", v) EXCEPT
                          ![Entry(c, k)].ptr = [list EXCEPT ![p] = el]]
  /\ UNCHANGED <<dict, selected, reply>>

-----------------------------------------------------------------------------
(* Sets *)

(* The members of the set object s in heap h whose value is v.             *)
Equal(h, s, v) == {m \in h[s].ptr : h[m].ptr = v}

(* The key of a new set enters the database before its first member.       *)
SAddCommand(c, k, v) ==
  /\ \/ /\ ~ Found(c, k) /\ Dirtied
        /\ \E s \in Fresh(heap) :
             LET h == Create(heap, s, "set", {}) IN
             \E el \in Fresh(h) :
               /\ heap' = [Create(h, el, "string", v) EXCEPT ![s].ptr = {el}]
               /\ SetEntry(c, k, s)
     \/ /\ Holds(c, k, "set")
        /\ \E el \in Fresh(heap) :
             LET s == Entry(c, k)
                 h == Create(heap, el, "string", v)
             IN \/ /\ Equal(heap, s, v) = {} /\ Dirtied
                   /\ heap' = [h EXCEPT ![s].ptr = @ \cup {el}]
                \/ /\ Equal(heap, s, v) # {} /\ dirty' = dirty
                   /\ heap' = DecrRefCount(h, el)
        /\ dict' = dict
  /\ UNCHANGED <<selected, reply>>

(* A probe with the value to look for is created and given up again.       *)
SRemCommand(c, k, v) ==
  /\ Holds(c, k, "set")
  /\ \E probe \in Fresh(heap) :
       LET h == Create(heap, probe, "string", v)
           gone == Equal(heap, Entry(c, k), v)
           h2 == DecrAll([h EXCEPT ![Entry(c, k)].ptr = @ \ gone], gone)
       IN /\ heap' = DecrRefCount(h2, probe)
          /\ IF gone = {} THEN dirty' = dirty ELSE Dirtied
  /\ UNCHANGED <<dict, selected, reply>>

SIsMemberCommand(c, k, v) ==
  /\ Holds(c, k, "set")
  /\ \E probe \in Fresh(heap) :
       heap' = DecrRefCount(Create(heap, probe, "string", v), probe)
  /\ NoChange /\ UNCHANGED reply

(* SINTER, and SMEMBERS for a single key, when all the keys hold sets: the *)
(* members of a smallest set that the others have as well, in any order.   *)
SInterCommand(c, ks) ==
  /\ ks # {} /\ \A k \in ks : Holds(c, k, "set")
  /\ \E small \in ks :
       LET common == {m \in Value(c, small) :
                        \A k \in ks : Equal(heap, Entry(c, k), heap[m].ptr) # {}}
       IN /\ \A k \in ks : Cardinality(Value(c, small)) <= Cardinality(Value(c, k))
          /\ \E os \in SetToSeqs(common) :
               heap' = Retain(heap, os) /\ AddReply(c, heap, os)
  /\ NoChange

-----------------------------------------------------------------------------
(* Commands on keys *)

SelectCommand(c, d) ==
  /\ selected' = [selected EXCEPT ![c] = d]
  /\ UNCHANGED <<heap, dict, reply, dirty>>

MoveUncounted(c, k, d) ==  \* mutant
  /\ d # selected[c] /\ Found(c, k) /\ dict[d][k] = Null
  /\ dict' = [dict EXCEPT ![d][k] = Entry(c, k), ![selected[c]][k] = Null]
  /\ UNCHANGED <<heap, selected, reply, dirty>>

MoveCommand(c, k, d) ==
  /\ d # selected[c] /\ Found(c, k) /\ dict[d][k] = Null /\ Dirtied
  /\ dict' = [dict EXCEPT ![d][k] = Entry(c, k), ![selected[c]][k] = Null]
  /\ UNCHANGED <<heap, selected, reply>>

RenameGenericCommand(c, src, dst, nx) ==
  /\ src # dst /\ Found(c, src) /\ Dirtied
  /\ nx => ~ Found(c, dst)
  /\ LET o == Entry(c, src)
         h == IncrRefCount(heap, o)
         h2 == IF Found(c, dst) THEN DecrRefCount(h, Entry(c, dst)) ELSE h
     IN heap' = DecrRefCount(h2, o)
  /\ dict' = [dict EXCEPT ![selected[c]][dst] = Entry(c, src),
                          ![selected[c]][src] = Null]
  /\ UNCHANGED <<selected, reply>>

-----------------------------------------------------------------------------
(* The reply list *)

(* The first value of the list has been written to the last byte.          *)
SendReplyToClient(c) ==
  /\ reply[c] # <<>>
  /\ heap' = DecrRefCount(heap, Head(reply[c]).obj)
  /\ reply' = [reply EXCEPT ![c] = Tail(@)]
  /\ NoChange

ObjectsOf(replies) == [n \in DOMAIN replies |-> replies[n].obj]

(* DecrRefCount of each object of os, all of them strings.                 *)
Release(h, os) ==
  [i \in Ids |-> IF i \in Range(os) THEN DecrBy(h[i], Occurrences(os, i)) ELSE h[i]]

(* FreeClient, and a new client of the same name.                          *)
Reconnect(c) ==
  /\ reply[c] # <<>> \/ selected[c] # 0
  /\ heap' = Release(heap, ObjectsOf(reply[c]))
  /\ reply' = [reply EXCEPT ![c] = <<>>]
  /\ selected' = [selected EXCEPT ![c] = 0]
  /\ UNCHANGED <<dict, dirty>>

-----------------------------------------------------------------------------
StringCommand(c, k) ==
  \/ \E v \in Strings, nx \in BOOLEAN : SetGenericCommand(c, k, v, nx)
  \/ GetCommand(c, k) \/ DelCommand(c, k)
  \/ \E incr \in {1, -1} : IncrDecrCommand(c, k, incr)

ListCommand(c, k) ==
  \/ \E where \in {"head", "tail"} :
       PopGenericCommand(c, k, where)
       \/ \E v \in Strings : PushGenericCommand(c, k, v, where)
  \/ \E start \in Indices, end \in Indices :
       LRangeCommand(c, k, start, end) \/ LTrimCommand(c, k, start, end)
  \/ \E index \in Indices :
       LIndexCommand(c, k, index) \/ \E v \in Strings : LSetCommand(c, k, index, v)

SetCommand(c, k) ==
  \E v \in Strings :
    SAddCommand(c, k, v) \/ SRemCommand(c, k, v) \/ SIsMemberCommand(c, k, v)

KeyCommand(c, k) ==
  \/ \E d \in Dbs : MoveCommand(c, k, d)
  \/ \E dst \in Keys, nx \in BOOLEAN : RenameGenericCommand(c, k, dst, nx)

Next ==
  \E c \in Clients :
    \/ \E k \in Keys : StringCommand(c, k) \/ ListCommand(c, k)
                       \/ SetCommand(c, k) \/ KeyCommand(c, k)
    \/ \E ks \in SUBSET Keys : SInterCommand(c, ks)
    \/ \E d \in Dbs : SelectCommand(c, d)
    \/ SendReplyToClient(c) \/ Reconnect(c)

Spec == Init /\ [][Next]_vars

-----------------------------------------------------------------------------
(* Properties *)

(* The ways to reach object i: entries of the databases, elements of lists *)
(* and members of sets, places in reply lists.                             *)
Entries(i) == {e \in Dbs \X Keys : dict[e[1]][e[2]] = i}

ListPlaces == UNION {{j} \X DOMAIN heap[j].ptr : j \in {l \in Ids : heap[l].type = "list"}}
Elements(i) == {e \in ListPlaces : heap[e[1]].ptr[e[2]] = i}

SetsWith(i) == {j \in Ids : heap[j].type = "set" /\ i \in heap[j].ptr}

ReplyPlaces == UNION {{c} \X DOMAIN reply[c] : c \in Clients}
RepliesWith(i) == {e \in ReplyPlaces : reply[e[1]][e[2]].obj = i}

References(i) == Cardinality(Entries(i)) + Cardinality(Elements(i))
                   + Cardinality(SetsWith(i)) + Cardinality(RepliesWith(i))

(* object.c:92-117: whatever commands share, replace, move and remove, the *)
(* count of an object is the number of references to it.  So none that is  *)
(* in use is in the pool, and none is lost.                                *)
RefCountsExact == \A i \in Ids : heap[i].refcount = References(i)

(* client.c:99-111, 265: SendReplyToClient reads the object when the       *)
(* socket is ready, long after the command; meanwhile its key may be       *)
(* overwritten, deleted, popped or trimmed by anyone, and its memory used  *)
(* again, and the reply must still be what the command saw.                *)
RepliesIntact ==
  \A c \in Clients : \A i \in DOMAIN reply[c] :
    LET o == heap[reply[c][i].obj]
    IN o.type = "string" /\ o.ptr = reply[c][i].was

Contents(o) ==
  IF o = Null THEN <<"none">>
  ELSE CASE heap[o].type = "string" -> <<"string", heap[o].ptr>>
         [] heap[o].type = "list" ->
              <<"list", [p \in DOMAIN heap[o].ptr |-> heap[heap[o].ptr[p]].ptr]>>
         [] heap[o].type = "set" -> <<"set", {heap[m].ptr : m \in heap[o].ptr}>>

(* The databases as clients see them. *)
Dataset == [d \in Dbs |-> [k \in Keys |-> Contents(dict[d][k])]]

(* The values queued for each client, as they would be sent now. *)
Outgoing == [c \in Clients |-> [i \in DOMAIN reply[c] |-> heap[reply[c][i].obj].ptr]]

Abstract == INSTANCE Database
              WITH data <- Dataset, chosen <- selected, out <- Outgoing

(* Objects are shared between databases, containers and reply lists, and   *)
(* their memory is used again; no client can tell: a command changes one   *)
(* key and its reply is made of the value of that key, as in Database, and *)
(* no value that waits to be sent changes (command.c:135-829,              *)
(* object.c:34-117).  INCR and DECR of a list or a set are no error: see   *)
(* Database!CountOver.  Which slice LRANGE and LTRIM take for which        *)
(* indices is RangeAsDocumented's to say.                                  *)
ImplementsDatabase == Abstract!Spec

(* server.h:48: no command changes what is stored without counting it in   *)
(* dirty, from which ServerCron decides whether to save.                   *)
ChangesCounted == [][Dataset' # Dataset => dirty' = dirty + 1]_vars

(* The places of a list between two offsets, of which negative ones count  *)
(* from its end.                                                           *)
Offset(i, list) == IF i < 0 THEN Len(list) + i ELSE i

Between(list, start, end) ==
  {n \in DOMAIN list : Offset(start, list) < n /\ n <= Offset(end, list) + 1}

(* part is what the list has at these places, in their order. *)
IsBetween(part, list, start, end) ==
  LET between == Between(list, start, end) IN
  /\ Len(part) = Cardinality(between)
  /\ \A p \in DOMAIN part :
       \E n \in between : /\ part[p] = list[n]
                         /\ Cardinality({m \in between : m < n}) = p - 1

(* Where the code departs from that: an end that lies before the first     *)
(* element becomes 0 (command.c:416-421, 475-480), so a range that starts at or    *)
(* before that element has it, though start > end or nothing lies between  *)
(* the two.                                                                *)
FirstInstead(list, start, end) ==
  list # <<>> /\ Offset(start, list) <= 0 /\ Offset(end, list) < 0

(* README.md:266-294: what LRANGE gives, and LTRIM (written apart from it) *)
(* leaves, are the elements between two offsets, for all offsets, also out *)
(* of range, but for FirstInstead.                                         *)
RangeAsDocumented ==
  \A o \in Ids : heap[o].type = "list" =>
    LET list == heap[o].ptr IN
    \A start, end \in Indices :
      ~ FirstInstead(list, start, end) =>
        /\ IsBetween(Ranged(list, start, end), list, start, end)
        /\ IsBetween(Trimmed(list, start, end), list, start, end)
=============================================================================
