------------------------------- MODULE Database -------------------------------
(***************************************************************************)
(* What the commands of cutis promise, without objects and addresses: for  *)
(* each database a map from keys to values, for each client the database   *)
(* it has selected and the values it still has to be sent.  A value is a   *)
(* string, a sequence of strings or a set of strings; commands copy values *)
(* and nothing is shared.  An action leaves open what the caller chooses:  *)
(* the string, the end of a list, the indices.  CountOver is not promised: *)
(* it is where the code departs from the README.  Keyspace implements this.*)
(***************************************************************************)
EXTENDS Integers, SequencesExt

CONSTANTS Clients, Dbs, Keys, Numbers, Words, Indices

Strings == Numbers \cup Words

(* A key that is not there, and the three types of values. *)
None == <<"none">>
String(v) == <<"string", v>>
List(vs) == <<"list", vs>>
Set(vs) == <<"set", vs>>

VARIABLES
  data,      \* the value of each key of each database
  chosen,    \* the database of each client
  out        \* the values to be sent to each client, oldest first

Init ==
  /\ data = [d \in Dbs |-> [k \in Keys |-> None]]
  /\ chosen = [c \in Clients |-> 0]
  /\ out = [c \in Clients |-> <<>>]

At(c, k) == data[chosen[c]][k]
IsType(c, k, type) == At(c, k)[1] = type
Of(c, k) == At(c, k)[2]

(* The key's value becomes one of values; one of messages is queued. *)
Put(c, k, values) ==
  \E v \in values : data' = [data EXCEPT ![chosen[c]][k] = v]
Send(c, messages) ==
  \E m \in messages : out' = [out EXCEPT ![c] = @ \o m]

OnlyData == UNCHANGED <<chosen, out>>
OnlyOut == UNCHANGED <<data, chosen>>

-----------------------------------------------------------------------------
Store(c, k) == OnlyData /\ Put(c, k, {String(v) : v \in Strings})

Delete(c, k) == At(c, k) # None /\ OnlyData /\ Put(c, k, {None})

Get(c, k) == IsType(c, k, "string") /\ OnlyOut /\ Send(c, {<<Of(c, k)>>})

(* The number that comes after or before another is stored and sent. *)
CountFrom(c, k, number) ==
  /\ UNCHANGED chosen
  /\ \E n \in {number + 1, number - 1} : Send(c, {<<n>>}) /\ Put(c, k, {String(n)})

(* A string that is not a number counts as 0, as does a key that is not there. *)
Count(c, k) ==
  \/ At(c, k) = None /\ CountFrom(c, k, 0)
  \/ /\ IsType(c, k, "string")
     /\ CountFrom(c, k, IF Of(c, k) \in Numbers THEN Of(c, k) ELSE 0)

(* Not a promise: "If the value at <key> is not a string value an error is *)
(* returned" (README.md:198-199, 207-208), but command.c:206 counts a list *)
(* or a set as 0 as well, and the number takes its place.                  *)
CountOver(c, k) ==
  (IsType(c, k, "list") \/ IsType(c, k, "set")) /\ CountFrom(c, k, 0)

(* The elements, or the members, a key that is not there being empty. *)
Elements(c, k) == IF At(c, k) = None THEN <<>> ELSE Of(c, k)
Members(c, k) == IF At(c, k) = None THEN {} ELSE Of(c, k)

Push(c, k) ==
  /\ At(c, k) = None \/ IsType(c, k, "list")
  /\ OnlyData
  /\ Put(c, k, UNION {{List(<<v>> \o Elements(c, k)),
                       List(Append(Elements(c, k), v))} : v \in Strings})

(* One element leaves the list, from either end, and goes to the client. *)
Pop(c, k) ==
  /\ IsType(c, k, "list") /\ Of(c, k) # <<>>
  /\ UNCHANGED chosen
  /\ \/ Send(c, {<<Head(Of(c, k))>>}) /\ Put(c, k, {List(Tail(Of(c, k)))})
     \/ Send(c, {<<Last(Of(c, k))>>}) /\ Put(c, k, {List(Front(Of(c, k)))})

(* Offsets from the start, or from the end when negative; they may lie     *)
(* beyond either end of the list.                                          *)
Offset(list, i) == IF i >= 0 THEN i ELSE Len(list) + i

(* The elements whose places lie between two offsets. *)
Slice(list, start, end) ==
  LET places == {n \in DOMAIN list : Offset(list, start) < n /\ n <= Offset(list, end) + 1}
      before == IF Offset(list, start) < 0 THEN 0 ELSE Offset(list, start)
  IN [i \in 1 .. Cardinality(places) |-> list[before + i]]

Slices(list) == {Slice(list, start, end) : start \in Indices, end \in Indices}

ReadRange(c, k) == IsType(c, k, "list") /\ OnlyOut /\ Send(c, Slices(Of(c, k)))

Trim(c, k) ==
  /\ IsType(c, k, "list") /\ OnlyData
  /\ Put(c, k, {List(slice) : slice \in Slices(Of(c, k))})

ReadElement(c, k) ==
  /\ IsType(c, k, "list") /\ OnlyOut
  /\ Send(c, {<<v>> : v \in Range(Of(c, k))})

(* One element of one list, and of no other list, is replaced. *)
SetElement(c, k) ==
  /\ IsType(c, k, "list") /\ OnlyData
  /\ Put(c, k, {List([Of(c, k) EXCEPT ![i] = v]) :
                  i \in DOMAIN Of(c, k), v \in Strings})

AddMember(c, k) ==
  /\ At(c, k) = None \/ IsType(c, k, "set")
  /\ OnlyData
  /\ Put(c, k, {Set(Members(c, k) \cup {v}) : v \in Strings})

RemoveMember(c, k) ==
  /\ IsType(c, k, "set") /\ OnlyData
  /\ Put(c, k, {Set(Of(c, k) \ {v}) : v \in Of(c, k)})

(* The members all the sets have, each once, in any order. *)
Intersect(c) ==
  /\ OnlyOut
  /\ \E ks \in (SUBSET Keys) \ {{}} :
       /\ \A k \in ks : IsType(c, k, "set")
       /\ Send(c, SetToSeqs({v \in Strings : \A k \in ks : v \in Of(c, k)}))

Choose(c) ==
  /\ \E d \in Dbs : chosen' = [chosen EXCEPT ![c] = d]
  /\ UNCHANGED <<data, out>>

(* The value goes to the same key of another database. *)
Move(c, k) ==
  /\ At(c, k) # None /\ OnlyData
  /\ \E d \in Dbs \ {chosen[c]} :
       /\ data[d][k] = None
       /\ data' = [data EXCEPT ![d][k] = At(c, k), ![chosen[c]][k] = None]

Rename(c, k) ==
  /\ At(c, k) # None /\ OnlyData
  /\ \E dst \in Keys \ {k} :
       data' = [data EXCEPT ![chosen[c]][dst] = At(c, k), ![chosen[c]][k] = None]

Sent(c) ==
  out[c] # <<>> /\ OnlyOut /\ out' = [out EXCEPT ![c] = Tail(@)]

(* The client goes, and what it was not sent with it. *)
Leave(c) ==
  /\ out' = [out EXCEPT ![c] = <<>>] /\ chosen' = [chosen EXCEPT ![c] = 0]
  /\ UNCHANGED data

Next ==
  \E c \in Clients :
    \/ \E k \in Keys :
         \/ Store(c, k) \/ Delete(c, k) \/ Get(c, k) \/ Count(c, k) \/ CountOver(c, k)
         \/ Push(c, k) \/ Pop(c, k) \/ ReadRange(c, k) \/ Trim(c, k)
         \/ ReadElement(c, k) \/ SetElement(c, k)
         \/ AddMember(c, k) \/ RemoveMember(c, k)
         \/ Move(c, k) \/ Rename(c, k)
    \/ Intersect(c) \/ Choose(c) \/ Sent(c) \/ Leave(c)

Spec == Init /\ [][Next]_<<data, chosen, out>>
=============================================================================
