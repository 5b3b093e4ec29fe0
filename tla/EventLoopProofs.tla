----------------------------- MODULE EventLoopProofs -----------------------------
(***************************************************************************)
(* Theorems about EventLoop, for every set of descriptors and of addresses, *)
(* every period and every number of replies.                               *)
(***************************************************************************)
EXTENDS EventLoop, TLAPS

(* What select has reported and is not worked off belongs to connections   *)
(* that are there, and were there when it reported; between two walks      *)
(* nothing is left of its answer.                                          *)
ScanInv ==
  /\ pc # "scan" => rfds = {} /\ wfds = {} /\ fresh = {}
  /\ \A fd \in Fds : fd \in rfds \cup wfds => conn[fd] # None /\ fd \notin fresh

-----------------------------------------------------------------------------
(* The list of file events                                                 *)

LEMMA CreatedList ==
  ASSUME NEW list, IsList(list), NEW fd \in Fds \cup {Listen}, NEW mask \in Masks,
         NEW c \in Addrs \cup {None}
  PROVE  LET new == AeCreateFileEvent(list, fd, mask, c) IN
         /\ IsList(new)
         /\ DOMAIN new.data = DOMAIN list.data \cup {<<fd, mask>>}
         /\ new.data[<<fd, mask>>] = c
         /\ \A e \in DOMAIN list.data : e # <<fd, mask>> => new.data[e] = list.data[e]
<1> DEFINE event == <<fd, mask>>
           old == DOMAIN list.data
           new == AeCreateFileEvent(list, fd, mask, c)
<1>1. /\ new.data = [e \in old \cup {event} |-> IF e = event THEN c ELSE list.data[e]]
      /\ new.order = IF event \in old THEN list.order ELSE list.order \cup {event} \X old
  BY DEF AeCreateFileEvent
<1>2. event \in Events
  BY DEF Events
<1>3. DOMAIN new.data = old \cup {event}
  BY <1>1
<1>4. new.data \in [old \cup {event} -> Addrs \cup {None}]
  BY <1>1 DEF IsList
<1>5. IsOrder(new.order, old \cup {event})
  <2>1. IsOrder(list.order, old)
    BY DEF IsList
  <2>2. CASE event \in old
    <3>1. new.order = list.order /\ old \cup {event} = old
      BY <1>1, <2>2
    <3> QED
      BY <2>1, <3>1
  <2>3. CASE event \notin old
    <3> HIDE DEF event, old, new
    <3>1. new.order = list.order \cup {event} \X old
      BY <1>1, <2>3
    <3>2. \A e, f : <<e, f>> \in new.order <=> <<e, f>> \in list.order \/ (e = event /\ f \in old)
      BY <3>1
    <3>3. \A e, f : <<e, f>> \in list.order => e \in old /\ f \in old
      BY <2>1 DEF IsOrder
    <3>4. new.order \subseteq (old \cup {event}) \X (old \cup {event})
      BY <2>1, <3>1 DEF IsOrder
    <3> QED
      BY <2>1, <2>3, <3>2, <3>3, <3>4 DEF IsOrder
  <2> QED
    BY <2>2, <2>3
<1> HIDE DEF new
<1> QED
  BY <1>1, <1>2, <1>3, <1>4, <1>5 DEF IsList, new

LEMMA KeptList ==
  ASSUME NEW list, IsList(list), NEW E
  PROVE  LET kept == Keeping(list, E) IN
         /\ IsList(kept)
         /\ DOMAIN kept.data = DOMAIN list.data \cap E
         /\ \A e \in DOMAIN list.data \cap E : kept.data[e] = list.data[e]
<1> DEFINE old == DOMAIN list.data
           kept == Keeping(list, E)
<1>1. /\ kept.data = [e \in old \cap E |-> list.data[e]]
      /\ kept.order = {p \in list.order : p[1] \in E /\ p[2] \in E}
  BY DEF Keeping
<1>2. IsOrder(kept.order, old \cap E)
  <2> HIDE DEF kept, old
  <2>1. IsOrder(list.order, old)
    BY DEF IsList, old
  <2>2. \A e, f : <<e, f>> \in kept.order <=> <<e, f>> \in list.order /\ e \in E /\ f \in E
    BY <1>1
  <2>3. kept.order \subseteq (old \cap E) \X (old \cap E)
    BY <2>1, <1>1 DEF IsOrder
  <2> QED
    BY <2>1, <2>2, <2>3 DEF IsOrder
<1>3. kept.data \in [old \cap E -> Addrs \cup {None}]
  BY <1>1 DEF IsList
<1> HIDE DEF kept
<1> QED
  BY <1>1, <1>2, <1>3 DEF IsList, kept

-----------------------------------------------------------------------------
(* The handlers keep the list, the clients and the sockets in step.        *)

(* The part of the type invariant that handlers can disturb. *)
ListType ==
  /\ IsList(events)
  /\ client \in [Addrs -> Structures \cup {None}]
  /\ conn \in [Fds -> Sockets \cup {None}]

Matched == ListType /\ EventsMatchClients

LEMMA LiveType ==
  ASSUME ListType, NEW a \in Live
  PROVE  a \in Addrs /\ client[a] \in Structures /\ client[a].fd \in Fds
         /\ client[a].replies \in 0 .. MaxReplies
BY DEF ListType, Live, Structures

LEMMA FreeClientsMatched ==
  ASSUME Matched, NEW cs \in SUBSET Live, FreeClients(cs)
  PROVE  /\ Matched'
         /\ \A fd \in Fds : conn'[fd] # conn[fd] => \E a \in cs : client[a].fd = fd
<1> DEFINE fds == {client[a].fd : a \in cs}
           E == {e \in Events : e[1] \notin fds}
<1>1. /\ events' = Keeping(events, E)
      /\ conn' = [fd \in Fds |-> IF fd \in fds THEN None ELSE conn[fd]]
      /\ client' = [a \in Addrs |-> IF a \in cs THEN None ELSE client[a]]
  BY DEF FreeClients, DeleteEventsOf
<1>2. \A a \in cs : a \in Live /\ client[a].fd \in fds
  OBVIOUS
<1> HIDE DEF fds
<1>3. /\ IsList(events')
      /\ DOMAIN events'.data = DOMAIN events.data \cap E
      /\ \A e \in DOMAIN events.data \cap E : events'.data[e] = events.data[e]
  <2> HIDE DEF E
  <2> QED
    BY <1>1, KeptList DEF Matched, ListType
<1>4. ListType'
  BY <1>1, <1>3 DEF Matched, ListType
<1>5. \A a : a \in Live' <=> a \in Live \ cs
  BY <1>1, LiveType DEF Matched, ListType, Live
<1>6. \A a \in Live : client[a].fd \in fds => a \in cs
  BY DEF Matched, EventsMatchClients, fds
<1>7. \A a \in Live' : client'[a] = client[a] /\ client[a].fd \notin fds /\ client[a].fd \in Fds
  BY <1>1, <1>5, <1>6, LiveType DEF Matched, ListType, Live
<1>8. EventsMatchClients'
  <2>1. ASSUME NEW e \in DOMAIN events'.data, e[1] # Listen
        PROVE  events'.data[e] \in Live' /\ client'[events'.data[e]].fd = e[1]
    <3>1. e \in DOMAIN events.data /\ e[1] \notin fds /\ events'.data[e] = events.data[e]
      BY <1>3, <2>1
    <3>2. events.data[e] \in Live /\ client[events.data[e]].fd = e[1]
      BY <2>1, <3>1 DEF Matched, EventsMatchClients
    <3>3. events.data[e] \notin cs
      BY <1>2, <3>1, <3>2
    <3> QED
      BY <1>5, <1>7, <3>1, <3>2, <3>3
  <2>2. ASSUME NEW a \in Live'
        PROVE  /\ conn'[client'[a].fd] # None
               /\ <<client'[a].fd, "READABLE">> \in DOMAIN events'.data
               /\ <<client'[a].fd, "WRITABLE">> \in DOMAIN events'.data
                    <=> client'[a].replies > 0
    <3>1. a \in Live /\ client'[a] = client[a] /\ client[a].fd \notin fds
          /\ client[a].fd \in Fds
      BY <1>5, <1>7
    <3>2. /\ conn[client[a].fd] # None
          /\ <<client[a].fd, "READABLE">> \in DOMAIN events.data
          /\ <<client[a].fd, "WRITABLE">> \in DOMAIN events.data <=> client[a].replies > 0
      BY <3>1 DEF Matched, EventsMatchClients
    <3>3. \A mask \in Masks : <<client[a].fd, mask>> \in E
      BY <3>1 DEF Events
    <3> QED
      BY <1>1, <1>3, <3>1, <3>2, <3>3 DEF Masks
  <2>3. \A a, b \in Live' : a # b => client'[a].fd # client'[b].fd
    BY <1>5, <1>7 DEF Matched, EventsMatchClients
  <2>4. \A fd \in Fds : conn'[fd] # None => \E a \in Live' : client'[a].fd = fd
    <3> SUFFICES ASSUME NEW fd \in Fds, conn'[fd] # None
                 PROVE  \E a \in Live' : client'[a].fd = fd
      OBVIOUS
    <3>1. fd \notin fds /\ conn[fd] # None
      BY <1>1
    <3>2. PICK a \in Live : client[a].fd = fd
      BY <3>1 DEF Matched, EventsMatchClients
    <3> QED
      BY <1>2, <1>5, <1>7, <3>1, <3>2
  <2> QED
    BY <2>1, <2>2, <2>3, <2>4 DEF EventsMatchClients
<1>9. \A fd \in Fds : conn'[fd] # conn[fd] => \E a \in cs : client[a].fd = fd
  BY <1>1 DEF fds
<1> QED
  BY <1>4, <1>8, <1>9 DEF Matched

(* Descriptors that nobody owns have no events. *)
LEMMA UnownedSilent ==
  ASSUME Matched, NEW fd \in Fds, conn[fd] = None, NEW mask
  PROVE  <<fd, mask>> \notin DOMAIN events.data
<1> SUFFICES ASSUME <<fd, mask>> \in DOMAIN events.data PROVE FALSE
  OBVIOUS
<1>1. fd # Listen
  BY EventLoopAssumption
<1> QED
  BY <1>1 DEF Matched, EventsMatchClients

LEMMA AcceptMatched ==
  ASSUME Matched, fresh \subseteq Fds, AcceptHandler
  PROVE  /\ Matched' /\ stop' = stop /\ fresh' \subseteq Fds
         /\ \/ fresh' = fresh /\ conn' = conn
            \/ \E fd \in Fds : /\ conn[fd] = None /\ fresh' = fresh \cup {fd}
                               /\ \A f \in Fds \ {fd} : conn'[f] = conn[f]
<1>1. CASE UNCHANGED <<events, client, conn, fresh>>
  BY <1>1 DEF AcceptHandler, Matched, ListType, EventsMatchClients, Live
<1>2. ASSUME NEW fd \in FreeFds, NEW c \in Addrs, client[c] = None,
             conn' = [conn EXCEPT ![fd] = [inbox |-> {}, room |-> TRUE]],
             client' = [client EXCEPT ![c] = [fd |-> fd, replies |-> 0]],
             events' = AeCreateFileEvent(events, fd, "READABLE", c),
             fresh' = fresh \cup {fd}
      PROVE  /\ Matched' /\ fresh' \subseteq Fds
             /\ \E f \in Fds : /\ conn[f] = None /\ fresh' = fresh \cup {f}
                               /\ \A g \in Fds \ {f} : conn'[g] = conn[g]
  <2>1. fd \in Fds /\ conn[fd] = None
    BY DEF FreeFds
  <2> DEFINE event == <<fd, "READABLE">>
  <2>2. /\ IsList(events')
        /\ DOMAIN events'.data = DOMAIN events.data \cup {event}
        /\ events'.data[event] = c
        /\ \A e \in DOMAIN events.data : e # event => events'.data[e] = events.data[e]
    <3>1. /\ IsList(events) /\ fd \in Fds \cup {Listen} /\ c \in Addrs \cup {None}
          /\ "READABLE" \in Masks
      BY <2>1 DEF Matched, ListType, Masks
    <3> QED
      BY <1>2, <3>1, CreatedList
  <2>3. /\ [inbox |-> {}, room |-> TRUE] \in Sockets
        /\ [fd |-> fd, replies |-> 0] \in Structures
    BY <2>1, EventLoopAssumption DEF Sockets, Structures
  <2>4. ListType'
    BY <1>2, <2>2, <2>3 DEF Matched, ListType
  <2>5. \A a : a \in Live' <=> a \in Live \cup {c}
    BY <1>2, <2>3, NoneAssumption DEF Live, Matched, ListType
  <2>6. c \notin Live /\ client'[c] = [fd |-> fd, replies |-> 0]
    BY <1>2 DEF Live, Matched, ListType
  <2>7. \A a \in Live : client'[a] = client[a] /\ client[a].fd # fd /\ client[a].fd \in Fds
    <3> SUFFICES ASSUME NEW a \in Live
                 PROVE  client'[a] = client[a] /\ client[a].fd # fd /\ client[a].fd \in Fds
      OBVIOUS
    <3>1. client'[a] = client[a]
      BY <1>2, <2>6 DEF Live, Matched, ListType
    <3>2. conn[client[a].fd] # None
      BY DEF Matched, EventsMatchClients
    <3> QED
      BY <2>1, <3>1, <3>2, LiveType DEF Matched
  <2>8. \A mask : <<fd, mask>> \notin DOMAIN events.data
    BY <2>1, UnownedSilent
  <2>9. /\ conn'[fd] # None
        /\ \A f \in Fds \ {fd} : conn'[f] = conn[f]
    BY <1>2, <2>1, <2>3, NoneAssumption DEF Matched, ListType
  <2>10. EventsMatchClients'
    <3>1. ASSUME NEW e \in DOMAIN events'.data, e[1] # Listen
          PROVE  events'.data[e] \in Live' /\ client'[events'.data[e]].fd = e[1]
      BY <2>2, <2>5, <2>6, <2>7, <3>1 DEF Matched, EventsMatchClients
    <3>2. ASSUME NEW a \in Live'
          PROVE  /\ conn'[client'[a].fd] # None
                 /\ <<client'[a].fd, "READABLE">> \in DOMAIN events'.data
                 /\ <<client'[a].fd, "WRITABLE">> \in DOMAIN events'.data
                      <=> client'[a].replies > 0
      <4>1. CASE a = c
        <5>1. <<fd, "WRITABLE">> \notin DOMAIN events'.data
          BY <2>2, <2>8
        <5> QED
          BY <2>2, <2>6, <2>9, <4>1, <5>1
      <4>2. CASE a # c
        <5>1. a \in Live
          BY <2>5, <4>2
        <5>2. /\ conn[client[a].fd] # None
              /\ <<client[a].fd, "READABLE">> \in DOMAIN events.data
              /\ <<client[a].fd, "WRITABLE">> \in DOMAIN events.data
                   <=> client[a].replies > 0
          BY <5>1 DEF Matched, EventsMatchClients
        <5>3. <<client[a].fd, "WRITABLE">> # event
          OBVIOUS
        <5> QED
          BY <2>2, <2>7, <2>9, <5>1, <5>2, <5>3
      <4> QED
        BY <4>1, <4>2
    <3>3. \A a, b \in Live' : a # b => client'[a].fd # client'[b].fd
      BY <2>5, <2>6, <2>7 DEF Matched, EventsMatchClients
    <3>4. \A f \in Fds : conn'[f] # None => \E a \in Live' : client'[a].fd = f
      BY <2>5, <2>6, <2>7, <2>9 DEF Matched, EventsMatchClients
    <3> QED
      BY <3>1, <3>2, <3>3, <3>4 DEF EventsMatchClients
  <2> QED
    BY <1>2, <2>1, <2>4, <2>9, <2>10 DEF Matched
<1> QED
  BY <1>1, <1>2 DEF AcceptHandler

(* A client whose replies go from none to some gets its second event.      *)
LEMMA AddReplyMatched ==
  ASSUME Matched, NEW a \in Live, NEW n \in 0 .. MaxReplies, AddReply(a, n),
         \A fd \in Fds : conn'[fd] = None <=> conn[fd] = None,
         conn' \in [Fds -> Sockets \cup {None}]
  PROVE  Matched'
<1> DEFINE fd == client[a].fd
           queued == client[a].replies
           event == <<fd, "WRITABLE">>
<1>1. /\ client[a] \in Structures /\ a \in Addrs /\ fd \in Fds /\ queued \in 0 .. MaxReplies
      /\ queued + n <= MaxReplies
  BY LiveType DEF Matched, AddReply
<1>2. client' = [client EXCEPT ![a].replies = queued + n]
  BY DEF AddReply
<1>3. /\ client'[a] = [client[a] EXCEPT !.replies = queued + n]
      /\ client'[a] \in Structures /\ client'[a].fd = fd /\ client'[a].replies = queued + n
      /\ \A b \in Addrs \ {a} : client'[b] = client[b]
  BY <1>1, <1>2, EventLoopAssumption DEF Matched, ListType, Structures
<1>4. client' \in [Addrs -> Structures \cup {None}]
  BY <1>1, <1>2, <1>3 DEF Matched, ListType
<1>5. /\ \A b : b \in Live' <=> b \in Live
      /\ \A b \in Live : client'[b].fd = client[b].fd
  BY <1>1, <1>3, <1>4, NoneAssumption DEF Live
<1>6. /\ IsList(events')
      /\ DOMAIN events'.data = DOMAIN events.data \cup (IF queued + n > 0 THEN {event} ELSE {})
      /\ \A e \in DOMAIN events'.data :
           IF e \in DOMAIN events.data THEN events'.data[e] = events.data[e]
                                       ELSE e = event /\ events'.data[e] = a
  <2>1. /\ IsList(events) /\ fd \in Fds \cup {Listen} /\ a \in Addrs \cup {None}
        /\ "WRITABLE" \in Masks
    BY <1>1 DEF Matched, ListType, Masks
  <2>2. event \in DOMAIN events.data <=> queued > 0
    BY DEF Matched, EventsMatchClients
  <2>3. CASE queued = 0 /\ n > 0
    <3>1. events' = AeCreateFileEvent(events, fd, "WRITABLE", a)
      BY <2>3 DEF AddReply
    <3>2. /\ IsList(events')
          /\ DOMAIN events'.data = DOMAIN events.data \cup {event}
          /\ events'.data[event] = a
          /\ \A e \in DOMAIN events.data : e # event => events'.data[e] = events.data[e]
      BY <2>1, <3>1, CreatedList
    <3> QED
      BY <2>2, <2>3, <3>2
  <2>4. CASE ~ (queued = 0 /\ n > 0)
    <3>1. events' = events
      BY <2>4 DEF AddReply
    <3>2. queued + n > 0 <=> queued > 0
      BY <1>1, <2>4
    <3> QED
      BY <2>1, <2>2, <3>1, <3>2
  <2> QED
    BY <2>3, <2>4
<1>7. EventsMatchClients'
  <2> HIDE DEF fd, queued, event
  <2>1. ASSUME NEW e \in DOMAIN events'.data, e[1] # Listen
        PROVE  events'.data[e] \in Live' /\ client'[events'.data[e]].fd = e[1]
    BY <1>5, <1>6, <2>1 DEF Matched, EventsMatchClients, fd, event
  <2>2. ASSUME NEW b \in Live'
        PROVE  /\ conn'[client'[b].fd] # None
               /\ <<client'[b].fd, "READABLE">> \in DOMAIN events'.data
               /\ <<client'[b].fd, "WRITABLE">> \in DOMAIN events'.data
                    <=> client'[b].replies > 0
    <3>1. /\ b \in Live /\ client'[b].fd = client[b].fd /\ client[b].fd \in Fds
          /\ conn[client[b].fd] # None
          /\ <<client[b].fd, "READABLE">> \in DOMAIN events.data
          /\ <<client[b].fd, "WRITABLE">> \in DOMAIN events.data <=> client[b].replies > 0
      BY <1>5, LiveType DEF Matched, EventsMatchClients
    <3>2. CASE b = a
      <4>1. queued >= 0 /\ n >= 0
        BY <1>1
      <4>2. <<fd, "WRITABLE">> \in DOMAIN events.data <=> queued > 0
        BY <3>1, <3>2 DEF fd, queued
      <4>3. <<fd, "WRITABLE">> \in DOMAIN events'.data <=> queued + n > 0
        BY <1>1, <1>6, <4>1, <4>2 DEF event
      <4> QED
        BY ZenonT(60), <1>3, <1>6, <3>1, <3>2, <4>3 DEF fd
    <3>3. CASE b # a
      <4>1. client[b].fd # fd /\ client'[b] = client[b] /\ b \in Addrs
        BY <1>3, <3>1, <3>3, LiveType DEF Matched, EventsMatchClients, fd
      <4>2. <<client[b].fd, "WRITABLE">> # event
        BY <4>1 DEF event
      <4> QED
        BY <1>6, <3>1, <4>1, <4>2
    <3> QED
      BY <3>2, <3>3
  <2>3. \A b, d \in Live' : b # d => client'[b].fd # client'[d].fd
    BY <1>5 DEF Matched, EventsMatchClients
  <2>4. \A f \in Fds : conn'[f] # None => \E b \in Live' : client'[b].fd = f
    BY <1>5 DEF Matched, EventsMatchClients
  <2> QED
    BY <2>1, <2>2, <2>3, <2>4 DEF EventsMatchClients
<1> QED
  BY <1>4, <1>6, <1>7 DEF Matched, ListType

LEMMA ReadMatched ==
  ASSUME Matched, stop \in BOOLEAN, NEW a \in Live, ReadQueryFromClient(a, client[a].fd)
  PROVE  /\ Matched' /\ fresh' = fresh /\ stop' \in BOOLEAN
         /\ \A fd \in Fds \ {client[a].fd} : conn'[fd] = conn[fd]
<1> DEFINE fd == client[a].fd
<1>1. fd \in Fds /\ conn[fd] \in Sockets
  BY LiveType DEF Matched, ListType, EventsMatchClients
<1>2. CASE FreeClient(a) /\ fresh' = fresh /\ stop' \in BOOLEAN
  <2>1. /\ Matched'
        /\ \A f \in Fds : conn'[f] # conn[f] => \E b \in {a} : client[b].fd = f
    BY <1>2, FreeClientsMatched DEF FreeClient
  <2> QED
    BY <1>2, <2>1
<1>3. CASE UNCHANGED <<events, client, conn, stop, fresh>>
  BY <1>3 DEF Matched, ListType, EventsMatchClients, Live
<1>4. ASSUME NEW n \in 0 .. MaxReplies, AddReply(a, n),
             conn' = [conn EXCEPT ![fd].inbox = @ \ {"data"}]
      PROVE  /\ Matched'
             /\ \A f \in Fds \ {fd} : conn'[f] = conn[f]
  <2>1. conn'[fd] \in Sockets /\ \A f \in Fds \ {fd} : conn'[f] = conn[f]
    BY <1>1, <1>4 DEF Matched, ListType, Sockets
  <2>2. conn' \in [Fds -> Sockets \cup {None}]
    BY <1>1, <1>4, <2>1 DEF Matched, ListType
  <2>3. \A f \in Fds : conn'[f] = None <=> conn[f] = None
    BY <1>1, <2>1, NoneAssumption
  <2> QED
    <3>1. AddReply(a, n)
      BY <1>4
    <3> QED
      BY ONLY Matched, a \in Live, n \in 0 .. MaxReplies, <2>1, <2>2, <2>3, <3>1, AddReplyMatched
<1> QED
  BY <1>2, <1>3, <1>4 DEF ReadQueryFromClient

LEMMA SendMatched ==
  ASSUME Matched, NEW a \in Live, SendReplyToClient(a)
  PROVE  /\ Matched' /\ fresh' = fresh /\ stop' = stop
         /\ \A fd \in Fds \ {client[a].fd} : conn'[fd] = conn[fd]
<1> DEFINE fd == client[a].fd
<1>1. fd \in Fds /\ conn[fd] \in Sockets /\ a \in Addrs /\ client[a] \in Structures
  BY LiveType DEF Matched, ListType, EventsMatchClients
<1>2. CASE FreeClient(a)
  <2>1. /\ Matched'
        /\ \A f \in Fds : conn'[f] # conn[f] => \E b \in {a} : client[b].fd = f
    BY <1>2, FreeClientsMatched DEF FreeClient
  <2> QED
    BY <2>1 DEF SendReplyToClient
<1>3. CASE UNCHANGED <<events, client, conn>>
  BY <1>3 DEF SendReplyToClient, Matched, ListType, EventsMatchClients, Live
<1>4. ASSUME NEW n \in 0 .. client[a].replies,
             n = 0 <=> client[a].replies = 0,
             client' = [client EXCEPT ![a].replies = client[a].replies - n],
             conn' = [conn EXCEPT ![fd].room = client[a].replies - n = 0],
             events' = IF client[a].replies - n = 0
                       THEN AeDeleteFileEvent(events, fd, "WRITABLE") ELSE events
      PROVE  Matched' /\ \A f \in Fds \ {fd} : conn'[f] = conn[f]
  <2> DEFINE rest == client[a].replies - n
             event == <<fd, "WRITABLE">>
  <2>1. rest \in 0 .. MaxReplies /\ client[a].replies \in 0 .. MaxReplies
    BY LiveType, EventLoopAssumption DEF Matched
  <2>2. /\ conn'[fd] \in Sockets /\ \A f \in Fds \ {fd} : conn'[f] = conn[f]
        /\ conn' \in [Fds -> Sockets \cup {None}]
    <3>1. (rest = 0) \in BOOLEAN
      OBVIOUS
    <3>2. [conn[fd] EXCEPT !.room = (rest = 0)] \in Sockets
      BY <1>1, <3>1 DEF Sockets
    <3>3. conn' = [conn EXCEPT ![fd] = [conn[fd] EXCEPT !.room = (rest = 0)]]
      BY <1>1, <1>4 DEF Matched, ListType
    <3> QED
      BY <1>1, <3>2, <3>3 DEF Matched, ListType
  <2>3. \A f \in Fds : conn'[f] = None <=> conn[f] = None
    BY <1>1, <2>2, NoneAssumption
  <2>4. /\ client'[a] \in Structures /\ client'[a].fd = fd /\ client'[a].replies = rest
        /\ \A b \in Addrs \ {a} : client'[b] = client[b]
        /\ client' \in [Addrs -> Structures \cup {None}]
    BY <1>1, <1>4, <2>1 DEF Matched, ListType, Structures
  <2>5. /\ \A b : b \in Live' <=> b \in Live
        /\ \A b \in Live : client'[b].fd = client[b].fd
    BY <1>1, <2>4, NoneAssumption DEF Live
  <2>6. /\ IsList(events')
        /\ \A e \in DOMAIN events'.data : e \in DOMAIN events.data /\ events'.data[e] = events.data[e]
        /\ \A e \in DOMAIN events.data : e # event => e \in DOMAIN events'.data
        /\ event \in DOMAIN events'.data <=> rest > 0
    <3>1. IsList(events) /\ DOMAIN events.data \subseteq Events
      BY DEF Matched, ListType, IsList
    <3>2. event \in DOMAIN events.data <=> client[a].replies > 0
      BY DEF Matched, EventsMatchClients
    <3>3. CASE rest = 0
      <4> DEFINE E == Events \ {event}
      <4>1. events' = Keeping(events, E)
        BY <1>4, <3>3 DEF AeDeleteFileEvent
      <4>2. /\ IsList(events')
            /\ DOMAIN events'.data = DOMAIN events.data \cap E
            /\ \A e \in DOMAIN events.data \cap E : events'.data[e] = events.data[e]
        <5> HIDE DEF E
        <5> QED
          BY <3>1, <4>1, KeptList
      <4> QED
        BY <3>1, <3>3, <4>2
    <3>4. CASE rest # 0
      <4>1. events' = events /\ client[a].replies > 0 /\ rest > 0
        BY <1>4, <2>1, <3>4
      <4> QED
        BY <3>1, <3>2, <4>1
    <3> QED
      BY <3>3, <3>4
  <2>7. EventsMatchClients'
    <3> HIDE DEF fd, rest, event
    <3>1. ASSUME NEW e \in DOMAIN events'.data, e[1] # Listen
          PROVE  events'.data[e] \in Live' /\ client'[events'.data[e]].fd = e[1]
      BY <2>5, <2>6, <3>1 DEF Matched, EventsMatchClients
    <3>2. ASSUME NEW b \in Live'
          PROVE  /\ conn'[client'[b].fd] # None
                 /\ <<client'[b].fd, "READABLE">> \in DOMAIN events'.data
                 /\ <<client'[b].fd, "WRITABLE">> \in DOMAIN events'.data
                      <=> client'[b].replies > 0
      <4>1. /\ b \in Live /\ client'[b].fd = client[b].fd /\ client[b].fd \in Fds
            /\ conn[client[b].fd] # None
            /\ <<client[b].fd, "READABLE">> \in DOMAIN events.data
            /\ <<client[b].fd, "WRITABLE">> \in DOMAIN events.data <=> client[b].replies > 0
        BY <2>5, LiveType DEF Matched, EventsMatchClients
      <4>2. <<client[b].fd, "READABLE">> \in DOMAIN events'.data
        BY <2>6, <4>1 DEF event
      <4>3. CASE b = a
        BY <2>3, <2>4, <2>6, <4>1, <4>2, <4>3 DEF event, fd
      <4>4. CASE b # a
        <5>1. client[b].fd # fd /\ client'[b] = client[b]
          BY <2>4, <4>1, <4>4, LiveType DEF Matched, EventsMatchClients, fd
        <5>2. <<client[b].fd, "WRITABLE">> # event
          BY <5>1 DEF event
        <5> QED
          BY <2>3, <2>6, <4>1, <4>2, <5>1, <5>2
      <4> QED
        BY <4>3, <4>4
    <3>3. \A b, d \in Live' : b # d => client'[b].fd # client'[d].fd
      BY <2>5 DEF Matched, EventsMatchClients
    <3>4. \A f \in Fds : conn'[f] # None => \E b \in Live' : client'[b].fd = f
      BY <2>3, <2>5 DEF Matched, EventsMatchClients
    <3> QED
      BY <3>1, <3>2, <3>3, <3>4 DEF EventsMatchClients
  <2> QED
    BY <2>2, <2>4, <2>6, <2>7 DEF Matched, ListType
<1> QED
  BY <1>2, <1>3, <1>4 DEF SendReplyToClient

-----------------------------------------------------------------------------
(* The invariant                                                           *)

ServerType ==
  /\ status \in {"loading", "running", "down", "exited"}
  /\ stop \in BOOLEAN
  /\ pc \in {"main", "sleep", "scan", "timers"}
  /\ left \in -1 .. Period
  /\ rfds \subseteq Fds \cup {Listen} /\ wfds \subseteq Fds
  /\ fresh \subseteq Fds

Inv == Matched /\ ScanInv /\ ServerType

LEMMA InitInv == Init => Inv
<1> SUFFICES ASSUME Init PROVE Inv
  OBVIOUS
<1>1. DOMAIN EmptyList.data = {} /\ EmptyList.order = {}
  BY DEF EmptyList
<1>2. IsList(EmptyList)
  BY <1>1 DEF IsList, IsOrder, EmptyList
<1>3. \A a : a \notin Live
  BY DEF Init, Live
<1>4. EventsMatchClients
  BY <1>1, <1>3 DEF Init, EventsMatchClients
<1>5. Matched
  BY <1>2, <1>4 DEF Init, Matched, ListType
<1>6. ScanInv
  BY DEF Init, ScanInv
<1>7. left \in -1 .. Period
  BY EventLoopAssumption DEF Init
<1>8. ServerType
  BY <1>7 DEF Init, ServerType
<1> QED
  BY <1>5, <1>6, <1>8 DEF Inv

(* Nothing that Matched speaks of changes. *)
LEMMA MatchedUnchanged ==
  ASSUME Matched, UNCHANGED <<events, client, conn>> PROVE Matched'
BY DEF Matched, ListType, EventsMatchClients, Live

LEMMA DispatchInv ==
  ASSUME Inv, Dispatch PROVE Inv'
<1>1. PICK event \in DOMAIN events.data :
        IsSet(event) /\ Handler(event) /\ Cleared(event)
  BY DEF Dispatch
<1>2. /\ Matched /\ ScanInv /\ stop \in BOOLEAN /\ fresh \subseteq Fds
      /\ pc = "scan" /\ status = "running"
      /\ UNCHANGED <<status, pc, left>>
  BY DEF Inv, ServerType, Dispatch
<1>3. /\ Matched' /\ stop' \in BOOLEAN /\ fresh' \subseteq Fds
      /\ \A fd \in Fds : fd \in rfds' \cup wfds' => conn'[fd] # None /\ fd \notin fresh'
  <2>1. rfds' = rfds \ {event[1]} /\ wfds' = wfds \ {event[1]}
    BY <1>1 DEF Cleared
  <2>2. \A fd \in Fds : fd \in rfds \cup wfds => conn[fd] # None /\ fd \notin fresh
    BY <1>2 DEF ScanInv
  <2>3. CASE event[1] = Listen
    <3>1. AcceptHandler
      BY <1>1, <2>3 DEF Handler
    <3>2. /\ Matched' /\ stop' = stop /\ fresh' \subseteq Fds
          /\ \/ fresh' = fresh /\ conn' = conn
             \/ \E fd \in Fds : /\ conn[fd] = None /\ fresh' = fresh \cup {fd}
                                /\ \A f \in Fds \ {fd} : conn'[f] = conn[f]
      BY <1>2, <3>1, AcceptMatched
    <3> QED
      BY <1>2, <2>1, <2>2, <3>2
  <2>4. CASE event[1] # Listen
    <3> DEFINE a == events.data[event]
    <3>1. a \in Live /\ client[a].fd = event[1]
      BY <1>2, <2>4 DEF Matched, EventsMatchClients
    <3>2. SendReplyToClient(a) \/ ReadQueryFromClient(a, client[a].fd)
      BY <1>1, <2>4, <3>1 DEF Handler
    <3>3. /\ Matched' /\ fresh' = fresh /\ stop' \in BOOLEAN
          /\ \A fd \in Fds \ {client[a].fd} : conn'[fd] = conn[fd]
      <4> HIDE DEF a
      <4> QED
        BY <1>2, <3>1, <3>2, SendMatched, ReadMatched
    <3> QED
      BY <1>2, <2>1, <2>2, <3>1, <3>3
  <2> QED
    BY <2>3, <2>4
<1>4. rfds' \subseteq rfds /\ wfds' \subseteq wfds
  BY <1>1 DEF Cleared
<1> QED
  BY <1>2, <1>3, <1>4 DEF Inv, ServerType, ScanInv

LEMMA SelectReturnsInv ==
  ASSUME Inv, SelectReturns PROVE Inv'
<1>1. /\ pc = "sleep" /\ Matched /\ ScanInv
      /\ UNCHANGED <<status, stop, left, events, client, conn, fresh>>
  BY DEF Inv, ServerType, SelectReturns
<1>2. Matched'
  BY <1>1, MatchedUnchanged
<1>3. PICK waiting \in {{}, {Listen}} :
        LET r == {fd \in Registered("READABLE") : Readable(fd)} \cup waiting
            w == {fd \in Registered("WRITABLE") : Writable(fd)}
        IN \/ rfds' = r /\ wfds' = w /\ pc' = "scan"
           \/ pc' = "timers" /\ UNCHANGED <<rfds, wfds>>
  BY DEF SelectReturns
<1>4. CASE pc' = "timers" /\ UNCHANGED <<rfds, wfds>>
  BY <1>1, <1>2, <1>4 DEF Inv, ServerType, ScanInv
<1>5. CASE /\ rfds' = {fd \in Registered("READABLE") : Readable(fd)} \cup waiting
           /\ wfds' = {fd \in Registered("WRITABLE") : Writable(fd)}
           /\ pc' = "scan"
  <2>1. \A fd \in Fds : \A mask : fd \in Registered(mask) => conn[fd] # None
    BY <1>1, UnownedSilent DEF Registered
  <2>2. \A mask : Registered(mask) \subseteq Fds
    BY DEF Registered
  <2>3. Listen \notin Fds
    BY EventLoopAssumption
  <2> QED
    BY <1>1, <1>2, <1>3, <1>5, <2>1, <2>2, <2>3 DEF Inv, ServerType, ScanInv
<1> QED
  BY <1>3, <1>4, <1>5

LEMMA TimeEventsInv ==
  ASSUME Inv, TimeEvents PROVE Inv'
<1>1. /\ pc = "timers" /\ Matched /\ ScanInv
      /\ UNCHANGED <<status, stop, rfds, wfds, fresh>>
  BY DEF Inv, ServerType, TimeEvents
<1>2. CASE CloseTimeoutClients /\ left' = Period /\ pc' = pc
  <2>1. PICK cs \in SUBSET Live : FreeClients(cs)
    BY <1>2 DEF CloseTimeoutClients, Live
  <2>2. Matched'
    BY <1>1, <2>1, FreeClientsMatched
  <2> QED
    BY <1>1, <1>2, <2>2, EventLoopAssumption DEF Inv, ServerType, ScanInv
<1>3. CASE pc' = "main" /\ UNCHANGED <<events, conn, client, left>>
  BY <1>1, <1>3, MatchedUnchanged DEF Inv, ServerType, ScanInv
<1> QED
  BY <1>2, <1>3 DEF TimeEvents

LEMMA StartServerInv ==
  ASSUME Inv, StartServer PROVE Inv'
<1>1. Matched /\ ScanInv
  BY DEF Inv, ServerType
<1>2. /\ IsList(events')
      /\ DOMAIN events'.data = DOMAIN events.data \cup {<<Listen, "READABLE">>}
      /\ \A e \in DOMAIN events.data :
           e # <<Listen, "READABLE">> => events'.data[e] = events.data[e]
  <2>1. IsList(events)
    BY <1>1 DEF Matched, ListType
  <2>2. ASSUME NEW fd \in Fds \cup {Listen}, NEW mask \in Masks, NEW c \in Addrs \cup {None},
               events' = AeCreateFileEvent(events, fd, mask, c)
        PROVE  /\ IsList(events')
               /\ DOMAIN events'.data = DOMAIN events.data \cup {<<fd, mask>>}
               /\ events'.data[<<fd, mask>>] = c
               /\ \A e \in DOMAIN events.data :
                    e # <<fd, mask>> => events'.data[e] = events.data[e]
    BY <2>1, <2>2, CreatedList
  <2>3. /\ Listen \in Fds \cup {Listen} /\ None \in Addrs \cup {None} /\ "READABLE" \in Masks
        /\ events' = AeCreateFileEvent(events, Listen, "READABLE", None)
    BY DEF Masks, StartServer
  <2> QED
    BY <2>2, <2>3
<1>3. EventsMatchClients'
  <2>1. UNCHANGED <<client, conn>> /\ Live' = Live
    BY DEF StartServer, Live
  <2>2. \A a \in Live : client[a].fd # Listen
    BY <1>1, LiveType, EventLoopAssumption DEF Matched
  <2>3. ASSUME NEW a \in Live, NEW mask
        PROVE  <<client[a].fd, mask>> \in DOMAIN events'.data
                 <=> <<client[a].fd, mask>> \in DOMAIN events.data
    BY <1>2, <2>2
  <2>4. ASSUME NEW e \in DOMAIN events'.data, e[1] # Listen
        PROVE  events'.data[e] \in Live /\ client[events'.data[e]].fd = e[1]
    BY <1>1, <1>2, <2>4 DEF Matched, EventsMatchClients
  <2> QED
    BY <1>1, <2>1, <2>3, <2>4 DEF Matched, EventsMatchClients
<1> QED
  BY <1>1, <1>2, <1>3 DEF Inv, ServerType, StartServer, Matched, ListType, ScanInv

LEMMA CleanServerInv ==
  ASSUME Inv, CleanServer PROVE Inv'
<1>1. /\ pc = "main" /\ Matched /\ ScanInv /\ status' = "down"
      /\ UNCHANGED <<stop, pc, left, rfds, wfds, fresh>>
      /\ FreeClients(Live)
  BY DEF Inv, ServerType, CleanServer, Live
<1>2. Matched'
  BY <1>1, FreeClientsMatched
<1> QED
  BY <1>1, <1>2 DEF Inv, ServerType, ScanInv

LEMMA PeerInv ==
  ASSUME Inv, NEW fd \in Fds, Peer(fd) PROVE Inv'
<1>1. /\ Matched /\ ScanInv /\ conn[fd] # None /\ conn[fd] \in Sockets
      /\ UNCHANGED <<status, stop, pc, left, events, rfds, wfds, client, fresh>>
  BY DEF Inv, ServerType, Peer, Matched, ListType
<1>2. PICK s \in Sockets : conn' = [conn EXCEPT ![fd] = s]
  <2>1. /\ [conn[fd] EXCEPT !.inbox = @ \cup {"data"}] \in Sockets
        /\ [conn[fd] EXCEPT !.room = TRUE] \in Sockets
        /\ \A room \in {conn[fd].room, TRUE} :
             [conn[fd] EXCEPT !.inbox = @ \cup {"end"}, !.room = room] \in Sockets
    BY <1>1 DEF Sockets
  <2>2. CASE conn' = [conn EXCEPT ![fd].inbox = @ \cup {"data"}]
    BY <2>1, <2>2 DEF Matched, ListType
  <2>3. CASE conn' = [conn EXCEPT ![fd].room = TRUE]
    BY <2>1, <2>3 DEF Matched, ListType
  <2>4. CASE \E room \in {conn[fd].room, TRUE} :
               conn' = [conn EXCEPT ![fd].inbox = @ \cup {"end"}, ![fd].room = room]
    <3>1. PICK room \in {conn[fd].room, TRUE} :
            conn' = [conn EXCEPT ![fd].inbox = @ \cup {"end"}, ![fd].room = room]
      BY <2>4
    <3>2. conn' = [conn EXCEPT ![fd] = [conn[fd] EXCEPT !.inbox = @ \cup {"end"}, !.room = room]]
      BY <1>1, <3>1 DEF Matched, ListType
    <3> QED
      BY <2>1, <3>2
  <2> QED
    BY <2>2, <2>3, <2>4 DEF Peer
<1>3. /\ conn' \in [Fds -> Sockets \cup {None}]
      /\ \A f \in Fds : conn'[f] = None <=> conn[f] = None
  BY <1>1, <1>2, NoneAssumption DEF Matched, ListType
<1>4. Matched'
  <2>1. Live' = Live
    BY <1>1 DEF Live
  <2>2. \A a \in Live : client[a].fd \in Fds
    BY <1>1, LiveType DEF Matched
  <2> QED
    BY <1>1, <1>3, <2>1, <2>2 DEF Matched, ListType, EventsMatchClients
<1> QED
  BY <1>1, <1>3, <1>4 DEF Inv, ServerType, ScanInv

LEMMA NextInv == Inv /\ [Next]_vars => Inv'
<1> SUFFICES ASSUME Inv, [Next]_vars PROVE Inv'
  OBVIOUS
<1>1. ASSUME EnterSelect PROVE Inv'
  BY <1>1, MatchedUnchanged DEF Inv, ServerType, EnterSelect, ScanInv
<1>2. ASSUME Scanned PROVE Inv'
  BY <1>2, MatchedUnchanged DEF Inv, ServerType, Scanned, ScanInv
<1>3. ASSUME interrupt_handler PROVE Inv'
  BY <1>3, MatchedUnchanged DEF Inv, ServerType, interrupt_handler, ScanInv
<1>4. ASSUME Tick PROVE Inv'
  BY <1>4, MatchedUnchanged, EventLoopAssumption DEF Inv, ServerType, Tick, ScanInv
<1>5. CASE UNCHANGED vars
  BY <1>5, MatchedUnchanged DEF Inv, ServerType, vars, ScanInv
<1> QED
  BY <1>1, <1>2, <1>3, <1>4, <1>5, DispatchInv, SelectReturnsInv, TimeEventsInv,
     StartServerInv, CleanServerInv, PeerInv
  DEF Next, Server, AeMain

LEMMA InvAlways == Spec => []Inv
<1> QED
  BY InitInv, NextInv, PTL DEF Spec

(* Type correctness: the list of file events keeps the form of a list, in  *)
(* which a descriptor and mask occur once (ae.c:73-121).                   *)
THEOREM EventLoopTypeCorrect == Spec => []TypeOK
<1>1. Inv => TypeOK
  BY DEF Inv, ServerType, Matched, ListType, TypeOK
<1> QED
  BY <1>1, InvAlways, PTL

(* Whatever handlers do while the list is walked, no event outlives its    *)
(* client or its descriptor, each client can be read from, and written to  *)
(* just while replies are queued (ae.c:73-121, client.c:78-111, 293-296).  *)
THEOREM EventsAlwaysMatch == Spec => []EventsMatchClients
<1>1. Inv => EventsMatchClients
  BY DEF Inv, Matched
<1> QED
  BY <1>1, InvAlways, PTL

(* What select said of a connection that is gone is never taken for the    *)
(* readiness of one that has been accepted in the same pass with the same  *)
(* descriptor (ae.c:272-279).                                              *)
THEOREM FreshNeverServed == Spec => []FreshNotServed
<1>1. Inv => FreshNotServed
  BY EventLoopAssumption DEF Inv, ServerType, ScanInv, FreshNotServed, IsSet
<1> QED
  BY <1>1, InvAlways, PTL
=============================================================================
