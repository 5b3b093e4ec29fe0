------------------------------- MODULE EventLoop -------------------------------
(***************************************************************************)
(* The event loop of cutis (src/src/event/ae.c) and what hangs on it: the  *)
(* listening socket, the sockets of several clients, the timer of          *)
(* ServerCron, SIGINT and SHUTDOWN.                                        *)
(*                                                                         *)
(* A pass of AeProcessEvents asks select which descriptors are ready, then *)
(* calls the handler of one ready descriptor after the other, then that of *)
(* the timer.  Handlers register and remove events, close descriptors and  *)
(* get new ones, which the kernel numbers anew from the lowest free one,   *)
(* all while the answer of select is still being worked off.               *)
(*                                                                         *)
(* Time is what is left until the timer is due.  The clock may move between *)
(* any two steps.                                                          *)
(***************************************************************************)
EXTENDS Integers, FiniteSets

CONSTANTS
  Listen,       \* server->fd
  Fds,          \* descriptors there are for clients (the limit of the process)
  Addrs,        \* addresses of CutisClient structures
  None,
  Period,       \* 1000 ms, what ServerCron returns, in ticks of the clock
  MaxReplies    \* bound: writes that a client's queued replies need

ASSUME EventLoopAssumption ==
  /\ Fds \subseteq Nat /\ Listen \in Nat \ Fds /\ IsFiniteSet(Fds)
  /\ None \notin Addrs
  /\ Period \in Nat \ {0} /\ MaxReplies \in Nat \ {0}

VARIABLES
  status,   \* of the process: loading the dump, running, down, exited
  stop,     \* el->stop
  pc,       \* where AeMain is: main, sleep (in select), scan, timers
  left,     \* te->when less the time, -1 when it has passed
  events,   \* the list from el->file_event_head on, see Lists
  rfds,     \* bits still set in the answer of select
  wfds,
  client,   \* the CutisClient at each address
  conn,     \* the socket behind each descriptor
  fresh     \* the descriptors opened while the answer of select is worked
            \* off (history, for FreshNotServed)

vars == <<status, stop, pc, left, events, rfds, wfds, client, conn, fresh>>

(* What a socket holds for the server, and whether it takes more replies.  *)
Sockets == [inbox : SUBSET {"data", "end"}, room : BOOLEAN]

Structures == [fd : Fds, replies : 0 .. MaxReplies]

ASSUME NoneAssumption == None \notin Sockets \cup Structures

Masks == {"READABLE", "WRITABLE"}

(* An event is known by its descriptor and mask, of which the list has one *)
(* at most.  A list is the client data of its events, and the pairs of     *)
(* events of which the first stands before the second.                     *)
Events == (Fds \cup {Listen}) \X Masks

IsOrder(order, E) ==
  /\ order \subseteq E \X E
  /\ \A e \in E : <<e, e>> \notin order
  /\ \A e, f \in E : e # f => <<e, f>> \in order \/ <<f, e>> \in order
  /\ \A e, f, g \in E : <<e, f>> \in order /\ <<f, g>> \in order => <<e, g>> \in order

IsList(list) ==
  /\ DOMAIN list.data \subseteq Events
  /\ list.data \in [DOMAIN list.data -> Addrs \cup {None}]
  /\ IsOrder(list.order, DOMAIN list.data)

EmptyList == [data |-> [e \in {} |-> None], order |-> {}]

TypeOK ==
  /\ status \in {"loading", "running", "down", "exited"}
  /\ stop \in BOOLEAN
  /\ pc \in {"main", "sleep", "scan", "timers"}
  /\ left \in -1 .. Period
  /\ IsList(events)
  /\ rfds \subseteq Fds \cup {Listen} /\ wfds \subseteq Fds
  /\ client \in [Addrs -> Structures \cup {None}]
  /\ conn \in [Fds -> Sockets \cup {None}]
  /\ fresh \subseteq Fds

Init ==
  /\ status = "loading" /\ stop = FALSE /\ pc = "main"
  /\ left = Period    \* InitServer has created the timer
  /\ events = EmptyList
  /\ rfds = {} /\ wfds = {}
  /\ client = [a \in Addrs |-> None]
  /\ conn = [fd \in Fds |-> None]
  /\ fresh = {}

-----------------------------------------------------------------------------
(* The list of file events: each operator gives the list after the call.   *)

(* An event of this descriptor and mask is changed, or a new one put first. *)
AeCreateFileEvent(list, fd, mask, c) ==
  LET event == <<fd, mask>>
      old == DOMAIN list.data
  IN [data |-> [e \in old \cup {event} |-> IF e = event THEN c ELSE list.data[e]],
      order |-> IF event \in old THEN list.order ELSE list.order \cup {event} \X old]

Keeping(list, E) ==
  [data |-> [e \in DOMAIN list.data \cap E |-> list.data[e]],
   order |-> {p \in list.order : p[1] \in E /\ p[2] \in E}]

KeepFileEvent(list, fd, mask) == list  \* mutant

AeDeleteFileEvent(list, fd, mask) == Keeping(list, Events \ {<<fd, mask>>})

KeepsWritable(list, fds) ==  \* mutant
  Keeping(list, {e \in Events : e[1] \notin fds \/ e[2] = "WRITABLE"})

(* AeDeleteFileEvent for either mask and each of the descriptors.          *)
DeleteEventsOf(list, fds) == Keeping(list, {e \in Events : e[1] \notin fds})

(* FreeClient of all the clients in cs: their events, sockets, structures. *)
FreeClients(cs) ==
  LET fds == {client[a].fd : a \in cs} IN
  /\ events' = DeleteEventsOf(events, fds)
  /\ conn' = [fd \in Fds |-> IF fd \in fds THEN None ELSE conn[fd]]
  /\ client' = [a \in Addrs |-> IF a \in cs THEN None ELSE client[a]]

FreeClient(c) == FreeClients({c})

-----------------------------------------------------------------------------
(* The handlers of file events                                             *)

FreeFds == {fd \in Fds : conn[fd] = None}

(* accept, then CreateClient; without a free descriptor accept fails and   *)
(* the connection goes on waiting.                                         *)
AcceptHandler ==
  /\ \/ FreeFds = {} /\ UNCHANGED <<events, client, conn, fresh>>
     \/ \E fd \in FreeFds, c \in {a \in Addrs : client[a] = None} :
            /\ \A lower \in FreeFds : fd <= lower
            /\ conn' = [conn EXCEPT ![fd] = [inbox |-> {}, room |-> TRUE]]
            /\ client' = [client EXCEPT ![c] = [fd |-> fd, replies |-> 0]]
            /\ events' = AeCreateFileEvent(events, fd, "READABLE", c)
            /\ fresh' = fresh \cup {fd}
  /\ stop' = stop

(* AddReply, as often as it takes n more writes to send what it queued.    *)
AddReply(c, n) ==
  LET queued == client[c].replies IN
  /\ queued + n <= MaxReplies
  /\ client' = [client EXCEPT ![c].replies = queued + n]
  /\ events' = IF queued = 0 /\ n > 0
               THEN AeCreateFileEvent(events, client[c].fd, "WRITABLE", c)
               ELSE events

(* The requests that have arrived are executed: they queue replies or not, *)
(* SHUTDOWN stops the loop, QUIT and overlong lines end the connection, as *)
(* do the end of the stream and an error.                                  *)
ReadQueryFromClient(c, fd) ==
  LET inbox == conn[fd].inbox IN
  \/ /\ "data" \in inbox
     /\ \/ /\ \E n \in 0 .. MaxReplies : AddReply(c, n)
           /\ conn' = [conn EXCEPT ![fd].inbox = @ \ {"data"}]
        \/ FreeClient(c)
     /\ stop' \in {stop, TRUE}
     /\ UNCHANGED fresh
  \/ inbox = {"end"} /\ FreeClient(c) /\ UNCHANGED <<stop, fresh>>
  \/ inbox = {} /\ UNCHANGED <<events, client, conn, stop, fresh>>

(* All the replies are written, or the socket is full after some of them,  *)
(* or the client has gone.                                                 *)
SendReplyToClient(c) ==
  LET fd == client[c].fd IN
  /\ \/ \E n \in 0 .. client[c].replies :
          LET rest == client[c].replies - n IN
          /\ n = 0 <=> client[c].replies = 0
          /\ conn[fd].room
          /\ client' = [client EXCEPT ![c].replies = rest]
          /\ conn' = [conn EXCEPT ![fd].room = rest = 0]
          /\ events' = IF rest = 0 THEN AeDeleteFileEvent(events, fd, "WRITABLE")
                                   ELSE events
     \/ "end" \in conn[fd].inbox /\ FreeClient(c)
     \/ ~ conn[fd].room /\ UNCHANGED <<events, client, conn>>
  /\ UNCHANGED <<stop, fresh>>

Handler(event) ==
  CASE event[1] = Listen -> AcceptHandler
    [] event[1] # Listen /\ event[2] = "WRITABLE" -> SendReplyToClient(events.data[event])
    [] OTHER -> ReadQueryFromClient(events.data[event], event[1])

-----------------------------------------------------------------------------
(* AeProcessEvents                                                         *)

Readable(fd) == conn[fd].inbox # {}
Writable(fd) == conn[fd].room

Registered(mask) == {fd \in Fds : <<fd, mask>> \in DOMAIN events.data}

(* The timeout is what is left until the timer.  If the timer was due      *)
(* already it is negative, and select gives EINVAL; a closed descriptor    *)
(* gives EBADF.                                                            *)
SelectFails ==
  left < 0 \/ \E e \in DOMAIN events.data : e[1] # Listen /\ conn[e[1]] = None

EnterSelectRearmed ==  \* mutant
  /\ status = "running" /\ pc = "main" /\ ~ SelectFails
  /\ pc' = "sleep" /\ stop' = FALSE
  /\ UNCHANGED <<status, left, events, rfds, wfds, client, conn, fresh>>

EnterSelect ==
  /\ status = "running" /\ pc = "main" /\ ~ stop
  /\ \/ SelectFails /\ status' = "exited" /\ pc' = pc
     \/ ~ SelectFails /\ pc' = "sleep" /\ status' = status
  /\ UNCHANGED <<stop, left, events, rfds, wfds, client, conn, fresh>>

(* Somebody may be waiting for accept or not. *)
SelectReturns ==
  \E waiting \in {{}, {Listen}} :
    LET r == {fd \in Registered("READABLE") : Readable(fd)} \cup waiting
        w == {fd \in Registered("WRITABLE") : Writable(fd)}
    IN /\ status = "running" /\ pc = "sleep"
       /\ \/ r \cup w # {} /\ rfds' = r /\ wfds' = w /\ pc' = "scan"
          \/ /\ r \cup w = {} /\ left <= 0 /\ pc' = "timers"
             /\ UNCHANGED <<rfds, wfds>>
       /\ UNCHANGED <<status, stop, left, events, client, conn, fresh>>

IsSet(event) ==
  \/ event[2] = "READABLE" /\ event[1] \in rfds
  \/ event[2] = "WRITABLE" /\ event[1] \in wfds

ClearedNone(event) == UNCHANGED <<rfds, wfds>>  \* mutant

ClearedServed(event) ==  \* mutant
  IF event[2] = "READABLE" THEN rfds' = rfds \ {event[1]} /\ wfds' = wfds
                           ELSE wfds' = wfds \ {event[1]} /\ rfds' = rfds

(* FD_CLR for both, though only one of the handlers has run. *)
Cleared(event) == rfds' = rfds \ {event[1]} /\ wfds' = wfds \ {event[1]}

(* The walk starts from the head of the list again after each handler, so  *)
(* the next handler is that of the first event whose bit is still set.     *)
Dispatch ==
  /\ status = "running" /\ pc = "scan"
  /\ \E event \in DOMAIN events.data :
       /\ IsSet(event)
       /\ \A e \in DOMAIN events.data : IsSet(e) => <<e, event>> \notin events.order
       /\ Handler(event)
       /\ Cleared(event)
  /\ UNCHANGED <<status, pc, left>>

(* Time events come after file events in each pass, however many there were. *)
Scanned ==
  /\ status = "running" /\ pc = "scan"
  /\ ~ \E e \in DOMAIN events.data : IsSet(e)
  /\ pc' = "timers" /\ fresh' = {} /\ rfds' = {} /\ wfds' = {}
  /\ UNCHANGED <<status, stop, left, events, client, conn>>

-----------------------------------------------------------------------------
(* The timer                                                               *)

(* Any of the clients may have been idle for too long (Connection has the   *)
(* time), on every tenth call.                                             *)
CloseTimeoutClients ==
  \E idle \in SUBSET {a \in Addrs : client[a] # None} : FreeClients(idle)

TimeEventsUndue ==  \* mutant
  /\ status = "running" /\ pc = "timers"
  /\ CloseTimeoutClients /\ left' = left + Period /\ pc' = "main"
  /\ UNCHANGED <<status, stop, rfds, wfds, fresh>>

(* A timer that is due is called and set again, then the list of timers is *)
(* walked anew; the pass ends when none is due.                            *)
TimeEvents ==
  /\ status = "running" /\ pc = "timers"
  /\ \/ left <= 0 /\ CloseTimeoutClients /\ left' = Period /\ pc' = pc
     \/ left > 0 /\ pc' = "main" /\ UNCHANGED <<events, conn, client, left>>
  /\ UNCHANGED <<status, stop, rfds, wfds, fresh>>

-----------------------------------------------------------------------------
(* The process                                                             *)

(* LoadDB has ended; StartServer registers the listening socket, and AeMain *)
(* forgets a stop that came before.                                        *)
StartServer ==
  /\ status = "loading" /\ status' = "running"
  /\ events' = AeCreateFileEvent(events, Listen, "READABLE", None)
  /\ stop' = FALSE
  /\ UNCHANGED <<pc, left, rfds, wfds, client, conn, fresh>>

CleanServer ==
  /\ status = "running" /\ pc = "main" /\ stop
  /\ status' = "down"
  /\ FreeClients({a \in Addrs : client[a] # None})
  /\ UNCHANGED <<stop, pc, left, rfds, wfds, fresh>>

(* SIGINT.  A signal that finds the server in select interrupts it; one    *)
(* that comes just before select blocks does not.                          *)
interrupt_handler ==
  /\ status \in {"loading", "running"} /\ ~ stop
  /\ stop' = TRUE
  /\ pc' \in IF pc = "sleep" THEN {"sleep", "timers"} ELSE {pc}
  /\ UNCHANGED <<status, left, events, rfds, wfds, client, conn, fresh>>

-----------------------------------------------------------------------------
(* Clients and time                                                        *)

(* ServerCron is assumed to take less than a period: the timer that it has *)
(* just set does not fall due before the walk over the timers ends.        *)
Tick ==
  /\ status \in {"loading", "running"} /\ left > -1
  /\ pc = "timers" => left # 1
  /\ left' = left - 1
  /\ UNCHANGED <<status, stop, pc, events, rfds, wfds, client, conn, fresh>>

(* The peer of a socket sends, takes what was written, or closes, with a   *)
(* reset or without.                                                       *)
Peer(fd) ==
  /\ status = "running" /\ conn[fd] # None /\ "end" \notin conn[fd].inbox
  /\ \/ "data" \notin conn[fd].inbox /\ conn' = [conn EXCEPT ![fd].inbox = @ \cup {"data"}]
     \/ ~ conn[fd].room /\ conn' = [conn EXCEPT ![fd].room = TRUE]
     \/ \E room \in {conn[fd].room, TRUE} :
          conn' = [conn EXCEPT ![fd].inbox = @ \cup {"end"}, ![fd].room = room]
  /\ UNCHANGED <<status, stop, pc, left, events, rfds, wfds, client, fresh>>

AeMain == EnterSelect \/ SelectReturns \/ Dispatch \/ Scanned \/ TimeEvents

Server == StartServer \/ AeMain \/ CleanServer

Next ==
  \/ Server \/ interrupt_handler \/ Tick
  \/ \E fd \in Fds : Peer(fd)

Spec == Init /\ [][Next]_vars

(* The process gets the processor, and the clock runs. *)
FairSpec == Spec /\ WF_vars(Server) /\ WF_vars(Tick)

-----------------------------------------------------------------------------
(* Properties *)

Live == {a \in Addrs : client[a] # None}

(* ae.c:73-121, client.c:78-92, 99-111, 293-296: however handlers register *)
(* and remove events while the list is walked, an event never outlives its *)
(* client or its descriptor (select would fail with EBADF and the server   *)
(* exit, or a handler be called with freed memory), each client has one    *)
(* event for reading, and one for writing just while replies are queued.   *)
EventsMatchClients ==
  /\ \A e \in DOMAIN events.data :
       \/ e[1] = Listen
       \/ events.data[e] \in Live /\ client[events.data[e]].fd = e[1]
  /\ \A a \in Live :
       /\ conn[client[a].fd] # None
       /\ <<client[a].fd, "READABLE">> \in DOMAIN events.data
       /\ <<client[a].fd, "WRITABLE">> \in DOMAIN events.data <=> client[a].replies > 0
  /\ \A a, b \in Live : a # b => client[a].fd # client[b].fd
  /\ \A fd \in Fds : conn[fd] # None => \E a \in Live : client[a].fd = fd

(* ae.c:272-279: a descriptor closed by its handler may be given to a new  *)
(* connection by the accept handler of the same pass; what select said of  *)
(* the old connection is never taken for readiness of the new one.         *)
FreshNotServed ==
  \A e \in DOMAIN events.data : pc = "scan" /\ IsSet(e) => e[1] \notin fresh

Gone == status \in {"down", "exited"}

(* ae.c:250-283: what a client has sent is read, whatever other clients    *)
(* do, and though a pass that sends replies to a client does not read from *)
(* it.                                                                     *)
EveryoneServed ==
  \A fd \in Fds :
    (conn[fd] # None /\ "data" \in conn[fd].inbox)
      ~> (conn[fd] = None \/ "data" \notin conn[fd].inbox \/ Gone)

(* ae.c:291-328: clients that keep select from sleeping cannot keep        *)
(* ServerCron from running.                                                *)
TimerFires == left <= 0 ~> left > 0 \/ Gone

(* ae.c:374: once the loop runs, SIGINT and SHUTDOWN end it, also when the *)
(* signal comes between the test of stop and select.                       *)
StopObeyed == (status = "running" /\ stop) ~> Gone

(* ae.c:165-168: "the function sleeps until some file event fires, or when *)
(* the next time event occurs": waiting for a time event does not end the  *)
(* server.                                                                 *)
SleepsUntilDue == status # "exited"
=============================================================================
