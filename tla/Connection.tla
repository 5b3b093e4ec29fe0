------------------------------ MODULE Connection ------------------------------
(***************************************************************************)
(* One connection of a client to cutis: the CutisClient of                 *)
(* src/src/server/client.c with its query buffer and its list of replies,  *)
(* ProcessCommand of src/src/commands/command.c, the part of               *)
(* AeProcessEvents (src/src/event/ae.c) that chooses which handler of the  *)
(* connection runs, and CloseTimeoutClients of src/src/server/server.c.    *)
(*                                                                         *)
(* TCP delivers what the client sends in pieces of any size, and takes     *)
(* what the server writes in pieces of any size.  The unit of both streams *)
(* is the smallest piece the code tells apart: a CR, a LF, or a text that  *)
(* has neither in it (a command line with its arguments, a piece of data). *)
(* Units also count as the bytes of the code's lengths and limits.         *)
(***************************************************************************)
EXTENDS Integers, SequencesExt

CONSTANTS
  CR, LF,
  Table,        \* the lines the command table accepts, see TableAssumption
  Requests,     \* what the client may send, see RequestAssumption
  Faults,       \* what the environment may do: a subset of AllFaults
  ReadLen,      \* CUTIS_QUERY_BUF_LEN
  LineLimit,    \* the longest unfinished line that is tolerated
  SocketBuffer, \* units the kernel keeps of what the client has not read
  MaxIdle,      \* server->max_idle_time
  MaxRequests   \* bound: requests and blank lines the client sends

AllFaults == {"close",    \* the client closes, perhaps in mid-request
              "reset",    \* the connection breaks
              "silence"}  \* time passes in which the connection is idle

(* A line is inline, quit, or bulk; then count units of data and a CR LF   *)
(* follow.  reply lists the lengths of the objects its reply is made of.   *)
(* A line that is not in the table is answered with one error object.      *)
ASSUME TableAssumption ==
  /\ <<>> \notin DOMAIN Table
  /\ \A line \in DOMAIN Table :
       /\ Table[line].kind \in {"inline", "bulk", "quit"}
       /\ Table[line].count \in Nat
       /\ Table[line].reply \in Seq(Nat) \ {<<>>}

Kind(line) == IF line \in DOMAIN Table THEN Table[line].kind ELSE "error"

(* Requests are in the form of the protocol: no CR or LF in the line, any  *)
(* data, and as much of it as is due.                                      *)
ASSUME RequestAssumption ==
  /\ CR # LF
  /\ \A r \in Requests :
       /\ r = [line |-> r.line, data |-> r.data]
       /\ r.line \in Seq(Range(r.line)) /\ {CR, LF} \cap Range(r.line) = {}
       /\ r.data \in Seq(Range(r.data))
       /\ Len(r.data) = IF Kind(r.line) = "bulk" THEN Table[r.line].count ELSE 0

ASSUME ConnectionBounds ==
  /\ Faults \subseteq AllFaults
  /\ ReadLen \in Nat \ {0}
  /\ LineLimit \in Nat \ {0}
  /\ SocketBuffer \in Nat \ {0}
  /\ MaxIdle \in Nat
  /\ MaxRequests \in Nat

VARIABLES
  open,       \* the CutisClient exists and AE_READABLE is registered for it
  query_buf,  \* c->query_buf
  argv,       \* c->argv: the line of the bulk command waiting for its data
  bulk_len,   \* c->bulk_len
  reply,      \* c->reply
  sent_len,   \* c->sent_len
  idle,       \* now - c->last_interaction, saturated above MaxIdle
  writable,   \* AE_WRITABLE is registered for the client
  handler,    \* where the event loop is in its work for this connection
  inbox,      \* units on their way to the server
  unread,     \* units the server wrote and the client has not read
  peer,       \* the client's end: "open", "closed" or "reset"
  sent,       \* history: the requests sent
  handled,    \* history: the requests answered
  written     \* history: all that was written to the socket

client == <<open, query_buf, argv, bulk_len, reply, sent_len, idle>>
socket == <<inbox, unread, peer>>
vars == <<client, writable, handler, socket, sent, handled, written>>

Handlers == {"select",  \* between two passes of the event loop
             "read",    \* in ReadQueryFromClient
             "parse",   \* in the loop of ParseQuery
             "send"}    \* in the loop of SendReplyToClient

Units == {CR, LF} \cup UNION {Range(r.line) \cup Range(r.data) : r \in Requests}

TypeOK ==
  /\ open \in BOOLEAN /\ writable \in BOOLEAN
  /\ query_buf \in Seq(Units) /\ inbox \in Seq(Units)
  /\ argv \in DOMAIN Table \cup {<<>>}
  /\ bulk_len \in Nat \cup {-1}
  /\ \A i \in DOMAIN reply : reply[i].len \in Nat
  /\ sent_len \in IF reply = <<>> THEN {0} ELSE 0 .. Head(reply).len
  /\ idle \in 0 .. MaxIdle + 1
  /\ handler \in Handlers
  /\ unread \in 0 .. SocketBuffer
  /\ peer \in {"open", "closed", "reset"}
  /\ sent \in Seq(Requests) /\ Len(sent) <= MaxRequests

(* CreateClient *)
Init ==
  /\ open = TRUE /\ writable = FALSE /\ handler = "select"
  /\ query_buf = <<>> /\ argv = <<>> /\ bulk_len = -1
  /\ reply = <<>> /\ sent_len = 0 /\ idle = 0
  /\ inbox = <<>> /\ unread = 0 /\ peer = "open"
  /\ sent = <<>> /\ handled = <<>> /\ written = <<>>

FreeClient ==
  /\ open' = FALSE /\ writable' = FALSE /\ handler' = "select"
  /\ query_buf' = <<>> /\ argv' = <<>> /\ bulk_len' = -1
  /\ reply' = <<>> /\ sent_len' = 0 /\ idle' = 0

From(s, i) == SubSeq(s, i, Len(s))

-----------------------------------------------------------------------------
(* The client, and the network between it and the server.                  *)

(* The protocol's form of a request. *)
Encode(r) ==
  r.line \o <<CR, LF>>
         \o IF Kind(r.line) = "bulk" THEN r.data \o <<CR, LF>> ELSE <<>>

ClientSends(r) ==
  /\ peer = "open" /\ Len(sent) < MaxRequests
  /\ inbox' = inbox \o Encode(r)
  /\ sent' = Append(sent, r)
  /\ UNCHANGED <<client, writable, handler, unread, peer, handled, written>>

ClientReads ==
  /\ \E n \in 1 .. unread : unread' = unread - n
  /\ UNCHANGED <<client, writable, handler, inbox, peer, sent, handled, written>>

(* What the client did not come to send is cut off. *)
ClientCloses ==
  /\ open /\ peer = "open" /\ "close" \in Faults
  /\ peer' = "closed"
  /\ \E n \in 0 .. Len(inbox) : inbox' = SubSeq(inbox, 1, n)
  /\ UNCHANGED <<client, writable, handler, unread, sent, handled, written>>

ConnectionBreaks ==
  /\ open /\ peer # "reset" /\ "reset" \in Faults
  /\ peer' = "reset" /\ inbox' = <<>> /\ unread' = 0
  /\ UNCHANGED <<client, writable, handler, sent, handled, written>>

Tick ==
  /\ open /\ "silence" \in Faults /\ idle <= MaxIdle
  /\ idle' = idle + 1
  /\ UNCHANGED <<open, query_buf, argv, bulk_len, reply, sent_len, writable,
                 handler, socket, sent, handled, written>>

-----------------------------------------------------------------------------
(* AeProcessEvents.  AE_WRITABLE is registered after AE_READABLE and so    *)
(* stands before it in the list; once its handler has run, the connection  *)
(* is taken out of both sets that select returned.                         *)
Select ==
  /\ open /\ handler = "select"
  /\ IF writable /\ (unread < SocketBuffer \/ peer = "reset")
     THEN handler' = "send"
     ELSE (inbox # <<>> \/ peer # "open") /\ handler' = "read"
  /\ UNCHANGED <<client, writable, socket, sent, handled, written>>

(* The timers run when all file events have been served. *)
CloseTimeoutClients ==
  /\ open /\ handler = "select" /\ idle > MaxIdle
  /\ FreeClient
  /\ UNCHANGED <<socket, sent, handled, written>>

-----------------------------------------------------------------------------
(* ReadQueryFromClient *)

Receive(n) ==
  /\ query_buf' = query_buf \o SubSeq(inbox, 1, n)
  /\ inbox' = From(inbox, n + 1)
  /\ idle' = 0
  /\ handler' = "parse"
  /\ UNCHANGED <<open, argv, bulk_len, reply, sent_len, writable, unread, peer>>

ReadQueryFromClient ==
  /\ handler = "read"
  /\ IF inbox # <<>>
     THEN \E n \in 1 .. IF Len(inbox) < ReadLen THEN Len(inbox) ELSE ReadLen :
            Receive(n)
     ELSE \* read returns 0, or -1 with an error
          FreeClient /\ UNCHANGED socket
  /\ UNCHANGED <<sent, handled, written>>

-----------------------------------------------------------------------------
(* ParseQuery: one action for each turn of its loop.                       *)

ContinueLater(rest) ==  \* mutant
  query_buf' = rest /\ handler' = "select"

ContinueEmpty(rest) ==  \* mutant
  query_buf' = <<>> /\ handler' = "select"

(* The query buffer that is left, and CUTIS_AGAIN while there is some.     *)
Continue(rest) ==
  /\ query_buf' = rest
  /\ handler' = IF rest # <<>> THEN "parse" ELSE "select"

Objects(k, lens) == [j \in DOMAIN lens |-> [req |-> k, part |-> j, len |-> lens[j]]]

AddReplyUnregistered(lens) ==  \* mutant
  /\ reply' = reply \o Objects(Len(handled) + 1, lens)
  /\ writable' = writable

(* Calls of AddReply; the first one on an empty list registers the event.  *)
AddReply(lens) ==
  /\ reply' = reply \o Objects(Len(handled) + 1, lens)
  /\ writable' = (writable \/ reply = <<>>)

ResetArgv == argv' = <<>> /\ UNCHANGED bulk_len  \* mutant

ResetClient == argv' = <<>> /\ bulk_len' = -1

ReplyTo(line) == IF Kind(line) = "error" THEN <<1>> ELSE Table[line].reply

(* The command runs, or is refused, and has its reply queued.              *)
Answer(line, data) ==
  /\ AddReply(ReplyTo(line))
  /\ ResetClient
  /\ handled' = Append(handled, [line |-> line, data |-> data])
  /\ UNCHANGED <<open, sent_len, idle>>

(* ProcessCommand for a line that has just been split; rest follows it in  *)
(* the query buffer.                                                       *)
ProcessCommand(line, rest) ==
  LET n == Table[line].count + 2 IN
  \/ Kind(line) = "quit" /\ FreeClient /\ UNCHANGED handled
  \/ Kind(line) \in {"error", "inline"} /\ Answer(line, <<>>) /\ Continue(rest)
  \/ /\ Kind(line) = "bulk" /\ Len(rest) >= n
     /\ Answer(line, SubSeq(rest, 1, n - 2))
     /\ Continue(From(rest, n + 1))
  \/ /\ Kind(line) = "bulk" /\ Len(rest) < n
     /\ argv' = line /\ bulk_len' = n
     /\ Continue(rest)
     /\ UNCHANGED <<open, reply, sent_len, idle, writable, handled>>

WithoutCR(s) == IF s # <<>> /\ Last(s) = CR THEN Front(s) ELSE s

(* An empty line leaves ParseQuery whatever is behind it.                  *)
EmptyQuery(rest) ==
  /\ query_buf' = rest /\ handler' = "select"
  /\ UNCHANGED <<open, argv, bulk_len, reply, sent_len, idle, writable, handled>>

ParseNonBulkQuery ==
  /\ handler = "parse" /\ bulk_len = -1
  /\ \/ \E e \in DOMAIN query_buf :
          /\ query_buf[e] = LF
          /\ \A i \in 1 .. e - 1 : query_buf[i] # LF
          /\ LET line == WithoutCR(SubSeq(query_buf, 1, e - 1))
                 rest == From(query_buf, e + 1)
             IN IF line = <<>> THEN EmptyQuery(rest)
                ELSE ProcessCommand(line, rest)
     \/ /\ LF \notin Range(query_buf)
        /\ IF Len(query_buf) >= LineLimit
           THEN FreeClient
           ELSE handler' = "select" /\ UNCHANGED <<client, writable>>
        /\ UNCHANGED handled
  /\ UNCHANGED <<socket, sent, written>>

ParseBulkQuery ==
  /\ handler = "parse" /\ bulk_len # -1
  /\ IF Len(query_buf) >= bulk_len
     THEN /\ Answer(argv, SubSeq(query_buf, 1, bulk_len - 2))
          /\ Continue(From(query_buf, bulk_len + 1))
     ELSE handler' = "select" /\ UNCHANGED <<client, writable, handled>>
  /\ UNCHANGED <<socket, sent, written>>

-----------------------------------------------------------------------------
(* SendReplyToClient: one action for each turn of its loop.                *)

Bytes(o) == [i \in 1 .. o.len |-> <<o.req, o.part, i>>]

DropEmptyObject ==
  /\ Head(reply).len = 0
  /\ reply' = Tail(reply)
  /\ UNCHANGED <<open, query_buf, argv, bulk_len, sent_len, idle, writable,
                 handler, socket, written>>

SentForgotten(o, n) ==  \* mutant
  IF n = o.len THEN reply' = Tail(reply) /\ sent_len' = 0
  ELSE UNCHANGED <<reply, sent_len>>

SentLenKept(o, n) ==  \* mutant
  sent_len' = n /\ reply' = IF n = o.len THEN Tail(reply) ELSE reply

(* write has taken the object up to its n-th unit. *)
Sent(o, n) ==
  IF n = o.len THEN reply' = Tail(reply) /\ sent_len' = 0
  ELSE reply' = reply /\ sent_len' = n

(* write takes some of the object, nothing (EAGAIN), or fails.             *)
WriteObject ==
  LET o == Head(reply) IN
  /\ o.len > 0
  /\ \/ \E n \in sent_len + 1 .. o.len :
          /\ peer # "reset"
          /\ unread + n - sent_len <= SocketBuffer
          /\ written' = written \o SubSeq(Bytes(o), sent_len + 1, n)
          /\ unread' = unread + n - sent_len
          /\ Sent(o, n)
          /\ idle' = 0
          /\ UNCHANGED <<open, query_buf, argv, bulk_len, writable, handler,
                         inbox, peer>>
     \/ /\ peer # "reset" /\ unread = SocketBuffer
        /\ handler' = "select"
        /\ UNCHANGED <<client, writable, socket, written>>
     \/ peer = "reset" /\ FreeClient /\ UNCHANGED <<socket, written>>

AllSentRegistered ==  \* mutant
  /\ reply = <<>>
  /\ sent_len' = 0 /\ handler' = "select"
  /\ UNCHANGED <<open, query_buf, argv, bulk_len, reply, idle, writable, socket,
                 written>>

AllSent ==
  /\ reply = <<>>
  /\ sent_len' = 0 /\ writable' = FALSE /\ handler' = "select"
  /\ UNCHANGED <<open, query_buf, argv, bulk_len, reply, idle, socket, written>>

SendReplyToClient ==
  /\ handler = "send"
  /\ \/ reply # <<>> /\ (DropEmptyObject \/ WriteObject)
     \/ AllSent
  /\ UNCHANGED <<sent, handled>>

-----------------------------------------------------------------------------
Server == \/ Select \/ ReadQueryFromClient
          \/ ParseNonBulkQuery \/ ParseBulkQuery \/ SendReplyToClient

Next ==
  \/ \E r \in Requests : ClientSends(r)
  \/ ClientReads \/ ClientCloses \/ ConnectionBreaks \/ Tick
  \/ Server \/ CloseTimeoutClients

Spec == Init /\ [][Next]_vars

(* The event loop never rests while a handler has work, and the client     *)
(* reads the replies.                                                      *)
FairSpec == Spec /\ WF_vars(Server) /\ WF_vars(ClientReads)

-----------------------------------------------------------------------------
(* Properties *)

(* What deserves an answer: the places in sent of all but the blank lines. *)
Asked == {i \in DOMAIN sent : sent[i].line # <<>>}

(* client.c:120-216, command.c:73-120: however the stream is cut into      *)
(* pieces, and whatever the data of bulk commands looks like, the requests *)
(* answered are those the client sent, in order, each once, and none that  *)
(* did not arrive whole: the k-th answered is the k-th that was asked.     *)
HandledAreSent ==
  \A k \in DOMAIN handled :
    \E i \in Asked : /\ handled[k] = sent[i]
                     /\ Cardinality({j \in Asked : j <= i}) = k

(* The units of the replies to the requests answered, and those of them    *)
(* that wait in the list.                                                  *)
Due == UNION {UNION {Range(Bytes(o)) : o \in Range(Objects(k, ReplyTo(handled[k].line)))}
              : k \in DOMAIN handled}

Waiting ==
  UNION {{Bytes(reply[q])[i] : i \in (IF q = 1 THEN sent_len ELSE 0) + 1 .. reply[q].len}
         : q \in DOMAIN reply}

Before(u, v) ==
  \/ u[1] < v[1]
  \/ u[1] = v[1] /\ u[2] < v[2]
  \/ u[1] = v[1] /\ u[2] = v[2] /\ u[3] < v[3]

(* client.c:99-111, 249-299: over partial writes, full sockets and empty   *)
(* objects, what was written is the replies to the requests answered, in   *)
(* order, up to some unit, with nothing twice and nothing missing, and     *)
(* what is queued is, in order, the rest of them.                          *)
RepliesExact ==
  /\ \A p, q \in DOMAIN written : p < q => Before(written[p], written[q])
  /\ Range(written) \subseteq Due
  /\ \A u \in Due : \A p \in DOMAIN written :
       Before(u, written[p]) => u \in Range(written)
  /\ open => /\ Waiting = Due \ Range(written)
             /\ \A p, q \in DOMAIN reply : p < q =>
                  Before(<<reply[p].req, reply[p].part, 0>>, <<reply[q].req, reply[q].part, 0>>)

(* client.c:99-104, 291-294: between two passes of the event loop the      *)
(* handler for AE_WRITABLE is registered exactly while replies are queued: *)
(* no reply waits for ever, and select does not return for nothing.        *)
WritableIffReplies == handler = "select" => (writable <=> reply # <<>>)

(* client.c:120-130, command.c:90-113: bulk_len tells in which state the   *)
(* parser is: only a bulk command has been kept, it waits for as much as   *)
(* it announced, and that has not arrived yet.                             *)
BulkPending ==
  handler \in {"select", "read"} =>
    IF bulk_len = -1 THEN argv = <<>>
    ELSE /\ Kind(argv) = "bulk" /\ bulk_len = Table[argv].count + 2
         /\ Len(query_buf) < bulk_len

(* The request that would be answered next stands behind a blank line, and *)
(* no other request between them.                                          *)
BehindBlankLine ==
  \E i \in DOMAIN sent \ Asked : Cardinality({j \in Asked : j <= i}) = Len(handled)

(* client.c:120-130, 180-184, README.md:541-544: pipelined requests need   *)
(* no further step of the client: once the socket has been read empty,     *)
(* every request that arrived has been answered, whichever read brought    *)
(* it.  Only right behind a blank line, where the parser stops, may        *)
(* requests be left in the buffer.                                         *)
NothingLeftBehind ==
  (open /\ handler = "select" /\ inbox = <<>> /\ peer = "open")
    => Len(handled) = Cardinality(Asked) \/ BehindBlankLine

(* README.md:541-544: all the replies can be read at the end, that is,     *)
(* every request of a client that stays and reads is answered, and its     *)
(* reply written to the last byte, or a blank line holds it up.            *)
Answered ==
  \A n \in 1 .. MaxRequests :
    Cardinality(Asked) = n
      ~> (Len(handled) >= n /\ reply = <<>>) \/ ~ open \/ BehindBlankLine
=============================================================================
