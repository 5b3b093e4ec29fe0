----------------------------- MODULE RubyClient -----------------------------
(* The Ruby client, src/clients/ruby/lib/cutis.rb: one Cutis object, the     *)
(* socket it opens lazily and opens again when a write fails, and the way    *)
(* each method reads its reply: a line (read_proto), a number of bytes       *)
(* (read), a line end (nibble_end).                                          *)
(*                                                                           *)
(* The server is what the client meets of it: a connection with a selected   *)
(* database, requests run in order, replies sent in order, connections       *)
(* closed when idle, a process that may die and be started again.  TCP is    *)
(* external: a write to a connection the server has closed is accepted, the  *)
(* reset it causes arrives later, and only then does a write fail.           *)
(*                                                                           *)
(* The methods are grouped by how they read:                                 *)
(*   status   []=, set_unless_exists, rename, rename!, delete, the pushes,   *)
(*            list_trim, move, save, bgsave: one line, +OK or CutisError;    *)
(*            []=, set_unless_exists and the pushes announce val.size, the   *)
(*            characters of the value and not its bytes: a "wide" call is    *)
(*            one of them whose value has at least three bytes more          *)
(*   line     incr, incrby, decr, randkey, key?, type?, list_length,         *)
(*            lastsave: one line, returned as it is                          *)
(*   get      []: a length, the bytes, the line end                          *)
(*   keys     keys: as get, of a reply that always is a string               *)
(*   pop      list_index, list_pop_head, list_pop_tail: as get, and an       *)
(*            error is read to its end                                       *)
(*   range    list_range: a count, then as many values                       *)
(*   select   select_db                                                      *)
(*   decrby   decrby, whose request has no line end                          *)
(*   quit, shutdown                                                          *)
EXTENDS Naturals, Sequences

CONSTANTS
    Dbs,          \* the database indices the application selects, 0 included
    Items,        \* bound: the elements of a list that is read
    MaxCalls,     \* bound: the calls the application makes
    MaxDeaths     \* bound: the times the server dies

ASSUME DbsAssumption == 0 \in Dbs
ASSUME BoundsAssumption == {Items, MaxCalls, MaxDeaths} \subseteq Nat

VARIABLES
    pc,        \* where the application is: no call, in write, in a read
    call,      \* the call under way, or the last one: [id, kind, db, wide]
    todo,      \* the reads the method still has to do
    sock,      \* @socket is set
    link,      \* the connection: see Links
    db,        \* the database selected in the server for this connection
    c2s,       \* requests the server has not run yet
    s2c,       \* parts of replies the client has not read yet
    up,        \* the server runs
    calls,     \* calls made
    deaths,    \* deaths of the server
    (* history *)
    ran,       \* the commands that were run: [id, db, wanted, unanswered]
    taken,     \* the ids of the requests whose replies the call has read
    last,      \* how the last call ended
    selected,  \* the database the application believes is selected
    unanswered,\* a call has ended since then without all of its reply
    skewed     \* a reply is, or will be, left behind on this connection

conn   == <<sock, link, db, c2s, s2c, skewed>>
hist   == <<ran, last, selected, unanswered>>
vars   == <<pc, call, todo, conn, up, calls, deaths, taken, hist>>

Kinds  == {"status", "line", "get", "keys", "pop", "range", "select", "decrby",
           "quit", "shutdown"}
Calls(ids) == [id : ids, kind : Kinds, db : Dbs, wide : BOOLEAN]
Ran        == [id : 1..MaxCalls, db : Dbs, wanted : Dbs, unanswered : BOOLEAN]

\* up: both ends open.  closed: the server has closed, the client would read
\* to the end.  poked: the client wrote since, a reset is on its way.
\* reset: it has arrived.  dead: the client has been told of it.
Links  == {"up", "closed", "poked", "reset", "dead"}

\* The parts a reply is made of; text is the explanation after a negative length.
Parts  == {"ok", "err", "num", "nil", "len", "neg", "text", "count", "bulk", "crlf"}
Reads  == {"first", "line", "bulk", "crlf"}

TypeOK ==
    /\ pc \in {"idle", "write", "read"}
    /\ call \in Calls(0..MaxCalls)
    /\ todo \in Seq(Reads)
    /\ sock \in BOOLEAN /\ link \in Links /\ db \in Dbs
    /\ c2s \in Seq(Calls(1..MaxCalls))
    /\ s2c \in Seq([id : 1..MaxCalls, part : Parts])
    /\ up \in BOOLEAN
    /\ calls \in 0..MaxCalls /\ deaths \in 0..MaxDeaths
    /\ taken \subseteq 1..MaxCalls
    /\ last \in {"none", "replied", "cut"}
    /\ selected \in Dbs /\ unanswered \in BOOLEAN /\ skewed \in BOOLEAN
    /\ ran \in Seq(Ran)

Init ==
    /\ pc = "idle" /\ todo = <<>>
    /\ call = [id |-> 0, kind |-> "quit", db |-> 0, wide |-> FALSE]
    /\ sock = FALSE /\ link = "dead" /\ db = 0 /\ c2s = <<>> /\ s2c = <<>>
    /\ up = TRUE /\ calls = 0 /\ deaths = 0
    /\ ran = <<>> /\ taken = {} /\ last = "none"
    /\ selected = 0 /\ unanswered = FALSE /\ skewed = FALSE

-----------------------------------------------------------------------------
(* The client *)

\* A method of the object is called: it formats the request and calls write.
\* Once the stream is out of step only these are called: the methods that read
\* more than a line would take the line they find for a length.
Begin(kind, d, wide) ==
    /\ pc = "idle" /\ calls < MaxCalls
    /\ skewed => kind \in {"status", "line", "select"}
    /\ calls' = calls + 1
    /\ call' = [id |-> calls + 1, kind |-> kind, db |-> d, wide |-> wide]
    /\ pc' = "write" /\ todo' = <<>> /\ taken' = {}
    /\ UNCHANGED <<conn, up, deaths, hist>>

\* The call is over without all of its reply.  The application may not learn it:
\* see EndOfStream.
Cut == pc' = "idle" /\ todo' = <<>> /\ last' = "cut" /\ unanswered' = TRUE

NewConnectionNoDb ==  \* mutant
    /\ sock' = TRUE /\ link' = "up" /\ db' = 0 - 1
    /\ c2s' = <<>> /\ s2c' = <<>> /\ skewed' = FALSE

\* connect: a new socket, whose connection the server accepts with database 0
\* selected.  @socket keeps the old one until the new one is there.
NewConnection ==
    /\ sock' = TRUE /\ link' = "up" /\ db' = 0
    /\ c2s' = <<>> /\ s2c' = <<>> /\ skewed' = FALSE

MustConnectEarly == ~sock \/ link # "up"  \* mutant

\* No socket yet, or the write failed and is rescued: connect, and write again.
\* The count of retries is set anew by each retry, so only connect ends them.
MustConnect == ~sock \/ link \in {"reset", "dead"}

Connect ==
    /\ pc = "write" /\ MustConnect /\ up
    /\ NewConnection
    /\ UNCHANGED <<pc, call, todo, up, calls, deaths, taken, hist>>

\* Nobody listens: the exception of connect leaves write and the method.
Refused ==
    /\ pc = "write" /\ MustConnect /\ ~up
    /\ Cut
    /\ UNCHANGED <<call, conn, up, calls, deaths, taken, ran, selected>>

\* The kernel takes the request; when the server has closed, nobody gets it.  A
\* wide one ends in bytes beyond the announced length: see Reply.
Write ==
    /\ pc = "write" /\ ~MustConnect
    /\ IF link = "up"
         THEN /\ c2s' = Append(c2s, call) /\ skewed' = (skewed \/ call.wide)
              /\ UNCHANGED link
         ELSE link' = "poked" /\ UNCHANGED <<c2s, skewed>>
    /\ pc' = "read" /\ todo' = <<"first">>
    /\ UNCHANGED <<call, sock, db, s2c, up, calls, deaths, taken, hist>>

\* What a method reads after the first line of its reply; a list of values is
\* read, and sent, as a line with the length of each, its bytes, its line end.
Value == <<"bulk", "crlf">>
Values(line) ==
    [i \in 1..3 * Items |-> IF i % 3 = 1 THEN line
                            ELSE IF i % 3 = 2 THEN "bulk" ELSE "crlf"]
ReadsAfterNoNibble(kind, part) ==  \* mutant
    CASE kind \in {"get", "keys", "pop"} /\ part = "len" -> <<"bulk">>
      [] kind = "pop" /\ part = "neg" -> <<"line">>
      [] kind = "range" /\ part = "neg" -> <<"line">>
      [] kind = "range" /\ part = "count" -> Values("line")
      [] OTHER -> <<>>
ReadsAfter(kind, part) ==
    CASE kind \in {"get", "keys", "pop"} /\ part = "len" -> Value
      [] kind = "pop" /\ part = "neg" -> <<"line">>
      [] kind = "range" /\ part = "neg" -> <<"line">>
      [] kind = "range" /\ part = "count" -> Values("line")
      [] OTHER -> <<>>

\* read and read_proto take what the read asks for, as soon as it is there.
\* select_db has returned true once it has read +OK, the one that answers it or
\* another.  The negative length that answers [] makes read raise, and the text
\* that follows it stays behind.  Of a connection out of step no call reads all
\* of its reply: a part of another comes before it, or of its own after it.
Read ==
    /\ pc = "read" /\ s2c # <<>>
    /\ LET part == Head(s2c).part
           more == IF Head(todo) = "first"
                     THEN ReadsAfter(call.kind, part) ELSE Tail(todo)
           negative == call.kind = "get" /\ part = "neg"
           chosen == call.kind = "select" /\ part = "ok"
       IN /\ s2c' = Tail(s2c)
          /\ taken' = taken \cup {Head(s2c).id}
          /\ skewed' = (skewed \/ negative)
          /\ IF more # <<>>
               THEN todo' = more /\ UNCHANGED <<pc, last, unanswered, selected>>
               ELSE /\ pc' = "idle" /\ todo' = <<>>
                    /\ last' = IF negative THEN "cut" ELSE "replied"
                    /\ selected' = IF chosen THEN call.db ELSE selected
                    /\ unanswered' = (skewed' \/ (unanswered /\ ~chosen))
    /\ UNCHANGED <<call, sock, link, db, c2s, up, calls, deaths, ran>>

EndOfStreamRetried ==  \* mutant
    /\ pc = "read" /\ s2c = <<>> /\ link \in {"closed", "poked", "dead"}
    /\ pc' = "write" /\ todo' = <<>> /\ link' = "dead"
    /\ UNCHANGED <<call, sock, db, c2s, s2c, skewed, up, calls, deaths, taken, hist>>

\* read returns nil at the end of the stream: read_proto stops with what it has
\* and the method does its other reads likewise.  Those that compare the line
\* with +OK raise, and so does what awaits the text of an error, and keys of a
\* value; the others return 0, "", nil, [] or false to the application, or the
\* values they have, as if the server had sent them.
EndOfStream ==
    /\ pc = "read" /\ s2c = <<>> /\ link \in {"closed", "poked", "dead"}
    /\ Cut
    /\ UNCHANGED <<call, conn, up, calls, deaths, taken, ran, selected>>

\* An error of read: its rescue names a variable that does not exist, so the
\* exception it raises ends the call and nothing is read again.
ReadFails ==
    /\ pc = "read" /\ s2c = <<>> /\ link = "reset"
    /\ Cut
    /\ link' = "dead"
    /\ UNCHANGED <<call, sock, db, c2s, s2c, skewed, up, calls, deaths, taken,
                   ran, selected>>

-----------------------------------------------------------------------------
(* TCP and the server, as the client meets them *)

\* The reset caused by a late write; it may discard what was not read yet.
ResetArrives ==
    /\ link = "poked"
    /\ link' = "reset" /\ s2c' \in {s2c, <<>>}
    /\ UNCHANGED <<pc, call, todo, sock, db, c2s, skewed, up, calls, deaths,
                   taken, hist>>

\* The server closes its end: with a reset when it leaves requests unread.
Close(unread) ==
    /\ link' = IF unread THEN "reset" ELSE "closed"
    /\ c2s' = <<>>

\* The replies to a request of each kind; a list or a number where a string is
\* asked for is answered by a negative length and a text; SHUTDOWN is answered
\* when the dump cannot be written.
Answers(kind) ==
    CASE kind \in {"status", "select"} -> {<<"ok">>, <<"err">>}
      [] kind = "shutdown" -> {<<"err">>}
      [] kind = "line" -> {<<"num">>, <<"err">>}
      [] kind = "keys" -> {<<"len", "bulk", "crlf">>}
      [] kind \in {"get", "pop"} -> {<<"nil">>, <<"len", "bulk", "crlf">>, <<"neg", "text">>}
      [] kind = "range" -> {<<"nil">>, <<"neg", "text">>, <<"count">> \o Values("len")}

\* The server takes of a value the bytes announced and two more; what is left of
\* a wide one is a line of its own, taken here for no command.
Reply(request, answer) == IF request.wide THEN answer \o <<"err">> ELSE answer

\* A request that has arrived whole is run and answered.  One without its line
\* end stays in the query buffer.
Execute ==
    /\ link = "up" /\ c2s # <<>> /\ Head(c2s).kind \notin {"decrby", "quit"}
    /\ LET r == Head(c2s) IN
       \E answer \in Answers(r.kind) :
         /\ LET reply == Reply(r, answer) IN
            s2c' = s2c \o [i \in 1..Len(reply) |-> [id |-> r.id, part |-> reply[i]]]
         /\ ran' = Append(ran, [id |-> r.id, db |-> db,
                                wanted |-> selected, unanswered |-> unanswered])
         /\ db' = IF r.kind = "select" /\ answer = <<"ok">> THEN r.db ELSE db
    /\ c2s' = Tail(c2s)
    /\ UNCHANGED <<pc, call, todo, sock, link, skewed, up, calls, deaths, taken,
                   last, selected, unanswered>>

\* QUIT frees the client; SHUTDOWN ends the server when the dump is written.
Leave ==
    /\ link = "up" /\ c2s # <<>> /\ Head(c2s).kind \in {"quit", "shutdown"}
    /\ Close(FALSE)
    /\ up' = (Head(c2s).kind = "quit")
    /\ UNCHANGED <<pc, call, todo, sock, db, s2c, skewed, calls, deaths, taken, hist>>

IdleCloseWhenEmpty ==  \* mutant
    /\ link = "up" /\ c2s = <<>>
    /\ Close(FALSE)
    /\ UNCHANGED <<pc, call, todo, sock, db, s2c, skewed, up, calls, deaths, taken, hist>>

\* CloseTimeoutClients: a connection on which nothing was received for long; an
\* unfinished request does not keep it open, and one that arrives just then is lost.
IdleClose ==
    /\ link = "up"
    /\ Close(c2s # <<>> /\ Head(c2s).kind # "decrby")
    /\ UNCHANGED <<pc, call, todo, sock, db, s2c, skewed, up, calls, deaths, taken, hist>>

\* The server dies: the end of what it had to send may be lost with it.
Die ==
    /\ up /\ deaths < MaxDeaths
    /\ up' = FALSE /\ deaths' = deaths + 1
    /\ IF link = "up"
         THEN /\ Close(c2s # <<>>)
              /\ s2c' \in {SubSeq(s2c, 1, n) : n \in 0..Len(s2c)}
         ELSE UNCHANGED <<link, c2s, s2c>>
    /\ UNCHANGED <<pc, call, todo, sock, db, skewed, calls, taken, hist>>

\* It is started again.
Restart ==
    /\ ~up /\ up' = TRUE
    /\ UNCHANGED <<pc, call, todo, conn, calls, deaths, taken, hist>>

-----------------------------------------------------------------------------
Client == Connect \/ Refused \/ Write \/ Read \/ EndOfStream \/ ReadFails

Next ==
    \/ \E kind \in Kinds, d \in Dbs, wide \in BOOLEAN :
         /\ d = 0 \/ kind = "select"
         /\ wide => kind = "status"
         /\ Begin(kind, d, wide)
    \/ Connect \/ Refused \/ Write \/ Read \/ EndOfStream \/ ReadFails
    \/ ResetArrives \/ Execute \/ Leave \/ IdleClose \/ Die \/ Restart

Spec == Init /\ [][Next]_vars

\* The application waits for its call; a server that runs serves what arrives
\* and closes what is idle, once a second.  It need not be started again.
FairSpec ==
    /\ Spec
    /\ WF_vars(Client)
    /\ WF_vars(Execute) /\ WF_vars(Leave) /\ WF_vars(IdleClose)

-----------------------------------------------------------------------------
(* Properties *)

\* However often write sends a request again, no command is run twice: a write
\* that failed was never received, and a failed read is not retried
\* (cutis.rb:341-361).
RunAtMostOnce ==
    \A i, j \in DOMAIN ran : ran[i].id = ran[j].id => i = j

\* A call that returns without meeting the end of the stream or an exception has
\* read its own reply and nothing else, to the last part, whatever the calls
\* before it met; unless a GET of a list left its text behind (cutis.rb:57-67),
\* or a value longer in bytes than in characters was sent on this connection,
\* whose end is answered too (cutis.rb:36,47,156,167).
RepliesPair ==
    (pc = "idle" /\ last = "replied" /\ ~skewed) =>
        taken = {call.id} /\ s2c = <<>>

\* A command is run in another database than the one selected only if, since
\* select_db, some call has ended without all of its reply: the retry of write
\* alone never moves the application to another database, a call is lost first
\* (cutis.rb:352-361).  That call may have returned 0, "" or [] as its result, so
\* an application that looks at results and exceptions may not have noticed.
OtherDbOnlyAfterLoss ==
    \A i \in DOMAIN ran : ran[i].db = ran[i].wanted \/ ran[i].unanswered

\* Every call returns, decrby too, although its request has no line end and
\* never runs: the server closes the idle connection (cutis.rb:88-91,
\* server.c:726-728).
EveryCallReturns == (pc # "idle") ~> (pc = "idle")

\* "use database 15 for testing so we don't accidentally step on your real
\* data" (cutis_test.rb:23): the commands after select_db run in the database
\* it selected.
RunsInSelectedDb == \A i \in DOMAIN ran : ran[i].db = ran[i].wanted
=============================================================================
