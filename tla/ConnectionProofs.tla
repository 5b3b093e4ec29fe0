--------------------------- MODULE ConnectionProofs ---------------------------
(***************************************************************************)
(* Theorems about one connection: the types of its state, in which states  *)
(* its handlers find it, and the replies that go out over it.              *)
(***************************************************************************)
EXTENDS Connection, SequenceTheorems, TLAPS

Parts == [req : Nat, part : Nat, len : Nat]
Places == Nat \X Nat \X Nat

ServerType ==
  /\ open \in BOOLEAN /\ writable \in BOOLEAN
  /\ query_buf \in Seq(Units) /\ inbox \in Seq(Units)
  /\ argv \in DOMAIN Table \cup {<<>>} /\ argv \in Seq(Units)
  /\ bulk_len \in Nat \cup {-1}
  /\ idle \in 0 .. MaxIdle + 1
  /\ handler \in Handlers
  /\ unread \in 0 .. SocketBuffer
  /\ peer \in {"open", "closed", "reset"}
  /\ sent \in Seq(Requests) /\ Len(sent) <= MaxRequests

ReplyType ==
  /\ reply \in Seq(Parts)
  /\ sent_len \in IF reply = <<>> THEN {0} ELSE 0 .. Head(reply).len
  /\ handled \in Seq([line : Seq(Units), data : Seq(Units)])
  /\ written \in Seq(Places)

TypeInv == ServerType /\ ReplyType

-----------------------------------------------------------------------------
(* The operators of the model                                              *)

LEMMA UnitTypes ==
  /\ CR \in Units /\ LF \in Units
  /\ \A r \in Requests : r.line \in Seq(Units) /\ r.data \in Seq(Units)
<1>1. ASSUME NEW r \in Requests PROVE r.line \in Seq(Units) /\ r.data \in Seq(Units)
  <2>1. Range(r.line) \subseteq Units /\ Range(r.data) \subseteq Units
    BY DEF Units
  <2>2. r.line \in Seq(Range(r.line)) /\ r.data \in Seq(Range(r.data))
    BY RequestAssumption
  <2> QED
    BY <2>1, <2>2, SeqMonotonic
<1> QED
  BY <1>1 DEF Units

LEMMA ReplyToType ==
  ASSUME NEW line PROVE ReplyTo(line) \in Seq(Nat) /\ ReplyTo(line) # <<>>
<1>1. CASE line \in DOMAIN Table
  BY <1>1, TableAssumption DEF ReplyTo, Kind
<1>2. CASE line \notin DOMAIN Table
  BY <1>2 DEF ReplyTo, Kind
<1> QED
  BY <1>1, <1>2

LEMMA ObjectsType ==
  ASSUME NEW k \in Nat, NEW lens \in Seq(Nat)
  PROVE  /\ Objects(k, lens) \in Seq(Parts) /\ Len(Objects(k, lens)) = Len(lens)
         /\ \A j \in 1 .. Len(lens) :
              Objects(k, lens)[j] = [req |-> k, part |-> j, len |-> lens[j]]
<1>1. Objects(k, lens) = [j \in 1 .. Len(lens) |-> [req |-> k, part |-> j, len |-> lens[j]]]
  BY DEF Objects
<1>2. \A j \in 1 .. Len(lens) : [req |-> k, part |-> j, len |-> lens[j]] \in Parts
  BY DEF Parts
<1>3. Len(lens) \in Nat
  OBVIOUS
<1> QED
  BY <1>1, <1>2, <1>3

LEMMA ObjectFields ==
  ASSUME NEW k \in Nat, NEW lens \in Seq(Nat), NEW j \in 1 .. Len(lens)
  PROVE  /\ Objects(k, lens)[j].req = k /\ Objects(k, lens)[j].part = j
         /\ Objects(k, lens)[j].len = lens[j]
<1>1. Objects(k, lens)[j] = [req |-> k, part |-> j, len |-> lens[j]]
  BY ObjectsType
<1> QED
  BY <1>1

LEMMA Joined ==
  ASSUME NEW S, NEW s \in Seq(S), NEW t \in Seq(S)
  PROVE  /\ s \o t \in Seq(S) /\ Len(s) \in Nat /\ Len(t) \in Nat
         /\ Len(s \o t) = Len(s) + Len(t)
         /\ \A q \in 1 .. Len(s) : (s \o t)[q] = s[q]
         /\ \A q \in 1 .. Len(s) + Len(t) : q > Len(s) => (s \o t)[q] = t[q - Len(s)]
         /\ \A j \in 1 .. Len(t) : (s \o t)[Len(s) + j] = t[j]
<1>1. /\ s \o t \in Seq(S) /\ Len(s) \in Nat /\ Len(t) \in Nat
      /\ Len(s \o t) = Len(s) + Len(t)
  BY ConcatProperties
<1>2. \A q \in 1 .. Len(s) + Len(t) : (s \o t)[q] = IF q <= Len(s) THEN s[q] ELSE t[q - Len(s)]
  BY ConcatProperties
<1>3. ASSUME NEW j \in 1 .. Len(t) PROVE (s \o t)[Len(s) + j] = t[j]
  <2>1. /\ Len(s) + j \in 1 .. Len(s) + Len(t) /\ ~ (Len(s) + j <= Len(s))
        /\ (Len(s) + j) - Len(s) = j
    BY <1>1
  <2> QED
    BY <1>2, <2>1
<1>4. \A q \in 1 .. Len(s) : q \in 1 .. Len(s) + Len(t) /\ q <= Len(s)
  BY <1>1
<1>5. \A q \in 1 .. Len(s) + Len(t) : q > Len(s) => ~ (q <= Len(s))
  BY <1>1
<1> QED
  BY <1>1, <1>2, <1>3, <1>4, <1>5

LEMMA BytesType ==
  ASSUME NEW o \in Parts
  PROVE  /\ Bytes(o) \in Seq(Places) /\ Len(Bytes(o)) = o.len
         /\ \A i \in 1 .. o.len : Bytes(o)[i] = <<o.req, o.part, i>>
BY DEF Bytes, Places, Parts

LEMMA FromType ==
  ASSUME NEW S, NEW s \in Seq(S), NEW i \in Nat \ {0}
  PROVE  /\ From(s, i) \in Seq(S)
         /\ i <= Len(s) + 1 => Len(From(s, i)) = Len(s) - i + 1
         /\ \A k \in 1 .. Len(s) - i + 1 : From(s, i)[k] = s[i + k - 1]
BY DEF From

LEMMA EncodeType ==
  ASSUME NEW r \in Requests
  PROVE  /\ Encode(r) \in Seq(Units)
         /\ Len(Encode(r)) = Len(r.line) + 2
                             + (IF Kind(r.line) = "bulk" THEN Len(r.data) + 2 ELSE 0)
<1>1. /\ r.line \in Seq(Units) /\ r.data \in Seq(Units)
      /\ <<CR, LF>> \in Seq(Units) /\ <<>> \in Seq(Units)
  BY UnitTypes
<1> DEFINE head == r.line \o <<CR, LF>>
           tail == IF Kind(r.line) = "bulk" THEN r.data \o <<CR, LF>> ELSE <<>>
<1>2. head \in Seq(Units) /\ Len(head) = Len(r.line) + 2
  BY <1>1
<1>3. tail \in Seq(Units)
      /\ Len(tail) = (IF Kind(r.line) = "bulk" THEN Len(r.data) + 2 ELSE 0)
  BY <1>1
<1>4. Encode(r) = head \o tail
  BY DEF Encode
<1> HIDE DEF head, tail
<1>5. head \o tail \in Seq(Units) /\ Len(head \o tail) = Len(head) + Len(tail)
  BY <1>2, <1>3, ConcatProperties
<1> QED
  BY <1>2, <1>3, <1>4, <1>5

-----------------------------------------------------------------------------
(* The types                                                               *)

LEMMA FreedType ==
  ASSUME TypeInv, FreeClient, UNCHANGED <<socket, sent, handled, written>>
  PROVE  TypeInv'
<1>0. <<>> \in Seq(Units) /\ <<>> \in Seq(Parts) /\ 0 \in 0 .. MaxIdle + 1
  BY ConnectionBounds
<1>1. ServerType'
  BY <1>0 DEF TypeInv, ServerType, FreeClient, socket, Handlers
<1>2. ReplyType'
  BY <1>0 DEF TypeInv, ReplyType, FreeClient
<1> QED
  BY <1>1, <1>2 DEF TypeInv

LEMMA AddedType ==
  ASSUME ReplyType, NEW line, AddReply(ReplyTo(line)), sent_len' = sent_len
  PROVE  /\ reply' \in Seq(Parts) /\ reply' # <<>>
         /\ sent_len' \in 0 .. Head(reply').len
         /\ reply # <<>> => Head(reply') = Head(reply)
<1> DEFINE new == Objects(Len(handled) + 1, ReplyTo(line))
<1>1. ReplyTo(line) \in Seq(Nat) /\ ReplyTo(line) # <<>>
  BY ReplyToType
<1>2. Len(handled) + 1 \in Nat
  BY DEF ReplyType
<1>3. new \in Seq(Parts) /\ new # <<>>
  BY <1>1, <1>2, ObjectsType
<1>4. reply \in Seq(Parts) /\ reply' = reply \o new
  BY DEF ReplyType, AddReply
<1> HIDE DEF new
<1>5. reply' \in Seq(Parts) /\ reply' # <<>>
  BY <1>3, <1>4, ConcatProperties
<1>6. reply # <<>> => Head(reply') = Head(reply)
  BY <1>3, <1>4, ConcatProperties
<1>7. reply = <<>> => sent_len = 0
  BY DEF ReplyType
<1>8. Head(reply').len \in Nat
  <2>1. Head(reply') \in Parts
    BY <1>5, HeadTailProperties
  <2> QED
    BY <2>1 DEF Parts
<1>9. reply # <<>> => sent_len \in 0 .. Head(reply).len
  BY DEF ReplyType
<1> QED
  BY <1>5, <1>6, <1>7, <1>8, <1>9

LEMMA AnsweredType ==
  ASSUME TypeInv, NEW line \in Seq(Units), NEW data \in Seq(Units), NEW rest \in Seq(Units),
         Answer(line, data), Continue(rest), UNCHANGED <<socket, sent, written>>
  PROVE  TypeInv'
<1>1. /\ reply' \in Seq(Parts) /\ reply' # <<>> /\ sent_len' \in 0 .. Head(reply').len
  BY AddedType DEF TypeInv, Answer
<1>2. ReplyType'
  BY <1>1 DEF TypeInv, ReplyType, Answer
<1>3. writable' \in BOOLEAN
  BY DEF Answer, AddReply
<1>4. ServerType'
  BY <1>3, EmptySeq DEF TypeInv, ServerType, Answer, Continue, ResetClient, Handlers, socket
<1> QED
  BY <1>2, <1>4 DEF TypeInv

LEMMA ProcessedType ==
  ASSUME TypeInv, NEW line \in Seq(Units), NEW rest \in Seq(Units),
         ProcessCommand(line, rest), UNCHANGED <<socket, sent, written>>
  PROVE  TypeInv'
<1> DEFINE n == Table[line].count + 2
<1>1. CASE Kind(line) = "quit" /\ FreeClient /\ UNCHANGED handled
  BY <1>1, FreedType
<1>2. CASE Answer(line, <<>>) /\ Continue(rest)
  BY <1>2, AnsweredType, EmptySeq
<1>3. CASE /\ Kind(line) = "bulk" /\ Len(rest) >= n
           /\ Answer(line, SubSeq(rest, 1, n - 2)) /\ Continue(From(rest, n + 1))
  <2>1. n - 2 \in Nat /\ n \in Nat
    BY <1>3, TableAssumption DEF Kind
  <2> HIDE DEF n
  <2>2. rest \in Seq(Units) /\ n - 2 \in 0 .. Len(rest) /\ n + 1 \in 1 .. Len(rest) + 1
    BY <1>3, <2>1
  <2>3. SubSeq(rest, 1, n - 2) \in Seq(Units) /\ From(rest, n + 1) \in Seq(Units)
    <3>1. SubSeq(rest, 1, n - 2) \in Seq(Units)
      BY ONLY <2>2
    <3> QED
      BY ONLY <2>2, <3>1, FromType
  <2> QED
    BY <1>3, <2>3, AnsweredType
<1>4. CASE /\ Kind(line) = "bulk"
           /\ argv' = line /\ bulk_len' = n /\ Continue(rest)
           /\ UNCHANGED <<open, reply, sent_len, idle, writable, handled>>
  <2>1. n \in Nat /\ line \in DOMAIN Table
    BY <1>4, TableAssumption DEF Kind
  <2>2. ServerType'
    BY <1>4, <2>1 DEF TypeInv, ServerType, Continue, Handlers, socket
  <2> QED
    BY <1>4, <2>2 DEF TypeInv, ReplyType
<1> QED
  BY <1>1, <1>2, <1>3, <1>4 DEF ProcessCommand

LEMMA LineType ==
  ASSUME NEW s \in Seq(Units), NEW e \in DOMAIN s
  PROVE  /\ WithoutCR(SubSeq(s, 1, e - 1)) \in Seq(Units) /\ From(s, e + 1) \in Seq(Units)
<1>1. SubSeq(s, 1, e - 1) \in Seq(Units)
  OBVIOUS
<1>2. \A t \in Seq(Units) : WithoutCR(t) \in Seq(Units)
  BY DEF WithoutCR, Front
<1>3. e + 1 \in Nat \ {0}
  OBVIOUS
<1>4. From(s, e + 1) \in Seq(Units)
  BY <1>3, FromType
<1> QED
  BY <1>1, <1>2, <1>4

LEMMA ParsedType ==
  ASSUME TypeInv, ParseNonBulkQuery \/ ParseBulkQuery PROVE TypeInv'
<1>1. query_buf \in Seq(Units)
  BY DEF TypeInv, ServerType
<1>2. CASE ParseNonBulkQuery
  <2>1. UNCHANGED <<socket, sent, written>>
    BY <1>2 DEF ParseNonBulkQuery
  <2>2. ASSUME NEW e \in DOMAIN query_buf,
               EmptyQuery(From(query_buf, e + 1))
        PROVE  TypeInv'
    <3>1. From(query_buf, e + 1) \in Seq(Units)
      BY <1>1, LineType
    <3> QED
      BY <2>1, <2>2, <3>1 DEF TypeInv, ServerType, ReplyType, EmptyQuery, Handlers, socket
  <2>3. ASSUME NEW e \in DOMAIN query_buf,
               ProcessCommand(WithoutCR(SubSeq(query_buf, 1, e - 1)), From(query_buf, e + 1))
        PROVE  TypeInv'
    BY <1>1, <2>1, <2>3, LineType, ProcessedType
  <2>4. CASE FreeClient /\ UNCHANGED handled
    BY <2>1, <2>4, FreedType
  <2>5. CASE handler' = "select" /\ UNCHANGED <<client, writable, handled>>
    BY <2>1, <2>5 DEF TypeInv, ServerType, ReplyType, client, socket, Handlers
  <2> QED
    BY <1>2, <2>2, <2>3, <2>4, <2>5 DEF ParseNonBulkQuery
<1>3. CASE ParseBulkQuery
  <2>1. UNCHANGED <<socket, sent, written>>
    BY <1>3 DEF ParseBulkQuery
  <2>2. CASE /\ Len(query_buf) >= bulk_len
             /\ Answer(argv, SubSeq(query_buf, 1, bulk_len - 2))
             /\ Continue(From(query_buf, bulk_len + 1))
    <3>1. bulk_len \in Nat /\ argv \in Seq(Units)
      BY <1>3 DEF ParseBulkQuery, TypeInv, ServerType
    <3>2. SubSeq(query_buf, 1, bulk_len - 2) \in Seq(Units)
      BY <1>1, <2>2, <3>1
    <3>3. From(query_buf, bulk_len + 1) \in Seq(Units)
      BY <1>1, <3>1, FromType
    <3> QED
      BY <2>1, <2>2, <3>1, <3>2, <3>3, AnsweredType
  <2>3. CASE handler' = "select" /\ UNCHANGED <<client, writable, handled>>
    BY <2>1, <2>3 DEF TypeInv, ServerType, ReplyType, client, socket, Handlers
  <2> QED
    BY <1>3, <2>2, <2>3 DEF ParseBulkQuery
<1> QED
  BY <1>2, <1>3

(* The first object of the list goes, or none does.                        *)
LEMMA DroppedType ==
  ASSUME ReplyType, reply # <<>>, reply' = Tail(reply), sent_len' = 0
  PROVE  /\ reply' \in Seq(Parts)
         /\ sent_len' \in IF reply' = <<>> THEN {0} ELSE 0 .. Head(reply').len
<1>1. reply' \in Seq(Parts)
  BY HeadTailProperties DEF ReplyType
<1>2. reply' # <<>> => Head(reply') \in Parts
  BY <1>1, HeadTailProperties
<1>3. reply' # <<>> => Head(reply').len \in Nat
  BY <1>2 DEF Parts
<1> QED
  BY <1>1, <1>3

LEMMA FirstObject ==
  ASSUME ReplyType, reply # <<>>
  PROVE  /\ Head(reply) \in Parts /\ Head(reply) = reply[1] /\ Head(reply).len \in Nat
         /\ sent_len \in 0 .. Head(reply).len
<1>1. reply \in Seq(Parts)
  BY DEF ReplyType
<1>2. Head(reply) \in Parts /\ Head(reply) = reply[1]
  BY <1>1, HeadTailProperties
<1> QED
  BY <1>2 DEF ReplyType, Parts

LEMMA SentType ==
  ASSUME TypeInv, SendReplyToClient PROVE TypeInv'
<1>0. UNCHANGED <<sent, handled>>
  BY DEF SendReplyToClient
<1>1. CASE reply # <<>> /\ DropEmptyObject
  <2>1. /\ reply' \in Seq(Parts)
        /\ sent_len' \in IF reply' = <<>> THEN {0} ELSE 0 .. Head(reply').len
    <3>1. sent_len = 0
      BY <1>1, FirstObject DEF DropEmptyObject, TypeInv
    <3> QED
      BY <1>1, <3>1, DroppedType DEF DropEmptyObject, TypeInv
  <2>2. ServerType'
    BY <1>0, <1>1 DEF DropEmptyObject, TypeInv, ServerType, socket
  <2> QED
    BY <1>0, <1>1, <2>1, <2>2 DEF DropEmptyObject, TypeInv, ReplyType
<1>2. CASE reply # <<>> /\ WriteObject
  <2> DEFINE o == Head(reply)
  <2>1. o \in Parts /\ o.len \in Nat /\ sent_len \in 0 .. o.len
    BY <1>2, FirstObject DEF TypeInv
  <2> HIDE DEF o
  <2>2. ASSUME NEW n \in sent_len + 1 .. o.len,
               /\ unread + n - sent_len <= SocketBuffer
               /\ written' = written \o SubSeq(Bytes(o), sent_len + 1, n)
               /\ unread' = unread + n - sent_len
               /\ Sent(o, n)
               /\ idle' = 0
               /\ UNCHANGED <<open, query_buf, argv, bulk_len, writable, handler, inbox, peer>>
        PROVE  TypeInv'
    <3>1. written' \in Seq(Places)
      <4>1. Bytes(o) \in Seq(Places) /\ Len(Bytes(o)) = o.len
        BY <2>1, BytesType
      <4>2. SubSeq(Bytes(o), sent_len + 1, n) \in Seq(Places)
        BY <2>1, <2>2, <4>1
      <4>3. written \in Seq(Places)
        BY DEF TypeInv, ReplyType
      <4> QED
        BY <2>2, <4>2, <4>3, ConcatProperties
    <3>2. /\ reply' \in Seq(Parts)
          /\ sent_len' \in IF reply' = <<>> THEN {0} ELSE 0 .. Head(reply').len
      <4>1. CASE n = o.len
        BY <1>2, <2>2, <4>1, DroppedType DEF Sent, TypeInv
      <4>2. CASE n # o.len
        <5>1. reply' = reply /\ sent_len' = n
          BY <2>2, <4>2 DEF Sent
        <5>2. n \in 0 .. o.len
          BY <2>1, <2>2
        <5> QED
          BY <1>2, <5>1, <5>2 DEF TypeInv, ReplyType, o
      <4> QED
        BY <4>1, <4>2
    <3>3. unread' \in 0 .. SocketBuffer /\ idle' \in 0 .. MaxIdle + 1
      BY SMTT(40), <2>1, <2>2, ConnectionBounds DEF TypeInv, ServerType
    <3>4. ServerType'
      BY <1>0, <2>2, <3>3 DEF TypeInv, ServerType
    <3> QED
      BY <1>0, <3>1, <3>2, <3>4 DEF TypeInv, ReplyType
  <2>3. CASE handler' = "select" /\ UNCHANGED <<client, writable, socket, written>>
    BY <1>0, <2>3 DEF TypeInv, ServerType, ReplyType, client, socket, Handlers
  <2>4. CASE FreeClient /\ UNCHANGED <<socket, written>>
    BY <1>0, <2>4, FreedType
  <2> QED
    BY <1>2, <2>2, <2>3, <2>4 DEF WriteObject, o
<1>3. CASE AllSent
  BY <1>0, <1>3 DEF AllSent, TypeInv, ServerType, ReplyType, socket, Handlers
<1> QED
  BY <1>1, <1>2, <1>3 DEF SendReplyToClient

LEMMA ReceivedType ==
  ASSUME TypeInv, ReadQueryFromClient PROVE TypeInv'
<1>0. UNCHANGED <<sent, handled, written>> /\ query_buf \in Seq(Units) /\ inbox \in Seq(Units)
  BY DEF ReadQueryFromClient, TypeInv, ServerType
<1>1. ASSUME NEW n \in 1 .. Len(inbox), Receive(n) PROVE TypeInv'
  <2>1. SubSeq(inbox, 1, n) \in Seq(Units) /\ n + 1 \in Nat \ {0}
    BY <1>0, <1>1
  <2>2. query_buf' \in Seq(Units) /\ inbox' \in Seq(Units)
    BY <1>0, <1>1, <2>1, ConcatProperties, FromType DEF Receive
  <2>3. 0 \in 0 .. MaxIdle + 1
    BY ConnectionBounds
  <2>4. ServerType'
    BY <1>0, <1>1, <2>2, <2>3 DEF Receive, TypeInv, ServerType, Handlers
  <2> QED
    BY <1>0, <1>1, <2>4 DEF Receive, TypeInv, ReplyType
<1>2. CASE FreeClient /\ UNCHANGED socket
  BY <1>0, <1>2, FreedType
<1>3. Len(inbox) \in Nat
  BY <1>0
<1>4. \A n \in 1 .. IF Len(inbox) < ReadLen THEN Len(inbox) ELSE ReadLen : n \in 1 .. Len(inbox)
  BY <1>3, ConnectionBounds
<1> QED
  BY <1>1, <1>2, <1>4 DEF ReadQueryFromClient

LEMMA ClientType ==
  ASSUME TypeInv,
         \/ \E r \in Requests : ClientSends(r)
         \/ ClientReads \/ ClientCloses \/ ConnectionBreaks \/ Tick \/ Select
  PROVE  TypeInv'
<1>0. inbox \in Seq(Units) /\ sent \in Seq(Requests)
  BY DEF TypeInv, ServerType
<1>1. ASSUME NEW r \in Requests, ClientSends(r) PROVE TypeInv'
  <2>1. inbox' \in Seq(Units)
    BY <1>0, <1>1, EncodeType, ConcatProperties DEF ClientSends
  <2>2. sent' \in Seq(Requests) /\ Len(sent') <= MaxRequests
    <3>1. sent' \in Seq(Requests) /\ Len(sent') = Len(sent) + 1 /\ Len(sent) \in Nat
      BY <1>0, <1>1 DEF ClientSends
    <3> QED
      BY <1>1, <3>1, ConnectionBounds DEF ClientSends
  <2>3. ServerType'
    BY <1>1, <2>1, <2>2 DEF ClientSends, TypeInv, ServerType, client
  <2> QED
    BY <1>1, <2>3 DEF ClientSends, TypeInv, ReplyType, client
<1>2. CASE ClientReads
  <2>1. unread' \in 0 .. SocketBuffer
    BY <1>2, ConnectionBounds DEF ClientReads, TypeInv, ServerType
  <2> QED
    BY <1>2, <2>1 DEF ClientReads, TypeInv, ServerType, ReplyType, client
<1>3. CASE ClientCloses
  <2>1. inbox' \in Seq(Units)
    BY <1>0, <1>3 DEF ClientCloses
  <2> QED
    BY <1>3, <2>1 DEF ClientCloses, TypeInv, ServerType, ReplyType, client
<1>4. CASE ConnectionBreaks
  <2>1. inbox' \in Seq(Units) /\ unread' \in 0 .. SocketBuffer
    BY <1>4, ConnectionBounds DEF ConnectionBreaks
  <2> QED
    BY <1>4, <2>1 DEF ConnectionBreaks, TypeInv, ServerType, ReplyType, client
<1>5. CASE Tick
  <2>1. idle' \in 0 .. MaxIdle + 1
    BY <1>5, ConnectionBounds DEF Tick, TypeInv, ServerType
  <2> QED
    BY <1>5, <2>1 DEF Tick, TypeInv, ServerType, ReplyType, socket
<1>6. CASE Select
  BY <1>6 DEF Select, TypeInv, ServerType, ReplyType, client, socket, Handlers
<1> QED
  BY <1>1, <1>2, <1>3, <1>4, <1>5, <1>6

LEMMA StepType ==
  ASSUME TypeInv, [Next]_vars PROVE TypeInv'
<1>1. CASE CloseTimeoutClients
  BY <1>1, FreedType DEF CloseTimeoutClients
<1>2. CASE UNCHANGED vars
  BY <1>2 DEF vars, client, socket, TypeInv, ServerType, ReplyType
<1> QED
  BY <1>1, <1>2, ClientType, ReceivedType, ParsedType, SentType DEF Next, Server

LEMMA InitType == Init => TypeInv
<1>1. <<>> \in Seq(Units) /\ <<>> \in Seq(Parts) /\ <<>> \in Seq(Places)
      /\ <<>> \in Seq(Requests) /\ <<>> \in Seq([line : Seq(Units), data : Seq(Units)])
      /\ Len(<<>>) = 0
  OBVIOUS
<1>2. /\ 0 \in 0 .. MaxIdle + 1 /\ 0 \in 0 .. SocketBuffer /\ 0 <= MaxRequests
  BY ConnectionBounds
<1>3. Init => ServerType
  BY <1>1, <1>2 DEF Init, ServerType, Handlers
<1>4. Init => ReplyType
  BY <1>1 DEF Init, ReplyType
<1> QED
  BY <1>3, <1>4 DEF TypeInv

LEMMA TypeAlways == Spec => []TypeInv
  BY InitType, StepType, PTL DEF Spec

(* The variables of the server, the socket and the client keep to their    *)
(* types, and the count of what is sent of an object stays within it       *)
(* (client.c:249-299), whatever the requests, limits and buffer sizes.     *)
THEOREM ConnectionTypeCorrect == Spec => []TypeOK
<1>1. TypeInv => TypeOK
  <2>1. ASSUME reply \in Seq(Parts), NEW i \in DOMAIN reply PROVE reply[i].len \in Nat
    <3>1. reply[i] \in Parts
      BY <2>1
    <3> QED
      BY <3>1 DEF Parts
  <2> QED
    BY <2>1 DEF TypeInv, ServerType, ReplyType, TypeOK
<1> QED
  BY <1>1, TypeAlways, PTL

-----------------------------------------------------------------------------
(* In which states the handlers of the connection run                      *)

(* SendReplyToClient takes the last object before it finds the list empty  *)
(* and unregisters itself, so while it runs only one direction holds.      *)
Registered ==
  /\ handler = "send" => writable
  /\ handler # "send" => (writable <=> reply # <<>>)
  /\ ~ open => handler = "select"

(* Outside of ParseQuery a bulk command waits for more than has arrived.   *)
Pending ==
  /\ IF bulk_len = -1 THEN argv = <<>>
     ELSE argv \in DOMAIN Table /\ Kind(argv) = "bulk" /\ bulk_len = Table[argv].count + 2
  /\ handler # "parse" /\ bulk_len # -1 => Len(query_buf) < bulk_len

LEMMA FreedHandlers ==
  ASSUME FreeClient PROVE Registered' /\ Pending'
BY DEF FreeClient, Registered, Pending

LEMMA AnsweredHandlers ==
  ASSUME TypeInv, Registered, handler = "parse", NEW line, NEW data, NEW rest,
         Answer(line, data), Continue(rest), UNCHANGED open
  PROVE  Registered' /\ Pending'
<1>1. reply' # <<>> /\ (writable' <=> writable \/ reply = <<>>)
  BY AddedType DEF TypeInv, Answer, AddReply
<1>2. writable' /\ handler' \in {"parse", "select"} /\ open
  BY <1>1 DEF Registered, Continue
<1>3. Registered'
  BY <1>1, <1>2 DEF Registered
<1> QED
  BY <1>3 DEF Answer, ResetClient, Pending

LEMMA ProcessedHandlers ==
  ASSUME TypeInv, Registered, handler = "parse", open, NEW line, NEW rest \in Seq(Units),
         ProcessCommand(line, rest)
  PROVE  Registered' /\ Pending'
<1> DEFINE n == Table[line].count + 2
<1>1. CASE FreeClient
  BY <1>1, FreedHandlers
<1>2. ASSUME NEW data, NEW left, Answer(line, data), Continue(left) PROVE Registered' /\ Pending'
  BY <1>2, AnsweredHandlers DEF Answer
<1>3. CASE /\ Kind(line) = "bulk" /\ argv' = line /\ bulk_len' = n /\ Continue(rest)
           /\ UNCHANGED <<open, reply, sent_len, idle, writable, handled>>
  <2>1. line \in DOMAIN Table /\ n \in Nat /\ n >= 2
    BY <1>3, TableAssumption DEF Kind
  <2>2. handler' # "parse" => Len(query_buf') < bulk_len'
    BY <1>3, <2>1 DEF Continue
  <2>3. Registered'
    BY <1>3 DEF Registered, Continue
  <2> QED
    BY <1>3, <2>1, <2>2, <2>3 DEF Pending
<1> QED
  BY <1>1, <1>2, <1>3 DEF ProcessCommand

LEMMA StepHandlers ==
  ASSUME TypeInv, Registered, Pending, [Next]_vars PROVE Registered' /\ Pending'
<1>0. handler = "parse" => open
  BY DEF Registered
<1>1. CASE \/ \E r \in Requests : ClientSends(r)
           \/ ClientReads \/ ClientCloses \/ ConnectionBreaks \/ UNCHANGED vars
  <2>1. UNCHANGED <<open, query_buf, argv, bulk_len, reply, writable, handler>>
    BY <1>1 DEF ClientSends, ClientReads, ClientCloses, ConnectionBreaks, vars, client
  <2> QED
    BY <2>1 DEF Registered, Pending
<1>2. CASE Tick
  BY <1>2 DEF Tick, Registered, Pending
<1>3. CASE Select
  BY <1>3 DEF Select, client, Registered, Pending
<1>4. CASE CloseTimeoutClients
  BY <1>4, FreedHandlers DEF CloseTimeoutClients
<1>5. CASE ReadQueryFromClient
  <2>1. ASSUME NEW n, Receive(n) PROVE Registered' /\ Pending'
    BY <1>5, <2>1 DEF ReadQueryFromClient, Receive, Registered, Pending
  <2> QED
    BY <1>5, <2>1, FreedHandlers DEF ReadQueryFromClient
<1>6. CASE ParseNonBulkQuery
  <2>1. ASSUME NEW rest, EmptyQuery(rest) PROVE Registered' /\ Pending'
    BY <1>6, <2>1 DEF ParseNonBulkQuery, EmptyQuery, Registered, Pending
  <2>2. ASSUME NEW e \in DOMAIN query_buf,
               ProcessCommand(WithoutCR(SubSeq(query_buf, 1, e - 1)), From(query_buf, e + 1))
        PROVE  Registered' /\ Pending'
    <3>1. From(query_buf, e + 1) \in Seq(Units)
      BY LineType DEF TypeInv, ServerType
    <3> QED
      BY <1>0, <1>6, <2>2, <3>1, ProcessedHandlers DEF ParseNonBulkQuery
  <2>3. CASE handler' = "select" /\ UNCHANGED <<client, writable>>
    BY <1>6, <2>3 DEF ParseNonBulkQuery, client, Registered, Pending
  <2> QED
    BY <1>6, <2>1, <2>2, <2>3, FreedHandlers DEF ParseNonBulkQuery
<1>7. CASE ParseBulkQuery
  <2>1. ASSUME NEW data, NEW left, Answer(argv, data), Continue(left) PROVE Registered' /\ Pending'
    BY <1>7, <2>1, AnsweredHandlers DEF ParseBulkQuery, Answer
  <2>2. CASE /\ ~ (Len(query_buf) >= bulk_len)
             /\ handler' = "select" /\ UNCHANGED <<client, writable, handled>>
    <3>1. Len(query_buf) < bulk_len
      BY <2>2 DEF TypeInv, ServerType
    <3> QED
      BY <1>7, <2>2, <3>1 DEF ParseBulkQuery, client, Registered, Pending
  <2> QED
    BY <1>7, <2>1, <2>2 DEF ParseBulkQuery
<1>8. CASE SendReplyToClient
  <2>1. CASE DropEmptyObject
    BY <1>8, <2>1 DEF SendReplyToClient, DropEmptyObject, Registered, Pending
  <2>2. CASE reply # <<>> /\ WriteObject
    <3>1. CASE FreeClient
      BY <3>1, FreedHandlers
    <3>2. CASE UNCHANGED <<open, query_buf, argv, bulk_len, writable, handler, inbox, peer>>
      BY <1>8, <3>2 DEF SendReplyToClient, Registered, Pending
    <3>3. CASE reply # <<>> /\ handler' = "select" /\ UNCHANGED <<client, writable, socket, written>>
      BY <1>8, <3>3 DEF SendReplyToClient, client, Registered, Pending
    <3> QED
      BY <2>2, <3>1, <3>2, <3>3 DEF WriteObject
  <2>3. CASE AllSent
    BY <1>8, <2>3 DEF SendReplyToClient, AllSent, Registered, Pending
  <2> QED
    BY <1>8, <2>1, <2>2, <2>3 DEF SendReplyToClient
<1> QED
  BY <1>1, <1>2, <1>3, <1>4, <1>5, <1>6, <1>7, <1>8 DEF Next, Server

LEMMA HandlersAlways == Spec => [](TypeInv /\ Registered /\ Pending)
<1>1. Init => Registered /\ Pending
  BY DEF Init, Registered, Pending
<1>2. TypeInv /\ Registered /\ Pending /\ [Next]_vars => Registered' /\ Pending'
  BY StepHandlers
<1> QED
  BY <1>1, <1>2, TypeAlways, PTL DEF Spec

(* Between two passes of the event loop AE_WRITABLE is registered exactly  *)
(* while replies are queued (client.c:99-104, 291-294).                    *)
THEOREM WritableExactly == Spec => []WritableIffReplies
<1>1. Registered => WritableIffReplies
  BY DEF Registered, WritableIffReplies
<1> QED
  BY <1>1, HandlersAlways, PTL

(* bulk_len tells the parser's state truly: it is set only for a bulk      *)
(* command that waits, for what it announced, and that has not arrived     *)
(* (client.c:120-130, command.c:90-113).                                   *)
THEOREM BulkLenHonest == Spec => []BulkPending
<1>1. Pending => BulkPending
  BY DEF Pending, BulkPending
<1> QED
  BY <1>1, HandlersAlways, PTL

-----------------------------------------------------------------------------
(* The replies                                                             *)

Answers == Seq([line : Seq(Units), data : Seq(Units)])

(* Unit u belongs to the reply to one of the requests answered, h.         *)
IsDue(h, u) ==
  \E k \in 1 .. Len(h) : \E j \in 1 .. Len(ReplyTo(h[k].line)) :
    \E i \in 1 .. ReplyTo(h[k].line)[j] : u = <<k, j, i>>

(* Unit u is in the list of objects r, of the first of which n are gone.   *)
IsWaiting(r, n, u) ==
  \E q \in 1 .. Len(r) : \E i \in (IF q = 1 THEN n ELSE 0) + 1 .. r[q].len :
    u = <<r[q].req, r[q].part, i>>

IsWritten(w, u) == \E p \in 1 .. Len(w) : w[p] = u

(* An object is all of a part of the reply to one of the requests.         *)
WholePart(h, o) ==
  /\ o.req \in 1 .. Len(h)
  /\ o.part \in 1 .. Len(ReplyTo(h[o.req].line))
  /\ o.len = ReplyTo(h[o.req].line)[o.part]

Follows(o, o2) == o.req < o2.req \/ (o.req = o2.req /\ o.part < o2.part)

WrittenInOrder ==
  /\ \A p, q \in 1 .. Len(written) : p < q => Before(written[p], written[q])
  /\ \A p \in 1 .. Len(written) : IsDue(handled, written[p])
  /\ \A u \in Places : \A p \in 1 .. Len(written) :
       IsDue(handled, u) /\ Before(u, written[p]) => IsWritten(written, u)

(* What waits comes after what was written, and together they are all.     *)
Queued ==
  /\ \A u \in Places :
       IsDue(handled, u) <=> IsWritten(written, u) \/ IsWaiting(reply, sent_len, u)
  /\ \A u \in Places : \A p \in 1 .. Len(written) :
       IsWaiting(reply, sent_len, u) => Before(written[p], u)
  /\ \A q \in 1 .. Len(reply) : WholePart(handled, reply[q])
  /\ \A p, q \in 1 .. Len(reply) : p < q => Follows(reply[p], reply[q])

Replies == WrittenInOrder /\ (open => Queued)

(* The sets of the property, unit by unit.                                 *)
LEMMA DueUnits ==
  ASSUME TypeInv, NEW u PROVE u \in Due <=> IsDue(handled, u)
<1>1. ASSUME NEW k \in 1 .. Len(handled)
      PROVE  u \in UNION {Range(Bytes(o)) : o \in Range(Objects(k, ReplyTo(handled[k].line)))}
               <=> \E j \in 1 .. Len(ReplyTo(handled[k].line)) :
                     \E i \in 1 .. ReplyTo(handled[k].line)[j] : u = <<k, j, i>>
  <2> DEFINE lens == ReplyTo(handled[k].line)
             os == Objects(k, lens)
  <2>1. lens \in Seq(Nat)
    BY ReplyToType
  <2>2. /\ os \in Seq(Parts) /\ Len(os) = Len(lens)
        /\ \A j \in 1 .. Len(lens) : os[j] = [req |-> k, part |-> j, len |-> lens[j]]
    <3>1. k \in Nat
      BY DEF TypeInv, ReplyType
    <3> QED
      BY <2>1, <3>1, ObjectsType
  <2> HIDE DEF os, lens
  <2>3. Range(os) = {os[j] : j \in 1 .. Len(lens)}
    BY <2>2, RangeEquality
  <2>4. ASSUME NEW j \in 1 .. Len(lens)
        PROVE  Range(Bytes(os[j])) = {<<k, j, i>> : i \in 1 .. lens[j]}
    <3>0. os[j] \in Parts
      BY <2>2, ElementOfSeq
    <3>1. os[j] \in Parts /\ os[j].len = lens[j] /\ os[j].req = k /\ os[j].part = j
      <4>1. os[j] = [req |-> k, part |-> j, len |-> lens[j]]
        BY <2>2
      <4> QED
        BY <3>0, <4>1
    <3>2. Range(Bytes(os[j])) = {Bytes(os[j])[i] : i \in 1 .. lens[j]}
      BY <3>1, BytesType, RangeEquality
    <3>3. \A i \in 1 .. lens[j] : Bytes(os[j])[i] = <<k, j, i>>
      BY <3>1, BytesType
    <3> QED
      BY <3>2, <3>3
  <2>5. u \in UNION {Range(Bytes(o)) : o \in Range(os)}
          <=> \E j \in 1 .. Len(lens) : u \in Range(Bytes(os[j]))
    BY <2>3
  <2> QED
    BY <2>4, <2>5 DEF os, lens
<1>2. DOMAIN handled = 1 .. Len(handled)
  BY DEF TypeInv, ReplyType
<1> QED
  BY <1>1, <1>2 DEF Due, IsDue

LEMMA WaitingUnits ==
  ASSUME TypeInv, NEW u PROVE u \in Waiting <=> IsWaiting(reply, sent_len, u)
<1>1. reply \in Seq(Parts) /\ DOMAIN reply = 1 .. Len(reply)
  BY DEF TypeInv, ReplyType
<1>2. sent_len \in Nat
  <2>1. reply # <<>> => sent_len \in Nat
    BY FirstObject DEF TypeInv
  <2> QED
    BY <2>1 DEF TypeInv, ReplyType
<1>3. ASSUME NEW q \in 1 .. Len(reply), NEW i \in (IF q = 1 THEN sent_len ELSE 0) + 1 .. reply[q].len
      PROVE  Bytes(reply[q])[i] = <<reply[q].req, reply[q].part, i>>
  <2>0. reply[q] \in Parts
    BY <1>1
  <2>1. reply[q] \in Parts /\ reply[q].len \in Nat
    BY <2>0 DEF Parts
  <2>2. i \in 1 .. reply[q].len
    BY <1>2, <1>3, <2>1
  <2> QED
    BY <2>1, <2>2, BytesType
<1>4. u \in Waiting <=>
        \E q \in 1 .. Len(reply) : \E i \in (IF q = 1 THEN sent_len ELSE 0) + 1 .. reply[q].len :
          u = Bytes(reply[q])[i]
  BY <1>1 DEF Waiting
<1> DEFINE rest(q) == (IF q = 1 THEN sent_len ELSE 0) + 1 .. reply[q].len
<1>5. \A q \in 1 .. Len(reply) : \A i \in rest(q) :
        Bytes(reply[q])[i] = <<reply[q].req, reply[q].part, i>>
  BY <1>3
<1>6. u \in Waiting <=>
        \E q \in 1 .. Len(reply) : \E i \in rest(q) : u = Bytes(reply[q])[i]
  BY <1>4
<1>7. IsWaiting(reply, sent_len, u) <=>
        \E q \in 1 .. Len(reply) : \E i \in rest(q) : u = <<reply[q].req, reply[q].part, i>>
  BY DEF IsWaiting
<1> HIDE DEF rest
<1> QED
  BY ZenonT(60), <1>5, <1>6, <1>7

LEMMA RepliesAreExact ==
  ASSUME TypeInv, Replies PROVE RepliesExact
<1>1. /\ DOMAIN written = 1 .. Len(written) /\ DOMAIN reply = 1 .. Len(reply)
      /\ written \in Seq(Places) /\ reply \in Seq(Parts)
  BY DEF TypeInv, ReplyType
<1>2. \A u : u \in Range(written) <=> IsWritten(written, u)
  BY <1>1 DEF Range, IsWritten
<1>3. \A u : u \in Due => u \in Places
  <2>1. \A u : IsDue(handled, u) => u \in Places
    <3>1. \A k \in 1 .. Len(handled) : \A j \in 1 .. Len(ReplyTo(handled[k].line)) :
            ReplyTo(handled[k].line)[j] \in Nat
      BY ReplyToType
    <3> QED
      BY <3>1 DEF IsDue, Places
  <2> QED
    BY <2>1, DueUnits
<1>4. \A u \in Range(written) : u \in Due
  BY <1>1, <1>2, DueUnits DEF Replies, WrittenInOrder, IsWritten
<1>5. \A u \in Due : \A p \in DOMAIN written : Before(u, written[p]) => u \in Range(written)
  BY <1>1, <1>2, <1>3, DueUnits DEF Replies, WrittenInOrder
<1>6. ASSUME open PROVE Waiting = Due \ Range(written)
  <2>1. ASSUME NEW u \in Waiting PROVE u \in Due /\ u \notin Range(written)
    <3>1. IsWaiting(reply, sent_len, u) /\ u \in Places
      <4>1. IsWaiting(reply, sent_len, u)
        BY <2>1, WaitingUnits
      <4>2. PICK q \in 1 .. Len(reply) :
              \E i \in (IF q = 1 THEN sent_len ELSE 0) + 1 .. reply[q].len :
                u = <<reply[q].req, reply[q].part, i>>
        BY <4>1 DEF IsWaiting
      <4>3. reply[q] \in Parts
        BY <1>1
      <4>4. sent_len \in Nat
        <5>1. reply # <<>> => sent_len \in Nat
          BY FirstObject DEF TypeInv
        <5> QED
          BY <5>1 DEF TypeInv, ReplyType
      <4>5. u \in Places
        BY <4>2, <4>3, <4>4 DEF Parts, Places
      <4> QED
        BY <4>1, <4>5
    <3>2. IsDue(handled, u) /\ \A p \in 1 .. Len(written) : Before(written[p], u)
      BY <1>6, <3>1 DEF Replies, Queued
    <3>3. ~ Before(u, u)
      BY <3>1 DEF Before, Places
    <3> QED
      BY <1>2, <3>2, <3>3, DueUnits DEF IsWritten
  <2>2. ASSUME NEW u \in Due, u \notin Range(written) PROVE u \in Waiting
    BY <1>2, <1>3, <1>6, <2>2, DueUnits, WaitingUnits DEF Replies, Queued
  <2> QED
    BY <2>1, <2>2
<1>7. ASSUME open, NEW p \in DOMAIN reply, NEW q \in DOMAIN reply, p < q
      PROVE  Before(<<reply[p].req, reply[p].part, 0>>, <<reply[q].req, reply[q].part, 0>>)
  BY <1>1, <1>7 DEF Replies, Queued, Follows, Before
<1>8. \A p, q \in DOMAIN written : p < q => Before(written[p], written[q])
  BY <1>1 DEF Replies, WrittenInOrder
<1> QED
  BY <1>4, <1>5, <1>6, <1>7, <1>8 DEF RepliesExact

LEMMA SameReplies ==
  ASSUME Replies, UNCHANGED <<reply, sent_len, handled, written>>, open' => open
  PROVE  Replies'
BY DEF Replies, WrittenInOrder, Queued

LEMMA FreedReplies ==
  ASSUME Replies, ~ open', UNCHANGED <<handled, written>> PROVE Replies'
BY DEF Replies, WrittenInOrder

(* What one more answered request adds to what is due.                     *)
LEMMA DueAppended ==
  ASSUME NEW h \in Answers, NEW line \in Seq(Units), NEW data \in Seq(Units), NEW u
  PROVE  IsDue(Append(h, [line |-> line, data |-> data]), u) <=>
           \/ IsDue(h, u)
           \/ \E j \in 1 .. Len(ReplyTo(line)) : \E i \in 1 .. ReplyTo(line)[j] :
                u = <<Len(h) + 1, j, i>>
<1> DEFINE g == Append(h, [line |-> line, data |-> data])
<1>1. Len(g) = Len(h) + 1 /\ Len(h) \in Nat
  BY DEF Answers
<1>2. \A k \in 1 .. Len(h) : g[k] = h[k]
  BY DEF Answers
<1>3. g[Len(h) + 1].line = line
  BY DEF Answers
<1> HIDE DEF g
<1>4. \A k : k \in 1 .. Len(g) <=> k \in 1 .. Len(h) \/ k = Len(h) + 1
  BY <1>1
<1>5. IsDue(g, u) <=>
        \/ \E k \in 1 .. Len(h) : \E j \in 1 .. Len(ReplyTo(g[k].line)) :
             \E i \in 1 .. ReplyTo(g[k].line)[j] : u = <<k, j, i>>
        \/ \E j \in 1 .. Len(ReplyTo(g[Len(h) + 1].line)) :
             \E i \in 1 .. ReplyTo(g[Len(h) + 1].line)[j] : u = <<Len(h) + 1, j, i>>
  BY <1>4 DEF IsDue
<1> QED
  BY <1>2, <1>3, <1>5 DEF IsDue, g

(* What the objects of a reply add to what waits.                          *)
LEMMA WaitingAppended ==
  ASSUME NEW r \in Seq(Parts), NEW n \in Nat, NEW k \in Nat, NEW lens \in Seq(Nat), NEW u,
         r = <<>> => n = 0
  PROVE  IsWaiting(r \o Objects(k, lens), n, u) <=>
           \/ IsWaiting(r, n, u)
           \/ \E j \in 1 .. Len(lens) : \E i \in 1 .. lens[j] : u = <<k, j, i>>
<1> DEFINE os == Objects(k, lens)
           a == r \o os
           first(q) == IF q = 1 THEN n ELSE 0
<1>1. /\ os \in Seq(Parts) /\ Len(os) = Len(lens) /\ Len(r) \in Nat /\ Len(lens) \in Nat
      /\ \A j \in 1 .. Len(lens) : os[j] = [req |-> k, part |-> j, len |-> lens[j]]
  BY ObjectsType
<1> HIDE DEF os
<1>2. /\ Len(a) = Len(r) + Len(lens)
      /\ \A q \in 1 .. Len(r) : a[q] = r[q]
      /\ \A j \in 1 .. Len(lens) : a[Len(r) + j] = os[j]
  <2>1. os \in Seq(Parts)
    BY <1>1
  <2>2. /\ r \o os \in Seq(Parts) /\ Len(r) \in Nat /\ Len(os) \in Nat
        /\ Len(r \o os) = Len(r) + Len(os)
        /\ \A q \in 1 .. Len(r) : (r \o os)[q] = r[q]
        /\ \A q \in 1 .. Len(r) + Len(os) : q > Len(r) => (r \o os)[q] = os[q - Len(r)]
        /\ \A j \in 1 .. Len(os) : (r \o os)[Len(r) + j] = os[j]
    BY <2>1, Joined
  <2> QED
    BY <1>1, <2>2
<1> HIDE DEF a
<1>3. \A q : q \in 1 .. Len(a) <=>
               q \in 1 .. Len(r) \/ \E j \in 1 .. Len(lens) : q = Len(r) + j
  <2>1. ASSUME NEW q \in 1 .. Len(a), q \notin 1 .. Len(r)
        PROVE  \E j \in 1 .. Len(lens) : q = Len(r) + j
    <3>1. q - Len(r) \in 1 .. Len(lens) /\ q = Len(r) + (q - Len(r))
      BY <1>1, <1>2, <2>1
    <3> QED
      BY <3>1
  <2> QED
    BY <1>1, <1>2, <2>1
<1>4. \A j \in 1 .. Len(lens) : first(Len(r) + j) + 1 = 1
  BY <1>1
<1>5. \A j \in 1 .. Len(lens) :
        a[Len(r) + j].req = k /\ a[Len(r) + j].part = j /\ a[Len(r) + j].len = lens[j]
  <2>1. \A j \in 1 .. Len(lens) : os[j].req = k /\ os[j].part = j /\ os[j].len = lens[j]
    BY ObjectFields DEF os
  <2>2. ASSUME NEW j \in 1 .. Len(lens)
        PROVE  /\ a[Len(r) + j].req = k /\ a[Len(r) + j].part = j
               /\ a[Len(r) + j].len = lens[j]
    <3>1. a[Len(r) + j] = os[j]
      BY <1>2
    <3>2. os[j].req = k /\ os[j].part = j /\ os[j].len = lens[j]
      BY <2>1
    <3> QED
      BY ONLY <3>1, <3>2
  <2> QED
    BY <2>2
<1> HIDE DEF first
<1>6. IsWaiting(a, n, u) <=>
        \/ \E q \in 1 .. Len(r) : \E i \in first(q) + 1 .. a[q].len :
             u = <<a[q].req, a[q].part, i>>
        \/ \E j \in 1 .. Len(lens) : \E i \in first(Len(r) + j) + 1 .. a[Len(r) + j].len :
             u = <<a[Len(r) + j].req, a[Len(r) + j].part, i>>
  BY <1>3 DEF IsWaiting, first
<1>7. IsWaiting(r, n, u) <=>
        \E q \in 1 .. Len(r) : \E i \in first(q) + 1 .. a[q].len :
          u = <<a[q].req, a[q].part, i>>
  BY <1>2 DEF IsWaiting, first
<1>8. (\E j \in 1 .. Len(lens) : \E i \in first(Len(r) + j) + 1 .. a[Len(r) + j].len :
         u = <<a[Len(r) + j].req, a[Len(r) + j].part, i>>)
        <=> \E j \in 1 .. Len(lens) : \E i \in 1 .. lens[j] : u = <<k, j, i>>
  <2>1. \A j \in 1 .. Len(lens) : first(Len(r) + j) + 1 .. a[Len(r) + j].len = 1 .. lens[j]
    BY <1>4, <1>5
  <2>2. ASSUME NEW j \in 1 .. Len(lens)
        PROVE  (\E i \in first(Len(r) + j) + 1 .. a[Len(r) + j].len :
                  u = <<a[Len(r) + j].req, a[Len(r) + j].part, i>>)
                 <=> \E i \in 1 .. lens[j] : u = <<k, j, i>>
    BY <1>5, <2>1
  <2> QED
    BY <2>2
<1> QED
  BY <1>6, <1>7, <1>8 DEF a, os

LEMMA SentLen ==
  ASSUME TypeInv PROVE sent_len \in Nat /\ (reply = <<>> => sent_len = 0)
<1>1. reply # <<>> => sent_len \in Nat
  BY FirstObject DEF TypeInv
<1> QED
  BY <1>1 DEF TypeInv, ReplyType

LEMMA AnsweredReplies ==
  ASSUME TypeInv, Replies, open, NEW line \in Seq(Units), NEW data \in Seq(Units),
         Answer(line, data), written' = written
  PROVE  Replies'
<1> DEFINE K == Len(handled)
           lens == ReplyTo(line)
           IsNew(u) == \E j \in 1 .. Len(lens) : \E i \in 1 .. lens[j] : u = <<K + 1, j, i>>
<1>0. /\ K \in Nat /\ lens \in Seq(Nat) /\ handled \in Answers /\ reply \in Seq(Parts)
      /\ written \in Seq(Places)
  BY ReplyToType DEF TypeInv, ReplyType, Answers
<1>1. /\ handled' = Append(handled, [line |-> line, data |-> data]) /\ sent_len' = sent_len
      /\ reply' = reply \o Objects(K + 1, lens)
  BY DEF Answer, AddReply
<1>2. \A u : IsDue(handled', u) <=> IsDue(handled, u) \/ IsNew(u)
  BY <1>0, <1>1, DueAppended
<1>3. \A u : IsWaiting(reply', sent_len', u) <=> IsWaiting(reply, sent_len, u) \/ IsNew(u)
  BY SMTT(40), <1>0, <1>1, SentLen, WaitingAppended
<1>4. \A u : IsNew(u) => u[1] = K + 1
  OBVIOUS
<1>5. \A u : IsDue(handled, u) => u[1] \in 1 .. K
  BY DEF IsDue
<1> HIDE DEF IsNew
<1>6. \A p \in 1 .. Len(written) : written[p][1] \in 1 .. K
  BY <1>5 DEF Replies, WrittenInOrder
<1>7. \A p \in 1 .. Len(written) : \A u : IsNew(u) => Before(written[p], u) /\ ~ Before(u, written[p])
  BY <1>0, <1>4, <1>6 DEF Before
<1>8. WrittenInOrder'
  BY <1>2, <1>7 DEF Replies, WrittenInOrder
<1> DEFINE os == Objects(K + 1, lens)
<1>10. /\ os \in Seq(Parts) /\ Len(os) = Len(lens) /\ Len(lens) \in Nat
       /\ \A j \in 1 .. Len(lens) : os[j].req = K + 1 /\ os[j].part = j /\ os[j].len = lens[j]
  <2>1. K + 1 \in Nat
    BY <1>0
  <2>2. \A j \in 1 .. Len(lens) : os[j].req = K + 1 /\ os[j].part = j /\ os[j].len = lens[j]
    BY <1>0, <2>1, ObjectFields
  <2>3. os \in Seq(Parts) /\ Len(os) = Len(lens)
    BY <1>0, <2>1, ObjectsType
  <2> HIDE DEF os
  <2> QED
    BY <1>0, <2>2, <2>3
<1> HIDE DEF os
<1>11. /\ Len(reply') = Len(reply) + Len(lens) /\ Len(reply) \in Nat
       /\ \A q \in 1 .. Len(reply') :
            reply'[q] = IF q <= Len(reply) THEN reply[q] ELSE os[q - Len(reply)]
  <2>1. reply' = reply \o os
    BY <1>1 DEF os
  <2> QED
    BY <1>0, <1>10, <2>1, Joined
<1>9. Queued'
  <2>1. \A u \in Places :
          IsDue(handled', u) <=> IsWritten(written', u) \/ IsWaiting(reply', sent_len', u)
    BY <1>2, <1>3 DEF Replies, Queued
  <2>2. \A u \in Places : \A p \in 1 .. Len(written') :
          IsWaiting(reply', sent_len', u) => Before(written'[p], u)
    BY <1>3, <1>7 DEF Replies, Queued
  <2>3. ASSUME NEW q \in 1 .. Len(reply') PROVE WholePart(handled', reply'[q])
    <3>1. CASE q \in 1 .. Len(reply)
      <4>1. reply'[q] = reply[q] /\ WholePart(handled, reply[q])
        BY <1>0, <1>11, <2>3, <3>1 DEF Replies, Queued
      <4>2. reply[q].req \in 1 .. Len(handled)
        BY <4>1 DEF WholePart
      <4>3. /\ handled'[reply[q].req] = handled[reply[q].req]
            /\ reply[q].req \in 1 .. Len(handled')
        BY <1>0, <1>1, <4>2 DEF Answers
      <4> QED
        BY <4>1, <4>3 DEF WholePart
    <3>2. CASE q \notin 1 .. Len(reply)
      <4> DEFINE j == q - Len(reply)
      <4>1. j \in 1 .. Len(lens) /\ reply'[q] = os[j]
        BY <1>1, <1>10, <1>11, <2>3, <3>2
      <4>2. /\ reply'[q].req = K + 1 /\ reply'[q].part = j /\ reply'[q].len = lens[j]
        BY <1>10, <4>1
      <4> HIDE DEF j
      <4>3. K + 1 \in 1 .. Len(handled') /\ handled'[K + 1].line = line
        BY <1>0, <1>1 DEF Answers
      <4> QED
        BY <4>1, <4>2, <4>3 DEF WholePart
    <3> QED
      BY <3>1, <3>2
  <2>4. ASSUME NEW p \in 1 .. Len(reply'), NEW q \in 1 .. Len(reply'), p < q
        PROVE  Follows(reply'[p], reply'[q])
    <3>1. /\ reply'[p] = IF p <= Len(reply) THEN reply[p] ELSE os[p - Len(reply)]
          /\ reply'[q] = IF q <= Len(reply) THEN reply[q] ELSE os[q - Len(reply)]
          /\ p \in Nat /\ q \in Nat /\ Len(reply) \in Nat /\ p >= 1 /\ q <= Len(reply) + Len(lens)
      BY <1>0, <1>10, <1>11, <2>4
    <3>3. CASE q <= Len(reply)
      <4>1. p \in 1 .. Len(reply) /\ q \in 1 .. Len(reply) /\ reply'[p] = reply[p] /\ reply'[q] = reply[q]
        BY <2>4, <3>1, <3>3
      <4> QED
        BY <2>4, <4>1 DEF Replies, Queued
    <3>4. CASE p <= Len(reply) /\ q > Len(reply)
      <4>1. p \in 1 .. Len(reply) /\ reply'[p] = reply[p]
        BY <3>1, <3>4
      <4>2. q - Len(reply) \in 1 .. Len(lens) /\ reply'[q] = os[q - Len(reply)]
        BY <1>0, <3>1, <3>4
      <4>3. reply'[p].req \in 1 .. K
        BY <4>1 DEF Replies, Queued, WholePart
      <4>4. reply'[q].req = K + 1
        BY <1>10, <4>2
      <4> QED
        BY <1>0, <4>3, <4>4 DEF Follows
    <3>5. CASE p > Len(reply)
      <4>1. /\ p - Len(reply) \in 1 .. Len(lens) /\ reply'[p] = os[p - Len(reply)]
            /\ q - Len(reply) \in 1 .. Len(lens) /\ reply'[q] = os[q - Len(reply)]
        BY SMTT(40), <1>0, <2>4, <3>1, <3>5
      <4>2. /\ reply'[p].req = K + 1 /\ reply'[p].part = p - Len(reply)
            /\ reply'[q].req = K + 1 /\ reply'[q].part = q - Len(reply)
        BY <1>10, <4>1
      <4> QED
        BY <2>4, <3>1, <4>2 DEF Follows
    <3> QED
      BY <3>1, <3>3, <3>4, <3>5
  <2> QED
    BY <2>1, <2>2, <2>3, <2>4 DEF Queued
<1> QED
  BY <1>8, <1>9 DEF Replies

(* What waits is the rest of the first object, and the other objects.      *)
LEMMA WaitingTail ==
  ASSUME NEW r \in Seq(Parts), r # <<>>, NEW n \in Nat, NEW u
  PROVE  IsWaiting(r, n, u) <=>
           \/ \E i \in n + 1 .. Head(r).len : u = <<Head(r).req, Head(r).part, i>>
           \/ IsWaiting(Tail(r), 0, u)
<1> DEFINE t == Tail(r)
           first(q) == IF q = 1 THEN n ELSE 0
<1>1. /\ t \in Seq(Parts) /\ Len(t) = Len(r) - 1 /\ Len(r) \in Nat \ {0} /\ Head(r) = r[1]
      /\ \A q \in 1 .. Len(t) : t[q] = r[q + 1]
  BY HeadTailProperties
<1> HIDE DEF t
<1>2. \A q : q \in 1 .. Len(r) <=> q = 1 \/ \E k \in 1 .. Len(t) : q = k + 1
  <2>1. ASSUME NEW q \in 1 .. Len(r), q # 1 PROVE \E k \in 1 .. Len(t) : q = k + 1
    <3>1. q - 1 \in 1 .. Len(t) /\ q = (q - 1) + 1
      BY <1>1, <2>1
    <3> QED
      BY <3>1
  <2>2. 1 \in 1 .. Len(r) /\ \A k \in 1 .. Len(t) : k + 1 \in 1 .. Len(r)
    BY <1>1
  <2> QED
    BY <2>1, <2>2
<1>3. IsWaiting(r, n, u) <=>
        \/ \E i \in first(1) + 1 .. r[1].len : u = <<r[1].req, r[1].part, i>>
        \/ \E k \in 1 .. Len(t) : \E i \in first(k + 1) + 1 .. r[k + 1].len :
             u = <<r[k + 1].req, r[k + 1].part, i>>
  <2> HIDE DEF first
  <2>1. IsWaiting(r, n, u) <=>
          \E q \in 1 .. Len(r) : \E i \in first(q) + 1 .. r[q].len : u = <<r[q].req, r[q].part, i>>
    BY DEF IsWaiting, first
  <2> QED
    BY <1>2, <2>1
<1>4. ASSUME NEW k \in 1 .. Len(t)
      PROVE  /\ first(k + 1) + 1 .. r[k + 1].len = (IF k = 1 THEN 0 ELSE 0) + 1 .. t[k].len
             /\ r[k + 1] = t[k]
  BY <1>1
<1>5. (\E k \in 1 .. Len(t) : \E i \in first(k + 1) + 1 .. r[k + 1].len :
         u = <<r[k + 1].req, r[k + 1].part, i>>) <=> IsWaiting(t, 0, u)
  <2> HIDE DEF first
  <2> QED
    BY <1>4 DEF IsWaiting
<1> QED
  BY <1>1, <1>3, <1>5 DEF t

LEMMA BeforeAsymmetric ==
  ASSUME NEW u \in Places, NEW v \in Places PROVE ~ (Before(u, v) /\ Before(v, u))
BY DEF Before, Places

(* The rest of the list is as orderly as the list.                         *)
LEMMA RestOfQueue ==
  ASSUME NEW h, NEW r \in Seq(Parts), r # <<>>,
         \A q \in 1 .. Len(r) : WholePart(h, r[q]),
         \A p, q \in 1 .. Len(r) : p < q => Follows(r[p], r[q])
  PROVE  /\ \A q \in 1 .. Len(Tail(r)) : WholePart(h, Tail(r)[q])
         /\ \A p, q \in 1 .. Len(Tail(r)) : p < q => Follows(Tail(r)[p], Tail(r)[q])
         /\ \A q \in 1 .. Len(Tail(r)) : Follows(Head(r), Tail(r)[q])
<1> DEFINE t == Tail(r)
<1>1. /\ Len(t) = Len(r) - 1 /\ Len(r) \in Nat \ {0} /\ Head(r) = r[1]
      /\ \A q \in 1 .. Len(t) : t[q] = r[q + 1]
  BY HeadTailProperties
<1> HIDE DEF t
<1>2. \A q \in 1 .. Len(t) : q + 1 \in 1 .. Len(r) /\ 1 \in 1 .. Len(r) /\ 1 < q + 1
  BY <1>1
<1>3. \A p, q \in 1 .. Len(t) : p < q => p + 1 < q + 1
  BY <1>1
<1> QED
  BY <1>1, <1>2, <1>3 DEF t

LEMMA DroppedReplies ==
  ASSUME TypeInv, Replies, open, reply # <<>>, DropEmptyObject, handled' = handled
  PROVE  Replies'
<1>1. /\ reply \in Seq(Parts) /\ sent_len = 0 /\ Head(reply).len = 0
      /\ reply' = Tail(reply) /\ sent_len' = 0 /\ written' = written
  <2>1. sent_len \in 0 .. Head(reply).len /\ Head(reply).len = 0
    BY FirstObject DEF TypeInv, DropEmptyObject
  <2> QED
    BY <2>1 DEF DropEmptyObject, TypeInv, ReplyType
<1>2. \A u : IsWaiting(reply', sent_len', u) <=> IsWaiting(reply, sent_len, u)
  <2>1. ASSUME NEW u PROVE IsWaiting(reply, 0, u) <=>
           \/ \E i \in 0 + 1 .. Head(reply).len : u = <<Head(reply).req, Head(reply).part, i>>
           \/ IsWaiting(Tail(reply), 0, u)
    BY <1>1, WaitingTail
  <2>2. 0 + 1 .. Head(reply).len = {}
    BY <1>1
  <2> QED
    BY <1>1, <2>1, <2>2
<1>3. /\ \A q \in 1 .. Len(reply') : WholePart(handled', reply'[q])
      /\ \A p, q \in 1 .. Len(reply') : p < q => Follows(reply'[p], reply'[q])
  <2>1. /\ \A q \in 1 .. Len(reply) : WholePart(handled, reply[q])
        /\ \A p, q \in 1 .. Len(reply) : p < q => Follows(reply[p], reply[q])
    BY DEF Replies, Queued
  <2> QED
    BY <1>1, <2>1, RestOfQueue
<1> QED
  BY <1>1, <1>2, <1>3 DEF Replies, WrittenInOrder, Queued

LEMMA WrittenAppended ==
  ASSUME NEW w \in Seq(Places), NEW o \in Parts, NEW m \in Nat, NEW n \in m + 1 .. o.len
  PROVE  LET x == w \o SubSeq(Bytes(o), m + 1, n) IN
         /\ x \in Seq(Places) /\ Len(x) = Len(w) + n - m /\ Len(w) \in Nat
         /\ \A p \in 1 .. Len(w) : x[p] = w[p]
         /\ \A i \in m + 1 .. n : x[Len(w) + i - m] = <<o.req, o.part, i>>
<1> DEFINE s == SubSeq(Bytes(o), m + 1, n)
           x == w \o s
<1>1. o.len \in Nat /\ n \in Nat /\ m < n /\ n <= o.len
  BY DEF Parts
<1>2. Bytes(o) \in Seq(Places) /\ Len(Bytes(o)) = o.len
  BY BytesType
<1>3. s \in Seq(Places) /\ Len(s) = n - m
  BY <1>1, <1>2
<1>4. ASSUME NEW i \in m + 1 .. n PROVE s[i - m] = <<o.req, o.part, i>>
  <2>1. i - m \in 1 .. n - m /\ i \in 1 .. o.len
    BY <1>1
  <2>2. s[i - m] = Bytes(o)[i]
    BY <1>1, <1>2, <2>1
  <2> QED
    BY <2>1, <2>2, BytesType
<1> HIDE DEF s
<1>5. /\ w \o s \in Seq(Places) /\ Len(w) \in Nat /\ Len(s) \in Nat
      /\ Len(w \o s) = Len(w) + Len(s)
      /\ \A q \in 1 .. Len(w) : (w \o s)[q] = w[q]
      /\ \A q \in 1 .. Len(w) + Len(s) : q > Len(w) => (w \o s)[q] = s[q - Len(w)]
      /\ \A j \in 1 .. Len(s) : (w \o s)[Len(w) + j] = s[j]
  <2>1. s \in Seq(Places)
    BY <1>3
  <2> QED
    BY <2>1, Joined
<1>6. ASSUME NEW i \in m + 1 .. n PROVE x[Len(w) + i - m] = <<o.req, o.part, i>>
  <2>1. i - m \in 1 .. Len(s) /\ Len(w) + i - m = Len(w) + (i - m)
    BY <1>1, <1>3, <1>5
  <2>2. x[Len(w) + (i - m)] = s[i - m]
    BY <1>5, <2>1
  <2> QED
    BY <1>4, <2>1, <2>2
<1>7. Len(x) = Len(w) + n - m
  BY <1>1, <1>3, <1>5
<1> QED
  BY <1>5, <1>6, <1>7 DEF s

(* All that waits is a unit of an object.                                  *)
LEMMA WaitingPlaces ==
  ASSUME NEW r \in Seq(Parts), NEW n \in Nat, NEW u, IsWaiting(r, n, u)
  PROVE  /\ u \in Places
         /\ \E q \in 1 .. Len(r) : u[1] = r[q].req /\ u[2] = r[q].part
<1>1. PICK q \in 1 .. Len(r) : \E i \in (IF q = 1 THEN n ELSE 0) + 1 .. r[q].len :
        u = <<r[q].req, r[q].part, i>>
  BY DEF IsWaiting
<1>2. r[q] \in Parts
  OBVIOUS
<1>3. PICK i \in (IF q = 1 THEN n ELSE 0) + 1 .. r[q].len : u = <<r[q].req, r[q].part, i>>
  BY <1>1
<1>4. i \in Nat /\ r[q].req \in Nat /\ r[q].part \in Nat
  BY ONLY SMTT(40), <1>2, <1>3 DEF Parts
<1>5. u \in Places /\ u[1] = r[q].req /\ u[2] = r[q].part
  BY <1>3, <1>4 DEF Places
<1> QED
  BY <1>5

LEMMA WrittenReplies ==
  ASSUME TypeInv, Replies, open, open' = open, handled' = handled, reply # <<>>,
         NEW n \in sent_len + 1 .. Head(reply).len, Sent(Head(reply), n),
         written' = written \o SubSeq(Bytes(Head(reply)), sent_len + 1, n)
  PROVE  Replies'
<1> DEFINE o == Head(reply)
           m == sent_len
           L == Len(written)
           unit(i) == <<o.req, o.part, i>>
           New(u) == \E i \in m + 1 .. n : u = unit(i)
           Rest(u) == (\E i \in n + 1 .. o.len : u = unit(i)) \/ IsWaiting(Tail(reply), 0, u)
<1>0. /\ reply \in Seq(Parts) /\ written \in Seq(Places) /\ Tail(reply) \in Seq(Parts)
      /\ m \in Nat /\ o \in Parts /\ o.len \in Nat /\ o.req \in Nat /\ o.part \in Nat
      /\ n \in Nat /\ m < n /\ n <= o.len
  <2>1. o \in Parts /\ o.len \in Nat /\ m \in Nat
    BY FirstObject DEF TypeInv
  <2> QED
    BY <2>1, HeadTailProperties DEF TypeInv, ReplyType, Parts
<1>1. /\ Queued
      /\ \A p, q \in 1 .. L : p < q => Before(written[p], written[q])
      /\ \A p \in 1 .. L : IsDue(handled, written[p])
  BY DEF Replies, WrittenInOrder
<1>2. /\ written' \in Seq(Places) /\ Len(written') = L + n - m /\ L \in Nat
      /\ \A p \in 1 .. L : written'[p] = written[p]
      /\ \A i \in m + 1 .. n : written'[L + i - m] = unit(i)
  BY ZenonT(60), <1>0, WrittenAppended
<1>3. \A p : p \in 1 .. Len(written') <=> p \in 1 .. L \/ \E i \in m + 1 .. n : p = L + i - m
  <2>1. ASSUME NEW p \in 1 .. Len(written'), p \notin 1 .. L
        PROVE  \E i \in m + 1 .. n : p = L + i - m
    <3>1. p - L + m \in m + 1 .. n /\ p = L + (p - L + m) - m
      BY <1>0, <1>2, <2>1
    <3> QED
      BY <3>1
  <2>2. 1 .. L \subseteq 1 .. Len(written') /\ \A i \in m + 1 .. n : L + i - m \in 1 .. Len(written')
    BY <1>0, <1>2
  <2> QED
    BY <2>1, <2>2
<1>4. /\ \A q \in 1 .. Len(reply) : WholePart(handled, reply[q])
      /\ \A p, q \in 1 .. Len(reply) : p < q => Follows(reply[p], reply[q])
  BY <1>1 DEF Queued
<1>5. /\ \A q \in 1 .. Len(Tail(reply)) : WholePart(handled, Tail(reply)[q])
      /\ \A p, q \in 1 .. Len(Tail(reply)) : p < q => Follows(Tail(reply)[p], Tail(reply)[q])
      /\ \A q \in 1 .. Len(Tail(reply)) : Follows(Head(reply), Tail(reply)[q])
  BY <1>0, <1>4, RestOfQueue
<1>6. ASSUME NEW u PROVE IsWaiting(reply, sent_len, u) <=> New(u) \/ Rest(u)
  <2>1. IsWaiting(reply, m, u) <=>
          (\E i \in m + 1 .. o.len : u = unit(i)) \/ IsWaiting(Tail(reply), 0, u)
    BY <1>0, WaitingTail
  <2>2. \A i : i \in m + 1 .. o.len <=> i \in m + 1 .. n \/ i \in n + 1 .. o.len
    BY <1>0
  <2> QED
    BY <2>1, <2>2
<1>7. ASSUME NEW u PROVE IsWaiting(reply', sent_len', u) <=> Rest(u)
  <2>1. CASE n = o.len
    <3>1. reply' = Tail(reply) /\ sent_len' = 0 /\ n + 1 .. o.len = {}
      BY SMTT(40), <1>0, <2>1 DEF Sent
    <3> QED
      BY <3>1
  <2>2. CASE n # o.len
    <3>1. reply' = reply /\ sent_len' = n
      BY <2>2 DEF Sent
    <3>2. IsWaiting(reply, n, u) <=>
            (\E i \in n + 1 .. o.len : u = unit(i)) \/ IsWaiting(Tail(reply), 0, u)
      BY <1>0, WaitingTail
    <3> QED
      BY <3>1, <3>2
  <2> QED
    BY <2>1, <2>2
<1>8. ASSUME NEW u PROVE IsWritten(written', u) <=> IsWritten(written, u) \/ New(u)
  <2>1. IsWritten(written', u) <=> \E p \in 1 .. Len(written') : written'[p] = u
    BY DEF IsWritten
  <2>2. (\E p \in 1 .. Len(written') : written'[p] = u)
          <=> \/ \E p \in 1 .. L : written'[p] = u
              \/ \E i \in m + 1 .. n : written'[L + i - m] = u
    BY <1>3
  <2>3. (\E p \in 1 .. L : written'[p] = u) <=> IsWritten(written, u)
    BY <1>2 DEF IsWritten
  <2>4. (\E i \in m + 1 .. n : written'[L + i - m] = u) <=> \E i \in m + 1 .. n : u = unit(i)
    <3> HIDE DEF unit
    <3> QED
      BY <1>2
  <2> QED
    BY <2>1, <2>2, <2>3, <2>4
<1>9. ASSUME NEW i \in m + 1 .. n, NEW u, Rest(u) PROVE Before(unit(i), u) /\ u \in Places
  <2>1. CASE \E k \in n + 1 .. o.len : u = unit(k)
    BY <1>0, <1>9, <2>1 DEF Before, Places
  <2>2. CASE IsWaiting(Tail(reply), 0, u)
    <3>0. /\ u \in Places
          /\ \E q \in 1 .. Len(Tail(reply)) :
               u[1] = Tail(reply)[q].req /\ u[2] = Tail(reply)[q].part
      <4>1. Tail(reply) \in Seq(Parts) /\ 0 \in Nat
        BY <1>0
      <4> QED
        BY <2>2, <4>1, WaitingPlaces
    <3>1. PICK q \in 1 .. Len(Tail(reply)) : u[1] = Tail(reply)[q].req /\ u[2] = Tail(reply)[q].part
      BY <3>0
    <3>2. u \in Places
      BY <3>0
    <3>3. Follows(o, Tail(reply)[q])
      BY <1>5
    <3> QED
      BY <3>1, <3>2, <3>3 DEF Before, Follows
  <2> QED
    BY <1>9, <2>1, <2>2
<1>10. ASSUME NEW i \in m + 1 .. n
       PROVE  /\ unit(i) \in Places /\ IsDue(handled, unit(i))
              /\ \A p \in 1 .. L : Before(written[p], unit(i))
  <2>1. unit(i) \in Places
    BY <1>0 DEF Places
  <2>2. IsWaiting(reply, sent_len, unit(i))
    BY <1>6
  <2> QED
    BY <1>1, <2>1, <2>2 DEF Queued
<1> HIDE DEF New, Rest, unit
<1>11. \A u \in Places : IsDue(handled', u) <=>
                          IsWritten(written', u) \/ IsWaiting(reply', sent_len', u)
  BY <1>1, <1>6, <1>7, <1>8 DEF Queued
<1>12. ASSUME NEW u \in Places, NEW p \in 1 .. Len(written'), IsWaiting(reply', sent_len', u)
       PROVE  Before(written'[p], u)
  <2>1. CASE p \in 1 .. L
    BY <1>1, <1>2, <1>6, <1>7, <1>12, <2>1 DEF Queued
  <2>2. ASSUME NEW i \in m + 1 .. n, p = L + i - m PROVE Before(written'[p], u)
    BY <1>2, <1>7, <1>9, <1>12, <2>2
  <2> QED
    BY <1>3, <1>12, <2>1, <2>2
<1>13. \A p \in 1 .. Len(written') : IsDue(handled', written'[p])
  <2>1. \A p \in 1 .. L : IsDue(handled, written'[p])
    BY <1>1, <1>2
  <2>2. \A i \in m + 1 .. n : IsDue(handled, written'[L + i - m])
    BY <1>2, <1>10
  <2> QED
    BY <1>3, <2>1, <2>2
<1>14. ASSUME NEW p \in 1 .. Len(written'), NEW q \in 1 .. Len(written'), p < q
       PROVE  Before(written'[p], written'[q])
  <2>1. CASE q \in 1 .. L
    <3>1. p \in 1 .. L
      BY <1>2, <1>14, <2>1
    <3> QED
      BY <1>1, <1>2, <1>14, <2>1, <3>1
  <2>2. ASSUME p \in 1 .. L, NEW i \in m + 1 .. n, q = L + i - m PROVE Before(written'[p], written'[q])
    BY <1>2, <1>10, <2>2
  <2>3. ASSUME NEW i \in m + 1 .. n, NEW k \in m + 1 .. n, p = L + i - m, q = L + k - m
        PROVE  Before(written'[p], written'[q])
    <3>1. i < k
      BY <1>0, <1>2, <1>14, <2>3
    <3>2. written'[p] = unit(i) /\ written'[q] = unit(k)
      BY <1>2, <2>3
    <3>3. Before(unit(i), unit(k))
      BY <3>1 DEF Before, unit
    <3> QED
      BY <3>2, <3>3
  <2> QED
    BY <1>3, <1>14, <2>1, <2>2, <2>3
<1>15. ASSUME NEW u \in Places, NEW p \in 1 .. Len(written'), IsDue(handled', u), Before(u, written'[p])
       PROVE  IsWritten(written', u)
  <2>1. written'[p] \in Places
    BY <1>2, <1>15
  <2> QED
    BY <1>11, <1>12, <1>15, <2>1, BeforeAsymmetric
<1>16. /\ \A q \in 1 .. Len(reply') : WholePart(handled', reply'[q])
       /\ \A p, q \in 1 .. Len(reply') : p < q => Follows(reply'[p], reply'[q])
  <2>1. reply' = reply \/ reply' = Tail(reply)
    BY DEF Sent
  <2> QED
    BY <1>4, <1>5, <2>1
<1>17. WrittenInOrder'
  BY <1>13, <1>14, <1>15 DEF WrittenInOrder
<1>18. Queued'
  BY <1>11, <1>12, <1>16 DEF Queued
<1> QED
  BY <1>17, <1>18 DEF Replies

LEMMA ProcessedReplies ==
  ASSUME TypeInv, Replies, open, NEW line \in Seq(Units), NEW rest \in Seq(Units),
         ProcessCommand(line, rest), written' = written
  PROVE  Replies'
<1> DEFINE n == Table[line].count + 2
<1>1. CASE FreeClient /\ UNCHANGED handled
  BY <1>1, FreedReplies DEF FreeClient
<1>2. ASSUME NEW data \in Seq(Units), Answer(line, data) PROVE Replies'
  BY <1>2, AnsweredReplies
<1>3. CASE Kind(line) = "bulk" /\ Answer(line, SubSeq(rest, 1, n - 2)) /\ Len(rest) >= n
  <2>1. n - 2 \in Nat /\ n \in Nat
    BY <1>3, TableAssumption DEF Kind
  <2>2. SubSeq(rest, 1, n - 2) \in Seq(Units)
    BY <1>3, <2>1
  <2> QED
    BY <1>2, <1>3, <2>2
<1>4. CASE Answer(line, <<>>)
  BY <1>2, <1>4, EmptySeq
<1>5. CASE UNCHANGED <<open, reply, sent_len, idle, writable, handled>>
  BY <1>5, SameReplies
<1> QED
  BY <1>1, <1>3, <1>4, <1>5 DEF ProcessCommand

LEMMA StepReplies ==
  ASSUME TypeInv, Registered, Pending, Replies, [Next]_vars PROVE Replies'
<1>0. handler \in {"parse", "send"} => open
  BY DEF Registered
<1>1. CASE \/ \E r \in Requests : ClientSends(r)
           \/ ClientReads \/ ClientCloses \/ ConnectionBreaks \/ Tick \/ Select \/ UNCHANGED vars
  <2>1. UNCHANGED <<open, reply, sent_len, handled, written>>
    BY <1>1 DEF ClientSends, ClientReads, ClientCloses, ConnectionBreaks, Tick, Select, vars, client
  <2> QED
    BY <2>1, SameReplies
<1>2. CASE CloseTimeoutClients
  BY <1>2, FreedReplies DEF CloseTimeoutClients, FreeClient
<1>3. CASE ReadQueryFromClient
  <2>1. ASSUME NEW n, Receive(n) PROVE Replies'
    BY <1>3, <2>1, SameReplies DEF ReadQueryFromClient, Receive
  <2> QED
    BY <1>3, <2>1, FreedReplies DEF ReadQueryFromClient, FreeClient
<1>4. CASE ParseNonBulkQuery
  <2>1. open /\ written' = written /\ query_buf \in Seq(Units)
    BY <1>0, <1>4 DEF ParseNonBulkQuery, TypeInv, ServerType
  <2>2. ASSUME NEW rest, EmptyQuery(rest) PROVE Replies'
    BY <2>1, <2>2, SameReplies DEF EmptyQuery
  <2>3. ASSUME NEW e \in DOMAIN query_buf,
               ProcessCommand(WithoutCR(SubSeq(query_buf, 1, e - 1)), From(query_buf, e + 1))
        PROVE  Replies'
    <3>1. /\ WithoutCR(SubSeq(query_buf, 1, e - 1)) \in Seq(Units)
          /\ From(query_buf, e + 1) \in Seq(Units)
      BY <2>1, LineType
    <3> QED
      BY <2>1, <2>3, <3>1, ProcessedReplies
  <2>4. CASE FreeClient /\ UNCHANGED handled
    BY <2>1, <2>4, FreedReplies DEF FreeClient
  <2>5. CASE UNCHANGED <<client, writable, handled>>
    BY <2>1, <2>5, SameReplies DEF client
  <2> QED
    BY <1>4, <2>2, <2>3, <2>4, <2>5 DEF ParseNonBulkQuery
<1>5. CASE ParseBulkQuery
  <2>1. open /\ written' = written /\ query_buf \in Seq(Units) /\ argv \in Seq(Units)
        /\ bulk_len \in Nat
    BY <1>0, <1>5 DEF ParseBulkQuery, TypeInv, ServerType
  <2>2. CASE Len(query_buf) >= bulk_len /\ Answer(argv, SubSeq(query_buf, 1, bulk_len - 2))
    <3>1. SubSeq(query_buf, 1, bulk_len - 2) \in Seq(Units)
      BY <2>1, <2>2
    <3> QED
      BY <2>1, <2>2, <3>1, AnsweredReplies
  <2>3. CASE UNCHANGED <<client, writable, handled>>
    BY <2>1, <2>3, SameReplies DEF client
  <2> QED
    BY <1>5, <2>2, <2>3 DEF ParseBulkQuery
<1>6. CASE SendReplyToClient
  <2>1. open /\ handled' = handled
    BY <1>0, <1>6 DEF SendReplyToClient
  <2>2. CASE reply # <<>> /\ DropEmptyObject
    BY <2>1, <2>2, DroppedReplies
  <2>3. CASE reply # <<>> /\ WriteObject
    <3>1. ASSUME NEW n \in sent_len + 1 .. Head(reply).len,
                 written' = written \o SubSeq(Bytes(Head(reply)), sent_len + 1, n),
                 Sent(Head(reply), n), open' = open
          PROVE  Replies'
      BY <2>1, <2>3, <3>1, WrittenReplies
    <3>2. CASE UNCHANGED <<client, writable, socket, written>>
      BY <2>1, <3>2, SameReplies DEF client
    <3>3. CASE FreeClient /\ UNCHANGED <<socket, written>>
      BY <2>1, <3>3, FreedReplies DEF FreeClient
    <3> QED
      BY <2>3, <3>1, <3>2, <3>3 DEF WriteObject
  <2>4. CASE AllSent
    <3>1. sent_len' = sent_len
      BY <2>4, SentLen DEF AllSent
    <3> QED
      BY <2>1, <2>4, <3>1, SameReplies DEF AllSent
  <2> QED
    BY <1>6, <2>2, <2>3, <2>4 DEF SendReplyToClient
<1> QED
  BY <1>1, <1>2, <1>3, <1>4, <1>5, <1>6 DEF Next, Server

LEMMA InitReplies == Init => Replies
<1> SUFFICES ASSUME Init PROVE Replies
  OBVIOUS
<1>1. /\ written = <<>> /\ handled = <<>> /\ reply = <<>>
      /\ 1 .. Len(written) = {} /\ 1 .. Len(handled) = {} /\ 1 .. Len(reply) = {}
  BY DEF Init
<1>2. \A u : ~ IsDue(handled, u) /\ ~ IsWritten(written, u) /\ ~ IsWaiting(reply, sent_len, u)
  BY <1>1 DEF IsDue, IsWritten, IsWaiting
<1> QED
  BY <1>1, <1>2 DEF Replies, WrittenInOrder, Queued

(* Over partial writes, full sockets and empty objects (client.c:99-111,   *)
(* 249-299), what was written is, in order and without a gap, the replies  *)
(* to the requests answered, and what is queued is, in order, the rest.    *)
THEOREM RepliesAlwaysExact == Spec => []RepliesExact
<1>1. TypeInv /\ Registered /\ Pending /\ Replies /\ [Next]_vars => Replies'
  BY StepReplies
<1>2. TypeInv /\ Replies => RepliesExact
  BY RepliesAreExact
<1> QED
  BY <1>1, <1>2, InitReplies, HandlersAlways, PTL DEF Spec
=============================================================================
