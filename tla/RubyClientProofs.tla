--------------------------- MODULE RubyClientProofs ---------------------------
(* Theorems about RubyClient, for every set of databases, every length of a    *)
(* list and any number of calls and deaths of the server.                      *)
EXTENDS RubyClient, TLAPS

(* Requests are run in the order of their calls, each call writes one.         *)
Ids ==
    /\ call.id = calls /\ (pc # "idle" => calls > 0)
    /\ \A i \in 1..Len(ran) : ran[i].id <= calls /\ (pc = "write" => ran[i].id # calls)
    /\ \A j \in 1..Len(c2s) : c2s[j].id <= calls /\ (pc = "write" => c2s[j].id # calls)
    /\ \A i, j \in 1..Len(ran) : i < j => ran[i].id < ran[j].id
    /\ \A i, j \in 1..Len(c2s) : i < j => c2s[i].id < c2s[j].id
    /\ \A i \in 1..Len(ran), j \in 1..Len(c2s) : ran[i].id < c2s[j].id

(* The part that a read of a method finds in a reply to that method.           *)
Fits(read, part) ==
    \/ read = "line" /\ part \in {"len", "text"}
    \/ read = "bulk" /\ part = "bulk"
    \/ read = "crlf" /\ part = "crlf"

(* The request is on its way or lost, or its reply on the way: all of it on a  *)
(* connection that is up, a beginning of it on one that is not.                *)
Unanswered == s2c = <<>> /\ c2s = IF link = "up" THEN <<call>> ELSE <<>>

Whole(n) == Len(s2c) <= n /\ (link = "up" => Len(s2c) = n)

Answered ==
    /\ c2s = <<>> /\ call.kind \notin {"decrby", "quit"}
    /\ \E reply \in Answers(call.kind) :
         /\ Whole(Len(reply))
         /\ \A i \in 1..Len(s2c) : s2c[i] = [id |-> call.id, part |-> reply[i]]
    /\ call.kind = "select" /\ s2c # <<>> => s2c[1].part # "ok" \/ db = call.db

Reading ==
    /\ c2s = <<>> /\ taken = {call.id} /\ call.kind # "select"
    /\ Whole(Len(todo))
    /\ \A i \in 1..Len(s2c) : s2c[i].id = call.id /\ Fits(todo[i], s2c[i].part)

(* What is under way on a connection whose stream is in step.                  *)
InStep ==
    IF pc = "read"
      THEN \/ todo = <<"first">> /\ taken = {} /\ (Unanswered \/ Answered)
           \/ todo # <<>> /\ Reading
      ELSE /\ c2s = <<>> /\ s2c = <<>>
           /\ pc = "idle" /\ last = "replied" => taken = {call.id}

(* A connection that is out of step: the application goes on with methods that *)
(* read one line, and has lost a reply, or is about to with the first call     *)
(* whose value is longer than announced.                                       *)
FirstWide ==
    /\ pc = "read" /\ call.wide
    /\ \A j \in 1..Len(c2s) : c2s[j].kind = "status"

OutOfStep ==
    /\ sock
    /\ pc # "idle" => call.kind \in {"status", "line", "select"}
    /\ pc = "read" => todo = <<"first">>
    /\ unanswered \/ FirstWide

Stream ==
    /\ call.wide => call.kind = "status"
    /\ ~skewed /\ pc = "read" /\ call.wide => link # "up"
    /\ skewed => OutOfStep
    /\ ~skewed => InStep
    /\ ~skewed /\ s2c # <<>> => link \in {"up", "closed"}
    /\ ~sock => link = "dead" /\ s2c = <<>> /\ c2s = <<>>
    /\ pc = "write" => taken = {}

(* Unless a call has lost its reply, the connection is the one on which the    *)
(* database was selected, or the first one.                                    *)
Chosen ==
    ~unanswered =>
      /\ ~sock => selected = 0
      /\ sock /\ pc # "read" => link \in {"up", "closed"}
      /\ sock /\ link = "up" =>
           \/ db = selected
           \/ pc = "read" /\ call.kind = "select" /\ s2c # <<>> /\ s2c[1].part = "ok"

Inv == TypeOK /\ Ids /\ Stream /\ Chosen /\ OtherDbOnlyAfterLoss

-----------------------------------------------------------------------------
(* The shape of the replies, and of what the methods read of them              *)

LEMMA Bounds == Items \in Nat /\ MaxCalls \in Nat /\ MaxDeaths \in Nat
BY BoundsAssumption

LEMMA TailParts ==
    ASSUME NEW S, NEW s \in Seq(S), s # <<>>
    PROVE  /\ Head(s) = s[1] /\ s[1] \in S /\ Len(s) \in Nat \ {0}
           /\ Tail(s) \in Seq(S) /\ Len(Tail(s)) = Len(s) - 1
           /\ \A i \in 1..Len(s) - 1 : Tail(s)[i] = s[i + 1]
OBVIOUS

LEMMA NothingSent == \A S : <<>> \in Seq(S) /\ Len(<<>>) = 0
OBVIOUS

LEMMA ElementOf == ASSUME NEW S, NEW s \in Seq(S), NEW i \in 1..Len(s) PROVE s[i] \in S
OBVIOUS

LEMMA FirstRead == <<"first">> \in Seq(Reads) /\ <<"first">> # <<>>
<1>1. \A a \in Reads : <<a>> \in Seq(Reads)
  OBVIOUS
<1> QED
  BY <1>1 DEF Reads

LEMMA AppendParts ==
    ASSUME NEW S, NEW s \in Seq(S), NEW a \in S
    PROVE  /\ Append(s, a) \in Seq(S) /\ Len(s) \in Nat /\ Len(Append(s, a)) = Len(s) + 1
           /\ \A i \in 1..Len(s) : Append(s, a)[i] = s[i]
           /\ Append(s, a)[Len(s) + 1] = a
OBVIOUS

LEMMA ConcatParts ==
    ASSUME NEW S, NEW s \in Seq(S), NEW t \in Seq(S)
    PROVE  /\ s \o t \in Seq(S) /\ Len(s) \in Nat /\ Len(t) \in Nat
           /\ Len(s \o t) = Len(s) + Len(t)
           /\ \A i \in 1..Len(t) : (s \o t)[Len(s) + i] = t[i]
OBVIOUS

LEMMA PrefixParts ==
    ASSUME NEW S, NEW s \in Seq(S), NEW n \in 0..Len(s)
    PROVE  /\ SubSeq(s, 1, n) \in Seq(S) /\ Len(SubSeq(s, 1, n)) = n
           /\ \A i \in 1..n : SubSeq(s, 1, n)[i] = s[i]
OBVIOUS

LEMMA ElementTypes ==
    ASSUME TypeOK
    PROVE  /\ Len(ran) \in Nat /\ Len(c2s) \in Nat /\ Len(s2c) \in Nat
           /\ \A i \in 1..Len(ran) : ran[i].id \in Nat
           /\ \A j \in 1..Len(c2s) : c2s[j] \in Calls(1..MaxCalls)
           /\ \A j \in 1..Len(c2s) : c2s[j].id \in Nat
           /\ call.id \in Nat /\ calls \in Nat /\ calls <= MaxCalls
<1>1. /\ ran \in Seq(Ran)
      /\ c2s \in Seq(Calls(1..MaxCalls))
      /\ s2c \in Seq([id : 1..MaxCalls, part : Parts])
      /\ call.id \in 0..MaxCalls /\ calls \in 0..MaxCalls
  BY DEF TypeOK, Calls
<1>2. 1..MaxCalls \subseteq Nat /\ 0..MaxCalls \subseteq Nat
  BY Bounds
<1>3. ASSUME NEW i \in 1..Len(ran) PROVE ran[i].id \in Nat
  <2>1. ran[i] \in Ran
    BY <1>1, ElementOf
  <2> QED
    BY <1>2, <2>1 DEF Ran
<1>4. ASSUME NEW j \in 1..Len(c2s)
      PROVE  c2s[j] \in Calls(1..MaxCalls) /\ c2s[j].id \in Nat
  <2>1. c2s[j] \in Calls(1..MaxCalls)
    BY <1>1, ElementOf
  <2> QED
    BY <1>2, <2>1 DEF Calls
<1> QED
  BY <1>1, <1>2, <1>3, <1>4, Bounds

LEMMA ValuesShape ==
    ASSUME NEW S, NEW line \in S, "bulk" \in S, "crlf" \in S
    PROVE  Values(line) \in Seq(S) /\ Len(Values(line)) = 3 * Items
BY Bounds DEF Values

LEMMA ValuesFit ==
    \A i \in 1..3 * Items : Fits(Values("line")[i], Values("len")[i])
BY DEF Values, Fits

LEMMA ReadsType == \A kind, part : ReadsAfter(kind, part) \in Seq(Reads)
<1>1. Values("line") \in Seq(Reads)
  BY ValuesShape DEF Reads
<1>2. \A a, b \in Reads : <<>> \in Seq(Reads) /\ <<a>> \in Seq(Reads) /\ <<a, b>> \in Seq(Reads)
  OBVIOUS
<1>3. Value \in Seq(Reads) /\ <<"line">> \in Seq(Reads) /\ <<>> \in Seq(Reads)
  BY <1>2 DEF Reads, Value
<1> QED
  BY <1>1, <1>3 DEF ReadsAfter

(* A part put before the others. *)
LEMMA Preceded ==
    ASSUME NEW S, NEW a \in S, NEW s \in Seq(S), NEW t, t = <<a>> \o s
    PROVE  /\ t \in Seq(S) /\ Len(t) = Len(s) + 1 /\ t[1] = a
           /\ \A i \in 1..Len(s) : t[i + 1] = s[i]
OBVIOUS

LEMMA AnswerShape ==
    ASSUME NEW kind \in Kinds \ {"decrby", "quit"}, NEW reply \in Answers(kind)
    PROVE  LET more == ReadsAfter(kind, reply[1]) IN
           /\ reply \in Seq(Parts) /\ Len(reply) \in Nat \ {0}
           /\ kind = "select" => Len(reply) = 1
           /\ IF kind = "get" /\ reply[1] = "neg" THEN more = <<>>
              ELSE /\ Len(more) = Len(reply) - 1
                   /\ \A i \in 1..Len(more) : Fits(more[i], reply[i + 1])
<1> DEFINE more == ReadsAfter(kind, reply[1])
           Shape == /\ reply \in Seq(Parts) /\ Len(reply) \in Nat \ {0}
                    /\ IF kind = "get" /\ reply[1] = "neg" THEN more = <<>>
                       ELSE /\ Len(more) = Len(reply) - 1
                            /\ \A i \in 1..Len(more) : Fits(more[i], reply[i + 1])
<1>1. ASSUME NEW part \in {"ok", "err", "num", "nil"}, reply = <<part>> PROVE Shape
  <2>1. reply[1] = part /\ Len(reply) = 1 /\ part \in Parts
    BY <1>1 DEF Parts
  <2>2. reply \in Seq(Parts)
    BY <1>1, <2>1
  <2>3. more = <<>>
    BY <2>1 DEF ReadsAfter
  <2> QED
    BY <2>1, <2>2, <2>3
<1>2. ASSUME reply = <<"len", "bulk", "crlf">> /\ kind \in {"get", "keys", "pop"} PROVE Shape
  <2>1. Value \in Seq(Parts) /\ Len(Value) = 2 /\ Value[1] = "bulk" /\ Value[2] = "crlf"
    <3>1. \A a, b \in Parts : <<a, b>> \in Seq(Parts)
      OBVIOUS
    <3> QED
      BY <3>1 DEF Value, Parts
  <2>2. "len" \in Parts
    BY DEF Parts
  <2>3. /\ reply \in Seq(Parts) /\ Len(reply) = 3 /\ reply[1] = "len"
        /\ \A i \in 1..2 : reply[i + 1] = Value[i]
    <3>1. \A a, b, c \in Parts : <<a, b, c>> \in Seq(Parts)
      OBVIOUS
    <3>2. reply \in Seq(Parts)
      BY <1>2, <3>1 DEF Parts
    <3>3. Len(reply) = 3 /\ reply[1] = "len" /\ reply[2] = "bulk" /\ reply[3] = "crlf"
      BY <1>2
    <3> QED
      BY <2>1, <3>2, <3>3
  <2>4. more = Value
    BY <1>2, <2>3 DEF ReadsAfter
  <2>5. \A i \in 1..2 : Fits(Value[i], Value[i])
    BY <2>1 DEF Fits
  <2>6. Len(more) = Len(reply) - 1 /\ reply[1] # "neg" /\ Len(reply) \in Nat \ {0}
    BY <2>1, <2>3, <2>4
  <2>7. \A i \in 1..Len(more) : Fits(more[i], reply[i + 1])
    BY <2>1, <2>3, <2>4, <2>5
  <2> QED
    BY <2>3, <2>6, <2>7
<1>3. ASSUME reply = <<"neg", "text">> /\ kind \in {"get", "pop", "range"} PROVE Shape
  <2>1. reply \in Seq(Parts) /\ Len(reply) = 2 /\ reply[1] = "neg" /\ reply[2] = "text"
    <3>1. \A a, b \in Parts : <<a, b>> \in Seq(Parts)
      OBVIOUS
    <3> QED
      BY <1>3, <3>1 DEF Parts
  <2>2. more = IF kind = "get" THEN <<>> ELSE <<"line">>
    BY <1>3, <2>1 DEF ReadsAfter
  <2>3. kind # "get" => more = <<"line">> /\ Len(more) = 1 /\ more[1] = "line"
    BY <2>2
  <2>4. kind = "get" => more = <<>>
    BY <2>2
  <2>5. Fits("line", "text")
    BY DEF Fits
  <2>6. kind # "get" => \A i \in 1..Len(more) : Fits(more[i], reply[i + 1])
    BY <2>1, <2>3, <2>5
  <2> QED
    BY <1>3, <2>1, <2>3, <2>4, <2>6
<1>4. ASSUME reply = <<"count">> \o Values("len") /\ kind = "range" PROVE Shape
  <2>1. /\ Values("len") \in Seq(Parts) /\ Len(Values("len")) = 3 * Items
        /\ Len(Values("line")) = 3 * Items /\ "count" \in Parts
    <3>1. /\ "len" \in Parts /\ "bulk" \in Parts /\ "crlf" \in Parts /\ "count" \in Parts
          /\ "line" \in Reads /\ "bulk" \in Reads /\ "crlf" \in Reads
      BY DEF Parts, Reads
    <3> QED
      BY <3>1, ValuesShape
  <2>2. /\ reply \in Seq(Parts) /\ Len(reply) = 3 * Items + 1 /\ reply[1] = "count"
        /\ \A i \in 1..3 * Items : reply[i + 1] = Values("len")[i]
    BY <1>4, <2>1, Preceded
  <2>3. more = Values("line")
    BY <1>4, <2>2 DEF ReadsAfter
  <2> QED
    BY <1>4, <2>1, <2>2, <2>3, Bounds, ValuesFit
<1>5. \/ \E part \in {"ok", "err", "num", "nil"} : reply = <<part>>
      \/ reply = <<"len", "bulk", "crlf">> /\ kind \in {"get", "keys", "pop"}
      \/ reply = <<"neg", "text">> /\ kind \in {"get", "pop", "range"}
      \/ reply = <<"count">> \o Values("len") /\ kind = "range"
  <2>1. kind \in {"status", "select", "shutdown", "line", "get", "keys", "pop", "range"}
    BY DEF Kinds
  <2>2. CASE kind \in {"status", "select"}
    BY <2>2 DEF Answers
  <2>3. CASE kind = "shutdown"
    BY <2>3 DEF Answers
  <2>4. CASE kind = "line"
    BY <2>4 DEF Answers
  <2>5. CASE kind \in {"get", "pop"}
    BY <2>5 DEF Answers
  <2>6. CASE kind = "range"
    BY <2>6 DEF Answers
  <2>7. CASE kind = "keys"
    BY <2>7 DEF Answers
  <2> QED
    BY <2>1, <2>2, <2>3, <2>4, <2>5, <2>6, <2>7
<1>6. kind = "select" => Len(reply) = 1
  BY DEF Answers
<1>7. Shape
  <2> HIDE DEF Shape
  <2> QED
    BY <1>1, <1>2, <1>3, <1>4, <1>5
<1> QED
  BY <1>6, <1>7

(* A further part only follows the answer to a value longer than announced.    *)
LEMMA ReplyShape ==
    ASSUME NEW request, NEW answer \in Seq(Parts), Len(answer) \in Nat \ {0}
    PROVE  /\ Reply(request, answer) \in Seq(Parts)
           /\ Len(Reply(request, answer)) \in Nat \ {0}
           /\ ~request.wide => Reply(request, answer) = answer
<1>1. <<"err">> \in Seq(Parts) /\ Len(<<"err">>) = 1
  <2>1. \A a \in Parts : <<a>> \in Seq(Parts) /\ Len(<<a>>) = 1
    OBVIOUS
  <2> QED
    BY <2>1 DEF Parts
<1>2. /\ answer \o <<"err">> \in Seq(Parts)
      /\ Len(answer \o <<"err">>) = Len(answer) + 1
  BY <1>1, ConcatParts
<1> QED
  BY <1>2 DEF Reply

-----------------------------------------------------------------------------
(* Every step keeps the invariant.                                             *)

LEMMA InitInv == Init => Inv
<1> SUFFICES ASSUME Init PROVE Inv
  OBVIOUS
<1>1. TypeOK
  <2>1. call \in Calls(0..MaxCalls)
    BY Bounds, DbsAssumption DEF Init, Kinds, Calls
  <2>2. /\ calls \in 0..MaxCalls /\ deaths \in 0..MaxDeaths
        /\ link \in Links /\ db \in Dbs /\ selected \in Dbs
    BY Bounds, DbsAssumption DEF Init, Links
  <2>3. /\ todo \in Seq(Reads) /\ c2s \in Seq(Calls(1..MaxCalls))
        /\ s2c \in Seq([id : 1..MaxCalls, part : Parts])
        /\ ran \in Seq(Ran)
    BY NothingSent DEF Init
  <2> QED
    BY <2>1, <2>2, <2>3 DEF Init, TypeOK
<1>2. Ids /\ Stream /\ Chosen /\ OtherDbOnlyAfterLoss
  BY DEF Init, Ids, Stream, InStep, Chosen, OtherDbOnlyAfterLoss
<1> QED
  BY <1>1, <1>2 DEF Inv

LEMMA BeginInv ==
    ASSUME Inv, NEW kind \in Kinds, NEW d \in Dbs, NEW wide \in BOOLEAN,
           wide => kind = "status", Begin(kind, d, wide)
    PROVE  Inv'
<1>1. TypeOK'
  BY Bounds, DbsAssumption DEF Inv, TypeOK, Begin, conn, hist, Links, Calls
<1>2. Ids'
  <2>1. /\ Ids /\ TypeOK /\ ran' = ran /\ c2s' = c2s
        /\ pc' = "write" /\ calls' = calls + 1 /\ call'.id = calls + 1
    BY DEF Inv, Begin, conn, hist
  <2>2. /\ calls \in Nat /\ \A i \in 1..Len(ran) : ran[i].id \in Nat
        /\ \A j \in 1..Len(c2s) : c2s[j].id \in Nat
    BY <2>1, ElementTypes
  <2>3. \A n \in Nat : n <= calls => n <= calls + 1 /\ n # calls + 1
    BY <2>2
  <2>4. /\ \A i \in 1..Len(ran) : ran[i].id <= calls + 1 /\ ran[i].id # calls + 1
        /\ \A j \in 1..Len(c2s) : c2s[j].id <= calls + 1 /\ c2s[j].id # calls + 1
    BY <2>1, <2>2, <2>3 DEF Ids
  <2>5. calls + 1 > 0
    BY <2>2
  <2> QED
    BY <2>1, <2>4, <2>5 DEF Ids
<1>3. Stream'
  BY DEF Inv, TypeOK, Stream, InStep, OutOfStep, FirstWide, Unanswered, Answered, Reading, Whole, Begin, conn, hist
<1>4. Chosen'
  BY DEF Inv, TypeOK, Chosen, Stream, InStep, OutOfStep, FirstWide, Unanswered, Answered, Reading, Whole, Begin, conn, hist
<1>5. OtherDbOnlyAfterLoss'
  BY DEF Inv, OtherDbOnlyAfterLoss, Begin, conn, hist
<1> QED
  BY <1>1, <1>2, <1>3, <1>4, <1>5 DEF Inv

LEMMA ConnectInv ==
    ASSUME Inv, Connect
    PROVE  Inv'
<1>1. TypeOK'
  BY NothingSent, Bounds, DbsAssumption DEF Inv, TypeOK, Connect, NewConnection, MustConnect, conn, hist, Kinds, Links
<1>2. Ids'
  BY Bounds DEF Inv, TypeOK, Ids, Connect, NewConnection, MustConnect, conn, hist
<1>3. Stream'
  BY DEF Inv, TypeOK, Stream, InStep, OutOfStep, FirstWide, Unanswered, Answered, Reading, Whole, Connect, NewConnection, MustConnect, conn, hist
<1>4. Chosen'
  BY DEF Inv, TypeOK, Chosen, Stream, InStep, OutOfStep, FirstWide, Unanswered, Answered, Reading, Whole, Connect, NewConnection, MustConnect, conn, hist
<1>5. OtherDbOnlyAfterLoss'
  BY DEF Inv, OtherDbOnlyAfterLoss, Connect, NewConnection, MustConnect, conn, hist
<1> QED
  BY <1>1, <1>2, <1>3, <1>4, <1>5 DEF Inv

LEMMA RefusedInv ==
    ASSUME Inv, Refused
    PROVE  Inv'
<1>1. TypeOK'
  BY Bounds, DbsAssumption DEF Inv, TypeOK, Refused, Cut, MustConnect, conn, hist, Kinds, Links
<1>2. Ids'
  BY Bounds DEF Inv, TypeOK, Ids, Refused, Cut, MustConnect, conn, hist
<1>3. Stream'
  BY DEF Inv, TypeOK, Stream, InStep, OutOfStep, FirstWide, Unanswered, Answered, Reading, Whole, Refused, Cut, MustConnect, conn, hist
<1>4. Chosen'
  BY DEF Inv, TypeOK, Chosen, Stream, InStep, OutOfStep, FirstWide, Unanswered, Answered, Reading, Whole, Refused, Cut, MustConnect, conn, hist
<1>5. OtherDbOnlyAfterLoss'
  BY DEF Inv, OtherDbOnlyAfterLoss, Refused, Cut, MustConnect, conn, hist
<1> QED
  BY <1>1, <1>2, <1>3, <1>4, <1>5 DEF Inv

LEMMA WriteInv ==
    ASSUME Inv, Write
    PROVE  Inv'
<1>1. /\ TypeOK /\ Ids /\ Stream /\ Chosen /\ pc = "write" /\ sock /\ link \notin {"reset", "dead"}
      /\ pc' = "read" /\ todo' = <<"first">>
      /\ UNCHANGED <<call, sock, db, s2c, up, calls, deaths, taken, hist>>
  BY DEF Inv, Write, MustConnect
<1>2. call \in Calls(1..MaxCalls) /\ call.id = calls /\ call.wide \in BOOLEAN
  BY <1>1, ElementTypes DEF TypeOK, Ids, Calls
<1>3. CASE link = "up"
  <2>1. c2s' = Append(c2s, call) /\ link' = link /\ skewed' = (skewed \/ call.wide)
    BY <1>3 DEF Write, MustConnect
  <2>2. /\ c2s' \in Seq(Calls(1..MaxCalls))
        /\ Len(c2s) \in Nat /\ Len(c2s') = Len(c2s) + 1
        /\ \A i \in 1..Len(c2s) : c2s'[i] = c2s[i]
        /\ c2s'[Len(c2s) + 1] = call
    BY <1>1, <1>2, <2>1, AppendParts DEF TypeOK
  <2>3. TypeOK'
    <3>1. skewed' \in BOOLEAN
      BY <1>1, <1>2, <2>1 DEF TypeOK
    <3> QED
      BY <1>1, <2>1, <2>2, <3>1, FirstRead DEF TypeOK, hist
  <2>4. Ids'
    <3>1. \A j \in 1..Len(c2s) : c2s[j].id \in Nat /\ c2s[j].id < calls
      BY <1>1, ElementTypes DEF Ids
    <3>2. \A i \in 1..Len(ran) : ran[i].id \in Nat /\ ran[i].id < calls
      BY <1>1, ElementTypes DEF Ids
    <3>3. ASSUME NEW j \in 1..Len(c2s')
          PROVE  c2s'[j].id = calls \/ (j \in 1..Len(c2s) /\ c2s'[j] = c2s[j])
      BY <1>2, <2>2
    <3>4. \A i, j \in 1..Len(c2s') : i < j => i \in 1..Len(c2s)
      BY <2>2
    <3>5. \A i, j \in 1..Len(c2s') : i < j => c2s'[i].id < c2s'[j].id
      BY <1>1, <2>2, <3>1, <3>3, <3>4 DEF Ids
    <3>6. \A i \in 1..Len(ran), j \in 1..Len(c2s') : ran[i].id < c2s'[j].id
      BY <1>1, <3>2, <3>3 DEF Ids
    <3>7. \A j \in 1..Len(c2s') : c2s'[j].id <= calls
      BY <1>1, <3>1, <3>3, ElementTypes
    <3> QED
      BY <1>1, <3>5, <3>6, <3>7 DEF Ids, hist
  <2>5. Stream'
    <3>1. ~skewed => c2s = <<>> /\ s2c = <<>> /\ c2s' = <<call>>
      BY <1>1, <2>1 DEF Stream, InStep
    <3>2. CASE skewed
      BY <1>1, <1>3, <2>1, <3>2 DEF Stream, OutOfStep, FirstWide, hist
    <3>3. CASE ~skewed /\ call.wide
      <4>1. call.kind = "status" /\ skewed' = TRUE
        BY <1>1, <2>1, <3>3 DEF Stream
      <4>2. \A j \in 1..Len(c2s') : c2s'[j].kind = "status"
        <5>1. Len(c2s) = 0
          BY <3>1, <3>3, NothingSent
        <5>2. Len(c2s') = 1 /\ c2s'[1] = call
          BY ONLY <2>2, <5>1
        <5> QED
          BY <4>1, <5>2
      <4>3. OutOfStep'
        BY <1>1, <3>3, <4>1, <4>2 DEF OutOfStep, FirstWide
      <4> QED
        BY <1>1, <4>1, <4>3 DEF Stream
    <3>4. CASE ~skewed /\ ~call.wide
      <4>1. skewed' = FALSE
        BY <2>1, <3>4
      <4> QED
        BY <1>1, <1>3, <2>1, <3>1, <3>4, <4>1 DEF Stream, InStep, Unanswered, hist
    <3> QED
      BY <3>2, <3>3, <3>4
  <2>6. Chosen' /\ OtherDbOnlyAfterLoss'
    BY <1>1, <2>1 DEF Inv, Chosen, OtherDbOnlyAfterLoss, hist
  <2> QED
    BY <2>3, <2>4, <2>5, <2>6 DEF Inv
<1>4. CASE link # "up"
  <2>1. link' = "poked" /\ c2s' = c2s /\ skewed' = skewed
    BY <1>4 DEF Write, MustConnect
  <2>2. TypeOK'
    BY <1>1, <2>1, FirstRead DEF TypeOK, hist, Links
  <2>3. Ids'
    BY <1>1, <2>1 DEF Ids, hist
  <2>4. Stream'
    BY <1>1, <2>1 DEF Stream, InStep, OutOfStep, FirstWide, Unanswered, hist
  <2>5. Chosen' /\ OtherDbOnlyAfterLoss'
    BY <1>1, <2>1 DEF Inv, Chosen, OtherDbOnlyAfterLoss, hist
  <2> QED
    BY <2>2, <2>3, <2>4, <2>5 DEF Inv
<1> QED
  BY <1>3, <1>4

LEMMA ReadInv ==
    ASSUME Inv, Read
    PROVE  Inv'
<1> DEFINE part == s2c[1].part
           more == IF todo[1] = "first" THEN ReadsAfter(call.kind, part) ELSE Tail(todo)
           negative == call.kind = "get" /\ part = "neg"
           chosen == call.kind = "select" /\ part = "ok"
<1>1. /\ TypeOK /\ Ids /\ Stream /\ Chosen /\ OtherDbOnlyAfterLoss
      /\ pc = "read" /\ s2c # <<>>
      /\ UNCHANGED <<call, sock, link, db, c2s, up, calls, deaths, ran>>
  BY DEF Inv, Read
<1>2. /\ Head(s2c) = s2c[1] /\ s2c[1] \in [id : 1..MaxCalls, part : Parts]
      /\ Len(s2c) \in Nat \ {0}
      /\ Tail(s2c) \in Seq([id : 1..MaxCalls, part : Parts]) /\ Len(Tail(s2c)) = Len(s2c) - 1
      /\ \A i \in 1..Len(s2c) - 1 : Tail(s2c)[i] = s2c[i + 1]
  BY <1>1, TailParts DEF TypeOK
<1>3. todo # <<>> /\ sock
  BY <1>1, FirstRead DEF Stream, InStep, OutOfStep
<1>4. /\ Head(todo) = todo[1] /\ Tail(todo) \in Seq(Reads) /\ Len(Tail(todo)) = Len(todo) - 1
      /\ Len(todo) \in Nat \ {0}
      /\ \A i \in 1..Len(todo) - 1 : Tail(todo)[i] = todo[i + 1]
  BY <1>1, <1>3, TailParts DEF TypeOK
<1>5. more \in Seq(Reads)
  BY <1>4, ReadsType
<1>6. /\ s2c' = Tail(s2c) /\ taken' = taken \cup {s2c[1].id}
      /\ skewed' = (skewed \/ negative)
      /\ IF more # <<>>
           THEN todo' = more /\ UNCHANGED <<pc, last, unanswered, selected>>
           ELSE /\ pc' = "idle" /\ todo' = <<>>
                /\ last' = IF negative THEN "cut" ELSE "replied"
                /\ selected' = IF chosen THEN call.db ELSE selected
                /\ unanswered' = (skewed' \/ (unanswered /\ ~chosen))
  BY <1>2, <1>4 DEF Read
<1> HIDE DEF more
<1>7. TypeOK'
  <2>1. skewed' \in BOOLEAN /\ unanswered' \in BOOLEAN /\ last' \in {"none", "replied", "cut"}
    BY <1>1, <1>6 DEF TypeOK
  <2>2. selected' \in Dbs
    BY <1>1, <1>6 DEF TypeOK, Calls
  <2> QED
    BY <1>1, <1>2, <1>5, <1>6, <2>1, <2>2, NothingSent DEF TypeOK
<1>8. Ids'
  BY <1>1, <1>6 DEF Ids
<1>9. ASSUME skewed PROVE more = <<>> /\ ~negative
  BY <1>1, <1>9 DEF Stream, OutOfStep, more, ReadsAfter
<1>10. ASSUME ~skewed, todo = <<"first">>
       PROVE  /\ taken = {} /\ c2s = <<>> /\ s2c[1].id = call.id
              /\ chosen => db = call.db
              /\ negative => more = <<>>
              /\ ~negative => /\ Len(s2c) - 1 <= Len(more)
                              /\ link = "up" => Len(s2c) - 1 = Len(more)
                              /\ \A i \in 1..Len(s2c) - 1 :
                                   s2c[i + 1].id = call.id /\ Fits(more[i], s2c[i + 1].part)
                              /\ more # <<>> => call.kind # "select"
  <2>1. taken = {} /\ Answered
    BY <1>1, <1>10 DEF Stream, InStep, Unanswered, Reading, Fits, Whole
  <2>2. PICK reply \in Answers(call.kind) :
          /\ Whole(Len(reply))
          /\ \A i \in 1..Len(s2c) : s2c[i] = [id |-> call.id, part |-> reply[i]]
    BY <2>1 DEF Answered
  <2>3. call.kind \in Kinds \ {"decrby", "quit"}
    BY <1>1, <2>1 DEF Answered, TypeOK, Calls
  <2>4. s2c[1].id = call.id /\ part = reply[1]
    BY <1>2, <2>2
  <2>5. more = ReadsAfter(call.kind, reply[1])
    BY <1>10, <2>4 DEF more
  <2>6. /\ Len(reply) \in Nat \ {0}
        /\ call.kind = "select" => Len(reply) = 1
        /\ IF negative THEN more = <<>>
           ELSE /\ Len(more) = Len(reply) - 1
                /\ \A i \in 1..Len(more) : Fits(more[i], reply[i + 1])
    BY <2>3, <2>4, <2>5, AnswerShape
  <2>7. chosen => db = call.db
    BY <1>1, <2>1 DEF Answered
  <2>8. ASSUME ~negative
        PROVE  /\ Len(s2c) - 1 <= Len(more) /\ (link = "up" => Len(s2c) - 1 = Len(more))
               /\ \A i \in 1..Len(s2c) - 1 :
                    s2c[i + 1].id = call.id /\ Fits(more[i], s2c[i + 1].part)
               /\ more # <<>> => call.kind # "select"
    <3>1. Len(s2c) <= Len(reply) /\ (link = "up" => Len(s2c) = Len(reply))
      BY <2>2 DEF Whole
    <3>2. \A i \in 1..Len(s2c) - 1 : i \in 1..Len(more) /\ i + 1 \in 1..Len(s2c)
      BY <1>2, <2>6, <2>8, <3>1
    <3>3. ASSUME NEW i \in 1..Len(s2c) - 1
          PROVE  s2c[i + 1].id = call.id /\ Fits(more[i], s2c[i + 1].part)
      <4>1. i \in 1..Len(more) /\ i + 1 \in 1..Len(s2c)
        BY <3>2
      <4>2. s2c[i + 1] = [id |-> call.id, part |-> reply[i + 1]]
        BY <2>2, <4>1
      <4> QED
        BY <2>6, <2>8, <4>1, <4>2
    <3>4. more # <<>> => Len(more) > 0
      BY <1>5
    <3>5. Len(s2c) - 1 <= Len(more) /\ (link = "up" => Len(s2c) - 1 = Len(more))
      <4>1. Len(s2c) \in Nat /\ Len(reply) \in Nat /\ Len(more) = Len(reply) - 1
        BY <1>2, <2>6, <2>8
      <4> QED
        BY <3>1, <4>1
    <3>6. more # <<>> => call.kind # "select"
      BY <2>6, <2>8, <3>4
    <3> QED
      BY <3>3, <3>5, <3>6
  <2> QED
    BY <2>1, <2>4, <2>6, <2>7, <2>8 DEF Answered
<1>11. ASSUME ~skewed, todo # <<"first">>
       PROVE  /\ taken = {call.id} /\ c2s = <<>> /\ s2c[1].id = call.id
              /\ ~negative /\ ~chosen /\ call.kind # "select"
              /\ Len(s2c) - 1 <= Len(more)
              /\ link = "up" => Len(s2c) - 1 = Len(more)
              /\ \A i \in 1..Len(s2c) - 1 :
                   s2c[i + 1].id = call.id /\ Fits(more[i], s2c[i + 1].part)
  <2>1. Reading
    BY <1>1, <1>11 DEF Stream, InStep
  <2>2. s2c[1].id = call.id /\ Fits(todo[1], part)
    BY <1>2, <2>1 DEF Reading
  <2>3. part # "neg" /\ todo[1] # "first"
    BY <2>2 DEF Fits
  <2>4. more = Tail(todo)
    BY <2>3 DEF more
  <2>5. Len(s2c) <= Len(todo) /\ (link = "up" => Len(s2c) = Len(todo))
    BY <2>1 DEF Reading, Whole
  <2>6. ASSUME NEW i \in 1..Len(s2c) - 1
        PROVE  s2c[i + 1].id = call.id /\ Fits(more[i], s2c[i + 1].part)
    <3>1. Len(s2c) \in Nat /\ Len(todo) \in Nat /\ Len(s2c) <= Len(todo)
      BY <1>2, <1>4, <2>5
    <3>2. i \in 1..Len(todo) - 1 /\ i + 1 \in 1..Len(s2c)
      BY <3>1
    <3> QED
      <4>1. more[i] = todo[i + 1]
        BY ONLY <1>4, <2>4, <3>2
      <4>2. s2c[i + 1].id = call.id /\ Fits(todo[i + 1], s2c[i + 1].part)
        <5>1. i + 1 \in 1..Len(s2c)
          BY ONLY <3>2
        <5> QED
          BY ONLY Zenon, <2>1, <5>1 DEF Reading
      <4> QED
        BY ONLY <4>1, <4>2
  <2>7. Len(s2c) - 1 <= Len(more) /\ (link = "up" => Len(s2c) - 1 = Len(more))
    <3>1. Len(s2c) \in Nat /\ Len(todo) \in Nat /\ Len(more) = Len(todo) - 1
      BY <1>2, <1>4, <2>4
    <3> QED
      BY <2>5, <3>1
  <2>8. taken = {call.id} /\ c2s = <<>> /\ call.kind # "select"
    BY <2>1 DEF Reading
  <2> QED
    BY <2>2, <2>3, <2>6, <2>7, <2>8
<1>12. Stream'
  <2>1. CASE skewed
    BY <1>1, <1>6, <1>9, <2>1 DEF Stream, OutOfStep
  <2>2. CASE ~skewed /\ negative
    <3>1. more = <<>>
      BY <1>10, <1>11, <2>2
    <3> QED
      BY <1>1, <1>3, <1>6, <2>2, <3>1 DEF Stream, OutOfStep
  <2>3. CASE ~skewed /\ ~negative
    <3>1. /\ c2s' = <<>> /\ taken' = {call.id}
          /\ Len(s2c') <= Len(more) /\ (link = "up" => Len(s2c') = Len(more))
          /\ \A i \in 1..Len(s2c') : s2c'[i].id = call.id /\ Fits(more[i], s2c'[i].part)
          /\ more # <<>> => call.kind # "select"
      <4>1. /\ c2s = <<>> /\ taken \cup {s2c[1].id} = {call.id}
            /\ Len(s2c) - 1 <= Len(more) /\ (link = "up" => Len(s2c) - 1 = Len(more))
            /\ \A i \in 1..Len(s2c) - 1 :
                 s2c[i + 1].id = call.id /\ Fits(more[i], s2c[i + 1].part)
            /\ more # <<>> => call.kind # "select"
        <5>1. CASE todo = <<"first">>
          BY ONLY <1>10, <2>3, <5>1
        <5>2. CASE todo # <<"first">>
          BY ONLY <1>11, <2>3, <5>2
        <5> QED
          BY <5>1, <5>2
      <4>2. /\ c2s' = c2s /\ taken' = taken \cup {s2c[1].id} /\ s2c' = Tail(s2c)
            /\ Len(s2c') = Len(s2c) - 1
        BY <1>1, <1>2, <1>6
      <4>3. \A i \in 1..Len(s2c) - 1 : s2c'[i] = s2c[i + 1]
        BY <1>2, <1>6
      <4> QED
        BY ONLY <4>1, <4>2, <4>3
    <3>2. CASE more # <<>>
      <4>1. Reading'
        BY <1>1, <1>6, <3>1, <3>2 DEF Reading, Whole
      <4>2. todo' # <<>> /\ pc' = "read" /\ skewed' = FALSE
        BY <1>1, <1>6, <2>3, <3>2
      <4> QED
        BY <1>1, <1>3, <2>3, <4>1, <4>2 DEF Stream, InStep
    <3>3. CASE more = <<>>
      <4>1. s2c' = <<>>
        BY <1>2, <1>6, <3>1, <3>3
      <4> QED
        BY <1>1, <1>3, <1>6, <2>3, <3>1, <3>3, <4>1 DEF Stream, InStep
    <3> QED
      BY <3>2, <3>3
  <2> QED
    BY <2>1, <2>2, <2>3
<1>13. Chosen'
  <2>1. CASE skewed
    BY <1>6, <1>9, <2>1 DEF Chosen
  <2>2. CASE ~skewed /\ chosen
    <3>1. ~skewed /\ ~negative /\ todo = <<"first">> /\ db = call.db
      BY <1>10, <1>11, <2>2
    <3>2. more = <<>>
      BY <1>10, <2>2, <3>1
    <3>3. link \in {"up", "closed"}
      BY <1>1, <3>1 DEF Stream
    <3> QED
      BY <1>1, <1>3, <1>6, <2>2, <3>1, <3>2, <3>3 DEF Chosen
  <2>3. CASE ~skewed /\ ((unanswered /\ ~chosen) \/ negative)
    BY <1>1, <1>6, <2>3 DEF Chosen
  <2>4. CASE ~skewed /\ ~unanswered /\ ~chosen /\ ~negative
    <3>1. ~skewed
      BY <2>4
    <3>2. link \in {"up", "closed"}
      BY <1>1, <3>1 DEF Stream
    <3>3. link = "up" => db = selected
      BY <1>1, <1>3, <2>4 DEF Chosen
    <3> QED
      BY <1>1, <1>3, <1>6, <2>4, <3>2, <3>3 DEF Chosen
  <2> QED
    BY <2>1, <2>2, <2>3, <2>4
<1>14. OtherDbOnlyAfterLoss'
  BY <1>1 DEF OtherDbOnlyAfterLoss
<1> QED
  BY <1>7, <1>8, <1>12, <1>13, <1>14 DEF Inv

LEMMA EndOfStreamInv ==
    ASSUME Inv, EndOfStream
    PROVE  Inv'
<1>1. TypeOK'
  BY Bounds, DbsAssumption DEF Inv, TypeOK, EndOfStream, Cut, conn, hist, Kinds, Links
<1>2. Ids'
  BY Bounds DEF Inv, TypeOK, Ids, EndOfStream, Cut, conn, hist
<1>3. Stream'
  BY DEF Inv, TypeOK, Stream, InStep, OutOfStep, FirstWide, Unanswered, Answered, Reading, Whole, EndOfStream, Cut, conn, hist
<1>4. Chosen'
  BY DEF Inv, TypeOK, Chosen, Stream, InStep, OutOfStep, FirstWide, Unanswered, Answered, Reading, Whole, EndOfStream, Cut, conn, hist
<1>5. OtherDbOnlyAfterLoss'
  BY DEF Inv, OtherDbOnlyAfterLoss, EndOfStream, Cut, conn, hist
<1> QED
  BY <1>1, <1>2, <1>3, <1>4, <1>5 DEF Inv

LEMMA ReadFailsInv ==
    ASSUME Inv, ReadFails
    PROVE  Inv'
<1>1. TypeOK'
  BY Bounds, DbsAssumption DEF Inv, TypeOK, ReadFails, Cut, conn, hist, Kinds, Links
<1>2. Ids'
  BY Bounds DEF Inv, TypeOK, Ids, ReadFails, Cut, conn, hist
<1>3. Stream'
  BY DEF Inv, TypeOK, Stream, InStep, OutOfStep, FirstWide, Unanswered, Answered, Reading, Whole, ReadFails, Cut, conn, hist
<1>4. Chosen'
  BY DEF Inv, TypeOK, Chosen, Stream, InStep, OutOfStep, FirstWide, Unanswered, Answered, Reading, Whole, ReadFails, Cut, conn, hist
<1>5. OtherDbOnlyAfterLoss'
  BY DEF Inv, OtherDbOnlyAfterLoss, ReadFails, Cut, conn, hist
<1> QED
  BY <1>1, <1>2, <1>3, <1>4, <1>5 DEF Inv

LEMMA ResetArrivesInv ==
    ASSUME Inv, ResetArrives
    PROVE  Inv'
<1>1. TypeOK'
  <2>1. s2c' \in Seq([id : 1..MaxCalls, part : Parts])
    BY NothingSent DEF Inv, TypeOK, ResetArrives
  <2>2. link' \in Links
    BY DEF ResetArrives, Links
  <2> QED
    BY <2>1, <2>2 DEF Inv, TypeOK, ResetArrives, hist
<1>2. Ids'
  BY Bounds DEF Inv, TypeOK, Ids, ResetArrives, conn, hist
<1>3. Stream'
  BY DEF Inv, TypeOK, Stream, InStep, OutOfStep, FirstWide, Unanswered, Answered, Reading, Whole, ResetArrives, conn, hist
<1>4. Chosen'
  BY DEF Inv, TypeOK, Chosen, Stream, InStep, OutOfStep, FirstWide, Unanswered, Answered, Reading, Whole, ResetArrives, conn, hist
<1>5. OtherDbOnlyAfterLoss'
  BY DEF Inv, OtherDbOnlyAfterLoss, ResetArrives, conn, hist
<1> QED
  BY <1>1, <1>2, <1>3, <1>4, <1>5 DEF Inv

LEMMA ExecuteInv ==
    ASSUME Inv, Execute
    PROVE  Inv'
<1> DEFINE S == [id : 1..MaxCalls, part : Parts]
           r == c2s[1]
<1>1. /\ TypeOK /\ Ids /\ Stream /\ Chosen /\ OtherDbOnlyAfterLoss
      /\ link = "up" /\ c2s # <<>> /\ Head(c2s).kind \notin {"decrby", "quit"}
      /\ c2s' = Tail(c2s)
      /\ UNCHANGED <<pc, call, todo, sock, link, skewed, up, calls, deaths, taken,
                     last, selected, unanswered>>
  BY DEF Inv, Execute
<1>2. /\ Head(c2s) = r /\ r \in Calls(1..MaxCalls)
      /\ Len(c2s) \in Nat \ {0} /\ Len(Tail(c2s)) = Len(c2s) - 1
      /\ Tail(c2s) \in Seq(Calls(1..MaxCalls))
      /\ \A i \in 1..Len(c2s) - 1 : Tail(c2s)[i] = c2s[i + 1]
  <2> DEFINE R == Calls(1..MaxCalls)
  <2>1. c2s \in Seq(R)
    BY <1>1 DEF TypeOK
  <2> HIDE DEF R
  <2>2. /\ Head(c2s) = r /\ r \in R
        /\ Len(c2s) \in Nat \ {0} /\ Len(Tail(c2s)) = Len(c2s) - 1 /\ Tail(c2s) \in Seq(R)
        /\ \A i \in 1..Len(c2s) - 1 : Tail(c2s)[i] = c2s[i + 1]
    BY <1>1, <2>1, TailParts
  <2> QED
    BY <2>2 DEF R
<1>3. PICK answer \in Answers(r.kind) :
        /\ LET reply == Reply(r, answer) IN
           s2c' = s2c \o [i \in 1..Len(reply) |-> [id |-> r.id, part |-> reply[i]]]
        /\ ran' = Append(ran, [id |-> r.id, db |-> db, wanted |-> selected, unanswered |-> unanswered])
        /\ db' = IF r.kind = "select" /\ answer = <<"ok">> THEN r.db ELSE db
  BY <1>2 DEF Execute
<1> DEFINE reply == Reply(r, answer)
<1>4. /\ reply \in Seq(Parts) /\ Len(reply) \in Nat \ {0}
      /\ ~r.wide => reply = answer /\ (r.kind = "select" => Len(reply) = 1)
  <2>1. r.kind \in Kinds \ {"decrby", "quit"}
    BY <1>1, <1>2 DEF Calls
  <2>2. /\ answer \in Seq(Parts) /\ Len(answer) \in Nat \ {0}
        /\ r.kind = "select" => Len(answer) = 1
    BY <2>1, AnswerShape
  <2> QED
    BY <2>2, ReplyShape
<1> DEFINE new == [i \in 1..Len(reply) |-> [id |-> r.id, part |-> reply[i]]]
           entry == [id |-> r.id, db |-> db, wanted |-> selected, unanswered |-> unanswered]
<1>5. new \in Seq(S) /\ Len(new) = Len(reply)
  <2>1. \A i \in 1..Len(reply) : [id |-> r.id, part |-> reply[i]] \in S
    <3>1. r.id \in 1..MaxCalls
      BY <1>2 DEF Calls
    <3> HIDE DEF reply
    <3>2. \A i \in 1..Len(reply) : reply[i] \in Parts
      BY <1>4, ElementOf
    <3> QED
      BY <3>1, <3>2
  <2> QED
    BY <1>4, <2>1
<1>6. /\ s2c' \in Seq(S) /\ Len(s2c) \in Nat /\ Len(s2c') = Len(s2c) + Len(reply)
      /\ \A i \in 1..Len(reply) : s2c'[Len(s2c) + i] = [id |-> r.id, part |-> reply[i]]
  <2>1. s2c \in Seq(S) /\ s2c' = s2c \o new
    BY <1>1, <1>3 DEF TypeOK
  <2>2. \A i \in 1..Len(reply) : new[i] = [id |-> r.id, part |-> reply[i]]
    OBVIOUS
  <2> HIDE DEF new, S
  <2>3. /\ s2c' \in Seq(S) /\ Len(s2c) \in Nat /\ Len(s2c') = Len(s2c) + Len(new)
        /\ \A i \in 1..Len(new) : s2c'[Len(s2c) + i] = new[i]
    BY <1>5, <2>1, ConcatParts
  <2> QED
    BY <1>5, <2>2, <2>3
<1> HIDE DEF new, reply
<1>7. /\ ran' \in Seq(Ran)
      /\ Len(ran) \in Nat /\ Len(ran') = Len(ran) + 1
      /\ \A i \in 1..Len(ran) : ran'[i] = ran[i]
      /\ ran'[Len(ran) + 1] = entry
  <2>1. entry \in Ran
    BY <1>1, <1>2 DEF TypeOK, Ran, Calls
  <2> QED
    BY ONLY SMTT(40), <1>1, <1>3, <2>1, AppendParts DEF TypeOK
<1>8. \A i \in 1..Len(ran') : i \in 1..Len(ran) \/ i = Len(ran) + 1
  BY <1>7
<1>9. TypeOK'
  <2>1. db' \in Dbs
    BY <1>1, <1>2, <1>3 DEF TypeOK, Calls
  <2> QED
    BY <1>1, <1>2, <1>6, <1>7, <2>1 DEF TypeOK
<1>10. Ids'
  <2>1. /\ \A i \in 1..Len(ran) : ran[i].id \in Nat
        /\ \A j \in 1..Len(c2s) : c2s[j].id \in Nat
    BY <1>1, ElementTypes
  <2>2. ASSUME NEW j \in 1..Len(c2s')
        PROVE  j + 1 \in 1..Len(c2s) /\ c2s'[j] = c2s[j + 1]
    BY <1>1, <1>2
  <2>3. 1 \in 1..Len(c2s) /\ \A j \in 1..Len(c2s') : 1 < j + 1
    BY <1>2
  <2>4. \A i \in 1..Len(ran') : (i \in 1..Len(ran) /\ ran'[i] = ran[i]) \/ ran'[i].id = r.id
    BY <1>7, <1>8
  <2>5. \A i \in 1..Len(ran') : ran'[i].id <= calls /\ (pc = "write" => ran'[i].id # calls)
    BY <1>1, <2>3, <2>4 DEF Ids
  <2>6. \A j \in 1..Len(c2s') : c2s'[j].id <= calls /\ (pc = "write" => c2s'[j].id # calls)
    BY <1>1, <2>2 DEF Ids
  <2>7. ASSUME NEW i \in 1..Len(ran'), NEW j \in 1..Len(ran'), i < j
        PROVE  ran'[i].id < ran'[j].id
    <3>1. i \in 1..Len(ran) /\ ran'[i] = ran[i]
      BY <1>7, <2>7
    <3> QED
      BY <1>1, <2>3, <2>4, <2>7, <3>1 DEF Ids
  <2>8. ASSUME NEW i \in 1..Len(c2s'), NEW j \in 1..Len(c2s'), i < j
        PROVE  c2s'[i].id < c2s'[j].id
    <3>1. i + 1 < j + 1 /\ i + 1 \in 1..Len(c2s) /\ j + 1 \in 1..Len(c2s)
      BY <2>2, <2>8
    <3> QED
      BY <1>1, <2>2, <3>1 DEF Ids
  <2>9. ASSUME NEW i \in 1..Len(ran'), NEW j \in 1..Len(c2s')
        PROVE  ran'[i].id < c2s'[j].id
    <3>1. j + 1 \in 1..Len(c2s) /\ c2s'[j] = c2s[j + 1] /\ 1 < j + 1
      BY <2>2, <2>3
    <3> QED
      BY <1>1, <2>3, <2>4, <3>1 DEF Ids
  <2> QED
    BY <1>1, <2>5, <2>6, <2>7, <2>8, <2>9 DEF Ids
<1>11. ASSUME ~skewed
       PROVE  /\ pc = "read" /\ todo = <<"first">> /\ taken = {}
              /\ r = call /\ s2c = <<>> /\ c2s' = <<>> /\ ~call.wide /\ reply = answer
  <2>1. pc = "read" /\ todo = <<"first">> /\ taken = {} /\ Unanswered
    BY <1>1, <1>11 DEF Stream, InStep, Answered, Reading
  <2>2. s2c = <<>> /\ c2s = <<call>>
    BY <1>1, <2>1 DEF Unanswered
  <2>3. ~call.wide /\ r = call
    BY <1>1, <1>11, <2>1, <2>2 DEF Stream
  <2> QED
    BY <1>1, <1>4, <2>1, <2>2, <2>3
<1>12. Stream'
  <2>1. CASE skewed
    <3>1. FirstWide => FirstWide'
      BY <1>1, <1>2 DEF FirstWide
    <3> QED
      BY <1>1, <2>1, <3>1 DEF Stream, OutOfStep
  <2>2. CASE ~skewed
    <3>1. /\ Len(s2c') = Len(reply)
          /\ \A i \in 1..Len(reply) : s2c'[i] = [id |-> call.id, part |-> reply[i]]
      BY <1>4, <1>6, <1>11, <2>2, NothingSent
    <3>2. ASSUME call.kind = "select", s2c'[1].part = "ok" PROVE db' = call.db
      <4>1. 1 \in 1..Len(reply) /\ reply[1] = "ok" /\ Len(reply) = 1
        <5>1. Len(reply) = 1
          BY <1>4, <1>11, <2>2, <3>2
        <5>2. s2c'[1] = [id |-> call.id, part |-> reply[1]]
          BY <3>1, <5>1
        <5> QED
          BY <3>2, <5>1, <5>2
      <4>2. reply \in {<<"ok">>, <<"err">>}
        BY <1>11, <2>2, <3>2 DEF Answers
      <4> QED
        BY <1>3, <1>11, <2>2, <3>2, <4>1, <4>2
    <3>3. Answered'
      <4>1. reply \in Answers(call.kind) /\ call.kind \notin {"decrby", "quit"}
        BY <1>1, <1>2, <1>11, <2>2
      <4> QED
        BY ONLY <1>1, <1>4, <1>11, <2>2, <3>1, <3>2, <4>1 DEF Answered, Whole
    <3> QED
      BY <1>1, <1>11, <2>2, <3>3 DEF Stream, InStep
  <2> QED
    BY <2>1, <2>2
<1>13. ~unanswered => db = selected
  <2>1. ~unanswered /\ skewed => call.kind = "status"
    BY <1>1 DEF Stream, OutOfStep, FirstWide
  <2>2. sock
    BY <1>1 DEF Stream
  <2> QED
    BY <1>1, <1>11, <2>1, <2>2 DEF Chosen
<1>14. Chosen'
  <2> SUFFICES ASSUME ~unanswered PROVE Chosen'
    BY <1>1 DEF Chosen
  <2> SUFFICES ASSUME ~skewed PROVE Chosen'
    <3>1. skewed => pc = "read" /\ sock /\ r.kind = "status"
      BY <1>1, <1>2 DEF Stream, OutOfStep, FirstWide
    <3>2. skewed => pc' = "read" /\ sock' /\ db' = selected
      BY <1>1, <1>3, <1>13, <3>1
    <3> QED
      BY <1>1, <3>2 DEF Chosen
  <2>1. ~skewed /\ sock
    BY <1>1 DEF Stream
  <2>2. pc' = "read" /\ sock' /\ UNCHANGED <<link, selected, unanswered, call>>
    BY <1>1, <1>11, <2>1
  <2>3. /\ Len(s2c') = Len(reply) /\ 1 \in 1..Len(reply)
        /\ s2c'[1] = [id |-> call.id, part |-> reply[1]]
    BY <1>4, <1>6, <1>11, <2>1, NothingSent
  <2>4. s2c' # <<>>
    BY <1>4, <2>3, NothingSent
  <2>5. db' = selected \/ (call.kind = "select" /\ reply[1] = "ok")
    BY <1>3, <1>11, <1>13, <2>1
  <2> QED
    BY <2>1, <2>2, <2>3, <2>4, <2>5 DEF Chosen
<1>15. OtherDbOnlyAfterLoss'
  <2>1. DOMAIN ran = 1..Len(ran) /\ DOMAIN ran' = 1..Len(ran')
    BY <1>1, <1>7 DEF TypeOK
  <2>2. entry.db = entry.wanted \/ entry.unanswered
    BY <1>1, <1>13 DEF TypeOK
  <2> QED
    BY <1>1, <1>7, <1>8, <2>1, <2>2 DEF OtherDbOnlyAfterLoss
<1> QED
  BY <1>9, <1>10, <1>12, <1>14, <1>15 DEF Inv

LEMMA LeaveInv ==
    ASSUME Inv, Leave
    PROVE  Inv'
<1>1. TypeOK'
  BY Bounds, DbsAssumption DEF Inv, TypeOK, Leave, Close, conn, hist, Kinds, Links
<1>2. Ids'
  BY Bounds DEF Inv, TypeOK, Ids, Leave, Close, conn, hist
<1>3. Stream'
  <2>1. /\ Stream /\ link = "up" /\ c2s' = <<>> /\ link' \in {"closed", "reset"}
        /\ UNCHANGED <<pc, call, todo, sock, s2c, db, skewed, taken, last, unanswered>>
    BY DEF Inv, Leave, Close, hist
  <2>2. s2c # <<>> /\ ~skewed => link' = "closed"
    BY <2>1 DEF Stream, InStep, Unanswered, Answered, Reading, Leave, Close
  <2>3. CASE skewed
    BY <2>1, <2>3, NothingSent DEF Stream, OutOfStep, FirstWide
  <2>4. CASE ~skewed
    <3>1. InStep'
      BY <2>1, <2>4 DEF Stream, InStep, Unanswered, Answered, Reading, Whole
    <3> QED
      BY <2>1, <2>2, <2>4, <3>1 DEF Stream
  <2> QED
    BY <2>3, <2>4
<1>4. Chosen'
  BY DEF Inv, TypeOK, Chosen, Stream, InStep, OutOfStep, FirstWide, Unanswered, Answered, Reading, Whole, Leave, Close, conn, hist
<1>5. OtherDbOnlyAfterLoss'
  BY DEF Inv, OtherDbOnlyAfterLoss, Leave, Close, conn, hist
<1> QED
  BY <1>1, <1>2, <1>3, <1>4, <1>5 DEF Inv

LEMMA IdleCloseInv ==
    ASSUME Inv, IdleClose
    PROVE  Inv'
<1>1. TypeOK'
  BY Bounds, DbsAssumption DEF Inv, TypeOK, IdleClose, Close, conn, hist, Kinds, Links
<1>2. Ids'
  BY Bounds DEF Inv, TypeOK, Ids, IdleClose, Close, conn, hist
<1>3. Stream'
  <2>1. /\ Stream /\ link = "up" /\ c2s' = <<>> /\ link' \in {"closed", "reset"}
        /\ UNCHANGED <<pc, call, todo, sock, s2c, db, skewed, taken, last, unanswered>>
    BY DEF Inv, IdleClose, Close, hist
  <2>2. s2c # <<>> /\ ~skewed => link' = "closed"
    BY <2>1 DEF Stream, InStep, Unanswered, Answered, Reading, IdleClose, Close
  <2>3. CASE skewed
    BY <2>1, <2>3, NothingSent DEF Stream, OutOfStep, FirstWide
  <2>4. CASE ~skewed
    <3>1. InStep'
      BY <2>1, <2>4 DEF Stream, InStep, Unanswered, Answered, Reading, Whole
    <3> QED
      BY <2>1, <2>2, <2>4, <3>1 DEF Stream
  <2> QED
    BY <2>3, <2>4
<1>4. Chosen'
  BY DEF Inv, TypeOK, Chosen, Stream, InStep, OutOfStep, FirstWide, Unanswered, Answered, Reading, Whole, IdleClose, Close, conn, hist
<1>5. OtherDbOnlyAfterLoss'
  BY DEF Inv, OtherDbOnlyAfterLoss, IdleClose, Close, conn, hist
<1> QED
  BY <1>1, <1>2, <1>3, <1>4, <1>5 DEF Inv

LEMMA DieInv ==
    ASSUME Inv, Die
    PROVE  Inv'
<1>1. /\ TypeOK /\ Ids /\ Stream /\ Chosen /\ OtherDbOnlyAfterLoss
      /\ up /\ deaths < MaxDeaths /\ up' = FALSE /\ deaths' = deaths + 1
      /\ UNCHANGED <<pc, call, todo, sock, db, skewed, calls, taken, hist>>
  BY DEF Inv, Die
<1>2. deaths' \in 0..MaxDeaths
  BY <1>1, Bounds DEF TypeOK
<1>3. CASE link # "up"
  <2>1. UNCHANGED <<link, c2s, s2c>>
    BY <1>3 DEF Die
  <2>2. TypeOK' /\ Ids'
    BY <1>1, <1>2, <2>1 DEF TypeOK, Ids, hist
  <2>3. Stream' /\ Chosen' /\ OtherDbOnlyAfterLoss'
    BY <1>1, <1>3, <2>1 DEF Stream, InStep, OutOfStep, FirstWide, Unanswered, Answered, Reading, Whole,
                            Chosen, OtherDbOnlyAfterLoss, hist
  <2> QED
    BY <2>2, <2>3 DEF Inv
<1>4. CASE link = "up"
  <2>1. PICK n \in 0..Len(s2c) : s2c' = SubSeq(s2c, 1, n)
    BY <1>4 DEF Die
  <2>2. c2s' = <<>> /\ link' = IF c2s # <<>> THEN "reset" ELSE "closed"
    BY <1>4 DEF Die, Close
  <2>3. /\ s2c' \in Seq([id : 1..MaxCalls, part : Parts]) /\ Len(s2c') = n /\ n <= Len(s2c)
        /\ Len(s2c) \in Nat /\ n \in Nat
        /\ \A i \in 1..n : s2c'[i] = s2c[i] /\ i \in 1..Len(s2c)
    <3> DEFINE S == [id : 1..MaxCalls, part : Parts]
    <3>1. s2c \in Seq(S) /\ Len(s2c) \in Nat
      BY <1>1 DEF TypeOK
    <3>2. n \in Nat /\ n <= Len(s2c) /\ \A i \in 1..n : i \in 1..Len(s2c)
      BY <3>1
    <3> HIDE DEF S
    <3>3. s2c' \in Seq(S) /\ Len(s2c') = n /\ \A i \in 1..n : s2c'[i] = s2c[i]
      BY <2>1, <3>1, PrefixParts
    <3> QED
      BY <3>1, <3>2, <3>3 DEF S
  <2>4. s2c = <<>> => s2c' = <<>>
    BY <2>3, NothingSent
  <2>5. TypeOK'
    BY <1>1, <1>2, <2>2, <2>3, NothingSent DEF TypeOK, hist, Links
  <2>6. Ids'
    BY <1>1, <2>2, NothingSent DEF Ids, hist
  <2>7. Stream'
    <3>1. ASSUME Answered PROVE Answered'
      <4>1. PICK reply \in Answers(call.kind) :
              /\ Whole(Len(reply))
              /\ \A i \in 1..Len(s2c) : s2c[i] = [id |-> call.id, part |-> reply[i]]
        BY <3>1 DEF Answered
      <4>2. Len(reply) \in Nat
        BY <1>1, <3>1, AnswerShape DEF Answered, TypeOK
      <4>3. Whole(Len(reply))'
        BY <2>2, <2>3, <4>1, <4>2 DEF Whole
      <4>4. s2c' # <<>> => s2c # <<>> /\ s2c'[1] = s2c[1]
        BY <2>3, <2>4
      <4> QED
        <5>1. \A i \in 1..Len(s2c') : s2c'[i] = [id |-> call.id, part |-> reply[i]]
          BY <2>3, <4>1
        <5>2. c2s' = <<>> /\ call' = call /\ db' = db /\ call.kind \notin {"decrby", "quit"}
          BY <1>1, <2>2, <3>1 DEF Answered
        <5>3. call.kind = "select" /\ s2c' # <<>> => s2c'[1].part # "ok" \/ db = call.db
          BY <3>1, <4>4 DEF Answered
        <5> QED
          BY ONLY <4>1, <4>3, <5>1, <5>2, <5>3 DEF Answered
    <3>2. ASSUME Reading PROVE Reading'
      <4>1. Len(todo) \in Nat
        BY <1>1 DEF TypeOK
      <4>2. Whole(Len(todo))'
        BY <1>1, <2>2, <2>3, <3>2, <4>1 DEF Reading, Whole
      <4> QED
        BY <1>1, <2>2, <2>3, <3>2, <4>2 DEF Reading
    <3>3. Unanswered => Unanswered'
      BY <2>2, <2>4 DEF Unanswered
    <3>4. ~skewed => InStep'
      BY <1>1, <2>2, <2>4, <3>1, <3>2, <3>3 DEF Stream, InStep, hist
    <3>5. ~skewed /\ s2c # <<>> => c2s = <<>>
      BY <1>1 DEF Stream, InStep, Unanswered, Answered, Reading
    <3> QED
      BY <1>1, <1>4, <2>2, <2>4, <3>4, <3>5, NothingSent DEF Stream, OutOfStep, FirstWide, hist
  <2>8. Chosen'
    <3>1. ~unanswered /\ pc # "read" => c2s = <<>>
      BY <1>1 DEF Stream, InStep, OutOfStep, FirstWide
    <3> QED
      BY <1>1, <2>2, <3>1 DEF Chosen, hist
  <2>9. OtherDbOnlyAfterLoss'
    BY <1>1 DEF OtherDbOnlyAfterLoss, hist
  <2> QED
    BY <2>5, <2>6, <2>7, <2>8, <2>9 DEF Inv
<1> QED
  BY <1>3, <1>4

LEMMA RestartInv ==
    ASSUME Inv, Restart
    PROVE  Inv'
<1>1. TypeOK'
  BY Bounds, DbsAssumption DEF Inv, TypeOK, Restart, conn, hist, Kinds, Links
<1>2. Ids'
  BY Bounds DEF Inv, TypeOK, Ids, Restart, conn, hist
<1>3. Stream'
  BY DEF Inv, TypeOK, Stream, InStep, OutOfStep, FirstWide, Unanswered, Answered, Reading, Whole, Restart, conn, hist
<1>4. Chosen'
  BY DEF Inv, TypeOK, Chosen, Stream, InStep, OutOfStep, FirstWide, Unanswered, Answered, Reading, Whole, Restart, conn, hist
<1>5. OtherDbOnlyAfterLoss'
  BY DEF Inv, OtherDbOnlyAfterLoss, Restart, conn, hist
<1> QED
  BY <1>1, <1>2, <1>3, <1>4, <1>5 DEF Inv

LEMMA NextInv == Inv /\ [Next]_vars => Inv'
<1> SUFFICES ASSUME Inv, [Next]_vars PROVE Inv'
  OBVIOUS
<1>1. CASE UNCHANGED vars
  <2>1. TypeOK' /\ Ids'
    BY <1>1 DEF Inv, TypeOK, Ids, vars, conn, hist
  <2>2. Stream' /\ Chosen' /\ OtherDbOnlyAfterLoss'
    BY <1>1 DEF Inv, Stream, InStep, OutOfStep, FirstWide, Unanswered, Answered, Reading, Whole,
                Chosen, OtherDbOnlyAfterLoss, vars, conn, hist
  <2> QED
    BY <2>1, <2>2 DEF Inv
<1> QED
  BY <1>1, BeginInv, ConnectInv, RefusedInv, WriteInv, ReadInv, EndOfStreamInv, ReadFailsInv,
     ResetArrivesInv, ExecuteInv, LeaveInv, IdleCloseInv, DieInv, RestartInv
  DEF Next

LEMMA InvAlways == Spec => []Inv
<1> QED
  BY InitInv, NextInv, PTL DEF Spec

(* Type correctness: in particular @socket, the connection and the database    *)
(* selected on it stay among the states the library distinguishes.             *)
THEOREM RubyTypeCorrect == Spec => []TypeOK
<1>1. Inv => TypeOK
  BY DEF Inv
<1> QED
  BY <1>1, InvAlways, PTL

(* The retry of write never makes the server run a command twice               *)
(* (cutis.rb:341-361).                                                         *)
THEOREM NeverRunTwice == Spec => []RunAtMostOnce
<1>1. Inv => RunAtMostOnce
  <2> SUFFICES ASSUME Inv, NEW i \in DOMAIN ran, NEW j \in DOMAIN ran, i # j
               PROVE  ran[i].id # ran[j].id
    BY DEF RunAtMostOnce
  <2>1. i \in 1..Len(ran) /\ j \in 1..Len(ran)
    BY DEF Inv, TypeOK
  <2>2. ran[i].id \in Nat /\ ran[j].id \in Nat
    BY <2>1, ElementTypes DEF Inv
  <2>3. (i < j => ran[i].id < ran[j].id) /\ (j < i => ran[j].id < ran[i].id)
    BY <2>1 DEF Inv, Ids
  <2> QED
    BY <2>1, <2>2, <2>3
<1> QED
  BY <1>1, InvAlways, PTL

(* A call that returns has read its own reply, all of it and nothing else,     *)
(* whatever became of the calls and connections before, unless a GET of a list *)
(* has left its text behind on this connection, or a value longer in bytes     *)
(* than in characters its last line (cutis.rb:57-67,36,47,156,167).            *)
THEOREM RepliesAlwaysPair == Spec => []RepliesPair
<1>1. Inv => RepliesPair
  BY DEF Inv, Stream, InStep, RepliesPair
<1> QED
  BY <1>1, InvAlways, PTL

(* As long as every call since select_db has read all of its reply, commands   *)
(* are run in the database selected: the retry of write alone never moves the  *)
(* application to another (cutis.rb:352-361).  A call that has not may have    *)
(* returned 0, "" or [] as if it had (cutis.rb:367-374).                       *)
THEOREM DbKeptUntilLoss == Spec => []OtherDbOnlyAfterLoss
<1>1. Inv => OtherDbOnlyAfterLoss
  BY DEF Inv
<1> QED
  BY <1>1, InvAlways, PTL
=============================================================================
