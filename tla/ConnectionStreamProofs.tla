------------------------ MODULE ConnectionStreamProofs ------------------------
(***************************************************************************)
(* Theorems about the requests of a connection: where in the stream the    *)
(* parser stands, and that it answers what was asked.                      *)
(***************************************************************************)
EXTENDS ConnectionProofs, FiniteSetTheorems

(* f[i] is where the i-th request of s ends in the stream.                 *)
IsCut(f, s) ==
  /\ f \in [0 .. Len(s) -> Nat] /\ f[0] = 0
  /\ \A i \in 1 .. Len(s) : f[i] = f[i - 1] + Len(Encode(s[i]))
  /\ \A i, j \in 0 .. Len(s) : i <= j => f[i] <= f[j]

(* x is the stream of the requests s from behind its c-th unit, as far as  *)
(* it goes.                                                                *)
IsStream(f, s, c, x) ==
  \A i \in 1 .. Len(s) : \A p \in 1 .. Len(x) :
    f[i - 1] < c + p /\ c + p <= f[i] => x[p] = Encode(s[i])[c + p - f[i - 1]]

(* The server has taken c units of the stream, and with them m requests,   *)
(* and perhaps the line of another one.                                    *)
Taken(f, m, c) ==
  IF bulk_len = -1 THEN c = f[m]
  ELSE m < Len(sent) /\ argv = sent[m + 1].line /\ c = f[m] + Len(argv) + 2

Coming == query_buf \o inbox

AskedBy(m) == {j \in Asked : j <= m}

(* The parser keeps step with the stream: what it has not looked at begins *)
(* where a request begins, or the data of the one it waits for.            *)
Tracks(f, m, c) ==
  /\ IsCut(f, sent) /\ Taken(f, m, c)
  /\ c + Len(Coming) <= f[Len(sent)]
  /\ peer = "open" => c + Len(Coming) = f[Len(sent)]
  /\ IsStream(f, sent, c, Coming)
  /\ Len(handled) = Cardinality(AskedBy(m))

InStep == open => \E f : \E m \in 0 .. Len(sent) : \E c \in Nat : Tracks(f, m, c)

-----------------------------------------------------------------------------
(* Requests in the stream                                                  *)

LEMMA LineUnits ==
  ASSUME NEW r \in Requests
  PROVE  /\ r.line \in Seq(Units) /\ r.data \in Seq(Units)
         /\ Len(r.line) \in Nat /\ Len(r.data) \in Nat
         /\ \A q \in 1 .. Len(r.line) : r.line[q] # CR /\ r.line[q] # LF
<1>1. /\ r.line \in Seq(Range(r.line)) /\ {CR, LF} \cap Range(r.line) = {}
  BY RequestAssumption
<1>2. \A q \in 1 .. Len(r.line) : r.line[q] \in Range(r.line)
  BY <1>1
<1>3. r.line \in Seq(Units) /\ r.data \in Seq(Units)
  BY UnitTypes
<1>4. Len(r.line) \in Nat /\ Len(r.data) \in Nat
  BY <1>3
<1> QED
  BY <1>1, <1>2, <1>3, <1>4

LEMMA EncodedLength ==
  ASSUME NEW r \in Requests
  PROVE  /\ Len(Encode(r)) \in Nat /\ Len(Encode(r)) >= Len(r.line) + 2
         /\ Kind(r.line) = "bulk" => Len(Encode(r)) = Len(r.line) + 2 + Len(r.data) + 2
         /\ Kind(r.line) # "bulk" => Len(Encode(r)) = Len(r.line) + 2 /\ r.data = <<>>
<1> DEFINE n == Len(Encode(r))
           k == Len(r.line)
           d == Len(r.data)
<1>1. k \in Nat /\ d \in Nat
  BY LineUnits
<1>2. n = k + 2 + (IF Kind(r.line) = "bulk" THEN d + 2 ELSE 0)
  BY EncodeType
<1>3. Kind(r.line) # "bulk" => r.data = <<>>
  <2>1. Kind(r.line) # "bulk" => Len(r.data) = 0
    BY RequestAssumption
  <2> QED
    BY <2>1, UnitTypes, EmptySeq
<1> HIDE DEF n, k, d
<1>4. Kind(r.line) = "bulk" => n = k + 2 + d + 2
  BY <1>1, <1>2
<1>5. Kind(r.line) # "bulk" => n = k + 2
  BY <1>1, <1>2
<1>6. n \in Nat /\ n >= k + 2
  BY <1>1, <1>4, <1>5
<1> QED
  BY <1>3, <1>4, <1>5, <1>6 DEF n, k, d

LEMMA EncodedUnits ==
  ASSUME NEW r \in Requests
  PROVE  /\ Encode(r) \in Seq(Units)
         /\ Len(Encode(r)) = Len(r.line) + 2
                             + (IF Kind(r.line) = "bulk" THEN Len(r.data) + 2 ELSE 0)
         /\ \A q \in 1 .. Len(r.line) : Encode(r)[q] = r.line[q]
         /\ Encode(r)[Len(r.line) + 1] = CR /\ Encode(r)[Len(r.line) + 2] = LF
         /\ Kind(r.line) = "bulk" =>
              \A q \in 1 .. Len(r.data) : Encode(r)[Len(r.line) + 2 + q] = r.data[q]
<1> DEFINE crlf == <<CR, LF>>
           head == r.line \o crlf
           tail == IF Kind(r.line) = "bulk" THEN r.data \o crlf ELSE <<>>
           L == Len(r.line)
<1>1. r.line \in Seq(Units) /\ r.data \in Seq(Units) /\ L \in Nat
  BY LineUnits
<1>2. /\ crlf \in Seq(Units) /\ Len(crlf) = 2 /\ crlf[1] = CR /\ crlf[2] = LF
  BY UnitTypes
<1>3. Encode(r) = head \o tail
  BY DEF Encode
<1> HIDE DEF crlf
<1>4. /\ head \in Seq(Units) /\ Len(head) = L + 2
      /\ \A q \in 1 .. L : head[q] = r.line[q]
      /\ \A j \in 1 .. 2 : head[L + j] = crlf[j]
  <2>1. r.line \in Seq(Units) /\ crlf \in Seq(Units)
    BY <1>1, <1>2
  <2>2. /\ head \in Seq(Units) /\ Len(head) = Len(r.line) + Len(crlf)
        /\ \A q \in 1 .. Len(r.line) : head[q] = r.line[q]
        /\ \A j \in 1 .. Len(crlf) : head[Len(r.line) + j] = crlf[j]
    BY <2>1, Joined
  <2> QED
    BY <1>2, <2>2
<1>5. tail \in Seq(Units)
  <2>1. r.data \o crlf \in Seq(Units)
    BY <1>1, <1>2, ConcatProperties
  <2> QED
    BY <2>1, EmptySeq
<1>6. Kind(r.line) = "bulk" => \A q \in 1 .. Len(r.data) : tail[q] = r.data[q] /\ q \in 1 .. Len(tail)
  <2>1. /\ Len(r.data \o crlf) = Len(r.data) + Len(crlf) /\ Len(r.data) \in Nat
        /\ \A q \in 1 .. Len(r.data) : (r.data \o crlf)[q] = r.data[q]
    BY <1>1, <1>2, Joined
  <2> QED
    BY <1>2, <2>1
<1> HIDE DEF head, tail
<1>7. /\ \A q \in 1 .. Len(head) : (head \o tail)[q] = head[q]
      /\ \A j \in 1 .. Len(tail) : (head \o tail)[Len(head) + j] = tail[j]
  BY ONLY SMTT(40), <1>4, <1>5, Joined
<1>8. /\ \A q \in 1 .. L : Encode(r)[q] = r.line[q]
      /\ Encode(r)[L + 1] = CR /\ Encode(r)[L + 2] = LF
  <2>1. \A q \in 1 .. L : q \in 1 .. Len(head)
    BY <1>1, <1>4
  <2>2. L + 1 \in 1 .. Len(head) /\ L + 2 \in 1 .. Len(head)
    BY <1>1, <1>4
  <2>3. head[L + 1] = CR /\ head[L + 2] = LF
    BY <1>2, <1>4
  <2> QED
    BY <1>3, <1>4, <1>7, <2>1, <2>2, <2>3
<1>9. Kind(r.line) = "bulk" => \A q \in 1 .. Len(r.data) : Encode(r)[L + 2 + q] = r.data[q]
  BY <1>3, <1>4, <1>6, <1>7
<1> QED
  BY <1>8, <1>9, EncodeType

(* b begins as the request does, as far as both go.                        *)
Begins(b, r) == \A p \in 1 .. Len(b) : p <= Len(Encode(r)) => b[p] = Encode(r)[p]

(* The first line in what has come of the stream is that of the next       *)
(* request: there is no LF before its end, and there is one at its end.    *)
LEMMA FirstLine ==
  ASSUME NEW f, NEW s \in Seq(Requests), IsCut(f, s), NEW m \in 0 .. Len(s),
         NEW x \in Seq(Units), IsStream(f, s, f[m], x), f[m] + Len(x) <= f[Len(s)],
         NEW b \in Seq(Units), Len(b) <= Len(x), \A p \in 1 .. Len(b) : b[p] = x[p],
         b # <<>>
  PROVE  /\ m < Len(s) /\ s[m + 1] \in Requests
         /\ Begins(b, s[m + 1])
<1>1. /\ Len(s) \in Nat /\ Len(x) \in Nat /\ Len(b) \in Nat /\ Len(b) > 0 /\ m \in Nat
      /\ f[m] \in Nat /\ f[Len(s)] \in Nat
  BY EmptySeq DEF IsCut
<1>2. m < Len(s)
  BY <1>1
<1>3. m + 1 \in 1 .. Len(s) /\ (m + 1) - 1 = m
  BY <1>1, <1>2
<1>4. s[m + 1] \in Requests
  BY <1>3, ElementOfSeq
<1>5. f[m + 1] = f[m] + Len(Encode(s[m + 1]))
  BY <1>3 DEF IsCut
<1>6. Len(Encode(s[m + 1])) \in Nat
  BY <1>4, EncodeType
<1>7. ASSUME NEW p \in 1 .. Len(b), p <= Len(Encode(s[m + 1])) PROVE b[p] = Encode(s[m + 1])[p]
  <2>1. p \in 1 .. Len(x) /\ f[m] < f[m] + p /\ f[m] + p <= f[m + 1] /\ f[m] + p - f[m] = p
    BY <1>1, <1>5, <1>6, <1>7
  <2>2. x[p] = Encode(s[m + 1])[f[m] + p - f[m]]
    BY <1>3, <2>1 DEF IsStream
  <2> QED
    BY <2>1, <2>2
<1> QED
  BY <1>2, <1>4, <1>7 DEF Begins

LEMMA LineFound ==
  ASSUME NEW r \in Requests, NEW b \in Seq(Units), Begins(b, r),
         NEW e \in DOMAIN b, b[e] = LF, \A i \in 1 .. e - 1 : b[i] # LF
  PROVE  e = Len(r.line) + 2 /\ WithoutCR(SubSeq(b, 1, e - 1)) = r.line
<1> DEFINE L == Len(r.line)
           t == SubSeq(b, 1, e - 1)
<1>1. /\ L \in Nat /\ r.line \in Seq(Units) /\ Len(b) \in Nat /\ e \in 1 .. Len(b)
      /\ \A q \in 1 .. L : r.line[q] # LF
  BY LineUnits
<1>2. /\ Len(Encode(r)) \in Nat /\ Len(Encode(r)) >= L + 2
      /\ \A q \in 1 .. L : Encode(r)[q] = r.line[q]
      /\ Encode(r)[L + 1] = CR /\ Encode(r)[L + 2] = LF
  <2>1. /\ \A q \in 1 .. L : Encode(r)[q] = r.line[q]
        /\ Encode(r)[L + 1] = CR /\ Encode(r)[L + 2] = LF
    BY EncodedUnits
  <2>2. Len(Encode(r)) \in Nat /\ Len(Encode(r)) >= L + 2
    BY EncodedLength
  <2> QED
    BY <2>1, <2>2
<1>3. \A p \in 1 .. L + 2 : p <= Len(Encode(r))
  BY <1>1, <1>2
<1>0. \A p \in 1 .. Len(b) : p <= Len(Encode(r)) => b[p] = Encode(r)[p]
  BY DEF Begins
<1>4. \A p \in 1 .. L + 1 : p \in 1 .. Len(b) => b[p] # LF
  <2>1. \A p \in 1 .. L : p \in 1 .. Len(b) => b[p] # LF
    BY ONLY <1>0, <1>1, <1>2, <1>3
  <2>2. L + 1 \in 1 .. Len(b) => b[L + 1] # LF
    <3>1. L + 1 \in 1 .. L + 2
      BY <1>1
    <3> QED
      BY <1>0, <1>2, <1>3, <3>1, RequestAssumption
  <2> QED
    BY <1>1, <2>1, <2>2
<1>5. e >= L + 2
  BY <1>1, <1>4
<1>6. ~ (e > L + 2)
  <2> SUFFICES ASSUME e > L + 2 PROVE FALSE
    OBVIOUS
  <2>1. L + 2 \in 1 .. Len(b) /\ L + 2 \in 1 .. e - 1 /\ L + 2 \in 1 .. L + 2
    BY <1>1
  <2> QED
    BY <1>0, <1>2, <1>3, <2>1
<1>7. e = L + 2
  BY <1>1, <1>5, <1>6
<1>8. /\ t \in Seq(Units) /\ Len(t) = L + 1
      /\ \A q \in 1 .. L + 1 : t[q] = b[q]
  BY <1>1, <1>7
<1>9. Last(t) = CR /\ t # <<>>
  <2>1. L + 1 \in 1 .. Len(b) /\ L + 1 \in 1 .. L + 2 /\ L + 1 \in 1 .. L + 1
    BY <1>1, <1>7
  <2>2. b[L + 1] = CR
    BY <1>0, <1>2, <1>3, <2>1
  <2> QED
    BY <1>1, <1>8, <2>1, <2>2, EmptySeq DEF Last
<1> HIDE DEF t
<1>10. /\ Front(t) \in Seq(Units) /\ Len(Front(t)) = L
       /\ \A q \in 1 .. L : Front(t)[q] = t[q]
  BY <1>1, <1>8 DEF Front
<1>11. \A q \in 1 .. L : Front(t)[q] = r.line[q]
  <2>1. \A q \in 1 .. L : q \in 1 .. L + 1 /\ q \in 1 .. L + 2 /\ q \in 1 .. Len(b)
    BY <1>1, <1>7
  <2> QED
    BY <1>0, <1>2, <1>3, <1>8, <1>10, <2>1
<1>12. Front(t) = r.line
  <2>1. Len(Front(t)) = Len(r.line)
    BY <1>10
  <2> QED
    BY <1>1, <1>10, <1>11, <2>1, SeqEqual
<1> QED
  BY <1>7, <1>9, <1>12 DEF WithoutCR, t

LEMMA DataFound ==
  ASSUME NEW r \in Requests, Kind(r.line) = "bulk", NEW y \in Seq(Units),
         Len(y) >= Len(r.data),
         \A p \in 1 .. Len(r.data) : y[p] = Encode(r)[Len(r.line) + 2 + p]
  PROVE  SubSeq(y, 1, Len(r.data)) = r.data
<1> DEFINE n == Len(r.data)
           t == SubSeq(y, 1, n)
<1>1. r.data \in Seq(Units) /\ n \in Nat
  BY LineUnits
<1>2. t \in Seq(Units) /\ Len(t) = n /\ \A p \in 1 .. n : t[p] = y[p]
  BY <1>1
<1>3. \A p \in 1 .. n : Encode(r)[Len(r.line) + 2 + p] = r.data[p]
  BY EncodedUnits
<1> HIDE DEF t
<1>4. \A p \in 1 .. Len(t) : t[p] = r.data[p]
  BY <1>2, <1>3
<1>5. Len(t) = Len(r.data)
  BY <1>2
<1>6. t = r.data
  BY <1>1, <1>2, <1>4, <1>5, SeqEqual
<1> QED
  BY <1>6 DEF t

-----------------------------------------------------------------------------
(* What has come, and its order                                            *)

LEMMA RestUnits ==
  ASSUME NEW s \in Seq(Units), NEW d \in 0 .. Len(s)
  PROVE  /\ From(s, d + 1) \in Seq(Units) /\ Len(From(s, d + 1)) = Len(s) - d
         /\ \A k \in 1 .. Len(s) - d : From(s, d + 1)[k] = s[d + k]
<1> DEFINE r == From(s, d + 1)
<1>1. Len(s) \in Nat /\ d \in Nat /\ d + 1 \in Nat \ {0} /\ d + 1 <= Len(s) + 1
  OBVIOUS
<1>2. /\ r \in Seq(Units)
      /\ d + 1 <= Len(s) + 1 => Len(r) = Len(s) - (d + 1) + 1
      /\ \A k \in 1 .. Len(s) - (d + 1) + 1 : r[k] = s[(d + 1) + k - 1]
  BY <1>1, FromType
<1>3. ASSUME NEW k \in 1 .. Len(s) - d PROVE r[k] = s[d + k]
  <2>1. k \in 1 .. Len(s) - (d + 1) + 1 /\ (d + 1) + k - 1 = d + k
    BY <1>1
  <2> QED
    BY <1>2, <2>1
<1> QED
  BY <1>1, <1>2, <1>3

(* The server takes d units from the buffer.                               *)
LEMMA StreamTaken ==
  ASSUME NEW s \in Seq(Units), NEW t \in Seq(Units), NEW d \in 0 .. Len(s)
  PROVE  /\ From(s, d + 1) \in Seq(Units) /\ Len(From(s, d + 1)) = Len(s) - d
         /\ Len(From(s, d + 1) \o t) = Len(s \o t) - d
         /\ \A p \in 1 .. Len(s \o t) - d : (From(s, d + 1) \o t)[p] = (s \o t)[p + d]
<1> DEFINE r == From(s, d + 1)
<1>1. Len(s) \in Nat /\ Len(t) \in Nat /\ d \in Nat
  OBVIOUS
<1>2. r \in Seq(Units) /\ Len(r) = Len(s) - d
  BY RestUnits
<1>3. \A k \in 1 .. Len(s) - d : r[k] = s[d + k]
  BY RestUnits
<1> HIDE DEF r
<1>4. /\ Len(r \o t) = Len(r) + Len(t)
      /\ \A q \in 1 .. Len(r) : (r \o t)[q] = r[q]
      /\ \A j \in 1 .. Len(t) : (r \o t)[Len(r) + j] = t[j]
  <2>1. r \in Seq(Units)
    BY <1>2
  <2> QED
    BY <2>1, Joined
<1>5. /\ Len(s \o t) = Len(s) + Len(t)
      /\ \A q \in 1 .. Len(s) : (s \o t)[q] = s[q]
      /\ \A j \in 1 .. Len(t) : (s \o t)[Len(s) + j] = t[j]
  BY Joined
<1>6. ASSUME NEW p \in 1 .. Len(s \o t) - d PROVE (r \o t)[p] = (s \o t)[p + d]
  <2>1. CASE p <= Len(r)
    <3>1. p \in 1 .. Len(r) /\ p \in 1 .. Len(s) - d /\ d + p \in 1 .. Len(s) /\ d + p = p + d
      BY <1>1, <1>2, <2>1
    <3> QED
      BY <1>3, <1>4, <1>5, <3>1
  <2>2. CASE p > Len(r)
    <3>1. /\ p - Len(r) \in 1 .. Len(t) /\ Len(r) + (p - Len(r)) = p
          /\ Len(s) + (p - Len(r)) = p + d
      BY <1>1, <1>2, <1>5, <2>2
    <3> QED
      BY <1>4, <1>5, <3>1
  <2> QED
    BY <1>1, <1>2, <2>1, <2>2
<1>7. Len(r \o t) = Len(s \o t) - d
  BY <1>1, <1>2, <1>4, <1>5
<1> QED
  BY <1>2, <1>6, <1>7 DEF r

(* n units go from the socket to the buffer.                               *)
LEMMA StreamReceived ==
  ASSUME NEW s \in Seq(Units), NEW t \in Seq(Units), NEW n \in 0 .. Len(t)
  PROVE  LET x == (s \o SubSeq(t, 1, n)) \o From(t, n + 1)
         IN  /\ x \in Seq(Units) /\ Len(x) = Len(s \o t)
             /\ \A p \in 1 .. Len(x) : x[p] = (s \o t)[p]
<1> DEFINE u == SubSeq(t, 1, n)
           v == From(t, n + 1)
           y == s \o u
           x == y \o v
<1>1. Len(s) \in Nat /\ Len(t) \in Nat /\ n \in Nat
  OBVIOUS
<1>2. u \in Seq(Units) /\ Len(u) = n /\ \A p \in 1 .. n : u[p] = t[p]
  BY <1>1
<1>3. /\ v \in Seq(Units) /\ Len(v) = Len(t) - n
      /\ \A k \in 1 .. Len(t) - n : v[k] = t[n + k]
  BY RestUnits
<1> HIDE DEF u, v
<1>4. /\ y \in Seq(Units) /\ Len(y) = Len(s) + Len(u)
      /\ \A q \in 1 .. Len(s) : y[q] = s[q]
      /\ \A j \in 1 .. Len(u) : y[Len(s) + j] = u[j]
  <2>1. u \in Seq(Units)
    BY <1>2
  <2> QED
    BY <2>1, Joined
<1> HIDE DEF y
<1>5. /\ x \in Seq(Units) /\ Len(x) = Len(y) + Len(v)
      /\ \A q \in 1 .. Len(y) : x[q] = y[q]
      /\ \A j \in 1 .. Len(v) : x[Len(y) + j] = v[j]
  <2>1. y \in Seq(Units) /\ v \in Seq(Units)
    BY <1>3, <1>4
  <2> QED
    BY <2>1, Joined
<1>6. /\ Len(s \o t) = Len(s) + Len(t)
      /\ \A q \in 1 .. Len(s) : (s \o t)[q] = s[q]
      /\ \A j \in 1 .. Len(t) : (s \o t)[Len(s) + j] = t[j]
  BY Joined
<1> HIDE DEF x
<1>7. Len(x) = Len(s \o t)
  BY <1>1, <1>2, <1>3, <1>4, <1>5, <1>6
<1>8. ASSUME NEW p \in 1 .. Len(x) PROVE x[p] = (s \o t)[p]
  <2>1. CASE p <= Len(s)
    <3>1. p \in 1 .. Len(s) /\ p \in 1 .. Len(y)
      BY <1>1, <1>2, <1>4, <2>1
    <3> QED
      BY <1>4, <1>5, <1>6, <3>1
  <2>2. CASE p > Len(s) /\ p <= Len(s) + n
    <3>1. /\ p - Len(s) \in 1 .. Len(u) /\ p - Len(s) \in 1 .. n /\ p \in 1 .. Len(y)
          /\ p - Len(s) \in 1 .. Len(t) /\ Len(s) + (p - Len(s)) = p
      BY <1>1, <1>2, <1>4, <2>2
    <3> QED
      BY <1>2, <1>4, <1>5, <1>6, <3>1
  <2>3. CASE p > Len(s) + n
    <3>1. /\ p - (Len(s) + n) \in 1 .. Len(v) /\ p - (Len(s) + n) \in 1 .. Len(t) - n
          /\ Len(y) + (p - (Len(s) + n)) = p
          /\ n + (p - (Len(s) + n)) \in 1 .. Len(t)
          /\ Len(s) + (n + (p - (Len(s) + n))) = p
      BY <1>1, <1>2, <1>3, <1>4, <1>5, <2>3
    <3> QED
      <4> DEFINE j == p - (Len(s) + n)
      <4>1. x[Len(y) + j] = v[j]
        BY ONLY <1>5, <3>1
      <4>2. v[j] = t[n + j]
        BY ONLY <1>3, <3>1
      <4>3. (s \o t)[Len(s) + (n + j)] = t[n + j]
        BY ONLY <1>6, <3>1
      <4> QED
        BY ONLY <3>1, <4>1, <4>2, <4>3
  <2>4. p \in Nat
    OBVIOUS
  <2>5. p <= Len(s) \/ (p > Len(s) /\ p <= Len(s) + n) \/ p > Len(s) + n
    BY <1>1, <2>4
  <2> QED
    BY <2>1, <2>2, <2>3, <2>5
<1> QED
  BY <1>5, <1>7, <1>8 DEF x, y, u, v

(* All but n units of what is in the socket are cut off.                   *)
LEMMA StreamCut ==
  ASSUME NEW s \in Seq(Units), NEW t \in Seq(Units), NEW n \in 0 .. Len(t)
  PROVE  LET x == s \o SubSeq(t, 1, n)
             y == s \o t
         IN  /\ Len(x) \in Nat /\ Len(x) <= Len(y)
             /\ \A p \in 1 .. Len(x) : x[p] = y[p]
<1> DEFINE u == SubSeq(t, 1, n)
<1>1. /\ u \in Seq(Units) /\ Len(u) = n /\ \A k \in 1 .. n : u[k] = t[k]
      /\ Len(s) \in Nat /\ Len(t) \in Nat /\ n \in Nat
  OBVIOUS
<1> HIDE DEF u
<1>2. u \in Seq(Units)
  BY <1>1
<1>3. /\ Len(s \o u) = Len(s) + Len(u)
      /\ \A q \in 1 .. Len(s) : (s \o u)[q] = s[q]
      /\ \A j \in 1 .. Len(u) : (s \o u)[Len(s) + j] = u[j]
  BY <1>2, Joined
<1>4. /\ Len(s \o t) = Len(s) + Len(t)
      /\ \A q \in 1 .. Len(s) : (s \o t)[q] = s[q]
      /\ \A j \in 1 .. Len(t) : (s \o t)[Len(s) + j] = t[j]
  BY Joined
<1>5. Len(s \o u) \in Nat /\ Len(s \o u) <= Len(s \o t)
  BY <1>1, <1>3, <1>4
<1>6. ASSUME NEW p \in 1 .. Len(s \o u) PROVE (s \o u)[p] = (s \o t)[p]
  <2>1. CASE p <= Len(s)
    <3>1. p \in 1 .. Len(s)
      BY <1>1, <2>1
    <3> QED
      BY <1>3, <1>4, <3>1
  <2>2. CASE p > Len(s)
    <3>1. /\ p - Len(s) \in 1 .. Len(u) /\ p - Len(s) \in 1 .. n /\ p - Len(s) \in 1 .. Len(t)
          /\ Len(s) + (p - Len(s)) = p
      BY <1>1, <1>3, <2>2
    <3> QED
      BY <1>1, <1>3, <1>4, <3>1
  <2> QED
    BY <1>1, <2>1, <2>2
<1> QED
  BY <1>5, <1>6 DEF u

LEMMA ComingType ==
  ASSUME TypeInv
  PROVE  /\ query_buf \in Seq(Units) /\ inbox \in Seq(Units) /\ sent \in Seq(Requests)
         /\ Coming \in Seq(Units) /\ Len(Coming) \in Nat /\ Len(sent) \in Nat
         /\ Len(query_buf) \in Nat /\ Len(query_buf) <= Len(Coming)
         /\ \A p \in 1 .. Len(query_buf) : Coming[p] = query_buf[p]
<1>1. query_buf \in Seq(Units) /\ inbox \in Seq(Units) /\ sent \in Seq(Requests)
  BY DEF TypeInv, ServerType
<1>2. /\ Coming \in Seq(Units) /\ Len(query_buf) \in Nat /\ Len(inbox) \in Nat
      /\ Len(Coming) = Len(query_buf) + Len(inbox)
      /\ \A p \in 1 .. Len(query_buf) : Coming[p] = query_buf[p]
  BY <1>1, Joined DEF Coming
<1> QED
  BY <1>1, <1>2

(* Nothing is taken, and nothing comes but perhaps less.                   *)
LEMMA NoneTaken ==
  ASSUME InStep, UNCHANGED <<open, argv, bulk_len, sent, handled>>,
         Len(Coming) \in Nat, Len(Coming') \in Nat, Len(Coming') <= Len(Coming),
         Len(sent) \in Nat,
         \A p \in 1 .. Len(Coming') : Coming'[p] = Coming[p],
         peer' = "open" => peer = "open" /\ Len(Coming') = Len(Coming)
  PROVE  InStep'
<1> SUFFICES ASSUME open' PROVE \E f : \E m \in 0 .. Len(sent') : \E c \in Nat : Tracks(f, m, c)'
  BY DEF InStep
<1>1. PICK f : \E m \in 0 .. Len(sent) : \E c \in Nat : Tracks(f, m, c)
  BY DEF InStep
<1>2. PICK m \in 0 .. Len(sent), c \in Nat : Tracks(f, m, c)
  BY <1>1
<1>3. IsCut(f, sent') /\ Taken(f, m, c)'
  BY <1>2 DEF Tracks, Taken
<1>4. /\ c + Len(Coming') <= f[Len(sent')]
      /\ peer' = "open" => c + Len(Coming') = f[Len(sent')]
  <2>1. f[Len(sent)] \in Nat
    BY <1>2 DEF Tracks, IsCut
  <2> QED
    BY <1>2, <2>1 DEF Tracks
<1>5. IsStream(f, sent', c, Coming')
  <2>1. \A p \in 1 .. Len(Coming') : p \in 1 .. Len(Coming)
    OBVIOUS
  <2> QED
    BY <1>2, <2>1 DEF Tracks, IsStream
<1>6. Len(handled') = Cardinality(AskedBy(m)')
  BY <1>2 DEF Tracks, AskedBy, Asked
<1>7. Tracks(f, m, c)'
  BY <1>3, <1>4, <1>5, <1>6 DEF Tracks
<1> QED
  BY <1>7

(* The parser takes d units.                                               *)
LEMMA SomeTaken ==
  ASSUME TypeInv, NEW f, NEW m, NEW c \in Nat, Tracks(f, m, c),
         NEW d \in 0 .. Len(query_buf), query_buf' = From(query_buf, d + 1),
         UNCHANGED <<inbox, peer, sent>>,
         NEW m2 \in 0 .. Len(sent), Taken(f, m2, c + d)',
         Len(handled') = Cardinality(AskedBy(m2)')
  PROVE  InStep'
<1>1. /\ query_buf \in Seq(Units) /\ inbox \in Seq(Units) /\ Len(Coming) \in Nat
      /\ Len(query_buf) <= Len(Coming) /\ d \in Nat
  BY ComingType
<1>2. /\ Len(Coming') = Len(Coming) - d
      /\ \A p \in 1 .. Len(Coming) - d : Coming'[p] = Coming[p + d]
  BY <1>1, StreamTaken DEF Coming
<1>3. f[Len(sent)] \in Nat
  BY <1>1, ComingType DEF Tracks, IsCut
<1>4. /\ c + d + Len(Coming') <= f[Len(sent')]
      /\ peer' = "open" => c + d + Len(Coming') = f[Len(sent')]
  BY <1>1, <1>2, <1>3 DEF Tracks
<1>5. IsStream(f, sent', c + d, Coming')
  <2> SUFFICES ASSUME NEW i \in 1 .. Len(sent), NEW p \in 1 .. Len(Coming'),
                      f[i - 1] < c + d + p, c + d + p <= f[i]
               PROVE  Coming'[p] = Encode(sent[i])[c + d + p - f[i - 1]]
    BY DEF IsStream
  <2>1. /\ p \in 1 .. Len(Coming) - d /\ p + d \in 1 .. Len(Coming)
        /\ c + d + p = c + (p + d)
    BY ONLY <1>1, <1>2
  <2>2. Coming[p + d] = Encode(sent[i])[c + (p + d) - f[i - 1]]
    BY <2>1 DEF Tracks, IsStream
  <2>3. Coming'[p] = Coming[p + d]
    BY <1>2, <2>1
  <2>4. c + d + p - f[i - 1] = c + (p + d) - f[i - 1]
    <3>1. i - 1 \in 0 .. Len(sent) /\ p \in Nat
      BY ComingType
    <3>2. f[i - 1] \in Nat
      BY <3>1 DEF Tracks, IsCut
    <3> QED
      BY ONLY SMTT(40), <1>1, <3>1, <3>2
  <2> QED
    BY <2>2, <2>3, <2>4
<1>6. IsCut(f, sent')
  BY DEF Tracks
<1>7. Tracks(f, m2, c + d)'
  BY <1>4, <1>5, <1>6 DEF Tracks
<1>8. c + d \in Nat /\ m2 \in 0 .. Len(sent')
  BY <1>1
<1> QED
  BY <1>7, <1>8 DEF InStep

(* The client sends a request.                                             *)
LEMMA CutExtended ==
  ASSUME NEW s \in Seq(Requests), NEW r \in Requests, NEW f, IsCut(f, s)
  PROVE  \E g : /\ IsCut(g, Append(s, r)) /\ \A i \in 0 .. Len(s) : g[i] = f[i]
                /\ g[Len(s) + 1] = f[Len(s)] + Len(Encode(r))
<1> DEFINE t == Append(s, r)
           n == Len(s)
           k == Len(Encode(r))
           g == [i \in 0 .. n + 1 |-> IF i = n + 1 THEN f[n] + k ELSE f[i]]
<1>1. n \in Nat /\ k \in Nat
  BY EncodeType
<1>2. t \in Seq(Requests) /\ Len(t) = n + 1 /\ t[n + 1] = r /\ \A i \in 1 .. n : t[i] = s[i]
  BY AppendProperties
<1>3. /\ f \in [0 .. n -> Nat] /\ f[0] = 0
      /\ \A i \in 1 .. n : f[i] = f[i - 1] + Len(Encode(s[i]))
      /\ \A i, j \in 0 .. n : i <= j => f[i] <= f[j]
  BY DEF IsCut
<1>4. \A i \in 0 .. n : f[i] \in Nat /\ f[i] <= f[n]
  <2>1. n \in 0 .. n
    BY <1>1
  <2>2. \A i \in 0 .. n : i <= n
    BY <1>1
  <2> QED
    BY <1>3, <2>1, <2>2
<1> HIDE DEF t, k, n
<1>5. g \in [0 .. n + 1 -> Nat]
  BY <1>1, <1>4
<1>6. /\ \A i \in 0 .. n : g[i] = f[i]
      /\ g[n + 1] = f[n] + k
  BY <1>1
<1> HIDE DEF g
<1>7. \A i \in 1 .. n + 1 : g[i] = g[i - 1] + Len(Encode(t[i]))
  <2>1. ASSUME NEW i \in 1 .. n PROVE g[i] = g[i - 1] + Len(Encode(t[i]))
    <3>1. i \in 0 .. n /\ i - 1 \in 0 .. n
      BY <1>1
    <3> QED
      BY <1>2, <1>3, <1>6, <3>1
  <2>2. g[n + 1] = g[n + 1 - 1] + Len(Encode(t[n + 1]))
    BY <1>1, <1>2, <1>6 DEF k
  <2>3. ASSUME NEW i \in 1 .. n + 1 PROVE g[i] = g[i - 1] + Len(Encode(t[i]))
    <3>1. i \in 1 .. n \/ i = n + 1
      BY <1>1
    <3>2. CASE i = n + 1
      BY <1>1, <2>2, <3>2
    <3> QED
      BY <2>1, <3>1, <3>2
  <2> QED
    BY <2>3
<1>8. \A i, j \in 0 .. n + 1 : i <= j => g[i] <= g[j]
  <2>1. \A i \in 0 .. n + 1 : i \in 0 .. n \/ i = n + 1
    BY <1>1
  <2>2. \A i \in 0 .. n : g[i] = f[i] /\ f[i] \in Nat /\ f[i] <= f[n] /\ f[n] \in Nat
    BY <1>1, <1>4, <1>6
  <2>3. \A i \in 0 .. n : ~ (n + 1 <= i)
    BY <1>1
  <2>4. ASSUME NEW i \in 0 .. n + 1, NEW j \in 0 .. n + 1, i <= j PROVE g[i] <= g[j]
    <3>1. CASE i \in 0 .. n /\ j \in 0 .. n
      BY <1>3, <2>2, <2>4, <3>1
    <3>2. CASE i \in 0 .. n /\ j = n + 1
      <4>1. f[i] <= f[n] + k
        BY <1>1, <2>2, <3>2
      <4> QED
        BY <1>6, <2>2, <3>2, <4>1
    <3>3. CASE i = n + 1
      <4>1. j = n + 1
        BY <1>1, <2>4, <3>3
      <4>2. g[n + 1] \in Nat
        BY <1>1, <1>5
      <4> QED
        BY <3>3, <4>1, <4>2
    <3> QED
      BY <2>1, <3>1, <3>2, <3>3
  <2> QED
    BY <2>4
<1>9. g[0] = 0
  BY <1>1, <1>3, <1>6
<1>10. IsCut(g, t)
  BY <1>2, <1>5, <1>7, <1>8, <1>9 DEF IsCut
<1> QED
  BY <1>6, <1>10 DEF t, n, k

LEMMA RequestSent ==
  ASSUME TypeInv, InStep, NEW r \in Requests, ClientSends(r) PROVE InStep'
<1> SUFFICES ASSUME open' PROVE \E f : \E m \in 0 .. Len(sent') : \E c \in Nat : Tracks(f, m, c)'
  BY DEF InStep
<1>0. /\ UNCHANGED <<open, query_buf, argv, bulk_len, handled, peer>> /\ peer = "open"
      /\ sent' = Append(sent, r) /\ inbox' = inbox \o Encode(r)
  BY DEF ClientSends, client
<1>1. PICK f : \E m \in 0 .. Len(sent) : \E c \in Nat : Tracks(f, m, c)
  BY <1>0 DEF InStep
<1>2. PICK m \in 0 .. Len(sent), c \in Nat : Tracks(f, m, c)
  BY <1>1
<1> DEFINE e == Encode(r)
           n == Len(sent)
           x == Coming
           y == Coming'
<1>3. /\ sent \in Seq(Requests) /\ n \in Nat /\ e \in Seq(Units) /\ Len(e) \in Nat
      /\ query_buf \in Seq(Units) /\ inbox \in Seq(Units) /\ x \in Seq(Units) /\ Len(x) \in Nat
  <2>1. e \in Seq(Units)
    BY EncodeType
  <2>2. Len(e) \in Nat
    BY EncodedLength
  <2> HIDE DEF e
  <2> QED
    BY <2>1, <2>2, ComingType
<1>4. /\ sent' \in Seq(Requests) /\ Len(sent') = n + 1 /\ sent'[n + 1] = r
      /\ \A i \in 1 .. n : sent'[i] = sent[i]
  BY <1>0, <1>3, AppendProperties
<1>5. PICK g : /\ IsCut(g, sent') /\ \A i \in 0 .. n : g[i] = f[i]
               /\ g[n + 1] = f[n] + Len(e)
  BY <1>0, <1>2, <1>3, CutExtended DEF Tracks
<1>6. /\ IsStream(f, sent, c, x) /\ c + Len(x) = f[n] /\ f[n] \in Nat
      /\ \A i \in 0 .. n : f[i] \in Nat /\ f[i] <= f[n]
  <2>1. IsCut(f, sent) /\ n \in 0 .. n /\ \A i \in 0 .. n : i <= n
    BY <1>2, <1>3 DEF Tracks
  <2> QED
    BY <1>0, <1>2, <2>1 DEF Tracks, IsCut
<1>7. y = x \o e
  <2>1. Coming' = query_buf \o (inbox \o Encode(r))
    BY <1>0 DEF Coming
  <2>2. query_buf \o (inbox \o Encode(r)) = (query_buf \o inbox) \o Encode(r)
    <3>1. Encode(r) \in Seq(Units)
      BY EncodeType
    <3>2. query_buf \in Seq(Units) /\ inbox \in Seq(Units)
      BY <1>3
    <3> HIDE DEF e, x, y, n
    <3> QED
      BY ONLY SMTT(40), <3>1, <3>2, ConcatAssociative
  <2> QED
    BY <2>1, <2>2, Zenon DEF Coming
<1> HIDE DEF e, x, y, n
<1>8. /\ Len(y) = Len(x) + Len(e)
      /\ \A q \in 1 .. Len(x) : y[q] = x[q]
      /\ \A j \in 1 .. Len(e) : y[Len(x) + j] = e[j]
  <2>1. x \in Seq(Units) /\ e \in Seq(Units)
    BY <1>3
  <2>2. /\ Len(x \o e) = Len(x) + Len(e)
        /\ \A q \in 1 .. Len(x) : (x \o e)[q] = x[q]
        /\ \A j \in 1 .. Len(e) : (x \o e)[Len(x) + j] = e[j]
    BY <2>1, Joined
  <2> QED
    BY <1>7, <2>2
<1>9. c + Len(y) = g[n + 1]
  BY <1>3, <1>5, <1>6, <1>8
<1>10. IsStream(g, sent', c, y)
  <2>1. ASSUME NEW i \in 1 .. n, NEW p \in 1 .. Len(y), g[i - 1] < c + p, c + p <= g[i]
        PROVE  y[p] = Encode(sent'[i])[c + p - g[i - 1]]
    <3>1. i \in 0 .. n /\ i - 1 \in 0 .. n /\ p \in Nat
      BY <1>3, <1>8
    <3>2. g[i] = f[i] /\ g[i - 1] = f[i - 1] /\ f[i] \in Nat /\ f[i] <= f[n]
      BY <1>5, <1>6, <3>1
    <3>3. p \in 1 .. Len(x)
      BY <1>3, <1>6, <2>1, <3>1, <3>2
    <3>4. x[p] = Encode(sent[i])[c + p - f[i - 1]]
      BY <1>6, <2>1, <3>2, <3>3 DEF IsStream, n
    <3> QED
      BY <1>4, <1>8, <3>2, <3>3, <3>4
  <2>2. ASSUME NEW p \in 1 .. Len(y), g[n + 1 - 1] < c + p
        PROVE  y[p] = Encode(sent'[n + 1])[c + p - g[n + 1 - 1]]
    <3>1. n + 1 - 1 = n /\ n \in 0 .. n
      BY <1>3
    <3>2. g[n + 1 - 1] = f[n] /\ p \in Nat
      BY <1>3, <1>5, <1>8, <3>1
    <3>3. /\ p - Len(x) \in 1 .. Len(e) /\ Len(x) + (p - Len(x)) = p
          /\ c + p - f[n] = p - Len(x)
      BY <1>3, <1>6, <1>8, <2>2, <3>2
    <3>4. y[p] = e[p - Len(x)]
      BY <1>8, <3>3
    <3> QED
      BY <1>4, <3>2, <3>3, <3>4 DEF e
  <2>3. ASSUME NEW i \in 1 .. n + 1, NEW p \in 1 .. Len(y), g[i - 1] < c + p, c + p <= g[i]
        PROVE  y[p] = Encode(sent'[i])[c + p - g[i - 1]]
    <3>1. i \in 1 .. n \/ i = n + 1
      BY <1>3
    <3>2. CASE i = n + 1
      <4>1. n \in Nat
        BY <1>3
      <4>2. n + 1 - 1 = i - 1
        BY <3>2, <4>1
      <4>3. g[n + 1 - 1] < c + p
        BY <2>3, <4>2
      <4>4. y[p] = Encode(sent'[n + 1])[c + p - g[n + 1 - 1]]
        BY <2>2, <4>3
      <4> QED
        BY <3>2, <4>2, <4>4
    <3>3. CASE i \in 1 .. n
      BY <2>1, <2>3, <3>3, Zenon
    <3> QED
      BY <3>1, <3>2, <3>3
  <2> QED
    BY <1>4, <2>3 DEF IsStream
<1>11. m \in 0 .. n /\ m \in 0 .. n + 1
  BY <1>2, <1>3 DEF n
<1>12. Taken(g, m, c)'
  <2>1. Taken(f, m, c) /\ g[m] = f[m]
    BY <1>2, <1>5, <1>11 DEF Tracks
  <2>2. m < n => m < n + 1 /\ sent'[m + 1] = sent[m + 1]
    BY <1>3, <1>4, <1>11
  <2> QED
    BY <1>0, <1>4, <2>1, <2>2 DEF Taken, n
<1>13. Len(handled') = Cardinality(AskedBy(m)')
  <2>1. AskedBy(m)' = AskedBy(m)
    <3>1. \A j : j \in DOMAIN sent' /\ j <= m <=> j \in DOMAIN sent /\ j <= m
      <4>1. DOMAIN sent' = 1 .. n + 1 /\ DOMAIN sent = 1 .. n
        BY <1>3, <1>4 DEF n
      <4> QED
        BY <1>3, <1>11, <4>1
    <3>2. \A j \in DOMAIN sent : sent'[j] = sent[j]
      <4>1. DOMAIN sent = 1 .. n
        BY <1>3 DEF n
      <4> QED
        BY <1>4, <4>1
    <3> QED
      BY <3>1, <3>2 DEF AskedBy, Asked
  <2> QED
    BY <1>0, <1>2, <2>1 DEF Tracks
<1>14. Tracks(g, m, c)'
  <2>1. c + Len(y) \in Nat
    BY <1>3, <1>8
  <2> QED
    BY <1>4, <1>5, <1>9, <1>10, <1>12, <1>13, <2>1 DEF Tracks, y
<1> QED
  BY <1>4, <1>11, <1>14

-----------------------------------------------------------------------------
(* The requests answered                                                   *)

LEMMA AskedCount ==
  ASSUME TypeInv, NEW m \in 0 .. Len(sent), m < Len(sent)
  PROVE  /\ Cardinality(AskedBy(m)) \in Nat
         /\ Cardinality(AskedBy(m + 1)) =
              IF sent[m + 1].line = <<>> THEN Cardinality(AskedBy(m))
              ELSE Cardinality(AskedBy(m)) + 1
<1>1. Len(sent) \in Nat /\ DOMAIN sent = 1 .. Len(sent) /\ m \in Nat /\ m + 1 \in 1 .. Len(sent)
  BY ComingType
<1>2. IsFiniteSet(AskedBy(m))
  <2>1. AskedBy(m) \in SUBSET (1 .. m)
    BY <1>1 DEF AskedBy, Asked
  <2>2. IsFiniteSet(1 .. m)
    BY <1>1, FS_Interval
  <2> QED
    BY <2>1, <2>2, FS_Subset
<1>3. Cardinality(AskedBy(m)) \in Nat
  BY <1>2, FS_CardinalityType
<1>4. \A j \in 1 .. Len(sent) : j <= m + 1 <=> j <= m \/ j = m + 1
  BY <1>1
<1>5. CASE sent[m + 1].line = <<>>
  <2>1. AskedBy(m + 1) = AskedBy(m)
    BY <1>1, <1>4, <1>5 DEF AskedBy, Asked
  <2> QED
    BY <1>3, <1>5, <2>1
<1>6. CASE sent[m + 1].line # <<>>
  <2>1. AskedBy(m + 1) = AskedBy(m) \cup {m + 1}
    BY <1>1, <1>4, <1>6 DEF AskedBy, Asked
  <2>2. m + 1 \notin AskedBy(m)
    BY <1>1 DEF AskedBy
  <2> QED
    BY <1>2, <1>3, <1>6, <2>1, <2>2, FS_AddElement
<1> QED
  BY <1>5, <1>6

LEMMA OneAnswered ==
  ASSUME TypeInv, HandledAreSent, NEW m \in 0 .. Len(sent), m < Len(sent),
         Len(handled) = Cardinality(AskedBy(m)), sent[m + 1].line # <<>>,
         handled' = Append(handled, sent[m + 1]), sent' = sent
  PROVE  HandledAreSent' /\ Len(handled') = Cardinality(AskedBy(m + 1)')
<1>1. handled \in Answers /\ Len(handled) \in Nat
  BY DEF TypeInv, ReplyType, Answers
<1>2. /\ Len(handled') = Len(handled) + 1 /\ handled'[Len(handled) + 1] = sent[m + 1]
      /\ \A k \in 1 .. Len(handled) : handled'[k] = handled[k]
      /\ DOMAIN handled' = 1 .. Len(handled) + 1 /\ DOMAIN handled = 1 .. Len(handled)
  BY <1>1 DEF Answers
<1>3. Cardinality(AskedBy(m + 1)) = Len(handled) + 1
  BY AskedCount
<1>4. Asked' = Asked /\ AskedBy(m + 1)' = AskedBy(m + 1)
  BY DEF AskedBy, Asked
<1>5. Len(sent) \in Nat /\ m + 1 \in Asked
  BY ComingType DEF Asked
<1>6. ASSUME NEW k \in DOMAIN handled'
      PROVE  \E i \in Asked : handled'[k] = sent[i] /\ Cardinality({j \in Asked : j <= i}) = k
  <2>1. CASE k \in DOMAIN handled
    BY <1>2, <2>1 DEF HandledAreSent
  <2>2. CASE k = Len(handled) + 1
    BY <1>2, <1>3, <1>5, <2>2 DEF AskedBy
  <2>3. k \in DOMAIN handled \/ k = Len(handled) + 1
    BY <1>1, <1>2
  <2> QED
    BY <2>1, <2>2, <2>3
<1>7. HandledAreSent'
  BY <1>4, <1>6 DEF HandledAreSent
<1> QED
  BY <1>2, <1>3, <1>4, <1>7

LEMMA SameAnswers ==
  ASSUME HandledAreSent, UNCHANGED <<sent, handled>> PROVE HandledAreSent'
<1>1. Asked' = Asked
  BY DEF Asked
<1> QED
  BY <1>1 DEF HandledAreSent

LEMMA SentGrows ==
  ASSUME TypeInv, HandledAreSent, NEW r, ClientSends(r) PROVE HandledAreSent'
<1>1. sent' = Append(sent, r) /\ handled' = handled
  BY DEF ClientSends
<1>2. sent \in Seq(Requests) /\ Len(sent) \in Nat
  BY ComingType
<1>3. /\ DOMAIN sent = 1 .. Len(sent) /\ DOMAIN sent' = 1 .. Len(sent) + 1
      /\ \A i \in 1 .. Len(sent) : sent'[i] = sent[i]
  BY <1>1, <1>2
<1>4. ASSUME NEW i \in Asked
      PROVE  /\ i \in Asked' /\ sent'[i] = sent[i]
             /\ {j \in Asked' : j <= i} = {j \in Asked : j <= i}
  <2>1. i \in 1 .. Len(sent)
    BY <1>3 DEF Asked
  <2>2. \A j : j \in 1 .. Len(sent) + 1 /\ j <= i <=> j \in 1 .. Len(sent) /\ j <= i
    BY <1>2, <2>1
  <2>3. 1 .. Len(sent) \subseteq 1 .. Len(sent) + 1
    BY <1>2
  <2> QED
    BY <1>3, <2>1, <2>2, <2>3 DEF Asked
<1> QED
  BY <1>1, <1>4 DEF HandledAreSent

-----------------------------------------------------------------------------
(* The parser                                                              *)

LEMMA FromFrom ==
  ASSUME NEW q \in Seq(Units), NEW d \in 0 .. Len(q), NEW n \in 0 .. Len(q) - d
  PROVE  From(From(q, d + 1), n + 1) = From(q, d + n + 1)
<1> DEFINE r == From(q, d + 1)
           u == From(r, n + 1)
           v == From(q, d + n + 1)
<1>1. Len(q) \in Nat /\ d \in Nat /\ n \in Nat
  OBVIOUS
<1>2. r \in Seq(Units) /\ Len(r) = Len(q) - d /\ \A k \in 1 .. Len(q) - d : r[k] = q[d + k]
  BY RestUnits
<1> HIDE DEF r
<1>3. u \in Seq(Units) /\ Len(u) = Len(r) - n /\ \A k \in 1 .. Len(r) - n : u[k] = r[n + k]
  <2>1. r \in Seq(Units) /\ n \in 0 .. Len(r)
    BY <1>1, <1>2
  <2> QED
    BY <2>1, RestUnits
<1>4. /\ v \in Seq(Units) /\ Len(v) = Len(q) - (d + n)
      /\ \A k \in 1 .. Len(q) - (d + n) : v[k] = q[(d + n) + k]
  <2>1. d + n \in 0 .. Len(q)
    BY <1>1
  <2> QED
    BY <2>1, RestUnits
<1> HIDE DEF u, v
<1>5. Len(u) = Len(v)
  BY <1>1, <1>2, <1>3, <1>4
<1>6. ASSUME NEW k \in 1 .. Len(u) PROVE u[k] = v[k]
  <2>1. /\ k \in 1 .. Len(r) - n /\ n + k \in 1 .. Len(q) - d /\ k \in 1 .. Len(q) - (d + n)
        /\ d + (n + k) = (d + n) + k
    BY <1>1, <1>2, <1>3
  <2> QED
    BY <1>2, <1>3, <1>4, <2>1
<1> QED
  BY <1>3, <1>4, <1>5, <1>6, SeqEqual DEF u, v, r

(* A request is its line and its data.                                     *)
LEMMA RequestIs ==
  ASSUME NEW r \in Requests
  PROVE  /\ r = [line |-> r.line, data |-> r.data]
         /\ Kind(r.line) = "bulk" => Table[r.line].count = Len(r.data) /\ r.line \in DOMAIN Table
         /\ r.line = <<>> => Kind(r.line) = "error"
BY RequestAssumption, TableAssumption DEF Kind

LEMMA NextRequest ==
  ASSUME TypeInv, NEW f, IsCut(f, sent), NEW m \in 0 .. Len(sent), m < Len(sent)
  PROVE  /\ sent[m + 1] \in Requests /\ m + 1 \in 0 .. Len(sent) /\ m + 1 \in 1 .. Len(sent)
         /\ f[m] \in Nat /\ f[m + 1] = f[m] + Len(Encode(sent[m + 1]))
<1>1. Len(sent) \in Nat /\ sent \in Seq(Requests)
  BY ComingType
<1>2. m + 1 \in 1 .. Len(sent) /\ m + 1 \in 0 .. Len(sent) /\ (m + 1) - 1 = m
  BY <1>1
<1>3. sent[m + 1] \in Requests
  BY <1>1, <1>2, ElementOfSeq
<1> QED
  BY <1>2, <1>3 DEF IsCut

LineEnd(r) == Len(r.line) + 2

LEMMA LineEnds ==
  ASSUME NEW r \in Requests
  PROVE  /\ LineEnd(r) \in Nat
         /\ Kind(r.line) = "bulk" => Len(Encode(r)) = LineEnd(r) + Len(r.data) + 2
         /\ Kind(r.line) # "bulk" => Len(Encode(r)) = LineEnd(r) /\ r.data = <<>>
<1>1. Len(r.line) \in Nat /\ Len(r.data) \in Nat
  BY LineUnits
<1>2. LineEnd(r) = Len(r.line) + 2
  BY DEF LineEnd
<1>3. LineEnd(r) \in Nat
  BY <1>1, <1>2
<1>4. /\ Kind(r.line) = "bulk" => Len(Encode(r)) = Len(r.line) + 2 + Len(r.data) + 2
      /\ Kind(r.line) # "bulk" => Len(Encode(r)) = Len(r.line) + 2 /\ r.data = <<>>
  BY EncodedLength
<1> QED
  BY <1>1, <1>2, <1>3, <1>4

LEMMA BulkFits ==
  ASSUME NEW q \in Nat, NEW k \in Nat, NEW d \in Nat, NEW n \in Nat,
         n = k + 2, q - d >= n
  PROVE  /\ n \in 0 .. q - d /\ d + n \in 0 .. q /\ n - 2 = k /\ q - d >= k
         /\ d + n = d + k + 2
         /\ \A p \in 1 .. k : /\ p \in 1 .. q - d /\ d + p \in 1 .. q
                              /\ d + p <= d + k + 2
OBVIOUS

(* All of a bulk command is in the buffer.                                 *)
LEMMA BulkWhole ==
  ASSUME NEW r \in Requests, Kind(r.line) = "bulk", NEW b \in Seq(Units), Begins(b, r),
         NEW d \in 0 .. Len(b), d = LineEnd(r), NEW n, n = Table[r.line].count + 2,
         Len(From(b, d + 1)) >= n
  PROVE  /\ n \in 0 .. Len(b) - d /\ d + n \in 0 .. Len(b) /\ d + n = Len(Encode(r))
         /\ SubSeq(From(b, d + 1), 1, n - 2) = r.data
<1> DEFINE rest == From(b, d + 1)
<1>1. /\ rest \in Seq(Units) /\ Len(rest) = Len(b) - d
      /\ \A k \in 1 .. Len(b) - d : rest[k] = b[d + k]
  BY RestUnits
<1>2. PICK k \in Nat : k = Len(r.data) /\ n = k + 2 /\ Len(Encode(r)) = d + k + 2
  <2>1. Len(r.data) \in Nat
    BY LineUnits
  <2>2. n = Len(r.data) + 2
    BY RequestIs
  <2>3. Len(Encode(r)) = d + Len(r.data) + 2
    BY LineEnds
  <2> QED
    BY <2>1, <2>2, <2>3
<1>3. Len(b) \in Nat /\ d \in Nat /\ n \in Nat /\ Len(b) - d >= n
  <2>1. Len(b) \in Nat
    OBVIOUS
  <2>2. d \in Nat
    BY <2>1
  <2>3. n \in Nat
    BY <1>2
  <2>4. Len(b) - d >= n
    BY <1>1
  <2> QED
    BY <2>1, <2>2, <2>3, <2>4
<1>4. /\ n \in 0 .. Len(b) - d /\ d + n \in 0 .. Len(b) /\ n - 2 = k /\ Len(b) - d >= k
      /\ d + n = d + k + 2
      /\ \A p \in 1 .. k : /\ p \in 1 .. Len(b) - d /\ d + p \in 1 .. Len(b)
                           /\ d + p <= d + k + 2
  <2>1. \A q, l \in Nat : q - d >= l + 2 =>
          /\ l + 2 \in 0 .. q - d /\ d + (l + 2) \in 0 .. q /\ (l + 2) - 2 = l /\ q - d >= l
          /\ d + (l + 2) = d + l + 2
          /\ \A p \in 1 .. l : p \in 1 .. q - d /\ d + p \in 1 .. q /\ d + p <= d + l + 2
    <3>1. d \in Nat
      BY <1>3
    <3> HIDE DEF rest
    <3> QED
      BY ONLY <3>1, BulkFits
  <2>2. Len(b) - d >= k + 2 /\ Len(b) \in Nat /\ k \in Nat
    BY <1>2, <1>3
  <2>3. /\ k + 2 \in 0 .. Len(b) - d /\ d + (k + 2) \in 0 .. Len(b) /\ (k + 2) - 2 = k
        /\ Len(b) - d >= k /\ d + (k + 2) = d + k + 2
        /\ \A p \in 1 .. k : /\ p \in 1 .. Len(b) - d /\ d + p \in 1 .. Len(b)
                             /\ d + p <= d + k + 2
    BY <2>1, <2>2, Zenon
  <2> QED
    BY <1>2, <2>3, Zenon
<1>5. ASSUME NEW p \in 1 .. k PROVE rest[p] = Encode(r)[Len(r.line) + 2 + p]
  <2>1. b[d + p] = Encode(r)[d + p] /\ rest[p] = b[d + p]
    BY <1>1, <1>2, <1>4 DEF Begins
  <2>2. d = Len(r.line) + 2
    BY DEF LineEnd
  <2> QED
    BY <2>1, <2>2
<1> HIDE DEF rest
<1>6. SubSeq(rest, 1, Len(r.data)) = r.data
  <2>1. Len(rest) >= Len(r.data)
    BY <1>1, <1>2, <1>4
  <2>2. \A p \in 1 .. Len(r.data) : rest[p] = Encode(r)[Len(r.line) + 2 + p]
    BY <1>2, <1>5
  <2>3. rest \in Seq(Units)
    BY <1>1
  <2> QED
    BY <2>1, <2>2, <2>3, DataFound
<1>7. n - 2 = Len(r.data)
  BY <1>2, <1>4
<1> QED
  BY <1>2, <1>4, <1>6, <1>7 DEF rest

(* Request m + 1 is answered, and all of it taken from the buffer.         *)
LEMMA WholeAnswered ==
  ASSUME TypeInv, HandledAreSent, NEW f, NEW m \in 0 .. Len(sent), NEW c \in Nat,
         Tracks(f, m, c), m < Len(sent), sent[m + 1].line # <<>>,
         NEW d \in 0 .. Len(query_buf), c + d = f[m + 1],
         NEW line, NEW data, line = sent[m + 1].line, data = sent[m + 1].data,
         Answer(line, data), query_buf' = From(query_buf, d + 1), UNCHANGED <<socket, sent>>
  PROVE  InStep' /\ HandledAreSent'
<1>1. sent[m + 1] \in Requests /\ m + 1 \in 0 .. Len(sent)
  BY NextRequest DEF Tracks
<1>2. handled' = Append(handled, sent[m + 1])
  BY <1>1, RequestIs DEF Answer
<1>3. HandledAreSent' /\ Len(handled') = Cardinality(AskedBy(m + 1)')
  BY <1>2, OneAnswered DEF Tracks
<1>4. Taken(f, m + 1, c + d)'
  BY DEF Answer, ResetClient, Taken
<1>5. UNCHANGED <<inbox, peer, sent>>
  BY DEF socket
<1>6. InStep'
  BY <1>1, <1>3, <1>4, <1>5, SomeTaken
<1> QED
  BY <1>3, <1>6

LEMMA ProcessedInStep ==
  ASSUME TypeInv, HandledAreSent, bulk_len = -1, NEW f, NEW m \in 0 .. Len(sent), NEW c \in Nat,
         Tracks(f, m, c), m < Len(sent), NEW line, line = sent[m + 1].line, line # <<>>,
         Begins(query_buf, sent[m + 1]),
         NEW d \in 0 .. Len(query_buf), d = LineEnd(sent[m + 1]),
         ProcessCommand(line, From(query_buf, d + 1)), UNCHANGED <<socket, sent>>
  PROVE  InStep' /\ HandledAreSent'
<1> DEFINE r == sent[m + 1]
           rest == From(query_buf, d + 1)
           n == Table[line].count + 2
<1>1. /\ r \in Requests /\ m + 1 \in 0 .. Len(sent)
      /\ f[m] \in Nat /\ f[m + 1] = f[m] + Len(Encode(r)) /\ c = f[m]
  BY NextRequest DEF Tracks, Taken
<1>2. /\ query_buf \in Seq(Units) /\ Len(query_buf) \in Nat /\ d \in Nat
      /\ Len(line) \in Nat /\ Len(r.data) \in Nat
  BY <1>1, ComingType, LineUnits
<1>3. rest \in Seq(Units) /\ Len(rest) = Len(query_buf) - d
      /\ \A k \in 1 .. Len(query_buf) - d : rest[k] = query_buf[d + k]
  BY <1>2, RestUnits
<1>4. /\ Kind(line) = "bulk" => Len(Encode(r)) = d + Len(r.data) + 2
      /\ Kind(line) # "bulk" => Len(Encode(r)) = d /\ r.data = <<>>
  BY <1>1, LineEnds
<1>5. CASE FreeClient /\ UNCHANGED handled
  BY <1>5, SameAnswers DEF FreeClient, InStep
<1>6. CASE Kind(line) \in {"error", "inline"} /\ Answer(line, <<>>) /\ Continue(rest)
  <2>1. r.data = <<>> /\ c + d = f[m + 1]
    BY <1>1, <1>4, <1>6
  <2> QED
    BY <1>6, <2>1, WholeAnswered DEF Continue
<1>7. CASE /\ Kind(line) = "bulk" /\ Len(rest) >= n
           /\ Answer(line, SubSeq(rest, 1, n - 2)) /\ Continue(From(rest, n + 1))
  <2>1. /\ n \in 0 .. Len(query_buf) - d /\ d + n \in 0 .. Len(query_buf)
        /\ d + n = Len(Encode(r)) /\ SubSeq(rest, 1, n - 2) = r.data
    <3>1. /\ r \in Requests /\ query_buf \in Seq(Units) /\ Kind(r.line) = "bulk"
          /\ n = Table[r.line].count + 2
      BY <1>1, <1>2, <1>7
    <3>2. Begins(query_buf, r) /\ d = LineEnd(r) /\ Len(From(query_buf, d + 1)) >= n
      BY <1>7
    <3> HIDE DEF n, r
    <3>3. /\ n \in 0 .. Len(query_buf) - d /\ d + n \in 0 .. Len(query_buf)
          /\ d + n = Len(Encode(r)) /\ SubSeq(From(query_buf, d + 1), 1, n - 2) = r.data
      BY <3>1, <3>2, BulkWhole
    <3> QED
      BY <3>3
  <2>2. Answer(line, r.data) /\ query_buf' = From(rest, n + 1)
    BY <1>7, <2>1 DEF Continue
  <2> HIDE DEF n
  <2>3. query_buf' = From(query_buf, d + n + 1)
    BY <1>2, <2>1, <2>2, FromFrom
  <2>4. c + (d + n) = f[m + 1]
    BY <1>1, <2>1
  <2>5. query_buf' = From(query_buf, (d + n) + 1)
    BY <2>3
  <2> QED
    BY <2>1, <2>2, <2>4, <2>5, WholeAnswered
<1>8. CASE /\ Kind(line) = "bulk" /\ argv' = line /\ bulk_len' = n /\ Continue(rest)
           /\ UNCHANGED <<open, reply, sent_len, idle, writable, handled>>
  <2>1. Taken(f, m, c + d)'
    <3>1. n # -1
      BY SMTT(40), <1>1, <1>2, <1>8, RequestIs
    <3>2. c + d = f[m] + Len(line) + 2
      <4>1. d = Len(line) + 2 /\ c = f[m] /\ f[m] \in Nat /\ Len(line) \in Nat
        BY <1>1, <1>2 DEF LineEnd
      <4> QED
        BY <4>1
    <3> QED
      BY <1>8, <3>1, <3>2 DEF Taken
  <2>2. Len(handled') = Cardinality(AskedBy(m)')
    BY <1>8 DEF Tracks, AskedBy, Asked
  <2>3. UNCHANGED <<inbox, peer, sent>> /\ query_buf' = From(query_buf, d + 1)
    BY <1>8 DEF socket, Continue
  <2>4. InStep'
    BY <2>1, <2>2, <2>3, SomeTaken
  <2> QED
    BY <1>8, <2>4, SameAnswers
<1> QED
  BY <1>5, <1>6, <1>7, <1>8 DEF ProcessCommand

(* The first line in the buffer is that of the next request.               *)
LEMMA NextLine ==
  ASSUME TypeInv, NEW f, NEW m \in 0 .. Len(sent), NEW c \in Nat, Tracks(f, m, c), bulk_len = -1,
         NEW e \in DOMAIN query_buf, query_buf[e] = LF, \A i \in 1 .. e - 1 : query_buf[i] # LF
  PROVE  /\ m < Len(sent) /\ sent[m + 1] \in Requests /\ Begins(query_buf, sent[m + 1])
         /\ e = LineEnd(sent[m + 1])
         /\ WithoutCR(SubSeq(query_buf, 1, e - 1)) = sent[m + 1].line
<1>1. /\ query_buf \in Seq(Units) /\ Coming \in Seq(Units) /\ sent \in Seq(Requests)
      /\ Len(query_buf) <= Len(Coming) /\ \A p \in 1 .. Len(query_buf) : query_buf[p] = Coming[p]
      /\ Len(query_buf) \in Nat
  BY ComingType
<1>2. c = f[m] /\ IsCut(f, sent) /\ IsStream(f, sent, f[m], Coming)
      /\ f[m] + Len(Coming) <= f[Len(sent)]
  BY DEF Tracks, Taken
<1>3. query_buf # <<>>
  OBVIOUS
<1>4. m < Len(sent) /\ sent[m + 1] \in Requests /\ Begins(query_buf, sent[m + 1])
  BY <1>1, <1>2, <1>3, FirstLine
<1>5. /\ e = Len(sent[m + 1].line) + 2
      /\ WithoutCR(SubSeq(query_buf, 1, e - 1)) = sent[m + 1].line
  BY <1>1, <1>4, LineFound
<1> QED
  BY <1>4, <1>5 DEF LineEnd

LEMMA NonBulkInStep ==
  ASSUME TypeInv, HandledAreSent, InStep, open, ParseNonBulkQuery
  PROVE  InStep' /\ HandledAreSent'
<1>0. bulk_len = -1 /\ UNCHANGED <<socket, sent>>
  BY DEF ParseNonBulkQuery
<1>1. PICK f : \E m \in 0 .. Len(sent) : \E c \in Nat : Tracks(f, m, c)
  BY DEF InStep
<1>2. PICK m \in 0 .. Len(sent), c \in Nat : Tracks(f, m, c)
  BY <1>1
<1>3. Len(query_buf) \in Nat /\ query_buf \in Seq(Units)
  BY ComingType
<1>4. c = f[m] /\ IsCut(f, sent) /\ Len(handled) = Cardinality(AskedBy(m))
  BY <1>0, <1>2 DEF Tracks, Taken
<1>5. ASSUME NEW e \in DOMAIN query_buf, query_buf[e] = LF,
             \A i \in 1 .. e - 1 : query_buf[i] # LF
      PROVE  /\ m < Len(sent) /\ sent[m + 1] \in Requests /\ Begins(query_buf, sent[m + 1])
             /\ e = LineEnd(sent[m + 1])
             /\ WithoutCR(SubSeq(query_buf, 1, e - 1)) = sent[m + 1].line
  BY <1>0, <1>2, <1>5, NextLine
<1>6. ASSUME NEW e \in DOMAIN query_buf, query_buf[e] = LF,
             \A i \in 1 .. e - 1 : query_buf[i] # LF,
             WithoutCR(SubSeq(query_buf, 1, e - 1)) # <<>>,
             ProcessCommand(WithoutCR(SubSeq(query_buf, 1, e - 1)), From(query_buf, e + 1))
      PROVE  InStep' /\ HandledAreSent'
  <2>1. e \in 0 .. Len(query_buf)
    BY <1>3
  <2> DEFINE line == WithoutCR(SubSeq(query_buf, 1, e - 1))
  <2>2. /\ m < Len(sent) /\ Begins(query_buf, sent[m + 1]) /\ e = LineEnd(sent[m + 1])
        /\ line = sent[m + 1].line
    BY <1>5, <1>6
  <2>3. line # <<>> /\ ProcessCommand(line, From(query_buf, e + 1))
    BY <1>6
  <2> HIDE DEF line
  <2> QED
    BY <1>0, <1>2, <2>1, <2>2, <2>3, ProcessedInStep
<1>7. ASSUME NEW e \in DOMAIN query_buf, query_buf[e] = LF,
             \A i \in 1 .. e - 1 : query_buf[i] # LF,
             WithoutCR(SubSeq(query_buf, 1, e - 1)) = <<>>,
             EmptyQuery(From(query_buf, e + 1))
      PROVE  InStep' /\ HandledAreSent'
  <2>1. e \in 0 .. Len(query_buf)
    BY <1>3
  <2>2. m < Len(sent) /\ e = LineEnd(sent[m + 1]) /\ sent[m + 1].line = <<>>
    BY <1>5, <1>7
  <2>3. /\ sent[m + 1] \in Requests /\ m + 1 \in 0 .. Len(sent)
        /\ f[m + 1] = f[m] + Len(Encode(sent[m + 1]))
    BY <1>4, <2>2, NextRequest
  <2>4. Len(Encode(sent[m + 1])) = e
    BY <2>2, <2>3, LineEnds, RequestIs
  <2>5. Len(handled') = Cardinality(AskedBy(m + 1)')
    <3>1. Cardinality(AskedBy(m + 1)) = Cardinality(AskedBy(m))
      BY <2>2, AskedCount
    <3> QED
      BY <1>0, <1>4, <1>7, <3>1 DEF EmptyQuery, AskedBy, Asked
  <2>6. Taken(f, m + 1, c + e)'
    BY <1>0, <1>4, <1>7, <2>3, <2>4 DEF EmptyQuery, Taken
  <2>7. UNCHANGED <<inbox, peer, sent>> /\ query_buf' = From(query_buf, e + 1)
    BY <1>0, <1>7 DEF EmptyQuery, socket
  <2>8. InStep'
    BY <1>2, <2>1, <2>3, <2>5, <2>6, <2>7, SomeTaken
  <2> QED
    BY <1>0, <1>7, <2>8, SameAnswers DEF EmptyQuery
<1>8. CASE FreeClient /\ UNCHANGED handled
  BY <1>0, <1>8, SameAnswers DEF FreeClient, InStep
<1>9. CASE UNCHANGED <<client, writable, handled>>
  <2>1. Coming' = Coming /\ UNCHANGED <<open, argv, bulk_len, sent, handled, peer>>
    BY <1>0, <1>9 DEF Coming, client, socket
  <2>2. InStep'
    BY <2>1, ComingType, NoneTaken
  <2> QED
    BY <2>1, <2>2, SameAnswers
<1> QED
  BY <1>6, <1>7, <1>8, <1>9 DEF ParseNonBulkQuery

LEMMA BulkInStep ==
  ASSUME TypeInv, Pending, HandledAreSent, InStep, open, ParseBulkQuery
  PROVE  InStep' /\ HandledAreSent'
<1>0. bulk_len # -1 /\ UNCHANGED <<socket, sent>>
  BY DEF ParseBulkQuery
<1>1. PICK f : \E m \in 0 .. Len(sent) : \E c \in Nat : Tracks(f, m, c)
  BY DEF InStep
<1>2. PICK m \in 0 .. Len(sent), c \in Nat : Tracks(f, m, c)
  BY <1>1
<1>3. /\ query_buf \in Seq(Units) /\ sent \in Seq(Requests)
      /\ Len(query_buf) <= Len(Coming) /\ \A p \in 1 .. Len(query_buf) : query_buf[p] = Coming[p]
      /\ Len(query_buf) \in Nat /\ Len(Coming) \in Nat
  BY ComingType
<1> DEFINE r == sent[m + 1]
<1>4. /\ m < Len(sent) /\ argv = r.line /\ IsCut(f, sent) /\ IsStream(f, sent, c, Coming)
      /\ c = f[m] + LineEnd(r)
  <2>1. /\ m < Len(sent) /\ argv = r.line /\ IsCut(f, sent) /\ IsStream(f, sent, c, Coming)
        /\ c = f[m] + Len(argv) + 2
    BY <1>0, <1>2 DEF Tracks, Taken
  <2>2. f[m] \in Nat /\ Len(argv) \in Nat
    BY <2>1, NextRequest, LineUnits
  <2> QED
    BY <2>1, <2>2 DEF LineEnd
<1>5. /\ r \in Requests /\ m + 1 \in 1 .. Len(sent) /\ (m + 1) - 1 = m
      /\ f[m] \in Nat /\ f[m + 1] = f[m] + Len(Encode(r))
  BY <1>4, NextRequest
<1> HIDE DEF r
<1>6. Kind(argv) = "bulk" /\ argv # <<>>
  BY <1>0, <1>4, <1>5, RequestIs DEF Pending
<1>7. PICK l \in Nat, k \in Nat : /\ l = LineEnd(r) /\ k = Len(r.data) /\ bulk_len = k + 2
                                  /\ Len(Encode(r)) = l + k + 2
  <2>1. LineEnd(r) \in Nat /\ Len(r.data) \in Nat
    BY <1>5, LineEnds, LineUnits
  <2>2. bulk_len = Len(r.data) + 2
    BY <1>0, <1>4, <1>5, <1>6, RequestIs DEF Pending
  <2>3. Len(Encode(r)) = LineEnd(r) + Len(r.data) + 2
    BY <1>4, <1>5, <1>6, LineEnds
  <2> QED
    BY <2>1, <2>2, <2>3
<1>8. CASE /\ Len(query_buf) >= bulk_len
           /\ Answer(argv, SubSeq(query_buf, 1, bulk_len - 2))
           /\ query_buf' = From(query_buf, bulk_len + 1)
  <2>1. bulk_len \in 0 .. Len(query_buf) /\ bulk_len - 2 = k /\ Len(query_buf) >= k
    BY ONLY SMTT(40), <1>3, <1>7, <1>8
  <2>0. PICK a \in Nat : a = f[m] /\ c = a + l /\ f[m + 1] = a + (l + k + 2)
    BY <1>4, <1>5, <1>7
  <2>2. c + bulk_len = f[m + 1]
    <3>1. (a + l) + (k + 2) = a + (l + k + 2)
      OBVIOUS
    <3> QED
      BY <1>7, <2>0, <3>1
  <2>3. ASSUME NEW p \in 1 .. k PROVE query_buf[p] = Encode(r)[Len(r.line) + 2 + p]
    <3>1. p \in 1 .. Len(query_buf) /\ p \in 1 .. Len(Coming)
      BY <1>3, <2>1
    <3>2. f[m] < c + p /\ c + p <= f[m + 1] /\ c + p - f[m] = l + p
      <4>1. p \in Nat /\ p > 0 /\ p <= k
        BY <1>7
      <4>2. a < (a + l) + p /\ (a + l) + p <= a + (l + k + 2) /\ (a + l) + p - a = l + p
        BY <4>1
      <4> QED
        BY <2>0, <4>2
    <3>3. Coming[p] = Encode(r)[c + p - f[m]]
      BY <1>4, <1>5, <3>1, <3>2 DEF IsStream, r
    <3> QED
      BY <1>3, <1>7, <3>1, <3>2, <3>3 DEF LineEnd
  <2>4. SubSeq(query_buf, 1, k) = r.data
    BY <1>3, <1>4, <1>5, <1>6, <1>7, <2>1, <2>3, DataFound
  <2>5. Answer(argv, r.data)
    BY <1>8, <2>1, <2>4
  <2> QED
    BY <1>0, <1>2, <1>4, <1>6, <1>8, <2>1, <2>2, <2>5, WholeAnswered DEF r
<1>9. CASE UNCHANGED <<client, writable, handled>>
  <2>1. Coming' = Coming /\ UNCHANGED <<open, argv, bulk_len, sent, handled, peer>>
    BY <1>0, <1>9 DEF Coming, client, socket
  <2>2. InStep'
    BY <2>1, ComingType, NoneTaken
  <2> QED
    BY <2>1, <2>2, SameAnswers
<1> QED
  BY <1>8, <1>9 DEF ParseBulkQuery, Continue

-----------------------------------------------------------------------------
(* The other steps                                                         *)

LEMMA NetworkInStep ==
  ASSUME TypeInv, TypeInv', InStep, UNCHANGED <<open, argv, bulk_len, sent, handled>>,
         \/ UNCHANGED <<query_buf, inbox, peer>>
         \/ /\ UNCHANGED query_buf /\ peer' # "open"
            /\ \E n \in 0 .. Len(inbox) : inbox' = SubSeq(inbox, 1, n)
         \/ /\ UNCHANGED peer
            /\ \E n \in 0 .. Len(inbox) : /\ query_buf' = query_buf \o SubSeq(inbox, 1, n)
                                          /\ inbox' = From(inbox, n + 1)
  PROVE  InStep'
<1>1. /\ query_buf \in Seq(Units) /\ inbox \in Seq(Units) /\ Len(sent) \in Nat
      /\ Coming \in Seq(Units) /\ Len(Coming) \in Nat
  BY ComingType
<1>2. CASE UNCHANGED <<query_buf, inbox, peer>>
  <2>1. Coming' = Coming
    BY <1>2 DEF Coming
  <2> QED
    BY <1>1, <1>2, <2>1, NoneTaken
<1>3. ASSUME UNCHANGED query_buf, peer' # "open", NEW n \in 0 .. Len(inbox),
             inbox' = SubSeq(inbox, 1, n)
      PROVE  InStep'
  <2>1. Coming' = query_buf \o SubSeq(inbox, 1, n)
    BY <1>3 DEF Coming
  <2>2. LET x == query_buf \o SubSeq(inbox, 1, n)
            y == query_buf \o inbox
        IN  /\ Len(x) \in Nat /\ Len(x) <= Len(y)
            /\ \A p \in 1 .. Len(x) : x[p] = y[p]
    BY <1>1, StreamCut
  <2>3. /\ Len(Coming') \in Nat /\ Len(Coming') <= Len(Coming)
        /\ \A p \in 1 .. Len(Coming') : Coming'[p] = Coming[p]
    BY <2>1, <2>2 DEF Coming
  <2> QED
    BY <1>1, <1>3, <2>3, NoneTaken
<1>4. ASSUME UNCHANGED peer, NEW n \in 0 .. Len(inbox),
             query_buf' = query_buf \o SubSeq(inbox, 1, n), inbox' = From(inbox, n + 1)
      PROVE  InStep'
  <2>1. Coming' = (query_buf \o SubSeq(inbox, 1, n)) \o From(inbox, n + 1)
    BY <1>4 DEF Coming
  <2>2. LET x == (query_buf \o SubSeq(inbox, 1, n)) \o From(inbox, n + 1)
        IN  /\ x \in Seq(Units) /\ Len(x) = Len(query_buf \o inbox)
            /\ \A p \in 1 .. Len(x) : x[p] = (query_buf \o inbox)[p]
    BY <1>1, StreamReceived
  <2>3. Len(Coming') = Len(Coming) /\ \A p \in 1 .. Len(Coming') : Coming'[p] = Coming[p]
    BY <2>1, <2>2 DEF Coming
  <2> QED
    BY <1>1, <1>4, <2>3, NoneTaken
<1> QED
  BY <1>2, <1>3, <1>4

LEMMA FreedInStep ==
  ASSUME HandledAreSent, FreeClient, UNCHANGED <<sent, handled>>
  PROVE  InStep' /\ HandledAreSent'
BY SameAnswers DEF FreeClient, InStep

LEMMA StepInStep ==
  ASSUME TypeInv, TypeInv', Registered, Pending, HandledAreSent, InStep, [Next]_vars
  PROVE  InStep' /\ HandledAreSent'
<1>0. (handler = "parse" => open) /\ inbox \in Seq(Units) /\ Len(inbox) \in Nat
  BY DEF Registered, TypeInv, ServerType
<1>1. ASSUME NEW r \in Requests, ClientSends(r) PROVE InStep' /\ HandledAreSent'
  BY <1>1, RequestSent, SentGrows
<1>2. CASE ClientReads \/ Tick \/ Select \/ UNCHANGED vars
  <2>1. UNCHANGED <<open, argv, bulk_len, sent, handled, query_buf, inbox, peer>>
    BY <1>2 DEF ClientReads, Tick, Select, vars, client, socket
  <2> QED
    BY <2>1, NetworkInStep, SameAnswers
<1>3. CASE ClientCloses
  <2>1. UNCHANGED <<open, argv, bulk_len, sent, handled, query_buf>> /\ peer' # "open"
    BY <1>3 DEF ClientCloses, client
  <2>2. \E n \in 0 .. Len(inbox) : inbox' = SubSeq(inbox, 1, n)
    BY <1>3 DEF ClientCloses
  <2> QED
    BY <2>1, <2>2, NetworkInStep, SameAnswers
<1>4. CASE ConnectionBreaks
  <2>1. /\ UNCHANGED <<open, argv, bulk_len, sent, handled, query_buf>> /\ peer' # "open"
        /\ inbox' = <<>>
    BY <1>4 DEF ConnectionBreaks, client
  <2>2. 0 \in 0 .. Len(inbox) /\ inbox' = SubSeq(inbox, 1, 0)
    BY <1>0, <2>1
  <2> QED
    BY <2>1, <2>2, NetworkInStep, SameAnswers
<1>5. CASE ReadQueryFromClient
  <2>1. UNCHANGED <<sent, handled>>
    BY <1>5 DEF ReadQueryFromClient
  <2>2. ASSUME NEW n \in 1 .. IF Len(inbox) < ReadLen THEN Len(inbox) ELSE ReadLen, Receive(n)
        PROVE  InStep' /\ HandledAreSent'
    <3>1. n \in 0 .. Len(inbox)
      BY <1>0, <2>2, ConnectionBounds
    <3>2. /\ UNCHANGED <<open, argv, bulk_len, peer>> /\ query_buf' = query_buf \o SubSeq(inbox, 1, n)
          /\ inbox' = From(inbox, n + 1)
      BY <2>2 DEF Receive
    <3> QED
      BY <2>1, <3>1, <3>2, NetworkInStep, SameAnswers
  <2>3. CASE FreeClient
    BY <2>1, <2>3, FreedInStep
  <2> QED
    BY <1>5, <2>2, <2>3 DEF ReadQueryFromClient
<1>6. CASE ParseNonBulkQuery
  BY <1>0, <1>6, NonBulkInStep DEF ParseNonBulkQuery
<1>7. CASE ParseBulkQuery
  BY <1>0, <1>7, BulkInStep DEF ParseBulkQuery
<1>8. CASE SendReplyToClient
  <2>1. UNCHANGED <<sent, handled>>
    BY <1>8 DEF SendReplyToClient
  <2>2. CASE FreeClient
    BY <2>1, <2>2, FreedInStep
  <2>3. CASE UNCHANGED <<open, argv, bulk_len, query_buf, inbox, peer>>
    BY <2>1, <2>3, NetworkInStep, SameAnswers
  <2> QED
    BY <1>8, <2>2, <2>3
       DEF SendReplyToClient, DropEmptyObject, WriteObject, AllSent, client, socket
<1>9. CASE CloseTimeoutClients
  BY <1>9, FreedInStep DEF CloseTimeoutClients
<1> QED
  BY <1>1, <1>2, <1>3, <1>4, <1>5, <1>6, <1>7, <1>8, <1>9 DEF Next, Server

LEMMA InitInStep == Init => InStep /\ HandledAreSent
<1> SUFFICES ASSUME Init PROVE InStep /\ HandledAreSent
  OBVIOUS
<1> DEFINE f == [i \in 0 .. 0 |-> 0]
<1>1. /\ sent = <<>> /\ handled = <<>> /\ query_buf = <<>> /\ inbox = <<>> /\ bulk_len = -1
      /\ Len(sent) = 0 /\ Len(handled) = 0 /\ DOMAIN sent = {} /\ DOMAIN handled = {}
  BY DEF Init
<1>2. Coming = <<>> /\ Len(Coming) = 0
  BY <1>1 DEF Coming
<1>3. AskedBy(0) = {}
  BY <1>1 DEF AskedBy, Asked
<1>4. IsCut(f, sent)
  BY <1>1 DEF IsCut
<1>5. IsStream(f, sent, 0, Coming)
  BY <1>1 DEF IsStream
<1>6. f[0] = 0
  OBVIOUS
<1> HIDE DEF f
<1>7. Tracks(f, 0, 0)
  BY <1>1, <1>2, <1>3, <1>4, <1>5, <1>6, FS_EmptySet DEF Tracks, Taken
<1>8. HandledAreSent
  BY <1>1 DEF HandledAreSent
<1> QED
  BY <1>1, <1>7, <1>8 DEF InStep

LEMMA InStepAlways == Spec => [](TypeInv /\ Registered /\ Pending /\ HandledAreSent /\ InStep)
<1>1. /\ TypeInv /\ TypeInv' /\ Registered /\ Pending /\ HandledAreSent /\ InStep /\ [Next]_vars
      => InStep' /\ HandledAreSent'
  BY StepInStep
<1> QED
  BY <1>1, InitInStep, HandlersAlways, PTL DEF Spec

(* However the stream is cut into pieces, and whatever the data of bulk    *)
(* commands looks like, the requests answered are those that were asked,   *)
(* in order, each once (client.c:120-216, command.c:73-120).               *)
THEOREM AnswersWhatWasAsked == Spec => []HandledAreSent
BY InStepAlways, PTL

-----------------------------------------------------------------------------
(* Nothing waits for a further step of the client                          *)

(* A line that has arrived is not left in the buffer, unless a blank line  *)
(* stands before it or the data of a bulk command is still to come.        *)
Parsed ==
  (open /\ handler # "parse" /\ bulk_len = -1)
    => LF \notin Range(query_buf) \/ BehindBlankLine

LEMMA SameParsed ==
  ASSUME Parsed, UNCHANGED <<open, bulk_len, query_buf, sent, handled>>, handler # "parse"
  PROVE  Parsed'
BY DEF Parsed, BehindBlankLine, Asked

(* The client's next request stands behind all it has asked so far.        *)
LEMMA StillBehind ==
  ASSUME TypeInv, BehindBlankLine, NEW r \in Requests, sent' = Append(sent, r),
         handled' = handled
  PROVE  BehindBlankLine'
<1>1. /\ Len(sent) \in Nat /\ DOMAIN sent = 1 .. Len(sent) /\ DOMAIN sent' = 1 .. Len(sent) + 1
      /\ \A i \in 1 .. Len(sent) : sent'[i] = sent[i]
  <2>1. sent \in Seq(Requests)
    BY ComingType
  <2> QED
    BY <2>1
<1>2. PICK i \in DOMAIN sent \ Asked : Cardinality({j \in Asked : j <= i}) = Len(handled)
  BY DEF BehindBlankLine
<1>3. i \in DOMAIN sent' \ Asked'
  BY <1>1, <1>2 DEF Asked
<1>4. \A j : j \in Asked' /\ j <= i <=> j \in Asked /\ j <= i
  BY <1>1, <1>2 DEF Asked
<1>5. {j \in Asked' : j <= i} = {j \in Asked : j <= i}
  BY <1>4
<1> QED
  BY <1>2, <1>3, <1>5 DEF BehindBlankLine

LEMMA ContinueParsed ==
  ASSUME NEW rest, Continue(rest) PROVE Parsed'
<1>1. CASE rest = <<>>
  <2>1. LF \notin Range(<<>>)
    BY DEF Range
  <2> QED
    BY <1>1, <2>1 DEF Continue, Parsed
<1>2. CASE rest # <<>>
  BY <1>2 DEF Continue, Parsed
<1> QED
  BY <1>1, <1>2

LEMMA StepParsed ==
  ASSUME TypeInv, InStep, Registered, Parsed, [Next]_vars PROVE Parsed'
<1>0. handler = "parse" => open
  BY DEF Registered
<1>1. ASSUME NEW r \in Requests, ClientSends(r) PROVE Parsed'
  <2>1. sent \in Seq(Requests) /\ sent' = Append(sent, r) /\ Len(sent) \in Nat
    BY <1>1, ComingType DEF ClientSends
  <2>2. UNCHANGED <<open, handler, bulk_len, query_buf, handled>>
    BY <1>1 DEF ClientSends, client
  <2>3. BehindBlankLine => BehindBlankLine'
    BY <2>1, <2>2, StillBehind
  <2> QED
    BY <2>2, <2>3 DEF Parsed
<1>2. CASE ClientReads \/ ClientCloses \/ ConnectionBreaks \/ Tick \/ UNCHANGED vars
  <2>1. UNCHANGED <<open, bulk_len, query_buf, sent, handler, handled>>
    BY <1>2 DEF ClientReads, ClientCloses, ConnectionBreaks, Tick, vars, client
  <2> QED
    BY <2>1 DEF Parsed, BehindBlankLine, Asked
<1>3. CASE Select
  BY <1>3, SameParsed DEF Select, client
<1>4. CASE ReadQueryFromClient
  BY <1>4 DEF ReadQueryFromClient, Receive, FreeClient, Parsed
<1>5. CASE ParseNonBulkQuery
  <2>1. UNCHANGED <<socket, sent>> /\ bulk_len = -1 /\ open
    BY <1>0, <1>5 DEF ParseNonBulkQuery
  <2>2. ASSUME NEW line, NEW rest, ProcessCommand(line, rest) PROVE Parsed'
    <3>1. CASE FreeClient
      BY <3>1 DEF FreeClient, Parsed
    <3>2. ASSUME NEW left, Continue(left) PROVE Parsed'
      BY <3>2, ContinueParsed
    <3> QED
      BY <2>2, <3>1, <3>2 DEF ProcessCommand
  <2>3. ASSUME NEW e \in DOMAIN query_buf, query_buf[e] = LF,
               \A i \in 1 .. e - 1 : query_buf[i] # LF,
               WithoutCR(SubSeq(query_buf, 1, e - 1)) = <<>>, handled' = handled
        PROVE  Parsed'
    <3>1. PICK f : \E m \in 0 .. Len(sent) : \E c \in Nat : Tracks(f, m, c)
      BY <2>1 DEF InStep
    <3>2. PICK m \in 0 .. Len(sent), c \in Nat : Tracks(f, m, c)
      BY <3>1
    <3>3. m < Len(sent) /\ sent[m + 1].line = <<>>
      BY <2>1, <2>3, <3>2, NextLine
    <3>4. m + 1 \in DOMAIN sent
      BY <3>3, ComingType
    <3>5. m + 1 \in DOMAIN sent \ Asked
      BY <3>3, <3>4 DEF Asked
    <3>6. Cardinality({j \in Asked : j <= m + 1}) = Len(handled)
      <4>1. Len(handled) = Cardinality(AskedBy(m))
        BY <3>2 DEF Tracks
      <4>2. Cardinality(AskedBy(m + 1)) = Cardinality(AskedBy(m))
        BY <3>3, AskedCount
      <4> QED
        BY <4>1, <4>2 DEF AskedBy
    <3>7. BehindBlankLine
      BY <3>5, <3>6 DEF BehindBlankLine
    <3> QED
      BY <2>1, <2>3, <3>7 DEF Parsed, BehindBlankLine, Asked
  <2>4. CASE FreeClient
    BY <2>4 DEF FreeClient, Parsed
  <2>5. CASE LF \notin Range(query_buf) /\ UNCHANGED <<client, writable>>
    BY <2>5 DEF client, Parsed
  <2>6. ASSUME NEW rest, EmptyQuery(rest) PROVE handled' = handled
    BY <2>6 DEF EmptyQuery
  <2>7. ASSUME NEW e \in DOMAIN query_buf, query_buf[e] = LF,
               \A i \in 1 .. e - 1 : query_buf[i] # LF,
               \/ /\ WithoutCR(SubSeq(query_buf, 1, e - 1)) = <<>>
                  /\ EmptyQuery(From(query_buf, e + 1))
               \/ ProcessCommand(WithoutCR(SubSeq(query_buf, 1, e - 1)), From(query_buf, e + 1))
        PROVE  Parsed'
    <3>1. CASE EmptyQuery(From(query_buf, e + 1))
               /\ WithoutCR(SubSeq(query_buf, 1, e - 1)) = <<>>
      <4>1. handled' = handled
        BY ONLY <2>6, <3>1
      <4> QED
        BY ONLY <2>3, <2>7, <3>1, <4>1
    <3>2. CASE ProcessCommand(WithoutCR(SubSeq(query_buf, 1, e - 1)), From(query_buf, e + 1))
      BY ONLY <2>2, <3>2
    <3> QED
      BY ONLY <2>7, <3>1, <3>2
  <2>8. \/ LF \notin Range(query_buf) /\ (FreeClient \/ UNCHANGED <<client, writable>>)
        \/ \E e \in DOMAIN query_buf :
             /\ query_buf[e] = LF
             /\ \A i \in 1 .. e - 1 : query_buf[i] # LF
             /\ \/ /\ WithoutCR(SubSeq(query_buf, 1, e - 1)) = <<>>
                   /\ EmptyQuery(From(query_buf, e + 1))
                \/ ProcessCommand(WithoutCR(SubSeq(query_buf, 1, e - 1)), From(query_buf, e + 1))
    BY ONLY <1>5 DEF ParseNonBulkQuery
  <2> QED
    BY ONLY <2>4, <2>5, <2>7, <2>8
<1>6. CASE ParseBulkQuery
  <2>1. ASSUME NEW rest, Continue(rest) PROVE Parsed'
    BY <2>1, ContinueParsed
  <2>2. CASE bulk_len' = bulk_len
    BY <1>6, <2>2 DEF ParseBulkQuery, Parsed
  <2> QED
    BY <1>6, <2>1, <2>2 DEF ParseBulkQuery, client
<1>7. CASE SendReplyToClient
  <2>1. handler # "parse" /\ sent' = sent
    BY <1>7 DEF SendReplyToClient
  <2>2. CASE FreeClient
    BY <2>2 DEF FreeClient, Parsed
  <2>3. CASE UNCHANGED <<open, bulk_len, query_buf, handled>>
    BY <2>1, <2>3, SameParsed
  <2> QED
    BY <1>7, <2>2, <2>3 DEF SendReplyToClient, DropEmptyObject, WriteObject, AllSent, client
<1>8. CASE CloseTimeoutClients
  BY <1>8 DEF CloseTimeoutClients, FreeClient, Parsed
<1> QED
  BY <1>1, <1>2, <1>3, <1>4, <1>5, <1>6, <1>7, <1>8 DEF Next, Server

(* When the socket is empty, the parser stands at the end of the stream.   *)
LEMMA AllTaken ==
  ASSUME TypeInv, Pending, InStep, Parsed, open, handler = "select", inbox = <<>>,
         peer = "open"
  PROVE  Len(handled) = Cardinality(Asked) \/ BehindBlankLine
<1>1. PICK f : \E m \in 0 .. Len(sent) : \E c \in Nat : Tracks(f, m, c)
  BY DEF InStep
<1>2. PICK m \in 0 .. Len(sent), c \in Nat : Tracks(f, m, c)
  BY <1>1
<1> DEFINE r == sent[m + 1]
           n == Len(sent)
<1>3. /\ query_buf \in Seq(Units) /\ sent \in Seq(Requests) /\ n \in Nat
      /\ Coming = query_buf /\ Len(query_buf) \in Nat
  BY ComingType, ConcatEmptySeq DEF Coming
<1>4. /\ IsCut(f, sent) /\ Taken(f, m, c) /\ c + Len(query_buf) = f[n]
      /\ IsStream(f, sent, c, query_buf) /\ Len(handled) = Cardinality(AskedBy(m))
  BY <1>2, <1>3 DEF Tracks
<1>5. CASE m = n
  <2>1. \A j \in DOMAIN sent : j <= m
    BY <1>3, <1>5
  <2>2. AskedBy(m) = Asked
    BY <2>1 DEF AskedBy, Asked
  <2> QED
    BY <1>4, <2>2
<1>6. CASE m < n
  <2>1. /\ r \in Requests /\ m + 1 \in 0 .. n /\ f[m] \in Nat
        /\ f[m + 1] = f[m] + Len(Encode(r))
    BY <1>4, <1>6, NextRequest
  <2>2. f[m + 1] <= f[n] /\ f[m + 1] \in Nat /\ f[n] \in Nat
    <3>1. n \in 0 .. n /\ m + 1 <= n
      BY <1>3, <2>1
    <3> QED
      BY <1>4, <2>1, <3>1 DEF IsCut
  <2> HIDE DEF r, n
  <2>3. /\ LineEnd(r) \in Nat /\ Len(Encode(r)) \in Nat /\ Len(Encode(r)) >= LineEnd(r)
    <3>1. Len(r.line) \in Nat /\ LineEnd(r) = Len(r.line) + 2
      BY <2>1, LineUnits DEF LineEnd
    <3>2. Len(Encode(r)) \in Nat /\ Len(Encode(r)) >= Len(r.line) + 2
      BY <2>1, EncodedLength
    <3> QED
      BY <3>1, <3>2
  <2>4. CASE bulk_len = -1
    <3>1. c = f[m]
      BY <1>4, <2>4 DEF Taken
    <3>2. Len(query_buf) >= Len(Encode(r))
      BY <1>3, <1>4, <2>1, <2>2, <2>3, <3>1
    <3>3. LineEnd(r) >= 2 /\ LineEnd(r) \in 1 .. Len(query_buf)
      <4>1. Len(r.line) \in Nat
        BY <2>1, LineUnits
      <4>2. LineEnd(r) >= 2
        BY <4>1 DEF LineEnd
      <4> QED
        BY <1>3, <2>3, <3>2, <4>2
    <3>4. Begins(query_buf, r)
      <4>1. query_buf # <<>>
        BY <3>3
      <4>2. f[m] + Len(query_buf) <= f[Len(sent)] /\ IsStream(f, sent, f[m], query_buf)
        BY <1>4, <2>2, <3>1 DEF n
      <4> QED
        BY <1>3, <1>4, <4>1, <4>2, FirstLine DEF r
    <3>5. query_buf[LineEnd(r)] = LF
      <4>1. Encode(r)[LineEnd(r)] = LF
        BY <2>1, EncodedUnits DEF LineEnd
      <4> QED
        BY <2>3, <3>3, <3>4, <4>1 DEF Begins
    <3>6. LF \in Range(query_buf)
      BY <1>3, <3>3, <3>5 DEF Range
    <3> QED
      BY <2>4, <3>6 DEF Parsed
  <2>5. CASE bulk_len # -1
    <3>1. /\ argv = r.line /\ c = f[m] + Len(argv) + 2 /\ Kind(argv) = "bulk"
          /\ bulk_len = Table[argv].count + 2 /\ Len(query_buf) < bulk_len
      BY <1>4, <2>5 DEF Taken, Pending, r
    <3>2. PICK a \in Nat, l \in Nat, k \in Nat :
            /\ a = f[m] /\ l = Len(r.line) /\ k = Len(r.data) /\ bulk_len = k + 2
            /\ f[m + 1] = a + (l + 2 + k + 2) /\ c = a + l + 2
      <4>1. Len(r.line) \in Nat /\ Len(r.data) \in Nat
        BY <2>1, LineUnits
      <4>2. /\ Len(Encode(r)) = Len(r.line) + 2 + Len(r.data) + 2
            /\ Table[r.line].count = Len(r.data)
        BY <2>1, <3>1, EncodedLength, RequestIs
      <4> QED
        BY <2>1, <3>1, <4>1, <4>2
    <3>3. a + l + 2 + Len(query_buf) >= a + (l + 2 + k + 2)
      BY <1>4, <2>2, <3>2
    <3>4. Len(query_buf) >= k + 2
      BY <1>3, <3>3
    <3> QED
      BY <1>3, <3>1, <3>2, <3>4
  <2> QED
    BY <2>4, <2>5
<1> QED
  BY <1>3, <1>5, <1>6

(* Pipelined requests need no further step of the client: once the socket  *)
(* has been read empty, every request that arrived has been answered,      *)
(* whichever read brought it, unless it stands right behind a blank line   *)
(* (client.c:120-130, 180-184, README.md:541-544).                         *)
THEOREM NothingEverLeft == Spec => []NothingLeftBehind
<1>1. Init => Parsed
  BY DEF Init, Parsed, Range
<1>2. TypeInv /\ InStep /\ Registered /\ Parsed /\ [Next]_vars => Parsed'
  BY StepParsed
<1>3. TypeInv /\ Pending /\ InStep /\ Parsed => NothingLeftBehind
  BY AllTaken DEF NothingLeftBehind
<1> QED
  BY <1>1, <1>2, <1>3, InStepAlways, PTL DEF Spec
=============================================================================
