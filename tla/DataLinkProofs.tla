--------------------------- MODULE DataLinkProofs ---------------------------
(***************************************************************************)
(* What datamon makes of the parts that daqd sends, for any headers, any   *)
(* byte, any queue and any number of records.                              *)
(*                                                                         *)
(* The argument.  The source never asks where a message begins or ends; it *)
(* takes parts by fours.  So all it relies on is which part may follow     *)
(* which in the stream that it reads: that is the invariant, and it needs  *)
(* neither the number of a message nor its place.                          *)
(***************************************************************************)
EXTENDS DataLink, FiniteSetTheorems, SequenceTheorems, TLAPS

-----------------------------------------------------------------------------
(* Division.                                                               *)

\* Quotient and remainder.
LEMMA DivMod ==
  ASSUME NEW m \in Nat, NEW E \in Nat \ {0}
  PROVE  m \div E \in Nat /\ m % E \in 0 .. E - 1 /\ m = E * (m \div E) + (m % E)
OBVIOUS

\* Different quotients are a divisor apart.
LEMMA Apart ==
  ASSUME NEW E \in Nat \ {0}, NEW a \in Int, NEW b \in Int, a < b
  PROVE  E * a + E <= E * b
<1>1. E * (b - a) >= E
  <2> DEFINE d == b - a
  <2>1. d \in Nat /\ d >= 1 OBVIOUS
  <2> HIDE DEF d
  <2>2. E * d >= E BY <2>1
  <2> QED BY <2>2 DEF d
<1>2. E * (b - a) = E * b - E * a OBVIOUS
<1>3. QED BY <1>1, <1>2

\* Quotient and remainder are unique.
LEMMA OneQuotient ==
  ASSUME NEW E \in Nat \ {0}, NEW a \in Int, NEW b \in Int,
         NEW q \in 0 .. E - 1, NEW r \in 0 .. E - 1, E * a + q = E * b + r
  PROVE  a = b /\ q = r
<1>0. E * a \in Int /\ E * b \in Int OBVIOUS
<1>1. ~(a < b)
  <2>1. SUFFICES ASSUME a < b PROVE FALSE OBVIOUS
  <2>2. E * a + E <= E * b BY <2>1, Apart
  <2>3. QED BY <1>0, <2>2
<1>2. ~(b < a)
  <2>1. SUFFICES ASSUME b < a PROVE FALSE OBVIOUS
  <2>2. E * b + E <= E * a BY <2>1, Apart
  <2>3. QED BY <1>0, <2>2
<1>3. QED BY <1>1, <1>2

-----------------------------------------------------------------------------
(* The header on the wire.                                                 *)

\* A byte is its own last byte.
LEMMA ByteKept == ASSUME NEW k \in 0 .. Base - 1 PROVE k % Base = k
<1> USE LinkAssumption
<1>1. /\ k \div Base \in Nat /\ k % Base \in 0 .. Base - 1
      /\ k = Base * (k \div Base) + (k % Base)
  BY DivMod
<1> DEFINE a == k \div Base  r == k % Base
<1>2. a \in Int /\ r \in 0 .. Base - 1 /\ Base * 0 + k = Base * a + r
  BY <1>1
<1> HIDE DEF a, r
<1>3. k = r
  BY <1>2, OneQuotient
<1>4. QED BY <1>3 DEF r

\* What is left of a number below m bytes' worth when the last byte is taken off.
LEMMA Shifted ==
  ASSUME NEW m \in Nat, NEW n \in 0 .. Base * m - 1
  PROVE  /\ n \div Base \in 0 .. m - 1 /\ n % Base \in 0 .. Base - 1
         /\ n = (n \div Base) * Base + (n % Base)
<1> USE LinkAssumption
<1>0. Base * m \in Int /\ n \in Nat
  OBVIOUS
<1>1. /\ n \div Base \in Nat /\ n % Base \in 0 .. Base - 1
      /\ n = Base * (n \div Base) + (n % Base)
  BY <1>0, DivMod
<1> DEFINE a == n \div Base  r == n % Base
<1>2. a \in Nat /\ r \in 0 .. Base - 1 /\ n = Base * a + r
  BY <1>1
<1> HIDE DEF a, r
<1>3. a < m
  <2>1. SUFFICES ASSUME a >= m PROVE FALSE
    BY <1>2
  <2>2. CASE a = m
    BY <1>0, <1>2, <2>2
  <2>3. CASE m < a
    <3>1. Base * m + Base <= Base * a
      BY <1>2, <2>3, Apart
    <3>2. QED BY <1>0, <1>2, <3>1
  <2>4. QED BY <1>2, <2>1, <2>2, <2>3
<1>4. a * Base = Base * a
  BY <1>2
<1>5. QED BY <1>2, <1>3, <1>4 DEF a, r

\* Numbers of both sizes come back from their bytes.
LEMMA ShortComesBack ==
  ASSUME NEW n \in 0 .. Base * Base - 1
  PROVE  ((n \div Base) % Base) * Base + (n % Base) = n
<1>1. n \div Base \in 0 .. Base - 1 /\ n = (n \div Base) * Base + (n % Base)
  BY Shifted, LinkAssumption
<1>2. (n \div Base) % Base = n \div Base
  BY <1>1, ByteKept
<1>3. QED BY <1>1, <1>2

\* The same for three bytes.
LEMMA LongComesBack ==
  ASSUME NEW n \in 0 .. Base * Base * Base - 1
  PROVE  ((((n \div Base) \div Base) % Base) * Base + ((n \div Base) % Base)) * Base + (n % Base) = n
<1> USE LinkAssumption
<1>1. Base * Base \in Nat /\ Base * Base * Base = Base * (Base * Base)
  OBVIOUS
<1>2. n \div Base \in 0 .. Base * Base - 1 /\ n = (n \div Base) * Base + (n % Base)
  BY <1>1, Shifted
<1> DEFINE m == n \div Base
<1>3. m \in 0 .. Base * Base - 1
  BY <1>2
<1> HIDE DEF m
<1>4. m \div Base \in 0 .. Base - 1 /\ m = (m \div Base) * Base + (m % Base)
  BY <1>3, Shifted
<1>5. (m \div Base) % Base = m \div Base
  BY <1>4, ByteKept
<1>6. (((m \div Base) % Base) * Base + (m % Base)) = m
  BY <1>4, <1>5
<1>7. QED BY <1>2, <1>6 DEF m

\* What is sent of a header, and what is to be seen of it: version 1 has no subrun.
Wire(v, h)  == IF v = 1 THEN OldHeaderWire(h) ELSE HeaderWire(h)
Shown(v, h) == IF v = 1 THEN [h EXCEPT !.subrun = 0] ELSE h

\* A header of either version is recognised, and says what was written.
LEMMA HeaderComesBack ==
  ASSUME NEW v \in {1, Version}, NEW h \in Headers
  PROVE  /\ Wire(v, h) \in Seq(Int)
         /\ IsHeader(Wire(v, h)) /\ HeaderOf(Wire(v, h)) = Shown(v, h)
         /\ Shown(v, h) \in [run : Nat, subrun : Nat, event : Nat]
<1>1. /\ h.run \in 0 .. Base * Base - 1 /\ h.subrun \in 0 .. Base * Base - 1
      /\ h.event \in 0 .. Base * Base * Base - 1
      /\ h = [run |-> h.run, subrun |-> h.subrun, event |-> h.event]
  BY LinkAssumption
<1>2. /\ Base \in Nat \ {0} /\ Magic \in Int /\ Version = 2
      /\ Base * Base \in Int /\ Base * Base * Base \in Int
  BY LinkAssumption DEF Magic, Version
<1>3. ASSUME NEW n \in Nat PROVE Byte0(n) \in Int /\ Byte1(n) \in Int /\ Byte2(n) \in Int
  BY <1>2, <1>3, DivMod DEF Byte0, Byte1, Byte2
<1>4. /\ Byte1(h.run) * Base + Byte0(h.run) = h.run
      /\ Byte1(h.subrun) * Base + Byte0(h.subrun) = h.subrun
  BY <1>1, ShortComesBack DEF Byte0, Byte1
<1>5. (Byte2(h.event) * Base + Byte1(h.event)) * Base + Byte0(h.event) = h.event
  BY <1>1, LongComesBack DEF Byte0, Byte1, Byte2
<1>6. h.run \in Nat /\ h.subrun \in Nat /\ h.event \in Nat
  BY <1>1, <1>2
<1>7. CASE v = 1
  <2>1. Wire(v, h) = OldHeaderWire(h) /\ Shown(v, h) = [h EXCEPT !.subrun = 0]
    BY <1>7 DEF Wire, Shown
  <2>2. OldHeaderWire(h) \in Seq(Int) /\ IsHeader(OldHeaderWire(h))
    BY <1>2, <1>3, <1>6 DEF OldHeaderWire, IsHeader, WireSize
  <2>3. HeaderOf(OldHeaderWire(h)) = [run |-> h.run, subrun |-> 0, event |-> h.event]
    BY <1>4, <1>5 DEF OldHeaderWire, HeaderOf, Number2, Number3
  <2>4. QED BY <1>1, <1>6, <2>1, <2>2, <2>3
<1>8. CASE v = 2
  <2>1. Wire(v, h) = HeaderWire(h) /\ Shown(v, h) = h
    BY <1>8 DEF Wire, Shown
  <2>2. HeaderWire(h) \in Seq(Int) /\ IsHeader(HeaderWire(h))
    BY <1>2, <1>3, <1>6 DEF HeaderWire, IsHeader, WireSize
  <2>3. HeaderOf(HeaderWire(h)) = [run |-> h.run, subrun |-> h.subrun, event |-> h.event]
    BY <1>2, <1>4, <1>5 DEF HeaderWire, HeaderOf, Number2, Number3
  <2>4. QED BY <1>1, <1>6, <2>1, <2>2, <2>3
<1>9. QED BY <1>2, <1>7, <1>8

-----------------------------------------------------------------------------
(* What the stream of parts looks like.                                    *)

Parts == {Topic, Source} \union {Header(b) : b \in Seq(Int)} \union {Payload(n) : n \in Nat \ {0}}

\* The header part of record n, of version v, when p have been published.
Sent(v, p, n) == Header(Wire(v, p[n]))

\* y may follow x in the stream: a header is that of a record, and its payload
\* comes next unless the send of that payload failed (record in b); as long as
\* no send failed, the four parts follow each other.
Follows(v, p, b, x, y) ==
  /\ x.kind = "header" =>
       \E n \in 1 .. Len(p) : /\ x = Sent(v, p, n)
                              /\ y = Payload(n) \/ (n \in b /\ y = Topic)
  /\ b = {} => /\ x.kind = "topic" => y = Source
               /\ x.kind = "source" => y.kind = "header"
               /\ x.kind = "payload" => y = Topic

Linked(v, p, b, s) == \A i \in 1 .. Len(s) - 1 : Follows(v, p, b, s[i], s[i + 1])

\* Payloads come in the order of their records, and only up to m.
Rising(s, m) ==
  /\ \A i \in 1 .. Len(s) : s[i].kind = "payload" => s[i].record <= m
  /\ \A i, j \in 1 .. Len(s) :
       i < j /\ s[i].kind = "payload" /\ s[j].kind = "payload" => s[i].record < s[j].record

\* The parts that wait, those NextFrame has taken first.
Stream == parts \o queue

\* The records whose messages have been passed on or lost.
Done == IF sending = 0 THEN Last ELSE Last - 1

Numbers  == [run : Nat, subrun : Nat, event : Nat]
Envelope == [header : Numbers, payload : Parts]

InvType ==
  /\ TypeOK
  /\ missed \subseteq 1 .. Last /\ broken \subseteq 1 .. Last
  /\ open \in Seq(Parts) /\ queue \in Seq(Parts) /\ parts \in Seq(Parts)
  /\ delivered \in Seq(Envelope)

\* What waits is whole messages but for those the source has begun to read.
InvStream ==
  /\ Linked(version, published, broken, Stream) /\ Rising(Stream, Done)
  /\ Stream # <<>> => Stream[Len(Stream)].kind = "payload"
  /\ broken = {} /\ Stream # <<>> => Stream[1] = Topic

\* What is open lacks its payload; behind a failed send a topic may follow.
InvOpen ==
  /\ Linked(version, published, broken, open)
  /\ \A i \in 1 .. Len(open) : open[i].kind # "payload"
  /\ sending # 0 => Last > 0 /\ open[Len(open)] = Part(sending)
  /\ sending = 0 /\ open # <<>> /\ open[Len(open)].kind = "header" =>
       \E n \in broken : open[Len(open)] = Sent(version, published, n)
  /\ broken = {} => Len(open) = sending /\ (sending # 0 => open[1] = Topic)

\* What has been delivered comes before what waits.
InvDelivered ==
  /\ HeadersAreGenuine
  /\ broken = {} =>
       /\ \A i \in 1 .. Len(delivered) :
            /\ RecordOf(delivered[i]) <= Done
            /\ \A j \in 1 .. Len(Stream) :
                 Stream[j].kind = "payload" => RecordOf(delivered[i]) < Stream[j].record
       /\ \A i \in 2 .. Len(delivered) : RecordOf(delivered[i - 1]) < RecordOf(delivered[i])

IInv == InvType /\ InvStream /\ InvOpen /\ InvDelivered /\ LossIsNoError

-----------------------------------------------------------------------------
(* Sequences of parts.                                                     *)

\* What the kind of a part says of the rest of it.
LEMMA Kinds ==
  ASSUME NEW x \in Parts
  PROVE  /\ x.kind \in {"topic", "source", "header", "payload"}
         /\ x.kind = "topic" => x = Topic
         /\ x.kind # "header" => x.bytes = <<>>
         /\ x.kind = "payload" => x = Payload(x.record) /\ x.record \in Nat \ {0}
BY DEF Parts, Topic, Source, Header, Payload

\* Links hold on when more records are published and more sends fail ...
LEMMA LinkedGrows ==
  ASSUME NEW v, NEW p, NEW q, NEW b, NEW c, NEW s \in Seq(Parts),
         Len(p) \in Nat, Len(q) \in Nat, Len(p) <= Len(q), \A n \in 1 .. Len(p) : q[n] = p[n],
         b \subseteq c, Linked(v, p, b, s)
  PROVE  Linked(v, q, c, s)
<1>1. SUFFICES ASSUME NEW i \in 1 .. Len(s) - 1
               PROVE  Follows(v, q, c, s[i], s[i + 1])
  BY DEF Linked
<1>2. Follows(v, p, b, s[i], s[i + 1])
  BY DEF Linked
<1>3. ASSUME s[i].kind = "header"
      PROVE  \E n \in 1 .. Len(q) : /\ s[i] = Sent(v, q, n)
                                    /\ s[i + 1] = Payload(n) \/ (n \in c /\ s[i + 1] = Topic)
  <2>1. PICK n \in 1 .. Len(p) : /\ s[i] = Sent(v, p, n)
                                 /\ s[i + 1] = Payload(n) \/ (n \in b /\ s[i + 1] = Topic)
    BY <1>2, <1>3 DEF Follows
  <2>2. n \in 1 .. Len(q) /\ Sent(v, q, n) = Sent(v, p, n)
    BY DEF Sent
  <2>3. QED BY <2>1, <2>2
<1>4. c = {} => b = {}
  OBVIOUS
<1>5. QED BY <1>2, <1>3, <1>4 DEF Follows

\* ... when parts are taken off the front ...
LEMMA LinkedDrops ==
  ASSUME NEW v, NEW p, NEW b, NEW m, NEW s \in Seq(Parts), NEW t \in Seq(Parts), NEW k \in Nat,
         Len(s) = Len(t) + k, \A i \in 1 .. Len(t) : t[i] = s[i + k]
  PROVE  /\ Linked(v, p, b, s) => Linked(v, p, b, t)
         /\ Rising(s, m) => Rising(t, m)
<1>1. ASSUME Linked(v, p, b, s), NEW i \in 1 .. Len(t) - 1
      PROVE  Follows(v, p, b, t[i], t[i + 1])
  <2>1. i \in 1 .. Len(t) /\ i + 1 \in 1 .. Len(t) /\ i + k \in 1 .. Len(s) - 1
    OBVIOUS
  <2>2. t[i] = s[i + k] /\ t[i + 1] = s[(i + k) + 1]
    BY <2>1
  <2>3. Follows(v, p, b, s[i + k], s[(i + k) + 1])
    BY <1>1, <2>1 DEF Linked
  <2>4. QED BY <2>2, <2>3
<1>2. ASSUME Rising(s, m), NEW i \in 1 .. Len(t), t[i].kind = "payload"
      PROVE  t[i].record <= m
  BY <1>2 DEF Rising
<1>3. ASSUME Rising(s, m), NEW i \in 1 .. Len(t), NEW j \in 1 .. Len(t), i < j,
             t[i].kind = "payload", t[j].kind = "payload"
      PROVE  t[i].record < t[j].record
  <2>1. i + k \in 1 .. Len(s) /\ j + k \in 1 .. Len(s) /\ i + k < j + k
    BY <1>3
  <2>2. QED BY <1>3, <2>1 DEF Rising
<1>4. QED BY <1>1, <1>2, <1>3 DEF Linked, Rising

\* ... and when a sequence that may follow is put behind.
LEMMA LinkedJoins ==
  ASSUME NEW v, NEW p, NEW b, NEW s \in Seq(Parts), NEW t \in Seq(Parts),
         Linked(v, p, b, s), Linked(v, p, b, t),
         s # <<>> /\ t # <<>> => Follows(v, p, b, s[Len(s)], t[1])
  PROVE  Linked(v, p, b, s \o t)
<1>1. SUFFICES ASSUME NEW i \in 1 .. Len(s \o t) - 1
               PROVE  Follows(v, p, b, (s \o t)[i], (s \o t)[i + 1])
  BY DEF Linked
<1>2. Len(s \o t) = Len(s) + Len(t) /\ Len(s) \in Nat /\ Len(t) \in Nat
  OBVIOUS
<1>3. CASE i < Len(s)
  <2>1. (s \o t)[i] = s[i] /\ (s \o t)[i + 1] = s[i + 1]
    BY <1>2, <1>3
  <2>2. QED BY <1>2, <1>3, <2>1 DEF Linked
<1>4. CASE i = Len(s)
  <2>1. s # <<>> /\ t # <<>>
    BY <1>2, <1>4
  <2>2. (s \o t)[i] = s[Len(s)] /\ (s \o t)[i + 1] = t[1]
    BY <1>2, <1>4
  <2>3. QED BY <2>1, <2>2
<1>5. CASE i > Len(s)
  <2>1. i - Len(s) \in 1 .. Len(t) - 1
    BY <1>2, <1>5
  <2>2. (s \o t)[i] = t[i - Len(s)] /\ (s \o t)[i + 1] = t[(i - Len(s)) + 1]
    BY <1>2, <1>5
  <2>3. QED BY <2>1, <2>2 DEF Linked
<1>6. QED BY <1>2, <1>3, <1>4, <1>5

\* The same for a single part.
LEMMA LinkedAppends ==
  ASSUME NEW v, NEW p, NEW b, NEW s \in Seq(Parts), NEW x \in Parts,
         Linked(v, p, b, s), s # <<>> => Follows(v, p, b, s[Len(s)], x)
  PROVE  Linked(v, p, b, Append(s, x))
<1>1. SUFFICES ASSUME NEW i \in 1 .. Len(s)
               PROVE  Follows(v, p, b, Append(s, x)[i], Append(s, x)[i + 1])
  BY DEF Linked
<1>2. CASE i < Len(s)
  <2>1. Append(s, x)[i] = s[i] /\ Append(s, x)[i + 1] = s[i + 1] /\ i \in 1 .. Len(s) - 1
    BY <1>2
  <2>2. QED BY <2>1 DEF Linked
<1>3. CASE i = Len(s)
  <2>1. s # <<>> /\ Append(s, x)[i] = s[Len(s)] /\ Append(s, x)[i + 1] = x
    BY <1>3
  <2>2. QED BY <2>1
<1>4. QED BY <1>2, <1>3

\* One more message: its payload is the highest.
LEMMA RisingJoins ==
  ASSUME NEW s \in Seq(Parts), NEW t \in Seq(Parts), NEW m \in Nat,
         Rising(s, m - 1), \A i \in 1 .. Len(t) : t[i].kind # "payload"
  PROVE  Rising(s \o Append(t, Payload(m)), m)
<1> DEFINE x == Payload(m)  u == s \o Append(t, x)
<1>1. x.record = m /\ Len(s) \in Nat /\ Len(t) \in Nat
  BY DEF Payload
<1>2. Append(t, x) \in Seq(Parts \union {x}) /\ s \in Seq(Parts \union {x})
  OBVIOUS
<1>3. Len(u) = Len(s) + Len(t) + 1 /\ u[Len(u)] = x
  BY <1>2
<1>4. ASSUME NEW i \in 1 .. Len(u), u[i].kind = "payload", i # Len(u)
      PROVE  i \in 1 .. Len(s) /\ u[i] = s[i]
  <2>1. CASE i <= Len(s)
    BY <1>1, <1>2, <1>3, <2>1
  <2>2. CASE i > Len(s)
    <3>1. i - Len(s) \in 1 .. Len(t) /\ u[i] = Append(t, x)[i - Len(s)]
      BY <1>1, <1>2, <1>3, <1>4, <2>2
    <3>2. u[i] = t[i - Len(s)]
      BY <3>1
    <3>3. QED BY <1>4, <3>1, <3>2
  <2>3. QED BY <1>1, <1>3, <2>1, <2>2
<1>5. ASSUME NEW i \in 1 .. Len(s), s[i].kind = "payload"
      PROVE  s[i].record \in Nat /\ s[i].record < m
  <2>1. s[i] \in Parts
    OBVIOUS
  <2>2. s[i].record \in Nat /\ s[i].record <= m - 1
    BY <1>5, <2>1, Kinds DEF Rising
  <2>3. QED BY <2>2
<1> HIDE DEF u, x
<1>6. ASSUME NEW i \in 1 .. Len(u), u[i].kind = "payload" PROVE u[i].record <= m
  BY <1>1, <1>3, <1>4, <1>5, <1>6
<1>7. ASSUME NEW i \in 1 .. Len(u), NEW j \in 1 .. Len(u), i < j,
             u[i].kind = "payload", u[j].kind = "payload"
      PROVE  u[i].record < u[j].record
  <2>1. i # Len(u) /\ i \in 1 .. Len(s) /\ u[i] = s[i]
    BY <1>1, <1>3, <1>4, <1>7
  <2>2. CASE j = Len(u)
    BY <1>1, <1>3, <1>5, <1>7, <2>1, <2>2
  <2>3. CASE j # Len(u)
    BY <1>4, <1>7, <2>1, <2>3 DEF Rising
  <2>4. QED BY <2>2, <2>3
<1>8. QED BY <1>6, <1>7 DEF Rising, u, x

\* A bound may be raised.
LEMMA RisingMore ==
  ASSUME NEW s \in Seq(Parts), NEW m \in Int, NEW k \in Int, m <= k, Rising(s, m)
  PROVE  Rising(s, k)
<1>1. ASSUME NEW i \in 1 .. Len(s), s[i].kind = "payload" PROVE s[i].record <= k
  <2>1. s[i] \in Parts
    OBVIOUS
  <2>2. s[i].record \in Nat /\ s[i].record <= m
    BY <1>1, <2>1, Kinds DEF Rising
  <2>3. QED BY <2>2
<1>2. QED BY <1>1 DEF Rising

\* The places of the payloads: the messages of a queue.
PayloadsIn(s) == {i \in 1 .. Len(s) : s[i].kind = "payload"}

\* They can be counted.
LEMMA PayloadsFinite ==
  ASSUME NEW s \in Seq(Parts)
  PROVE  IsFiniteSet(PayloadsIn(s)) /\ Cardinality(PayloadsIn(s)) \in Nat
<1>1. IsFiniteSet(1 .. Len(s)) /\ PayloadsIn(s) \in SUBSET (1 .. Len(s))
  BY FS_Interval DEF PayloadsIn
<1>2. IsFiniteSet(PayloadsIn(s))
  BY <1>1, FS_Subset
<1>3. QED BY <1>2, FS_CardinalityType

\* The queue has no more messages when a part has been taken ...
LEMMA TailPayloads ==
  ASSUME NEW s \in Seq(Parts), s # <<>>
  PROVE  Cardinality(PayloadsIn(Tail(s))) <= Cardinality(PayloadsIn(s))
<1> DEFINE S == PayloadsIn(Tail(s))  T == PayloadsIn(s)  f == [i \in S |-> i + 1]
<1>1. ASSUME NEW i \in S PROVE i + 1 \in T /\ i \in Nat
  BY DEF PayloadsIn
<1>2. f \in [S -> T] /\ \A i, j \in S : f[i] = f[j] => i = j
  BY <1>1
<1>3. f \in Injection(S, T)
  BY <1>2 DEF Injection, IsInjective
<1>4. IsFiniteSet(T)
  BY PayloadsFinite
<1> HIDE DEF S, T, f
<1>5. Cardinality(S) <= Cardinality(T)
  BY <1>3, <1>4, FS_Injection
<1>6. QED BY <1>5 DEF S, T

\* ... and one more when a message has come.
LEMMA MorePayloads ==
  ASSUME NEW s \in Seq(Parts), NEW t \in Seq(Parts), NEW x \in Parts,
         \A i \in 1 .. Len(t) : t[i].kind # "payload"
  PROVE  Cardinality(PayloadsIn(s \o Append(t, x))) <= Cardinality(PayloadsIn(s)) + 1
<1> DEFINE u == s \o Append(t, x)  S == PayloadsIn(s)  U == PayloadsIn(u)
<1>1. Len(s) \in Nat /\ Len(t) \in Nat /\ Len(u) = Len(s) + Len(t) + 1 /\ u \in Seq(Parts)
  OBVIOUS
<1>2. ASSUME NEW i \in 1 .. Len(u), u[i].kind = "payload", i # Len(u)
      PROVE  i \in 1 .. Len(s) /\ u[i] = s[i]
  <2>1. CASE i <= Len(s)
    BY <1>1, <2>1
  <2>2. CASE i > Len(s)
    <3>1. i - Len(s) \in 1 .. Len(t) /\ u[i] = Append(t, x)[i - Len(s)]
      BY <1>1, <1>2, <2>2
    <3>2. u[i] = t[i - Len(s)]
      BY <3>1
    <3>3. QED BY <1>2, <3>1, <3>2
  <2>3. QED BY <1>1, <2>1, <2>2
<1> HIDE DEF u
<1>3. U \in SUBSET (S \union {Len(u)})
  BY <1>2 DEF PayloadsIn
<1>4. IsFiniteSet(S) /\ IsFiniteSet(U) /\ Cardinality(S) \in Nat /\ Cardinality(U) \in Nat
  BY <1>1, PayloadsFinite
<1> HIDE DEF S, U
<1>5. /\ IsFiniteSet(S \union {Len(u)})
      /\ Cardinality(S \union {Len(u)}) = IF Len(u) \in S THEN Cardinality(S) ELSE Cardinality(S) + 1
  BY <1>4, FS_AddElement
<1>6. Cardinality(U) <= Cardinality(S \union {Len(u)})
  BY <1>3, <1>5, FS_Subset
<1>7. Cardinality(U) <= Cardinality(S) + 1
  BY <1>4, <1>5, <1>6
<1>8. QED BY <1>7 DEF U, S, u

-----------------------------------------------------------------------------
(* The stream and the part at its front.                                   *)

\* The parts of the stream, by their places.
LEMMA StreamParts ==
  ASSUME InvType
  PROVE  /\ Stream \in Seq(Parts) /\ Len(Stream) = Len(parts) + Len(queue)
         /\ \A i \in 1 .. Len(parts) : Stream[i] = parts[i]
         /\ \A i \in 1 .. Len(queue) : Stream[Len(parts) + i] = queue[i]
BY DEF InvType, Stream

\* Parts keep their order, however they are grouped.
LEMMA Regrouped ==
  ASSUME NEW s \in Seq(Parts), NEW t \in Seq(Parts), NEW u \in Seq(Parts)
  PROVE  s \o (t \o u) = (s \o t) \o u
BY ConcatAssociative

\* A part that is taken stays in the stream.
LEMMA TakenStays ==
  ASSUME InvType, queue # <<>>
  PROVE  Append(parts, Head(queue)) \o Tail(queue) = Stream
<1> DEFINE t == Append(parts, Head(queue)) \o Tail(queue)
<1>1. Head(queue) \in Parts /\ Tail(queue) \in Seq(Parts) /\ parts \in Seq(Parts) /\ queue \in Seq(Parts)
  BY DEF InvType
<1>2. t \in Seq(Parts) /\ Len(t) = Len(parts) + Len(queue)
  BY <1>1
<1>3. ASSUME NEW i \in 1 .. Len(t) PROVE t[i] = Stream[i]
  <2>1. CASE i <= Len(parts)
    BY <1>1, <1>2, <2>1 DEF Stream
  <2>2. CASE i = Len(parts) + 1
    BY <1>1, <1>2, <2>2 DEF Stream
  <2>3. CASE i > Len(parts) + 1
    BY <1>1, <1>2, <2>3 DEF Stream
  <2>4. QED BY <1>1, <1>2, <2>1, <2>2, <2>3
<1> HIDE DEF t
<1>4. Stream \in Seq(Parts) /\ Len(Stream) = Len(t)
  BY <1>2, StreamParts
<1>5. t = Stream
  BY <1>2, <1>3, <1>4, SeqEqual
<1>6. QED BY <1>5 DEF t

\* What the links say of the fourth part: if the third is a header, it is the
\* header of a record, and the fourth its payload unless that could not be sent.
LEMMA FourthPart ==
  ASSUME IInv, queue # <<>>, Len(parts) = 3, IsHeader(parts[3].bytes)
  PROVE  \E n \in 1 .. Last :
           /\ HeaderOf(parts[3].bytes) = Expected(n) /\ Expected(n) \in Numbers
           /\ Head(queue) = Payload(n) \/ (n \in broken /\ Head(queue) = Topic)
<1>1. Stream[3] = parts[3] /\ Stream[4] = Head(queue) /\ Len(Stream) >= 4
  <2>1. parts \in Seq(Parts) /\ queue \in Seq(Parts) /\ Len(queue) >= 1 /\ Head(queue) = queue[1]
    BY DEF IInv, InvType
  <2>2. 3 \in 1 .. Len(parts) /\ 1 \in 1 .. Len(queue) /\ Len(parts) + 1 = 4
    BY <2>1
  <2>3. QED BY <2>1, <2>2, StreamParts DEF IInv
<1>2. parts[3].kind = "header"
  <2>1. parts[3] \in Parts
    BY <1>1, StreamParts DEF IInv
  <2>2. Len(<<>>) = 0
    OBVIOUS
  <2>3. parts[3].bytes # <<>>
    BY <2>2 DEF IsHeader, WireSize
  <2>4. QED BY <2>1, <2>3, Kinds
<1>3. Follows(version, published, broken, Stream[3], Stream[4])
  BY <1>1, StreamParts DEF IInv, InvStream, Linked
<1>4. PICK n \in 1 .. Last :
        /\ parts[3] = Sent(version, published, n)
        /\ Head(queue) = Payload(n) \/ (n \in broken /\ Head(queue) = Topic)
  BY <1>1, <1>2, <1>3 DEF Follows, Last
<1>5. published[n] \in Headers /\ version \in {1, Version}
  BY DEF IInv, InvType, TypeOK, Last
<1>6. parts[3].bytes = Wire(version, published[n]) /\ Expected(n) = Shown(version, published[n])
  BY <1>4 DEF Sent, Header, Expected, Shown
<1>7. HeaderOf(parts[3].bytes) = Expected(n) /\ Expected(n) \in Numbers
  BY <1>5, <1>6, HeaderComesBack DEF Numbers
<1>8. QED BY <1>4, <1>7

\* As long as no send failed, the source takes messages from their first part.
LEMMA InStep ==
  ASSUME IInv, broken = {}
  PROVE  /\ Len(Stream) >= 1 => Stream[1] = Topic
         /\ Len(Stream) >= 2 => Stream[2] = Source
         /\ Len(Stream) >= 3 => Stream[3].kind = "header"
         /\ Len(Stream) >= 4 => Stream[4].kind = "payload"
         /\ Len(Stream) >= 5 => Stream[5] = Topic
<1>1. \A i \in 1 .. Len(Stream) - 1 : Follows(version, published, broken, Stream[i], Stream[i + 1])
  BY DEF IInv, InvStream, Linked
<1>2. Stream \in Seq(Parts) /\ Len(Stream) \in Nat
  BY StreamParts DEF IInv
<1>3. Len(Stream) >= 1 => Stream[1] = Topic
  BY <1>2 DEF IInv, InvStream
<1>4. Len(Stream) >= 2 => Stream[2] = Source
  <2>1. Len(Stream) >= 2 => Follows(version, published, broken, Stream[1], Stream[2])
    BY <1>1, <1>2
  <2>2. QED BY <1>2, <1>3, <2>1 DEF Follows, Topic
<1>5. Len(Stream) >= 3 => Stream[3].kind = "header"
  <2>1. Len(Stream) >= 3 => Follows(version, published, broken, Stream[2], Stream[3])
    BY <1>1, <1>2
  <2>2. QED BY <1>2, <1>4, <2>1 DEF Follows, Source
<1>6. Len(Stream) >= 4 => Stream[4].kind = "payload"
  <2>1. Len(Stream) >= 4 => Follows(version, published, broken, Stream[3], Stream[4])
    BY <1>1, <1>2
  <2>2. SUFFICES ASSUME Len(Stream) >= 4 PROVE Stream[4].kind = "payload"
    OBVIOUS
  <2>3. PICK n \in 1 .. Len(published) : Stream[4] = Payload(n) \/ (n \in broken /\ Stream[4] = Topic)
    BY <1>2, <1>5, <2>1, <2>2 DEF Follows
  <2>4. QED BY <2>3 DEF Payload
<1>7. Len(Stream) >= 5 => Stream[5] = Topic
  <2>1. Len(Stream) >= 5 => Follows(version, published, broken, Stream[4], Stream[5])
    BY <1>1, <1>2
  <2>2. QED BY <1>2, <1>6, <2>1 DEF Follows
<1>8. QED BY <1>3, <1>4, <1>5, <1>6, <1>7

-----------------------------------------------------------------------------
(* The invariant is inductive: one lemma per action.                       *)

\* Nothing has been published, sent or read.
LEMMA Initial == ASSUME Init PROVE IInv
<1>1. Queued = 0
  <2>1. {i \in 1 .. Len(queue) : queue[i].kind = "payload"} = {}
    BY DEF Init
  <2>2. QED BY <2>1, FS_EmptySet DEF Queued
<1>2. Stream = <<>>
  BY DEF Init, Stream
<1>3. InvType
  <2>1. /\ <<>> \in Seq(Headers) /\ <<>> \in Seq(Parts) /\ <<>> \in Seq(Envelope)
        /\ Len(<<>>) = 0 /\ MaxFrames \in Nat /\ HWM \in Nat
    BY LinkAssumption
  <2>2. TypeOK
    <3>1. published \in Seq(Headers) /\ Len(published) = 0 /\ Len(open) = 0 /\ Len(parts) = 0
      BY <2>1 DEF Init
    <3>2. version \in {1, Version} /\ Last = 0 /\ sending = 0 /\ joined = FALSE /\ rpc = "recv"
      BY <3>1 DEF Init, Last
    <3>3. broken \union missed \subseteq 1 .. Last
      BY DEF Init
    <3>4. Len(open) >= sending /\ Len(parts) <= 3
      BY <3>1, <3>2
    <3>5. published \in Seq(Headers) /\ Last <= MaxFrames /\ Queued <= HWM /\ sending \in 0 .. 3
      BY <1>1, <2>1, <3>1, <3>2
    <3>6. QED BY <3>2, <3>3, <3>4, <3>5 DEF TypeOK
  <2>3. QED BY <2>1, <2>2 DEF Init, InvType
<1>4. InvStream /\ InvOpen
  BY <1>2 DEF Init, InvStream, InvOpen, Linked, Rising
<1>5. InvDelivered /\ LossIsNoError
  BY DEF Init, InvDelivered, HeadersAreGenuine, LossIsNoError
<1>6. QED BY <1>3, <1>4, <1>5 DEF IInv

\* The parts of the record at hand.
LEMMA PartsAtHand ==
  ASSUME InvType
  PROVE  /\ Part(1) = Topic /\ Part(2) = Source /\ Part(4) = Payload(Last)
         /\ Part(3) = Sent(version, published, Last)
         /\ Topic \in Parts /\ Source \in Parts
         /\ Last > 0 => Part(3) \in Parts /\ Part(4) \in Parts
<1>1. Part(1) = Topic /\ Part(2) = Source /\ Part(4) = Payload(Last)
  BY DEF Part
<1>2. Part(3) = Sent(version, published, Last)
  BY DEF Part, Sent, Wire
<1>3. ASSUME Last > 0 PROVE Part(3) \in Parts /\ Part(4) \in Parts
  <2>1. published[Last] \in Headers /\ version \in {1, Version} /\ Last \in Nat \ {0}
    BY <1>3 DEF InvType, TypeOK, Last
  <2>2. Wire(version, published[Last]) \in Seq(Int)
    BY <2>1, HeaderComesBack
  <2>3. QED BY <1>1, <1>2, <2>1, <2>2 DEF Sent, Parts
<1>4. QED BY <1>1, <1>2, <1>3 DEF Parts

\* What was a header of a record is one when more is published.
LEMMA GenuineStays ==
  ASSUME HeadersAreGenuine, delivered' = delivered, version' = version,
         Last \in Nat, Last' \in Nat, Last <= Last', \A n \in 1 .. Last : published'[n] = published[n],
         broken \subseteq broken'
  PROVE  HeadersAreGenuine'
<1>1. SUFFICES ASSUME NEW i \in 1 .. Len(delivered)
               PROVE  (\E n \in 1 .. Last :
                        /\ delivered[i].header = Expected(n)
                        /\ delivered[i].payload = Payload(n)
                             \/ (n \in broken /\ delivered[i].payload = Topic))'
  BY DEF HeadersAreGenuine
<1>2. PICK n \in 1 .. Last :
        /\ delivered[i].header = Expected(n)
        /\ delivered[i].payload = Payload(n) \/ (n \in broken /\ delivered[i].payload = Topic)
  BY DEF HeadersAreGenuine
<1>3. Expected(n)' = Expected(n) /\ n \in 1 .. Last'
  BY DEF Expected
<1>4. QED BY <1>2, <1>3

\* The record of a frame is a number.
LEMMA RecordIsNumber ==
  ASSUME InvType, NEW i \in 1 .. Len(delivered)
  PROVE  RecordOf(delivered[i]) \in Nat
<1>1. delivered[i] \in Envelope
  BY DEF InvType
<1>2. delivered[i].payload \in Parts
  BY <1>1 DEF Envelope
<1>3. QED BY <1>2 DEF RecordOf, Parts, Topic, Source, Header, Payload

\* Publish: the topic follows a payload, or what a failed send has left behind.
LEMMA PublishKeeps == ASSUME IInv, Publish PROVE IInv'
<1> USE DEF IInv
<1>0. /\ Last \in Nat /\ sending = 0 /\ Last < MaxFrames /\ published \in Seq(Headers)
      /\ MaxFrames \in Nat
  BY LinkAssumption DEF Publish, InvType, TypeOK, Last
<1>1. PICK h \in Headers : published' = Append(published, h)
  BY DEF Publish
<1>2. /\ published' \in Seq(Headers) /\ Last' = Last + 1
      /\ \A n \in 1 .. Last : published'[n] = published[n]
  BY <1>0, <1>1 DEF Last
<1>a. /\ Len(published) \in Nat /\ Len(published') \in Nat /\ Len(published) <= Len(published')
      /\ \A n \in 1 .. Len(published) : published'[n] = published[n]
  BY <1>0, <1>2 DEF Last
<1>3. /\ version' = version /\ joined' = joined /\ queue' = queue /\ missed' = missed
      /\ parts' = parts /\ rpc' = rpc /\ delivered' = delivered /\ Stream' = Stream
  BY DEF Publish, source, Stream
<1>4. \/ open' = Append(open, Topic) /\ sending' = 1 /\ broken' = broken
      \/ broken' = broken \union {Last + 1} /\ open' = open /\ sending' = sending
  BY DEF Publish
<1>5. broken \subseteq broken' /\ broken' \subseteq 1 .. Last' /\ missed' \subseteq 1 .. Last'
  <2>1. 1 .. Last \subseteq 1 .. Last' /\ Last + 1 \in 1 .. Last'
    BY <1>0, <1>2
  <2>2. broken \subseteq 1 .. Last /\ missed \subseteq 1 .. Last
    BY DEF InvType
  <2>3. QED BY <1>3, <1>4, <2>1, <2>2
<1>6. /\ Stream \in Seq(Parts) /\ open \in Seq(Parts) /\ Topic \in Parts
  BY StreamParts, PartsAtHand DEF InvType
<1>7. Done = Last /\ Done' \in {Last, Last + 1}
  BY <1>0, <1>2, <1>4 DEF Done
<1>8. InvType'
  <2>1. Queued' = Queued
    BY <1>3 DEF Queued
  <2>2. open' \in Seq(Parts) /\ sending' \in 0 .. 3 /\ Len(open') >= sending'
    <3>1. Append(open, Topic) \in Seq(Parts) /\ Len(Append(open, Topic)) >= 1 /\ Len(open) >= 0
      BY <1>6
    <3>2. CASE open' = Append(open, Topic) /\ sending' = 1
      BY <3>1, <3>2
    <3>3. CASE open' = open /\ sending' = sending
      BY <1>0, <1>6, <3>1, <3>3
    <3>4. QED BY <1>4, <3>2, <3>3
  <2>3. QED BY <1>0, <1>2, <1>3, <1>5, <2>1, <2>2 DEF InvType, TypeOK
<1>9. InvStream'
  <2>1. Linked(version', published', broken', Stream')
    <3>1. Linked(version, published, broken, Stream)
      BY DEF InvStream
    <3>2. Linked(version, published', broken', Stream)
      BY <1>a, <1>5, <1>6, <3>1, LinkedGrows, Zenon
    <3>3. QED BY <1>3, <3>2
  <2>2. Rising(Stream', Done')
    <3>1. Rising(Stream, Last)
      BY <1>7 DEF InvStream
    <3>2. Rising(Stream, Last + 1)
      BY <1>0, <1>6, <3>1, RisingMore
    <3>3. QED BY <1>3, <1>7, <3>1, <3>2
  <2>3. QED BY <1>3, <1>5, <2>1, <2>2 DEF InvStream
<1>10. InvOpen'
  <2>1. Linked(version', published', broken', open)
    <3>1. Linked(version, published, broken, open)
      BY DEF InvOpen
    <3>2. Linked(version, published', broken', open)
      BY <1>a, <1>5, <1>6, <3>1, LinkedGrows, Zenon
    <3>3. QED BY <1>3, <3>2
  <2>2. \A n \in broken : n \in 1 .. Last /\ Sent(version', published', n) = Sent(version, published, n)
    BY <1>2, <1>3 DEF InvType, Sent
  <2>3. CASE open' = Append(open, Topic) /\ sending' = 1 /\ broken' = broken
    <3>1. ASSUME open # <<>> PROVE Follows(version', published', broken', open[Len(open)], Topic)
      <4>1. broken # {}
        BY <1>0, <1>6, <3>1 DEF InvOpen
      <4>2. ASSUME open[Len(open)].kind = "header"
            PROVE  \E n \in 1 .. Len(published') :
                     open[Len(open)] = Sent(version', published', n) /\ n \in broken'
        <5>1. PICK n \in broken : open[Len(open)] = Sent(version, published, n)
          BY <1>0, <3>1, <4>2 DEF InvOpen
        <5>2. n \in 1 .. Len(published') /\ n \in broken'
          BY <1>5 DEF Last
        <5>3. QED BY <2>2, <5>1, <5>2
      <4>3. QED BY <2>3, <4>1, <4>2 DEF Follows
    <3>2. Linked(version', published', broken', open')
      BY <1>6, <2>1, <2>3, <3>1, LinkedAppends
    <3>3. /\ Len(open') = Len(open) + 1 /\ open'[Len(open')] = Topic
          /\ \A i \in 1 .. Len(open) : open'[i] = open[i]
      BY <1>6, <2>3
    <3>4. Part(1)' = Topic
      BY DEF Part
    <3>5. \A i \in 1 .. Len(open') : open'[i].kind # "payload"
      <4>1. Topic.kind # "payload"
        BY DEF Topic
      <4>2. QED BY <1>6, <3>3, <4>1 DEF InvOpen
    <3>6. broken' = {} => Len(open') = 1 /\ open'[1] = Topic
      BY <1>0, <2>3, <3>3 DEF InvOpen
    <3>7. QED BY <1>0, <1>2, <2>3, <3>2, <3>3, <3>4, <3>5, <3>6 DEF InvOpen
  <2>4. CASE broken' = broken \union {Last + 1} /\ open' = open /\ sending' = sending
    <3>1. broken' # {}
      BY <2>4
    <3>2. ASSUME open # <<>>, open[Len(open)].kind = "header"
          PROVE  \E n \in broken' : open[Len(open)] = Sent(version', published', n)
      BY <1>0, <1>5, <2>2, <3>2 DEF InvOpen
    <3>3. QED BY <1>0, <2>1, <2>4, <3>1, <3>2 DEF InvOpen
  <2>5. QED BY <1>4, <2>3, <2>4
<1>11. InvDelivered'
  <2>1. HeadersAreGenuine'
    BY <1>0, <1>2, <1>3, <1>5, GenuineStays DEF InvDelivered
  <2>2. ASSUME broken' = {}
        PROVE  \A i \in 1 .. Len(delivered) : RecordOf(delivered[i]) <= Done'
    <3>1. Done' = Done
      BY <1>2, <1>4, <1>7, <2>2 DEF Done
    <3>2. QED BY <1>5, <2>2, <3>1 DEF InvDelivered
  <2>3. QED BY <1>3, <1>5, <2>1, <2>2 DEF InvDelivered, RecordOf
<1>12. LossIsNoError'
  BY <1>3, <1>5 DEF LossIsNoError
<1>13. QED BY <1>8, <1>9, <1>10, <1>11, <1>12

\* SendMore: the source follows the topic, the header the source.
LEMMA SendMoreKeeps == ASSUME IInv, SendMore PROVE IInv'
<1> USE DEF IInv
<1>1. /\ sending \in {1, 2} /\ sending' = sending + 1 /\ open' = Append(open, Part(sending + 1))
      /\ UNCHANGED <<version, published, broken, missed, joined, queue, parts, rpc, delivered>>
  BY DEF SendMore, source
<1>2. /\ Stream' = Stream /\ Last' = Last /\ Done' = Done /\ Queued' = Queued
      /\ Last \in Nat /\ Last > 0
  BY <1>1 DEF Stream, Last, Done, Queued, InvType, TypeOK, InvOpen
<1>3. open \in Seq(Parts) /\ Len(open) >= sending /\ Len(open) \in Nat
  BY DEF InvType, TypeOK
<1>a. \A i \in 1 .. 4 : Part(i)' = Part(i)
  BY <1>1, <1>2 DEF Part
<1>4. /\ Part(sending + 1) \in Parts
      /\ Part(sending + 1).kind # "payload"
      /\ Follows(version, published, broken, open[Len(open)], Part(sending + 1))
  <2>1. CASE sending = 1
    <3>1. Part(sending + 1) = Source /\ open[Len(open)] = Topic /\ Source \in Parts
      BY <1>1, <2>1, PartsAtHand DEF InvOpen
    <3>2. QED BY <3>1 DEF Follows, Topic, Source
  <2>2. CASE sending = 2
    <3>1. /\ Part(sending + 1) = Sent(version, published, Last) /\ open[Len(open)] = Source
          /\ Part(sending + 1) \in Parts
      BY <1>1, <1>2, <2>2, PartsAtHand DEF InvOpen
    <3>2. QED BY <3>1 DEF Follows, Source, Sent, Header
  <2>3. QED BY <1>1, <2>1, <2>2
<1>5. /\ open' \in Seq(Parts) /\ Len(open') = Len(open) + 1
      /\ open'[Len(open')] = Part(sending + 1)
      /\ \A i \in 1 .. Len(open) : open'[i] = open[i]
  BY <1>1, <1>3, <1>4
<1>6. InvType'
  BY <1>1, <1>2, <1>3, <1>5 DEF InvType, TypeOK
<1>7. InvStream'
  BY <1>1, <1>2 DEF InvStream
<1>8. InvOpen'
  <2>1. Linked(version, published, broken, open')
    BY <1>1, <1>3, <1>4, LinkedAppends DEF InvOpen
  <2>2. \A i \in 1 .. Len(open') : open'[i].kind # "payload"
    BY <1>3, <1>4, <1>5 DEF InvOpen
  <2>3. (sending # 0 /\ open[Len(open)] = Part(sending))'
    BY <1>1, <1>a, <1>5
  <2>4. broken = {} => Len(open') = sending' /\ open'[1] = Topic
    BY <1>1, <1>3, <1>5 DEF InvOpen
  <2>5. QED BY <1>1, <1>2, <2>1, <2>2, <2>3, <2>4 DEF InvOpen
<1>9. InvDelivered'
  <2>1. HeadersAreGenuine'
    BY <1>1, <1>2, GenuineStays DEF InvDelivered
  <2>2. QED BY <1>1, <1>2, <2>1 DEF InvDelivered, RecordOf
<1>10. LossIsNoError'
  BY <1>1 DEF LossIsNoError
<1>11. QED BY <1>6, <1>7, <1>8, <1>9, <1>10

\* SendLast: a whole message goes to the end of the queue, or is lost.
LEMMA SendLastKeeps == ASSUME IInv, SendLast PROVE IInv'
<1> USE DEF IInv
<1> DEFINE m == Append(open, Part(4))
<1>1. /\ sending = 3 /\ sending' = 0 /\ open' = <<>>
      /\ UNCHANGED <<version, published, broken, joined, parts, rpc, delivered>>
  BY DEF SendLast, source
<1>2. \/ Queued < HWM /\ queue' = queue \o m /\ missed' = missed
      \/ queue' = queue /\ missed' = missed \union {Last}
  BY DEF SendLast
<1>3. /\ Last' = Last /\ Last \in Nat /\ Last > 0 /\ Done = Last - 1 /\ Done' = Last
      /\ open[Len(open)] = Part(3)
  BY <1>1 DEF Last, Done, InvType, TypeOK, InvOpen
<1>4. /\ Stream \in Seq(Parts) /\ parts \in Seq(Parts) /\ queue \in Seq(Parts)
      /\ open \in Seq(Parts) /\ Len(open) \in Nat /\ Len(open) >= 1
  BY <1>1, StreamParts DEF InvType, TypeOK
<1>5. Part(4) = Payload(Last) /\ Part(4) \in Parts /\ Part(3) = Sent(version, published, Last)
  BY <1>3, PartsAtHand
<1>6. /\ m \in Seq(Parts) /\ m # <<>> /\ Len(m) = Len(open) + 1 /\ m[Len(m)] = Payload(Last)
      /\ m[1] = open[1]
  BY <1>4, <1>5
<1>7. InvType'
  <2>1. missed' \subseteq 1 .. Last' /\ Len(<<>>) = 0 /\ <<>> \in Seq(Parts)
    <3>1. missed \subseteq 1 .. Last /\ Last \in 1 .. Last
      BY <1>3 DEF InvType
    <3>2. missed' \subseteq missed \union {Last}
      BY <1>2
    <3>3. Len(<<>>) = 0 /\ <<>> \in Seq(Parts)
      OBVIOUS
    <3>4. QED BY <1>3, <3>1, <3>2, <3>3
  <2>2. queue' \in Seq(Parts)
    <3> HIDE DEF m
    <3>1. queue \o m \in Seq(Parts)
      BY <1>4, <1>6
    <3>2. QED BY <1>2, <1>4, <3>1
  <2>3. Queued' <= HWM
    <3>1. CASE queue' = queue
      BY <3>1 DEF Queued, InvType, TypeOK
    <3>2. CASE Queued < HWM /\ queue' = queue \o m
      <4>1. Cardinality(PayloadsIn(queue \o m)) <= Cardinality(PayloadsIn(queue)) + 1
        BY <1>4, <1>5, MorePayloads DEF InvOpen
      <4>3. Queued = Cardinality(PayloadsIn(queue)) /\ Queued' = Cardinality(PayloadsIn(queue \o m))
        BY <3>2 DEF Queued, PayloadsIn
      <4> HIDE DEF m
      <4>5. queue \o m \in Seq(Parts)
        BY <1>4, <1>6
      <4>2. Cardinality(PayloadsIn(queue)) \in Nat /\ Cardinality(PayloadsIn(queue \o m)) \in Nat
        BY <1>4, <4>5, PayloadsFinite
      <4>4. QED BY <3>2, <4>1, <4>2, <4>3, LinkAssumption
    <3>3. QED BY <1>2, <3>1, <3>2
  <2> HIDE DEF m
  <2>4. QED BY <1>1, <1>3, <2>1, <2>2, <2>3 DEF InvType, TypeOK
<1>8. InvOpen'
  BY <1>1 DEF InvOpen, Linked
<1>9. CASE queue' = queue
  <2>1. Stream' = Stream
    BY <1>1, <1>9 DEF Stream
  <2>2. Rising(Stream, Last)
    BY <1>3, <1>4, RisingMore DEF InvStream
  <2>3. InvStream'
    BY <1>1, <1>3, <2>1, <2>2 DEF InvStream
  <2>4. HeadersAreGenuine'
    BY <1>1, <1>3, GenuineStays DEF InvDelivered
  <2>5. ASSUME broken = {}, NEW i \in 1 .. Len(delivered) PROVE RecordOf(delivered[i]) <= Last
    <3>1. RecordOf(delivered[i]) <= Last - 1 /\ RecordOf(delivered[i]) \in Nat
      BY <1>3, <2>5, RecordIsNumber DEF InvDelivered
    <3>2. QED BY <1>3, <3>1
  <2>6. InvDelivered'
    BY <1>1, <1>3, <2>1, <2>4, <2>5 DEF InvDelivered, RecordOf
  <2>7. LossIsNoError'
    BY <1>1 DEF LossIsNoError
  <2>8. QED BY <1>7, <1>8, <2>3, <2>6, <2>7
<1>10. CASE queue' = queue \o m
  <2>1. Stream' = Stream \o m
    <3> HIDE DEF m
    <3>a. m \in Seq(Parts)
      BY <1>6
    <3>1. parts \o (queue \o m) = (parts \o queue) \o m
      BY <1>4, <3>a, Regrouped
    <3>2. QED BY <1>1, <1>10, <3>1 DEF Stream
  <2>2. Linked(version, published, broken, m)
    <3>1. Follows(version, published, broken, open[Len(open)], Part(4))
      BY <1>3, <1>5 DEF Follows, Sent, Header, Last
    <3>2. QED BY <1>4, <1>5, <3>1, LinkedAppends DEF InvOpen
  <2>3. Linked(version, published, broken, Stream \o m)
    <3>1. ASSUME Stream # <<>> PROVE Follows(version, published, broken, Stream[Len(Stream)], m[1])
      <4>1. Stream[Len(Stream)].kind = "payload"
        BY <3>1 DEF InvStream
      <4>2. broken = {} => m[1] = Topic
        BY <1>1, <1>6 DEF InvOpen
      <4>3. QED BY <4>1, <4>2 DEF Follows
    <3> HIDE DEF m
    <3>2. QED BY <1>4, <1>6, <2>2, <3>1, LinkedJoins DEF InvStream
  <2>4. Rising(Stream \o m, Last)
    <3>1. Rising(Stream, Last - 1) /\ \A i \in 1 .. Len(open) : open[i].kind # "payload"
      BY <1>3 DEF InvStream, InvOpen
    <3>2. Rising(Stream \o Append(open, Payload(Last)), Last)
      BY <1>3, <1>4, <3>1, RisingJoins
    <3>3. QED BY <1>5, <3>2
  <2>5. \A i \in 1 .. Len(Stream \o m) : (Stream \o m)[i].kind = "payload" =>
           \/ i \in 1 .. Len(Stream) /\ (Stream \o m)[i] = Stream[i]
           \/ (Stream \o m)[i] = Payload(Last)
    <3>1. SUFFICES ASSUME NEW i \in 1 .. Len(Stream \o m), (Stream \o m)[i].kind = "payload",
                          i > Len(Stream)
                   PROVE  (Stream \o m)[i] = Payload(Last)
      <4> HIDE DEF m
      <4>1. QED BY <1>4, <1>6
    <3>2. i - Len(Stream) \in 1 .. Len(m) /\ (Stream \o m)[i] = m[i - Len(Stream)]
      <4> HIDE DEF m
      <4>1. QED BY <1>4, <1>6, <3>1
    <3>3. \A j \in 1 .. Len(open) : m[j] = open[j] /\ open[j].kind # "payload"
      BY <1>4, <1>5 DEF InvOpen
    <3> HIDE DEF m
    <3>4. i - Len(Stream) = Len(m)
      <4> DEFINE j == i - Len(Stream)
      <4>1. j \in 1 .. Len(m) /\ m[j].kind = "payload"
        BY <3>1, <3>2
      <4> HIDE DEF j
      <4>2. ~(j \in 1 .. Len(open))
        BY <3>3, <4>1
      <4>3. j = Len(m)
        BY <1>4, <1>6, <4>1, <4>2
      <4>4. QED BY <4>3 DEF j
    <3>5. QED BY <1>6, <3>2, <3>4
  <2> HIDE DEF m
  <2>6. /\ Stream \o m # <<>> /\ (Stream \o m)[Len(Stream \o m)] = Payload(Last)
        /\ (Stream \o m)[1] = IF Stream = <<>> THEN m[1] ELSE Stream[1]
    BY <1>4, <1>6
  <2>7. InvStream'
    <3>1. broken = {} => m[1] = Topic
      BY <1>1, <1>6 DEF InvOpen
    <3>2. Payload(Last).kind = "payload"
      BY DEF Payload
    <3>3. QED BY <1>1, <1>3, <2>1, <2>3, <2>4, <2>6, <3>1, <3>2 DEF InvStream
  <2>8. HeadersAreGenuine'
    BY <1>1, <1>3, GenuineStays DEF InvDelivered
  <2>9. ASSUME broken = {}, NEW i \in 1 .. Len(delivered)
        PROVE  /\ RecordOf(delivered[i]) \in Nat /\ RecordOf(delivered[i]) < Last
               /\ \A j \in 1 .. Len(Stream \o m) : (Stream \o m)[j].kind = "payload" =>
                    RecordOf(delivered[i]) < (Stream \o m)[j].record
    <3>1. RecordOf(delivered[i]) <= Last - 1 /\ RecordOf(delivered[i]) \in Nat
      BY <1>3, <2>9, RecordIsNumber DEF InvDelivered
    <3>2. Payload(Last).record = Last
      BY DEF Payload
    <3>3. RecordOf(delivered[i]) < Last
      BY <1>3, <3>1
    <3>4. \A j \in 1 .. Len(Stream) : Stream[j].kind = "payload" => RecordOf(delivered[i]) < Stream[j].record
      BY <2>9 DEF InvDelivered
    <3>5. QED BY <2>5, <3>1, <3>2, <3>3, <3>4
  <2>10. ASSUME broken = {}, NEW i \in 1 .. Len(delivered) PROVE RecordOf(delivered[i]) <= Last
    BY <1>3, <2>9, <2>10
  <2>11. InvDelivered'
    BY <1>1, <1>3, <2>1, <2>8, <2>9, <2>10 DEF InvDelivered, RecordOf
  <2>12. LossIsNoError'
    BY <1>1 DEF LossIsNoError
  <2>13. QED BY <1>7, <1>8, <2>7, <2>11, <2>12
<1>11. QED BY <1>2, <1>9, <1>10

\* SendFails: the last part that is open is that of a broken record.
LEMMA SendFailsKeeps == ASSUME IInv, SendFails PROVE IInv'
<1> USE DEF IInv
<1>1. /\ sending \in {1, 2, 3} /\ sending' = 0 /\ broken' = broken \union {Last}
      /\ UNCHANGED <<version, published, open, missed, joined, queue, parts, rpc, delivered>>
  BY DEF SendFails, source, InvType, TypeOK
<1>2. /\ Stream' = Stream /\ Last' = Last /\ Queued' = Queued /\ Last \in Nat /\ Last > 0
      /\ Done = Last - 1 /\ Done' = Last
  BY <1>1 DEF Stream, Last, Done, Queued, InvType, TypeOK, InvOpen
<1>3. /\ broken \subseteq broken' /\ broken' # {} /\ broken' \subseteq 1 .. Last /\ Last \in broken'
      /\ Len(published) \in Nat /\ Len(published) <= Len(published)
      /\ Stream \in Seq(Parts) /\ open \in Seq(Parts)
  <2>1. broken \subseteq 1 .. Last /\ Last \in 1 .. Last /\ open \in Seq(Parts)
    BY <1>2 DEF InvType
  <2>2. Len(published) \in Nat /\ Len(published) <= Len(published)
    BY <1>2 DEF Last
  <2>3. QED BY <1>1, <2>1, <2>2, StreamParts
<1>4. InvType'
  BY <1>1, <1>2, <1>3 DEF InvType, TypeOK
<1>5. InvStream'
  <2>1. Linked(version, published, broken', Stream)
    BY <1>3, LinkedGrows, Zenon DEF InvStream
  <2>2. Rising(Stream, Last)
    BY <1>2, <1>3, RisingMore DEF InvStream
  <2>3. QED BY <1>1, <1>2, <1>3, <2>1, <2>2 DEF InvStream
<1>6. InvOpen'
  <2>1. Linked(version, published, broken', open)
    BY <1>3, LinkedGrows, Zenon DEF InvOpen
  <2>2. ASSUME open[Len(open)].kind = "header"
        PROVE  open[Len(open)] = Sent(version, published, Last)
    <3>1. open[Len(open)] = Part(sending)
      BY <1>1 DEF InvOpen
    <3>2. sending # 1 /\ sending # 2
      BY <2>2, <3>1, PartsAtHand DEF Topic, Source
    <3>3. QED BY <1>1, <3>1, <3>2, PartsAtHand
  <2>3. QED BY <1>1, <1>3, <2>1, <2>2 DEF InvOpen
<1>7. InvDelivered'
  <2>1. HeadersAreGenuine'
    BY <1>1, <1>2, <1>3, GenuineStays DEF InvDelivered
  <2>2. QED BY <1>3, <2>1 DEF InvDelivered
<1>8. LossIsNoError'
  BY <1>3 DEF LossIsNoError
<1>9. QED BY <1>4, <1>5, <1>6, <1>7, <1>8

\* RecvPart: the part stays in the stream.
LEMMA RecvPartKeeps == ASSUME IInv, RecvPart PROVE IInv'
<1> USE DEF IInv
<1>1. /\ queue # <<>> /\ rpc = "recv" /\ Len(parts) < 3
      /\ parts' = Append(parts, Head(queue)) /\ queue' = Tail(queue)
      /\ UNCHANGED <<version, published, sending, open, broken, missed, joined, rpc, delivered>>
  BY DEF RecvPart, Receives, publisher
<1>2. Stream' = Stream /\ Last' = Last /\ Last \in Nat /\ Done' = Done
  <2>1. Stream' = Stream
    BY <1>1, TakenStays DEF Stream
  <2>2. QED BY <1>1, <2>1 DEF Last, Done, InvType, TypeOK
<1>3. InvType'
  <2>1. /\ Head(queue) \in Parts /\ Tail(queue) \in Seq(Parts)
        /\ Append(parts, Head(queue)) \in Seq(Parts) /\ Len(parts') <= 3
    BY <1>1 DEF InvType
  <2>2. Queued' <= HWM
    <3>1. Queued = Cardinality(PayloadsIn(queue)) /\ Queued' = Cardinality(PayloadsIn(Tail(queue)))
      BY <1>1 DEF Queued, PayloadsIn
    <3>2. /\ Cardinality(PayloadsIn(queue)) \in Nat /\ Cardinality(PayloadsIn(Tail(queue))) \in Nat
          /\ Cardinality(PayloadsIn(Tail(queue))) <= Cardinality(PayloadsIn(queue))
      BY <1>1, <2>1, PayloadsFinite, TailPayloads DEF InvType
    <3>3. Queued <= HWM
      BY DEF InvType, TypeOK
    <3>4. QED BY <3>1, <3>2, <3>3, LinkAssumption
  <2>3. QED BY <1>1, <1>2, <2>1, <2>2 DEF InvType, TypeOK
<1>4. InvStream'
  BY <1>1, <1>2 DEF InvStream
<1>5. InvOpen'
  <2>1. \A i \in 1 .. 4 : Part(i)' = Part(i)
    BY <1>1, <1>2 DEF Part
  <2>2. (sending # 0 => Last > 0 /\ open[Len(open)] = Part(sending))'
    BY <1>1, <1>2, <2>1 DEF InvOpen, InvType, TypeOK
  <2>3. QED BY <1>1, <1>2, <2>2 DEF InvOpen
<1>6. InvDelivered'
  <2>1. HeadersAreGenuine'
    BY <1>1, <1>2, GenuineStays DEF InvDelivered
  <2>2. QED BY <1>1, <1>2, <2>1 DEF InvDelivered, RecordOf
<1>7. LossIsNoError'
  BY <1>1 DEF LossIsNoError
<1>8. QED BY <1>3, <1>4, <1>5, <1>6, <1>7

\* RecvLast: four parts leave the stream, as a frame, skipped or as an error.
LEMMA RecvLastKeeps == ASSUME IInv, RecvLast PROVE IInv'
<1> USE DEF IInv
<1> DEFINE d == [header |-> HeaderOf(parts[3].bytes), payload |-> Head(queue)]
<1>1. /\ queue # <<>> /\ rpc = "recv" /\ Len(parts) = 3
      /\ parts' = <<>> /\ queue' = Tail(queue)
      /\ UNCHANGED <<version, published, sending, open, broken, missed, joined>>
  BY DEF RecvLast, Receives, publisher
<1>2. \/ parts[1] # Topic /\ rpc' = rpc /\ delivered' = delivered
      \/ parts[1] = Topic /\ ~IsHeader(parts[3].bytes) /\ rpc' = "error" /\ delivered' = delivered
      \/ parts[1] = Topic /\ IsHeader(parts[3].bytes) /\ rpc' = rpc /\ delivered' = Append(delivered, d)
  BY DEF RecvLast, Other
<1>3. /\ Last' = Last /\ Last \in Nat /\ Done' = Done
      /\ \A i \in 1 .. 4 : Part(i)' = Part(i)
  BY <1>1 DEF Last, Done, Part, InvType, TypeOK
<1>4. /\ Stream \in Seq(Parts) /\ Stream' = Tail(queue) /\ Tail(queue) \in Seq(Parts)
      /\ Len(Stream) = Len(Tail(queue)) + 4 /\ Len(Tail(queue)) \in Nat
      /\ \A i \in 1 .. Len(Tail(queue)) : Tail(queue)[i] = Stream[i + 4]
      /\ Stream[1] = parts[1] /\ Stream[3] = parts[3] /\ Stream[4] = Head(queue)
  <2>1. queue \in Seq(Parts) /\ Tail(queue) \in Seq(Parts) /\ Len(queue) = Len(Tail(queue)) + 1
    BY <1>1 DEF InvType
  <2>2. \A i \in 1 .. Len(Tail(queue)) : Tail(queue)[i] = queue[i + 1] /\ i + 1 \in 1 .. Len(queue)
    BY <1>1, <2>1
  <2>3. Head(queue) = queue[1] /\ 1 \in 1 .. Len(queue)
    BY <1>1, <2>1
  <2>4. /\ Len(Stream) = 3 + Len(queue)
        /\ \A i \in 1 .. 3 : Stream[i] = parts[i]
        /\ \A i \in 1 .. Len(queue) : Stream[3 + i] = queue[i]
    BY <1>1, StreamParts
  <2>5. Stream' = Tail(queue)
    BY <1>1, <2>1 DEF Stream
  <2>6. \A i \in 1 .. Len(Tail(queue)) : Tail(queue)[i] = Stream[3 + (i + 1)] /\ 3 + (i + 1) = i + 4
    BY <2>1, <2>2, <2>4
  <2>7. Stream[4] = queue[1]
    BY <2>3, <2>4
  <2>8. QED BY <2>1, <2>3, <2>4, <2>5, <2>6, <2>7, StreamParts
<1>5. ASSUME parts[1] = Topic, IsHeader(parts[3].bytes)
      PROVE  \E n \in 1 .. Last :
               /\ d.header = Expected(n) /\ d.header \in Numbers
               /\ d.payload = Payload(n) \/ (n \in broken /\ d.payload = Topic)
  BY <1>1, <1>5, FourthPart
<1>6. Head(queue) \in Parts
  BY <1>1 DEF InvType
<1>7. ASSUME broken = {}
      PROVE  /\ parts[1] = Topic /\ IsHeader(parts[3].bytes) /\ Head(queue).kind = "payload"
             /\ Len(Stream) >= 5 => Stream[5] = Topic
  <2>1. Len(Stream) >= 4
    BY <1>4
  <2>2. Stream[1] = Topic /\ Stream[3].kind = "header" /\ Stream[4].kind = "payload"
    BY <1>4, <1>7, <2>1, InStep
  <2>3. Follows(version, published, broken, Stream[3], Stream[4])
    BY <1>4, <2>1 DEF InvStream, Linked
  <2>4. PICK n \in 1 .. Last : Stream[3] = Sent(version, published, n)
    BY <2>2, <2>3 DEF Follows, Last
  <2>5. published[n] \in Headers /\ version \in {1, Version}
    BY DEF InvType, TypeOK, Last
  <2>6. IsHeader(Stream[3].bytes)
    BY <2>4, <2>5, HeaderComesBack DEF Sent, Header
  <2>7. QED BY <1>4, <1>7, <2>2, <2>6, InStep
<1> HIDE DEF d
<1>8. InvType'
  <2>1. Queued' <= HWM
    <3>1. Queued = Cardinality(PayloadsIn(queue)) /\ Queued' = Cardinality(PayloadsIn(Tail(queue)))
      BY <1>1 DEF Queued, PayloadsIn
    <3>2. queue \in Seq(Parts) /\ Queued <= HWM
      BY DEF InvType, TypeOK
    <3>3. /\ Cardinality(PayloadsIn(queue)) \in Nat /\ Cardinality(PayloadsIn(Tail(queue))) \in Nat
          /\ Cardinality(PayloadsIn(Tail(queue))) <= Cardinality(PayloadsIn(queue))
      BY <1>1, <1>4, <3>2, PayloadsFinite, TailPayloads
    <3>4. QED BY <3>1, <3>2, <3>3, LinkAssumption
  <2>2. delivered' \in Seq(Envelope)
    <3>1. delivered \in Seq(Envelope)
      BY DEF InvType
    <3>2. ASSUME parts[1] = Topic, IsHeader(parts[3].bytes) PROVE d \in Envelope
      <4>1. d.header \in Numbers /\ d = [header |-> d.header, payload |-> Head(queue)]
        BY <1>5, <3>2 DEF d
      <4>2. QED BY <1>6, <4>1 DEF Envelope
    <3>3. QED BY <1>2, <3>1, <3>2
  <2>3. <<>> \in Seq(Parts) /\ Len(<<>>) = 0
    OBVIOUS
  <2>4. parts' \in Seq(Parts) /\ Len(parts') <= 3 /\ rpc' \in {"recv", "eof", "error"}
    BY <1>1, <1>2, <2>3
  <2>5. QED BY <1>1, <1>3, <1>4, <2>1, <2>2, <2>4 DEF InvType, TypeOK
<1>9. InvStream'
  <2>1. Linked(version, published, broken, Tail(queue)) /\ Rising(Tail(queue), Done)
    BY <1>4, LinkedDrops DEF InvStream
  <2>2. Tail(queue) # <<>> => Tail(queue)[Len(Tail(queue))].kind = "payload"
    <3>1. ASSUME Tail(queue) # <<>> PROVE Tail(queue)[Len(Tail(queue))].kind = "payload"
      <4>1. Len(Tail(queue)) \in 1 .. Len(Tail(queue))
        BY <1>4, <3>1
      <4>2. Tail(queue)[Len(Tail(queue))] = Stream[Len(Stream)] /\ Stream # <<>>
        <5>1. Tail(queue)[Len(Tail(queue))] = Stream[Len(Tail(queue)) + 4]
          BY <1>4, <4>1
        <5>2. Len(Stream) = Len(Tail(queue)) + 4 /\ Len(Tail(queue)) \in Nat
          BY <1>4
        <5>3. Stream # <<>>
          BY <5>2
        <5>4. QED BY <5>1, <5>2, <5>3
      <4>3. QED BY <4>2 DEF InvStream
    <3>2. QED BY <3>1
  <2>3. broken = {} /\ Tail(queue) # <<>> => Tail(queue)[1] = Topic
    <3>1. ASSUME broken = {}, Tail(queue) # <<>> PROVE Tail(queue)[1] = Topic
      <4>1. 1 \in 1 .. Len(Tail(queue)) /\ Len(Stream) >= 5
        BY <1>4, <3>1
      <4>2. Tail(queue)[1] = Stream[5]
        <5>1. \A i \in 1 .. Len(Tail(queue)) : Tail(queue)[i] = Stream[i + 4]
          BY <1>4
        <5>2. 1 + 4 = 5
          OBVIOUS
        <5>3. QED BY <4>1, <5>1, <5>2, Zenon
      <4>3. QED BY <1>7, <3>1, <4>1, <4>2
    <3>2. QED BY <3>1
  <2>4. QED BY <1>1, <1>3, <1>4, <2>1, <2>2, <2>3 DEF InvStream
<1>10. InvOpen'
  <2>1. (sending # 0 => Last > 0 /\ open[Len(open)] = Part(sending))'
    BY <1>1, <1>3 DEF InvOpen, InvType, TypeOK
  <2>2. QED BY <1>1, <1>3, <2>1 DEF InvOpen
<1>11. ASSUME NEW k \in Nat, \A j \in 1 .. Len(Stream) : Stream[j].kind = "payload" => k < Stream[j].record
       PROVE  \A j \in 1 .. Len(Tail(queue)) : Tail(queue)[j].kind = "payload" => k < Tail(queue)[j].record
  <2>1. SUFFICES ASSUME NEW j \in 1 .. Len(Tail(queue)), Tail(queue)[j].kind = "payload"
                 PROVE  k < Tail(queue)[j].record
    OBVIOUS
  <2>2. j + 4 \in 1 .. Len(Stream) /\ Tail(queue)[j] = Stream[j + 4]
    BY <1>4
  <2>3. QED BY <1>11, <2>1, <2>2
<1>12. CASE delivered' = delivered
  <2>1. HeadersAreGenuine'
    BY <1>1, <1>3, <1>12, GenuineStays DEF InvDelivered
  <2>2. ASSUME broken = {}, NEW i \in 1 .. Len(delivered)
        PROVE  \A j \in 1 .. Len(Tail(queue)) :
                 Tail(queue)[j].kind = "payload" => RecordOf(delivered[i]) < Tail(queue)[j].record
    BY <1>11, <2>2, RecordIsNumber DEF InvDelivered
  <2>3. InvDelivered'
    BY <1>1, <1>3, <1>4, <1>12, <2>1, <2>2 DEF InvDelivered, RecordOf
  <2>4. LossIsNoError'
    BY <1>1, <1>2, <1>7 DEF LossIsNoError
  <2>5. QED BY <1>8, <1>9, <1>10, <2>3, <2>4
<1>13. CASE /\ parts[1] = Topic /\ IsHeader(parts[3].bytes)
            /\ rpc' = rpc /\ delivered' = Append(delivered, d)
  <2>0. /\ delivered \in Seq(Envelope) /\ Len(delivered) \in Nat
        /\ Len(delivered') = Len(delivered) + 1 /\ delivered'[Len(delivered')] = d
        /\ \A i \in 1 .. Len(delivered) : delivered'[i] = delivered[i]
    BY <1>13 DEF InvType
  <2>1. HeadersAreGenuine'
    <3>1. SUFFICES ASSUME NEW i \in 1 .. Len(delivered')
                   PROVE  \E n \in 1 .. Last :
                            /\ delivered'[i].header = Expected(n)
                            /\ delivered'[i].payload = Payload(n)
                                 \/ (n \in broken /\ delivered'[i].payload = Topic)
      <4>1. \A n \in 1 .. Last : Expected(n)' = Expected(n)
        BY <1>1 DEF Expected
      <4>2. QED BY <1>1, <1>3, <4>1 DEF HeadersAreGenuine
    <3>2. CASE i \in 1 .. Len(delivered)
      BY <2>0, <3>2 DEF InvDelivered, HeadersAreGenuine
    <3>3. CASE i = Len(delivered')
      BY <1>5, <1>13, <2>0, <3>3
    <3>4. QED BY <2>0, <3>2, <3>3
  <2>2. ASSUME broken = {}
        PROVE  /\ RecordOf(d) \in Nat /\ RecordOf(d) <= Done
               /\ \A i \in 1 .. Len(delivered) : RecordOf(delivered[i]) < RecordOf(d)
               /\ \A j \in 1 .. Len(Tail(queue)) :
                    Tail(queue)[j].kind = "payload" => RecordOf(d) < Tail(queue)[j].record
    <3>1. 4 \in 1 .. Len(Stream) /\ Stream[4].kind = "payload" /\ RecordOf(d) = Stream[4].record
      BY <1>4, <1>7, <2>2 DEF RecordOf, d
    <3>2. RecordOf(d) \in Nat
      <4>1. Stream[4] \in Parts
        BY <1>4, <3>1
      <4>2. QED BY <3>1, <4>1, Kinds
    <3>3. RecordOf(d) <= Done
      BY <3>1 DEF InvStream, Rising
    <3>4. \A i \in 1 .. Len(delivered) : RecordOf(delivered[i]) < RecordOf(d)
      BY <2>2, <3>1 DEF InvDelivered
    <3>5. ASSUME NEW j \in 1 .. Len(Tail(queue)), Tail(queue)[j].kind = "payload"
          PROVE  RecordOf(d) < Tail(queue)[j].record
      <4>1. j + 4 \in 1 .. Len(Stream) /\ 4 < j + 4 /\ Tail(queue)[j] = Stream[j + 4]
        BY <1>4
      <4>2. QED BY <3>1, <3>5, <4>1 DEF InvStream, Rising
    <3>6. QED BY <3>2, <3>3, <3>4, <3>5
  <2>3. ASSUME broken = {}, NEW i \in 1 .. Len(delivered')
        PROVE  /\ RecordOf(delivered'[i]) <= Done
               /\ \A j \in 1 .. Len(Tail(queue)) :
                    Tail(queue)[j].kind = "payload" => RecordOf(delivered'[i]) < Tail(queue)[j].record
    <3>1. CASE i \in 1 .. Len(delivered)
      <4>1. RecordOf(delivered[i]) <= Done
        BY <2>3, <3>1 DEF InvDelivered
      <4>2. \A j \in 1 .. Len(Tail(queue)) :
              Tail(queue)[j].kind = "payload" => RecordOf(delivered[i]) < Tail(queue)[j].record
        BY <1>11, <2>3, <3>1, RecordIsNumber DEF InvDelivered
      <4>3. QED BY <2>0, <3>1, <4>1, <4>2
    <3>2. CASE i = Len(delivered')
      BY <2>0, <2>2, <2>3, <3>2
    <3>3. QED BY <2>0, <3>1, <3>2
  <2>4. ASSUME broken = {}, NEW i \in 2 .. Len(delivered')
        PROVE  RecordOf(delivered'[i - 1]) < RecordOf(delivered'[i])
    <3>1. CASE i \in 2 .. Len(delivered)
      <4>1. i - 1 \in 1 .. Len(delivered) /\ i \in 1 .. Len(delivered)
        BY <2>0, <3>1
      <4>2. RecordOf(delivered[i - 1]) < RecordOf(delivered[i])
        BY <2>4, <3>1 DEF InvDelivered
      <4>3. QED BY <2>0, <4>1, <4>2
    <3>2. CASE i = Len(delivered')
      <4>1. i - 1 \in 1 .. Len(delivered)
        BY <2>0, <3>2
      <4>2. QED BY <2>0, <2>2, <2>4, <3>2, <4>1
    <3>3. QED BY <2>0, <3>1, <3>2
  <2>5. InvDelivered'
    BY <1>1, <1>3, <1>4, <2>1, <2>3, <2>4 DEF InvDelivered, RecordOf
  <2>6. LossIsNoError'
    BY <1>1, <1>13 DEF LossIsNoError
  <2>7. QED BY <1>8, <1>9, <1>10, <2>5, <2>6
<1>14. QED BY <1>2, <1>12, <1>13

\* A connection that comes or goes, the end of the source, and a stuttering step.
LEMMA QuietKeeps ==
  ASSUME IInv, Join \/ Leave \/ RecvTimeout \/ RecvStopped \/ UNCHANGED vars
  PROVE  IInv'
<1> USE DEF IInv
<1>1. UNCHANGED <<version, published, sending, open, broken, missed, queue, parts, delivered>>
  BY DEF Join, Leave, RecvTimeout, RecvStopped, vars, publisher, source
<1>2. /\ Stream' = Stream /\ Last' = Last /\ Done' = Done /\ Queued' = Queued /\ Last \in Nat
      /\ \A i \in 1 .. 4 : Part(i)' = Part(i)
  BY <1>1 DEF Stream, Last, Done, Queued, Part, InvType, TypeOK
<1>3. joined' \in BOOLEAN /\ rpc' \in {"recv", "eof", "error"}
  BY DEF Join, Leave, RecvTimeout, RecvStopped, vars, source, InvType, TypeOK
<1>4. InvType'
  BY <1>1, <1>2, <1>3 DEF InvType, TypeOK
<1>5. InvStream'
  BY <1>1, <1>2 DEF InvStream
<1>6. InvOpen'
  <2>1. (sending # 0 => Last > 0 /\ open[Len(open)] = Part(sending))'
    BY <1>1, <1>2 DEF InvOpen, InvType, TypeOK
  <2>2. QED BY <1>1, <1>2, <2>1 DEF InvOpen
<1>7. InvDelivered'
  <2>1. HeadersAreGenuine'
    BY <1>1, <1>2, GenuineStays DEF InvDelivered
  <2>2. QED BY <1>1, <1>2, <2>1 DEF InvDelivered, RecordOf
<1>8. LossIsNoError'
  <2>1. ASSUME broken = {}, RecvTimeout PROVE rpc' # "error"
    <3>1. queue = <<>> /\ (parts = <<>> => rpc' = "eof")
      BY <2>1 DEF RecvTimeout
    <3>2. SUFFICES ASSUME parts # <<>> PROVE FALSE
      BY <3>1
    <3>3. Stream \in Seq(Parts) /\ Len(Stream) = Len(parts) /\ Len(parts) \in 1 .. 3
      <4>1. Len(queue) = 0
        BY <3>1
      <4>2. parts \in Seq(Parts) /\ Len(parts) <= 3
        BY DEF InvType, TypeOK
      <4>3. Len(parts) \in Nat /\ Len(parts) # 0
        BY <3>2, <4>2
      <4>4. QED BY <4>1, <4>2, <4>3, StreamParts
    <3>4. Stream[Len(Stream)].kind = "payload"
      BY <3>3 DEF InvStream
    <3>5. Stream[Len(Stream)].kind # "payload"
      <4>1. CASE Len(Stream) = 1
        BY <2>1, <4>1, InStep DEF Topic
      <4>2. CASE Len(Stream) = 2
        BY <2>1, <4>2, InStep DEF Source
      <4>3. CASE Len(Stream) = 3
        BY <2>1, <4>3, InStep
      <4>4. QED BY <3>3, <4>1, <4>2, <4>3
    <3>6. QED BY <3>4, <3>5
  <2>2. QED BY <1>1, <2>1 DEF LossIsNoError, Join, Leave, RecvStopped, vars, source
<1>9. QED BY <1>4, <1>5, <1>6, <1>7, <1>8

\* Every step keeps the invariant.
LEMMA Inductive == ASSUME IInv, [Next]_vars PROVE IInv'
<1>1. CASE Publish
  BY <1>1, PublishKeeps
<1>2. CASE SendMore
  BY <1>2, SendMoreKeeps
<1>3. CASE SendLast
  BY <1>3, SendLastKeeps
<1>4. CASE SendFails
  BY <1>4, SendFailsKeeps
<1>5. CASE RecvPart
  BY <1>5, RecvPartKeeps
<1>6. CASE RecvLast
  BY <1>6, RecvLastKeeps
<1>7. CASE Join \/ Leave \/ RecvTimeout \/ RecvStopped \/ UNCHANGED vars
  BY <1>7, QuietKeeps
<1>8. QED
  BY <1>1, <1>2, <1>3, <1>4, <1>5, <1>6, <1>7 DEF Next, Publisher, Receiver

-----------------------------------------------------------------------------
(* The theorems.                                                           *)

\* What the invariant says of the frames as long as sends succeed.
LEMMA Delivers == ASSUME IInv PROVE DeliversWhatWasPublished
<1>1. SUFFICES ASSUME broken = {}
               PROVE  /\ \A i \in 1 .. Len(delivered) :
                           /\ RecordOf(delivered[i]) \in 1 .. Last
                           /\ delivered[i].header = Expected(RecordOf(delivered[i]))
                      /\ \A i \in 2 .. Len(delivered) :
                           RecordOf(delivered[i - 1]) < RecordOf(delivered[i])
  BY DEF DeliversWhatWasPublished
<1>2. ASSUME NEW i \in 1 .. Len(delivered)
      PROVE  /\ RecordOf(delivered[i]) \in 1 .. Last
             /\ delivered[i].header = Expected(RecordOf(delivered[i]))
  <2>1. PICK n \in 1 .. Last :
          delivered[i].header = Expected(n) /\ delivered[i].payload = Payload(n)
    BY <1>1 DEF IInv, InvDelivered, HeadersAreGenuine
  <2>2. RecordOf(delivered[i]) = n
    BY <2>1 DEF RecordOf, Payload
  <2>3. QED BY <2>1, <2>2
<1>3. \A i \in 2 .. Len(delivered) : RecordOf(delivered[i - 1]) < RecordOf(delivered[i])
  BY <1>1 DEF IInv, InvDelivered
<1>4. QED BY <1>2, <1>3

\* For all headers, any number of records, any queue and any number of values of
\* a byte: as long as sends succeed, datamon sees records of daqd with their own
\* numbers, in order and none twice, and no error (publish_data, NextFrame).
THEOREM LinkCorrect == Spec => []LinkKeepsRecords
<1>1. Init => IInv
  BY Initial
<1>2. IInv /\ [Next]_vars => IInv'
  BY Inductive
<1>3. IInv => LinkKeepsRecords
  BY Delivers DEF IInv, InvType, LinkKeepsRecords
<1>4. QED BY <1>1, <1>2, <1>3, PTL DEF Spec

\* Whatever sends fail: no frame has a header that is not a record's, or the
\* payload of another record (daqd.cpp:598, data_frame_header.hpp:49).
THEOREM HeadersCorrect == Spec => []HeadersAreGenuine
<1>1. Init => IInv
  BY Initial
<1>2. IInv /\ [Next]_vars => IInv'
  BY Inductive
<1>3. IInv => HeadersAreGenuine
  BY DEF IInv, InvDelivered
<1>4. QED BY <1>1, <1>2, <1>3, PTL DEF Spec
=============================================================================
