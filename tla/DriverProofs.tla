---------------------------- MODULE DriverProofs ----------------------------
(***************************************************************************)
(* Proofs about the two drivers.  UsbBulk, for every set of endpoints,     *)
(* packet size and size of requests: what is sent is sent in order, and    *)
(* the endpoints that receive implement BulkPipe.  SdiHost, for every      *)
(* number of polls and every card: a block that is read is the one that    *)
(* was asked for.                                                          *)
(***************************************************************************)
EXTENDS UsbBulk, SdiHost, Integers, SequenceTheorems, TLAPS

-----------------------------------------------------------------------------
\* Numbers modulo ByteMod.

\* Quotient and remainder.
LEMMA DivMod ==
    ASSUME NEW M \in Nat \ {0}, NEW a \in Nat
    PROVE  /\ a % M \in 0..M-1 /\ a \div M \in Nat
           /\ a = M * (a \div M) + (a % M)
  OBVIOUS

\* The only multiple of M closer to 0 than M is 0.
LEMMA SmallMultiple ==
    ASSUME NEW M \in Nat \ {0}, NEW k \in Int, -M < M * k, M * k < M
    PROVE  k = 0
  <1>1. CASE k >= 1
    <2>1. M * k >= M
      BY <1>1
    <2>. QED BY <2>1
  <1>2. CASE k <= -1
    <2>1. M * k <= -M
      BY <1>2
    <2>. QED BY <2>1
  <1>. QED BY <1>1, <1>2

\* Taking a number modulo M before another is added changes nothing.
LEMMA ModAdd ==
    ASSUME NEW M \in Nat \ {0}, NEW a \in Nat, NEW b \in Nat
    PROVE  ((a % M) + b) % M = (a + b) % M
  <1> DEFINE r == a % M
             q == a \div M
             c == r + b
             d == a + b
             s == c % M
             p == c \div M
             t == d % M
             o == d \div M
  <1>1. r \in Nat /\ q \in Nat /\ a = M * q + r
    BY DivMod
  <1> HIDE DEF r, q
  <1>0. c \in Nat /\ d \in Nat /\ c = r + b /\ d = a + b
    BY <1>1
  <1> HIDE DEF c, d
  <1>2. s \in 0..M-1 /\ p \in Nat /\ c = M * p + s
    BY <1>0, DivMod
  <1>3. t \in 0..M-1 /\ o \in Nat /\ d = M * o + t
    BY <1>0, DivMod
  <1> HIDE DEF s, p, t, o
  <1>4. s - t = M * o - M * q - M * p
    BY <1>0, <1>1, <1>2, <1>3
  <1> DEFINE k == o - q - p
  <1>5. k \in Int /\ M * k = s - t
    <2>1. \A x, y, z \in Int : M * (x - y - z) = M * x - M * y - M * z
      OBVIOUS
    <2>. QED
      BY <1>1, <1>2, <1>3, <1>4, <2>1
  <1> HIDE DEF k
  <1>6. -M < M * k /\ M * k < M
    BY <1>2, <1>3, <1>5
  <1>7. s = t
    BY <1>2, <1>3, <1>5, <1>6, SmallMultiple
  <1>. QED BY <1>7 DEF r, s, t, c, d

-----------------------------------------------------------------------------
\* The inductive invariant.

Stages == {"IDLE", "SUBMIT", "COMPLETE"}
RcvUrb == [stage : Stages, buffer_length : Nat, data : Seq(Bytes)]
TxUrb == [stage : Stages, zero : BOOLEAN, data : Seq(Bytes)]

\* An endpoint is filed where it is looked for.
EndpointsFiled == \A i \in DOMAIN epinstance :
    epinstance[i] \in UNION SetUps /\ SetupIndex(epinstance[i]) = i

RxTypeOK ==
    /\ rcv_urb \in [Outs -> RcvUrb]
    /\ RXPKTRDY \subseteq Outs
    /\ rxFifo \in [Outs -> Seq(Bytes)] /\ outByte \in [Outs -> Bytes]
    /\ \A e \in Outs : Len(rxFifo[e]) <= PacketSize

TxTypeOK ==
    /\ tx_urb \in [Ins -> TxUrb] /\ sent \in [Ins -> Nat]
    /\ TXPKTRDY \subseteq Ins
    /\ txFifo \in [Ins -> Seq(Bytes)] /\ inByte \in [Ins -> Bytes]

\* The FIFO holds bytes only while its packet waits; a request that is not under way has
\* none left.
OneOwner(e) ==
    /\ e \notin TXPKTRDY => txFifo[e] = <<>>
    /\ tx_urb[e].stage # "SUBMIT" => tx_urb[e].data = <<>>
    /\ tx_urb[e].stage = "SUBMIT" => sent[e] <= Len(tx_urb[e].data)

\* The bytes of data behind the first "from" are numbered from "first" on.
Continues(data, from, first) ==
    \A j \in from + 1..Len(data) : data[j] = (first + (j - from - 1)) % ByteMod

\* The bytes in the FIFO start with the one the host expects, those not yet loaded go on
\* behind them.
BytesFollow(e) ==
    /\ Continues(txFifo[e], 0, inByte[e])
    /\ Continues(tx_urb[e].data, sent[e], inByte[e] + Len(txFifo[e]))

TxInv == \A e \in Ins : OneOwner(e) /\ BytesFollow(e)

BulkInv == EndpointsFiled /\ RxTypeOK /\ TxTypeOK /\ TxInv

-----------------------------------------------------------------------------
\* Lemmas about the operators.

LEMMA BytesType == 0 \in Bytes /\ \A n \in Nat : n % ByteMod \in Bytes
  BY BulkAssumption, DivMod DEF Bytes

LEMMA LesserIs ==
    ASSUME NEW a \in Nat, NEW b \in Nat
    PROVE  Lesser(a, b) \in Nat /\ Lesser(a, b) <= a /\ Lesser(a, b) <= b
           /\ (Lesser(a, b) = a \/ Lesser(a, b) = b)
  BY DEF Lesser

LEMMA NumberedIs ==
    ASSUME NEW first \in Nat, NEW n \in Nat
    PROVE  /\ Numbered(first, n) \in Seq(Bytes) /\ Len(Numbered(first, n)) = n
           /\ Numbered(first, n) \in [1..n -> Bytes]
           /\ \A i \in 1..n : Numbered(first, n)[i] = (first + i - 1) % ByteMod
  <1>1. \A i \in 1..n : (first + i - 1) % ByteMod \in Bytes
    BY BytesType
  <1>2. Numbered(first, n) \in [1..n -> Bytes]
    BY <1>1 DEF Numbered
  <1>3. Numbered(first, n) \in Seq(Bytes)
    BY <1>2, SeqDef
  <1>4. Len(Numbered(first, n)) = n
    <2> DEFINE s == Numbered(first, n)
    <2>1. s \in Seq(Bytes) /\ DOMAIN s = 1..n
      BY <1>2, <1>3
    <2> HIDE DEF s
    <2>2. Len(s) \in Nat /\ 1..Len(s) = 1..n
      BY <2>1, LenProperties
    <2>. QED
      BY <2>2 DEF s
  <1>5. \A i \in 1..n : Numbered(first, n)[i] = (first + i - 1) % ByteMod
    BY DEF Numbered
  <1>. QED
    BY <1>2, <1>3, <1>4, <1>5

\* What is cut from a sequence of bytes.
LEMMA CutIs ==
    ASSUME NEW data \in Seq(Bytes), NEW from \in Nat, NEW to \in Nat, to <= Len(data)
    PROVE  /\ SubSeq(data, from + 1, to) \in Seq(Bytes)
           /\ Len(SubSeq(data, from + 1, to)) = IF from < to THEN to - from ELSE 0
           /\ \A i \in 1..to - from : SubSeq(data, from + 1, to)[i] = data[from + i]
  <1>1. \A i \in from + 1..to : data[i] \in Bytes
    <2>1. \A i \in from + 1..to : i \in 1..Len(data)
      BY LenProperties
    <2>. QED
      BY <2>1, ElementOfSeq
  <1> DEFINE m == from + 1
  <1>2. m \in Int /\ m = from + 1
    OBVIOUS
  <1> HIDE DEF m
  <1>3. /\ SubSeq(data, m, to) \in Seq(Bytes)
        /\ Len(SubSeq(data, m, to)) = IF m <= to THEN to - m + 1 ELSE 0
        /\ \A i \in 1..to - m + 1 : SubSeq(data, m, to)[i] = data[m + i - 1]
    BY <1>1, <1>2, SubSeqProperties
  <1>4. \A i \in 1..to - from : i \in 1..to - m + 1 /\ m + i - 1 = from + i
    BY <1>2
  <1>. QED
    BY <1>2, <1>3, <1>4 DEF m

\* The numbers of the bytes when some are loaded from the front.
LEMMA ContinuesCut ==
    ASSUME NEW data \in Seq(Bytes), NEW from \in Nat, NEW to \in Nat, NEW first \in Nat,
           from <= to, to <= Len(data), Continues(data, from, first)
    PROVE  /\ Continues(SubSeq(data, from + 1, to), 0, first)
           /\ Continues(data, to, first + (to - from))
  <1> DEFINE cut == SubSeq(data, from + 1, to)
  <1>1. Len(data) \in Nat
    BY LenProperties
  <1>2. Len(cut) = to - from /\ \A i \in 1..to - from : cut[i] = data[from + i]
    BY CutIs
  <1> HIDE DEF cut
  <1>3. \A i \in 1..to - from : cut[i] = (first + (i - 0 - 1)) % ByteMod
    <2>1. \A i \in 1..to - from : from + i \in from + 1..Len(data)
                                /\ from + i - from - 1 = i - 0 - 1
      BY <1>1
    <2>. QED
      BY <1>2, <2>1 DEF Continues
  <1>4. 0 + 1..Len(cut) = 1..to - from
    BY <1>2
  <1>5. \A j \in to + 1..Len(data) : j \in from + 1..Len(data)
                                 /\ first + (j - from - 1) = first + (to - from) + (j - to - 1)
    BY <1>1
  <1>6. Continues(cut, 0, first)
    BY <1>3, <1>4 DEF Continues
  <1>7. Continues(data, to, first + (to - from))
    BY <1>5 DEF Continues
  <1>. QED
    BY <1>6, <1>7 DEF cut

LEMMA ContinuesConcat ==
    ASSUME NEW a \in Seq(Bytes), NEW b \in Seq(Bytes), NEW first \in Nat,
           Continues(a, 0, first), Continues(b, 0, first + Len(a))
    PROVE  Continues(a \o b, 0, first)
  <1>1. Len(a) \in Nat /\ Len(b) \in Nat
    BY LenProperties
  <1>2. /\ Len(a \o b) = Len(a) + Len(b)
        /\ \A i \in 1..Len(a) + Len(b) : (a \o b)[i] = IF i <= Len(a) THEN a[i] ELSE b[i - Len(a)]
    BY ConcatProperties
  <1>3. ASSUME NEW j \in 0 + 1..Len(a \o b)
        PROVE  (a \o b)[j] = (first + (j - 0 - 1)) % ByteMod
    <2>1. CASE j <= Len(a)
      <3>1. j \in 1..Len(a) + Len(b) /\ j \in 0 + 1..Len(a)
        BY <1>1, <1>2, <2>1
      <3>. QED
        BY <1>2, <2>1, <3>1 DEF Continues
    <2>2. CASE j > Len(a)
      <3>1. /\ j \in 1..Len(a) + Len(b) /\ ~(j <= Len(a)) /\ j - Len(a) \in 0 + 1..Len(b)
            /\ first + Len(a) + (j - Len(a) - 0 - 1) = first + (j - 0 - 1)
        BY <1>1, <1>2, <2>2
      <3>2. b[j - Len(a)] = (first + Len(a) + (j - Len(a) - 0 - 1)) % ByteMod
        BY <3>1 DEF Continues
      <3>. QED
        BY <1>2, <3>1, <3>2
    <2>. QED
      BY <1>1, <1>2, <2>1, <2>2
  <1>. QED
    BY <1>3 DEF Continues

\* The first number may be taken modulo ByteMod.
LEMMA ContinuesMod ==
    ASSUME NEW data \in Seq(Bytes), NEW from \in Nat, NEW first \in Nat
    PROVE  Continues(data, from, first) <=> Continues(data, from, first % ByteMod)
  <1>1. ByteMod \in Nat \ {0} /\ Len(data) \in Nat
    BY BulkAssumption, LenProperties
  <1>2. \A j \in from + 1..Len(data) : j - from - 1 \in Nat
    BY <1>1
  <1>3. \A j \in from + 1..Len(data) :
          ((first % ByteMod) + (j - from - 1)) % ByteMod = (first + (j - from - 1)) % ByteMod
    BY <1>1, <1>2, ModAdd
  <1>. QED
    BY <1>3 DEF Continues

LEMMA NumberedContinues ==
    ASSUME NEW first \in Nat, NEW n \in Nat
    PROVE  Continues(Numbered(first, n), 0, first)
  <1>1. Len(Numbered(first, n)) = n
    BY NumberedIs
  <1>2. \A j \in 0 + 1..n : j \in 1..n /\ first + (j - 0 - 1) = first + j - 1
    OBVIOUS
  <1>. QED
    BY <1>1, <1>2, NumberedIs DEF Continues

\* A sequence whose bytes are numbered from "first" on is the one Numbered() makes.
LEMMA ContinuesIsNumbered ==
    ASSUME NEW data \in Seq(Bytes), NEW first \in Nat, Continues(data, 0, first)
    PROVE  data = Numbered(first, Len(data))
  <1>1. Len(data) \in Nat
    BY LenProperties
  <1>2. /\ Numbered(first, Len(data)) \in Seq(Bytes)
        /\ Len(Numbered(first, Len(data))) = Len(data)
        /\ \A i \in 1..Len(data) : Numbered(first, Len(data))[i] = (first + i - 1) % ByteMod
    BY <1>1, NumberedIs
  <1>3. \A i \in 1..Len(data) : i \in 0 + 1..Len(data) /\ first + (i - 0 - 1) = first + i - 1
    BY <1>1
  <1>4. \A i \in 1..Len(data) : data[i] = (first + i - 1) % ByteMod
    BY <1>3 DEF Continues
  <1>. QED
    BY <1>2, <1>4, SeqEqual

\* An endpoint that receives is found under its number, and no other.
LEMMA OneEndpoint ==
    ASSUME EndpointsFiled, NEW e \in Outs, NEW f \in Outs, f \in GET_RXENDPOINT(e.num)
    PROVE  f = e
  <1>1. e \in Endpoint /\ f \in Endpoint /\ e.out /\ f.out
    BY BulkAssumption DEF EndpointsFiled, Outs, InUse
  <1>2. SetupIndex(f) = (e.num - 1) * 2 + 1
    BY DEF GET_RXENDPOINT, EndpointsFiled
  <1>3. f.num = e.num
    BY <1>1, <1>2 DEF SetupIndex, Endpoint
  <1>. QED
    BY <1>1, <1>3 DEF Endpoint

LEMMA EndpointFound ==
    ASSUME EndpointsFiled, NEW e \in Outs
    PROVE  e \in GET_RXENDPOINT(e.num)
  BY DEF EndpointsFiled, Outs, InUse, SetupIndex, GET_RXENDPOINT

\* A packet is added to a request that has room.
LEMMA ReceivedIs ==
    ASSUME NEW urb \in RcvUrb, NEW packet \in Seq(Bytes)
    PROVE  Received(urb, packet) \in RcvUrb
  <1> DEFINE n == Lesser(Len(packet), urb.buffer_length - Len(urb.data))
  <1>1. urb.data \in Seq(Bytes) /\ Len(urb.data) \in Nat /\ Len(packet) \in Nat
    BY LenProperties DEF RcvUrb
  <1>2. n \in Int /\ n <= Len(packet)
    BY <1>1 DEF Lesser, RcvUrb
  <1> HIDE DEF n
  <1>3. \A i \in 1..n : packet[i] \in Bytes
    BY <1>1, <1>2, ElementOfSeq
  <1>4. SubSeq(packet, 1, n) \in Seq(Bytes)
    BY <1>2, <1>3, SubSeqProperties
  <1>5. urb.data \o SubSeq(packet, 1, n) \in Seq(Bytes)
    BY <1>1, <1>4, ConcatProperties
  <1>. QED
    BY <1>5 DEF Received, RcvUrb, Stages, n

-----------------------------------------------------------------------------
\* BulkInv is inductive.

LEMMA BulkInvInitially == BulkInit => BulkInv
  <1> SUFFICES ASSUME BulkInit
               PROVE  BulkInv
    OBVIOUS
  <1>1. EndpointsFiled
    BY DEF BulkInit, EndpointsFiled, udc_setup_ep
  <1>2. <<>> \in Seq(Bytes) /\ Len(<<>>) = 0
    BY EmptySeq
  <1>3. RxTypeOK
    BY <1>2, BytesType, BulkAssumption DEF BulkInit, RxTypeOK, RcvUrb, Stages
  <1>4. TxTypeOK
    BY <1>2, BytesType DEF BulkInit, TxTypeOK, TxUrb, Stages
  <1>5. TxInv
    <2>1. \A first \in Nat : Continues(<<>>, 0, first)
      BY <1>2 DEF Continues
    <2>2. \A e \in Ins : OneOwner(e) /\ inByte[e] = 0 /\ sent[e] = 0
                      /\ txFifo[e] = <<>> /\ tx_urb[e].data = <<>>
      BY DEF BulkInit, OneOwner
    <2>. QED
      BY <1>2, <2>1, <2>2 DEF TxInv, BytesFollow
  <1>. QED
    BY <1>1, <1>3, <1>4, <1>5 DEF BulkInv

\* What musb_peri_rx_ep() does is one packet taken, or nothing.
LEMMA TakeKeepsTypes ==
    ASSUME RxTypeOK, EndpointsFiled, NEW ep, NEW urbs \in [Outs -> RcvUrb], NEW returnsTo,
           musb_peri_rx_ep(ep, urbs, returnsTo), UNCHANGED <<epinstance, outByte>>
    PROVE  RxTypeOK'
  <1>1. Outs' = Outs
    BY DEF Outs, InUse
  <1>2. CASE Takers(ep, urbs) = {}
    BY <1>1, <1>2 DEF musb_peri_rx_ep, RxTypeOK
  <1>3. ASSUME NEW e \in Takers(ep, urbs),
               rcv_urb' = [urbs EXCEPT ![e] = Received(urbs[e], rxFifo[e])],
               RXPKTRDY' = RXPKTRDY \ {e}, rxFifo' = [rxFifo EXCEPT ![e] = <<>>]
        PROVE  RxTypeOK'
    <2>1. e \in Outs
      BY DEF Takers
    <2>2. Received(urbs[e], rxFifo[e]) \in RcvUrb
      BY <2>1, ReceivedIs DEF RxTypeOK
    <2>3. <<>> \in Seq(Bytes) /\ Len(<<>>) = 0 /\ 0 <= PacketSize
      BY EmptySeq, BulkAssumption
    <2>. QED
      BY <1>1, <1>3, <2>1, <2>2, <2>3 DEF RxTypeOK
  <1>. QED
    BY <1>2, <1>3 DEF musb_peri_rx_ep

\* udc_endpoint_write() is called with a request whose bytes go on where the FIFO ends.
LEMMA WriteKeepsOrder ==
    ASSUME TxTypeOK, TxInv, NEW e \in Ins, NEW urb \in TxUrb, NEW from \in Nat,
           urb.stage = "SUBMIT", from <= Len(urb.data),
           Continues(urb.data, from, inByte[e] + Len(txFifo[e])),
           udc_endpoint_write(e, urb, from), UNCHANGED <<epinstance, inByte>>
    PROVE  TxTypeOK' /\ TxInv'
  <1>1. Ins' = Ins
    BY DEF Ins, Outs, InUse
  <1>2. urb.data \in Seq(Bytes) /\ Len(urb.data) \in Nat /\ inByte[e] \in Nat
    BY LenProperties DEF TxUrb, TxTypeOK, Bytes
  <1>3. CASE e \in TXPKTRDY
    <2>1. tx_urb' = [tx_urb EXCEPT ![e] = urb] /\ sent' = [sent EXCEPT ![e] = from]
          /\ UNCHANGED <<TXPKTRDY, txFifo>>
      BY <1>3 DEF udc_endpoint_write
    <2>2. TxTypeOK'
      BY <1>1, <2>1 DEF TxTypeOK
    <2>3. OneOwner(e)' /\ BytesFollow(e)'
      BY <1>3, <2>1 DEF OneOwner, BytesFollow, TxTypeOK, TxInv
    <2>4. \A f \in Ins \ {e} : OneOwner(f)' /\ BytesFollow(f)'
      BY <2>1 DEF OneOwner, BytesFollow, TxTypeOK, TxInv
    <2>. QED
      BY <1>1, <2>2, <2>3, <2>4 DEF TxInv
  <1>4. CASE e \notin TXPKTRDY
    <2> DEFINE rest == Len(urb.data) - from
               length == Lesser(PacketSize, rest)
               to == from + length
               packet == SubSeq(urb.data, from + 1, to)
    <2>1. /\ txFifo' = [txFifo EXCEPT ![e] = packet]
          /\ TXPKTRDY' = TXPKTRDY \cup {e}
          /\ sent' = [sent EXCEPT ![e] = to]
          /\ \/ tx_urb' = [tx_urb EXCEPT ![e] = urb]
             \/ /\ to = Len(urb.data)
                /\ tx_urb' = [tx_urb EXCEPT ![e] = [urb EXCEPT !.stage = "COMPLETE", !.data = <<>>]]
      BY <1>4 DEF udc_endpoint_write, Complete
    <2>2. rest \in Nat /\ PacketSize \in Nat /\ from + rest = Len(urb.data)
      BY <1>2, BulkAssumption
    <2> HIDE DEF rest
    <2>3. length \in Nat /\ length <= rest
      BY <2>2, LesserIs
    <2> HIDE DEF length
    <2>4. to \in Nat /\ from <= to /\ to <= Len(urb.data) /\ to - from = length
      BY <2>2, <2>3
    <2> HIDE DEF to
    <2>5. Len(txFifo[e]) = 0
      BY <1>4, EmptySeq DEF TxInv, OneOwner
    <2>6. packet \in Seq(Bytes) /\ Len(packet) = to - from
      BY <1>2, <2>4, CutIs
    <2>7. Continues(packet, 0, inByte[e]) /\ Continues(urb.data, to, inByte[e] + Len(packet))
      <3>1. Continues(urb.data, from, inByte[e])
        BY <1>2, <2>5
      <3>. QED
        BY <1>2, <2>4, <2>6, <3>1, ContinuesCut
    <2> HIDE DEF packet
    <2>8. <<>> \in Seq(Bytes) /\ Len(<<>>) = 0
      BY EmptySeq
    <2> DEFINE ended == [urb EXCEPT !.stage = "COMPLETE", !.data = <<>>]
    <2>9. ended \in TxUrb /\ ended.data = <<>> /\ ended.stage = "COMPLETE"
      BY <2>8 DEF TxUrb, Stages
    <2>10. tx_urb' = [tx_urb EXCEPT ![e] = urb] \/ tx_urb' = [tx_urb EXCEPT ![e] = ended]
      BY <2>1
    <2> HIDE DEF ended
    <2>11. TxTypeOK'
      <3>1. tx_urb' \in [Ins -> TxUrb]
        BY <2>9, <2>10 DEF TxTypeOK
      <3>2. sent' \in [Ins -> Nat] /\ txFifo' \in [Ins -> Seq(Bytes)] /\ TXPKTRDY' \subseteq Ins
        BY <2>1, <2>4, <2>6 DEF TxTypeOK
      <3>. QED
        BY <1>1, <3>1, <3>2 DEF TxTypeOK
    <2>12. sent'[e] = to /\ txFifo'[e] = packet /\ (tx_urb'[e] = urb \/ tx_urb'[e] = ended)
      BY <2>1, <2>10 DEF TxTypeOK
    <2>13. OneOwner(e)' /\ BytesFollow(e)'
      <3>1. CASE tx_urb'[e] = urb
        BY <2>1, <2>4, <2>7, <2>12, <3>1 DEF OneOwner, BytesFollow
      <3>2. CASE tx_urb'[e] = ended
        <4>1. Continues(<<>>, to, inByte[e] + Len(packet))
          BY <2>4, <2>8 DEF Continues
        <4>. QED
          BY <2>1, <2>7, <2>9, <2>12, <3>2, <4>1 DEF OneOwner, BytesFollow
      <3>. QED
        BY <2>12, <3>1, <3>2
    <2>14. \A f \in Ins \ {e} : OneOwner(f)' /\ BytesFollow(f)'
      BY <2>1, <2>10 DEF OneOwner, BytesFollow, TxTypeOK, TxInv
    <2>. QED
      BY <1>1, <2>11, <2>13, <2>14 DEF TxInv
  <1>. QED
    BY <1>3, <1>4

LEMMA BulkInvStep == BulkInv /\ [BulkNext]_bulkVars => BulkInv'
  <1> SUFFICES ASSUME BulkInv, [BulkNext]_bulkVars
               PROVE  BulkInv'
    OBVIOUS
  <1>. USE DEF BulkInv
  <1>1. UNCHANGED epinstance
    BY DEF BulkNext, bulkVars, ReadIntrRx, musb_peri_rx, CallbackReturns, ZeroPacket,
           udc_start_rx, HostSends, udc_start_tx, EndpointWrite, HostTakes
  <1>2. EndpointsFiled'
    BY <1>1 DEF EndpointsFiled
  <1>3. Outs' = Outs /\ Ins' = Ins
    BY <1>1 DEF Outs, Ins, InUse
  <1>4. ASSUME UNCHANGED <<rcv_urb, RXPKTRDY, rxFifo, outByte>>
        PROVE  RxTypeOK'
    BY <1>3, <1>4 DEF RxTypeOK
  <1>5. ASSUME UNCHANGED <<tx_urb, sent, TXPKTRDY, txFifo, inByte>>
        PROVE  TxTypeOK' /\ TxInv'
    BY <1>3, <1>5 DEF TxTypeOK, TxInv, OneOwner, BytesFollow
  <1>6. CASE ReadIntrRx
    BY <1>2, <1>4, <1>5, <1>6 DEF ReadIntrRx, txHw
  <1>7. CASE musb_peri_rx
    <2>1. RxTypeOK'
      BY <1>7, TakeKeepsTypes DEF musb_peri_rx, RxTypeOK
    <2>. QED
      BY <1>2, <1>5, <1>7, <2>1 DEF musb_peri_rx, txHw
  <1>8. CASE CallbackReturns
    BY <1>2, <1>4, <1>5, <1>8 DEF CallbackReturns, rxHw, txHw
  <1>9. ASSUME NEW e \in Outs, NEW n \in Sizes, udc_start_rx(e, n)
        PROVE  BulkInv'
    <2>1. Submitted(e, n) \in [Outs -> RcvUrb]
      <3>1. [stage |-> "SUBMIT", buffer_length |-> n, data |-> <<>>] \in RcvUrb
        BY EmptySeq, BulkAssumption DEF RcvUrb, Stages
      <3>. QED
        BY <3>1 DEF Submitted, RxTypeOK
    <2>2. RxTypeOK'
      BY <1>9, <2>1, TakeKeepsTypes DEF udc_start_rx
    <2>. QED
      BY <1>2, <1>5, <1>9, <2>2 DEF udc_start_rx, txHw
  <1>10. ASSUME NEW e \in Outs, NEW n \in 0..PacketSize, HostSends(e, n)
         PROVE  BulkInv'
    <2>1. outByte[e] \in Nat /\ n \in Nat
      BY BulkAssumption DEF RxTypeOK, Bytes
    <2>2. Numbered(outByte[e], n) \in Seq(Bytes) /\ Len(Numbered(outByte[e], n)) = n
      BY <2>1, NumberedIs
    <2>3. (outByte[e] + n) % ByteMod \in Bytes
      BY <2>1, BytesType
    <2>4. RxTypeOK'
      BY <1>3, <1>10, <2>2, <2>3 DEF HostSends, RxTypeOK
    <2>. QED
      BY <1>2, <1>5, <1>10, <2>4 DEF HostSends, txHw
  <1>11. ASSUME NEW e \in Ins, NEW n \in {0} \cup Sizes, NEW zero \in BOOLEAN,
                udc_start_tx(e, n, zero)
         PROVE  BulkInv'
    <2> DEFINE urb == [stage |-> "SUBMIT", zero |-> zero, data |-> Numbered(NextByte(e), n)]
               behind == inByte[e] + Len(txFifo[e])
    <2>1. n \in Nat /\ inByte[e] \in Nat /\ Len(txFifo[e]) \in Nat /\ behind \in Nat
      BY BulkAssumption, LenProperties DEF TxTypeOK, Bytes
    <2>2. NextByte(e) = behind % ByteMod
      BY EmptySeq DEF NextByte, TxInv, OneOwner
    <2> HIDE DEF behind
    <2>3. NextByte(e) \in Nat
      BY <2>1, <2>2, BytesType DEF Bytes
    <2>4. Numbered(NextByte(e), n) \in Seq(Bytes) /\ Len(Numbered(NextByte(e), n)) = n
      BY <2>1, <2>3, NumberedIs
    <2>5. Continues(Numbered(NextByte(e), n), 0, behind)
      BY <2>1, <2>2, <2>3, <2>4, NumberedContinues, ContinuesMod
    <2>6. urb \in TxUrb /\ urb.stage = "SUBMIT" /\ urb.data = Numbered(NextByte(e), n)
      BY <2>4 DEF TxUrb, Stages
    <2>7. udc_endpoint_write(e, urb, 0) /\ UNCHANGED <<epinstance, inByte, rcv_urb, rxHw>>
      BY <1>11 DEF udc_start_tx
    <2> HIDE DEF urb
    <2>8. TxTypeOK' /\ TxInv'
      BY <2>1, <2>4, <2>5, <2>6, <2>7, WriteKeepsOrder DEF behind
    <2>. QED
      BY <1>2, <1>4, <2>7, <2>8 DEF rxHw
  <1>12. ASSUME NEW e \in Ins, EndpointWrite(e)
         PROVE  BulkInv'
    <2>1. tx_urb[e] \in TxUrb /\ sent[e] \in Nat /\ tx_urb[e].stage = "SUBMIT"
          /\ sent[e] <= Len(tx_urb[e].data)
      BY <1>12 DEF EndpointWrite, TxTypeOK, TxInv, OneOwner
    <2>2. TxTypeOK' /\ TxInv'
      BY <1>12, <2>1, WriteKeepsOrder DEF EndpointWrite, TxInv, BytesFollow
    <2>. QED
      BY <1>2, <1>4, <1>12, <2>2 DEF EndpointWrite, rxHw
  <1>13. CASE ZeroPacket
    <2>1. PICK e \in Ins :
            /\ tx_urb[e].stage = "SUBMIT" /\ sent[e] = Len(tx_urb[e].data)
            /\ TXPKTRDY' = TXPKTRDY \cup {e}
            /\ tx_urb' = [tx_urb EXCEPT ![e] = [tx_urb[e] EXCEPT !.stage = "COMPLETE", !.data = <<>>]]
            /\ UNCHANGED <<sent, txFifo, inByte>>
      BY <1>13 DEF ZeroPacket, Complete
    <2>2. <<>> \in Seq(Bytes) /\ Len(<<>>) = 0
      BY EmptySeq
    <2> DEFINE ended == [tx_urb[e] EXCEPT !.stage = "COMPLETE", !.data = <<>>]
    <2>3. ended \in TxUrb /\ ended.data = <<>> /\ ended.stage = "COMPLETE"
      BY <2>2 DEF TxUrb, Stages, TxTypeOK
    <2>4. tx_urb' = [tx_urb EXCEPT ![e] = ended]
      BY <2>1
    <2> HIDE DEF ended
    <2>5. TxTypeOK'
      BY <1>3, <2>1, <2>3, <2>4 DEF TxTypeOK
    <2>6. tx_urb'[e] = ended
      BY <2>4 DEF TxTypeOK
    <2>7. OneOwner(e)' /\ BytesFollow(e)'
      <3>1. Continues(<<>>, sent[e], inByte[e] + Len(txFifo[e]))
        BY <2>2 DEF Continues, TxTypeOK
      <3>. QED
        BY <2>1, <2>3, <2>6, <3>1 DEF OneOwner, BytesFollow, TxInv
    <2>8. \A f \in Ins \ {e} : OneOwner(f)' /\ BytesFollow(f)'
      BY <2>1, <2>4 DEF OneOwner, BytesFollow, TxTypeOK, TxInv
    <2>9. TxInv'
      BY <1>3, <2>7, <2>8 DEF TxInv
    <2>. QED
      BY <1>2, <1>4, <1>13, <2>5, <2>9 DEF ZeroPacket, rxHw
  <1>14. ASSUME NEW e \in Ins, HostTakes(e)
         PROVE  BulkInv'
    <2> DEFINE behind == inByte[e] + Len(txFifo[e])
    <2>1. inByte[e] \in Nat /\ Len(txFifo[e]) \in Nat /\ behind \in Nat
          /\ tx_urb[e].data \in Seq(Bytes) /\ sent[e] \in Nat
      BY LenProperties DEF TxTypeOK, TxUrb, Bytes
    <2>2. Continues(tx_urb[e].data, sent[e], behind)
      BY DEF TxInv, BytesFollow
    <2>3. /\ TXPKTRDY' = TXPKTRDY \ {e} /\ txFifo' = [txFifo EXCEPT ![e] = <<>>]
          /\ inByte' = [inByte EXCEPT ![e] = behind % ByteMod]
          /\ UNCHANGED <<tx_urb, sent>>
      BY <1>14 DEF HostTakes
    <2> HIDE DEF behind
    <2>4. behind % ByteMod \in Bytes /\ behind % ByteMod \in Nat
      <3>1. behind % ByteMod \in Bytes
        BY <2>1, BytesType
      <3>. QED
        BY <3>1, BulkAssumption DEF Bytes
    <2>5. <<>> \in Seq(Bytes) /\ Len(<<>>) = 0
      BY EmptySeq
    <2>6. TxTypeOK'
      BY <1>3, <2>3, <2>4, <2>5 DEF TxTypeOK
    <2>7. txFifo'[e] = <<>> /\ inByte'[e] = behind % ByteMod
      BY <2>3 DEF TxTypeOK
    <2>8. Continues(<<>>, 0, behind % ByteMod)
      BY <2>4, <2>5 DEF Continues
    <2>9. Continues(tx_urb[e].data, sent[e], (behind % ByteMod) + 0)
      BY <2>1, <2>2, <2>4, ContinuesMod
    <2>10. OneOwner(e)' /\ BytesFollow(e)'
      BY <2>3, <2>5, <2>7, <2>8, <2>9 DEF OneOwner, BytesFollow, TxInv
    <2>11. \A f \in Ins \ {e} : OneOwner(f)' /\ BytesFollow(f)'
      BY <2>3 DEF OneOwner, BytesFollow, TxTypeOK, TxInv
    <2>12. TxInv'
      BY <1>3, <2>10, <2>11 DEF TxInv
    <2>. QED
      BY <1>2, <1>4, <1>14, <2>6, <2>12 DEF HostTakes, rxHw
  <1>15. CASE UNCHANGED bulkVars
    BY <1>2, <1>4, <1>5, <1>15 DEF bulkVars, rxHw, txHw
  <1>. QED
    BY <1>6, <1>7, <1>8, <1>9, <1>10, <1>11, <1>12, <1>13, <1>14, <1>15 DEF BulkNext

\* The bulk endpoints keep BulkInv: endpoints are where they are looked for, a FIFO holds
\* one packet, and the bytes of a request follow each other.
THEOREM BulkInvCorrect == BulkSpec => []BulkInv
  <1>. QED
    BY BulkInvInitially, BulkInvStep, PTL DEF BulkSpec

\* What the function driver submits to be sent reaches the host without a byte skipped,
\* sent twice or overwritten.
THEOREM SentInOrderCorrect == BulkSpec => []SentInOrder
  <1>1. BulkInv => SentInOrder
    <2> SUFFICES ASSUME BulkInv, NEW e \in Ins
                 PROVE  LET rest == (IF e \in TXPKTRDY THEN txFifo[e] ELSE <<>>)
                                    \o SubSeq(tx_urb[e].data, sent[e] + 1, Len(tx_urb[e].data))
                        IN rest = Numbered(inByte[e], Len(rest))
      BY DEF SentInOrder
    <2> DEFINE fifo == txFifo[e]
               data == tx_urb[e].data
               left == SubSeq(data, sent[e] + 1, Len(data))
    <2>1. /\ fifo \in Seq(Bytes) /\ data \in Seq(Bytes) /\ inByte[e] \in Nat /\ sent[e] \in Nat
          /\ Len(fifo) \in Nat /\ Len(data) \in Nat
      BY LenProperties DEF BulkInv, TxTypeOK, TxUrb, Bytes
    <2>2. (IF e \in TXPKTRDY THEN txFifo[e] ELSE <<>>) = fifo
      BY DEF BulkInv, TxInv, OneOwner
    <2>3. Continues(fifo, 0, inByte[e]) /\ Continues(data, sent[e], inByte[e] + Len(fifo))
      BY DEF BulkInv, TxInv, BytesFollow
    <2>4. sent[e] <= Len(data) \/ data = <<>>
      BY DEF BulkInv, TxInv, OneOwner
    <2> HIDE DEF fifo, data
    <2>5. left \in Seq(Bytes) /\ Continues(left, 0, inByte[e] + Len(fifo))
      <3>1. CASE sent[e] <= Len(data)
        BY <2>1, <2>3, <3>1, CutIs, ContinuesCut
      <3>2. CASE sent[e] > Len(data)
        <4>1. left = <<>>
          BY <2>1, <3>2, SubSeqEmpty
        <4>2. <<>> \in Seq(Bytes) /\ Len(<<>>) = 0
          BY EmptySeq
        <4>3. Continues(<<>>, 0, inByte[e] + Len(fifo))
          BY <4>2 DEF Continues
        <4>. QED
          BY <4>1, <4>2, <4>3
      <3>. QED
        BY <2>1, <3>1, <3>2
    <2> HIDE DEF left
    <2>6. Continues(fifo \o left, 0, inByte[e])
      BY <2>1, <2>3, <2>5, ContinuesConcat
    <2>7. fifo \o left \in Seq(Bytes)
      BY <2>1, <2>5, ConcatProperties
    <2>8. fifo \o left = Numbered(inByte[e], Len(fifo \o left))
      BY <2>1, <2>6, <2>7, ContinuesIsNumbered
    <2>. QED
      BY <2>2, <2>8 DEF left, data
  <1>. QED
    BY <1>1, BulkInvCorrect, PTL

-----------------------------------------------------------------------------
\* The refinement of BulkPipe.

\* What the pipe of an endpoint that is set up looks like.
LEMMA PipeOf ==
    ASSUME BulkInv, NEW e \in Outs
    PROVE  /\ e \in AllOuts
           /\ InFlight[e] = (IF e \in RXPKTRDY THEN <<rxFifo[e]>> ELSE <<>>)
           /\ Room[e] = (IF rcv_urb[e].stage = "SUBMIT" THEN rcv_urb[e].buffer_length ELSE 0)
           /\ Got[e] = rcv_urb[e].data
  <1>1. e \in AllOuts
    BY DEF BulkInv, EndpointsFiled, AllOuts, Outs, InUse
  <1>. QED
    BY <1>1 DEF InFlight, Room, Got

\* A step that touches one endpoint changes one pipe.
LEMMA OnePipe ==
    ASSUME BulkInv, UNCHANGED epinstance, NEW e \in Outs,
           \A f \in Outs \ {e} : /\ rcv_urb'[f] = rcv_urb[f] /\ rxFifo'[f] = rxFifo[f]
                                 /\ f \in RXPKTRDY' <=> f \in RXPKTRDY
    PROVE  /\ InFlight' = [InFlight EXCEPT ![e] = IF e \in RXPKTRDY' THEN <<rxFifo'[e]>> ELSE <<>>]
           /\ Room' = [Room EXCEPT ![e] = IF rcv_urb'[e].stage = "SUBMIT"
                                          THEN rcv_urb'[e].buffer_length ELSE 0]
           /\ Got' = [Got EXCEPT ![e] = rcv_urb'[e].data]
  <1>1. Outs' = Outs
    BY DEF Outs, InUse
  <1>2. e \in AllOuts
    BY PipeOf
  <1>3. InFlight' = [InFlight EXCEPT ![e] = IF e \in RXPKTRDY' THEN <<rxFifo'[e]>> ELSE <<>>]
    BY <1>1, <1>2 DEF InFlight
  <1>4. Room' = [Room EXCEPT ![e] = IF rcv_urb'[e].stage = "SUBMIT"
                                    THEN rcv_urb'[e].buffer_length ELSE 0]
    BY <1>1, <1>2 DEF Room
  <1>5. Got' = [Got EXCEPT ![e] = rcv_urb'[e].data]
    BY <1>1, <1>2 DEF Got
  <1>. QED
    BY <1>3, <1>4, <1>5

\* How much of a packet a request takes.
LEMMA TakenLength ==
    ASSUME NEW p \in Nat \ {0}, NEW had \in Nat, NEW n \in Nat, n > had
    PROVE  /\ Lesser(p, n - had) \in 1..p
           /\ Lesser(p, n - had) < p => had + Lesser(p, n - had) = n
           /\ had + Lesser(p, n - had) >= n <=> had + Lesser(p, n - had) = n
  BY DEF Lesser

\* A packet that is waiting is given to the request urb, as the pipe gives it.
LEMMA ReceivedIsGiven ==
    ASSUME BulkInv, NEW e \in Outs, UNCHANGED epinstance, e \in RXPKTRDY, Len(rxFifo[e]) > 0,
           NEW urbs \in [Outs -> RcvUrb], \A f \in Outs \ {e} : urbs[f] = rcv_urb[f],
           urbs[e].stage = "SUBMIT", urbs[e].buffer_length > Len(urbs[e].data),
           rcv_urb' = [urbs EXCEPT ![e] = Received(urbs[e], rxFifo[e])],
           RXPKTRDY' = RXPKTRDY \ {e}, rxFifo' = [rxFifo EXCEPT ![e] = <<>>]
    PROVE  Pipe!Give(e, urbs[e].buffer_length, urbs[e].data)
  <1> DEFINE packet == rxFifo[e]
             some == urbs[e].data
             n == urbs[e].buffer_length
             k == Lesser(Len(packet), n - Len(some))
             urb == Received(urbs[e], packet)
  <1>1. /\ packet \in Seq(Bytes) /\ Len(packet) \in Nat \ {0} /\ Len(packet) <= PacketSize
        /\ some \in Seq(Bytes) /\ Len(some) \in Nat /\ n \in Nat /\ urbs[e] \in RcvUrb
    BY LenProperties DEF BulkInv, RxTypeOK, RcvUrb
  <1>2. /\ k \in 1..Len(packet) /\ (k < Len(packet) => Len(some) + k = n)
        /\ Len(some) + k >= n <=> Len(some) + k = n
    <2>1. Len(packet) \in Nat \ {0} /\ Len(some) \in Nat /\ n \in Nat /\ n > Len(some)
      BY <1>1
    <2> HIDE DEF packet, some, n
    <2>. QED
      BY <2>1, TakenLength
  <1>3. urb = [urbs[e] EXCEPT !.data = some \o SubSeq(packet, 1, k), !.stage =
                 IF Len(some \o SubSeq(packet, 1, k)) >= n \/ Len(packet) < PacketSize
                 THEN "COMPLETE" ELSE urbs[e].stage]
    BY DEF Received
  <1>4. urb \in RcvUrb
    BY <1>1, ReceivedIs
  <1> HIDE DEF k
  <1>6. Len(some \o SubSeq(packet, 1, k)) = Len(some) + k
    <2>1. SubSeq(packet, 1, k) \in Seq(Bytes) /\ Len(SubSeq(packet, 1, k)) = k
      <3>1. \A i \in 1..k : packet[i] \in Bytes
        BY <1>1, <1>2, ElementOfSeq
      <3>2. 1 \in Int /\ k \in Int /\ 1 <= k /\ k - 1 + 1 = k
        BY <1>2
      <3>. QED
        BY <3>1, <3>2, SubSeqProperties
    <2>. QED
      BY <1>1, <2>1, ConcatProperties
  <1>7. /\ urb.data = some \o SubSeq(packet, 1, k) /\ urb.buffer_length = n
        /\ urb.stage = IF Len(some) + k = n \/ Len(packet) < PacketSize THEN "COMPLETE" ELSE "SUBMIT"
    <2>. QED
      BY <1>1, <1>2, <1>3, <1>6 DEF RcvUrb
  <1> HIDE DEF urb
  <1>8. /\ InFlight' = [InFlight EXCEPT ![e] = <<>>]
        /\ Room' = [Room EXCEPT ![e] = IF urb.stage = "SUBMIT" THEN urb.buffer_length ELSE 0]
        /\ Got' = [Got EXCEPT ![e] = urb.data]
    <2>1. rcv_urb' = [urbs EXCEPT ![e] = urb] /\ rcv_urb'[e] = urb
      BY DEF urb
    <2>2. e \notin RXPKTRDY'
      OBVIOUS
    <2>3. \A f \in Outs \ {e} : /\ rcv_urb'[f] = rcv_urb[f] /\ rxFifo'[f] = rxFifo[f]
                                /\ f \in RXPKTRDY' <=> f \in RXPKTRDY
      BY <2>1 DEF BulkInv, RxTypeOK
    <2>. QED
      BY <2>1, <2>2, <2>3, OnePipe
  <1>9. InFlight[e] = <<packet>>
    BY PipeOf
  <1>10. InFlight[e] # <<>> /\ Head(InFlight[e]) = packet /\ Tail(InFlight[e]) = <<>>
    BY <1>9
  <1>11. packet # <<>>
    BY <1>1, EmptySeq
  <1>12. Room' = [Room EXCEPT ![e] = IF Len(some) + k = n \/ Len(packet) < PacketSize THEN 0 ELSE n]
    BY <1>7, <1>8
  <1>13. InFlight' = [InFlight EXCEPT ![e] = Tail(InFlight[e])]
    BY <1>8, <1>10
  <1>14. Got' = [Got EXCEPT ![e] = some \o SubSeq(packet, 1, k)]
    BY <1>7, <1>8
  <1> HIDE DEF packet, some, n
  <1>15. Pipe!Give(e, n, some)
    BY <1>2, <1>10, <1>11, <1>12, <1>13, <1>14 DEF Pipe!Give
  <1>. QED
    BY <1>15 DEF n, some

\* The endpoints that receive implement BulkPipe: a packet is given to one request, in
\* order, whether it came before the request or after it.
THEOREM Refinement == BulkSpec => OutIsAPipe
  <1>1. BulkInit => Pipe!Init
    BY DEF BulkInit, Pipe!Init, InFlight, Room, Got
  <1>2. BulkInv /\ [BulkNext]_bulkVars => [Pipe!Next]_(Pipe!pipeVars)
    <2> SUFFICES ASSUME BulkInv, [BulkNext]_bulkVars
                 PROVE  Pipe!Next \/ UNCHANGED <<InFlight, Room, Got>>
      BY DEF Pipe!pipeVars
    <2>1. UNCHANGED epinstance
      BY DEF BulkNext, bulkVars, ReadIntrRx, musb_peri_rx, CallbackReturns, ZeroPacket,
             udc_start_rx, HostSends, udc_start_tx, EndpointWrite, HostTakes
    <2>2. Outs' = Outs
      BY <2>1 DEF Outs, InUse
    <2>3. ASSUME UNCHANGED <<rcv_urb, RXPKTRDY, rxFifo>>
          PROVE  UNCHANGED <<InFlight, Room, Got>>
      BY <2>2, <2>3 DEF InFlight, Room, Got
    <2>4. CASE musb_peri_rx
      <3>1. musb_peri_rx_ep(Min(intr), rcv_urb, Back(intr'))
        BY <2>4 DEF musb_peri_rx
      <3>2. CASE Takers(Min(intr), rcv_urb) = {}
        BY <2>3, <3>1, <3>2 DEF musb_peri_rx_ep
      <3>3. ASSUME NEW e \in Takers(Min(intr), rcv_urb),
                   rcv_urb' = [rcv_urb EXCEPT ![e] = Received(rcv_urb[e], rxFifo[e])],
                   RXPKTRDY' = RXPKTRDY \ {e}, rxFifo' = [rxFifo EXCEPT ![e] = <<>>]
            PROVE  Pipe!Next
        <4>1. /\ e \in Outs /\ e \in RXPKTRDY /\ Len(rxFifo[e]) > 0
              /\ rcv_urb[e].stage = "SUBMIT" /\ rcv_urb[e].buffer_length > Len(rcv_urb[e].data)
              /\ rcv_urb \in [Outs -> RcvUrb] /\ rcv_urb[e] \in RcvUrb
          BY DEF Takers, RXCOUNT, BulkInv, RxTypeOK
        <4>2. Pipe!Give(e, rcv_urb[e].buffer_length, rcv_urb[e].data)
          BY <2>1, <3>3, <4>1, ReceivedIsGiven
        <4>3. e \in AllOuts /\ Room[e] = rcv_urb[e].buffer_length /\ Got[e] = rcv_urb[e].data
          BY <4>1, PipeOf
        <4>4. Room[e] > 0
          BY <4>1, <4>3, LenProperties DEF RcvUrb
        <4>5. Pipe!Get(e)
          BY <4>2, <4>3, <4>4 DEF Pipe!Get
        <4>. QED
          BY <4>3, <4>5 DEF Pipe!Next
      <3>. QED
        BY <3>1, <3>2, <3>3 DEF musb_peri_rx_ep
    <2>5. ASSUME NEW e \in Outs, NEW n \in Sizes, udc_start_rx(e, n)
          PROVE  Pipe!Next
      <3> DEFINE urbs == Submitted(e, n)
                 urb == [stage |-> "SUBMIT", buffer_length |-> n, data |-> <<>>]
      <3>1. n \in Nat \ {0} /\ Len(<<>>) = 0 /\ <<>> \in Seq(Bytes)
        BY BulkAssumption, EmptySeq
      <3>2. urb \in RcvUrb /\ urbs \in [Outs -> RcvUrb] /\ urbs[e] = urb
            /\ \A f \in Outs \ {e} : urbs[f] = rcv_urb[f]
        BY <3>1 DEF Submitted, RcvUrb, Stages, BulkInv, RxTypeOK
      <3>3. urb.stage = "SUBMIT" /\ urb.buffer_length = n /\ urb.data = <<>>
        OBVIOUS
      <3>4. e \in AllOuts /\ Room[e] = 0
        BY <2>5, PipeOf DEF udc_start_rx
      <3> HIDE DEF urbs, urb
      <3>5. musb_peri_rx_ep(e.num, urbs, bpc)
        BY <2>5 DEF udc_start_rx, urbs
      <3>6. CASE Takers(e.num, urbs) = {}
        <4>1. rcv_urb' = urbs /\ UNCHANGED <<RXPKTRDY, rxFifo>>
          BY <3>5, <3>6 DEF musb_peri_rx_ep
        <4>2. \A f \in Outs \ {e} : rcv_urb'[f] = rcv_urb[f]
          BY <3>2, <4>1
        <4>3. Room' = [Room EXCEPT ![e] = n] /\ Got' = [Got EXCEPT ![e] = <<>>]
          BY <2>1, <3>2, <3>3, <4>1, <4>2, OnePipe
        <4>4. UNCHANGED InFlight
          BY <2>2, <4>1 DEF InFlight
        <4>5. Pipe!Ask(e)
          BY <3>4, <4>3, <4>4 DEF Pipe!Ask
        <4>. QED
          BY <3>4, <4>5 DEF Pipe!Next
      <3>7. ASSUME NEW f \in Takers(e.num, urbs),
                   rcv_urb' = [urbs EXCEPT ![f] = Received(urbs[f], rxFifo[f])],
                   RXPKTRDY' = RXPKTRDY \ {f}, rxFifo' = [rxFifo EXCEPT ![f] = <<>>]
            PROVE  Pipe!Next
        <4>1. f \in Outs /\ f \in GET_RXENDPOINT(e.num) /\ f \in RXPKTRDY /\ Len(rxFifo[f]) > 0
          BY <3>2 DEF Takers, RXCOUNT
        <4>2. f = e
          BY <4>1, OneEndpoint DEF BulkInv
        <4>3. urbs[e].buffer_length > Len(urbs[e].data)
          BY <3>1, <3>2, <3>3
        <4>4. Pipe!Give(e, n, <<>>)
          BY <2>1, <3>2, <3>3, <3>7, <4>1, <4>2, <4>3, ReceivedIsGiven
        <4>5. Pipe!AskAndGet(e)
          BY <3>4, <4>4 DEF Pipe!AskAndGet
        <4>. QED
          BY <3>4, <4>5 DEF Pipe!Next
      <3>. QED
        BY <3>5, <3>6, <3>7 DEF musb_peri_rx_ep
    <2>6. ASSUME NEW e \in Outs, NEW n \in 0..PacketSize, HostSends(e, n)
          PROVE  Pipe!Next
      <3> DEFINE packet == Numbered(outByte[e], n)
      <3>1. packet \in [1..n -> Bytes]
        <4>1. outByte[e] \in Nat /\ n \in Nat
          BY BulkAssumption DEF BulkInv, RxTypeOK, Bytes
        <4>. QED
          BY <4>1, NumberedIs
      <3> HIDE DEF packet
      <3>2. /\ e \notin RXPKTRDY /\ e \in RXPKTRDY' /\ rxFifo'[e] = packet /\ UNCHANGED rcv_urb
        BY <2>6 DEF HostSends, packet, BulkInv, RxTypeOK
      <3>3. \A f \in Outs \ {e} : /\ rcv_urb'[f] = rcv_urb[f] /\ rxFifo'[f] = rxFifo[f]
                                  /\ f \in RXPKTRDY' <=> f \in RXPKTRDY
        BY <2>6 DEF HostSends, BulkInv, RxTypeOK
      <3>4. InFlight' = [InFlight EXCEPT ![e] = <<packet>>]
        BY <2>1, <3>2, <3>3, OnePipe
      <3>5. UNCHANGED <<Room, Got>>
        BY <2>2, <3>2 DEF Room, Got
      <3>6. e \in AllOuts /\ InFlight[e] = <<>>
        BY <3>2, PipeOf
      <3>7. Append(InFlight[e], packet) = <<packet>>
        BY <3>6
      <3>8. Pipe!Put(e)
        BY <3>1, <3>4, <3>5, <3>7 DEF Pipe!Put
      <3>. QED
        BY <3>6, <3>8 DEF Pipe!Next
    <2>7. CASE ReadIntrRx \/ CallbackReturns \/ ZeroPacket \/ UNCHANGED bulkVars
               \/ \E e \in Ins : \/ \E n \in {0} \cup Sizes, zero \in BOOLEAN : udc_start_tx(e, n, zero)
                                 \/ EndpointWrite(e) \/ HostTakes(e)
      BY <2>3, <2>7 DEF ReadIntrRx, CallbackReturns, ZeroPacket, udc_start_tx, EndpointWrite,
                        HostTakes, bulkVars, rxHw
    <2>. QED
      BY <2>4, <2>5, <2>6, <2>7 DEF BulkNext
  <1>. QED
    BY <1>1, <1>2, BulkInvCorrect, PTL DEF BulkSpec, Pipe!Spec, OutIsAPipe

-----------------------------------------------------------------------------
(***************************************************************************)
(* The card host.  A read puts its block on the way to the buffer and to   *)
(* memory; the invariant says where it is, with the status bits that tell  *)
(* of it.                                                                  *)
(***************************************************************************)

Bits == {"CMD_DONE"} \cup DataBits

SdiTypeOK ==
    /\ spc \in {"core", "sent", "cmd", "data", "clear"}
    /\ INTCLR \subseteq Bits /\ intclr \subseteq Bits
    /\ cardJob \subseteq {"answer", "block", "end"}
    /\ blocks \in {0, 1}
    /\ stale \in BOOLEAN /\ gaveUp \in BOOLEAN

Reading == spc \in {"cmd", "data", "clear"} /\ req # NoData

\* The card sends its block before it ends the transfer, and the bits follow it.
CardInOrder ==
    /\ "block" \in cardJob => "end" \in cardJob
    /\ Reading /\ ~stale /\ "block" \in cardJob => DataBits \cap INTCLR = {}
    /\ Reading /\ ~stale /\ "end" \in cardJob => "MBLOCK_DONE" \notin INTCLR

\* What is written back was read from the register and is still set there, and after the
\* end of a transfer no bit of data is set that was not read.
ReadIsSet ==
    /\ spc \in {"data", "clear"} => req # NoData
    /\ spc = "clear" =>
         /\ intclr \subseteq INTCLR
         /\ "MBLOCK_DONE" \in intclr /\ ~stale => DataBits \cap INTCLR \subseteq intclr

\* The block asked for is with the card, in the controller's buffer with the bit that says
\* so, or in memory.
BlockOnItsWay ==
    /\ spc \in {"sent", "cmd"} /\ req # NoData => blocks = 1
    /\ Reading /\ ~stale =>
         /\ cardBlock = req
         /\ \/ "block" \in cardJob /\ blocks = 1
            \/ "block" \notin cardJob /\ blocks = 1 /\ DATBUF = req /\ "DAT_DONE" \in INTCLR
            \/ "block" \notin cardJob /\ blocks = 0 /\ dest = req

\* Until a read times out, nothing of one read is left when the next command goes out.
NothingIsLeft ==
    /\ stale => gaveUp
    /\ ~gaveUp /\ ~Reading => DataBits \cap INTCLR = {} /\ "end" \notin cardJob

Delivered == spc = "core" /\ result = "ok" /\ req # NoData /\ ~stale => dest = req

SdiInv == SdiTypeOK /\ CardInOrder /\ ReadIsSet /\ BlockOnItsWay /\ NothingIsLeft /\ Delivered

-----------------------------------------------------------------------------
\* SdiInv is inductive.

LEMMA SdiInvInitially == SdiInit => SdiInv
  BY DEF SdiInit, SdiInv, SdiTypeOK, Bits, CardInOrder, ReadIsSet, BlockOnItsWay, NothingIsLeft,
         Delivered, Reading, DataBits

LEMMA SdiInvStep == SdiInv /\ [SdiNext]_sdiVars => SdiInv'
  <1> SUFFICES ASSUME SdiInv, [SdiNext]_sdiVars
               PROVE  SdiInv'
    OBVIOUS
  <1> USE DEF SdiInv, SdiTypeOK, Bits, DataBits, Reading, CardInOrder, ReadIsSet, BlockOnItsWay,
              NothingIsLeft, Delivered, regs, seen, host, Returns
  <1>1. ASSUME NEW b \in Blocks \cup {NoData}, sdi_send_request(b)
        PROVE  SdiInv'
    BY <1>1 DEF sdi_send_request, sdi_prepare_data
  <1>2. CASE Taken
    BY <1>2 DEF Taken
  <1>3. CASE FinishCmdDone
    BY <1>3 DEF FinishCmdDone
  <1>4. CASE FinishCmdPoll
    BY <1>4 DEF FinishCmdPoll
  <1>5. CASE FinishTimeout
    BY <1>5 DEF FinishTimeout
  <1>6. CASE FinishDataRead
    BY <1>6 DEF FinishDataRead
  <1>7. CASE FinishDataClear
    BY <1>7 DEF FinishDataClear, sdi_transfer_pio
  <1>8. CASE Answer
    BY <1>8 DEF Answer
  <1>9. CASE BlockComes
    BY <1>9 DEF BlockComes
  <1>10. CASE TransferEnds
    BY <1>10 DEF TransferEnds
  <1>11. CASE UNCHANGED sdiVars
    BY <1>11 DEF sdiVars
  <1>. QED
    BY <1>1, <1>2, <1>3, <1>4, <1>5, <1>6, <1>7, <1>8, <1>9, <1>10, <1>11
    DEF SdiNext, Controller, Wait, Card, sdi_finish_cmd

\* The driver of the card host keeps SdiInv: what the card sent for a read is in order with
\* the status bits, and nothing of a read that did not time out is left for the next.
THEOREM SdiInvCorrect == SdiSpec => []SdiInv
  <1>. QED
    BY SdiInvInitially, SdiInvStep, PTL DEF SdiSpec

\* A block that sdi_send_request() reports as read is the one asked for, unless bits of data
\* were pending when its command went out; and they are only after a read timed out.
THEOREM BlockIsTheOneAskedCorrect == SdiSpec => []BlockIsTheOneAsked
  <1>1. SdiInv => BlockIsTheOneAsked
    BY DEF SdiInv, Delivered, NothingIsLeft, BlockIsTheOneAsked
  <1>. QED
    BY <1>1, SdiInvCorrect, PTL
=============================================================================
