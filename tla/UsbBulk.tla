------------------------------ MODULE UsbBulk ------------------------------
(***************************************************************************)
(* The bulk endpoints of the USB device: udc_setup_ep(), musb_peri_rx(),   *)
(* musb_peri_rx_ep(), udc_endpoint_write(), udc_start_rx(), udc_start_tx() *)
(* and the receive part of udc_irq() in src/src/drivers/usb/musb_udc.c.    *)
(*                                                                         *)
(* External are the controller, whose endpoints hold one packet each, the  *)
(* host, and the function driver, which the repository does not have: it   *)
(* submits requests, polls udc_irq() and udc_endpoint_write(), and may     *)
(* submit requests from the completion callback of another.  The bytes of  *)
(* an endpoint are numbered, modulo ByteMod, as their sender sends them.   *)
(***************************************************************************)
EXTENDS Naturals, Sequences, FiniteSetsExt

CONSTANTS
    SetUps,         \* the sets of endpoints a function driver may set up
    PacketSize,     \* rcv_packetSize, tx_packetSize
    Sizes,          \* of the requests submitted
    ByteMod         \* bytes are numbered modulo ByteMod

Endpoint == [num : 1..15, out : BOOLEAN]

ASSUME BulkAssumption ==
    /\ SetUps \subseteq SUBSET Endpoint
    /\ PacketSize \in Nat \ {0} /\ Sizes \subseteq Nat \ {0} /\ ByteMod \in Nat \ {0}

VARIABLES
    epinstance,     \* the entries in use
    rcv_urb,        \* stage, buffer_length, and the actual_length bytes received
    tx_urb,         \* stage, zero, and the actual_length bytes to send
    sent,           \* endpoint->sent
    bpc,            \* who runs: "client", "callback", "irq", or "zero" at line 734
    intr,           \* intrx in udc_irq(): the endpoints still to serve
    INTRRX, RXPKTRDY, TXPKTRDY,     \* registers: the endpoints whose bit is set
    rxFifo, txFifo,
    outByte, inByte                 \* next byte the host sends, and expects

rxHw == <<INTRRX, RXPKTRDY, rxFifo, outByte>>
txHw == <<TXPKTRDY, txFifo, inByte>>
bulkVars == <<epinstance, rcv_urb, tx_urb, sent, bpc, intr, rxHw, txHw>>

InUse == {epinstance[i] : i \in DOMAIN epinstance}
Outs == {e \in InUse : e.out}
Ins == InUse \ Outs
Bytes == 0..ByteMod - 1
Numbered(first, n) == [i \in 1..n |-> (first + i - 1) % ByteMod]
Lesser(a, b) == IF a < b THEN a ELSE b

\* Where udc_setup_ep() files an endpoint: epdir is 1 for one that receives.
SetupIndex(e) == (e.num - 1) * 2 + (IF e.out THEN 1 ELSE 0)

udc_setup_ep(eps) ==
    [i \in {SetupIndex(e) : e \in eps} |-> CHOOSE e \in eps : SetupIndex(e) = i]

\* No endpoint, or the one that receives.
GET_RXENDPOINT(ep) == {epinstance[i] : i \in {(ep - 1) * 2 + 1} \cap DOMAIN epinstance}

BulkInit ==
    /\ \E eps \in SetUps : epinstance = udc_setup_ep(eps)
    /\ rcv_urb = [e \in Outs |-> [stage |-> "IDLE", buffer_length |-> 0, data |-> <<>>]]
    /\ tx_urb = [e \in Ins |-> [stage |-> "IDLE", zero |-> FALSE, data |-> <<>>]]
    /\ sent = [e \in Ins |-> 0]
    /\ bpc = "client" /\ intr = {}
    /\ INTRRX = {} /\ RXPKTRDY = {} /\ TXPKTRDY = {}
    /\ rxFifo = [e \in Outs |-> <<>>] /\ txFifo = [e \in Ins |-> <<>>]
    /\ outByte = [e \in Outs |-> 0] /\ inByte = [e \in Ins |-> 0]

-----------------------------------------------------------------------------
\* Receiving.

\* RXCOUNT counts a packet until it is acknowledged.
RXCOUNT(e) == IF e \in RXPKTRDY THEN Len(rxFifo[e]) ELSE 0

Takers(ep, urbs) == {e \in GET_RXENDPOINT(ep) \cap DOMAIN urbs :
    /\ RXCOUNT(e) > 0
    /\ urbs[e].stage = "SUBMIT" /\ urbs[e].buffer_length > Len(urbs[e].data)}

\* Mutant: the packet is copied whole.
ReceivedWhole(urb, packet) ==
    LET data == urb.data \o packet
    IN [urb EXCEPT !.data = data, !.stage =
          IF Len(data) >= urb.buffer_length \/ Len(packet) < PacketSize
          THEN "COMPLETE" ELSE @]
Received(urb, packet) ==
    LET length == Lesser(Len(packet), urb.buffer_length - Len(urb.data))
        data == urb.data \o SubSeq(packet, 1, length)
    IN [urb EXCEPT !.data = data, !.stage =
          IF Len(data) >= urb.buffer_length \/ Len(packet) < PacketSize
          THEN "COMPLETE" ELSE @]

\* What is left of the packet goes with the acknowledgement.
musb_peri_rx_ep(ep, urbs, returnsTo) ==
    IF Takers(ep, urbs) = {}
    THEN rcv_urb' = urbs /\ bpc' = returnsTo /\ UNCHANGED <<RXPKTRDY, rxFifo>>
    ELSE \E e \in Takers(ep, urbs) :
            /\ rcv_urb' = [urbs EXCEPT ![e] = Received(@, rxFifo[e])]
            /\ RXPKTRDY' = RXPKTRDY \ {e}
            /\ rxFifo' = [rxFifo EXCEPT ![e] = <<>>]
            /\ bpc' = IF rcv_urb'[e].stage = "COMPLETE" THEN "callback" ELSE returnsTo

\* Reading INTRRX clears it.
ReadIntrRx ==
    /\ bpc = "client" /\ INTRRX # {}
    /\ intr' = INTRRX /\ INTRRX' = {} /\ bpc' = "irq"
    /\ UNCHANGED <<epinstance, rcv_urb, tx_urb, sent, RXPKTRDY, rxFifo, outByte, txHw>>

Back(rest) == IF rest = {} THEN "client" ELSE "irq"

musb_peri_rx ==
    /\ bpc = "irq"
    /\ intr' = intr \ {Min(intr)}
    /\ musb_peri_rx_ep(Min(intr), rcv_urb, Back(intr'))
    /\ UNCHANGED <<epinstance, tx_urb, sent, INTRRX, outByte, txHw>>

CallbackReturns ==
    /\ bpc = "callback" /\ bpc' = Back(intr)
    /\ UNCHANGED <<epinstance, rcv_urb, tx_urb, sent, intr, rxHw, txHw>>

ClientRuns == bpc \in {"client", "callback"}

Submitted(e, n) == [rcv_urb EXCEPT ![e] =
    [stage |-> "SUBMIT", buffer_length |-> n, data |-> <<>>]]

\* Mutant: a packet that is waiting is left to the next interrupt.
udc_start_rxWaits(e, n) ==
    /\ ClientRuns /\ rcv_urb[e].stage # "SUBMIT"
    /\ rcv_urb' = Submitted(e, n)
    /\ UNCHANGED <<epinstance, bpc, tx_urb, sent, intr, rxHw, txHw>>
udc_start_rx(e, n) ==
    /\ ClientRuns /\ rcv_urb[e].stage # "SUBMIT"
    /\ musb_peri_rx_ep(e.num, Submitted(e, n), bpc)
    /\ UNCHANGED <<epinstance, tx_urb, sent, intr, INTRRX, outByte, txHw>>

-----------------------------------------------------------------------------
\* Sending.

Complete(e, urb) == tx_urb' = [tx_urb EXCEPT ![e] = [urb EXCEPT !.stage = "COMPLETE", !.data = <<>>]]

\* The next packet of a request is loaded, if none waits to be sent.  The request is
\* complete with its last packet loaded, after a closing empty packet if it needs one.
udc_endpoint_write(e, urb, from) ==
    LET length == Lesser(PacketSize, Len(urb.data) - from)
        done == from + length = Len(urb.data)
    IN IF e \in TXPKTRDY
       THEN /\ tx_urb' = [tx_urb EXCEPT ![e] = urb] /\ sent' = [sent EXCEPT ![e] = from]
            /\ UNCHANGED <<bpc, TXPKTRDY, txFifo>>
       ELSE /\ txFifo' = [txFifo EXCEPT ![e] = SubSeq(urb.data, from + 1, from + length)]
            /\ TXPKTRDY' = TXPKTRDY \cup {e}
            /\ sent' = [sent EXCEPT ![e] = from + length]
            /\ \/ /\ ~done
                  /\ tx_urb' = [tx_urb EXCEPT ![e] = urb] /\ UNCHANGED bpc
               \/ /\ done /\ urb.zero /\ length = PacketSize
                  /\ tx_urb' = [tx_urb EXCEPT ![e] = urb] /\ bpc' = "zero"
               \/ /\ done /\ ~(urb.zero /\ length = PacketSize)
                  /\ Complete(e, urb) /\ bpc' = "callback"

\* A flag that is still set stays set: the empty packet is then lost.
ZeroPacket == \E e \in Ins :
    /\ bpc = "zero" /\ tx_urb[e].stage = "SUBMIT"
    /\ sent[e] = Len(tx_urb[e].data) /\ sent[e] > 0
    /\ TXPKTRDY' = TXPKTRDY \cup {e}
    /\ Complete(e, tx_urb[e]) /\ bpc' = "callback"
    /\ UNCHANGED <<epinstance, rcv_urb, sent, intr, rxHw, txFifo, inByte>>

EndpointWrite(e) ==
    /\ ClientRuns /\ tx_urb[e].stage = "SUBMIT" /\ e \notin TXPKTRDY
    /\ udc_endpoint_write(e, tx_urb[e], sent[e])
    /\ UNCHANGED <<epinstance, rcv_urb, intr, rxHw, inByte>>

\* The byte the next message starts with.
NextByte(e) == (inByte[e] + (IF e \in TXPKTRDY THEN Len(txFifo[e]) ELSE 0)) % ByteMod

\* Mutant: the count of the message before goes on.
udc_start_txGoesOn(e, n, zero) ==
    /\ ClientRuns /\ tx_urb[e].stage # "SUBMIT"
    /\ udc_endpoint_write(e, [stage |-> "SUBMIT", zero |-> zero,
                              data |-> Numbered(NextByte(e), n)], Lesser(n, sent[e]))
    /\ UNCHANGED <<epinstance, rcv_urb, intr, rxHw, inByte>>
udc_start_tx(e, n, zero) ==
    /\ ClientRuns /\ tx_urb[e].stage # "SUBMIT"
    /\ udc_endpoint_write(e, [stage |-> "SUBMIT", zero |-> zero,
                              data |-> Numbered(NextByte(e), n)], 0)
    /\ UNCHANGED <<epinstance, rcv_urb, intr, rxHw, inByte>>

-----------------------------------------------------------------------------
\* External: controller and host.

HostSends(e, n) ==
    /\ e \notin RXPKTRDY
    /\ RXPKTRDY' = RXPKTRDY \cup {e} /\ INTRRX' = INTRRX \cup {e.num}
    /\ rxFifo' = [rxFifo EXCEPT ![e] = Numbered(outByte[e], n)]
    /\ outByte' = [outByte EXCEPT ![e] = (@ + n) % ByteMod]
    /\ UNCHANGED <<epinstance, rcv_urb, tx_urb, sent, bpc, intr, txHw>>

HostTakes(e) ==
    /\ e \in TXPKTRDY
    /\ TXPKTRDY' = TXPKTRDY \ {e} /\ txFifo' = [txFifo EXCEPT ![e] = <<>>]
    /\ inByte' = [inByte EXCEPT ![e] = (@ + Len(txFifo[e])) % ByteMod]
    /\ UNCHANGED <<epinstance, rcv_urb, tx_urb, sent, bpc, intr, rxHw>>

BulkNext ==
    \/ ReadIntrRx \/ musb_peri_rx \/ CallbackReturns \/ ZeroPacket
    \/ \E e \in Outs : \/ \E n \in Sizes : udc_start_rx(e, n)
                       \/ \E n \in 0..PacketSize : HostSends(e, n)
    \/ \E e \in Ins : \/ \E n \in {0} \cup Sizes, zero \in BOOLEAN : udc_start_tx(e, n, zero)
                      \/ EndpointWrite(e) \/ HostTakes(e)

BulkSpec == BulkInit /\ [][BulkNext]_bulkVars

\* The function driver polls udc_irq() and udc_endpoint_write() again and again,
\* callbacks return, and the host takes what is offered.
BulkFairness ==
    /\ SF_bulkVars(ReadIntrRx) /\ WF_bulkVars(musb_peri_rx)
    /\ SF_bulkVars(CallbackReturns) /\ WF_bulkVars(ZeroPacket)
    /\ \A e \in UNION SetUps :
         ~e.out => SF_bulkVars(e \in Ins /\ EndpointWrite(e)) /\ WF_bulkVars(e \in Ins /\ HostTakes(e))

-----------------------------------------------------------------------------
\* What the host has yet to read of what was submitted, a packet loaded and the rest of
\* the request, continues with the byte the host expects: nothing is skipped, sent twice
\* or overwritten in udc_endpoint_write().
SentInOrder == \A e \in Ins :
    LET rest == (IF e \in TXPKTRDY THEN txFifo[e] ELSE <<>>)
                \o SubSeq(tx_urb[e].data, sent[e] + 1, Len(tx_urb[e].data))
    IN rest = Numbered(inByte[e], Len(rest))

AllOuts == {e \in UNION SetUps : e.out}
InFlight == [e \in AllOuts |-> IF e \in Outs /\ e \in RXPKTRDY THEN <<rxFifo[e]>> ELSE <<>>]
Room == [e \in AllOuts |-> IF e \in Outs /\ rcv_urb[e].stage = "SUBMIT"
                           THEN rcv_urb[e].buffer_length ELSE 0]
Got == [e \in AllOuts |-> IF e \in Outs THEN rcv_urb[e].data ELSE <<>>]
Pipe == INSTANCE BulkPipe WITH Pipes <- AllOuts, flight <- InFlight, room <- Room, got <- Got

\* The receiving endpoints implement BulkPipe, packets that came before a request, with
\* it or after it, and requests shorter and longer than packets alike.
OutIsAPipe == Pipe!Spec

Waiting(e) ==
    \/ e \in Outs /\ RXCOUNT(e) > 0 /\ rcv_urb[e].stage = "SUBMIT"
    \/ e \in Ins /\ tx_urb[e].stage = "SUBMIT"

\* A packet with bytes in it is taken by the request submitted for it, although its
\* interrupt may have been read when there was none; and what is submitted is sent.
BulkDelivers == \A e \in UNION SetUps : Waiting(e) ~> ~Waiting(e)
=============================================================================
