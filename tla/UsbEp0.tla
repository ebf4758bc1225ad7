------------------------------- MODULE UsbEp0 -------------------------------
(***************************************************************************)
(* The control endpoint of the USB device: udc_irq() and the musb_peri_ep0 *)
(* functions of src/src/drivers/usb/musb_udc.c, ep0_recv_setup() of ep0.c  *)
(* and the device states of core.c.                                        *)
(*                                                                         *)
(* udc_irq() is polled.  A step ends where the driver reads another        *)
(* interrupt register or waits for the host; the register accesses within  *)
(* a step follow each other at once, and the host's next packet does not   *)
(* fall between them.                                                      *)
(***************************************************************************)
EXTENDS UsbBus

CONSTANTS
    Descriptors,    \* length of each descriptor the device has
    SlowStatus      \* the host may take longer over a status stage than the driver waits

ASSUME Ep0Assumption ==
    SlowStatus \in BOOLEAN /\ \A d \in DOMAIN Descriptors : Descriptors[d] \in Nat \ {0}

VARIABLES
    pc,         \* the part of udc_irq() to come next; "poll" between calls
    caller,     \* who called musb_peri_ep0_tx()
    seen,       \* intusb
    ep0_state,
    urb,        \* ep0_urb: device_request, actual_length, and what the buffer answers
    sent,       \* ep0_endpoint->sent
    device      \* udc_device: device_state, address, configuration

drvVars == <<pc, caller, seen, ep0_state, urb, sent, device>>
vars == <<busVars, drvVars>>

\* udc_startup_events() leaves the device reset and enabled.
Init ==
    /\ BusInit
    /\ pc = "poll" /\ caller = "ep0" /\ seen = {}
    /\ ep0_state = "IDLE" /\ sent = 0
    /\ urb = [req |-> Nothing, actual |-> 0, answers |-> Nothing]
    /\ device = [state |-> "DEFAULT", address |-> 0, configuration |-> 0]

SetCsr0(bits) == csr0' = csr0 \cup bits
Lesser(a, b) == IF a < b THEN a ELSE b

-----------------------------------------------------------------------------
\* ep0_recv_setup(): whether the request is refused, what the urb then holds,
\* and the device after it.

NotInDefault == {"GET_STATUS", "GET_INTERFACE", "SYNCH_FRAME", "CLEAR_FEATURE",
                 "SET_FEATURE", "SET_DESCRIPTOR", "SET_INTERFACE"}

Filtered(req) == ~req.std \/ (device.state = "DEFAULT" /\ req.name \in NotInDefault)

Refuses(req, length) == [err |-> TRUE, actual |-> length, device |-> device]
Answers(req, length) == [err |-> FALSE, actual |-> length, device |-> device]
Does(req, dev) == [err |-> FALSE, actual |-> urb.actual, device |-> dev]

ep0_get_descriptor(req) ==
    IF req.value \in DOMAIN Descriptors
    THEN Answers(req, Lesser(Descriptors[req.value], req.length))
    ELSE Refuses(req, 0)

DeviceToHost(req) ==
    CASE req.name = "GET_DESCRIPTOR" -> ep0_get_descriptor(req)
      [] req.name \in {"GET_CONFIGURATION", "GET_INTERFACE"} -> Answers(req, 1)
      [] req.name = "GET_STATUS" -> Answers(req, 2)
      [] OTHER -> Refuses(req, urb.actual)

HostToDevice(req) ==
    CASE req.name = "SET_ADDRESS" /\ device.state = "DEFAULT" /\ req.value < 128 ->
            Does(req, [device EXCEPT !.address = req.value])
      [] req.name = "SET_CONFIGURATION" ->
            Does(req, [device EXCEPT !.configuration = req.value])
      [] req.name \in {"SET_INTERFACE", "SET_FEATURE", "CLEAR_FEATURE"} -> Does(req, device)
      [] OTHER -> Refuses(req, urb.actual)

ep0_recv_setup(req) ==
    CASE Filtered(req)             -> Refuses(req, urb.actual)
      [] ~Filtered(req) /\ req.in  -> DeviceToHost(req)
      [] ~Filtered(req) /\ ~req.in -> HostToDevice(req)

-----------------------------------------------------------------------------
\* udc_irq() reads the interrupts of the bus, then serves endpoint 0.
ReadIntrUsb ==
    /\ pc = "poll"
    /\ seen' = intrusb /\ intrusb' = {}
    /\ pc' = "ep0" /\ caller' = "ep0"
    /\ UNCHANGED <<faddr, intrtx, csr0, rxFifo, txFifo, host, ep0_state, urb, sent, device>>

Serve(state) ==
    CASE state = "IDLE" -> "idle" [] state = "TX" -> "tx" [] state = "RX" -> "rx"

\* Mutant: the end of a request by the next one leaves the state.
musb_peri_ep0Goes ==
    /\ pc = "ep0"
    /\ IF ep0_state = "SET_ADDRESS"
       THEN pc' = "events" /\ UNCHANGED <<csr0, ep0_state>>
       ELSE /\ csr0' = csr0 \ {"SENTSTALL", "SETUPEND"}
            /\ ep0_state' = IF "SENTSTALL" \in csr0 THEN "IDLE" ELSE ep0_state
            /\ pc' = Serve(ep0_state')
    /\ UNCHANGED <<faddr, intrusb, intrtx, rxFifo, txFifo, host, caller, seen, urb, sent, device>>

musb_peri_ep0 ==
    /\ pc = "ep0"
    /\ IF ep0_state = "SET_ADDRESS"
       THEN pc' = "events" /\ UNCHANGED <<csr0, ep0_state>>
       ELSE /\ csr0' = csr0 \ {"SENTSTALL", "SETUPEND"}
            /\ ep0_state' = IF csr0 \cap {"SENTSTALL", "SETUPEND"} # {} THEN "IDLE" ELSE ep0_state
            /\ pc' = Serve(ep0_state')
    /\ UNCHANGED <<faddr, intrusb, intrtx, rxFifo, txFifo, host, caller, seen, urb, sent, device>>

-----------------------------------------------------------------------------
\* musb_peri_ep0_idle(): a packet of 8 bytes is taken for a request.

NoRequest ==
    /\ pc = "idle"
    /\ "RXPKTRDY" \notin csr0 \/ rxFifo = Nothing
    /\ pc' = "events"
    /\ UNCHANGED <<busVars, caller, seen, ep0_state, urb, sent, device>>

\* Data of a request no longer under way, of another length: refused unread.
StrayData ==
    /\ pc = "idle" /\ "RXPKTRDY" \in csr0 /\ rxFifo = OutData
    /\ SetCsr0({"SENDSTALL"})
    /\ pc' = "events"
    /\ UNCHANGED <<faddr, intrusb, intrtx, rxFifo, txFifo, host, caller, seen, ep0_state, urb, sent, device>>

ReadsRequest ==
    /\ pc = "idle" /\ "RXPKTRDY" \in csr0 /\ rxFifo \in Requests
    /\ rxFifo' = Nothing
    /\ UNCHANGED <<faddr, intrusb, intrtx, txFifo, host, caller, seen>>

\* musb_peri_ep0_zero_data_request(), up to the wait in musb_peri_ep0_last()
ZeroDataRequest ==
    /\ ReadsRequest
    /\ rxFifo.length = 0
    /\ LET r == ep0_recv_setup(rxFifo)
       IN  /\ urb' = [urb EXCEPT !.req = rxFifo, !.actual = r.actual]
           /\ device' = r.device
           /\ csr0' = (csr0 \ {"RXPKTRDY"}) \cup IF r.err THEN {"SENDSTALL"} ELSE {"DATAEND"}
           /\ pc' = IF r.err THEN "events" ELSE "last"
    /\ UNCHANGED <<ep0_state, sent>>

\* musb_peri_ep0_tx_data_request(): a request refused is not acknowledged.
TxDataRequest ==
    /\ ReadsRequest
    /\ rxFifo.length > 0 /\ rxFifo.in
    /\ LET r == ep0_recv_setup(rxFifo)
       IN  /\ urb' = [req |-> rxFifo, actual |-> r.actual,
                      answers |-> IF r.err THEN urb.answers ELSE rxFifo]
           /\ \/ r.err /\ SetCsr0({"SENDSTALL"}) /\ pc' = "events" /\ UNCHANGED <<ep0_state, sent>>
              \/ /\ ~r.err
                 /\ csr0' = csr0 \ {"RXPKTRDY"}
                 /\ sent' = 0 /\ ep0_state' = "TX" /\ pc' = "tx"
    /\ UNCHANGED device

\* musb_peri_ep0_rx_data_request()
RxDataRequest ==
    /\ ReadsRequest
    /\ rxFifo.length > 0 /\ ~rxFifo.in
    /\ urb' = [urb EXCEPT !.req = rxFifo, !.actual = 0]
    /\ csr0' = csr0 \ {"RXPKTRDY"}
    /\ ep0_state' = "RX" /\ pc' = "rx"
    /\ UNCHANGED <<sent, device>>

\* Mutant: musb_peri_ep0_last() does not wait.
LastAtOnce ==
    /\ pc = "last"
    /\ device' = IF urb.req.name = "SET_CONFIGURATION" THEN [device EXCEPT !.state = "CONFIGURED"]
                 ELSE device
    /\ ep0_state' = IF urb.req.name = "SET_ADDRESS" THEN "SET_ADDRESS" ELSE "IDLE"
    /\ pc' = "events"
    /\ UNCHANGED <<busVars, caller, seen, urb, sent>>

\* The wait of musb_peri_ep0_last() ends when DATAEND is clear, or runs out.
Last ==
    /\ pc = "last"
    /\ "DATAEND" \notin csr0 \/ SlowStatus
    /\ device' = IF urb.req.name = "SET_CONFIGURATION" THEN [device EXCEPT !.state = "CONFIGURED"]
                 ELSE device
    /\ ep0_state' = IF urb.req.name = "SET_ADDRESS" THEN "SET_ADDRESS" ELSE "IDLE"
    /\ pc' = "events"
    /\ UNCHANGED <<busVars, caller, seen, urb, sent>>

-----------------------------------------------------------------------------
\* musb_peri_ep0_tx(), called for the state TX and for a transmit interrupt,
\* whatever the state.

TxReturns == pc' = IF caller = "ep0" THEN "events" ELSE "poll"

TxPending ==
    /\ pc = "tx" /\ "TXPKTRDY" \in csr0
    /\ TxReturns
    /\ UNCHANGED <<busVars, caller, seen, ep0_state, urb, sent, device>>

TxLastPacket ==
    /\ pc = "tx" /\ "TXPKTRDY" \notin csr0 /\ sent >= urb.actual
    /\ ep0_state' = "IDLE"
    /\ TxReturns
    /\ UNCHANGED <<busVars, caller, seen, urb, sent, device>>

LoadPacket(length) ==
    /\ txFifo' = [from |-> sent, length |-> length, answers |-> urb.answers]
    /\ sent' = sent + length
    /\ SetCsr0({"TXPKTRDY"} \cup IF sent' >= urb.actual THEN {"DATAEND"} ELSE {})
    /\ pc' = "sending"
    /\ UNCHANGED <<faddr, intrusb, intrtx, rxFifo, host, caller, seen, ep0_state, urb, device>>

\* Mutant: the packet still waiting is overwritten.
TxLoadsOver ==
    /\ pc = "tx" /\ sent < urb.actual
    /\ LoadPacket(Lesser(urb.actual - sent, PacketSize))

TxLoad ==
    /\ pc = "tx" /\ "TXPKTRDY" \notin csr0 /\ sent < urb.actual
    /\ LoadPacket(Lesser(urb.actual - sent, PacketSize))

\* The wait after it ends when the host has taken the packet, or runs out.
TxSent ==
    /\ pc = "sending"
    /\ ep0_state' = IF sent >= urb.actual /\ "TXPKTRDY" \notin csr0 THEN "IDLE" ELSE ep0_state
    /\ TxReturns
    /\ UNCHANGED <<busVars, caller, seen, urb, sent, device>>

\* MUSB_CSR0 without an endpoint is MUSB_INTRTX, which reading clears: what is
\* read at first is nothing the second time, so no data is ever taken.
musb_peri_ep0_rx ==
    /\ pc = "rx"
    /\ intrtx' = FALSE
    /\ pc' = "events"
    /\ UNCHANGED <<faddr, intrusb, csr0, rxFifo, txFifo, host, caller, seen, ep0_state, urb, sent, device>>

-----------------------------------------------------------------------------
\* Mutant: the state of the device is left as it was.
UsbEventsKeepState ==
    /\ pc = "events"
    /\ IF "RESET" \in seen
       THEN device' = [device EXCEPT !.address = 0] /\ faddr' = 0 /\ ep0_state' = "IDLE"
       ELSE UNCHANGED <<device, faddr, ep0_state>>
    /\ seen' = seen \ {"RESET"}
    /\ pc' = "intr"
    /\ UNCHANGED <<intrusb, intrtx, csr0, rxFifo, txFifo, host, caller, urb, sent>>

\* The events read at the start: a reset, or a disconnection, which does the
\* same, makes the device forget its address and not its configuration.
UsbEvents ==
    /\ pc = "events"
    /\ IF "RESET" \in seen
       THEN /\ device' = [device EXCEPT !.state = "DEFAULT", !.address = 0]
            /\ faddr' = 0 /\ ep0_state' = "IDLE"
       ELSE UNCHANGED <<device, faddr, ep0_state>>
    /\ seen' = seen \ {"RESET"}
    /\ pc' = "intr"
    /\ UNCHANGED <<intrusb, intrtx, csr0, rxFifo, txFifo, host, caller, urb, sent>>

ReadIntrTx ==
    /\ pc = "intr" /\ ep0_state # "SET_ADDRESS"
    /\ intrtx' = FALSE
    /\ pc' = (IF intrtx THEN "tx" ELSE "poll") /\ caller' = "irq"
    /\ UNCHANGED <<faddr, intrusb, csr0, rxFifo, txFifo, host, seen, ep0_state, urb, sent, device>>

\* The address is put into force at a start of frame.
musb_peri_ep0_set_address ==
    /\ pc = "intr" /\ ep0_state = "SET_ADDRESS"
    /\ IF "SOF" \in seen /\ device.address # faddr
       THEN /\ faddr' = device.address /\ ep0_state' = "IDLE"
            /\ device' = [device EXCEPT !.state = "ADDRESSED"]
       ELSE UNCHANGED <<faddr, ep0_state, device>>
    /\ pc' = "poll"
    /\ UNCHANGED <<intrusb, intrtx, csr0, rxFifo, txFifo, host, caller, seen, urb, sent>>

-----------------------------------------------------------------------------
\* The host lets the time of recovery pass after a reset, in which the driver
\* polls.
HostAsks ==
    /\ "RESET" \notin intrusb \cup seen
    /\ \E req \in Requests : Setup(req)
    /\ UNCHANGED drvVars

HostStep == HostGoesOn /\ UNCHANGED drvVars
FrameStep == StartOfFrame /\ UNCHANGED drvVars
ResetStep == BusReset /\ UNCHANGED drvVars

udc_irq ==
    \/ ReadIntrUsb \/ musb_peri_ep0
    \/ NoRequest \/ StrayData \/ ZeroDataRequest \/ TxDataRequest \/ RxDataRequest \/ Last
    \/ TxPending \/ TxLastPacket \/ TxLoad \/ TxSent \/ musb_peri_ep0_rx
    \/ UsbEvents \/ ReadIntrTx \/ musb_peri_ep0_set_address

Next == udc_irq \/ HostAsks \/ HostStep \/ FrameStep \/ ResetStep

Spec == Init /\ [][Next]_vars
FairSpec == Spec /\ WF_vars(udc_irq) /\ WF_vars(HostStep) /\ WF_vars(FrameStep)

-----------------------------------------------------------------------------
(***************************************************************************)
(* Properties.                                                             *)
(***************************************************************************)

TypeOK ==
    /\ BusTypeOK
    /\ pc \in {"poll", "ep0", "idle", "last", "tx", "sending", "rx", "events", "intr"}
    /\ caller \in {"ep0", "irq"} /\ seen \subseteq {"RESET", "SOF"}
    /\ ep0_state \in {"IDLE", "TX", "RX", "SET_ADDRESS"}
    /\ urb \in [req : Requests \cup {Nothing}, actual : Nat, answers : Requests \cup {Nothing}]
    /\ sent \in Nat
    /\ device \in [state : {"DEFAULT", "ADDRESSED", "CONFIGURED"}, address : 0..127,
                   configuration : Nat]

ResetUnseen == "RESET" \in intrusb \cup seen

\* The device answers to the address the host calls it by, but for the time
\* between the end of SET_ADDRESS and the next start of frame, or until a reset
\* is seen: the address changes after the status stage, whenever polls, frames
\* and resets fall (musb_peri_ep0_last, musb_peri_ep0_set_address).
HeardAtAddress ==
    \/ faddr = host.addr
    \/ ResetUnseen
    \/ /\ device.address = host.addr
       /\ ep0_state = "SET_ADDRESS" \/ (pc = "last" /\ urb.req.name = "SET_ADDRESS")

\* Between requests, device_state and the configuration are what the host was
\* told: every change of state acknowledged has been made, and none without
\* (usbd_device_event_irq).
DeviceStateAgrees ==
    pc = "poll" /\ host.phase = "none" /\ ~ResetUnseen /\ ep0_state # "SET_ADDRESS"
        => /\ device.state = host.state /\ device.address = host.addr
           /\ host.state = "CONFIGURED" => device.configuration = host.config

\* What the host reads is the answer to its request, piece after piece, although
\* musb_peri_ep0_tx() is entered from two places and in any state.
DataIsTheAnswer ==
    [][host'.got > host.got /\ host'.req = host.req
        => txFifo.answers = host.req /\ txFifo.from = host.got]_vars

\* Every request that sends no data is answered or refused in the end, also
\* after one that was given up, if the host waits.
RequestsEnd == host.phase # "none" /\ ~Writing ~> host.phase = "none" \/ Writing
=============================================================================
