---------------------------- MODULE UsbEp0Proofs ----------------------------
(***************************************************************************)
(* Proofs about UsbEp0, for every set of requests and descriptors: the     *)
(* device is heard at the address the host gave it and is in the state it  *)
(* was put in, and what the host reads is the answer to what it asked.     *)
(***************************************************************************)
EXTENDS UsbEp0, TLAPS

-----------------------------------------------------------------------------
\* A request under way is one of those the host makes.
HasRequest == host.phase # "none" => host.req \in Requests

TypeInv == TypeOK /\ HasRequest

\* A request in the FIFO is the host's and not yet acknowledged, data in it is that of the
\* request under way, if there is one.
InFifo ==
    /\ rxFifo \in Requests => /\ "RXPKTRDY" \in csr0 /\ "SENDSTALL" \notin csr0
                              /\ host.req = rxFifo /\ host.got = 0
                              /\ host.phase = IF rxFifo.length = 0 THEN "status" ELSE "data"
    /\ rxFifo = OutData /\ host.phase # "none" => Writing
    /\ host.phase = "data" => host.req.length > 0

\* Nothing happens between a reset and the end of the handler's call that sees it.
AfterReset ==
    /\ ResetUnseen => host = HostAfterReset /\ rxFifo = Nothing
    /\ "RESET" \in seen => caller = "ep0" /\ pc \notin {"poll", "intr"}

BusInv == InFifo /\ AfterReset

-----------------------------------------------------------------------------
Gets == {"GET_DESCRIPTOR", "GET_CONFIGURATION", "GET_INTERFACE", "GET_STATUS"}

Acknowledged == host.phase # "none" /\ "RXPKTRDY" \notin csr0 /\ "SENDSTALL" \notin csr0

\* The device has said that the data ends, and no packet is left.
AtEnd == "DATAEND" \in csr0 /\ "TXPKTRDY" \notin csr0

\* Only a request that reads, or one without data that the driver waits for, comes to its end.
EndIsOf ==
    /\ AtEnd => /\ rxFifo \notin Requests /\ "SENDSTALL" \notin csr0
                /\ host.phase # "none" /\ (host.req.length = 0 \/ host.req.in)
    /\ Acknowledged /\ host.req.length > 0 /\ host.req.in => host.req.name \in Gets
    /\ Acknowledged /\ host.req.length = 0 => pc = "last" /\ "DATAEND" \in csr0

SetsAddress == ep0_state = "SET_ADDRESS" => pc \in {"poll", "ep0", "events", "intr"}

AddressAgrees == device.address = host.addr
StateAgrees == device.state = host.state
ConfigurationAgrees == host.state = "CONFIGURED" => device.configuration = host.config
Agrees == AddressAgrees /\ StateAgrees /\ ConfigurationAgrees

\* While the driver waits for a status stage: the host is about to take the request as
\* done, or has done so.
Waits ==
    pc = "last" /\ ~ResetUnseen =>
        \/ /\ Acknowledged /\ host.req = urb.req /\ host.req.length = 0
           /\ faddr = host.addr
           /\ CASE urb.req.name = "SET_ADDRESS" ->
                     device.address = urb.req.value /\ StateAgrees /\ device.state = "DEFAULT"
                [] urb.req.name = "SET_CONFIGURATION" ->
                     device.configuration = urb.req.value /\ AddressAgrees /\ StateAgrees
                [] OTHER -> Agrees
        \/ /\ "DATAEND" \notin csr0
           /\ CASE urb.req.name = "SET_ADDRESS" -> AddressAgrees /\ host.state = "ADDRESSED"
                [] urb.req.name = "SET_CONFIGURATION" ->
                     AddressAgrees /\ ConfigurationAgrees /\ host.state = "CONFIGURED"
                [] OTHER -> Agrees
           /\ urb.req.name # "SET_ADDRESS" => faddr = host.addr

\* Otherwise both agree, but for a state the device enters at the next start of frame.
Settled ==
    pc # "last" /\ ~ResetUnseen =>
        IF ep0_state = "SET_ADDRESS" THEN AddressAgrees /\ host.state = "ADDRESSED"
                                     ELSE Agrees /\ faddr = host.addr

AddressInv == EndIsOf /\ SetsAddress /\ Waits /\ Settled

-----------------------------------------------------------------------------
\* What is left to send belongs to the request under way, and goes on where the host is.
LeftToSend ==
    sent < urb.actual =>
        /\ Reading /\ Acknowledged
        /\ urb.answers = host.req /\ urb.actual <= host.req.length
        /\ "TXPKTRDY" \notin csr0 => sent = host.got

\* So does the packet in the FIFO, and it is full or the last.
PacketIs ==
    "TXPKTRDY" \in csr0 =>
        /\ Reading /\ Acknowledged
        /\ urb.answers = host.req /\ urb.actual <= host.req.length
        /\ txFifo.answers = host.req /\ txFifo.from = host.got
        /\ sent = txFifo.from + txFifo.length
        /\ txFifo.length = PacketSize \/ sent = urb.actual

DataInv == LeftToSend /\ PacketIs

-----------------------------------------------------------------------------
\* What ep0_recv_setup() does.

Device == [state : {"DEFAULT", "ADDRESSED", "CONFIGURED"}, address : 0..127, configuration : Nat]

LEMMA RequestIs ==
    ASSUME NEW req \in Requests
    PROVE  /\ req.std \in BOOLEAN /\ req.in \in BOOLEAN /\ req.value \in Nat /\ req.length \in Nat
           /\ req # Nothing /\ req # OutData
  BY BusAssumption DEF Nothing, OutData

\* A request is refused without effect, answered without effect, or carried out.
LEMMA RecvSetup ==
    ASSUME device \in Device, urb.actual \in Nat, NEW req \in Requests,
           NEW r, r = ep0_recv_setup(req)
    PROVE  /\ r.actual \in Nat /\ r.device \in Device
           /\ \/ r.err /\ r.device = device /\ r.actual \in {0, urb.actual}
              \/ /\ ~r.err /\ req.in /\ r.device = device /\ req.name \in Gets
                 /\ \/ req.name = "GET_DESCRIPTOR" /\ r.actual <= req.length
                    \/ req.name = "GET_STATUS" /\ r.actual = 2
                    \/ req.name \in {"GET_CONFIGURATION", "GET_INTERFACE"} /\ r.actual = 1
              \/ /\ ~r.err /\ ~req.in /\ r.actual = urb.actual
                 /\ \/ /\ req.name = "SET_ADDRESS" /\ device.state = "DEFAULT"
                       /\ r.device = [device EXCEPT !.address = req.value]
                    \/ /\ req.name = "SET_CONFIGURATION"
                       /\ r.device = [device EXCEPT !.configuration = req.value]
                    \/ /\ req.name \notin {"SET_ADDRESS", "SET_CONFIGURATION"}
                       /\ r.device = device
  <1>1. req.std \in BOOLEAN /\ req.in \in BOOLEAN /\ req.value \in Nat /\ req.length \in Nat
    BY RequestIs
  <1>2. CASE Filtered(req)
    BY <1>1, <1>2 DEF ep0_recv_setup, Refuses
  <1>3. CASE ~Filtered(req) /\ req.in
    <2>1. r = DeviceToHost(req)
      BY <1>3 DEF ep0_recv_setup
    <2>2. CASE req.name = "GET_DESCRIPTOR"
      <3>1. r = ep0_get_descriptor(req)
        BY <2>1, <2>2 DEF DeviceToHost
      <3>2. CASE req.value \in DOMAIN Descriptors
        <4>1. r = Answers(req, Lesser(Descriptors[req.value], req.length))
          BY <3>1, <3>2 DEF ep0_get_descriptor
        <4>2. Descriptors[req.value] \in Nat
          BY <3>2, Ep0Assumption
        <4>3. /\ Lesser(Descriptors[req.value], req.length) \in Nat
              /\ Lesser(Descriptors[req.value], req.length) <= req.length
          BY <1>1, <4>2 DEF Lesser
        <4>4. r.err = FALSE /\ r.device = device /\ r.actual \in Nat /\ r.actual <= req.length
          BY <4>1, <4>3 DEF Answers
        <4> QED
          BY <1>1, <1>3, <2>2, <4>4 DEF Gets
      <3>3. CASE req.value \notin DOMAIN Descriptors
        <4>1. r.err = TRUE /\ r.device = device /\ r.actual = 0
          BY <3>1, <3>3 DEF ep0_get_descriptor, Refuses
        <4> QED
          BY <4>1
      <3> QED
        BY <3>2, <3>3
    <2>3. CASE req.name # "GET_DESCRIPTOR"
      <3>1. CASE req.name \in {"GET_CONFIGURATION", "GET_INTERFACE"}
        <4>1. r = Answers(req, 1)
          BY <2>1, <3>1 DEF DeviceToHost
        <4>2. r.err = FALSE /\ r.device = device /\ r.actual = 1
          BY <4>1 DEF Answers
        <4> QED
          BY <1>3, <3>1, <4>2 DEF Gets
      <3>2. CASE req.name = "GET_STATUS"
        <4>1. r = Answers(req, 2)
          BY <2>1, <3>2 DEF DeviceToHost
        <4>2. r.err = FALSE /\ r.device = device /\ r.actual = 2
          BY <4>1 DEF Answers
        <4> QED
          BY <1>3, <3>2, <4>2 DEF Gets
      <3>3. CASE req.name \notin Gets
        <4>1. r = Refuses(req, urb.actual)
          BY <2>1, <3>3 DEF DeviceToHost, Gets
        <4>2. r.err = TRUE /\ r.device = device /\ r.actual = urb.actual
          BY <4>1 DEF Refuses
        <4> QED
          BY <4>2
      <3> QED
        BY <2>3, <3>1, <3>2, <3>3 DEF Gets
    <2> QED
      BY <2>2, <2>3
  <1>4. CASE ~Filtered(req) /\ ~req.in
    <2>1. r = HostToDevice(req)
      BY <1>4 DEF ep0_recv_setup
    <2>2. CASE req.name = "SET_ADDRESS" /\ device.state = "DEFAULT" /\ req.value < 128
      <3>1. r = Does(req, [device EXCEPT !.address = req.value])
        BY <2>1, <2>2 DEF HostToDevice
      <3> QED
        BY <1>1, <1>4, <2>2, <3>1 DEF Does, Device
    <2>3. CASE req.name = "SET_CONFIGURATION"
      <3>1. r = Does(req, [device EXCEPT !.configuration = req.value])
        BY <2>1, <2>3 DEF HostToDevice
      <3> QED
        BY <1>1, <1>4, <2>3, <3>1 DEF Does, Device
    <2>4. CASE req.name \in {"SET_INTERFACE", "SET_FEATURE", "CLEAR_FEATURE"}
      <3>1. r = Does(req, device)
        BY <2>1, <2>4 DEF HostToDevice
      <3>2. r.err = FALSE /\ r.device = device /\ r.actual = urb.actual
        BY <3>1 DEF Does
      <3> QED
        BY <1>4, <2>4, <3>2
    <2>5. CASE /\ ~(req.name = "SET_ADDRESS" /\ device.state = "DEFAULT" /\ req.value < 128)
               /\ req.name \notin {"SET_CONFIGURATION", "SET_INTERFACE", "SET_FEATURE", "CLEAR_FEATURE"}
      <3>1. r = Refuses(req, urb.actual)
        BY <2>1, <2>5 DEF HostToDevice
      <3>2. r.err = TRUE /\ r.device = device /\ r.actual = urb.actual
        BY <3>1 DEF Refuses
      <3> QED
        BY <3>2
    <2> QED
      BY <2>2, <2>3, <2>4, <2>5
  <1> QED
    BY <1>2, <1>3, <1>4, <1>1

-----------------------------------------------------------------------------
\* The types.

Host == [phase : {"none", "data", "status"}, req : Requests \cup {Nothing}, got : Nat,
         addr : Nat, state : {"DEFAULT", "ADDRESSED", "CONFIGURED"}, config : Nat]

Packet == [from : Nat, length : 0..PacketSize, answers : Requests \cup {Nothing}]

NoPacketIs == NoPacket \in Packet /\ HostAfterReset \in Host

LEMMA ResetTypes == NoPacketIs
  BY BusAssumption DEF NoPacketIs, NoPacket, HostAfterReset, Packet, Host

LEMMA TypeInitially == Init => TypeInv
  <1> SUFFICES ASSUME Init PROVE TypeInv
    OBVIOUS
  <1>1. intrtx \in BOOLEAN
    BY Zenon DEF Init, BusInit
  <1>2. host \in Host /\ txFifo \in Packet
    BY ResetTypes DEF Init, BusInit, NoPacketIs
  <1>3. host.phase = "none"
    BY DEF Init, BusInit, HostAfterReset
  <1>4. urb \in [req : Requests \cup {Nothing}, actual : Nat, answers : Requests \cup {Nothing}]
    BY DEF Init
  <1>5. device \in Device
    BY DEF Init, Device
  <1>6. BusTypeOK
    BY <1>1, <1>2 DEF Init, BusInit, BusTypeOK, Host, Packet
  <1>7. TypeOK
    BY <1>4, <1>5, <1>6 DEF Init, TypeOK, Device
  <1> QED
    BY <1>3, <1>7 DEF TypeInv, HasRequest

\* What the host's steps make of host.
LEMMA SetupMakes ==
    ASSUME host \in Host, NEW req \in Requests, Setup(req)
    PROVE  host' = [phase |-> IF req.length = 0 THEN "status" ELSE "data", req |-> req, got |-> 0,
                    addr |-> host.addr, state |-> host.state, config |-> host.config]
  BY DEF Setup, Host

LEMMA TakeDataMakes ==
    ASSUME host \in Host, TakeData
    PROVE  host' = [phase |-> IF \/ host.got + txFifo.length >= host.req.length
                                 \/ txFifo.length < PacketSize
                              THEN "status" ELSE "data",
                    req |-> host.req, got |-> host.got + txFifo.length,
                    addr |-> host.addr, state |-> host.state, config |-> host.config]
  BY DEF TakeData, Host

LEMMA GiveDataMakes ==
    ASSUME host \in Host, GiveData
    PROVE  host' = [phase |-> "status", req |-> host.req, got |-> host.got,
                    addr |-> host.addr, state |-> host.state, config |-> host.config]
  BY DEF GiveData, Host

LEMMA StatusMakes ==
    ASSUME host \in Host, Status
    PROVE  host' = [phase |-> "none", req |-> Nothing, got |-> 0,
                    addr |-> IF host.req.name = "SET_ADDRESS" THEN host.req.value ELSE host.addr,
                    state |-> IF host.req.name = "SET_ADDRESS" THEN "ADDRESSED"
                              ELSE IF host.req.name = "SET_CONFIGURATION" THEN "CONFIGURED"
                              ELSE host.state,
                    config |-> IF host.req.name = "SET_CONFIGURATION" THEN host.req.value
                               ELSE host.config]
  BY DEF Status, Ended, Host

LEMMA StallMakes ==
    ASSUME host \in Host, Stall
    PROVE  host' = [phase |-> "none", req |-> Nothing, got |-> 0,
                    addr |-> host.addr, state |-> host.state, config |-> host.config]
  BY DEF Stall, Ended, Host

\* What the driver makes of the device at the end of a request and when it sees a reset.
LEMMA LastMakes ==
    ASSUME device \in Device, Last
    PROVE  device' = [state |-> IF urb.req.name = "SET_CONFIGURATION" THEN "CONFIGURED"
                                ELSE device.state,
                      address |-> device.address, configuration |-> device.configuration]
  BY DEF Last, Device

LEMMA EventsMake ==
    ASSUME device \in Device, UsbEvents
    PROVE  device' = IF "RESET" \in seen
                     THEN [state |-> "DEFAULT", address |-> 0, configuration |-> device.configuration]
                     ELSE device
  BY DEF UsbEvents, Device

\* A packet is never longer than a full one, and sent does not pass what there is to send.
LEMMA LoadIs ==
    ASSUME TypeOK, TxLoad
    PROVE  \E n \in 1..PacketSize :
              /\ sent + n <= urb.actual /\ (n = PacketSize \/ sent + n = urb.actual)
              /\ txFifo' = [from |-> sent, length |-> n, answers |-> urb.answers]
              /\ sent' = sent + n
              /\ csr0' = csr0 \cup {"TXPKTRDY"} \cup IF sent + n >= urb.actual THEN {"DATAEND"} ELSE {}
  <1> DEFINE n == Lesser(urb.actual - sent, PacketSize)
  <1>1. sent \in Nat /\ urb.actual \in Nat /\ sent < urb.actual /\ PacketSize \in Nat \ {0}
    BY BusAssumption DEF TypeOK, TxLoad
  <1>2. n \in 1..PacketSize /\ sent + n <= urb.actual /\ (n = PacketSize \/ sent + n = urb.actual)
    BY <1>1 DEF Lesser
  <1>3. /\ txFifo' = [from |-> sent, length |-> n, answers |-> urb.answers]
        /\ sent' = sent + n
        /\ csr0' = csr0 \cup {"TXPKTRDY"} \cup IF sent' >= urb.actual THEN {"DATAEND"} ELSE {}
    BY DEF TxLoad, LoadPacket, SetCsr0
  <1> HIDE DEF n
  <1> QED
    BY <1>2, <1>3

\* MUSB_INTRTX is set or clear.
LEMMA IntrTxType == intrtx \in BOOLEAN /\ [Next]_vars => intrtx' \in BOOLEAN
  BY Zenon
  DEF Next, udc_irq, ReadIntrUsb, musb_peri_ep0, NoRequest, StrayData, ZeroDataRequest,
      TxDataRequest, RxDataRequest, ReadsRequest, Last, TxPending, TxLastPacket, TxLoad, LoadPacket,
      TxSent, musb_peri_ep0_rx, UsbEvents, ReadIntrTx, musb_peri_ep0_set_address, HostAsks, Setup,
      HostStep, HostGoesOn, TakeData, GiveData, Status, Stall, FrameStep, StartOfFrame, ResetStep,
      BusReset, vars, busVars, drvVars

\* What the two handlers of a request make of it: it is refused, or answered, or carried out.
Untouched == UNCHANGED <<faddr, intrusb, intrtx, txFifo, host, caller, seen>>

Taken == pc = "idle" /\ "RXPKTRDY" \in csr0 /\ rxFifo \in Requests /\ rxFifo' = Nothing /\ Untouched

Gotten(req, actual) ==
    /\ req.in /\ req.name \in Gets
    /\ \/ req.name = "GET_DESCRIPTOR" /\ actual <= req.length
       \/ req.name = "GET_STATUS" /\ actual = 2
       \/ req.name \in {"GET_CONFIGURATION", "GET_INTERFACE"} /\ actual = 1

CarriedOut(req) ==
    \/ /\ req.name = "SET_ADDRESS" /\ device.state = "DEFAULT"
       /\ device' = [device EXCEPT !.address = req.value]
    \/ /\ req.name = "SET_CONFIGURATION"
       /\ device' = [device EXCEPT !.configuration = req.value]
    \/ req.name \notin {"SET_ADDRESS", "SET_CONFIGURATION"} /\ device' = device

LEMMA ZeroDataMakes ==
    ASSUME TypeOK, ZeroDataRequest
    PROVE  /\ Taken /\ rxFifo.length = 0 /\ UNCHANGED <<ep0_state, sent>>
           /\ device' \in Device
           /\ \E k \in Nat :
                 /\ urb' = [req |-> rxFifo, actual |-> k, answers |-> urb.answers]
                 /\ \/ /\ k \in {0, urb.actual} /\ device' = device
                       /\ csr0' = (csr0 \ {"RXPKTRDY"}) \cup {"SENDSTALL"} /\ pc' = "events"
                    \/ /\ csr0' = (csr0 \ {"RXPKTRDY"}) \cup {"DATAEND"} /\ pc' = "last"
                       /\ \/ device' = device /\ Gotten(rxFifo, k)
                          \/ k = urb.actual /\ ~rxFifo.in /\ CarriedOut(rxFifo)
  <1>1. Taken /\ rxFifo.length = 0 /\ UNCHANGED <<ep0_state, sent>>
    BY DEF ZeroDataRequest, ReadsRequest, Taken, Untouched
  <1>2. PICK r : /\ r = ep0_recv_setup(rxFifo)
                 /\ urb' = [urb EXCEPT !.req = rxFifo, !.actual = r.actual]
                 /\ device' = r.device
                 /\ csr0' = (csr0 \ {"RXPKTRDY"}) \cup IF r.err THEN {"SENDSTALL"} ELSE {"DATAEND"}
                 /\ pc' = IF r.err THEN "events" ELSE "last"
    BY DEF ZeroDataRequest
  <1>3. rxFifo \in Requests /\ device \in Device /\ urb.actual \in Nat
    BY <1>1 DEF Taken, TypeOK, Device
  <1>4. urb' = [req |-> rxFifo, actual |-> r.actual, answers |-> urb.answers]
    BY <1>2 DEF TypeOK
  <1>5. r.actual \in Nat /\ r.device \in Device
    BY <1>2, <1>3, RecvSetup
  <1>6. \/ r.err /\ r.device = device /\ r.actual \in {0, urb.actual}
        \/ ~r.err /\ device' = device /\ Gotten(rxFifo, r.actual)
        \/ ~r.err /\ r.actual = urb.actual /\ ~rxFifo.in /\ CarriedOut(rxFifo)
    BY <1>2, <1>3, RecvSetup DEF Gotten, CarriedOut
  <1> QED
    BY <1>1, <1>2, <1>4, <1>5, <1>6

LEMMA TxDataMakes ==
    ASSUME TypeOK, TxDataRequest
    PROVE  /\ Taken /\ rxFifo.length > 0 /\ rxFifo.in /\ device' = device
           /\ \E k \in Nat :
                 \/ /\ k \in {0, urb.actual} /\ pc' = "events" /\ UNCHANGED <<ep0_state, sent>>
                    /\ urb' = [req |-> rxFifo, actual |-> k, answers |-> urb.answers]
                    /\ csr0' = csr0 \cup {"SENDSTALL"}
                 \/ /\ Gotten(rxFifo, k) /\ pc' = "tx" /\ ep0_state' = "TX" /\ sent' = 0
                    /\ urb' = [req |-> rxFifo, actual |-> k, answers |-> rxFifo]
                    /\ csr0' = csr0 \ {"RXPKTRDY"}
  <1>1. Taken /\ rxFifo.length > 0 /\ rxFifo.in /\ device' = device
    BY DEF TxDataRequest, ReadsRequest, Taken, Untouched
  <1>2. PICK r : /\ r = ep0_recv_setup(rxFifo)
                 /\ urb' = [req |-> rxFifo, actual |-> r.actual,
                            answers |-> IF r.err THEN urb.answers ELSE rxFifo]
                 /\ \/ /\ r.err /\ csr0' = csr0 \cup {"SENDSTALL"} /\ pc' = "events"
                       /\ UNCHANGED <<ep0_state, sent>>
                    \/ /\ ~r.err
                       /\ csr0' = csr0 \ {"RXPKTRDY"}
                       /\ sent' = 0 /\ ep0_state' = "TX" /\ pc' = "tx"
    BY DEF TxDataRequest, SetCsr0
  <1>3. rxFifo \in Requests /\ device \in Device /\ urb.actual \in Nat
    BY <1>1 DEF Taken, TypeOK, Device
  <1>5. r.actual \in Nat
    BY <1>2, <1>3, RecvSetup
  <1>6. \/ r.err /\ r.actual \in {0, urb.actual}
        \/ ~r.err /\ Gotten(rxFifo, r.actual)
    BY <1>1, <1>2, <1>3, RecvSetup DEF Gotten
  <1> QED
    BY <1>1, <1>2, <1>5, <1>6

LEMMA TypeStep == TypeInv /\ [Next]_vars => TypeInv'
  <1> SUFFICES ASSUME TypeOK, HasRequest, [Next]_vars
               PROVE  TypeInv'
    BY DEF TypeInv
  <1>0. PacketSize \in Nat \ {0}
    BY BusAssumption
  <1> USE <1>0 DEF TypeOK, BusTypeOK, Csr0Bits, TypeInv, HasRequest
  <1>1. CASE ReadIntrUsb
    BY <1>1 DEF ReadIntrUsb
  <1>2. CASE musb_peri_ep0
    BY <1>2 DEF musb_peri_ep0, Serve
  <1>3. CASE NoRequest
    BY <1>3 DEF NoRequest, busVars
  <1>4. CASE StrayData
    BY <1>4 DEF StrayData, SetCsr0
  <1>5. CASE ZeroDataRequest
    <2>1. rxFifo \in Requests /\ rxFifo' = Nothing /\ Untouched /\ UNCHANGED <<ep0_state, sent>>
      BY <1>5, ZeroDataMakes DEF Taken
    <2>2. PICK k \in Nat : urb' = [req |-> rxFifo, actual |-> k, answers |-> urb.answers]
      BY <1>5, ZeroDataMakes
    <2>3. device' \in Device
      BY <1>5, ZeroDataMakes
    <2>4. csr0' \subseteq csr0 \cup {"SENDSTALL", "DATAEND"} /\ pc' \in {"events", "last"}
      BY <1>5, ZeroDataMakes
    <2> QED
      BY <2>1, <2>2, <2>3, <2>4 DEF Untouched, Device
  <1>6. CASE TxDataRequest
    <2>1. rxFifo \in Requests /\ rxFifo' = Nothing /\ Untouched /\ UNCHANGED device
      BY <1>6, TxDataMakes DEF Taken
    <2>2. PICK k \in Nat : \E a \in {urb.answers, rxFifo} :
             urb' = [req |-> rxFifo, actual |-> k, answers |-> a]
      BY <1>6, TxDataMakes
    <2>3. urb' \in [req : Requests \cup {Nothing}, actual : Nat, answers : Requests \cup {Nothing}]
      BY <2>1, <2>2
    <2>4. /\ csr0' \subseteq csr0 \cup {"SENDSTALL"} /\ pc' \in {"events", "tx"}
          /\ ep0_state' \in {ep0_state, "TX"} /\ sent' \in {sent, 0}
      BY <1>6, TxDataMakes
    <2> QED
      BY <2>1, <2>3, <2>4 DEF Untouched
  <1>7. CASE RxDataRequest
    <2>1. urb' = [req |-> rxFifo, actual |-> 0, answers |-> urb.answers]
      BY <1>7 DEF RxDataRequest
    <2> QED
      BY <1>7, <2>1 DEF RxDataRequest, ReadsRequest
  <1>8. CASE Last
    <2>1. device' \in Device
      BY <1>8, LastMakes DEF Device
    <2>2. /\ ep0_state' \in {"IDLE", "SET_ADDRESS"} /\ pc' = "events"
          /\ UNCHANGED <<busVars, caller, seen, urb, sent>>
      BY <1>8 DEF Last
    <2> QED
      BY <2>1, <2>2 DEF busVars, Device
  <1>9. CASE TxPending \/ TxLastPacket \/ TxSent
    <2>1. ep0_state' \in {ep0_state, "IDLE"} /\ pc' \in {"events", "poll"}
      BY <1>9 DEF TxPending, TxLastPacket, TxSent, TxReturns
    <2>2. UNCHANGED <<busVars, caller, seen, urb, sent, device>>
      BY <1>9 DEF TxPending, TxLastPacket, TxSent
    <2> QED
      BY <2>1, <2>2 DEF busVars
  <1>10. CASE TxLoad
    <2>1. /\ UNCHANGED <<faddr, intrusb, intrtx, rxFifo, host, caller, seen, ep0_state, urb, device>>
          /\ pc' = "sending"
      BY <1>10 DEF TxLoad, LoadPacket
    <2>2. PICK n \in 1..PacketSize :
             /\ txFifo' = [from |-> sent, length |-> n, answers |-> urb.answers]
             /\ sent' = sent + n
             /\ csr0' \subseteq csr0 \cup {"TXPKTRDY", "DATAEND"}
      BY <1>10, LoadIs
    <2> QED
      BY <2>1, <2>2
  <1>11. CASE musb_peri_ep0_rx
    BY <1>11, IntrTxType DEF musb_peri_ep0_rx
  <1>12. CASE UsbEvents
    <2>1. device' \in Device
      BY <1>12, EventsMake DEF Device
    <2> QED
      BY <1>12, <2>1 DEF UsbEvents, Device
  <1>13. CASE ReadIntrTx
    BY <1>13, IntrTxType DEF ReadIntrTx
  <1>14. CASE musb_peri_ep0_set_address
    BY <1>14 DEF musb_peri_ep0_set_address
  <1>15. CASE HostAsks
    <2>1. PICK req \in Requests : Setup(req)
      BY <1>15 DEF HostAsks
    <2>2. host' \in Host /\ host'.req = req
      BY <2>1, SetupMakes DEF Host
    <2>3. txFifo' \in Packet /\ rxFifo' = req /\ UNCHANGED <<faddr, intrusb, drvVars>>
      BY <1>15, <2>1, ResetTypes DEF HostAsks, Setup, NoPacketIs
    <2>4. csr0' \subseteq csr0 \cup {"RXPKTRDY", "SETUPEND"}
      BY <2>1 DEF Setup
    <2> QED
      BY <2>2, <2>3, <2>4, IntrTxType DEF Host, Packet, drvVars
  <1>16. CASE HostStep
    <2>1. host' \in Host /\ (host'.phase # "none" => host.phase # "none" /\ host'.req = host.req)
      <3>1. CASE TakeData
        <4>1. host.got + txFifo.length \in Nat
          OBVIOUS
        <4>2. host.phase # "none"
          BY <3>1 DEF TakeData, Served
        <4> QED
          BY <3>1, <4>1, <4>2, TakeDataMakes DEF Host
      <3>2. CASE GiveData
        BY <3>2, GiveDataMakes DEF Host, GiveData, Served
      <3>3. CASE Status
        <4>1. host.req \in Requests
          BY <3>3 DEF Status, Served
        <4>2. host.req.value \in Nat
          BY <4>1, RequestIs
        <4> QED
          BY <3>3, <4>2, StatusMakes DEF Host
      <3>4. CASE Stall
        BY <3>4, StallMakes DEF Host
      <3> QED
        BY <1>16, <3>1, <3>2, <3>3, <3>4 DEF HostStep, HostGoesOn
    <2>2. txFifo' \in Packet /\ rxFifo' \in {rxFifo, OutData} /\ UNCHANGED <<faddr, intrusb, drvVars>>
      BY <1>16, ResetTypes
      DEF HostStep, HostGoesOn, TakeData, GiveData, Status, Stall, NoPacketIs, Packet
    <2>3. csr0' \subseteq csr0 \cup {"RXPKTRDY", "SENTSTALL"}
      BY <1>16 DEF HostStep, HostGoesOn, TakeData, GiveData, Status, Stall
    <2> QED
      BY <2>1, <2>2, <2>3, IntrTxType DEF Host, Packet, drvVars
  <1>17. CASE FrameStep
    BY <1>17 DEF FrameStep, StartOfFrame, drvVars
  <1>18. CASE ResetStep
    <2>1. host' \in Host /\ txFifo' \in Packet /\ host'.phase = "none"
      BY <1>18, ResetTypes DEF ResetStep, BusReset, NoPacketIs, HostAfterReset
    <2> QED
      BY <1>18, <2>1 DEF ResetStep, BusReset, Host, Packet, drvVars
  <1>19. CASE UNCHANGED vars
    BY <1>19 DEF vars, busVars, drvVars
  <1> QED
    BY <1>1, <1>2, <1>3, <1>4, <1>5, <1>6, <1>7, <1>8, <1>9, <1>10, <1>11, <1>12, <1>13, <1>14,
       <1>15, <1>16, <1>17, <1>18, <1>19
    DEF Next, udc_irq
-----------------------------------------------------------------------------
\* The steps of the driver that leave to the host what it sees of its request.

Internal ==
    \/ ReadIntrUsb \/ musb_peri_ep0 \/ NoRequest \/ Last \/ TxPending \/ TxLastPacket \/ TxSent
    \/ musb_peri_ep0_rx \/ UsbEvents \/ ReadIntrTx \/ musb_peri_ep0_set_address

Keeps ==
    /\ UNCHANGED <<rxFifo, host>>
    /\ "RXPKTRDY" \in csr0' <=> "RXPKTRDY" \in csr0
    /\ "SENDSTALL" \in csr0' <=> "SENDSTALL" \in csr0
    /\ "TXPKTRDY" \in csr0' <=> "TXPKTRDY" \in csr0
    /\ "DATAEND" \in csr0' <=> "DATAEND" \in csr0

LEMMA InternalKeeps == Internal => Keeps
  BY DEF Internal, Keeps, ReadIntrUsb, musb_peri_ep0, NoRequest, Last, TxPending, TxLastPacket,
         TxSent, musb_peri_ep0_rx, UsbEvents, ReadIntrTx, musb_peri_ep0_set_address, busVars

LEMMA StepCases ==
    [Next]_vars <=> \/ Internal \/ StrayData \/ ZeroDataRequest \/ TxDataRequest \/ RxDataRequest
                    \/ TxLoad \/ HostAsks \/ HostStep \/ FrameStep \/ ResetStep \/ UNCHANGED vars
  BY DEF Next, udc_irq, Internal

LEMMA FramesAndStutters ==
    ASSUME FrameStep \/ UNCHANGED vars
    PROVE  UNCHANGED <<faddr, csr0, rxFifo, txFifo, host, drvVars>> /\ (ResetUnseen' <=> ResetUnseen)
  BY DEF FrameStep, StartOfFrame, vars, busVars, drvVars, ResetUnseen

LEMMA InFifoStep == TypeInv /\ InFifo /\ [Next]_vars => InFifo'
  <1> SUFFICES ASSUME TypeInv, InFifo, [Next]_vars
               PROVE  InFifo'
    OBVIOUS
  <1>0. host \in Host /\ rxFifo \in Requests \cup {OutData, Nothing} /\ Nothing # OutData
    BY DEF TypeInv, TypeOK, BusTypeOK, Host, Nothing, OutData
  <1>1. Nothing \notin Requests /\ OutData \notin Requests
    BY RequestIs
  <1>2. CASE Internal
    BY <1>2, InternalKeeps DEF Keeps, InFifo, Writing
  <1>3. CASE StrayData
    BY <1>1, <1>3 DEF StrayData, SetCsr0, InFifo, Writing
  <1>4. CASE ZeroDataRequest \/ TxDataRequest \/ RxDataRequest
    <2>1. rxFifo' = Nothing /\ UNCHANGED host
      BY <1>4 DEF ZeroDataRequest, TxDataRequest, RxDataRequest, ReadsRequest
    <2> QED
      BY <1>0, <1>1, <2>1 DEF InFifo
  <1>5. CASE TxLoad
    BY <1>5 DEF TxLoad, LoadPacket, SetCsr0, InFifo, Writing
  <1>6. CASE HostAsks
    <2>1. PICK req \in Requests : Setup(req)
      BY <1>6 DEF HostAsks
    <2>2. host'.req = req /\ host'.got = 0 /\ host'.phase = IF req.length = 0 THEN "status" ELSE "data"
      BY <1>0, <2>1, SetupMakes
    <2>3. rxFifo' = req /\ "RXPKTRDY" \in csr0' /\ "SENDSTALL" \notin csr0'
      BY <2>1 DEF Setup
    <2>4. req.length \in Nat
      BY RequestIs
    <2> QED
      BY <1>1, <2>2, <2>3, <2>4 DEF InFifo
  <1>7. CASE HostStep
    <2>1. CASE TakeData
      <3>1. /\ host'.req = host.req /\ host'.phase \in {"data", "status"} /\ host.phase = "data"
            /\ rxFifo' = rxFifo
        BY <1>0, <2>1, TakeDataMakes DEF TakeData, Reading
      <3> QED
        BY <2>1, <3>1 DEF TakeData, Served, InFifo, Writing
    <2>2. CASE GiveData
      <3>1. host'.req = host.req /\ host'.phase = "status" /\ rxFifo' = OutData
        BY <1>0, <2>2, GiveDataMakes DEF GiveData
      <3> QED
        BY <1>1, <2>2, <3>1 DEF GiveData, InFifo, Writing
    <2>3. CASE Status \/ Stall
      <3>1. host'.phase = "none" /\ rxFifo' = rxFifo
        <4>1. CASE Status
          BY <1>0, <4>1, StatusMakes DEF Status
        <4>2. CASE Stall
          BY <1>0, <4>2, StallMakes DEF Stall
        <4> QED
          BY <2>3, <4>1, <4>2
      <3>2. rxFifo \notin Requests
        BY <2>3 DEF Status, Stall, Served, InFifo
      <3> QED
        BY <3>1, <3>2 DEF InFifo
    <2> QED
      BY <1>7, <2>1, <2>2, <2>3 DEF HostStep, HostGoesOn
  <1>8. CASE FrameStep \/ UNCHANGED vars
    BY <1>8, FramesAndStutters DEF InFifo, Writing
  <1>9. CASE ResetStep
    BY <1>0, <1>1, <1>9 DEF ResetStep, BusReset, HostAfterReset, InFifo
  <1> QED
    BY <1>2, <1>3, <1>4, <1>5, <1>6, <1>7, <1>8, <1>9, StepCases

LEMMA AfterResetStep == TypeInv /\ AfterReset /\ [Next]_vars => AfterReset'
  <1> SUFFICES ASSUME TypeInv, AfterReset, [Next]_vars
               PROVE  AfterReset'
    OBVIOUS
  <1>1. Nothing \notin Requests /\ Nothing # OutData /\ HostAfterReset.phase = "none"
    BY RequestIs DEF Nothing, OutData, HostAfterReset
  <1>2. CASE Internal
    <2>1. ResetUnseen' => ResetUnseen
      BY <1>2
      DEF Internal, ReadIntrUsb, musb_peri_ep0, NoRequest, Last, TxPending, TxLastPacket, TxSent,
          musb_peri_ep0_rx, UsbEvents, ReadIntrTx, musb_peri_ep0_set_address, busVars, ResetUnseen
    <2>2. "RESET" \in seen' => caller' = "ep0" /\ pc' \notin {"poll", "intr"}
      BY <1>2
      DEF Internal, ReadIntrUsb, musb_peri_ep0, Serve, NoRequest, Last, TxPending, TxLastPacket,
          TxSent, TxReturns, musb_peri_ep0_rx, UsbEvents, ReadIntrTx, musb_peri_ep0_set_address,
          AfterReset, TypeInv, TypeOK
    <2> QED
      BY <1>2, <2>1, <2>2, InternalKeeps DEF Keeps, AfterReset
  <1>3. CASE StrayData
    BY <1>1, <1>3 DEF StrayData, AfterReset, ResetUnseen
  <1>4. CASE ZeroDataRequest \/ TxDataRequest \/ RxDataRequest
    <2>1. /\ rxFifo \in Requests /\ UNCHANGED <<intrusb, seen>> 
      BY <1>4 DEF ZeroDataRequest, TxDataRequest, RxDataRequest, ReadsRequest
    <2> QED
      BY <1>1, <2>1 DEF AfterReset, ResetUnseen
  <1>5. CASE TxLoad
    BY <1>5 DEF TxLoad, LoadPacket, AfterReset, ResetUnseen
  <1>6. CASE HostAsks
    BY <1>6 DEF HostAsks, Setup, drvVars, AfterReset, ResetUnseen
  <1>7. CASE HostStep
    <2>1. host.phase # "none" /\ UNCHANGED <<intrusb, drvVars>>
      BY <1>7 DEF HostStep, HostGoesOn, TakeData, GiveData, Status, Stall, Served
    <2> QED
      BY <1>1, <2>1 DEF AfterReset, ResetUnseen, drvVars
  <1>8. CASE FrameStep \/ UNCHANGED vars
    BY <1>8, FramesAndStutters DEF AfterReset, drvVars
  <1>9. CASE ResetStep
    BY <1>9 DEF ResetStep, BusReset, AfterReset, drvVars
  <1> QED
    BY <1>2, <1>3, <1>4, <1>5, <1>6, <1>7, <1>8, <1>9, StepCases

-----------------------------------------------------------------------------
\* The end of a request.

LEMMA EndIsOfStep == TypeInv /\ BusInv /\ EndIsOf /\ ~SlowStatus /\ [Next]_vars => EndIsOf'
  <1> SUFFICES ASSUME TypeInv, InFifo, EndIsOf, ~SlowStatus, [Next]_vars
               PROVE  EndIsOf'
    BY DEF BusInv
  <1>0. host \in Host /\ rxFifo \in Requests \cup {OutData, Nothing} /\ Nothing # OutData
    BY DEF TypeInv, TypeOK, BusTypeOK, Host, Nothing, OutData
  <1>1. Nothing \notin Requests /\ OutData \notin Requests
    BY RequestIs
  <1>2. CASE Internal
    <2>1. Keeps
      BY <1>2, InternalKeeps
    <2>2. Acknowledged /\ host.req.length = 0 => pc' = "last"
      BY <1>2
      DEF Internal, EndIsOf, ReadIntrUsb, musb_peri_ep0, NoRequest, Last, TxPending, TxLastPacket, TxSent,
          musb_peri_ep0_rx, UsbEvents, ReadIntrTx, musb_peri_ep0_set_address
    <2> QED
      BY <2>1, <2>2 DEF Keeps, EndIsOf, AtEnd, Acknowledged
  <1>3. CASE StrayData
    <2>1. UNCHANGED host /\ rxFifo' = OutData /\ rxFifo = OutData /\ csr0' = csr0 \cup {"SENDSTALL"}
      BY <1>3 DEF StrayData, SetCsr0
    <2>2. ~AtEnd
      BY <1>0, <1>1, <2>1 DEF EndIsOf, InFifo, Writing
    <2> QED
      BY <2>1, <2>2 DEF EndIsOf, AtEnd, Acknowledged
  <1>4. CASE ZeroDataRequest \/ TxDataRequest \/ RxDataRequest
    <2>1. /\ rxFifo' = Nothing /\ UNCHANGED host /\ "RXPKTRDY" \in csr0 /\ "SENDSTALL" \notin csr0
          /\ host.req = rxFifo /\ rxFifo \in Requests /\ host.phase # "none" /\ ~AtEnd
      BY <1>4 DEF ZeroDataRequest, TxDataRequest, RxDataRequest, ReadsRequest, InFifo, EndIsOf
    <2>2. CASE ZeroDataRequest
      <3>1. \/ csr0' = (csr0 \ {"RXPKTRDY"}) \cup {"SENDSTALL"}
            \/ csr0' = (csr0 \ {"RXPKTRDY"}) \cup {"DATAEND"} /\ pc' = "last"
        BY <2>2, ZeroDataMakes DEF TypeInv
      <3>2. rxFifo.length = 0
        BY <2>2 DEF ZeroDataRequest
      <3> QED
        BY <1>1, <2>1, <3>1, <3>2 DEF EndIsOf, AtEnd, Acknowledged
    <2>3. CASE TxDataRequest
      <3>1. \/ csr0' = csr0 \cup {"SENDSTALL"}
            \/ csr0' = csr0 \ {"RXPKTRDY"} /\ rxFifo.name \in Gets
        BY <2>3, TxDataMakes DEF TypeInv, Gotten
      <3>2. rxFifo.length > 0 /\ rxFifo.length \in Nat
        BY <2>1, <2>3, RequestIs DEF TxDataRequest
      <3> QED
        BY <1>1, <2>1, <3>1, <3>2 DEF EndIsOf, AtEnd, Acknowledged
    <2>4. CASE RxDataRequest
      <3>1. csr0' = csr0 \ {"RXPKTRDY"} /\ rxFifo.length > 0 /\ rxFifo.length \in Nat /\ ~rxFifo.in
        BY <2>1, <2>4, RequestIs DEF RxDataRequest
      <3> QED
        BY <1>1, <2>1, <3>1 DEF EndIsOf, AtEnd, Acknowledged
    <2> QED
      BY <1>4, <2>2, <2>3, <2>4
  <1>5. CASE TxLoad
    <2>1. pc = "tx" /\ UNCHANGED <<host, rxFifo>> /\ "TXPKTRDY" \in csr0'
      BY <1>5 DEF TxLoad, LoadPacket, SetCsr0
    <2>2. /\ "RXPKTRDY" \in csr0' <=> "RXPKTRDY" \in csr0
          /\ "SENDSTALL" \in csr0' <=> "SENDSTALL" \in csr0
      BY <1>5 DEF TxLoad, LoadPacket, SetCsr0
    <2> QED
      BY <2>1, <2>2 DEF EndIsOf, AtEnd, Acknowledged
  <1>6. CASE HostAsks
    <2>1. "RXPKTRDY" \in csr0' /\ "DATAEND" \notin csr0'
      BY <1>6 DEF HostAsks, Setup
    <2> QED
      BY <2>1 DEF EndIsOf, AtEnd, Acknowledged
  <1>7. CASE HostStep
    <2>0. pc' = pc
      BY <1>7 DEF HostStep, drvVars
    <2>1. CASE TakeData
      <3>1. host'.req = host.req /\ host'.phase \in {"data", "status"} /\ host.req.in /\ rxFifo' = rxFifo
        BY <1>0, <2>1, TakeDataMakes DEF TakeData, Reading
      <3>2. csr0' = csr0 \ {"TXPKTRDY"} /\ Acknowledged /\ rxFifo \notin Requests
        BY <2>1 DEF TakeData, Served, Acknowledged, InFifo
      <3> QED
        BY <2>0, <3>1, <3>2 DEF EndIsOf, AtEnd, Acknowledged
    <2>2. CASE GiveData
      <3>1. Writing /\ host.phase # "none" /\ csr0' = csr0 \cup {"RXPKTRDY"}
        BY <2>2 DEF GiveData
      <3>2. ~AtEnd
        BY <1>0, <3>1, RequestIs DEF EndIsOf, Writing, TypeInv, HasRequest
      <3> QED
        BY <3>1, <3>2 DEF EndIsOf, AtEnd, Acknowledged
    <2>3. CASE Status
      <3>1. host'.phase = "none"
        BY <1>0, <2>3, StatusMakes
      <3>2. "DATAEND" \notin csr0'
        BY <2>3 DEF Status
      <3> QED
        BY <3>1, <3>2 DEF EndIsOf, AtEnd, Acknowledged
    <2>4. CASE Stall
      <3>1. host'.phase = "none"
        BY <1>0, <2>4, StallMakes
      <3>2. "SENDSTALL" \in csr0 /\ csr0' = (csr0 \ {"SENDSTALL"}) \cup {"SENTSTALL"}
        BY <2>4 DEF Stall
      <3> QED
        BY <3>1, <3>2 DEF EndIsOf, AtEnd, Acknowledged
    <2> QED
      BY <1>7, <2>1, <2>2, <2>3, <2>4 DEF HostStep, HostGoesOn
  <1>8. CASE FrameStep \/ UNCHANGED vars
    BY <1>8, FramesAndStutters DEF EndIsOf, AtEnd, Acknowledged, drvVars
  <1>9. CASE ResetStep
    BY <1>9 DEF ResetStep, BusReset, HostAfterReset, EndIsOf, AtEnd, Acknowledged
  <1> QED
    BY <1>2, <1>3, <1>4, <1>5, <1>6, <1>7, <1>8, <1>9, StepCases

LEMMA SetsAddressStep == SetsAddress /\ [Next]_vars => SetsAddress'
  <1> SUFFICES ASSUME SetsAddress, [Next]_vars
               PROVE  SetsAddress'
    OBVIOUS
  <1>1. CASE Internal
    BY <1>1
    DEF Internal, SetsAddress, ReadIntrUsb, musb_peri_ep0, Serve, NoRequest, Last, TxPending, TxLastPacket,
        TxSent, TxReturns, musb_peri_ep0_rx, UsbEvents, ReadIntrTx, musb_peri_ep0_set_address
  <1>2. CASE StrayData \/ TxLoad
    BY <1>2 DEF StrayData, TxLoad, LoadPacket, SetsAddress
  <1>3. CASE ZeroDataRequest \/ TxDataRequest \/ RxDataRequest
    <2>1. pc = "idle" /\ ep0_state' \in {ep0_state, "TX", "RX"}
      BY <1>3 DEF ZeroDataRequest, TxDataRequest, RxDataRequest, ReadsRequest
    <2> QED
      BY <2>1 DEF SetsAddress
  <1>4. CASE HostAsks \/ HostStep \/ FrameStep \/ ResetStep \/ UNCHANGED vars
    BY <1>4 DEF HostAsks, HostStep, FrameStep, ResetStep, SetsAddress, vars, drvVars
  <1> QED
    BY <1>1, <1>2, <1>3, <1>4, StepCases

-----------------------------------------------------------------------------
\* The address and the state of the device.

\* A status stage carries out what the host asked.
LEMMA StatusTells ==
    ASSUME TypeInv, Status
    PROVE  /\ host'.addr = IF host.req.name = "SET_ADDRESS" THEN host.req.value ELSE host.addr
           /\ host'.state = IF host.req.name = "SET_ADDRESS" THEN "ADDRESSED"
                            ELSE IF host.req.name = "SET_CONFIGURATION" THEN "CONFIGURED" ELSE host.state
           /\ host'.config = IF host.req.name = "SET_CONFIGURATION" THEN host.req.value ELSE host.config
           /\ UNCHANGED faddr /\ "DATAEND" \notin csr0' /\ Acknowledged /\ AtEnd
  <1>1. host \in Host
    BY DEF TypeInv, TypeOK, BusTypeOK, Host
  <1>2. UNCHANGED faddr /\ "DATAEND" \notin csr0' /\ Acknowledged /\ AtEnd
    BY DEF Status, Served, Acknowledged, AtEnd
  <1> QED
    BY <1>1, <1>2, StatusMakes

\* Nothing else that the host does, but a reset.
LEMMA OthersTellNothing ==
    ASSUME TypeInv, TakeData \/ GiveData \/ Stall \/ \E req \in Requests : Setup(req)
    PROVE  /\ host'.addr = host.addr /\ host'.state = host.state /\ host'.config = host.config
           /\ UNCHANGED faddr /\ ("DATAEND" \in csr0' => "DATAEND" \in csr0)
  <1>1. host \in Host
    BY DEF TypeInv, TypeOK, BusTypeOK, Host
  <1>2. CASE TakeData
    BY <1>1, <1>2, TakeDataMakes DEF TakeData
  <1>3. CASE GiveData
    BY <1>1, <1>3, GiveDataMakes DEF GiveData
  <1>4. CASE Stall
    BY <1>1, <1>4, StallMakes DEF Stall
  <1>5. CASE \E req \in Requests : Setup(req)
    <2>1. PICK req \in Requests : Setup(req)
      BY <1>5
    <2> QED
      BY <1>1, <2>1, SetupMakes DEF Setup
  <1> QED
    BY <1>2, <1>3, <1>4, <1>5

\* The host leaves a request without data as it is until its status stage.
LEMMA StatusStageWaits ==
    ASSUME TypeInv, InFifo, Acknowledged, host.req.length = 0
    PROVE  /\ ~TakeData /\ ~GiveData /\ ~Stall
           /\ \A req \in Requests : ~Setup(req)
  <1>1. ~Writing /\ ~Reading
    BY DEF Writing, Reading, InFifo
  <1> QED
    BY <1>1 DEF TakeData, GiveData, Stall, Setup, Acknowledged

LEMMA SettledStep == TypeInv /\ BusInv /\ AddressInv /\ ~SlowStatus /\ [Next]_vars => Settled'
  <1> SUFFICES ASSUME TypeInv, InFifo, AfterReset, EndIsOf, SetsAddress, Waits, Settled, ~SlowStatus,
                      [Next]_vars, pc' # "last", ~ResetUnseen'
               PROVE  IF ep0_state' = "SET_ADDRESS" THEN AddressAgrees' /\ host'.state = "ADDRESSED"
                                                    ELSE Agrees' /\ faddr' = host'.addr
    BY DEF BusInv, AddressInv, Settled
  <1> USE DEF Agrees, AddressAgrees, StateAgrees, ConfigurationAgrees
  <1>0. device \in Device
    BY DEF TypeInv, TypeOK, Device
  <1>1. CASE Last
    <2>1. UNCHANGED <<host, faddr>> /\ ~ResetUnseen /\ pc = "last" /\ "DATAEND" \notin csr0
      BY <1>1 DEF Last, busVars, ResetUnseen
    <2>2. ~(Acknowledged /\ host.req.length = 0)
      BY <2>1 DEF EndIsOf
    <2>3. /\ CASE urb.req.name = "SET_ADDRESS" -> AddressAgrees /\ host.state = "ADDRESSED"
               [] urb.req.name = "SET_CONFIGURATION" ->
                    AddressAgrees /\ ConfigurationAgrees /\ host.state = "CONFIGURED"
               [] OTHER -> Agrees
          /\ urb.req.name # "SET_ADDRESS" => faddr = host.addr
      BY <2>1, <2>2 DEF Waits
    <2>4. ep0_state' = IF urb.req.name = "SET_ADDRESS" THEN "SET_ADDRESS" ELSE "IDLE"
      BY <1>1 DEF Last
    <2>5. /\ device'.state = IF urb.req.name = "SET_CONFIGURATION" THEN "CONFIGURED" ELSE device.state
          /\ device'.address = device.address /\ device'.configuration = device.configuration
      BY <1>0, <1>1, LastMakes
    <2> QED
      BY <2>1, <2>3, <2>4, <2>5
  <1>2. CASE UsbEvents
    <2>1. UNCHANGED <<host, intrusb>> /\ seen' = seen \ {"RESET"} /\ pc = "events"
      BY <1>2 DEF UsbEvents
    <2>2. CASE "RESET" \in seen
      <3>1. host = HostAfterReset /\ faddr' = 0 /\ ep0_state' = "IDLE"
        BY <1>2, <2>2 DEF UsbEvents, AfterReset, ResetUnseen
      <3>2. device'.state = "DEFAULT" /\ device'.address = 0
        BY <1>0, <1>2, <2>2, EventsMake
      <3> QED
        BY <2>1, <3>1, <3>2 DEF HostAfterReset
    <2>3. CASE "RESET" \notin seen
      BY <1>2, <2>1, <2>3 DEF UsbEvents, Settled, ResetUnseen
    <2> QED
      BY <2>2, <2>3
  <1>3. CASE musb_peri_ep0_set_address
    <2>1. UNCHANGED <<host, intrusb, seen>> /\ pc = "intr" /\ ep0_state = "SET_ADDRESS"
      BY <1>3 DEF musb_peri_ep0_set_address
    <2>2. AddressAgrees /\ host.state = "ADDRESSED"
      BY <2>1 DEF Settled, ResetUnseen
    <2>3. \/ /\ faddr' = device.address /\ ep0_state' = "IDLE"
             /\ device' = [device EXCEPT !.state = "ADDRESSED"]
          \/ UNCHANGED <<faddr, ep0_state, device>>
      BY <1>3 DEF musb_peri_ep0_set_address
    <2> QED
      BY <1>0, <2>1, <2>2, <2>3 DEF Device
  <1>4. CASE \/ ReadIntrUsb \/ musb_peri_ep0 \/ NoRequest \/ TxPending \/ TxLastPacket \/ TxSent
             \/ musb_peri_ep0_rx \/ ReadIntrTx \/ StrayData \/ TxLoad
    <2>1. UNCHANGED <<host, device, faddr>> /\ pc # "last" 
      BY <1>4
      DEF ReadIntrUsb, musb_peri_ep0, NoRequest, TxPending, TxLastPacket, TxSent, busVars,
          musb_peri_ep0_rx, ReadIntrTx, StrayData, TxLoad, LoadPacket
    <2>2. ResetUnseen => ResetUnseen'
      BY <1>4
      DEF ReadIntrUsb, musb_peri_ep0, NoRequest, TxPending, TxLastPacket, TxSent, busVars,
          musb_peri_ep0_rx, ReadIntrTx, StrayData, TxLoad, LoadPacket, ResetUnseen, AfterReset
    <2>3. ep0_state' = "SET_ADDRESS" <=> ep0_state = "SET_ADDRESS"
      BY <1>4
      DEF ReadIntrUsb, musb_peri_ep0, NoRequest, TxPending, TxLastPacket, TxSent, SetsAddress,
          musb_peri_ep0_rx, ReadIntrTx, StrayData, TxLoad, LoadPacket
    <2> QED
      BY <2>1, <2>2, <2>3 DEF Settled
  <1>5. CASE ZeroDataRequest \/ TxDataRequest \/ RxDataRequest
    <2>1. /\ UNCHANGED <<host, faddr, intrusb, seen>> /\ pc = "idle" /\ ep0_state # "SET_ADDRESS"
          /\ ep0_state' \in {ep0_state, "TX", "RX"}
      BY <1>5 DEF ZeroDataRequest, TxDataRequest, RxDataRequest, ReadsRequest, SetsAddress
    <2>2. device' = device
      <3>1. CASE ZeroDataRequest
        BY <3>1, ZeroDataMakes DEF TypeInv
      <3>2. CASE TxDataRequest \/ RxDataRequest
        BY <3>2 DEF TxDataRequest, RxDataRequest
      <3> QED
        BY <1>5, <3>1, <3>2
    <2> QED
      BY <2>1, <2>2 DEF Settled, ResetUnseen
  <1>6. CASE HostAsks
    <2>1. \E req \in Requests : Setup(req)
      BY <1>6 DEF HostAsks
    <2>2. UNCHANGED <<intrusb, drvVars>>
      BY <1>6 DEF HostAsks, Setup
    <2> QED
      BY <2>1, <2>2, OthersTellNothing DEF Settled, ResetUnseen, drvVars
  <1>7. CASE HostStep
    <2>1. UNCHANGED <<intrusb, drvVars>>
      BY <1>7 DEF HostStep, HostGoesOn, TakeData, GiveData, Status, Stall
    <2>2. CASE TakeData \/ GiveData \/ Stall
      BY <2>1, <2>2, OthersTellNothing DEF Settled, ResetUnseen, drvVars
    <2>3. CASE Status
      <3>1. host.req.name \notin {"SET_ADDRESS", "SET_CONFIGURATION"}
        <4>1. host.req.length \in Nat
          BY <2>3, StatusTells, RequestIs DEF TypeInv, HasRequest, Acknowledged
        <4>2. Acknowledged /\ AtEnd /\ pc # "last"
          BY <2>1, <2>3, StatusTells DEF drvVars
        <4> QED
          BY <4>1, <4>2 DEF EndIsOf, Gets
      <3> QED
        BY <2>1, <2>3, <3>1, StatusTells DEF Settled, ResetUnseen, drvVars
    <2> QED
      BY <1>7, <2>2, <2>3 DEF HostStep, HostGoesOn
  <1>8. CASE FrameStep \/ UNCHANGED vars
    BY <1>8, FramesAndStutters DEF Settled, drvVars
  <1>9. CASE ResetStep
    BY <1>9 DEF ResetStep, BusReset, ResetUnseen
  <1> QED
    BY <1>1, <1>2, <1>3, <1>4, <1>5, <1>6, <1>7, <1>8, <1>9, StepCases DEF Internal

LEMMA WaitsStep == TypeInv /\ BusInv /\ AddressInv /\ ~SlowStatus /\ [Next]_vars => Waits'
  <1> SUFFICES ASSUME TypeInv, InFifo, AfterReset, EndIsOf, SetsAddress, Waits, Settled,
                      [Next]_vars, pc' = "last", ~ResetUnseen'
               PROVE  Waits'
    BY DEF BusInv, AddressInv, Waits
  <1> USE DEF Agrees, AddressAgrees, StateAgrees, ConfigurationAgrees
  <1>0. device \in Device
    BY DEF TypeInv, TypeOK, Device
  <1>1. CASE Internal \/ StrayData \/ TxDataRequest \/ RxDataRequest \/ TxLoad
    <2>1. pc' # "last"
      BY <1>1
      DEF Internal, ReadIntrUsb, musb_peri_ep0, Serve, NoRequest, Last, TxPending, TxLastPacket,
          TxSent, TxReturns, musb_peri_ep0_rx, UsbEvents, ReadIntrTx, musb_peri_ep0_set_address,
          StrayData, TxDataRequest, RxDataRequest, TxLoad, LoadPacket, TypeInv, TypeOK
    <2> QED
      BY <2>1
  <1>2. CASE ZeroDataRequest
    <2>1. /\ UNCHANGED <<host, faddr, intrusb, seen, ep0_state>> /\ pc = "idle"
          /\ rxFifo \in Requests /\ rxFifo.length = 0
      BY <1>2 DEF ZeroDataRequest, ReadsRequest
    <2>2. /\ host.req = rxFifo /\ host.phase # "none" /\ "SENDSTALL" \notin csr0
          /\ rxFifo.value \in Nat
      BY <2>1, RequestIs DEF InFifo
    <2>3. Agrees /\ faddr = host.addr
      BY <2>1 DEF Settled, SetsAddress, ResetUnseen
    <2>4. urb'.req = rxFifo
      BY <1>2, ZeroDataMakes DEF TypeInv
    <2>5. csr0' = (csr0 \ {"RXPKTRDY"}) \cup {"DATAEND"}
      BY <1>2, ZeroDataMakes DEF TypeInv
    <2>6. (device' = device /\ rxFifo.name \in Gets) \/ CarriedOut(rxFifo)
      BY <1>2, ZeroDataMakes DEF TypeInv, Gotten
    <2>7. Acknowledged'
      BY <2>1, <2>2, <2>5 DEF Acknowledged
    <2>8. /\ urb'.req.name = "SET_ADDRESS" =>
                /\ device'.address = urb'.req.value /\ device'.state = device.state
                /\ device.state = "DEFAULT"
          /\ urb'.req.name = "SET_CONFIGURATION" =>
                /\ device'.configuration = urb'.req.value
                /\ device'.state = device.state /\ device'.address = device.address
          /\ urb'.req.name \notin {"SET_ADDRESS", "SET_CONFIGURATION"} => device' = device
      BY <1>0, <2>4, <2>6 DEF CarriedOut, Gets, Device
    <2> QED
      BY <2>1, <2>2, <2>3, <2>4, <2>7, <2>8 DEF Waits
  <1>3. CASE HostAsks
    <2>1. \E req \in Requests : Setup(req)
      BY <1>3 DEF HostAsks
    <2>2. UNCHANGED <<intrusb, drvVars>>
      BY <1>3 DEF HostAsks, Setup
    <2>3. ~(Acknowledged /\ host.req.length = 0)
      BY <2>1, StatusStageWaits
    <2> QED
      BY <2>1, <2>2, <2>3, OthersTellNothing DEF Waits, ResetUnseen, drvVars
  <1>4. CASE HostStep
    <2>1. UNCHANGED <<intrusb, drvVars>>
      BY <1>4 DEF HostStep, HostGoesOn, TakeData, GiveData, Status, Stall
    <2>2. CASE TakeData \/ GiveData \/ Stall
      <3>1. ~(Acknowledged /\ host.req.length = 0)
        BY <2>2, StatusStageWaits
      <3> QED
        BY <2>1, <2>2, <3>1, OthersTellNothing DEF Waits, ResetUnseen, drvVars
    <2>3. CASE Status
      <3>1. "DATAEND" \in csr0
        BY <2>3 DEF Status
      <3> QED
        BY <2>1, <2>3, <3>1, StatusTells DEF Waits, ResetUnseen, drvVars
    <2> QED
      BY <1>4, <2>2, <2>3 DEF HostStep, HostGoesOn
  <1>5. CASE FrameStep \/ UNCHANGED vars
    BY <1>5, FramesAndStutters DEF Waits, Acknowledged, drvVars
  <1>6. CASE ResetStep
    BY <1>6 DEF ResetStep, BusReset, ResetUnseen
  <1> QED
    BY <1>1, <1>2, <1>3, <1>4, <1>5, <1>6, StepCases

-----------------------------------------------------------------------------
\* The data of a request.

LEMMA DataStep == TypeInv /\ InFifo /\ DataInv /\ ~AbandonsIn /\ AsksEnough /\ [Next]_vars => DataInv'
  <1> SUFFICES ASSUME TypeInv, InFifo, LeftToSend, PacketIs, ~AbandonsIn, AsksEnough, [Next]_vars
               PROVE  LeftToSend' /\ PacketIs'
    BY DEF DataInv
  <1>0. /\ host \in Host /\ sent \in Nat /\ urb.actual \in Nat /\ host.got \in Nat
        /\ txFifo.length \in Nat /\ txFifo.from \in Nat
    BY BusAssumption DEF TypeInv, TypeOK, BusTypeOK, Host
  <1>1. CASE Internal
    <2>1. Keeps /\ UNCHANGED <<txFifo, urb, sent>>
      BY <1>1, InternalKeeps
      DEF Internal, ReadIntrUsb, musb_peri_ep0, NoRequest, Last, TxPending, TxLastPacket, TxSent,
          musb_peri_ep0_rx, UsbEvents, ReadIntrTx, musb_peri_ep0_set_address, busVars
    <2> QED
      BY <2>1 DEF Keeps, LeftToSend, PacketIs, Reading, Acknowledged
  <1>2. CASE StrayData
    <2>1. /\ UNCHANGED <<txFifo, host, urb, sent>> /\ csr0' = csr0 \cup {"SENDSTALL"}
          /\ "RXPKTRDY" \in csr0
      BY <1>2 DEF StrayData, SetCsr0
    <2> QED
      BY <2>1 DEF LeftToSend, PacketIs, Acknowledged
  <1>3. CASE ZeroDataRequest \/ TxDataRequest \/ RxDataRequest
    <2>1. /\ UNCHANGED <<txFifo, host>> /\ rxFifo \in Requests /\ "RXPKTRDY" \in csr0
      BY <1>3 DEF ZeroDataRequest, TxDataRequest, RxDataRequest, ReadsRequest
    <2>2. sent >= urb.actual /\ "TXPKTRDY" \notin csr0
      BY <1>0, <2>1 DEF LeftToSend, PacketIs, Acknowledged
    <2>3. CASE ZeroDataRequest
      <3>1. rxFifo.length = 0 /\ sent' = sent /\ "TXPKTRDY" \notin csr0'
        BY <2>2, <2>3, ZeroDataMakes DEF TypeInv
      <3>2. PICK k \in Nat : /\ urb'.actual = k
                             /\ k \in {0, urb.actual} \/ Gotten(rxFifo, k)
        BY <2>3, ZeroDataMakes DEF TypeInv
      <3>3. k \in {0, urb.actual}
        BY <2>1, <3>1, <3>2 DEF Gotten, AsksEnough
      <3> QED
        BY <1>0, <2>2, <3>1, <3>2, <3>3 DEF LeftToSend, PacketIs
    <2>4. CASE TxDataRequest
      <3>1. rxFifo.length > 0 /\ rxFifo.length \in Nat /\ rxFifo.in
        BY <2>1, <2>4, RequestIs DEF TxDataRequest
      <3>2. PICK k \in Nat :
               \/ /\ k \in {0, urb.actual} /\ sent' = sent /\ urb'.actual = k
                  /\ csr0' = csr0 \cup {"SENDSTALL"}
               \/ /\ Gotten(rxFifo, k) /\ sent' = 0 /\ urb'.actual = k /\ urb'.answers = rxFifo
                  /\ csr0' = csr0 \ {"RXPKTRDY"}
        BY <2>4, TxDataMakes DEF TypeInv
      <3>3. CASE csr0' = csr0 \cup {"SENDSTALL"} /\ k \in {0, urb.actual} /\ sent' = sent /\ urb'.actual = k
        BY <1>0, <2>2, <3>3 DEF LeftToSend, PacketIs
      <3>4. CASE /\ Gotten(rxFifo, k) /\ sent' = 0 /\ urb'.actual = k /\ urb'.answers = rxFifo
                 /\ csr0' = csr0 \ {"RXPKTRDY"}
        <4>1. k <= rxFifo.length
          BY <2>1, <3>4 DEF Gotten, AsksEnough
        <4>2. host.req = rxFifo /\ host.got = 0 /\ host.phase = "data" /\ "SENDSTALL" \notin csr0
          BY <2>1, <3>1 DEF InFifo
        <4> QED
          BY <2>1, <2>2, <3>1, <3>4, <4>1, <4>2 DEF LeftToSend, PacketIs, Reading, Acknowledged
      <3> QED
        BY <3>2, <3>3, <3>4
    <2>5. CASE RxDataRequest
      <3>1. urb'.actual = 0 /\ sent' = sent /\ "TXPKTRDY" \notin csr0'
        BY <2>2, <2>5 DEF RxDataRequest, TypeInv, TypeOK
      <3> QED
        BY <1>0, <3>1 DEF LeftToSend, PacketIs
    <2> QED
      BY <1>3, <2>3, <2>4, <2>5
  <1>4. CASE TxLoad
    <2>1. UNCHANGED <<host, urb>> /\ sent < urb.actual /\ "TXPKTRDY" \notin csr0
      BY <1>4 DEF TxLoad, LoadPacket
    <2>2. /\ Reading /\ Acknowledged /\ urb.answers = host.req /\ urb.actual <= host.req.length
          /\ sent = host.got
      BY <2>1 DEF LeftToSend
    <2>3. PICK n \in 1..PacketSize :
             /\ n = PacketSize \/ sent + n = urb.actual
             /\ txFifo' = [from |-> sent, length |-> n, answers |-> urb.answers]
             /\ sent' = sent + n
             /\ csr0' = csr0 \cup {"TXPKTRDY"} \cup IF sent + n >= urb.actual THEN {"DATAEND"} ELSE {}
      BY <1>4, LoadIs DEF TypeInv
    <2>4. Reading' /\ Acknowledged' /\ "TXPKTRDY" \in csr0'
      BY <2>1, <2>2, <2>3 DEF Reading, Acknowledged
    <2> QED
      BY <2>1, <2>2, <2>3, <2>4 DEF LeftToSend, PacketIs
  <1>5. CASE HostAsks
    <2>1. PICK req \in Requests : Setup(req)
      BY <1>5 DEF HostAsks
    <2>2. ~Reading /\ "TXPKTRDY" \notin csr0' /\ UNCHANGED <<urb, sent>>
      BY <1>5, <2>1 DEF HostAsks, Setup, drvVars, Reading, Writing
    <2> QED
      BY <2>2 DEF LeftToSend, PacketIs
  <1>6. CASE HostStep
    <2>0. UNCHANGED <<urb, sent>>
      BY <1>6 DEF HostStep, drvVars
    <2>1. CASE TakeData
      <3>1. "TXPKTRDY" \in csr0 /\ "TXPKTRDY" \notin csr0' /\ csr0' = csr0 \ {"TXPKTRDY"}
        BY <2>1 DEF TakeData
      <3>2. /\ Reading /\ Acknowledged
            /\ urb.answers = host.req /\ urb.actual <= host.req.length
            /\ txFifo.answers = host.req /\ txFifo.from = host.got
            /\ sent = txFifo.from + txFifo.length
            /\ txFifo.length = PacketSize \/ sent = urb.actual
        BY <3>1 DEF PacketIs
      <3>3. /\ host'.req = host.req /\ host'.got = host.got + txFifo.length
            /\ host'.phase = IF \/ host.got + txFifo.length >= host.req.length
                                \/ txFifo.length < PacketSize
                             THEN "status" ELSE "data"
        BY <1>0, <2>1, TakeDataMakes
      <3>4. host.req.length \in Nat /\ PacketSize \in Nat
        BY <3>2, RequestIs, BusAssumption DEF TypeInv, HasRequest, Acknowledged
      <3>5. ASSUME sent < urb.actual
            PROVE  host'.phase = "data"
        <4>1. txFifo.length = PacketSize /\ sent < host.req.length /\ sent = host.got + txFifo.length
          BY <1>0, <3>2, <3>4, <3>5
        <4>2. ~(host.got + txFifo.length >= host.req.length) /\ ~(txFifo.length < PacketSize)
          BY <1>0, <3>4, <4>1
        <4> QED
          BY <3>3, <4>2
      <3>6. sent = host'.got
        BY <1>0, <3>2, <3>3
      <3> QED
        BY <2>0, <3>1, <3>2, <3>3, <3>5, <3>6 DEF LeftToSend, PacketIs, Reading, Acknowledged
    <2>2. CASE GiveData
      <3>1. ~Reading /\ "TXPKTRDY" \in csr0' => "TXPKTRDY" \in csr0
        BY <2>2 DEF GiveData
      <3>2. ~Reading
        BY <2>2 DEF GiveData, Writing, Reading
      <3> QED
        BY <2>0, <3>1, <3>2 DEF LeftToSend, PacketIs
    <2>3. CASE Status
      <3>1. ~Reading /\ "TXPKTRDY" \notin csr0'
        BY <2>3 DEF Status, Reading
      <3> QED
        BY <2>0, <3>1 DEF LeftToSend, PacketIs
    <2>4. CASE Stall
      <3>1. ~Acknowledged /\ ("TXPKTRDY" \in csr0' => "TXPKTRDY" \in csr0)
        BY <2>4 DEF Stall, Acknowledged
      <3> QED
        BY <2>0, <3>1 DEF LeftToSend, PacketIs
    <2> QED
      BY <1>6, <2>1, <2>2, <2>3, <2>4 DEF HostStep, HostGoesOn
  <1>7. CASE FrameStep \/ UNCHANGED vars
    BY <1>7, FramesAndStutters DEF LeftToSend, PacketIs, Reading, Acknowledged, drvVars
  <1>8. CASE ResetStep
    <2>1. ~Reading /\ "TXPKTRDY" \notin csr0' /\ UNCHANGED <<urb, sent>>
      BY <1>8 DEF ResetStep, BusReset, drvVars
    <2> QED
      BY <2>1 DEF LeftToSend, PacketIs
  <1> QED
    BY <1>1, <1>2, <1>3, <1>4, <1>5, <1>6, <1>7, <1>8, StepCases

\* Only a packet taken adds to what the host has got for one request.
LEMMA PacketIsTheAnswer ==
    ASSUME TypeInv, InFifo, PacketIs, [Next]_vars, host'.got > host.got, host'.req = host.req
    PROVE  txFifo.answers = host.req /\ txFifo.from = host.got
  <1>1. host \in Host /\ host.got \in Nat
    BY DEF TypeInv, TypeOK, BusTypeOK, Host
  <1>2. ~(host'.got = 0) /\ ~(host'.got = host.got)
    BY <1>1
  <1>3. CASE TakeData
    BY <1>3 DEF TakeData, PacketIs
  <1>4. CASE GiveData
    BY <1>1, <1>2, <1>4, GiveDataMakes
  <1>5. CASE Status
    BY <1>1, <1>2, <1>5, StatusMakes
  <1>6. CASE Stall
    BY <1>1, <1>2, <1>6, StallMakes
  <1>7. CASE HostAsks
    <2>1. PICK req \in Requests : Setup(req)
      BY <1>7 DEF HostAsks
    <2> QED
      BY <1>1, <1>2, <2>1, SetupMakes
  <1>8. CASE ResetStep
    BY <1>2, <1>8 DEF ResetStep, BusReset, HostAfterReset
  <1>9. CASE \/ Internal \/ StrayData \/ ZeroDataRequest \/ TxDataRequest \/ RxDataRequest \/ TxLoad
             \/ FrameStep \/ UNCHANGED vars
    <2>1. UNCHANGED host
      BY <1>9, InternalKeeps, FramesAndStutters
      DEF Keeps, StrayData, ZeroDataRequest, TxDataRequest, RxDataRequest, ReadsRequest,
          TxLoad, LoadPacket
    <2> QED
      BY <1>2, <2>1
  <1> QED
    BY <1>3, <1>4, <1>5, <1>6, <1>7, <1>8, <1>9, StepCases DEF HostStep, HostGoesOn

-----------------------------------------------------------------------------
LEMMA OthersInitially == Init => BusInv /\ AddressInv /\ DataInv
  <1> SUFFICES ASSUME Init
               PROVE  BusInv /\ AddressInv /\ DataInv
    OBVIOUS
  <1>1. /\ rxFifo = Nothing /\ csr0 = {} /\ host = HostAfterReset /\ intrusb = {} /\ faddr = 0
        /\ pc = "poll" /\ seen = {} /\ ep0_state = "IDLE" /\ sent = 0 /\ urb.actual = 0
        /\ device.state = "DEFAULT" /\ device.address = 0
    BY DEF Init, BusInit
  <1>2. Nothing \notin Requests /\ Nothing # OutData
    BY RequestIs DEF Nothing, OutData
  <1>3. host.phase = "none" /\ host.addr = 0 /\ host.state = "DEFAULT"
    BY <1>1 DEF HostAfterReset
  <1>4. BusInv
    BY <1>1, <1>2, <1>3 DEF BusInv, InFifo, AfterReset
  <1>5. AddressInv
    BY <1>1, <1>3 DEF AddressInv, EndIsOf, AtEnd, Acknowledged, SetsAddress, Waits, Settled, Agrees,
                      AddressAgrees, StateAgrees, ConfigurationAgrees
  <1>6. DataInv
    BY <1>1 DEF DataInv, LeftToSend, PacketIs
  <1> QED
    BY <1>4, <1>5, <1>6

\* The FIFO holds the host's request until it is acknowledged, whatever the driver's polls and
\* the host's retries do, and a reset not yet seen leaves nothing under way.
THEOREM BusInvCorrect == Spec => [](TypeInv /\ BusInv)
  <1>1. TypeInv /\ BusInv /\ [Next]_vars => (TypeInv /\ BusInv)'
    BY TypeStep, InFifoStep, AfterResetStep DEF BusInv
  <1> QED
    BY <1>1, TypeInitially, OthersInitially, PTL DEF Spec

\* Every variable keeps its type (the state of udc_irq() and of the endpoint).
THEOREM TypeCorrect == Spec => []TypeOK
  <1>1. TypeInv => TypeOK
    BY DEF TypeInv
  <1> QED
    BY <1>1, BusInvCorrect, PTL

\* Where the driver waits for a status stage, the driver and the host agree.
THEOREM AddressInvCorrect ==
    ASSUME ~SlowStatus
    PROVE  Spec => []AddressInv
  <1>1. TypeInv /\ BusInv /\ AddressInv /\ [Next]_vars => AddressInv'
    BY EndIsOfStep, SetsAddressStep, WaitsStep, SettledStep DEF AddressInv
  <1> QED
    BY <1>1, OthersInitially, BusInvCorrect, PTL DEF Spec

\* The device answers to the address the host calls it by, whatever the host asks and
\* whenever it gives up, sends frames or resets the bus.
THEOREM HeardAtAddressCorrect ==
    ASSUME ~SlowStatus
    PROVE  Spec => []HeardAtAddress
  <1>1. AddressInv => HeardAtAddress
    BY DEF AddressInv, Waits, Settled, HeardAtAddress, Agrees, AddressAgrees
  <1> QED
    BY <1>1, AddressInvCorrect, PTL

\* Between requests the state and the configuration of the device are what the host was told.
THEOREM DeviceStateAgreesCorrect ==
    ASSUME ~SlowStatus
    PROVE  Spec => []DeviceStateAgrees
  <1>1. AddressInv => DeviceStateAgrees
    BY DEF AddressInv, Settled, DeviceStateAgrees, Agrees, AddressAgrees, StateAgrees,
           ConfigurationAgrees
  <1> QED
    BY <1>1, AddressInvCorrect, PTL

\* What is sent answers the request under way, for a host that reads to the end and asks for
\* as much as the standard requests answer.
THEOREM DataInvCorrect ==
    ASSUME ~AbandonsIn, AsksEnough
    PROVE  Spec => []DataInv
  <1>1. TypeInv /\ BusInv /\ DataInv /\ [Next]_vars => DataInv'
    BY DataStep DEF BusInv
  <1> QED
    BY <1>1, OthersInitially, BusInvCorrect, PTL DEF Spec

\* What the host reads is the answer to its request, piece after piece.
THEOREM DataIsTheAnswerCorrect ==
    ASSUME ~AbandonsIn, AsksEnough
    PROVE  Spec => DataIsTheAnswer
  <1>1. TypeInv /\ BusInv /\ DataInv /\ [Next]_vars =>
            [host'.got > host.got /\ host'.req = host.req
                => txFifo.answers = host.req /\ txFifo.from = host.got]_vars
    BY PacketIsTheAnswer DEF BusInv, DataInv
  <1> QED
    BY <1>1, BusInvCorrect, DataInvCorrect, PTL DEF Spec, DataIsTheAnswer
=============================================================================
