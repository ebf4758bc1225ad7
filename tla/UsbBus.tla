------------------------------- MODULE UsbBus -------------------------------
(***************************************************************************)
(* What is at the other side of the USB driver's registers: endpoint 0 of  *)
(* the MUSB controller in peripheral mode, and the host that sends control *)
(* requests to it, as src/src/drivers/usb/musb_udc.c relies on them.       *)
(* Nothing of this is in the repository.                                   *)
(*                                                                         *)
(* The host has one request under way at a time: SETUP, its data packets,  *)
(* the status stage.  A request ends with the status stage, with a STALL,  *)
(* when the host gives up and sends another one, or by a bus reset.        *)
(***************************************************************************)
EXTENDS Integers

CONSTANTS
    Requests,   \* what the host may ask
    PacketSize, \* bytes of a full packet of endpoint 0
    AbandonsIn  \* the host may give up or reset the bus while it reads data

\* A request: is it a standard one, what it asks, which way its data goes and how much.
Request(std, name, value, in, length) ==
    [std |-> std, name |-> name, value |-> value, in |-> in, length |-> length]

ASSUME BusAssumption ==
    /\ Requests \subseteq [std : BOOLEAN, name : STRING, value : Nat, in : BOOLEAN, length : Nat]
    /\ PacketSize \in Nat \ {0} /\ AbandonsIn \in BOOLEAN

VARIABLES
    faddr,      \* the address the controller answers to (MUSB_FADDR)
    intrusb,    \* interrupts of the bus since MUSB_INTRUSB was read
    intrtx,     \* the interrupt of endpoint 0 in MUSB_INTRTX
    csr0,       \* the bits set in MUSB_CSR0
    rxFifo,     \* a request, OutData, or Nothing
    txFifo,     \* the packet to send, when TXPKTRDY is set
    host        \* what the host is at, and what it takes the device to be

busVars == <<faddr, intrusb, intrtx, csr0, rxFifo, txFifo, host>>

Nothing == [name |-> "nothing"]
OutData == [name |-> "data"]
NoPacket == [from |-> 0, length |-> 0, answers |-> Nothing]

Csr0Bits == {"RXPKTRDY", "TXPKTRDY", "DATAEND", "SETUPEND", "SENTSTALL", "SENDSTALL"}

\* A host that asks for as much as the standard requests answer: theirs is the one length
\* the driver does not look at.
AsksEnough ==
    \A req \in Requests : /\ req.name = "GET_STATUS" => req.length >= 2
                          /\ req.name \in {"GET_CONFIGURATION", "GET_INTERFACE"} => req.length >= 1

HostAfterReset ==
    [phase |-> "none", req |-> Nothing, got |-> 0, addr |-> 0, state |-> "DEFAULT", config |-> 0]

BusInit ==
    /\ faddr = 0 /\ intrusb = {} /\ intrtx = FALSE /\ csr0 = {}
    /\ rxFifo = Nothing /\ txFifo = NoPacket
    /\ host = HostAfterReset

-----------------------------------------------------------------------------
Reading == host.phase = "data" /\ host.req.in
Writing == host.phase # "none" /\ ~host.req.in /\ host.req.length > 0

\* A new request, when the last one has ended or takes no end.  SETUP is always
\* accepted, and clears what the last request left in the FIFO.
Setup(req) ==
    /\ host.phase = "none" \/ Writing \/ (AbandonsIn /\ Reading)
    /\ faddr = host.addr
    /\ host' = [host EXCEPT !.phase = IF req.length = 0 THEN "status" ELSE "data",
                            !.req = req, !.got = 0]
    /\ rxFifo' = req /\ txFifo' = NoPacket
    /\ csr0' = (csr0 \ {"TXPKTRDY", "DATAEND", "SENDSTALL"}) \cup {"RXPKTRDY"}
                   \cup IF host.phase = "none" THEN {} ELSE {"SETUPEND"}
    /\ intrtx' = TRUE
    /\ UNCHANGED <<faddr, intrusb>>

\* The host is done with the request.
Ended == [host EXCEPT !.phase = "none", !.req = Nothing, !.got = 0]

\* Tokens are refused for now while a request has not been acknowledged.
Served == host.phase # "none" /\ "RXPKTRDY" \notin csr0 /\ "SENDSTALL" \notin csr0

TakeData ==
    /\ Served /\ Reading /\ "TXPKTRDY" \in csr0
    /\ host' = [host EXCEPT !.got = @ + txFifo.length,
                            !.phase = IF \/ host.got + txFifo.length >= host.req.length
                                         \/ txFifo.length < PacketSize
                                      THEN "status" ELSE "data"]
    /\ csr0' = csr0 \ {"TXPKTRDY"}
    /\ txFifo' = NoPacket /\ intrtx' = TRUE
    /\ UNCHANGED <<faddr, intrusb, rxFifo>>

\* All of the host's data fits one packet.
GiveData ==
    /\ Served /\ Writing /\ host.phase = "data"
    /\ host' = [host EXCEPT !.phase = "status"]
    /\ rxFifo' = OutData /\ csr0' = csr0 \cup {"RXPKTRDY"} /\ intrtx' = TRUE
    /\ UNCHANGED <<faddr, intrusb, txFifo>>

\* The status stage, when the device has said that the data ends.
Status ==
    /\ Served /\ host.phase = "status" /\ "DATAEND" \in csr0 /\ "TXPKTRDY" \notin csr0
    /\ host' = [Ended EXCEPT
           !.addr  = IF host.req.name = "SET_ADDRESS" THEN host.req.value ELSE @,
           !.state = CASE host.req.name = "SET_ADDRESS" -> "ADDRESSED"
                       [] host.req.name = "SET_CONFIGURATION" -> "CONFIGURED"
                       [] OTHER -> @,
           !.config = IF host.req.name = "SET_CONFIGURATION" THEN host.req.value ELSE @]
    /\ csr0' = csr0 \ {"DATAEND"}
    /\ intrtx' = TRUE
    /\ UNCHANGED <<faddr, intrusb, rxFifo, txFifo>>

\* The host's next token is answered with STALL.
Stall ==
    /\ host.phase # "none" /\ "SENDSTALL" \in csr0
    /\ host' = Ended
    /\ csr0' = (csr0 \ {"SENDSTALL"}) \cup {"SENTSTALL"}
    /\ intrtx' = TRUE
    /\ UNCHANGED <<faddr, intrusb, rxFifo, txFifo>>

\* A bus reset clears the registers.
BusReset ==
    /\ Reading => AbandonsIn
    /\ faddr' = 0 /\ csr0' = {} /\ rxFifo' = Nothing /\ txFifo' = NoPacket
    /\ intrusb' = intrusb \cup {"RESET"}
    /\ host' = HostAfterReset
    /\ UNCHANGED intrtx

\* A start of frame, every millisecond.
StartOfFrame ==
    /\ intrusb' = intrusb \cup {"SOF"}
    /\ UNCHANGED <<faddr, intrtx, csr0, rxFifo, txFifo, host>>

HostGoesOn == TakeData \/ GiveData \/ Status \/ Stall

BusTypeOK ==
    /\ intrusb \subseteq {"RESET", "SOF"} /\ intrtx \in BOOLEAN /\ csr0 \subseteq Csr0Bits
    /\ rxFifo \in Requests \cup {OutData, Nothing}
    /\ txFifo \in [from : Nat, length : 0..PacketSize, answers : Requests \cup {Nothing}]
    /\ host \in [phase : {"none", "data", "status"}, req : Requests \cup {Nothing}, got : Nat,
                 addr : Nat, state : {"DEFAULT", "ADDRESSED", "CONFIGURED"}, config : Nat]
=============================================================================
