------------------------------- MODULE Kermit -------------------------------
(***************************************************************************)
(* The serial download of qboot: kermit_recv() of src/src/cmd/cmd_kermit.c *)
(* receiving a batch of files over the UART.                               *)
(*                                                                         *)
(* The board is single threaded, so what interleaves with it is the other  *)
(* end of the cable: a stop-and-wait Kermit sender, modelled from the      *)
(* packets kermit_recv() answers to, and a line that loses and damages     *)
(* frames in both directions but never reorders them.  Frames are whole    *)
(* packets: the decoding done by kermit_getpacket() is either a success or *)
(* a checksum error.                                                       *)
(***************************************************************************)
EXTENDS Integers, Sequences

CONSTANTS
    Byte,      \* the values a data byte takes
    Image,     \* the concatenated contents of the files of the batch
    Last,      \* the number of packets of the batch
    PktType,   \* PktType[i]: the type letter of packet i
    Offset,    \* Offset[i]: how much of Image the packets before i carry
    FirstSeq,  \* the sequence number of the first packet
    LineCap    \* bound: the frames in flight in one direction

(***************************************************************************)
(* Which packet type may follow which in the batch a Kermit sender sends:  *)
(* S { F [A] {D} Z } B.                                                    *)
(***************************************************************************)
FollowedBy == {<<"S", "F">>, <<"S", "B">>, <<"F", "A">>, <<"F", "D">>,
               <<"F", "Z">>, <<"A", "D">>, <<"A", "Z">>, <<"D", "D">>,
               <<"D", "Z">>, <<"Z", "F">>, <<"Z", "B">>}

ASSUME BatchAssumption ==
    /\ Last \in Nat \ {0, 1}
    /\ PktType \in [1..Last -> {"S", "F", "A", "D", "Z", "B"}]
    /\ \A i \in 1..Last : PktType[i] = "S" <=> i = 1
    /\ \A i \in 1..Last : PktType[i] = "B" <=> i = Last
    /\ \A i \in 1..(Last - 1) : <<PktType[i], PktType[i + 1]>> \in FollowedBy

ASSUME ImageAssumption ==
    /\ Image \in Seq(Byte)
    /\ Offset \in [1..(Last + 1) -> 0..Len(Image)]
    /\ Offset[1] = 0
    /\ Offset[Last + 1] = Len(Image)
    /\ \A i \in 1..Last : /\ Offset[i] <= Offset[i + 1]
                          /\ PktType[i] # "D" => Offset[i] = Offset[i + 1]

ASSUME LineAssumption == FirstSeq \in 0..63 /\ LineCap \in Nat \ {0}

VARIABLES
    kermit_seq,      \* sequence number expected next, NoSeq before the first
    kermit_handler,  \* the handler of the next packet: kermit_r, _rf or _rd
    stored,          \* the kermit_size bytes written at kermit_addr
    packet,          \* the packet being handled
    pc,              \* where kermit_recv() is
    toBoard, toHost, \* frames and responses in flight, oldest first
    sndIdx,          \* the packet the sender is on, Last + 1 when finished
    sndState         \* whether it sends the batch, an error packet, nothing

rcvVars == <<kermit_seq, kermit_handler, stored, packet, pc>>
sndVars == <<sndIdx, sndState>>
vars == <<rcvVars, toBoard, toHost, sndVars>>

-----------------------------------------------------------------------------
\* Packets and responses.

NoSeq == 255                       \* kermit_seq = 0xff: no packet seen yet
SeqMod == 64                       \* sequence numbers are six bits wide
NextSeq(s) == (s + 1) % SeqMod
SeqOf(i) == (FirstSeq + i - 1) % SeqMod

Payload(i) == SubSeq(Image, Offset[i] + 1, Offset[i + 1])
Packet(i) == [seq |-> SeqOf(i), type |-> PktType[i], data |-> Payload(i)]
ErrorPacket(i) == [seq |-> SeqOf(i), type |-> "E", data |-> <<>>]

Frame == [seq : 0..(SeqMod - 1),
          type : {"S", "F", "A", "D", "Z", "B", "E"},
          data : Seq(Byte)]
Response == [kind : {"Y"}, seq : 0..(SeqMod - 1)]
       \cup [kind : {"N"}, seq : 0..(SeqMod - 1) \cup {NoSeq}]

TypeOK ==
    /\ kermit_seq \in 0..(SeqMod - 1) \cup {NoSeq}
    /\ kermit_handler \in {"kermit_r", "kermit_rf", "kermit_rd"}
    /\ stored \in Seq(Byte)
    /\ packet \in Frame
    /\ pc \in {"getpacket", "dispatch", "done"}
    /\ toBoard \in Seq(Frame)
    /\ toHost \in Seq(Response)
    /\ sndIdx \in 1..(Last + 1)
    /\ sndState \in {"sending", "cancelling", "stopped"}

Init ==
    /\ kermit_seq = NoSeq
    /\ kermit_handler = "kermit_r"
    /\ stored = <<>>
    /\ packet = ErrorPacket(1)     \* uninitialised until the first reception
    /\ pc = "getpacket"
    /\ toBoard = <<>>
    /\ toHost = <<>>
    /\ sndIdx = 1
    /\ sndState = "sending"

-----------------------------------------------------------------------------
\* The external sender.

\* It transmits the packet it is on, the first time or after a timeout.
SenderTransmit ==
    /\ sndIdx <= Last /\ sndState # "stopped"
    /\ Len(toBoard) < LineCap
    /\ toBoard' = Append(toBoard, IF sndState = "sending" THEN Packet(sndIdx)
                                                         ELSE ErrorPacket(sndIdx))
    /\ UNCHANGED <<rcvVars, toHost, sndVars>>

\* A NAK for the packet after i acknowledges i, as the protocol has it.
Acknowledges(r, i) ==
    \/ r.kind = "Y" /\ r.seq = SeqOf(i)
    \/ r.kind = "N" /\ r.seq = SeqOf(i + 1)

SenderHear ==
    /\ toHost # <<>>
    /\ toHost' = Tail(toHost)
    /\ IF sndIdx <= Last /\ sndState # "stopped" /\ Acknowledges(Head(toHost), sndIdx)
       THEN \/ /\ sndState = "sending"
               /\ sndIdx' = sndIdx + 1 /\ UNCHANGED sndState
            \/ /\ sndState = "cancelling"
               /\ sndState' = "stopped" /\ UNCHANGED sndIdx
       ELSE UNCHANGED sndVars
    /\ UNCHANGED <<rcvVars, toBoard>>

\* The user of the sender interrupts the batch: an error packet takes the
\* place, and the number, of the packet the sender is on.
SenderCancel ==
    /\ sndState = "sending" /\ sndIdx <= Last
    /\ sndState' = "cancelling"
    /\ UNCHANGED <<rcvVars, toBoard, toHost, sndIdx>>

\* The sender has retried often enough, or the host goes away.
SenderGiveUp ==
    /\ sndState # "stopped" /\ sndIdx <= Last
    /\ sndState' = "stopped"
    /\ UNCHANGED <<rcvVars, toBoard, toHost, sndIdx>>

\* The line loses a frame (its MARK does not arrive, or a damaged length byte
\* made the frame before it swallow it) or a response.
LineLosesFrame ==
    /\ toBoard # <<>>
    /\ toBoard' = Tail(toBoard)
    /\ UNCHANGED <<rcvVars, toHost, sndVars>>

LineLosesResponse ==
    /\ toHost # <<>>
    /\ toHost' = Tail(toHost)
    /\ UNCHANGED <<rcvVars, toBoard, sndVars>>

-----------------------------------------------------------------------------
\* kermit_recv(): the loop around kermit_getpacket().

kermit_send_ack(type, seq) ==
    toHost' = Append(toHost, [kind |-> type, seq |-> seq])

\* The next frame is taken off the line; there is room for the response.
TakeFrame ==
    /\ pc = "getpacket"
    /\ toBoard # <<>> /\ Len(toHost) < LineCap
    /\ toBoard' = Tail(toBoard)
    /\ UNCHANGED sndVars

\* Mutant: a damaged packet is acknowledged.
RecvBadAcked ==
    /\ TakeFrame
    /\ kermit_send_ack("Y", kermit_seq)
    /\ UNCHANGED rcvVars

\* kermit_getpacket() returns -1 on a checksum error.
RecvBad ==
    /\ TakeFrame
    /\ kermit_send_ack("N", kermit_seq)
    /\ UNCHANGED rcvVars

\* A packet numbered above kermit_seq; the comparison is not modular.
RecvAhead ==
    /\ TakeFrame
    /\ Head(toBoard).seq > kermit_seq
    /\ kermit_send_ack("N", kermit_seq)
    /\ packet' = Head(toBoard)
    /\ UNCHANGED <<kermit_seq, kermit_handler, stored, pc>>

\* Mutant: a packet seen before is handled again.
RecvDuplicateAgain ==
    /\ TakeFrame
    /\ kermit_seq # NoSeq /\ Head(toBoard).seq < kermit_seq
    /\ kermit_send_ack("Y", Head(toBoard).seq)
    /\ packet' = Head(toBoard)
    /\ pc' = "dispatch"
    /\ UNCHANGED <<kermit_seq, kermit_handler, stored>>

\* Mutant: a packet seen before is dropped without an answer.
RecvDuplicateSilent ==
    /\ TakeFrame
    /\ kermit_seq # NoSeq /\ Head(toBoard).seq < kermit_seq
    /\ packet' = Head(toBoard)
    /\ UNCHANGED <<kermit_seq, kermit_handler, stored, pc, toHost>>

\* A packet numbered below kermit_seq was handled before: acknowledge it again.
RecvDuplicate ==
    /\ TakeFrame
    /\ kermit_seq # NoSeq /\ Head(toBoard).seq < kermit_seq
    /\ kermit_send_ack("Y", Head(toBoard).seq)
    /\ packet' = Head(toBoard)
    /\ UNCHANGED <<kermit_seq, kermit_handler, stored, pc>>

\* The packet kermit_recv() is waiting for, or any packet if it is the first.
\* It is acknowledged before the handler runs.
RecvExpected ==
    /\ TakeFrame
    /\ kermit_seq \in {NoSeq, Head(toBoard).seq}
    /\ kermit_send_ack("Y", Head(toBoard).seq)
    /\ packet' = Head(toBoard)
    /\ kermit_seq' = NextSeq(Head(toBoard).seq)
    /\ pc' = "dispatch"
    /\ UNCHANGED <<kermit_handler, stored>>

-----------------------------------------------------------------------------
\* The handlers.  ret is a uint32_t: a handler's -1 or -2 is neither < 0 nor
\* 1, so after an error kermit_recv() goes on as it does after a success.

kermit_r ==
    /\ kermit_handler' = IF packet.type = "S" THEN "kermit_rf" ELSE "kermit_r"
    /\ pc' = "getpacket"
    /\ UNCHANGED stored

\* Mutant: an unknown type ends the transfer as BREAK does.
kermit_rfEnds ==
    /\ kermit_handler' = IF packet.type = "F" THEN "kermit_rd" ELSE "kermit_rf"
    /\ pc' = IF packet.type \in {"B", "E"} THEN "done" ELSE "getpacket"
    /\ UNCHANGED stored

\* Mutant: BREAK does not end the transfer.
kermit_rfGoesOn ==
    /\ kermit_handler' = IF packet.type = "F" THEN "kermit_rd" ELSE "kermit_rf"
    /\ pc' = "getpacket"
    /\ UNCHANGED stored

kermit_rf ==
    /\ kermit_handler' = IF packet.type = "F" THEN "kermit_rd" ELSE "kermit_rf"
    /\ pc' = IF packet.type = "B" THEN "done" ELSE "getpacket"
    /\ UNCHANGED stored

\* Mutant: the end of a file does not bring the file handler back.
kermit_rdStays ==
    /\ stored' = IF packet.type = "D" THEN stored \o packet.data ELSE stored
    /\ kermit_handler' = "kermit_rd"
    /\ pc' = "getpacket"

kermit_rd ==
    /\ stored' = IF packet.type = "D" THEN stored \o packet.data ELSE stored
    /\ kermit_handler' = IF packet.type = "Z" THEN "kermit_rf" ELSE "kermit_rd"
    /\ pc' = "getpacket"

Dispatch ==
    /\ pc = "dispatch"
    /\ \/ kermit_handler = "kermit_r" /\ kermit_r
       \/ kermit_handler = "kermit_rf" /\ kermit_rf
       \/ kermit_handler = "kermit_rd" /\ kermit_rd
    /\ UNCHANGED <<kermit_seq, packet, toBoard, toHost, sndVars>>

Receive == RecvBad \/ RecvAhead \/ RecvDuplicate \/ RecvExpected

Next ==
    \/ SenderTransmit \/ SenderHear \/ SenderCancel \/ SenderGiveUp
    \/ LineLosesFrame \/ LineLosesResponse
    \/ RecvBad \/ RecvAhead \/ RecvDuplicate \/ RecvExpected
    \/ Dispatch

Spec == Init /\ [][Next]_vars

(***************************************************************************)
(* The board polls its UART for ever (kermit_getpacket() has no timeout)   *)
(* and the sender retransmits on a timer.  The line may lose any frame,    *)
(* but of infinitely many it delivers some: reception, of the expected     *)
(* packet too, and hearing a response are strongly fair.                   *)
(***************************************************************************)
Fairness ==
    /\ WF_vars(Dispatch) /\ WF_vars(SenderTransmit) /\ SF_vars(Receive)
    /\ SF_vars(RecvExpected) /\ SF_vars(SenderHear)

FairSpec == Spec /\ Fairness

-----------------------------------------------------------------------------
(***************************************************************************)
(* Properties.                                                             *)
(***************************************************************************)

\* What lies at kermit_addr is always a prefix of the batch: nothing is
\* stored twice, skipped or out of order, whatever is lost, damaged, sent
\* again or answered late (kermit_recv's seq tests, kermit_rd).
StoredIsPrefix ==
    /\ Len(stored) <= Len(Image)
    /\ \A a \in 1..Len(stored) : stored[a] = Image[a]

\* When loadb reports a size, every byte of the batch is there, even if the
\* sender was interrupted: the BREAK packet is not taken for one before it.
CompleteWhenDone == pc = "done" => stored = Image

\* Every packet the sender saw acknowledged has been stored, although the
\* acknowledgement leaves before the handler runs.
AckedIsStored == pc # "dispatch" => Len(stored) >= Offset[sndIdx]

\* Nothing the line does after an acknowledged BREAK reopens the transfer,
\* and the sender is never done with a batch the board still waits for.
SenderDoneOnlyAfterBoard ==
    sndIdx = Last + 1 =>
        \/ pc = "done"
        \/ pc = "dispatch" /\ packet.type = "B" /\ kermit_handler = "kermit_rf"

\* A sender that is not interrupted gets the whole batch across.
TransferCompletes == <>(pc = "done" \/ sndState # "sending")

\* kermit_recv() implements the abstract transfer.
FT == INSTANCE FileTransfer WITH received <- stored, reported <- (pc = "done")
Transfer == FT!Spec

-----------------------------------------------------------------------------
(***************************************************************************)
(* The inductive invariant behind them.  The sender and the receiver are   *)
(* never more than one packet apart, so the line holds at most two         *)
(* different packets, older ones in front, and every response says one of  *)
(* two things: I want the packet you are on, or I want the next.           *)
(***************************************************************************)

\* The index of the packet kermit_recv() waits for.
Wanted == IF kermit_seq = SeqOf(sndIdx + 1) THEN sndIdx + 1 ELSE sndIdx

WindowInv ==
    /\ \/ kermit_seq = NoSeq /\ sndIdx = 1
       \/ kermit_seq = SeqOf(sndIdx)
       \/ kermit_seq = SeqOf(sndIdx + 1) /\ sndIdx <= Last
    /\ kermit_seq = NoSeq => pc = "getpacket"

\* Frame f is packet i, or the error packet sent in its place.
IsCopyOf(f, i) ==
    /\ i \in 1..Last /\ f.seq = SeqOf(i)
    /\ \/ f = Packet(i)
       \/ f = ErrorPacket(i) /\ i = sndIdx /\ sndState # "sending"

BoardLineInv ==
    /\ \A k \in 1..Len(toBoard) :
          \/ IsCopyOf(toBoard[k], sndIdx)
          \/ IsCopyOf(toBoard[k], sndIdx - 1) /\ Wanted = sndIdx
    /\ \A k \in 1..Len(toBoard), l \in 1..Len(toBoard) :
          k <= l /\ toBoard[k].seq = SeqOf(sndIdx) => toBoard[l].seq = SeqOf(sndIdx)

\* The packet a response asks for, by its number.
Credit(r) == IF r.kind = "Y" THEN NextSeq(r.seq) ELSE r.seq

HostLineInv ==
    /\ \A k \in 1..Len(toHost) :
          \/ Credit(toHost[k]) = SeqOf(sndIdx)
          \/ Credit(toHost[k]) = SeqOf(sndIdx + 1) /\ Wanted = sndIdx + 1
          \/ toHost[k] = [kind |-> "N", seq |-> NoSeq] /\ sndIdx = 1
    /\ \A k \in 1..Len(toHost), l \in 1..Len(toHost) :
          k <= l /\ Credit(toHost[k]) = SeqOf(sndIdx + 1)
            => Credit(toHost[l]) = SeqOf(sndIdx + 1)

\* The handler and the memory after the packets before i were handled.
HandledUpTo(i) ==
    /\ i \in 1..(Last + 1)
    /\ Len(stored) = Offset[i]
    /\ kermit_handler = IF i = 1 THEN "kermit_r"
                        ELSE IF PktType[i - 1] \in {"S", "Z", "B"} THEN "kermit_rf"
                        ELSE "kermit_rd"

\* An accepted error packet consumes a number and nothing else; after it the
\* sender stays where it is.
CancelledAt(i) == i = sndIdx /\ Wanted = sndIdx + 1 /\ sndState # "sending"

HandlerInv ==
    /\ pc = "getpacket" =>
          \/ HandledUpTo(Wanted) /\ Wanted # Last + 1
          \/ HandledUpTo(sndIdx) /\ CancelledAt(sndIdx)
    /\ pc = "dispatch" =>
          /\ HandledUpTo(Wanted - 1)
          /\ \/ packet = Packet(Wanted - 1)
             \/ packet = ErrorPacket(Wanted - 1) /\ CancelledAt(Wanted - 1)
    /\ pc = "done" => Wanted = Last + 1 /\ HandledUpTo(Last + 1)

IInv ==
    /\ TypeOK /\ StoredIsPrefix
    /\ WindowInv /\ BoardLineInv /\ HostLineInv /\ HandlerInv
=============================================================================
