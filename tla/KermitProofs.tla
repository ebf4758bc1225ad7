---------------------------- MODULE KermitProofs ----------------------------
(***************************************************************************)
(* Proofs about Kermit, for every batch, first sequence number and line    *)
(* capacity: the types, the inductive invariant, the safety properties     *)
(* and the refinement of FileTransfer.                                     *)
(***************************************************************************)
EXTENDS Kermit, SequenceTheorems, TLAPS

-----------------------------------------------------------------------------
\* Sequence numbers.

\* Consecutive packets carry consecutive, different, six-bit numbers.
LEMMA SeqOfNext ==
    ASSUME NEW i \in Int
    PROVE  /\ SeqOf(i) \in 0..63
           /\ SeqOf(i + 1) = NextSeq(SeqOf(i))
           /\ SeqOf(i + 1) # SeqOf(i)
           /\ SeqOf(i) # NoSeq
  BY LineAssumption DEF SeqOf, NextSeq, SeqMod, NoSeq

\* Advancing a sequence number loses nothing.
LEMMA NextSeqInjective ==
    ASSUME NEW a \in 0..63, NEW b \in 0..63, NextSeq(a) = NextSeq(b)
    PROVE  a = b
  BY DEF NextSeq, SeqMod

\* Advancing keeps a number six bits wide.
LEMMA NextSeqType ==
    ASSUME NEW a \in 0..63
    PROVE  NextSeq(a) \in 0..63 /\ NextSeq(a) # NoSeq
  BY DEF NextSeq, SeqMod, NoSeq

\* The slice of the batch that packet i carries.
LEMMA PayloadIsSlice ==
    ASSUME NEW i \in 1..Last
    PROVE  /\ Payload(i) \in Seq(Byte)
           /\ Len(Payload(i)) = Offset[i + 1] - Offset[i]
           /\ \A a \in 1..Len(Payload(i)) : Payload(i)[a] = Image[Offset[i] + a]
  <1>1. /\ Offset[i] \in 0..Len(Image) /\ Offset[i + 1] \in 0..Len(Image)
        /\ Offset[i] <= Offset[i + 1] /\ Len(Image) \in Nat
    BY ImageAssumption, BatchAssumption
  <1>2. \A a \in (Offset[i] + 1)..Offset[i + 1] : Image[a] \in Byte
    BY <1>1, ImageAssumption, ElementOfSeq
  <1> DEFINE m == Offset[i] + 1
             n == Offset[i + 1]
  <1>3. m \in Int /\ n \in Int
    BY <1>1
  <1>4. \A a \in m..n : Image[a] \in Byte
    BY <1>2
  <1>5. /\ SubSeq(Image, m, n) \in Seq(Byte)
        /\ Len(SubSeq(Image, m, n)) = IF m <= n THEN n - m + 1 ELSE 0
        /\ \A a \in 1..(n - m + 1) : SubSeq(Image, m, n)[a] = Image[m + a - 1]
    <2> HIDE DEF m, n
    <2>. QED
      BY <1>3, <1>4, SubSeqProperties
  <1>6. n - m + 1 = Offset[i + 1] - Offset[i] /\ (m <= n \/ n - m + 1 = 0)
    BY <1>1
  <1>7. \A a \in Nat : m + a - 1 = Offset[i] + a
    BY <1>1
  <1>8. Payload(i) = SubSeq(Image, m, n)
    BY DEF Payload
  <1>9. Len(Payload(i)) = Offset[i + 1] - Offset[i]
    BY <1>1, <1>5, <1>6, <1>8
  <1>10. ASSUME NEW a \in 1..Len(Payload(i))
         PROVE  Payload(i)[a] = Image[Offset[i] + a]
    <2>1. a \in 1..(n - m + 1) /\ a \in Nat
      BY <1>1, <1>6, <1>9
    <2> HIDE DEF m, n
    <2>. QED
      BY <2>1, <1>5, <1>7, <1>8
  <1>. QED
    BY <1>5, <1>8, <1>9, <1>10

\* What the sender transmits are frames.
LEMMA PacketType ==
    ASSUME NEW i \in 1..Last
    PROVE  Packet(i) \in Frame /\ ErrorPacket(i) \in Frame
  <1>1. SeqOf(i) \in 0..63
    BY SeqOfNext, BatchAssumption
  <1>2. <<>> \in Seq(Byte)
    BY EmptySeq
  <1>. QED
    BY <1>1, <1>2, PayloadIsSlice, BatchAssumption
       DEF Packet, ErrorPacket, Frame, SeqMod

-----------------------------------------------------------------------------
\* Types.

\* The type invariant holds initially.
LEMMA InitTypeOK == Init => TypeOK
  <1>1. 1 \in 1..Last /\ 1 \in 1..(Last + 1)
    BY BatchAssumption
  <1>. QED
    BY <1>1, PacketType, EmptySeq DEF Init, TypeOK

\* Every step keeps every variable's type.
LEMMA StepTypeOK == TypeOK /\ [Next]_vars => TypeOK'
  <1> SUFFICES ASSUME TypeOK, [Next]_vars PROVE TypeOK'
    OBVIOUS
  <1>1. CASE SenderTransmit
    <2>1. sndIdx \in 1..Last
      BY <1>1, BatchAssumption DEF SenderTransmit, TypeOK
    <2>. QED
      BY <1>1, <2>1, PacketType, AppendProperties
         DEF SenderTransmit, TypeOK, rcvVars, sndVars
  <1>2. CASE SenderHear
    BY <1>2, BatchAssumption, HeadTailProperties
       DEF SenderHear, TypeOK, rcvVars, sndVars
  <1>3. CASE SenderCancel \/ SenderGiveUp
    BY <1>3 DEF SenderCancel, SenderGiveUp, TypeOK, rcvVars
  <1>4. CASE LineLosesFrame \/ LineLosesResponse
    BY <1>4, HeadTailProperties
       DEF LineLosesFrame, LineLosesResponse, TypeOK, rcvVars, sndVars
  <1>5. CASE Receive
    <2>1. /\ toBoard \in Seq(Frame) /\ toBoard # <<>>
          /\ toBoard' = Tail(toBoard) /\ UNCHANGED sndVars
      BY <1>5 DEF Receive, RecvBad, RecvAhead, RecvDuplicate, RecvExpected,
                  TakeFrame, TypeOK
    <2>2. Head(toBoard) \in Frame /\ toBoard' \in Seq(Frame)
      BY <2>1, HeadTailProperties
    <2>3. Head(toBoard).seq \in 0..63
      <3>1. \A f \in Frame : f.seq \in 0..63
        BY DEF Frame, SeqMod
      <3>. QED
        BY <2>2, <3>1
    <2>4. /\ [kind |-> "N", seq |-> kermit_seq] \in Response
          /\ [kind |-> "Y", seq |-> Head(toBoard).seq] \in Response
      BY <2>3 DEF Response, TypeOK, SeqMod
    <2>5. \/ toHost' = Append(toHost, [kind |-> "N", seq |-> kermit_seq])
          \/ toHost' = Append(toHost, [kind |-> "Y", seq |-> Head(toBoard).seq])
      BY <1>5 DEF Receive, RecvBad, RecvAhead, RecvDuplicate, RecvExpected, kermit_send_ack
    <2>6. toHost' \in Seq(Response)
      <3>1. \A r \in Response : Append(toHost, r) \in Seq(Response)
        BY AppendProperties DEF TypeOK
      <3>. QED
        BY <3>1, <2>4, <2>5
    <2>7. NextSeq(Head(toBoard).seq) \in 0..(SeqMod - 1)
      BY <2>3, NextSeqType DEF SeqMod
    <2>. QED
      BY <1>5, <2>1, <2>2, <2>6, <2>7
         DEF Receive, RecvBad, RecvAhead, RecvDuplicate, RecvExpected,
             TypeOK, rcvVars, sndVars
  <1>6. CASE Dispatch
    <2>1. packet.data \in Seq(Byte) /\ stored \in Seq(Byte)
      BY DEF TypeOK, Frame
    <2>2. stored \o packet.data \in Seq(Byte)
      BY <2>1, ConcatProperties
    <2>. QED
      BY <1>6, <2>1, <2>2
         DEF Dispatch, kermit_r, kermit_rf, kermit_rd, TypeOK, sndVars
  <1>7. CASE UNCHANGED vars
    BY <1>7 DEF vars, rcvVars, sndVars, TypeOK
  <1>. QED
    BY <1>1, <1>2, <1>3, <1>4, <1>5, <1>6, <1>7 DEF Next, Receive

\* Every variable keeps its type.
THEOREM TypeCorrect == Spec => []TypeOK
  BY InitTypeOK, StepTypeOK, PTL DEF Spec

-----------------------------------------------------------------------------
\* The window.

\* The packet kermit_recv() waits for is the sender's or the next one, and
\* kermit_seq is its number.
LEMMA WantedFacts ==
    ASSUME TypeOK, WindowInv
    PROVE  /\ sndIdx \in Int
           /\ Wanted \in {sndIdx, sndIdx + 1}
           /\ Wanted = sndIdx + 1 <=> kermit_seq = SeqOf(sndIdx + 1)
           /\ Wanted = sndIdx + 1 => sndIdx <= Last
           /\ kermit_seq # NoSeq => kermit_seq = SeqOf(Wanted)
           /\ kermit_seq = NoSeq => Wanted = sndIdx /\ sndIdx = 1
  <1>1. sndIdx \in Int /\ sndIdx + 1 \in Int
    BY BatchAssumption DEF TypeOK
  <1>2. SeqOf(sndIdx + 1) # SeqOf(sndIdx) /\ SeqOf(sndIdx + 1) # NoSeq /\ SeqOf(sndIdx) # NoSeq
    BY <1>1, SeqOfNext
  <1>. QED
    BY <1>1, <1>2 DEF WindowInv, Wanted

\* An acknowledgement of the sender's packet is a request for the next one.
LEMMA AcknowledgesIsCredit ==
    ASSUME NEW r \in Response, NEW i \in Int
    PROVE  Acknowledges(r, i) <=> Credit(r) = SeqOf(i + 1)
  <1>1. r.kind \in {"Y", "N"} /\ (r.kind = "Y" => r.seq \in 0..63)
    BY DEF Response, SeqMod
  <1>2. SeqOf(i) \in 0..63 /\ SeqOf(i + 1) = NextSeq(SeqOf(i))
    BY SeqOfNext
  <1>3. \A a, b \in 0..63 : NextSeq(a) = NextSeq(b) => a = b
    BY NextSeqInjective
  <1>. QED
    BY <1>1, <1>2, <1>3 DEF Acknowledges, Credit

-----------------------------------------------------------------------------
\* The inductive invariant, action by action.

\* It holds before the first packet.
LEMMA InitIInv == Init => IInv
  <1> SUFFICES ASSUME Init PROVE IInv
    OBVIOUS
  <1>1. TypeOK
    BY InitTypeOK
  <1>2. Wanted = 1
    BY SeqOfNext DEF Init, Wanted
  <1>3. StoredIsPrefix
    BY ImageAssumption, EmptySeq, LenProperties DEF Init, StoredIsPrefix
  <1>4. HandlerInv
    BY <1>2, BatchAssumption, ImageAssumption, EmptySeq DEF Init, HandlerInv, HandledUpTo
  <1>. QED
    BY <1>1, <1>3, <1>4 DEF IInv, Init, WindowInv, BoardLineInv, HostLineInv

\* The sender only transmits the packet it is on, behind what is in flight.
LEMMA SenderTransmitIInv ==
    ASSUME IInv, TypeOK', SenderTransmit
    PROVE  IInv'
  <1> USE DEF IInv
  <1>1. sndIdx \in 1..Last /\ sndIdx \in Int
    BY BatchAssumption DEF SenderTransmit, TypeOK
  <1>2. UNCHANGED <<rcvVars, toHost, sndVars>>
    BY DEF SenderTransmit
  <1>3. PICK f \in Frame : toBoard' = Append(toBoard, f) /\ IsCopyOf(f, sndIdx)
    <2>1. IsCopyOf(Packet(sndIdx), sndIdx)
      BY <1>1 DEF IsCopyOf, Packet
    <2>2. sndState # "sending" => IsCopyOf(ErrorPacket(sndIdx), sndIdx)
      BY <1>1 DEF IsCopyOf, ErrorPacket
    <2>. QED
      BY <2>1, <2>2, <1>1, PacketType DEF SenderTransmit
  <1>4. /\ Len(toBoard') = Len(toBoard) + 1 /\ Len(toBoard) \in Nat
        /\ \A k \in 1..Len(toBoard) : toBoard'[k] = toBoard[k]
        /\ toBoard'[Len(toBoard) + 1] = f
    BY <1>3, AppendProperties, LenProperties DEF TypeOK
  <1>5. Wanted' = Wanted /\ \A g, i : IsCopyOf(g, i)' = IsCopyOf(g, i)
    BY <1>2 DEF rcvVars, sndVars, Wanted, IsCopyOf
  <1>6. f.seq = SeqOf(sndIdx)
    BY <1>3 DEF IsCopyOf
  <1>7. BoardLineInv'
    BY <1>2, <1>3, <1>4, <1>5, <1>6 DEF BoardLineInv, sndVars
  <1>8. WindowInv' /\ HostLineInv' /\ HandlerInv' /\ StoredIsPrefix'
    BY <1>2, <1>5 DEF rcvVars, sndVars, WindowInv, HostLineInv, HandlerInv,
                      HandledUpTo, CancelledAt, StoredIsPrefix
  <1>. QED
    BY <1>7, <1>8

\* The sender moves on only on a request for its next packet; by then the
\* line to the board holds nothing but copies of the packet it leaves.
LEMMA SenderHearIInv ==
    ASSUME IInv, TypeOK', SenderHear
    PROVE  IInv'
  <1> USE DEF IInv
  <1> DEFINE r == Head(toHost)
  <1>1. /\ toHost # <<>> /\ toHost \in Seq(Response) /\ toHost' = Tail(toHost)
        /\ UNCHANGED <<rcvVars, toBoard>>
    BY DEF SenderHear, TypeOK
  <1>2. /\ r \in Response /\ r = toHost[1] /\ 1 \in 1..Len(toHost)
        /\ Len(toHost) \in Nat /\ Len(toHost') = Len(toHost) - 1
        /\ \A k \in 1..Len(toHost') : toHost'[k] = toHost[k + 1]
    BY <1>1, HeadTailProperties, LenProperties
  <1>3. \A k \in 1..Len(toHost') : k + 1 \in 1..Len(toHost)
    BY <1>2
  <1>4. ASSUME sndIdx' = sndIdx, Wanted' = Wanted
        PROVE  HostLineInv'
    <2>1. \A q : Credit(q)' = Credit(q)
      BY DEF Credit, NextSeq
    <2>2. SeqOf(sndIdx)' = SeqOf(sndIdx) /\ SeqOf(sndIdx + 1)' = SeqOf(sndIdx + 1)
      BY <1>4 DEF SeqOf
    <2>3. ASSUME NEW k \in 1..Len(toHost')
          PROVE  \/ Credit(toHost'[k]) = SeqOf(sndIdx)
                 \/ Credit(toHost'[k]) = SeqOf(sndIdx + 1) /\ Wanted = sndIdx + 1
                 \/ toHost'[k] = [kind |-> "N", seq |-> NoSeq] /\ sndIdx = 1
      BY <1>2, <1>3 DEF HostLineInv
    <2>4. ASSUME NEW k \in 1..Len(toHost'), NEW l \in 1..Len(toHost'),
                 k <= l, Credit(toHost'[k]) = SeqOf(sndIdx + 1)
          PROVE  Credit(toHost'[l]) = SeqOf(sndIdx + 1)
      <3>1. k + 1 <= l + 1 /\ toHost'[k] = toHost[k + 1] /\ toHost'[l] = toHost[l + 1]
        BY <1>2, <2>4
      <3>. QED
        BY <1>3, <2>4, <3>1 DEF HostLineInv
    <2>. QED
      BY <1>4, <2>1, <2>2, <2>3, <2>4 DEF HostLineInv
  <1>5. CASE UNCHANGED sndVars
    <2>1. Wanted' = Wanted /\ \A g, i : IsCopyOf(g, i)' = IsCopyOf(g, i)
      BY <1>1, <1>5 DEF rcvVars, sndVars, Wanted, IsCopyOf
    <2>2. HostLineInv'
      BY <1>5, <1>4, <2>1 DEF sndVars
    <2>. QED
      BY <1>1, <1>5, <2>1, <2>2
         DEF rcvVars, sndVars, WindowInv, BoardLineInv, HandlerInv, HandledUpTo,
             CancelledAt, StoredIsPrefix
  <1>6. CASE sndState = "cancelling" /\ sndState' = "stopped" /\ UNCHANGED sndIdx
    <2>1. Wanted' = Wanted /\ \A g, i : IsCopyOf(g, i)' = IsCopyOf(g, i)
      BY <1>1, <1>6 DEF rcvVars, Wanted, IsCopyOf
    <2>2. HostLineInv'
      BY <1>6, <1>4, <2>1
    <2>3. \A i : CancelledAt(i)' = CancelledAt(i)
      BY <1>6, <2>1 DEF CancelledAt
    <2>. QED
      BY <1>1, <1>6, <2>1, <2>2, <2>3
         DEF rcvVars, WindowInv, BoardLineInv, HandlerInv, HandledUpTo, StoredIsPrefix
  <1>7. CASE /\ sndState = "sending" /\ sndIdx <= Last /\ Acknowledges(r, sndIdx)
             /\ sndIdx' = sndIdx + 1 /\ UNCHANGED sndState
    <2>1. /\ sndIdx \in Int /\ sndIdx + 1 \in Int /\ Credit(r) = SeqOf(sndIdx + 1)
      BY <1>2, <1>7, AcknowledgesIsCredit, WantedFacts
    <2>2. /\ SeqOf(sndIdx) # SeqOf(sndIdx + 1) /\ SeqOf(sndIdx + 1) # SeqOf(sndIdx + 2)
          /\ SeqOf(sndIdx + 1) # NoSeq
      BY <2>1, SeqOfNext
    <2>3. r # [kind |-> "N", seq |-> NoSeq]
      BY <2>1, <2>2 DEF Credit
    <2>4. Wanted = sndIdx + 1 /\ kermit_seq = SeqOf(sndIdx + 1)
      BY <1>2, <2>1, <2>2, <2>3, WantedFacts DEF HostLineInv
    <2>5. Wanted' = sndIdx' /\ Wanted' = Wanted
      BY <1>1, <1>7, <2>1, <2>2, <2>4 DEF Wanted, rcvVars
    <2>6. \A k \in 1..Len(toBoard) : IsCopyOf(toBoard[k], sndIdx)
      BY <2>1, <2>4 DEF BoardLineInv
    <2>7. \A g : IsCopyOf(g, sndIdx) => IsCopyOf(g, sndIdx - 1)'
      <3>1. sndIdx' - 1 = sndIdx
        BY <1>7, <2>1
      <3>2. \A i : SeqOf(i)' = SeqOf(i) /\ Packet(i)' = Packet(i)
        BY DEF SeqOf, Packet, Payload
      <3>. QED
        BY <1>7, <3>1, <3>2 DEF IsCopyOf
    <2>8. \A k \in 1..Len(toBoard) : toBoard[k].seq # SeqOf(sndIdx + 1)
      BY <2>2, <2>6 DEF IsCopyOf
    <2>9. BoardLineInv'
      BY <1>1, <1>7, <2>1, <2>5, <2>6, <2>7, <2>8 DEF BoardLineInv
    <2>10. \A k \in 1..Len(toHost') : Credit(toHost'[k]) = SeqOf(sndIdx + 1)
      BY <1>2, <1>3, <2>1 DEF HostLineInv
    <2>11. HostLineInv'
      BY <1>7, <2>1, <2>2, <2>10 DEF HostLineInv
    <2>12. WindowInv'
      BY <1>1, <1>7, <2>2, <2>4, <2>1 DEF WindowInv, rcvVars
    <2>13. HandlerInv'
      BY <1>1, <1>7, <2>5 DEF HandlerInv, HandledUpTo, CancelledAt, rcvVars
    <2>. QED
      BY <1>1, <2>9, <2>11, <2>12, <2>13 DEF StoredIsPrefix, rcvVars
  <1>. QED
    BY <1>5, <1>6, <1>7 DEF SenderHear

\* Interrupting the sender changes none of what is in flight.
LEMMA SenderStopsIInv ==
    ASSUME IInv, TypeOK', SenderCancel \/ SenderGiveUp
    PROVE  IInv'
  <1> USE DEF IInv
  <1>1. /\ UNCHANGED <<rcvVars, toBoard, toHost, sndIdx>>
        /\ sndState' # "sending"
    BY DEF SenderCancel, SenderGiveUp
  <1>2. Wanted' = Wanted /\ \A g, i : IsCopyOf(g, i) => IsCopyOf(g, i)'
    BY <1>1 DEF rcvVars, Wanted, IsCopyOf
  <1>3. \A i : CancelledAt(i) => CancelledAt(i)'
    BY <1>1, <1>2 DEF CancelledAt
  <1>4. HandlerInv'
    BY <1>1, <1>2, <1>3 DEF rcvVars, HandlerInv, HandledUpTo
  <1>5. BoardLineInv'
    BY <1>1, <1>2 DEF BoardLineInv
  <1>. QED
    BY <1>1, <1>2, <1>4, <1>5 DEF rcvVars, WindowInv, HostLineInv, StoredIsPrefix

\* Losing the oldest frame or response leaves the rest as it was.
LEMMA LineLosesIInv ==
    ASSUME IInv, TypeOK', LineLosesFrame \/ LineLosesResponse
    PROVE  IInv'
  <1> USE DEF IInv
  <1>1. UNCHANGED <<rcvVars, sndVars>>
    BY DEF LineLosesFrame, LineLosesResponse
  <1>2. Wanted' = Wanted /\ \A g, i : IsCopyOf(g, i)' = IsCopyOf(g, i)
    BY <1>1 DEF rcvVars, sndVars, Wanted, IsCopyOf
  <1>3. WindowInv' /\ HandlerInv' /\ StoredIsPrefix'
    BY <1>1, <1>2 DEF rcvVars, sndVars, WindowInv, HandlerInv, HandledUpTo,
                      CancelledAt, StoredIsPrefix
  <1>4. BoardLineInv'
    <2>1. CASE LineLosesFrame
      <3>1. /\ Len(toBoard) \in Nat /\ Len(toBoard') = Len(toBoard) - 1
            /\ \A k \in 1..Len(toBoard') : toBoard'[k] = toBoard[k + 1]
        BY <2>1, HeadTailProperties, LenProperties DEF LineLosesFrame, TypeOK
      <3>2. \A k \in 1..Len(toBoard') : k + 1 \in 1..Len(toBoard)
        BY <3>1
      <3>. QED
        BY <1>1, <1>2, <3>1, <3>2 DEF BoardLineInv, sndVars
    <2>2. CASE LineLosesResponse
      BY <1>1, <1>2, <2>2 DEF LineLosesResponse, BoardLineInv, sndVars
    <2>. QED
      BY <2>1, <2>2
  <1>5. HostLineInv'
    <2>1. CASE LineLosesResponse
      <3>1. /\ Len(toHost) \in Nat /\ Len(toHost') = Len(toHost) - 1
            /\ \A k \in 1..Len(toHost') : toHost'[k] = toHost[k + 1]
        BY <2>1, HeadTailProperties, LenProperties DEF LineLosesResponse, TypeOK
      <3>2. \A k \in 1..Len(toHost') : k + 1 \in 1..Len(toHost)
        BY <3>1
      <3>. QED
        BY <1>1, <1>2, <3>1, <3>2 DEF HostLineInv, sndVars
    <2>2. CASE LineLosesFrame
      BY <1>1, <1>2, <2>2 DEF LineLosesFrame, HostLineInv, sndVars
    <2>. QED
      BY <2>1, <2>2
  <1>. QED
    BY <1>3, <1>4, <1>5

\* What taking a frame off the line leaves there, and what it was.
LEMMA TakeFrameFacts ==
    ASSUME IInv, TypeOK', TakeFrame
    PROVE  /\ Head(toBoard) = toBoard[1] /\ 1 \in 1..Len(toBoard)
           /\ Len(toBoard) \in Nat /\ Len(toBoard') = Len(toBoard) - 1
           /\ \A k \in 1..Len(toBoard') :
                 toBoard'[k] = toBoard[k + 1] /\ k + 1 \in 1..Len(toBoard)
           /\ \/ IsCopyOf(Head(toBoard), sndIdx)
              \/ IsCopyOf(Head(toBoard), sndIdx - 1) /\ Wanted = sndIdx
           /\ Head(toBoard).seq \in 0..63
  <1> USE DEF IInv
  <1>1. toBoard \in Seq(Frame) /\ toBoard # <<>> /\ toBoard' = Tail(toBoard)
    BY DEF TakeFrame, TypeOK
  <1>2. /\ Head(toBoard) = toBoard[1] /\ 1 \in 1..Len(toBoard)
        /\ Len(toBoard) \in Nat /\ Len(toBoard') = Len(toBoard) - 1
        /\ \A k \in 1..Len(toBoard') : toBoard'[k] = toBoard[k + 1]
    BY <1>1, HeadTailProperties, LenProperties
  <1>3. \A k \in 1..Len(toBoard') : k + 1 \in 1..Len(toBoard)
    BY <1>2
  <1>4. \/ IsCopyOf(Head(toBoard), sndIdx)
        \/ IsCopyOf(Head(toBoard), sndIdx - 1) /\ Wanted = sndIdx
    BY <1>2 DEF BoardLineInv
  <1>5. Head(toBoard).seq \in 0..63
    <2>1. \A i \in 1..Last : SeqOf(i) \in 0..63
      BY SeqOfNext, BatchAssumption
    <2>. QED
      BY <1>4, <2>1 DEF IsCopyOf
  <1>. QED
    BY <1>2, <1>3, <1>4, <1>5

\* A response that asks for the packet kermit_recv() waits for may follow
\* those in flight.
LEMMA RespondHostLineInv ==
    ASSUME IInv, TypeOK', UNCHANGED <<kermit_seq, sndVars>>,
           NEW r \in Response, toHost' = Append(toHost, r),
           \/ Credit(r) = SeqOf(Wanted)
           \/ r = [kind |-> "N", seq |-> NoSeq] /\ kermit_seq = NoSeq
    PROVE  HostLineInv'
  <1> USE DEF IInv
  <1>1. /\ Len(toHost') = Len(toHost) + 1 /\ Len(toHost) \in Nat
        /\ \A k \in 1..Len(toHost) : toHost'[k] = toHost[k]
        /\ toHost'[Len(toHost) + 1] = r
    BY AppendProperties, LenProperties DEF TypeOK
  <1>2. Wanted' = Wanted /\ UNCHANGED <<sndIdx, sndState>>
    BY DEF Wanted, sndVars
  <1>3. /\ Wanted \in {sndIdx, sndIdx + 1} /\ sndIdx \in Int
        /\ kermit_seq = NoSeq => Wanted = sndIdx /\ sndIdx = 1
    BY WantedFacts
  <1>4. SeqOf(sndIdx + 1) # SeqOf(sndIdx) /\ SeqOf(sndIdx + 1) # NoSeq
    <2>1. sndIdx \in Int /\ sndIdx + 1 \in Int
      BY <1>3
    <2>. QED
      BY <2>1, SeqOfNext
  <1>5. \A k \in 1..Len(toHost') : k \in 1..Len(toHost) \/ k = Len(toHost) + 1
    BY <1>1
  <1>6. \/ Credit(r) = SeqOf(sndIdx)
        \/ Credit(r) = SeqOf(sndIdx + 1) /\ Wanted = sndIdx + 1
        \/ r = [kind |-> "N", seq |-> NoSeq] /\ sndIdx = 1
    BY <1>3
  <1>7. \A k \in 1..Len(toHost) : Credit(toHost[k]) = SeqOf(sndIdx + 1) => Wanted = sndIdx + 1
    BY <1>4 DEF HostLineInv, Credit
  <1>8. Wanted = sndIdx + 1 => Credit(r) = SeqOf(sndIdx + 1)
    BY <1>3
  <1>9. \A k \in 1..Len(toHost'), l \in 1..Len(toHost') :
          k <= l /\ Credit(toHost'[k]) = SeqOf(sndIdx + 1)
            => Credit(toHost'[l]) = SeqOf(sndIdx + 1)
    <2> SUFFICES ASSUME NEW k \in 1..Len(toHost'), NEW l \in 1..Len(toHost'),
                        k <= l, Credit(toHost'[k]) = SeqOf(sndIdx + 1)
                 PROVE  Credit(toHost'[l]) = SeqOf(sndIdx + 1)
      OBVIOUS
    <2>1. CASE l \in 1..Len(toHost)
      <3>1. k \in 1..Len(toHost)
        BY <1>1, <2>1
      <3>. QED
        BY <1>1, <2>1, <3>1 DEF HostLineInv
    <2>2. CASE l = Len(toHost) + 1 /\ k \in 1..Len(toHost)
      BY <1>1, <1>7, <1>8, <2>2
    <2>3. CASE l = Len(toHost) + 1 /\ k = Len(toHost) + 1
      BY <2>3
    <2>. QED
      BY <1>5, <2>1, <2>2, <2>3
  <1>10. \A k \in 1..Len(toHost') :
          \/ Credit(toHost'[k]) = SeqOf(sndIdx)
          \/ Credit(toHost'[k]) = SeqOf(sndIdx + 1) /\ Wanted = sndIdx + 1
          \/ toHost'[k] = [kind |-> "N", seq |-> NoSeq] /\ sndIdx = 1
    BY <1>1, <1>5, <1>6 DEF HostLineInv
  <1>. QED
    BY <1>2, <1>9, <1>10 DEF HostLineInv

\* A frame that is damaged, ahead or a duplicate changes nothing but the line.
LEMMA RecvUnwantedIInv ==
    ASSUME IInv, TypeOK', RecvBad \/ RecvAhead \/ RecvDuplicate
    PROVE  IInv'
  <1> USE DEF IInv
  <1>1. /\ TakeFrame /\ pc = "getpacket"
        /\ UNCHANGED <<kermit_seq, kermit_handler, stored, pc, sndVars>>
    BY DEF RecvBad, RecvAhead, RecvDuplicate, rcvVars, TakeFrame
  <1>2. Wanted' = Wanted /\ \A g, i : IsCopyOf(g, i)' = IsCopyOf(g, i)
    BY <1>1 DEF sndVars, Wanted, IsCopyOf
  <1>3. BoardLineInv'
    <2>1. /\ Len(toBoard') \in Nat /\ Len(toBoard) \in Nat
          /\ \A k \in 1..Len(toBoard') :
                toBoard'[k] = toBoard[k + 1] /\ k + 1 \in 1..Len(toBoard)
      BY <1>1, TakeFrameFacts
    <2>2. UNCHANGED <<sndIdx, sndState>>
      BY <1>1 DEF sndVars
    <2>3. \A k \in 1..Len(toBoard'), l \in 1..Len(toBoard') : k <= l => k + 1 <= l + 1
      BY <2>1
    <2>. QED
      BY <1>2, <2>1, <2>2, <2>3 DEF BoardLineInv
  <1>4. HostLineInv'
    <2>1. CASE RecvBad \/ RecvAhead
      <3> DEFINE r == [kind |-> "N", seq |-> kermit_seq]
      <3>1. r \in Response /\ Credit(r) = kermit_seq
        BY DEF Response, TypeOK, Credit
      <3>2. Credit(r) = SeqOf(Wanted) \/ kermit_seq = NoSeq
        BY <3>1, WantedFacts
      <3>3. toHost' = Append(toHost, r)
        BY <2>1 DEF RecvBad, RecvAhead, kermit_send_ack
      <3>. QED
        BY <1>1, <3>1, <3>2, <3>3, RespondHostLineInv
    <2>2. CASE RecvDuplicate
      <3> DEFINE h == Head(toBoard)
                 r == [kind |-> "Y", seq |-> h.seq]
      <3>1. h.seq \in 0..63
        BY <1>1, TakeFrameFacts
      <3>2. r \in Response /\ Credit(r) = NextSeq(h.seq)
        BY <3>1 DEF Response, Credit, SeqMod
      <3>3. /\ toHost' = Append(toHost, r)
            /\ kermit_seq # NoSeq /\ h.seq < kermit_seq
        BY <2>2 DEF RecvDuplicate, kermit_send_ack
      <3>4. kermit_seq = SeqOf(Wanted) /\ kermit_seq \in 0..63 /\ sndIdx \in Int
        BY <3>3, WantedFacts DEF TypeOK, SeqMod
      <3>5. h.seq # SeqOf(Wanted)
        BY <3>1, <3>3, <3>4
      <3>6. CASE IsCopyOf(h, sndIdx)
        <4>1. h.seq = SeqOf(sndIdx)
          BY <3>6 DEF IsCopyOf
        <4>2. Wanted = sndIdx + 1
          BY <4>1, <3>5, WantedFacts
        <4>. QED
          BY <1>1, <3>2, <3>3, <3>4, <4>1, <4>2, SeqOfNext, RespondHostLineInv
      <3>7. CASE IsCopyOf(h, sndIdx - 1) /\ Wanted = sndIdx
        <4>1. h.seq = SeqOf(sndIdx - 1)
          BY <3>7 DEF IsCopyOf
        <4>2. SeqOf(sndIdx - 1 + 1) = NextSeq(SeqOf(sndIdx - 1)) /\ sndIdx - 1 + 1 = sndIdx
          BY <3>4, SeqOfNext
        <4>. QED
          BY <1>1, <3>2, <3>3, <3>7, <4>1, <4>2, RespondHostLineInv
      <3>. QED
        BY <1>1, <3>6, <3>7, TakeFrameFacts
    <2>. QED
      BY <2>1, <2>2
  <1>5. HandlerInv'
    BY <1>1, <1>2 DEF HandlerInv, HandledUpTo, CancelledAt, sndVars
  <1>. QED
    BY <1>1, <1>2, <1>3, <1>4, <1>5 DEF WindowInv, StoredIsPrefix, sndVars

\* The packet that is accepted is the one the sender is on; what is behind
\* it on the line are further copies of it.
LEMMA RecvExpectedIInv ==
    ASSUME IInv, TypeOK', RecvExpected
    PROVE  IInv'
  <1> USE DEF IInv
  <1> DEFINE h == Head(toBoard)
             r == [kind |-> "Y", seq |-> h.seq]
  <1>1. /\ TakeFrame /\ pc = "getpacket" /\ kermit_seq \in {NoSeq, h.seq}
        /\ packet' = h /\ kermit_seq' = NextSeq(h.seq) /\ pc' = "dispatch"
        /\ toHost' = Append(toHost, r)
        /\ UNCHANGED <<kermit_handler, stored, sndIdx, sndState>>
    BY DEF RecvExpected, TakeFrame, kermit_send_ack, sndVars
  <1>2. sndIdx \in Int /\ sndIdx + 1 \in Int /\ sndIdx - 1 \in Int
    BY WantedFacts
  <1>3. /\ SeqOf(sndIdx) # SeqOf(sndIdx + 1) /\ SeqOf(sndIdx + 1) = NextSeq(SeqOf(sndIdx))
        /\ SeqOf(sndIdx + 1) # NoSeq /\ SeqOf(sndIdx) # NoSeq
    BY <1>2, SeqOfNext
  <1>4. SeqOf(sndIdx - 1) # SeqOf(sndIdx)
    <2>1. sndIdx - 1 + 1 = sndIdx
      BY <1>2
    <2>. QED
      BY <1>2, <2>1, SeqOfNext
  <1>5. IsCopyOf(h, sndIdx) /\ Wanted = sndIdx
    <2>1. \/ IsCopyOf(h, sndIdx)
          \/ IsCopyOf(h, sndIdx - 1) /\ Wanted = sndIdx
      BY <1>1, TakeFrameFacts
    <2>2. CASE kermit_seq = NoSeq
      <3>1. Wanted = sndIdx /\ sndIdx = 1
        BY <2>2, WantedFacts
      <3>2. ~IsCopyOf(h, sndIdx - 1)
        BY <3>1 DEF IsCopyOf
      <3>. QED
        BY <2>1, <3>1, <3>2
    <2>3. CASE kermit_seq = h.seq /\ kermit_seq # NoSeq
      <3>1. kermit_seq = SeqOf(Wanted) /\ Wanted \in {sndIdx, sndIdx + 1}
        BY <2>3, WantedFacts
      <3>2. IsCopyOf(h, sndIdx) => h.seq = SeqOf(sndIdx)
        BY DEF IsCopyOf
      <3>3. IsCopyOf(h, sndIdx - 1) => h.seq = SeqOf(sndIdx - 1)
        BY DEF IsCopyOf
      <3>. QED
        BY <1>3, <1>4, <2>1, <2>3, <3>1, <3>2, <3>3
    <2>. QED
      BY <1>1, <2>2, <2>3
  <1>6. h.seq = SeqOf(sndIdx) /\ sndIdx \in 1..Last
    BY <1>5 DEF IsCopyOf
  <1>7. kermit_seq' = SeqOf(sndIdx + 1) /\ Wanted' = sndIdx + 1
    BY <1>1, <1>3, <1>6 DEF Wanted
  <1>8. \A g, i : IsCopyOf(g, i)' = IsCopyOf(g, i)
    BY <1>1 DEF IsCopyOf
  <1>9. WindowInv' /\ StoredIsPrefix'
    BY <1>1, <1>3, <1>6, <1>7 DEF WindowInv, StoredIsPrefix
  <1>10. /\ Len(toBoard') \in Nat /\ Len(toBoard) \in Nat
         /\ h = toBoard[1] /\ 1 \in 1..Len(toBoard)
         /\ \A k \in 1..Len(toBoard') :
               toBoard'[k] = toBoard[k + 1] /\ k + 1 \in 1..Len(toBoard)
    BY <1>1, TakeFrameFacts
  <1>11. \A k \in 1..Len(toBoard') :
            IsCopyOf(toBoard'[k], sndIdx) /\ toBoard'[k].seq = SeqOf(sndIdx)
    <2> SUFFICES ASSUME NEW k \in 1..Len(toBoard')
                 PROVE  IsCopyOf(toBoard'[k], sndIdx) /\ toBoard'[k].seq = SeqOf(sndIdx)
      OBVIOUS
    <2>1. toBoard[k + 1].seq = SeqOf(sndIdx)
      <3>1. 1 <= k + 1
        BY <1>10
      <3>. QED
        BY <1>6, <1>10, <3>1 DEF BoardLineInv
    <2>2. IsCopyOf(toBoard[k + 1], sndIdx - 1) => toBoard[k + 1].seq = SeqOf(sndIdx - 1)
      BY DEF IsCopyOf
    <2>. QED
      BY <1>4, <1>10, <2>1, <2>2 DEF BoardLineInv
  <1>12. BoardLineInv'
    BY <1>1, <1>8, <1>11 DEF BoardLineInv
  <1>13. /\ Len(toHost') = Len(toHost) + 1 /\ Len(toHost) \in Nat
         /\ \A k \in 1..Len(toHost) : toHost'[k] = toHost[k]
         /\ toHost'[Len(toHost) + 1] = r
         /\ \A k \in 1..Len(toHost') : k \in 1..Len(toHost) \/ k = Len(toHost) + 1
    <2>1. r \in Response
      BY <1>1, TakeFrameFacts DEF Response, SeqMod
    <2>2. \A q \in Response :
             /\ Len(Append(toHost, q)) = Len(toHost) + 1
             /\ \A k \in 1..Len(toHost) : Append(toHost, q)[k] = toHost[k]
             /\ Append(toHost, q)[Len(toHost) + 1] = q
      BY AppendProperties DEF TypeOK
    <2>3. Len(toHost) \in Nat
      BY LenProperties DEF TypeOK
    <2>. QED
      BY <1>1, <2>1, <2>2, <2>3
  <1>14. Credit(r) = SeqOf(sndIdx + 1)
    BY <1>3, <1>6 DEF Credit
  <1>15. \A k \in 1..Len(toHost) :
            /\ Credit(toHost[k]) # SeqOf(sndIdx + 1)
            /\ \/ Credit(toHost[k]) = SeqOf(sndIdx)
               \/ toHost[k] = [kind |-> "N", seq |-> NoSeq] /\ sndIdx = 1
    BY <1>2, <1>3, <1>5 DEF HostLineInv, Credit
  <1>16. HostLineInv'
    <2>1. \A k \in 1..Len(toHost') :
             \/ Credit(toHost'[k]) = SeqOf(sndIdx)
             \/ Credit(toHost'[k]) = SeqOf(sndIdx + 1)
             \/ toHost'[k] = [kind |-> "N", seq |-> NoSeq] /\ sndIdx = 1
      BY <1>13, <1>14, <1>15
    <2>2. \A k \in 1..Len(toHost') :
             Credit(toHost'[k]) = SeqOf(sndIdx + 1) => k = Len(toHost) + 1
      BY <1>13, <1>15
    <2>3. \A k, l \in 1..Len(toHost') : k <= l /\ k = Len(toHost) + 1 => l = k
      BY <1>13
    <2>. QED
      BY <1>1, <1>7, <2>1, <2>2, <2>3 DEF HostLineInv
  <1>17. HandlerInv'
    <2>1. HandledUpTo(sndIdx)
      BY <1>1, <1>2, <1>5 DEF HandlerInv
    <2>2. HandledUpTo(Wanted - 1)'
      BY <1>1, <1>2, <1>7, <2>1 DEF HandledUpTo
    <2>3. \/ h = Packet(sndIdx)
          \/ h = ErrorPacket(sndIdx) /\ sndState # "sending"
      BY <1>5 DEF IsCopyOf
    <2>4. \A i : Packet(i)' = Packet(i) /\ ErrorPacket(i)' = ErrorPacket(i)
      BY DEF Packet, ErrorPacket, Payload, SeqOf
    <2>5. Wanted' - 1 = sndIdx
      BY <1>2, <1>7
    <2>6. \/ packet' = Packet(Wanted' - 1)
          \/ packet' = ErrorPacket(Wanted' - 1) /\ sndState # "sending"
      BY <1>1, <2>3, <2>5
    <2>7. CancelledAt(sndIdx)' <=> sndState # "sending"
      BY <1>1, <1>7 DEF CancelledAt
    <2>. QED
      BY <1>1, <2>2, <2>5, <2>6, <2>7 DEF HandlerInv, CancelledAt
  <1>. QED
    BY <1>9, <1>12, <1>16, <1>17

-----------------------------------------------------------------------------
\* Handling a packet of the batch takes the handler and the memory from
\* before that packet to after it, and ends the transfer only at the BREAK.
LEMMA DispatchPacket ==
    ASSUME TypeOK, Dispatch, NEW i \in 1..Last,
           HandledUpTo(i), packet = Packet(i), StoredIsPrefix
    PROVE  /\ HandledUpTo(i + 1)'
           /\ pc' = IF i = Last THEN "done" ELSE "getpacket"
           /\ StoredIsPrefix'
  <1>1. /\ packet.type = PktType[i] /\ packet.data = Payload(i)
        /\ PktType[i] \in {"S", "F", "A", "D", "Z", "B"}
    BY BatchAssumption DEF Packet
  <1>2. /\ i + 1 \in 1..(Last + 1) /\ i \in Int /\ Last \in Nat
        /\ i = Last => PktType[i] = "B"
        /\ PktType[i] = "B" => i = Last
    BY BatchAssumption
  <1>3. \/ i = 1 /\ PktType[i] = "S" /\ kermit_handler = "kermit_r"
        \/ PktType[i] \in {"F", "B"} /\ kermit_handler = "kermit_rf"
        \/ PktType[i] \in {"A", "D", "Z"} /\ kermit_handler = "kermit_rd"
    <2>1. CASE i = 1
      BY <2>1, BatchAssumption DEF HandledUpTo
    <2>2. CASE i # 1
      <3>1. i - 1 \in 1..(Last - 1) /\ i - 1 \in 1..Last /\ i - 1 + 1 = i
        BY <2>2, <1>2
      <3>2. <<PktType[i - 1], PktType[i]>> \in FollowedBy
        BY <3>1, BatchAssumption
      <3>3. PktType[i - 1] # "B"
        BY <3>1, BatchAssumption
      <3>4. kermit_handler = IF PktType[i - 1] \in {"S", "Z", "B"} THEN "kermit_rf" ELSE "kermit_rd"
        BY <2>2 DEF HandledUpTo
      <3>. QED
        BY <3>2, <3>3, <3>4 DEF FollowedBy
    <2>. QED
      BY <2>1, <2>2
  <1>4. /\ kermit_handler' = IF PktType[i] \in {"S", "Z", "B"} THEN "kermit_rf" ELSE "kermit_rd"
        /\ pc' = IF i = Last THEN "done" ELSE "getpacket"
        /\ stored' = IF PktType[i] = "D" THEN stored \o Payload(i) ELSE stored
    BY <1>1, <1>2, <1>3 DEF Dispatch, kermit_r, kermit_rf, kermit_rd
  <1>5. /\ Len(stored) = Offset[i] /\ Offset[i] \in 0..Len(Image)
        /\ Offset[i + 1] \in 0..Len(Image) /\ Len(Image) \in Nat
        /\ PktType[i] # "D" => Offset[i + 1] = Offset[i]
    <2>1. Len(Image) \in Nat
      BY ImageAssumption, LenProperties
    <2>2. i \in 1..(Last + 1)
      BY <1>2
    <2>. QED
      BY <1>2, <2>1, <2>2, ImageAssumption DEF HandledUpTo
  <1>6. PktType[i] = "D" =>
           /\ Len(stored') = Offset[i + 1]
           /\ \A a \in 1..Len(stored') : stored'[a] = Image[a]
    <2> SUFFICES ASSUME PktType[i] = "D"
                 PROVE  /\ Len(stored') = Offset[i + 1]
                        /\ \A a \in 1..Len(stored') : stored'[a] = Image[a]
      OBVIOUS
    <2> DEFINE data == Payload(i)
    <2>1. /\ data \in Seq(Byte) /\ Len(data) = Offset[i + 1] - Offset[i]
          /\ \A a \in 1..Len(data) : data[a] = Image[Offset[i] + a]
      BY PayloadIsSlice
    <2>2. stored \in Seq(Byte)
      BY DEF TypeOK
    <2>3. /\ Len(stored \o data) = Len(stored) + Len(data)
          /\ \A a \in 1..(Len(stored) + Len(data)) :
                (stored \o data)[a] = IF a <= Len(stored) THEN stored[a]
                                                          ELSE data[a - Len(stored)]
      <3> HIDE DEF data
      <3>. QED
        BY <2>1, <2>2, ConcatProperties
    <2>4. stored' = stored \o data
      BY <1>4
    <2>5. Len(stored') = Offset[i + 1]
      BY <1>5, <2>1, <2>3, <2>4
    <2>6. ASSUME NEW a \in 1..Len(stored')
          PROVE  stored'[a] = Image[a]
      <3> HIDE DEF data
      <3>1. a \in 1..(Len(stored) + Len(data)) /\ a \in Int
        BY <1>5, <2>1, <2>5
      <3>2. CASE a <= Len(stored)
        <4>1. a \in 1..Len(stored)
          BY <1>5, <3>1, <3>2
        <4>. QED
          BY <2>3, <2>4, <3>1, <3>2, <4>1 DEF StoredIsPrefix
      <3>3. CASE ~(a <= Len(stored))
        <4>1. a - Len(stored) \in 1..Len(data) /\ Offset[i] + (a - Len(stored)) = a
          BY <1>5, <2>1, <3>1, <3>3
        <4>. QED
          BY <2>1, <2>3, <2>4, <3>1, <3>3, <4>1
      <3>. QED
        BY <3>2, <3>3
    <2>. QED
      BY <2>5, <2>6
  <1>7. Len(stored') = Offset[i + 1] /\ StoredIsPrefix'
    <2>1. CASE PktType[i] = "D"
      BY <1>5, <1>6, <2>1 DEF StoredIsPrefix
    <2>2. CASE PktType[i] # "D"
      BY <1>4, <1>5, <2>2 DEF StoredIsPrefix
    <2>. QED
      BY <2>1, <2>2
  <1>8. i + 1 # 1 /\ i + 1 - 1 = i
    BY <1>2
  <1>. QED
    BY <1>2, <1>4, <1>7, <1>8 DEF HandledUpTo

\* No handler does anything on an error packet.
LEMMA DispatchError ==
    ASSUME Dispatch, packet.type = "E"
    PROVE  pc' = "getpacket" /\ UNCHANGED <<kermit_handler, stored>>
  BY DEF Dispatch, kermit_r, kermit_rf, kermit_rd

\* Handling the accepted packet.
LEMMA DispatchIInv ==
    ASSUME IInv, TypeOK', Dispatch
    PROVE  IInv'
  <1> USE DEF IInv
  <1>1. /\ pc = "dispatch" /\ pc' \in {"getpacket", "done"}
        /\ UNCHANGED <<kermit_seq, packet, toBoard, toHost, sndIdx, sndState>>
    BY DEF Dispatch, kermit_r, kermit_rf, kermit_rd, sndVars
  <1>2. Wanted' = Wanted /\ \A g, i : IsCopyOf(g, i)' = IsCopyOf(g, i)
    BY <1>1 DEF Wanted, IsCopyOf
  <1>3. BoardLineInv' /\ HostLineInv'
    BY <1>1, <1>2 DEF BoardLineInv, HostLineInv
  <1>4. kermit_seq # NoSeq
    BY <1>1 DEF WindowInv
  <1>5. WindowInv'
    BY <1>1, <1>4 DEF WindowInv
  <1>6. Wanted \in Int /\ HandledUpTo(Wanted - 1)
    BY <1>1, WantedFacts DEF HandlerInv
  <1> PICK i \in Int : i = Wanted - 1
    BY <1>6
  <1>7. i \in 1..Last /\ i + 1 = Wanted /\ HandledUpTo(i) /\ Wanted' = i + 1
    <2>1. sndIdx \in 1..(Last + 1) /\ Last \in Nat
      BY BatchAssumption DEF TypeOK
    <2>. QED
      BY <1>2, <1>6, <2>1, WantedFacts DEF HandledUpTo
  <1>8. CASE packet = Packet(i)
    <2>1. /\ HandledUpTo(i + 1)' /\ StoredIsPrefix'
          /\ pc' = IF i = Last THEN "done" ELSE "getpacket"
      BY <1>7, <1>8, DispatchPacket
    <2>2. Wanted' = Last + 1 <=> i = Last
      BY <1>7, BatchAssumption
    <2>3. HandlerInv'
      BY <1>1, <1>7, <2>1, <2>2, BatchAssumption DEF HandlerInv
    <2>. QED
      BY <1>3, <1>5, <2>1, <2>3
  <1>9. CASE packet = ErrorPacket(i) /\ CancelledAt(i)
    <2>1. packet.type = "E"
      BY <1>9 DEF ErrorPacket
    <2>2. pc' = "getpacket" /\ UNCHANGED <<kermit_handler, stored>>
      BY <2>1, DispatchError
    <2>3. CancelledAt(sndIdx)' /\ HandledUpTo(sndIdx)'
      BY <1>1, <1>2, <1>7, <1>9, <2>2 DEF CancelledAt, HandledUpTo
    <2>4. HandlerInv' /\ StoredIsPrefix'
      BY <2>2, <2>3 DEF HandlerInv, StoredIsPrefix
    <2>. QED
      BY <1>3, <1>5, <2>4
  <1>. QED
    BY <1>1, <1>8, <1>9 DEF HandlerInv

-----------------------------------------------------------------------------
\* Every step of kermit_recv(), the sender and the line keeps the invariant.
LEMMA StepIInv == IInv /\ [Next]_vars => IInv'
  <1> SUFFICES ASSUME IInv, [Next]_vars PROVE IInv'
    OBVIOUS
  <1>1. TypeOK'
    BY StepTypeOK DEF IInv
  <1>2. CASE SenderTransmit
    BY <1>1, <1>2, SenderTransmitIInv
  <1>3. CASE SenderHear
    BY <1>1, <1>3, SenderHearIInv
  <1>4. CASE SenderCancel \/ SenderGiveUp
    BY <1>1, <1>4, SenderStopsIInv
  <1>5. CASE LineLosesFrame \/ LineLosesResponse
    BY <1>1, <1>5, LineLosesIInv
  <1>6. CASE RecvBad \/ RecvAhead \/ RecvDuplicate
    BY <1>1, <1>6, RecvUnwantedIInv
  <1>7. CASE RecvExpected
    BY <1>1, <1>7, RecvExpectedIInv
  <1>8. CASE Dispatch
    BY <1>1, <1>8, DispatchIInv
  <1>9. CASE UNCHANGED vars
    BY <1>9 DEF vars, rcvVars, sndVars, IInv, TypeOK, StoredIsPrefix, WindowInv,
                BoardLineInv, HostLineInv, HandlerInv, Wanted, IsCopyOf, HandledUpTo,
                CancelledAt
  <1>. QED
    BY <1>2, <1>3, <1>4, <1>5, <1>6, <1>7, <1>8, <1>9 DEF Next

\* The inductive invariant is an invariant.
THEOREM IInvCorrect == Spec => []IInv
  BY InitIInv, StepIInv, PTL DEF Spec

\* Memory at the load address is always a prefix of the batch: kermit_recv()
\* never stores a packet twice, skips one or takes one for another.
THEOREM StoredIsPrefixCorrect == Spec => []StoredIsPrefix
  <1>1. IInv => StoredIsPrefix
    BY DEF IInv
  <1>. QED
    BY <1>1, IInvCorrect, PTL

\* What the invariant says at the end of the transfer.
LEMMA DoneFacts ==
    ASSUME IInv, pc = "done"
    PROVE  stored = Image
  <1> USE DEF IInv
  <1>1. /\ stored \in Seq(Byte) /\ Image \in Seq(Byte)
        /\ Len(stored) = Len(Image)
    BY ImageAssumption DEF TypeOK, HandlerInv, HandledUpTo
  <1>2. \A a \in 1..Len(stored) : stored[a] = Image[a]
    BY DEF StoredIsPrefix
  <1>. QED
    BY <1>1, <1>2, SeqEqual

\* loadb reports success only with the whole batch in memory.
THEOREM CompleteWhenDoneCorrect == Spec => []CompleteWhenDone
  <1>1. IInv => CompleteWhenDone
    BY DoneFacts DEF CompleteWhenDone
  <1>. QED
    BY <1>1, IInvCorrect, PTL

\* A packet the sender saw acknowledged is in memory once the handler ran.
THEOREM AckedIsStoredCorrect == Spec => []AckedIsStored
  <1>1. IInv => AckedIsStored
    <2> SUFFICES ASSUME IInv, pc # "dispatch" PROVE Len(stored) >= Offset[sndIdx]
      BY DEF AckedIsStored
    <2> USE DEF IInv
    <2>1. /\ sndIdx \in 1..(Last + 1) /\ Last \in Nat /\ pc \in {"getpacket", "done"}
          /\ Len(Image) \in Nat
      BY BatchAssumption, ImageAssumption, LenProperties DEF TypeOK
    <2>2. Wanted \in {sndIdx, sndIdx + 1} /\ (Wanted = sndIdx + 1 => sndIdx <= Last)
      BY WantedFacts
    <2>3. Offset[sndIdx] \in Int /\ (sndIdx <= Last => Offset[sndIdx + 1] \in Int)
      BY <2>1, ImageAssumption
    <2>4. sndIdx <= Last => Offset[sndIdx] <= Offset[sndIdx + 1]
      BY <2>1, ImageAssumption
    <2>5. Len(stored) = Offset[Wanted] \/ Len(stored) = Offset[sndIdx]
      BY <2>1 DEF HandlerInv, HandledUpTo
    <2>. QED
      BY <2>2, <2>3, <2>4, <2>5
  <1>. QED
    BY <1>1, IInvCorrect, PTL

\* The sender is done with a batch only when the board is.
THEOREM SenderDoneOnlyAfterBoardCorrect == Spec => []SenderDoneOnlyAfterBoard
  <1>1. IInv => SenderDoneOnlyAfterBoard
    <2> SUFFICES ASSUME IInv, sndIdx = Last + 1
                 PROVE  \/ pc = "done"
                        \/ /\ pc = "dispatch" /\ packet.type = "B"
                           /\ kermit_handler = "kermit_rf"
      BY DEF SenderDoneOnlyAfterBoard
    <2> USE DEF IInv
    <2>1. Last \in Nat /\ Last >= 2 /\ PktType[Last] = "B" /\ pc \in {"getpacket", "dispatch", "done"}
      BY BatchAssumption DEF TypeOK
    <2>2. Wanted = Last + 1 /\ ~(Wanted = sndIdx + 1)
      BY <2>1, WantedFacts
    <2>3. pc # "getpacket"
      BY <2>2 DEF HandlerInv, CancelledAt
    <2>4. CASE pc = "dispatch"
      <3>1. Wanted - 1 = Last /\ Wanted - 1 # sndIdx
        BY <2>1, <2>2
      <3>2. packet = Packet(Last) /\ HandledUpTo(Last)
        BY <2>4, <3>1 DEF HandlerInv, CancelledAt
      <3>3. packet.type = "B"
        BY <3>2, <2>1 DEF Packet
      <3>4. Last - 1 \in 1..(Last - 1) /\ Last - 1 + 1 = Last
        BY <2>1
      <3>5. <<PktType[Last - 1], "B">> \in FollowedBy
        BY <2>1, <3>4, BatchAssumption
      <3>6. PktType[Last - 1] \in {"S", "Z"}
        BY <3>5 DEF FollowedBy
      <3>7. kermit_handler = "kermit_rf"
        BY <2>1, <3>2, <3>6 DEF HandledUpTo
      <3>. QED
        BY <2>4, <3>3, <3>7
    <2>. QED
      BY <2>1, <2>3, <2>4
  <1>. QED
    BY <1>1, IInvCorrect, PTL

-----------------------------------------------------------------------------
StoredIsSubSeq ==
    /\ Len(stored) \in 0..Len(Image)
    /\ stored = SubSeq(Image, 1, Len(stored))

\* A prefix of the batch is one of its initial subsequences.
LEMMA PrefixIsSubSeq ==
    ASSUME TypeOK, StoredIsPrefix
    PROVE  StoredIsSubSeq
  <1>1. stored \in Seq(Byte) /\ Image \in Seq(Byte)
    BY ImageAssumption DEF TypeOK
  <1>2. Len(stored) \in Nat /\ Len(Image) \in Nat /\ Len(stored) <= Len(Image)
    BY <1>1, LenProperties DEF StoredIsPrefix
  <1> DEFINE n == Len(stored)
             p == SubSeq(Image, 1, n)
  <1>3. \A a \in 1..n : Image[a] \in Byte
    BY <1>1, <1>2, ElementOfSeq
  <1>4. /\ p \in Seq(Byte) /\ Len(p) = IF 1 <= n THEN n - 1 + 1 ELSE 0
        /\ \A a \in 1..(n - 1 + 1) : p[a] = Image[1 + a - 1]
    <2>1. n \in Int /\ 1 \in Int
      BY <1>2
    <2> HIDE DEF n
    <2>. QED
      BY <1>3, <2>1, SubSeqProperties
  <1>5. Len(p) = n /\ \A a \in 1..n : p[a] = Image[a]
    <2>1. \A a \in 1..n : a \in 1..(n - 1 + 1) /\ 1 + a - 1 = a
      BY <1>2
    <2>. QED
      BY <1>2, <1>4, <2>1
  <1>6. \A a \in 1..n : stored[a] = p[a]
    BY <1>5 DEF StoredIsPrefix
  <1>. QED
    BY <1>1, <1>2, <1>4, <1>5, <1>6, SeqEqual DEF StoredIsSubSeq

\* kermit_recv() implements the abstract transfer: what it stores only ever
\* grows along the batch, and it reports only the whole of it.
THEOREM Refinement == Spec => Transfer
  <1>1. Init => FT!Init
    BY DEF Init, FT!Init
  <1>2. IInv => CompleteWhenDone /\ StoredIsSubSeq
    BY DoneFacts, PrefixIsSubSeq DEF IInv, CompleteWhenDone
  <1>3. IInv' => CompleteWhenDone' /\ StoredIsSubSeq'
    BY <1>2, PTL
  <1>4. IInv /\ IInv' /\ [Next]_vars => [FT!Next]_<<stored, (pc = "done")>>
    <2> SUFFICES ASSUME IInv, IInv', [Next]_vars
                 PROVE  [FT!Next]_<<stored, (pc = "done")>>
      OBVIOUS
    <2>1. CASE Dispatch
      <3>1. pc = "dispatch" /\ pc' \in {"getpacket", "done"}
        BY <2>1 DEF Dispatch, kermit_r, kermit_rf, kermit_rd
      <3>2. CASE pc' = "done"
        <4>1. stored' = stored
          BY <2>1, <3>2 DEF Dispatch, kermit_r, kermit_rf, kermit_rd
        <4>. QED
          BY <3>1, <3>2, <4>1, <1>3 DEF CompleteWhenDone, FT!Next, FT!Report
      <3>3. CASE pc' = "getpacket" /\ stored' = stored
        BY <3>1, <3>3
      <3>4. CASE pc' = "getpacket" /\ stored' = stored \o packet.data
        <4>1. Len(stored') \in 0..Len(Image) /\ stored' = SubSeq(Image, 1, Len(stored'))
          BY <1>3 DEF StoredIsSubSeq
        <4>2. Len(stored') = Len(stored) + Len(packet.data) /\ Len(packet.data) \in Nat
              /\ Len(stored) \in Nat
          <5>1. stored \in Seq(Byte) /\ packet.data \in Seq(Byte)
            BY DEF IInv, TypeOK, Frame
          <5>. QED
            BY <3>4, <5>1, ConcatProperties, LenProperties
        <4>3. Len(stored') \in Len(stored)..Len(Image)
          BY <4>1, <4>2
        <4>. QED
          BY <3>1, <3>4, <4>1, <4>3 DEF FT!Next, FT!Extend
      <3>. QED
        BY <2>1, <3>1, <3>2, <3>3, <3>4 DEF Dispatch, kermit_r, kermit_rf, kermit_rd
    <2>2. CASE ~Dispatch
      <3>1. stored' = stored /\ ((pc = "done") <=> (pc' = "done"))
        BY <2>2 DEF Next, vars, rcvVars, SenderTransmit, SenderHear, SenderCancel, SenderGiveUp,
                    LineLosesFrame, LineLosesResponse, RecvBad, RecvAhead, RecvDuplicate,
                    RecvExpected, TakeFrame
      <3>. QED
        BY <3>1
    <2>. QED
      BY <2>1, <2>2
  <1>. QED
    BY <1>1, <1>4, IInvCorrect, PTL DEF Spec, FT!Spec, Transfer
=============================================================================
