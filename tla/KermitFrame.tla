----------------------------- MODULE KermitFrame -----------------------------
(***************************************************************************)
(* The characters of a Kermit packet: what kermit_getpacket() of           *)
(* src/src/cmd/cmd_kermit.c makes of them, and those kermit_send_ack()     *)
(* sends.  Kermit.tla takes packets whole and trusts the check; here is    *)
(* why it may.  The sender at the other end and the line are external: a   *)
(* packet comes as it was sent, with one bit of one character behind the   *)
(* length changed, or without one of those characters.                     *)
(***************************************************************************)
EXTENDS Integers, Sequences, SequencesExt

CONSTANTS
    Payloads,   \* the data of packets
    Seqs,       \* sequence numbers
    Types       \* packet types, as characters

ASSUME KermitFrameAssumption ==
    /\ \A p \in Payloads : p \in Seq(0..255) /\ 2 * Len(p) <= 91
    /\ Seqs \subseteq 0..63 /\ Types \subseteq 65..90

VARIABLES
    meant,      \* the packet as the other end, or the board, meant it
    intact,     \* whether its characters came as they were sent
    got         \* what was read from them

frameVars == <<meant, intact, got>>

ByteOf(n) == n % 256
TOCHAR(a) == ByteOf(a + 32)
UNCHAR(a) == ByteOf(a - 32)
MARK == 1
EOL == 13
Quote == 35

NoPacket == [seq |-> 0, type |-> 0, data |-> <<>>]
Reads(p) == [result |-> "packet", packet |-> p]
Refused == [result |-> "refused", packet |-> NoPacket]
Waiting == [result |-> "waiting", packet |-> NoPacket]   \* for characters that do not come

FrameInit == meant = NoPacket /\ intact = TRUE /\ got = Reads(NoPacket)

-----------------------------------------------------------------------------
\* The sum of bytes is a byte; its two highest bits are added to the others.
Sum(chars) == FoldLeft(LAMBDA s, c : ByteOf(s + c), 0, chars)
\* Mutant: the operators bind as in the line the code has left as a comment.
CheckUnfolded(s) == TOCHAR(s % 64)
Check(s) == TOCHAR((s + s \div 64) % 64)

\* A quoted character that is 64 to 95, or that with the highest bit, or 63, or that with
\* the highest bit, stands for a control character; any other one for itself.
Unquoted(c) ==
    IF c % 128 \in 64..95 THEN c - 64 ELSE IF c % 128 = 63 THEN c + 64 ELSE c

\* The loop over the data: n characters, and one more where the n-th is a '#'.
TakeChar(n, r, c) ==
    IF r.quoted THEN [i |-> r.i + 1, quoted |-> FALSE, data |-> Append(r.data, Unquoted(c))]
    ELSE IF r.i >= n THEN r
    ELSE IF c = Quote THEN [r EXCEPT !.i = @ + 1, !.quoted = TRUE]
    ELSE [r EXCEPT !.i = @ + 1, !.data = Append(@, c)]
TakeData(chars, n) ==
    FoldLeft(LAMBDA r, c : TakeChar(n, r, c), [i |-> 0, quoted |-> FALSE, data |-> <<>>], chars)

\* What stands in front of the mark is skipped.  packet_len - 3 is an int: it is negative
\* for a length below three, and no data is taken.
kermit_getpacket(line) ==
    LET p == SelectInSeq(line, LAMBDA c : c = MARK)
        behind == SubSeq(line, p + 4, Len(line))
        r == TakeData(behind, UNCHAR(line[p + 1]) - 3)
        sum == Sum(SubSeq(line, p + 1, p + 3 + r.i))
    IN IF p = 0 \/ Len(line) < p + 4 + r.i \/ r.quoted THEN Waiting
       ELSE IF line[p + 4 + r.i] # Check(sum) THEN Refused
       ELSE Reads([seq |-> UNCHAR(line[p + 2]), type |-> line[p + 3], data |-> r.data])

\* The answer carries no data; remote_eof is what the S packet asked for.
kermit_send_ack(type, seq, remote_eof) ==
    LET data == <<TOCHAR(3), TOCHAR(seq), type>>
    IN <<MARK>> \o data \o <<Check(Sum(data)), remote_eof>>

-----------------------------------------------------------------------------
\* The other end: control characters and '#' are quoted, the length counts what follows it.
Control(c) == c % 128 \in 0..31 \cup {127}
Quoted(c) ==
    IF Control(c) THEN <<Quote, IF c % 128 = 127 THEN c - 64 ELSE c + 64>>
    ELSE IF c % 128 = Quote THEN <<Quote, c>> ELSE <<c>>
Encoded(p) ==
    LET data == FlattenSeq([i \in 1..Len(p.data) |-> Quoted(p.data[i])])
        counted == <<TOCHAR(Len(data) + 3), TOCHAR(p.seq), p.type>> \o data
    IN <<MARK>> \o counted \o <<Check(Sum(counted)), EOL>>

FlipBit(c, b) == IF (c \div b) % 2 = 0 THEN c + b ELSE c - b

\* Sooner or later the other end sends again, and the next mark follows.
Comes(p, line, whole) ==
    /\ meant = NoPacket
    /\ meant' = p /\ intact' = whole /\ got' = kermit_getpacket(Append(line, MARK))

\* What is left of earlier lines, their end, stands in front.
Clean(p) == Comes(p, <<EOL>> \o Encoded(p), TRUE)
Flipped(p, k, b) == Comes(p, [Encoded(p) EXCEPT ![k] = FlipBit(@, b)], FALSE)
CharLost(p, k) == Comes(p, RemoveAt(Encoded(p), k), FALSE)
Acked(p, eof) == p.data = <<>> /\ Comes(p, kermit_send_ack(p.type, p.seq, eof), TRUE)

FrameNext == \E p \in [seq : Seqs, type : Types, data : Payloads] :
    \/ Clean(p)
    \/ \E k \in 3..Len(Encoded(p)) - 1 :
         CharLost(p, k) \/ \E b \in {1, 2, 4, 8, 16, 32, 64, 128} : Flipped(p, k, b)
    \/ \E eof \in {0, EOL} : Acked(p, eof)

-----------------------------------------------------------------------------
\* kermit_getpacket() takes a packet as it was meant when its characters come as they were
\* sent, with any of them quoted, and refuses one of which a bit changed or a character
\* was lost behind the length: also when that makes or unmakes a '#', so that the check
\* is looked for one or two characters further on, and the next packet's mark is taken.
\* What kermit_send_ack() sends reads the same way.
FramesDecode == got = IF intact THEN Reads(meant) ELSE Refused
=============================================================================
