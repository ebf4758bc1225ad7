----------------------------- MODULE FileReader -----------------------------
(***************************************************************************)
(* What a read-only file promises its reader: bytes of the file opened, in *)
(* order, from the position on, as many as asked for and there are.  No    *)
(* sectors, no clusters, no tables.                                        *)
(***************************************************************************)
EXTENDS Integers, Sequences

CONSTANT Contents   \* the files there are, as sequences of bytes

Closed == -1    \* no position, no request

VARIABLES content, pos, wanted, got

Init == content = <<>> /\ pos = Closed /\ wanted = Closed /\ got = <<>>

Open ==
    /\ wanted = Closed
    /\ content' \in Contents
    /\ pos' = 0
    /\ UNCHANGED <<wanted, got>>

Close ==
    /\ wanted = Closed
    /\ content' = <<>> /\ pos' = Closed /\ got' = <<>>
    /\ UNCHANGED wanted

Seek ==
    /\ pos # Closed /\ wanted = Closed
    /\ pos' \in 0..Len(content)
    /\ UNCHANGED <<content, wanted, got>>

Ask ==
    /\ pos # Closed /\ wanted = Closed
    /\ wanted' \in Nat
    /\ got' = <<>>
    /\ UNCHANGED <<content, pos>>

\* As many bytes as were asked for and are left.
Available == IF wanted < Len(content) - pos THEN wanted ELSE Len(content) - pos

Answer ==
    /\ wanted # Closed
    /\ got' = SubSeq(content, pos + 1, pos + Available)
    /\ pos' = pos + Available
    /\ wanted' = Closed
    /\ UNCHANGED content

Next == Open \/ Close \/ Seek \/ Ask \/ Answer

Spec == Init /\ [][Next]_<<content, pos, wanted, got>>
=============================================================================
