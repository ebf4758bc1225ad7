---------------------------- MODULE FileTransfer ----------------------------
(***************************************************************************)
(* What the serial download promises, without packets, numbers or lines:   *)
(* the memory at the load address grows by whole pieces of the batch, in   *)
(* order, and the command reports success only once it holds all of it.    *)
(***************************************************************************)
EXTENDS Integers, Sequences

CONSTANT Image   \* the contents of the batch, a sequence of bytes

VARIABLES received, reported

Init == received = <<>> /\ reported = FALSE

\* Some more of the batch arrives.
Extend ==
    /\ ~reported
    /\ \E n \in Len(received)..Len(Image) : received' = SubSeq(Image, 1, n)
    /\ UNCHANGED reported

\* "%d bytes loaded!"
Report ==
    /\ ~reported /\ received = Image
    /\ reported' = TRUE
    /\ UNCHANGED received

Next == Extend \/ Report

Spec == Init /\ [][Next]_<<received, reported>>
=============================================================================
