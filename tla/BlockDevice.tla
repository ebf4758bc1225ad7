---------------------------- MODULE BlockDevice ----------------------------
(***************************************************************************)
(* What a block device promises the file system above it                   *)
(* (src/inc/blkdev.h): once a medium is set up, a read returns how many of *)
(* the blocks asked for it delivered, and those are that medium's blocks,  *)
(* in order.  No commands, no addresses, no bus.  A device may fail, or    *)
(* lose its medium; it never delivers another block.                       *)
(***************************************************************************)
EXTENDS Integers, Sequences

CONSTANTS
    Media,      \* the media there may be
    NoMedium,   \* not a medium
    NoRequest   \* not a request

VARIABLES medium, request, got

Init == medium = NoMedium /\ request = NoRequest /\ got = <<>>

SetUp == medium = NoMedium /\ medium' \in Media /\ UNCHANGED <<request, got>>

TakeDown ==
    /\ medium # NoMedium /\ request = NoRequest
    /\ medium' = NoMedium /\ got' = <<>>
    /\ UNCHANGED request

Ask ==
    /\ medium # NoMedium /\ request = NoRequest
    /\ request' \in [start : Nat, count : Nat]
    /\ got' = <<>>
    /\ UNCHANGED medium

Answer ==
    /\ request # NoRequest
    /\ \E n \in 0..request.count :
          got' = [k \in 1..n |-> <<medium, request.start + k - 1>>]
    /\ request' = NoRequest
    /\ UNCHANGED medium

Next == SetUp \/ TakeDown \/ Ask \/ Answer

Spec == Init /\ [][Next]_<<medium, request, got>>
=============================================================================
