------------------------------ MODULE BulkPipe ------------------------------
(***************************************************************************)
(* What the receiving bulk endpoints promise their user: a request for a   *)
(* number of bytes is filled with what the host sent to its endpoint, in   *)
(* order.  It is complete when it is full or with a packet shorter than    *)
(* the largest, and only a request that is full may lose the rest of a     *)
(* packet.                                                                 *)
(***************************************************************************)
EXTENDS Naturals, Sequences

CONSTANTS Pipes, Bytes, PacketSize, Sizes

VARIABLES
    flight,     \* per pipe: packets sent by the host and not yet taken
    room,       \* per pipe: what the request under way asked for; 0 without one
    got         \* per pipe: the bytes it was given

pipeVars == <<flight, room, got>>

Init == flight = [p \in Pipes |-> <<>>] /\ room = [p \in Pipes |-> 0]
        /\ got = [p \in Pipes |-> <<>>]

Put(p) ==
    /\ UNCHANGED <<room, got>>
    /\ \E n \in 0..PacketSize : \E packet \in [1..n -> Bytes] :
         flight' = [flight EXCEPT ![p] = Append(@, packet)]

Ask(p) == \E n \in Sizes :
    /\ room[p] = 0
    /\ room' = [room EXCEPT ![p] = n] /\ got' = [got EXCEPT ![p] = <<>>]
    /\ UNCHANGED flight

\* A request for n bytes that has some is given the first packet in flight.
Give(p, n, some) ==
    /\ flight[p] # <<>> /\ Head(flight[p]) # <<>>
    /\ flight' = [flight EXCEPT ![p] = Tail(@)]
    /\ LET packet == Head(flight[p])
       IN \E k \in 1..Len(packet) :
            /\ got' = [got EXCEPT ![p] = some \o SubSeq(packet, 1, k)]
            /\ k < Len(packet) => Len(some) + k = n
            /\ room' = [room EXCEPT ![p] =
                 IF Len(some) + k = n \/ Len(packet) < PacketSize THEN 0 ELSE n]

Get(p) == room[p] > 0 /\ Give(p, room[p], got[p])
AskAndGet(p) == \E n \in Sizes : room[p] = 0 /\ Give(p, n, <<>>)

Next == \E p \in Pipes : Put(p) \/ Ask(p) \/ Get(p) \/ AskAndGet(p)
Spec == Init /\ [][Next]_pipeVars
=============================================================================
