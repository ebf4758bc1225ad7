------------------------------- MODULE MCUsb -------------------------------
(***************************************************************************)
(* A small instance of UsbEp0: a descriptor of three packets, of which the *)
(* last is short, read whole or in its first packet; each kind of request  *)
(* that is accepted, refused by its name, its state or its type; and one   *)
(* that sends data.                                                        *)
(***************************************************************************)
EXTENDS UsbEp0, TLC

MCDescriptors == 1 :> 5
MCRequests == {
    Request(TRUE, "GET_DESCRIPTOR", 1, TRUE, 9),
    Request(TRUE, "GET_DESCRIPTOR", 1, TRUE, 2),
    Request(TRUE, "GET_DESCRIPTOR", 2, TRUE, 9),
    Request(TRUE, "GET_STATUS", 0, TRUE, 2),
    Request(TRUE, "SET_ADDRESS", 5, FALSE, 0),
    Request(TRUE, "SET_CONFIGURATION", 1, FALSE, 0),
    Request(TRUE, "SET_DESCRIPTOR", 1, FALSE, 0),
    Request(TRUE, "SET_DESCRIPTOR", 1, FALSE, 4),
    Request(FALSE, "CLASS", 0, TRUE, 2)}

ASSUME TheHostAsksEnough == AsksEnough
=============================================================================
