------------------------------ MODULE MCKermit ------------------------------
(***************************************************************************)
(* Two files in one batch, seven bytes in three data packets, numbered so  *)
(* that the six-bit sequence number wraps inside the first file.           *)
(***************************************************************************)
EXTENDS Kermit

MCByte == 1..7
MCImage == <<3, 1, 4, 1, 5, 2, 6>>
MCPktType == <<"S", "F", "A", "D", "D", "Z", "F", "D", "Z", "B">>
MCLast == Len(MCPktType)
MCOffset == <<0, 0, 0, 0, 2, 5, 5, 5, 7, 7, 7>>
=============================================================================
