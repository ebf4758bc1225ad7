----------------------------- MODULE MCDrivers -----------------------------
(***************************************************************************)
(* Small instances of UsbBulk and SdiHost in one run.  The two drivers     *)
(* share nothing, so a behaviour is one of the first or one of the second. *)
(* The function driver sets up two endpoints that receive, or one of each  *)
(* direction with the same number.                                         *)
(***************************************************************************)
EXTENDS UsbBulk, SdiHost

VARIABLE part

vars == <<part, bulkVars, sdiVars>>

Out(n) == [num |-> n, out |-> TRUE]
In(n) == [num |-> n, out |-> FALSE]
MCSetUps == {{Out(1), Out(2)}, {Out(1), In(1)}}

Init == part \in {"bulk", "sdi"} /\ BulkInit /\ SdiInit
Next == \/ part = "bulk" /\ BulkNext /\ UNCHANGED <<part, sdiVars>>
        \/ part = "sdi" /\ SdiNext /\ UNCHANGED <<part, bulkVars>>
Spec == Init /\ [][Next]_vars /\ BulkFairness /\ SdiFairness
=============================================================================
