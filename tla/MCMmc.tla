------------------------------- MODULE MCMmc -------------------------------
(***************************************************************************)
(* Small instances of Mmc: every kind of card, two addresses for SD cards. *)
(***************************************************************************)
EXTENDS Mmc

MCKinds == AllKinds
MCRcas == {1, 2}
MCStarts == {0, 5}
=============================================================================
