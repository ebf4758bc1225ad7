------------------------------- MODULE SdCard -------------------------------
(***************************************************************************)
(* The memory card in the slot, as src/src/drivers/mmc/mmc.c relies on it: *)
(* for each command the set of things the card may do.  A card obeys a     *)
(* command only in the states it is meant for and is silent otherwise.     *)
(* Nothing of this is in the repository.                                   *)
(***************************************************************************)
EXTENDS Integers

CONSTANTS
    Kinds,      \* the cards there are: a subset of AllKinds
    Rcas,       \* the addresses an SD card gives itself
    BlockLen,   \* bytes of a block, 512
    CardBlocks  \* blocks of a card

SdKinds == {"SD1", "SD11", "SD2", "SDHC"}
MmcKinds == {"MMC3", "MMC4", "MMCHC"}
AllKinds == SdKinds \cup MmcKinds \cup {"empty"}

ASSUME CardAssumption ==
    /\ Kinds \subseteq AllKinds
    /\ Rcas \subseteq Nat \ {0} /\ BlockLen \in Nat \ {0} /\ CardBlocks \in Nat

CardState == {"idle", "ready", "ident", "stby", "tran"}
Card == [id : Nat, kind : AllKinds, state : CardState, rca : {0} \cup Rcas,
         app : BOOLEAN, width : {1, 4}]

IsSd(c) == c.kind \in SdKinds
IsMmc4(c) == c.kind \in {"MMC4", "MMCHC"}
BySector(c) == c.kind \in {"SDHC", "MMCHC"}

\* A card just inserted, or the empty slot.
Inserted(id) ==
    {[id |-> id, kind |-> k, state |-> "idle", rca |-> 0, app |-> FALSE, width |-> 1] : k \in Kinds}

-----------------------------------------------------------------------------
\* What a card makes of a command: what becomes of it, whether it answers, and
\* the answer.  APP_CMD holds for one command.
NoAnswer == [none |-> TRUE]

Obey(c, legal, new, resp) ==
    IF legal THEN [card |-> [new EXCEPT !.app = FALSE], heard |-> TRUE, resp |-> resp]
             ELSE [card |-> [c EXCEPT !.app = FALSE], heard |-> FALSE, resp |-> NoAnswer]

GoIdle(c) ==
    {[card |-> [c EXCEPT !.state = "idle", !.rca = 0, !.app = FALSE, !.width = 1],
      heard |-> TRUE, resp |-> NoAnswer]}

\* Command 8 is another one to a selected MMC card, whose answer is a status.
SendIfCond(c) ==
    {Obey(c, \/ c.kind \in {"SD2", "SDHC"} /\ c.state = "idle"
             \/ IsMmc4(c) /\ c.state = "tran",
          c, [pattern |-> IsSd(c)])}

AppCmd(c, rca) ==
    LET legal == IsSd(c) /\ \/ c.state = "idle" /\ rca = 0
                            \/ c.state \in {"stby", "tran"} /\ rca = c.rca
    IN  {[card |-> [c EXCEPT !.app = legal], heard |-> legal, resp |-> NoAnswer]}

\* Powering up: busy as long as it likes, and for ever if the card has more
\* blocks than the host says it can address.
PowerUp(c, legal, able) ==
    {Obey(c, legal /\ c.state = "idle", IF done THEN [c EXCEPT !.state = "ready"] ELSE c,
          [done |-> done, hcs |-> BySector(c)]) :
        done \in IF able THEN BOOLEAN ELSE {FALSE}}
SdSendOpCond(c, hcs, able) == PowerUp(c, IsSd(c) /\ c.app, able /\ (BySector(c) => hcs))
MmcSendOpCond(c, able) == PowerUp(c, c.kind \in MmcKinds, able)

AllSendCid(c) ==
    {Obey(c, c.kind # "empty" /\ c.state = "ready", [c EXCEPT !.state = "ident"], NoAnswer)}

\* An SD card makes up its address, an MMC card takes the one it is given.
RelativeAddr(c, rca) ==
    {Obey(c, \/ IsSd(c) /\ c.state \in {"ident", "stby"}
             \/ c.kind \in MmcKinds /\ c.state = "ident",
          [c EXCEPT !.state = "stby", !.rca = a], [rca |-> a]) :
        a \in IF IsSd(c) THEN Rcas ELSE {rca}}

SendCsd(c, rca) ==
    {Obey(c, c.state = "stby" /\ c.rca = rca, c, [mmc4 |-> IsMmc4(c)])}

\* Address 0 is the one that deselects all cards: a card that has it may or may
\* not let itself be selected with it.
SelectCard(c, rca) ==
    {Obey(c, c.state = "stby" /\ c.rca = rca /\ able, [c EXCEPT !.state = "tran"], NoAnswer) :
        able \in IF rca = 0 THEN BOOLEAN ELSE {TRUE}}

SendScr(c) ==
    {Obey(c, IsSd(c) /\ c.app /\ c.state = "tran", c,
          [spec |-> CASE c.kind = "SD1" -> "SD_1_0" [] c.kind = "SD11" -> "SD_1_10" [] OTHER -> "SD_2",
           wide |-> w]) : w \in BOOLEAN}

SetBusWidth(c) ==
    {Obey(c, IsSd(c) /\ c.app /\ c.state = "tran", [c EXCEPT !.width = 4], NoAnswer)}

Switch(c, width) ==
    {Obey(c, IsMmc4(c) /\ c.state = "tran", [c EXCEPT !.width = width], NoAnswer)}

SendExtCsd(c) ==
    {Obey(c, IsMmc4(c) /\ c.state = "tran", c, [sectors |-> BySector(c)])}

SetBlocklen(c) == {Obey(c, c.state = "tran", c, NoAnswer)}

\* The block at address arg, with the card it comes from.
ReadSingleBlock(c, arg) ==
    LET block == IF BySector(c) THEN arg ELSE arg \div BlockLen
        legal == /\ c.state = "tran" /\ block < CardBlocks
                 /\ BySector(c) \/ arg % BlockLen = 0
    IN  {Obey(c, legal, c, [data |-> <<c.id, block>>])}
=============================================================================
