-------------------------------- MODULE Mmc --------------------------------
(***************************************************************************)
(* The MMC/SD core, src/src/drivers/mmc/mmc.c: mmc_init() identifies the   *)
(* card in the slot and brings it to its transfer state, mmc_bread() reads *)
(* blocks of it; the sdload command runs one after the other, any number   *)
(* of times, on the one static struct mmc.  One action per command of the  *)
(* card, because the card may be exchanged between any two.                *)
(*                                                                         *)
(* The host controller behind mmc->send_cmd is taken as the core takes it: *)
(* it hands over the card's answer, or returns TIMEOUT when none came.     *)
(* Clock rates, and the switch to high speed but for the commands it       *)
(* takes, are left out.                                                    *)
(***************************************************************************)
EXTENDS SdCard, Sequences

CONSTANTS
    LastTry,    \* a card may become ready at the very poll that ends the loop
    Tries,      \* polls while a card powers up, 1000 in the code
    Retries,    \* repetitions of the SCR command, 3 in the code
    Starts, MaxCount,   \* bound: the blocks asked for
    MaxFaults,  \* bound: commands or answers lost
    MaxSwaps    \* bound: cards exchanged

ASSUME MmcAssumption ==
    /\ LastTry \in BOOLEAN /\ Tries \in Nat \ {0} /\ Retries \in Nat /\ Starts \subseteq Nat
    /\ MaxCount \in Nat /\ MaxFaults \in Nat /\ MaxSwaps \in Nat

VARIABLES
    pc,         \* the command to send next; "prompt", "ready" between calls
    mmc,        \* struct mmc
    timeout,    \* the count of the loop sd_send_op_cond() or mmc_startup() is in
    req, got,   \* mmc_bread(): what was asked for, the blocks stored
    card,       \* external: the card in the slot
    setUp,      \* history variable: the card mmc_init() returned 0 for
    faults, swaps

drvVars == <<mmc, timeout>>
readVars == <<req, got>>
vars == <<pc, drvVars, readVars, card, setUp, faults, swaps>>

SdVersions == {"SD_1_0", "SD_1_10", "SD_2"}
MmcVersions == {"MMC_UNKNOWN", "MMC_3", "MMC_4"}
IS_SD == mmc.version \in SdVersions

NoReq == [start |-> 0, count |-> -1]
NotSetUp == -1

Init ==
    /\ pc = "prompt"
    /\ mmc = [version |-> "none", high_capacity |-> FALSE, rca |-> 0, bus_width |-> 0]
    /\ timeout = 0 /\ req = NoReq /\ got = <<>>
    /\ card \in Inserted(0)
    /\ setUp = NotSetUp /\ faults = 0 /\ swaps = 0

-----------------------------------------------------------------------------
\* mmc_send_cmd(): the card's answer, or TIMEOUT because the command or the
\* answer was lost.
Fine(a) == [card |-> a.card, err |-> ~a.heard, resp |-> a.resp, lost |-> 0]
Lost(c) == [card |-> c, err |-> TRUE, resp |-> NoAnswer, lost |-> 1]
Sent(answers) ==
    {Fine(a) : a \in answers}
        \cup IF faults = MaxFaults THEN {} ELSE {Lost(card)} \cup {Lost(a.card) : a \in answers}

Took(r) == card' = r.card /\ faults' = faults + r.lost

Goto(step) == pc' = step /\ UNCHANGED setUp
Fails == Goto("prompt")
Succeeds == pc' = "ready" /\ setUp' = card'.id

\* A step of mmc_startup(): any error ends it.
OrFails(r, then) ==
    \/ r.err /\ Fails /\ UNCHANGED drvVars
    \/ ~r.err /\ then
Continue(step) == Goto(step) /\ UNCHANGED drvVars

\* Mutants: the count goes below 0; it stays where it is.
CountDownPast == timeout' = timeout - 1
CountDownNot == timeout > 0 /\ UNCHANGED timeout

\* Once more round a loop.
CountDown == timeout > 0 /\ timeout' = timeout - 1

-----------------------------------------------------------------------------
\* mmc_init() up to the point where the card has left its idle state.

\* Mutant: the number of data lines is left as the last card had it.
SdloadKeepsWidth ==
    /\ pc = "prompt"
    /\ Goto("go_idle")
    /\ UNCHANGED <<drvVars, readVars, card, faults, swaps>>

\* sdload: mmc_initialize(), then mmc_init() with one data line.
Sdload ==
    /\ pc = "prompt"
    /\ mmc' = [mmc EXCEPT !.bus_width = 1]
    /\ Goto("go_idle")
    /\ UNCHANGED <<timeout, readVars, card, faults, swaps>>

\* The only command without an answer: when it is lost, the host may not know.
mmc_go_idle ==
    /\ pc = "go_idle"
    /\ \E r \in Sent(GoIdle(card)) :
          /\ Took(r)
          /\ \/ r.err /\ Fails
             \/ (~r.err \/ r.lost = 1) /\ Goto("if_cond")
    /\ UNCHANGED <<drvVars, readVars, swaps>>

\* Its result is not looked at, whatever it is.
mmc_send_if_cond ==
    /\ pc = "if_cond"
    /\ \E r \in Sent(SendIfCond(card)) :
          /\ Took(r)
          /\ mmc' = IF ~r.err /\ r.resp.pattern THEN [mmc EXCEPT !.version = "SD_2"] ELSE mmc
    /\ timeout' = Tries
    /\ Goto("op_app")
    /\ UNCHANGED <<readVars, swaps>>

\* If the command timed out, we check for an MMC card.
TryMmc == Goto("mmc_idle") /\ UNCHANGED drvVars

SdOpCondApp ==
    /\ pc = "op_app"
    /\ \E r \in Sent(AppCmd(card, 0)) :
          /\ Took(r)
          /\ IF r.err THEN TryMmc ELSE Continue("op_cond")
    /\ UNCHANGED <<readVars, swaps>>

\* Mutant: high_capacity is left as it was.
SdReadyStale(hcs) ==
    [mmc EXCEPT !.version = IF @ = "SD_2" THEN @ ELSE "SD_1_0", !.rca = 0]

\* What sd_send_op_cond() learns from a card that is ready.
SdReady(hcs) ==
    [mmc EXCEPT !.version = IF @ = "SD_2" THEN @ ELSE "SD_1_0",
                !.high_capacity = hcs, !.rca = 0]

\* The loop goes on while the card is busy and timeout, taken down after the
\* test, was not 0; then it is told from the count whether the card is ready.
\* A card found unusable goes through mmc_startup() all the same.
SdOpCond ==
    /\ pc = "op_cond"
    /\ \E r \in Sent(SdSendOpCond(card, mmc.version = "SD_2", timeout > 0 \/ LastTry)) :
          /\ Took(r)
          /\ \/ r.err /\ TryMmc
             \/ /\ ~r.err /\ ~r.resp.done /\ CountDown
                /\ Goto("op_app")
                /\ UNCHANGED mmc
             \/ /\ ~r.err /\ (r.resp.done \/ timeout = 0)
                /\ mmc' = IF r.resp.done /\ timeout > 0 THEN SdReady(r.resp.hcs) ELSE mmc
                /\ Goto("cid")
                /\ UNCHANGED timeout
    /\ UNCHANGED <<readVars, swaps>>

\* mmc_send_op_cond() does not look at the result of mmc_go_idle().
MmcIdle ==
    /\ pc = "mmc_idle"
    /\ \E r \in Sent(GoIdle(card)) : Took(r)
    /\ timeout' = Tries
    /\ Goto("mmc_op_cond")
    /\ UNCHANGED <<mmc, readVars, swaps>>

\* Here an unusable card ends mmc_init().
MmcOpCond ==
    /\ pc = "mmc_op_cond"
    /\ \E r \in Sent(MmcSendOpCond(card, timeout > 0 \/ LastTry)) :
          /\ Took(r)
          /\ OrFails(r,
                \/ /\ ~r.resp.done /\ CountDown
                   /\ Goto("mmc_op_cond")
                   /\ UNCHANGED mmc
                \/ timeout = 0 /\ Fails /\ UNCHANGED drvVars
                \/ /\ r.resp.done /\ timeout > 0
                   /\ mmc' = [mmc EXCEPT !.version = "MMC_UNKNOWN",
                                         !.high_capacity = r.resp.hcs, !.rca = 0]
                   /\ Goto("cid")
                   /\ UNCHANGED timeout)
    /\ UNCHANGED <<readVars, swaps>>

-----------------------------------------------------------------------------
\* mmc_startup()

AllSendCidStep ==
    /\ pc = "cid"
    /\ \E r \in Sent(AllSendCid(card)) : Took(r) /\ OrFails(r, Continue("rca"))
    /\ UNCHANGED <<readVars, swaps>>

SendRelativeAddr ==
    /\ pc = "rca"
    /\ \E r \in Sent(RelativeAddr(card, mmc.rca)) :
          /\ Took(r)
          /\ OrFails(r, /\ mmc' = IF IS_SD THEN [mmc EXCEPT !.rca = r.resp.rca] ELSE mmc
                        /\ Goto("csd") /\ UNCHANGED timeout)
    /\ UNCHANGED <<readVars, swaps>>

SendCsdStep ==
    /\ pc = "csd"
    /\ \E r \in Sent(SendCsd(card, mmc.rca)) :
          /\ Took(r)
          /\ OrFails(r, /\ mmc' = IF mmc.version = "MMC_UNKNOWN"
                                  THEN [mmc EXCEPT !.version = IF r.resp.mmc4 THEN "MMC_4" ELSE "MMC_3"]
                                  ELSE mmc
                        /\ Goto("select") /\ UNCHANGED timeout)
    /\ UNCHANGED <<readVars, swaps>>

\* Mutant: the card's silence is not looked at.
SelectCardUnheard ==
    /\ pc = "select"
    /\ \E r \in Sent(SelectCard(card, mmc.rca)) :
          /\ Took(r)
          /\ \/ IS_SD /\ Continue("scr_app")
             \/ mmc.version = "MMC_4" /\ Continue("ext_csd")
             \/ ~IS_SD /\ mmc.version # "MMC_4" /\ Succeeds /\ UNCHANGED drvVars
    /\ UNCHANGED <<readVars, swaps>>

\* Only version 4 has more than one data line; a version never found out is
\* below it.
SelectCardStep ==
    /\ pc = "select"
    /\ \E r \in Sent(SelectCard(card, mmc.rca)) :
          /\ Took(r)
          /\ OrFails(r, \/ IS_SD /\ Continue("scr_app")
                        \/ mmc.version = "MMC_4" /\ Continue("ext_csd")
                        \/ ~IS_SD /\ mmc.version # "MMC_4" /\ Succeeds /\ UNCHANGED drvVars)
    /\ UNCHANGED <<readVars, swaps>>

\* sd_change_freq()
ScrApp ==
    /\ pc = "scr_app"
    /\ \E r \in Sent(AppCmd(card, mmc.rca)) :
          /\ Took(r)
          /\ OrFails(r, timeout' = Retries /\ Goto("scr") /\ UNCHANGED mmc)
    /\ UNCHANGED <<readVars, swaps>>

\* The command is repeated without the APP_CMD before it.  Version 1.0 returns
\* before it looks at the number of data lines.
SendScrStep ==
    /\ pc = "scr"
    /\ \E r \in Sent(SendScr(card)) :
          /\ Took(r)
          /\ \/ /\ r.err /\ CountDown
                /\ Goto("scr")
                /\ UNCHANGED mmc
             \/ r.err /\ timeout = 0 /\ Fails /\ UNCHANGED drvVars
             \/ /\ ~r.err
                /\ mmc' = [mmc EXCEPT !.version = r.resp.spec]
                /\ IF r.resp.spec # "SD_1_0" /\ r.resp.wide THEN Goto("width_app") ELSE Succeeds
                /\ UNCHANGED timeout
    /\ UNCHANGED <<readVars, swaps>>

WidthApp ==
    /\ pc = "width_app"
    /\ \E r \in Sent(AppCmd(card, mmc.rca)) : Took(r) /\ OrFails(r, Continue("width"))
    /\ UNCHANGED <<readVars, swaps>>

SetBusWidthStep ==
    /\ pc = "width"
    /\ \E r \in Sent(SetBusWidth(card)) :
          /\ Took(r)
          /\ OrFails(r, mmc' = [mmc EXCEPT !.bus_width = 4] /\ Succeeds /\ UNCHANGED timeout)
    /\ UNCHANGED <<readVars, swaps>>

\* mmc_change_freq(), with its two readings of the register, and the switch to
\* four data lines
SendExtCsdStep ==
    /\ pc = "ext_csd"
    /\ \E r \in Sent(SendExtCsd(card)) :
          /\ Took(r)
          /\ OrFails(r, /\ mmc' = [mmc EXCEPT !.high_capacity = @ \/ r.resp.sectors]
                        /\ Goto("hs") /\ UNCHANGED timeout)
    /\ UNCHANGED <<readVars, swaps>>

SwitchHighSpeed ==
    /\ pc = "hs"
    /\ \E r \in Sent(Switch(card, card.width)) : Took(r) /\ OrFails(r, Continue("ext_csd2"))
    /\ UNCHANGED <<readVars, swaps>>

CheckHighSpeed ==
    /\ pc = "ext_csd2"
    /\ \E r \in Sent(SendExtCsd(card)) : Took(r) /\ OrFails(r, Continue("mmc_width"))
    /\ UNCHANGED <<readVars, swaps>>

SwitchWidth ==
    /\ pc = "mmc_width"
    /\ \E r \in Sent(Switch(card, 4)) :
          /\ Took(r)
          /\ OrFails(r, mmc' = [mmc EXCEPT !.bus_width = 4] /\ Succeeds /\ UNCHANGED timeout)
    /\ UNCHANGED <<readVars, swaps>>

-----------------------------------------------------------------------------
\* mmc_bread(): the file system asks for blocks, or the load is over.

mmc_bread(start, count) ==
    /\ pc = "ready"
    /\ req' = [start |-> start, count |-> count] /\ got' = <<>>
    /\ Goto("blocklen")
    /\ UNCHANGED <<drvVars, card, faults, swaps>>

Returns == req' = NoReq /\ Goto("ready")

mmc_set_blocklen ==
    /\ pc = "blocklen"
    /\ \E r \in Sent(SetBlocklen(card)) :
          /\ Took(r)
          /\ IF r.err \/ req.count = 0 THEN Returns ELSE UNCHANGED req /\ Goto("read")
    /\ UNCHANGED <<drvVars, got, swaps>>

\* Mutant: blocks are always counted in bytes.
mmc_read_blockBytes ==
    /\ pc = "read"
    /\ LET blocknum == req.start + Len(got)
       IN  \E r \in Sent(ReadSingleBlock(card, blocknum * BlockLen)) :
              /\ Took(r)
              /\ got' = IF r.err THEN got ELSE Append(got, r.resp.data)
              /\ IF r.err \/ Len(got') = req.count THEN Returns ELSE UNCHANGED <<req, pc, setUp>>
    /\ UNCHANGED <<drvVars, swaps>>

mmc_read_block ==
    /\ pc = "read"
    /\ LET blocknum == req.start + Len(got)
           cmdarg   == IF mmc.high_capacity THEN blocknum ELSE blocknum * BlockLen
       IN  \E r \in Sent(ReadSingleBlock(card, cmdarg)) :
              /\ Took(r)
              /\ got' = IF r.err THEN got ELSE Append(got, r.resp.data)
              /\ IF r.err \/ Len(got') = req.count THEN Returns ELSE UNCHANGED <<req, pc, setUp>>
    /\ UNCHANGED <<drvVars, swaps>>

LoadEnds ==
    /\ pc = "ready"
    /\ pc' = "prompt" /\ setUp' = NotSetUp /\ got' = <<>>
    /\ UNCHANGED <<drvVars, req, card, faults, swaps>>

\* External: somebody exchanges the card.
Exchange ==
    /\ swaps < MaxSwaps
    /\ swaps' = swaps + 1
    /\ card' \in Inserted(card.id + 1)
    /\ UNCHANGED <<pc, drvVars, readVars, setUp, faults>>

-----------------------------------------------------------------------------
Identify ==
    \/ mmc_go_idle \/ mmc_send_if_cond
    \/ SdOpCondApp \/ SdOpCond \/ MmcIdle \/ MmcOpCond

Startup ==
    \/ AllSendCidStep \/ SendRelativeAddr \/ SendCsdStep \/ SelectCardStep
    \/ ScrApp \/ SendScrStep \/ WidthApp \/ SetBusWidthStep
    \/ SendExtCsdStep \/ SwitchHighSpeed \/ CheckHighSpeed \/ SwitchWidth

Step == Identify \/ Startup \/ mmc_set_blocklen \/ mmc_read_block

Next ==
    \/ Step
    \/ Sdload \/ LoadEnds \/ Exchange
    \/ \E start \in Starts, count \in 0..MaxCount : mmc_bread(start, count)

Spec == Init /\ [][Next]_vars
FairSpec == Spec /\ WF_vars(Step)

-----------------------------------------------------------------------------
(***************************************************************************)
(* Properties.                                                             *)
(***************************************************************************)

TypeOK ==
    /\ pc \in {"prompt", "ready", "go_idle", "if_cond", "op_app", "op_cond", "mmc_idle",
              "mmc_op_cond", "cid", "rca", "csd", "select", "scr_app", "scr", "width_app",
              "width", "ext_csd", "hs", "ext_csd2", "mmc_width", "blocklen", "read"}
    /\ mmc \in [version : {"none"} \cup SdVersions \cup MmcVersions, high_capacity : BOOLEAN,
                rca : {0} \cup Rcas, bus_width : {0, 1, 4}]
    /\ timeout \in 0..(IF Tries > Retries THEN Tries ELSE Retries)
    /\ req \in {NoReq} \cup [start : Starts, count : 0..MaxCount]
    /\ got \in Seq(Nat \X Nat) /\ Len(got) <= MaxCount
    /\ card \in Card /\ card.id = swaps /\ swaps \in 0..MaxSwaps
    /\ setUp \in {NotSetUp} \cup 0..MaxSwaps
    /\ faults \in 0..MaxFaults

StillThere == setUp = card.id

\* When mmc_init() returned 0, the card is selected, under the address the
\* struct holds, and the struct says rightly whether it is an SD card: after
\* any earlier card, lost commands and an exchange at any moment.
ReadyMeansSelected ==
    StillThere => /\ card.state = "tran" /\ card.rca = mmc.rca
                  /\ IS_SD <=> IsSd(card)

\* Block numbers are turned into the unit the card counts in (mmc_read_block),
\* whatever high_capacity an earlier card left.
AddressUnitsAgree == StillThere => (mmc.high_capacity <=> BySector(card))

\* Whenever data is asked of a selected card, it drives as many lines as the
\* host was told to listen to (mmc_set_bus_width).
DataWidthsAgree ==
    pc \in {"scr", "ext_csd", "ext_csd2", "read"} /\ card.state = "tran"
        => card.width = mmc.bus_width

\* mmc_bread() is the block device the file system expects: the blocks it says
\* it read are blocks of the card that was set up, even when that is no longer
\* the card in the slot.
Device == INSTANCE BlockDevice
            WITH Media <- 0..MaxSwaps, NoMedium <- NotSetUp, NoRequest <- NoReq,
                 medium <- setUp, request <- req,
                 got <- IF req = NoReq THEN got ELSE <<>>
IsABlockDevice == Device!Spec

\* mmc_init() and mmc_bread() return, however the card behaves.
EveryCallReturns == pc \notin {"prompt", "ready"} ~> pc \in {"prompt", "ready"}

\* "Unusable Card" (UNUSABLE_ERR, src/inc/mmc.h): a card whose power-up ran out of
\* polls is not started up.
UnusableIsNotUsed == [][pc = "cid" /\ pc' = "rca" => timeout > 0]_vars
=============================================================================
