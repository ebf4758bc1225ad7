------------------------------- MODULE SdiHost -------------------------------
(***************************************************************************)
(* The host controller driver beneath the card core:                       *)
(* sdi_send_request() of src/src/drivers/mmc/i10_mmc.c, with               *)
(* sdi_prepare_data(), sdi_finish_cmd(), sdi_finish_data() and             *)
(* sdi_transfer_pio().  mmc.c asks for commands without data and for reads *)
(* of one block; it never writes.                                          *)
(*                                                                         *)
(* External are the controller with its status bits, which a write of 1    *)
(* clears, and its buffer of one block, and the card, which may be silent  *)
(* or slow.  A card forgets the command it had when it is sent another.    *)
(***************************************************************************)
EXTENDS Naturals

CONSTANTS
    Blocks,     \* blocks of the card
    Polls       \* stands for the 1000 of both time-outs

ASSUME SdiAssumption == Polls \in Nat \ {0}

VARIABLES
    spc,        \* "core": mmc.c runs; "sent", "cmd", "data", "clear": waits of the request
    req,        \* what was asked: the block to read, or NoData
    result,     \* of the last request
    timeout,    \* polls left
    blocks,     \* host->blocks
    dest,       \* what memory at host->buffer holds
    intclr,     \* the status read
    INTCLR,     \* MMC_INTCLR_REG: the bits set
    DATBUF,     \* the block in the controller's buffer, or NoBlock
    cardJob,    \* what the card still owes: "answer", "block", "end"
    cardBlock,  \* the block it was asked for
    stale,      \* status bits of data were set when the last command went out
    gaveUp      \* a read has timed out

regs == <<INTCLR, DATBUF, cardJob, cardBlock>>
seen == <<stale, gaveUp>>
host == <<blocks, dest>>
sdiVars == <<spc, req, result, timeout, host, intclr, regs, seen>>

NoData == "no data"
NoBlock == "no block"
DataBits == {"DAT_DONE", "MBLOCK_DONE"}

\* cpu_mmc_init() touches no register of the controller.
SdiInit ==
    /\ spc = "core" /\ req = NoData /\ result = "none"
    /\ timeout = 0 /\ blocks = 0 /\ dest = NoBlock /\ intclr = {}
    /\ INTCLR = {} /\ DATBUF = NoBlock /\ cardJob = {} /\ cardBlock = NoBlock
    /\ stale = FALSE /\ gaveUp = FALSE

\* Mutant: the count of blocks is not set.
sdi_prepare_dataNoCount(block) ==
    IF block = NoData THEN UNCHANGED host ELSE dest' = NoBlock /\ UNCHANGED blocks
\* host->blocks and host->buffer stay as they are for a command without data.
sdi_prepare_data(block) ==
    IF block = NoData THEN UNCHANGED host ELSE blocks' = 1 /\ dest' = NoBlock

sdi_send_request(block) ==
    /\ spc = "core"
    /\ sdi_prepare_data(block)
    /\ req' = block /\ spc' = "sent"
    /\ UNCHANGED <<result, timeout, intclr, regs, seen>>

\* AUTO_SND_EN clears when the command has gone out: the wait has no bound.
Taken ==
    /\ spc = "sent" /\ spc' = "cmd" /\ timeout' = Polls
    /\ cardJob' = IF req = NoData THEN {"answer"} ELSE {"answer", "block", "end"}
    /\ stale' = (DataBits \cap INTCLR # {})
    /\ cardBlock' = IF req = NoData THEN NoBlock ELSE req
    /\ UNCHANGED <<req, result, host, intclr, INTCLR, DATBUF, gaveUp>>

Returns(r) == spc' = "core" /\ result' = r

\* The bit may be left from a command before: it is not cleared here.
FinishCmdDone ==
    /\ spc = "cmd" /\ timeout > 0 /\ "CMD_DONE" \in INTCLR
    /\ \/ req = NoData /\ Returns("ok") /\ UNCHANGED timeout
       \/ req # NoData /\ spc' = "data" /\ timeout' = Polls /\ UNCHANGED result
    /\ UNCHANGED <<req, host, intclr, regs, seen>>
FinishCmdPoll ==
    /\ spc = "cmd" /\ timeout > 0 /\ "CMD_DONE" \notin INTCLR
    /\ timeout' = timeout - 1
    /\ UNCHANGED <<spc, req, result, host, intclr, regs, seen>>
FinishTimeout ==
    /\ spc \in {"cmd", "data"} /\ timeout = 0
    /\ Returns("TIMEOUT") /\ gaveUp' = (gaveUp \/ req # NoData)
    /\ UNCHANGED <<req, timeout, host, intclr, regs, stale>>
sdi_finish_cmd == FinishCmdDone \/ FinishCmdPoll

\* Mutant: the count is not taken down.
FinishDataReadForever ==
    /\ spc = "data" /\ timeout > 0
    /\ intclr' = INTCLR /\ spc' = "clear"
    /\ UNCHANGED <<req, result, timeout, host, regs, seen>>
FinishDataRead ==
    /\ spc = "data" /\ timeout > 0
    /\ timeout' = timeout - 1 /\ intclr' = INTCLR /\ spc' = "clear"
    /\ UNCHANGED <<req, result, host, regs, seen>>

\* Once the request has its blocks the controller's buffer is left alone.
sdi_transfer_pio ==
    IF blocks = 0 THEN UNCHANGED <<host, DATBUF>>
    ELSE blocks' = blocks - 1 /\ dest' = DATBUF /\ DATBUF' = NoBlock

\* What was read is written back, which clears those bits and no others.
FinishDataClear ==
    /\ spc = "clear"
    /\ INTCLR' = INTCLR \ intclr
    /\ IF "DAT_DONE" \in intclr THEN sdi_transfer_pio ELSE UNCHANGED <<host, DATBUF>>
    /\ IF "MBLOCK_DONE" \in intclr THEN Returns("ok") ELSE spc' = "data" /\ UNCHANGED result
    /\ UNCHANGED <<req, timeout, intclr, cardJob, cardBlock, seen>>

-----------------------------------------------------------------------------
\* External: the card answers, sends its block, and the controller sees the end of the
\* transfer, or none of it happens.
Answer ==
    /\ "answer" \in cardJob
    /\ cardJob' = cardJob \ {"answer"} /\ INTCLR' = INTCLR \cup {"CMD_DONE"}
    /\ UNCHANGED <<spc, req, result, timeout, host, intclr, DATBUF, cardBlock, seen>>

\* The end of the transfer is seen with the block or after it.
BlockComes ==
    /\ "block" \in cardJob
    /\ DATBUF' = cardBlock
    /\ \/ cardJob' = cardJob \ {"block"} /\ INTCLR' = INTCLR \cup {"DAT_DONE"}
       \/ cardJob' = cardJob \ {"block", "end"} /\ INTCLR' = INTCLR \cup DataBits
    /\ UNCHANGED <<spc, req, result, timeout, host, intclr, cardBlock, seen>>
TransferEnds ==
    /\ "end" \in cardJob /\ "block" \notin cardJob
    /\ cardJob' = cardJob \ {"end"} /\ INTCLR' = INTCLR \cup {"MBLOCK_DONE"}
    /\ UNCHANGED <<spc, req, result, timeout, host, intclr, DATBUF, cardBlock, seen>>

Controller == Taken
Wait == sdi_finish_cmd \/ FinishTimeout \/ FinishDataRead \/ FinishDataClear
Card == Answer \/ BlockComes \/ TransferEnds

SdiNext == (\E b \in Blocks \cup {NoData} : sdi_send_request(b)) \/ Controller \/ Wait \/ Card
SdiSpec == SdiInit /\ [][SdiNext]_sdiVars

\* The program runs and the controller sends what it is given; the card need not answer.
SdiFairness == WF_sdiVars(Controller) /\ WF_sdiVars(Wait)

-----------------------------------------------------------------------------
\* A read that sdi_send_request() reports as done has put the block that was asked for
\* where it was asked for, although the end of its command may have been taken for that
\* of an earlier one, provided no status bit of data was pending when its command went out;
\* and such a bit is never left by a read that went well, only by one that timed out.
BlockIsTheOneAsked ==
    /\ (spc = "core" /\ result = "ok" /\ req # NoData /\ ~stale) => dest = req
    /\ stale => gaveUp

\* Every request ends, whatever the card does: sdi_finish_cmd() and sdi_finish_data()
\* count their polls.
RequestsReturn == spc # "core" ~> spc = "core"
=============================================================================
