-------------------------------- MODULE Uart --------------------------------
(***************************************************************************)
(* The serial port as the program polls it: uart_tstc(), uart_getc(),      *)
(* uart_getc_timeout() and uart_putc() of src/src/drivers/uart/uart.c.     *)
(* The port is external: it fills the receive FIFO and empties the other   *)
(* at any time, or not at all.                                             *)
(***************************************************************************)
EXTENDS Integers

CONSTANTS
    TX_FIFO_DEPTH,
    RX_FIFO_DEPTH,
    PutPolls,      \* 100000: how often uart_putc() looks
    MsPolls,       \* 1000: how often uart_getc_timeout() looks in a millisecond
    WordMod,       \* 2^32: expires_ms is a word
    Expires        \* the time-outs asked for

ASSUME UartAssumption ==
    /\ {TX_FIFO_DEPTH, RX_FIFO_DEPTH, PutPolls, MsPolls, WordMod} \subseteq Nat \ {0}
    /\ WordMod % 2 = 0 /\ Expires \subseteq 0..WordMod - 1

VARIABLES
    doing,        \* "nothing", "putc", "getc" or "timeout"
    txLevel, rxLevel,   \* characters in the FIFOs
    left,         \* uart_putc()'s timeout, uart_getc_timeout()'s mscount
    expires_ms, asked,
    looked,       \* how often the call has looked and found no room, no character
    outcome       \* of the call before

uartVars == <<doing, txLevel, rxLevel, left, expires_ms, asked, looked, outcome>>

UartInit ==
    /\ doing = "nothing" /\ outcome = "none"
    /\ txLevel = 0 /\ rxLevel = 0
    /\ left = 0 /\ expires_ms = 0 /\ asked = 0 /\ looked = 0

-----------------------------------------------------------------------------
\* The port.
CharComes ==
    /\ rxLevel < RX_FIFO_DEPTH /\ rxLevel' = rxLevel + 1
    /\ UNCHANGED <<doing, txLevel, left, expires_ms, asked, looked, outcome>>
CharGoes ==
    /\ txLevel > 0 /\ txLevel' = txLevel - 1
    /\ UNCHANGED <<doing, rxLevel, left, expires_ms, asked, looked, outcome>>

\* How often looking in vain is counted: no further than tells too long from long enough.
Again(n) == IF n > PutPolls + MsPolls * WordMod THEN n ELSE n + 1

Call(what, count, ms) ==
    /\ doing = "nothing"
    /\ doing' = what /\ left' = count /\ expires_ms' = ms /\ asked' = ms /\ looked' = 0
    /\ UNCHANGED <<txLevel, rxLevel, outcome>>
Return(result) == doing' = "nothing" /\ outcome' = result

PutcCalled == Call("putc", PutPolls, 0)
\* A time-out of 0 is none.
GetcCalled(ms) == IF ms = 0 THEN Call("getc", 0, 0) ELSE Call("timeout", MsPolls, ms)

\* Mutant: the count is looked at before it is counted down (timeout-- for --timeout), and is
\* not 0 behind a loop that ran out.
uart_putcPost ==
    /\ doing = "putc"
    /\ IF txLevel = TX_FIFO_DEPTH /\ left > 0
       THEN left' = left - 1 /\ looked' = Again(looked) /\ UNCHANGED <<txLevel, doing, outcome>>
       ELSE txLevel' = txLevel + 1 /\ Return("written") /\ UNCHANGED <<left, looked>>
    /\ UNCHANGED <<rxLevel, expires_ms, asked>>
uart_putc ==
    /\ doing = "putc"
    /\ IF txLevel = TX_FIFO_DEPTH
       THEN /\ left' = left - 1 /\ looked' = Again(looked)
            /\ IF left' = 0 THEN Return("dropped") ELSE UNCHANGED <<doing, outcome>>
            /\ UNCHANGED txLevel
       ELSE txLevel' = txLevel + 1 /\ Return("written") /\ UNCHANGED <<left, looked>>
    /\ UNCHANGED <<rxLevel, expires_ms, asked>>

uart_getc ==
    /\ doing = "getc" /\ rxLevel > 0
    /\ rxLevel' = rxLevel - 1 /\ Return("read")
    /\ UNCHANGED <<txLevel, left, expires_ms, asked, looked>>

\* Both the end of the body and the condition of the loop count a millisecond.
Millisecond(ms) == (ms - 2) % WordMod

uart_getc_timeout ==
    /\ doing = "timeout"
    /\ IF rxLevel > 0
       THEN rxLevel' = rxLevel - 1 /\ Return("read") /\ UNCHANGED <<left, expires_ms, looked>>
       ELSE /\ looked' = Again(looked)
            /\ IF left > 1 THEN left' = left - 1 /\ UNCHANGED <<expires_ms, doing, outcome>>
               ELSE /\ left' = MsPolls /\ expires_ms' = Millisecond(expires_ms)
                    /\ IF expires_ms' = 0 THEN Return("timeout") ELSE UNCHANGED <<doing, outcome>>
            /\ UNCHANGED rxLevel
    /\ UNCHANGED <<txLevel, asked>>

UartNext ==
    \/ CharComes \/ CharGoes
    \/ PutcCalled \/ \E ms \in Expires : GetcCalled(ms)
    \/ uart_putc \/ uart_getc \/ uart_getc_timeout

-----------------------------------------------------------------------------
\* The count decides behind the loops which of their two ends they came to: a character is
\* written only where there is room and read only where there is one, and uart_putc() drops
\* it only after PutPolls looks that found none.
FifosHold ==
    /\ txLevel \in 0..TX_FIFO_DEPTH /\ rxLevel \in 0..RX_FIFO_DEPTH
    /\ outcome = "dropped" /\ doing = "nothing" => looked = PutPolls

\* "expires_ms", "// timeout" (uart_getc_timeout): it gives up after the milliseconds asked
\* for, MsPolls looks each, and no later.
TimesOutAsAsked ==
    /\ outcome = "timeout" /\ doing = "nothing" => looked = MsPolls * asked
    /\ doing = "timeout" => looked < MsPolls * asked
=============================================================================
