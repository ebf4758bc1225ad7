-------------------------------- MODULE Pins --------------------------------
(***************************************************************************)
(* The pins: requesting and freeing them in gpio.c, with the clock of a    *)
(* bank of pins, which clock_switch() of clock.c turns on and off, and the *)
(* function of a pin, which i10_iomux_config() of iomux.c writes.  The     *)
(* clock tree is external: a clock starts some time after its control bit  *)
(* was set, and stops some time after it was cleared.                      *)
(***************************************************************************)
EXTENDS Integers, Sequences, SequencesExt

CONSTANTS
    Banks, PinsOfBank,  \* a pin is a bank and a number
    MuxLists            \* what i10_iomux_config() is called with

Pin == Banks \X PinsOfBank

\* A function of a pin: the register, the field in it, the value.
MuxOffsets == 80..160
ASSUME PinsAssumption ==
    /\ "none" \notin Banks
    /\ \A list \in MuxLists :
         list \in Seq([offset : 0..255, shift : {4 * k : k \in 0..7}, fn : 1..5])

VARIABLES
    gated, running,     \* the banks whose clock is on, by the control and the status register
    gpio_bank_state,    \* the pins requested of each bank
    switching,          \* the clock that is waited for, "none" when there is none
    mux, listed         \* the fields written, and what they were written from

\* For the invariant only: the banks that were requested while their clock, turned off
\* before, was still running.
VARIABLE mistaken

gpioVars == <<gated, running, gpio_bank_state, switching, mistaken>>
pinVars == <<gpioVars, mux, listed>>

Idle == switching = "none"

PinsInit ==
    /\ gated = {} /\ running = {} /\ gpio_bank_state = [b \in Banks |-> {}] /\ switching = "none"
    /\ mistaken = {}
    /\ mux = [f \in {} |-> 0] /\ listed = <<>>

-----------------------------------------------------------------------------
\* clock_switch(): the control bit is set or cleared, and set is waited for, which is a step
\* of its own.  A clock the status register shows is taken for one that is on: one that is
\* about to stop is not turned on again.
clock_on(b) ==
    IF b \in running
    THEN /\ mistaken' = IF b \in gated THEN mistaken ELSE mistaken \cup {b}
         /\ UNCHANGED <<gated, running, switching>>
    ELSE gated' = gated \cup {b} /\ switching' = b /\ UNCHANGED <<running, mistaken>>
clock_off(b) ==
    gated' = gated \ {b} /\ mistaken' = mistaken \ {b} /\ UNCHANGED <<running, switching>>
NoSwitch == UNCHANGED <<gated, running, switching, mistaken>>

ClockStarts(b) ==
    /\ b \in gated \ running /\ running' = running \cup {b}
    /\ UNCHANGED <<gated, gpio_bank_state, switching, mistaken, mux, listed>>
ClockStops(b) ==
    /\ b \in running \ gated /\ running' = running \ {b}
    /\ UNCHANGED <<gated, gpio_bank_state, switching, mistaken, mux, listed>>
ClockSeen ==
    /\ switching \in running /\ switching' = "none"
    /\ UNCHANGED <<gated, running, gpio_bank_state, mistaken, mux, listed>>

gpio_request(p) ==
    /\ Idle
    /\ IF gpio_bank_state[p[1]] = {} THEN clock_on(p[1]) ELSE NoSwitch
    /\ gpio_bank_state' = [gpio_bank_state EXCEPT ![p[1]] = @ \cup {p[2]}]
    /\ UNCHANGED <<mux, listed>>

\* Mutant: the clock goes off with any pin.
gpio_freeAny(p) ==
    /\ Idle
    /\ gpio_bank_state' = [gpio_bank_state EXCEPT ![p[1]] = @ \ {p[2]}]
    /\ clock_off(p[1])
    /\ UNCHANGED <<mux, listed>>
gpio_free(p) ==
    /\ Idle
    /\ gpio_bank_state' = [gpio_bank_state EXCEPT ![p[1]] = @ \ {p[2]}]
    /\ IF gpio_bank_state'[p[1]] = {} THEN clock_off(p[1]) ELSE NoSwitch
    /\ UNCHANGED <<mux, listed>>

-----------------------------------------------------------------------------
\* One register is kept while pins of it are listed, and written when the next is another
\* register's, and at the end.  A register is the fields of its offset.
Over(f, g) == [x \in DOMAIN f \cup DOMAIN g |-> IF x \in DOMAIN f THEN f[x] ELSE g[x]]
Fields(regs, offset) == Restrict(regs, {f \in DOMAIN regs : f[1] = offset})
MuxPin(s, p) ==
    IF p.offset \notin MuxOffsets THEN s
    ELSE LET written == IF s.cached # p.offset /\ s.cnt > 0 THEN Over(s.val, s.regs) ELSE s.regs
             val == IF s.cached # p.offset THEN Fields(written, p.offset) ELSE s.val
             cnt == IF s.cached # p.offset THEN 0 ELSE s.cnt
         IN [regs |-> written, cached |-> p.offset,
             val |-> Over([f \in {<<p.offset, p.shift>>} |-> p.fn], val), cnt |-> cnt + 1]
Listed(list) ==
    FoldLeft(MuxPin, [regs |-> mux, cached |-> 255, val |-> [f \in {} |-> 0], cnt |-> 0], list)
WithList(list) == LET s == Listed(list) IN IF s.cnt > 0 THEN Over(s.val, s.regs) ELSE s.regs

i10_iomux_config(list) ==
    /\ Idle /\ listed = <<>>
    /\ mux' = WithList(list) /\ listed' = list
    /\ UNCHANGED gpioVars

GpioNext ==
    \/ \E b \in Banks : ClockStarts(b) \/ ClockStops(b)
    \/ ClockSeen
    \/ \E p \in Pin : gpio_request(p) \/ gpio_free(p)

\* The start of the program, before any pin is used.
MuxNext == \E list \in MuxLists : i10_iomux_config(list)

-----------------------------------------------------------------------------
\* Between calls a bank is turned on only while one of its pins is requested, whichever were
\* requested and freed in between, and a requested bank is clocked and stays so, unless it
\* was requested again before its clock had stopped (clock_switch).
BanksAreClocked ==
    Idle => \A b \in Banks :
        /\ b \in gated => gpio_bank_state[b] # {}
        /\ gpio_bank_state[b] # {} => b \in mistaken \/ b \in gated \cap running

\* i10_iomux_config() leaves in each field what was last listed for it, in whatever order
\* the registers come.
MuxAsListed ==
    LET valid == {k \in 1..Len(listed) : listed[k].offset \in MuxOffsets}
        At(k) == <<listed[k].offset, listed[k].shift>>
    IN /\ DOMAIN mux = {At(k) : k \in valid}
       /\ \A k \in valid :
            (\A j \in valid : j > k => At(j) # At(k)) => mux[At(k)] = listed[k].fn
=============================================================================
