-------------------------------- MODULE Timer --------------------------------
(***************************************************************************)
(* Waiting by the clock: udelay() of src/src/delay.c and __udelay() and    *)
(* delay_cycles() of src/src/drivers/timer/timer.c.  The counter of timer  *)
(* 4 is external: it runs down from the highest value to 0 and starts      *)
(* again, and goes on between any two readings.                            *)
(***************************************************************************)
EXTENDS Integers

CONSTANTS
    CounterMod,  \* 2^32 for the board
    ChunkMax,    \* 0xffff: cycles waited for at a time
    Latency,     \* bound: cycles between two readings of the counter
    Thousand,    \* microseconds of a millisecond, milliseconds of a second
    timer_rate,  \* cycles of a second, after timer_init()
    RoundMax,    \* microseconds udelay() asks __udelay() for at most
    Delays       \* microseconds asked for

ASSUME TimerAssumption ==
    /\ {CounterMod, ChunkMax, Latency, Thousand, timer_rate, RoundMax} \subseteq Nat \ {0}
    /\ ChunkMax + Latency <= CounterMod
    /\ timer_rate >= Thousand
    /\ Delays \subseteq Nat

VARIABLES
    counter,     \* TCNTR(4)
    waiting,     \* which loop is running: "no", "udelay", "chunk" or "reading"
    usec, cycles,\* what udelay() and __udelay() have left
    start, chunk,\* delay_cycles(): the first reading, and how far from it
    wanted,      \* the delay asked for
    passed       \* cycles since it was asked for

timerVars == <<counter, waiting, usec, cycles, start, chunk, wanted, passed>>

TimerInit ==
    /\ counter \in 0..CounterMod - 1
    /\ waiting = "no" /\ usec = 0 /\ cycles = 0 /\ start = 0 /\ chunk = 0
    /\ wanted = 0 /\ passed = 0

-----------------------------------------------------------------------------
\* A second is Thousand milliseconds, each of them timer_rate \div Thousand cycles: what
\* the divisions leave over is not waited for.
Cycles(n) ==
    LET sec == n \div (Thousand * Thousand)
        msec == n \div Thousand - sec * Thousand
        us == n - sec * Thousand * Thousand - msec * Thousand
        rate == timer_rate \div Thousand
        all == sec * timer_rate + msec * rate + (us * rate) \div Thousand
    IN IF all = 0 THEN 1 ELSE all

AtMost(most, n) == IF n > most THEN most ELSE n

\* The counter as a step finds it, some cycles after the step before.
Elapses(g) ==
    /\ counter' = (counter - g) % CounterMod
    /\ passed' = passed + g

udelay(n) ==
    /\ waiting = "no" /\ wanted = 0
    /\ waiting' = "udelay" /\ usec' = n /\ wanted' = n /\ passed' = 0
    /\ UNCHANGED <<counter, cycles, start, chunk>>

__udelay(g) ==
    /\ waiting = "udelay"
    /\ waiting' = "chunk"
    /\ cycles' = Cycles(AtMost(RoundMax, usec))
    /\ usec' = usec - AtMost(RoundMax, usec)
    /\ Elapses(g) /\ UNCHANGED <<start, chunk, wanted>>

StartReading(g) ==
    /\ waiting = "chunk"
    /\ waiting' = "reading" /\ chunk' = AtMost(ChunkMax, cycles)
    /\ Elapses(g) /\ start' = counter'
    /\ UNCHANGED <<usec, cycles, wanted>>

\* The difference of two readings is a word, whichever side of 0 they lie on.
\* Mutant: as if the counter ran up.
DistanceUp(from, now) == (now - from) % CounterMod
Distance(from, now) == (from - now) % CounterMod

delay_cycles(g) ==
    /\ waiting = "reading"
    /\ Elapses(g)
    /\ IF Distance(start, counter') < chunk THEN UNCHANGED <<waiting, cycles>>
       ELSE /\ cycles' = cycles - chunk
            /\ waiting' = IF cycles' > 0 THEN "chunk" ELSE IF usec > 0 THEN "udelay" ELSE "no"
    /\ UNCHANGED <<usec, start, chunk, wanted>>

TimerNext ==
    \/ \E n \in Delays : udelay(n)
    \/ \E g \in 0..Latency : __udelay(g) \/ StartReading(g) \/ delay_cycles(g)

-----------------------------------------------------------------------------
\* A delay of udelay() is over no sooner than the cycles of the time asked for have gone
\* by, wherever the counter stood, but for less than one cycle for each whole millisecond
\* (less than Thousand in a round) and two for each round, which the divisions leave over,
\* and later only by the time it takes to read the counter.
DelayKeepsTime ==
    LET second == Thousand * Thousand
        rounds == AtMost(wanted, 1) + wanted \div RoundMax
        lost == AtMost(rounds * (Thousand - 1), wanted \div Thousand) + 2 * rounds
        whole == (wanted * timer_rate) \div second + rounds
        readings == rounds + 2 * (rounds + whole \div ChunkMax)
    IN waiting = "no" /\ wanted > 0 =>
         /\ (passed + lost) * second > wanted * timer_rate
         /\ passed <= whole + readings * Latency
=============================================================================
