------------------------------- MODULE MemTest -------------------------------
(***************************************************************************)
(* cmd_memtest() of src/src/cmd/cmd_mem.c, which writes a ramp over the    *)
(* memory, reads it back, and goes on with another ramp for as long as it  *)
(* finds no error.  The memory is external: it is sound, has a bit that    *)
(* does not change, or has two words in the same place.                    *)
(***************************************************************************)
EXTENDS Integers, FiniteSets

CONSTANTS
    Words,      \* addr < end: the words tested
    WordRange   \* 2^32 for the board: values of a word

ASSUME MemTestAssumption ==
    /\ Words \in Nat \ {0} /\ WordRange \in Nat \ {0} /\ WordRange % 2 = 0
    /\ Words <= WordRange

VARIABLES
    fault,      \* of the memory
    first,      \* the pattern the test was started with
    pattern, incr,
    passes,     \* that have found no error: bounded, see Passes
    error       \* whether one was reported

memVars == <<fault, first, pattern, incr, passes, error>>

Wrap(n) == n % WordRange
TopBit == WordRange \div 2
\* What the bits of a word are worth.
Weights == {w \in 1..TopBit : WordRange % (2 * w) = 0}
Cells == 0..Words - 1

Sound == [kind |-> "none", a |-> 0, b |-> 0, v |-> 0]
Faults ==
    {Sound}
    \cup [kind : {"stuck"}, a : Cells, b : Weights, v : {0, 1}]
    \cup {f \in [kind : {"same"}, a : Cells, b : Cells, v : {0}] : f.a < f.b}

MemInit ==
    /\ fault \in Faults /\ first \in 0..WordRange - 1
    /\ pattern = first /\ incr = 1 /\ passes = 0 /\ error = FALSE

-----------------------------------------------------------------------------
Ramp(k) == Wrap(pattern + incr * k)

\* What word k holds when the ramp has been written from the first word to the last.
Stuck(n) ==
    LET bit == (n \div fault.b) % 2 IN n + (fault.v - bit) * fault.b
Readback(k) ==
    CASE fault.kind = "stuck" -> IF k = fault.a THEN Stuck(Ramp(k)) ELSE Ramp(k)
      [] fault.kind = "same" -> Ramp(IF k = fault.a THEN fault.b ELSE k)
      [] OTHER -> Ramp(k)

\* Mutant: the pattern is negated whichever sign it has.
NextPatternNegative(p) == Wrap(-p)
NextPattern(p) == IF p >= TopBit THEN Wrap(-p) ELSE Wrap(-p - 1)

Passes == 4     \* bound: passes are not counted further

Pass ==
    /\ ~error
    /\ IF \A k \in Cells : Readback(k) = Ramp(k)
       THEN /\ pattern' = NextPattern(pattern) /\ incr' = -incr
            /\ passes' = (IF passes = Passes THEN passes ELSE passes + 1)
            /\ UNCHANGED error
       ELSE error' = TRUE /\ UNCHANGED <<pattern, incr, passes>>
    /\ UNCHANGED <<fault, first>>

MemNext == Pass

-----------------------------------------------------------------------------
\* memtest reports no error of a sound memory.  It finds a bad bit, and two words that are
\* one, by its second pass, the default pattern 0 included, and by its third when it is
\* started with a negative pattern: not with the one that is its own negative.
FaultsAreFound ==
    /\ error => fault # Sound
    /\ fault # Sound /\ first # TopBit /\ ~error => passes < (IF first < TopBit THEN 2 ELSE 3)
=============================================================================
