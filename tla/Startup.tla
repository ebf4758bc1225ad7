------------------------------- MODULE Startup -------------------------------
(***************************************************************************)
(* The first instructions, src/src/head.S: the program copies itself to    *)
(* the address it is linked at, unless it is there, and clears what is     *)
(* behind it.  Where it was loaded is up to the boot ROM or a debugger,    *)
(* external; it is not on top of the place it is linked at.                *)
(***************************************************************************)
EXTENDS Integers

CONSTANTS
    TextBase,       \* __text_start, and _start where it is linked
    Image,      \* words up to __bss_start
    Bss,        \* words up to __bss_end
    Block,      \* words copied at a time: r4 to r11
    RamSize

ASSUME StartupAssumption ==
    /\ {TextBase, Image, Bss, Block, RamSize} \subseteq Nat \ {0}
    /\ Bss >= Block /\ TextBase + Image + Bss <= RamSize

VARIABLES
    ram,
    loaded,     \* where the program was loaded
    running_at, \* "relocate", "copy_loop", "clear_bss" or "main"
    r1, r2

startVars == <<ram, loaded, running_at, r1, r2>>

Rounded == Block * ((Image + Block - 1) \div Block)
NotOnTop(from) == from + Rounded <= TextBase \/ TextBase + Rounded <= from
Content(from, a) == IF a \in from..from + Image - 1 THEN a - from + 1 ELSE -1

StartInit ==
    /\ loaded \in {from \in 1..RamSize - Rounded : from = TextBase \/ NotOnTop(from)}
    /\ ram = [a \in 1..RamSize |-> Content(loaded, a)]
    /\ running_at = "relocate" /\ r1 = 0 /\ r2 = 0

-----------------------------------------------------------------------------
bss_start == TextBase + Image
bss_end == bss_start + Bss

Relocate ==
    /\ running_at = "relocate"
    /\ IF loaded = TextBase THEN running_at' = "clear_bss" /\ r1' = bss_start /\ UNCHANGED r2
       ELSE running_at' = "copy_loop" /\ r1' = loaded /\ r2' = TextBase
    /\ UNCHANGED <<ram, loaded>>

\* Mutant: only whole blocks of the image are copied.
CopyLoopWhole ==
    /\ running_at = "copy_loop"
    /\ ram' = [a \in DOMAIN ram |-> IF a \in r2..r2 + Block - 1 THEN ram[r1 + a - r2] ELSE ram[a]]
    /\ r2' = r2 + Block
    /\ IF r2' + Block <= bss_start THEN r1' = r1 + Block /\ UNCHANGED running_at
       ELSE r1' = bss_start /\ running_at' = "clear_bss"
    /\ UNCHANGED loaded

\* The last block may reach over the start of bss, which is cleared next.
CopyLoop ==
    /\ running_at = "copy_loop"
    /\ ram' = [a \in DOMAIN ram |-> IF a \in r2..r2 + Block - 1 THEN ram[r1 + a - r2] ELSE ram[a]]
    /\ r2' = r2 + Block
    /\ IF r2' < bss_start THEN r1' = r1 + Block /\ UNCHANGED running_at
       ELSE r1' = bss_start /\ running_at' = "clear_bss"
    /\ UNCHANGED loaded

ClearBss ==
    /\ running_at = "clear_bss"
    /\ ram' = [ram EXCEPT ![r1] = 0] /\ r1' = r1 + 1
    /\ running_at' = IF r1' = bss_end THEN "main" ELSE "clear_bss"
    /\ UNCHANGED <<loaded, r2>>

StartNext == Relocate \/ CopyLoop \/ ClearBss

-----------------------------------------------------------------------------
\* main() finds the program where it is linked and zeros behind it, and the rest of memory
\* as it was, wherever the program was loaded and whatever its size.
ImageIsInPlace ==
    running_at = "main" =>
        \A a \in DOMAIN ram :
            ram[a] = CASE a \in TextBase..bss_start - 1 -> a - TextBase + 1
                       [] a \in bss_start..bss_end - 1 -> 0
                       [] OTHER -> Content(loaded, a)
=============================================================================
