----------------------------- MODULE LineEditor -----------------------------
(***************************************************************************)
(* What the operator sees of the console: a line of characters, a cursor   *)
(* between 0 and its length, and lines kept to be recalled.  No buffers,   *)
(* no terminators, no ring.                                                *)
(***************************************************************************)
EXTENDS Integers, Sequences, SequencesExt

CONSTANT Char

VARIABLES line, cursor, kept

Init == line = <<>> /\ cursor = 0 /\ kept = {<<>>}

\* Typing puts a character at the cursor and moves past it.
Type(c) ==
    /\ line' = InsertAt(line, cursor + 1, c)
    /\ cursor' = cursor + 1

\* Backspace removes the character before the cursor, Delete the one at it.
Backspace ==
    /\ cursor > 0
    /\ line' = RemoveAt(line, cursor)
    /\ cursor' = cursor - 1

Delete ==
    /\ cursor < Len(line)
    /\ line' = RemoveAt(line, cursor + 1)
    /\ UNCHANGED cursor

Move == UNCHANGED line /\ cursor' \in 0..Len(line)

\* The line is given up, or the next one begins.
Clear == line' = <<>> /\ cursor' = 0

Edit ==
    /\ Backspace \/ Delete \/ Move \/ Clear \/ \E c \in Char : Type(c)
    /\ UNCHANGED kept

\* Entering the line keeps it; something kept earlier may be forgotten.
Enter ==
    /\ kept' \subseteq kept \cup {line}
    /\ line \in kept'
    /\ UNCHANGED <<line, cursor>>

\* A kept line takes the place of the line, the cursor goes to its end.  The
\* line up to the cursor may be kept.
Recall ==
    /\ kept' \subseteq kept \cup {SubSeq(line, 1, cursor)}
    /\ line' \in kept'
    /\ cursor' = Len(line')

Next == Edit \/ Enter \/ Recall

Spec == Init /\ [][Next]_<<line, cursor, kept>>
=============================================================================
