------------------------------- MODULE Printf -------------------------------
(***************************************************************************)
(* Numbers as text: NumToAscii() and the conversions of vsprintf() in      *)
(* src/src/lib/stdlib/stdio.c, and the other way simple_strtoull() of      *)
(* src/src/lib/vsprintf.c and hatol() of string.c.  A directive is its     *)
(* flags in the order written, its width and its letter; what stands       *)
(* between directives is copied as it is.                                  *)
(***************************************************************************)
EXTENDS Integers, Sequences, SequencesExt, FiniteSetsExt

CONSTANTS
    WordSize,       \* 2^32 for the board
    Directives,     \* records flags, width, conv
    Arguments

Space == " "
Flags == {"-", "+", Space, "#", "0"}
Letters == {"d", "i", "u", "x", "X", "o", "p"}

ASSUME PrintfAssumption ==
    /\ WordSize \in Nat \ {0} /\ WordSize % 2 = 0
    /\ Directives \subseteq [flags : Seq(Flags), width : Nat, conv : Letters]
    /\ Arguments \subseteq 0..WordSize - 1

VARIABLES directive, arg, printed

printfVars == <<directive, arg, printed>>

Nothing == [flags |-> <<>>, width |-> 0, conv |-> "none"]
PrintfInit == directive = Nothing /\ arg = 0 /\ printed = <<>>

-----------------------------------------------------------------------------
Digit == <<"0", "1", "2", "3", "4", "5", "6", "7", "8", "9", "a", "b", "c", "d", "e", "f">>
Times(n, c) == [i \in 1..n |-> c]

Digits(n, base) ==
    LET of[k \in 0..n] ==
            IF k < base THEN <<Digit[k + 1]>> ELSE Append(of[k \div base], Digit[(k % base) + 1])
    IN of[n]

\* LEFT, SIGN, SPACE, PLUS, ZERO as the flag characters set them, one after the other.
FlagOf(style, c) ==
    CASE c = "-" -> (style \ {"ZERO"}) \cup {"LEFT"}
      [] c = "+" -> style \cup {"SIGN"}
      [] c = Space -> style \cup {"SPACE"}
      [] c = "#" -> style \cup {"PLUS"}
      [] c = "0" -> IF "LEFT" \in style THEN style ELSE style \cup {"ZERO"}
Style(flags) == FoldLeft(FlagOf, {}, flags)

Base(conv) == CASE conv \in {"x", "X", "p"} -> 16 [] conv = "o" -> 8 [] OTHER -> 10

\* What the letter adds to the flags and takes from them.
StyleFor(conv, style) ==
    CASE conv = "u" -> style \ {"SIGN", "PLUS"}
      [] conv \in {"d", "i"} -> IF "SIGN" \in style THEN style ELSE style \cup {"SIGN", "SIGNINT"}
      [] conv = "p" -> style \cup {"PLUS"}
      [] OTHER -> style

Negative(n) == n >= WordSize \div 2
SignOf(n, base, style) ==
    IF base # 10 THEN <<>>
    ELSE IF "SIGN" \in style
         THEN IF Negative(n) THEN <<"-">> ELSE IF "SIGNINT" \in style THEN <<>> ELSE <<"+">>
         ELSE IF "SPACE" \in style /\ ~Negative(n) THEN <<Space>> ELSE <<>>
Magnitude(n, base, style) ==
    IF base = 10 /\ "SIGN" \in style /\ Negative(n) THEN WordSize - n ELSE n
Prefix(base, style) ==
    IF "PLUS" \notin style THEN <<>>
    ELSE CASE base = 16 -> <<"0", "x">> [] base = 8 -> <<"0">> [] OTHER -> <<>>

\* The padding stands in front of prefix and sign, also when it is made of zeros; behind
\* the number it is made of the same character.
\* Mutant: the sign is not counted.
NumToAsciiWide(n, width, base, style) ==
    LET body == Prefix(base, style) \o SignOf(n, base, style)
                \o Digits(Magnitude(n, base, style), base)
        short == width - Len(body) + Len(SignOf(n, base, style))
        fill == Times(short, IF "ZERO" \in style THEN "0" ELSE Space)
    IN IF "LEFT" \in style THEN body \o fill ELSE fill \o body
NumToAscii(n, width, base, style) ==
    LET body == Prefix(base, style) \o SignOf(n, base, style)
                \o Digits(Magnitude(n, base, style), base)
        fill == Times(width - Len(body), IF "ZERO" \in style THEN "0" ELSE Space)
    IN IF "LEFT" \in style THEN body \o fill ELSE fill \o body

vsprintf(dir, n) ==
    NumToAscii(n, dir.width, Base(dir.conv), StyleFor(dir.conv, Style(dir.flags)))

Convert(dir, n) ==
    /\ directive = Nothing
    /\ directive' = dir /\ arg' = n /\ printed' = vsprintf(dir, n)

PrintfNext == \E dir \in Directives, n \in Arguments : Convert(dir, n)

-----------------------------------------------------------------------------
Value(c) == (CHOOSE i \in 1..16 : Digit[i] = c) - 1
IsXdigit(c) == c \in Range(Digit)
At(text, i) == IF i \in 1..Len(text) THEN text[i] ELSE "NUL"
Hex(text) == At(text, 1) = "0" /\ At(text, 2) = "x"

simple_guess_base(text) ==
    IF At(text, 1) # "0" THEN 10 ELSE IF Hex(text) /\ IsXdigit(At(text, 3)) THEN 16 ELSE 8

\* The longest run of digits of the base, as a number of the machine's.
TakeDigit(base, r, c) == (r * base + Value(c)) % WordSize
ReadDigits(digits, base) == FoldLeft(LAMBDA r, c : TakeDigit(base, r, c), 0, digits)
Number(text, base) ==
    LET run == SelectInSeq(text, LAMBDA c : ~IsXdigit(c) \/ Value(c) >= base)
        digits == IF run = 0 THEN text ELSE SubSeq(text, 1, run - 1)
    IN ReadDigits(digits, base)

simple_strtoul(text, base) ==
    LET b == IF base = 0 THEN simple_guess_base(text) ELSE base
    IN Number(IF b = 16 /\ Hex(text) THEN SubSeq(text, 3, Len(text)) ELSE text, b)

\* -1 is an error; the whole text must be of digits.
hatol(text) ==
    LET digits == IF Hex(text) THEN SubSeq(text, 3, Len(text)) ELSE text
    IN IF \A i \in 1..Len(digits) : IsXdigit(digits[i]) THEN Number(digits, 16) ELSE -1

-----------------------------------------------------------------------------
\* A text without the blanks around it, and without its sign.
Stripped(text) ==
    SubSeq(text, SelectInSeq(text, LAMBDA c : c # Space), SelectLastInSeq(text, LAMBDA c : c # Space))
Unsigned(text) == IF text[1] \in {"+", "-"} THEN Tail(text) ELSE text

\* Zeros that fill up to the width stand in front of a sign or a prefix: such a text,
\* "000-3", is no number.
ZerosFirst(dir) ==
    LET style == StyleFor(dir.conv, Style(dir.flags))
    IN "ZERO" \in style
       /\ (Prefix(Base(dir.conv), style) # <<>> \/ SignOf(arg, Base(dir.conv), style) # <<>>)

\* What vsprintf() made of a number is filled up to its width and no further, on the side
\* its flags ask for, and simple_strtoul() and hatol() read the number back from it, with
\* '#' without being told the base.
PrintfReadsBack ==
    LET text == Stripped(printed)
        style == Style(directive.flags)
        conv == directive.conv
        filled == Len(printed) - Len(text)
        minus == conv \in {"d", "i"} /\ Negative(arg)
    IN directive # Nothing /\ ~ZerosFirst(directive) =>
         /\ Len(printed) >= directive.width
         /\ Len(printed) > directive.width =>
              filled = (IF "SPACE" \in style /\ Head(printed) = Space THEN 1 ELSE 0)
         /\ IF "LEFT" \in style THEN filled > 1 => Last(printed) = Space ELSE Last(printed) # Space
         /\ (Head(text) = "-") = minus
         /\ simple_strtoul(Unsigned(text), Base(conv)) = IF minus THEN WordSize - arg ELSE arg
         /\ conv \in {"x", "X", "p"} => hatol(text) = arg
         /\ conv = "p" \/ ("PLUS" \in style /\ conv \in {"x", "X", "o"}) =>
              simple_strtoul(text, 0) = arg
=============================================================================
