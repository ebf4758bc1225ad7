------------------------------ MODULE BootLinux ------------------------------
(***************************************************************************)
(* The command "linux" of src/src/cmd/cmd_bootlinux.c: options are         *)
(* remembered from one command to the next, and -b lays the tags of the    *)
(* ARM boot protocol in memory and enters the kernel.  Characters are      *)
(* numbers; a line is what the console made of what was entered, without   *)
(* the command's name.  The kernel is external: it reads the tags.         *)
(***************************************************************************)
EXTENDS Integers, Sequences, SequencesExt, FiniteSetsExt

CONSTANTS
    Lines,           \* the arguments that are entered
    MAX_CMD_ARG,     \* of the console: arguments of a line, its name included
    MAX_CMD_ARG_LEN, \* of the console: an argument with its end
    CmdlineSize,     \* sizeof(__cmdline_str)
    DefaultCmdline,
    Commands         \* bound: lines entered

Char == 1..127
Hyphen == 45
Blank == 32
Option(letter) == <<Hyphen, letter>>
OptC == Option(99)
OptB == Option(98)
OptH == Option(104)
Names == {Option(109), Option(97), Option(107)}    \* -m, -a and -k take a number

\* The console lets no more and no longer arguments through, and an option that wants an
\* argument is not the last, an option that wants a number not in front of another.
ASSUME BootAssumption ==
    /\ MAX_CMD_ARG \in Nat /\ MAX_CMD_ARG_LEN \in Nat
    /\ CmdlineSize = MAX_CMD_ARG * MAX_CMD_ARG_LEN
    /\ DefaultCmdline \in Seq(Char) /\ Len(DefaultCmdline) < CmdlineSize
    /\ \A line \in Lines :
         /\ line \in Seq(Seq(Char)) /\ Len(line) \in 1..MAX_CMD_ARG - 1
         /\ \A k \in 1..Len(line) : Len(line[k]) \in 1..MAX_CMD_ARG_LEN - 1
         /\ Last(line) \notin Names \cup {OptC}
         /\ \A k \in 1..Len(line) : line[k] \in Names => line[k + 1][1] # Hyphen

VARIABLES
    argv,       \* the line, <<>> when the console waits for one
    at,         \* the argument the loop is at
    boot,
    number,     \* __machine_id, __atag_base and __kernel_base, by option
    cmdline,    \* __cmdline_str up to its end
    tags,       \* memory from __atag_base on, by byte
    entered,    \* what the kernel was called with, <<>> before
    lines       \* those entered so far

bootVars == <<argv, at, boot, number, cmdline, tags, entered, lines>>

Memory == 0..(4 * 10 + CmdlineSize)
Junk == 170
Default == -1       \* the three numbers the program comes with

BootInit ==
    /\ argv = <<>> /\ at = 1 /\ boot = FALSE
    /\ number = [name \in Names |-> Default]
    /\ cmdline = DefaultCmdline
    /\ tags = [a \in Memory |-> Junk]
    /\ entered = <<>> /\ lines = <<>>

-----------------------------------------------------------------------------
\* The option loop, an iteration at a time.
Arg == argv[at]
InLoop == argv # <<>> /\ at <= Len(argv)

Enter(line) ==
    /\ argv = <<>> /\ entered = <<>> /\ Len(lines) < Commands
    /\ argv' = line /\ lines' = Append(lines, line)
    /\ at' = 1 /\ boot' = FALSE
    /\ UNCHANGED <<number, cmdline, tags, entered>>

\* simple_strtoul() of decimal digits; other notations are those of Printf.tla.
ToNumber(text) ==
    LET other == SelectInSeq(text, LAMBDA c : c \notin 48..57)
        digits == IF other = 0 THEN text ELSE SubSeq(text, 1, other - 1)
    IN FoldLeft(LAMBDA n, c : 10 * n + c - 48, 0, digits)

TakesNumber ==
    /\ InLoop /\ Arg \in Names
    /\ number' = [number EXCEPT ![Arg] = ToNumber(argv[at + 1])]
    /\ at' = at + 2
    /\ UNCHANGED <<argv, boot, cmdline, tags, entered, lines>>

\* The arguments up to the next that begins with '-', each with a blank behind it unless
\* it is the last of the line.
WordsEnd(line, from) ==
    LET next == {k \in from..Len(line) : line[k][1] = Hyphen}
    IN IF next = {} THEN Len(line) ELSE Min(next) - 1
WithWord(text, w) == text \o w \o <<Blank>>
Joined(words) == FoldLeft(WithWord, <<>>, words)
Taken(line, from) ==
    LET text == Joined(SubSeq(line, from, WordsEnd(line, from)))
    IN IF WordsEnd(line, from) = Len(line) THEN Front(text) ELSE text

TakesCmdline ==
    /\ InLoop /\ Arg = OptC
    /\ cmdline' = Taken(argv, at + 1)
    /\ at' = WordsEnd(argv, at + 1) + 1
    /\ UNCHANGED <<argv, boot, number, tags, entered, lines>>

TakesBoot ==
    /\ InLoop /\ Arg = OptB
    /\ boot' = TRUE /\ at' = at + 1
    /\ UNCHANGED <<argv, number, cmdline, tags, entered, lines>>

\* What came before the -h is remembered, a -b is not.
ShowsHelp ==
    /\ InLoop /\ Arg = OptH
    /\ argv' = <<>>
    /\ UNCHANGED <<at, boot, number, cmdline, tags, entered, lines>>

SkipsArgument ==
    /\ InLoop /\ Arg \notin Names \cup {OptC, OptB, OptH}
    /\ at' = at + 1
    /\ UNCHANGED <<argv, boot, number, cmdline, tags, entered, lines>>

-----------------------------------------------------------------------------
\* The tags: bytes, the low one of a word first.  tag_size() is in words.
Word(n) == <<n % 256, n \div 256, 0, 0>>
ATAG_CORE == <<1, 0, 65, 84>>
ATAG_CMDLINE == <<9, 0, 65, 84>>
ATAG_NONE == <<0, 0, 0, 0>>
Put(m, a, bytes) == [b \in DOMAIN m |-> IF b \in a..a + Len(bytes) - 1 THEN bytes[b - a + 1] ELSE m[b]]
Size(m, a) == m[a] + 256 * m[a + 1]
tag_next(m, a) == a + 4 * Size(m, a)

WithoutLeadingBlanks(text) ==
    LET first == SelectInSeq(text, LAMBDA c : c # Blank)
    IN IF first = 0 THEN <<>> ELSE SubSeq(text, first, Len(text))

atag_core_setup(m) == Put(m, 0, Word(5) \o ATAG_CORE \o Word(0) \o Word(0) \o Word(0))

\* The size leaves no room for the 0 that ends the text.
\* Mutant: nor for the word the text ends in.
atag_cmdline_setupShort(m, a) ==
    LET text == WithoutLeadingBlanks(cmdline)
    IN Put(m, a, Word((8 + Len(text)) \div 4) \o ATAG_CMDLINE \o text \o <<0>>)
atag_cmdline_setup(m, a) ==
    LET text == WithoutLeadingBlanks(cmdline)
    IN Put(m, a, Word((8 + Len(text) + 3) \div 4) \o ATAG_CMDLINE \o text \o <<0>>)

atag_none_setup(m, a) == Put(m, a, Word(0) \o ATAG_NONE)

WithTags ==
    LET core == atag_core_setup(tags)
        text == atag_cmdline_setup(core, tag_next(core, 0))
    IN atag_none_setup(text, tag_next(text, tag_next(text, 0)))

Boots ==
    /\ argv # <<>> /\ at > Len(argv) /\ boot
    /\ tags' = WithTags /\ entered' = number /\ argv' = <<>>
    /\ UNCHANGED <<at, boot, number, cmdline, lines>>

Ends ==
    /\ argv # <<>> /\ at > Len(argv) /\ ~boot
    /\ argv' = <<>>
    /\ UNCHANGED <<at, boot, number, cmdline, tags, entered, lines>>

BootNext ==
    \/ \E line \in Lines : Enter(line)
    \/ TakesNumber \/ TakesCmdline \/ TakesBoot \/ ShowsHelp \/ SkipsArgument \/ Boots \/ Ends

-----------------------------------------------------------------------------
\* What the lines entered ask for.  A line is read up to its -h.
Read(line) == SubSeq(line, 1, Min({k \in 1..Len(line) : line[k] = OptH} \cup {Len(line) + 1}) - 1)
Given(option) ==
    {p \in (1..Len(lines)) \X (1..MAX_CMD_ARG) :
        p[2] <= Len(Read(lines[p[1]])) /\ lines[p[1]][p[2]] = option}
Latest(places) == CHOOSE p \in places :
    \A q \in places : q[1] < p[1] \/ (q[1] = p[1] /\ q[2] <= p[2])

NumberAsked(name) ==
    IF Given(name) = {} THEN Default
    ELSE LET p == Latest(Given(name)) IN ToNumber(lines[p[1]][p[2] + 1])

\* Words with one blank between them, and one behind them where an option follows.
CmdlineAsked ==
    IF Given(OptC) = {} THEN DefaultCmdline
    ELSE LET p == Latest(Given(OptC))  line == lines[p[1]]  first == p[2] + 1
             words == {k \in first..Len(line) : \A j \in first..k : line[j][1] # Hyphen}
             n == Cardinality(words)
             text == FlattenSeq([k \in 1..n |-> line[p[2] + k] \o <<Blank>>])
         IN IF n > 0 /\ p[2] + n = Len(line) THEN Front(text) ELSE text

\* The kernel is entered with the numbers last given, and finds three tags behind each
\* other, the second with the words that were behind the last -c, without blanks in front,
\* and ended by a 0: that the 0 is not counted in the tag's size is made up for by the 0
\* the third tag begins with.  The text always fits in __cmdline_str.
KernelGetsWhatWasAsked ==
    LET text == tag_next(tags, 0)
        none == tag_next(tags, text)
        Tag(a) == [k \in 1..4 |-> tags[a + 3 + k]]
        end == Min({a \in text + 8..none + 8 : tags[a] = 0})
    IN /\ Len(cmdline) < CmdlineSize
       /\ entered # <<>> =>
            /\ entered = [name \in Names |-> NumberAsked(name)]
            /\ Tag(0) = ATAG_CORE /\ Tag(text) = ATAG_CMDLINE
            /\ Tag(none) = ATAG_NONE /\ Size(tags, none) = 0
            /\ [k \in 1..end - text - 8 |-> tags[text + 7 + k]] = WithoutLeadingBlanks(CmdlineAsked)
=============================================================================
