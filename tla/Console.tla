------------------------------ MODULE Console ------------------------------
(***************************************************************************)
(* The command console of qboot, src/src/console.c: GetMessage() edits a   *)
(* line one received character at a time and keeps a ring of the lines     *)
(* entered, TranslateMessage() cuts the line into arguments and            *)
(* DispatchMessage() looks the command up.                                 *)
(*                                                                         *)
(* A character is a string of its own; "CR" stands for \r and \n, "BS" for *)
(* 0x08 and 0x7f, "CTRL" for the control characters the console ignores.   *)
(* The line buffer is the array of the code, one byte past its end         *)
(* included; what happens once that byte is written is undefined in the    *)
(* code, and the model goes no further.  A history slot is the C string it *)
(* holds.                                                                  *)
(***************************************************************************)
EXTENDS Integers, Sequences, SequencesExt

CONSTANTS
    Sends,      \* bound: Sends[p], the characters the terminal sends to the
                \* raw_getchar() at p
    MaxCmdLen,  \* MAX_CMD_LEN, 256 in the code
    HstDep,     \* CMD_HST_DEP, 16 in the code, a power of two
    MaxCmdArg,  \* MAX_CMD_ARG, 8 in the code
    MaxArgLen,  \* MAX_CMD_ARG_LEN, 32 in the code
    Commands    \* the names in the .cmdcall section, as sequences

NUL == "NUL"
Blank == " "
Special == {"CR", "^C", "BS", "ESC", "CTRL"}
Keys == UNION {Sends[p] : p \in DOMAIN Sends}
Char == Keys \ Special

ASSUME SizesAssumption ==
    /\ MaxCmdLen \in Nat \ {0, 1} /\ HstDep \in Nat \ {0, 1}
    /\ MaxCmdArg \in Nat \ {0} /\ MaxArgLen \in Nat \ {0}
    /\ DOMAIN Sends = {"key", "esc", "csi", "tail"} /\ NUL \notin Keys

VARIABLES
    buf, cur_pos, cur_max,       \* the line being edited
    hst_pos,                     \* the history slot it shows
    esc_sequence, spec_key,      \* GetMessage's flags
    at,                          \* the raw_getchar() it waits in
    vpchCmdStack, iCmdHstSP,     \* the history ring
    argv,                        \* what TranslateMessage() made of the line
    ran,                         \* the last command run, its argc
    entered                      \* history variable: the last lines entered

lineVars == <<buf, cur_pos, cur_max>>
ringVars == <<vpchCmdStack, iCmdHstSP>>
dispVars == <<argv, ran, entered>>
vars == <<lineVars, hst_pos, esc_sequence, spec_key, at, ringVars, dispVars>>

-----------------------------------------------------------------------------
\* Memory.

Index == 0..MaxCmdLen               \* MaxCmdLen itself lies past the buffer

\* The C string that starts at the beginning of memory m.
CString(m) ==
    LET end == CHOOSE i \in Index : m[i] = NUL /\ \A j \in 0..(i - 1) : m[j] # NUL
    IN  [k \in 1..end |-> m[k - 1]]

\* strcpy() of string s over memory m: what lies behind the terminator stays.
StrCpy(m, s) ==
    [i \in Index |-> IF i < Len(s) THEN s[i + 1] ELSE IF i = Len(s) THEN NUL ELSE m[i]]

Line == [k \in 1..cur_max |-> buf[k - 1]]

CMD_ADJUST_INDEX(i) == i % HstDep

NoCommand == <<>>

TypeOK ==
    /\ buf \in [Index -> Char \cup {NUL}]
    /\ cur_max \in 0..MaxCmdLen /\ cur_pos \in 0..cur_max
    /\ hst_pos \in 0..(HstDep - 1) /\ iCmdHstSP \in 0..(HstDep - 1)
    /\ esc_sequence \in {0, 1} /\ spec_key \in {0, 1}
    /\ at \in {"key", "esc", "csi", "O", "3", "dispatch"}
    /\ vpchCmdStack \in [0..(HstDep - 1) -> Seq(Char)]
    /\ argv \in Seq(Seq(Char))
    /\ ran \in [cmd : Commands \cup {NoCommand}, argc : 0..MaxCmdArg]
    /\ entered \in Seq(Seq(Char))

\* start_console(): CreateCmdStack() and the first GetMessage().
Init ==
    /\ buf = [i \in Index |-> NUL] /\ cur_pos = 0 /\ cur_max = 0
    /\ hst_pos = 0 /\ iCmdHstSP = 0
    /\ esc_sequence = 0 /\ spec_key = 0
    /\ at = "key"
    /\ vpchCmdStack = [i \in 0..(HstDep - 1) |-> <<>>]
    /\ argv = <<>>
    /\ ran = [cmd |-> NoCommand, argc |-> 0]
    /\ entered = <<>>

-----------------------------------------------------------------------------
\* Editing.

InsertOneKey(c) ==
    /\ buf' = [i \in Index |-> IF i = cur_pos THEN c
                               ELSE IF i \in (cur_pos + 1)..(cur_max + 1) THEN buf[i - 1]
                               ELSE buf[i]]
    /\ cur_pos' = cur_pos + 1
    /\ cur_max' = cur_max + 1

BackSpaceOneKey ==
    /\ buf' = [i \in Index |-> IF i = cur_max THEN NUL
                               ELSE IF i \in (cur_pos - 1)..(cur_max - 2) THEN buf[i + 1]
                               ELSE buf[i]]
    /\ cur_pos' = cur_pos - 1
    /\ cur_max' = cur_max - 1

\* Mutant: the shift ends a character early.
DeleteEarly ==
    IF cur_pos = cur_max THEN UNCHANGED lineVars
    ELSE /\ buf' = [i \in Index |-> IF i = cur_max THEN NUL
                                    ELSE IF i \in cur_pos..(cur_max - 3) THEN buf[i + 1]
                                    ELSE buf[i]]
         /\ cur_max' = cur_max - 1
         /\ UNCHANGED cur_pos

DeleteOneKey ==
    IF cur_pos = cur_max THEN UNCHANGED lineVars
    ELSE /\ buf' = [i \in Index |-> IF i = cur_max THEN NUL
                                    ELSE IF i \in cur_pos..(cur_max - 2) THEN buf[i + 1]
                                    ELSE buf[i]]
         /\ cur_max' = cur_max - 1
         /\ UNCHANGED cur_pos

\* The limit is on the cursor; over it only a message is printed.
PrintInput(c) ==
    IF cur_pos < MaxCmdLen - 1 THEN InsertOneKey(c) ELSE UNCHANGED lineVars

\* Mutant: the length of the line is not that of the line shown.
ShowKeepsMax(i, m) ==
    LET erased == [j \in Index |-> IF j < cur_pos THEN NUL ELSE m[j]]
    IN  /\ buf' = StrCpy(erased, vpchCmdStack'[i])
        /\ cur_pos' = Len(vpchCmdStack'[i])
        /\ hst_pos' = i
        /\ UNCHANGED cur_max

\* Show history slot i in place of the line; m is the line's memory before.
Show(i, m) ==
    LET erased == [j \in Index |-> IF j < cur_pos THEN NUL ELSE m[j]]
    IN  /\ buf' = StrCpy(erased, vpchCmdStack'[i])
        /\ cur_pos' = Len(vpchCmdStack'[i])
        /\ cur_max' = Len(vpchCmdStack'[i])
        /\ hst_pos' = i

\* Mutant: a recalled line is saved over its slot as well.
CmdUpKeyAlways ==
    LET cut   == [buf EXCEPT ![cur_pos] = NUL]
        older == CMD_ADJUST_INDEX(hst_pos - 1)
    IN  /\ vpchCmdStack' = [vpchCmdStack EXCEPT ![hst_pos] = CString(cut)]
        /\ IF older # iCmdHstSP THEN Show(older, cut)
           ELSE buf' = cut /\ UNCHANGED <<cur_pos, cur_max, hst_pos>>
        /\ UNCHANGED iCmdHstSP

\* Mutant: the draft is saved without ending it.
CmdUpKeyUnended ==
    LET draft == hst_pos = iCmdHstSP
        older == CMD_ADJUST_INDEX(hst_pos - 1)
    IN  /\ vpchCmdStack' = IF draft THEN [vpchCmdStack EXCEPT ![iCmdHstSP] = CString(buf)]
                                    ELSE vpchCmdStack
        /\ IF older # iCmdHstSP THEN Show(older, buf)
           ELSE UNCHANGED <<lineVars, hst_pos>>
        /\ UNCHANGED iCmdHstSP

\* From the line being typed, its characters before the cursor are kept in
\* the ring's free slot.
CmdUpKey ==
    LET draft == hst_pos = iCmdHstSP
        cut   == IF draft THEN [buf EXCEPT ![cur_pos] = NUL] ELSE buf
        older == CMD_ADJUST_INDEX(hst_pos - 1)
    IN  /\ vpchCmdStack' = IF draft THEN [vpchCmdStack EXCEPT ![iCmdHstSP] = CString(cut)]
                                    ELSE vpchCmdStack
        /\ IF older # iCmdHstSP THEN Show(older, cut)
           ELSE buf' = cut /\ UNCHANGED <<cur_pos, cur_max, hst_pos>>
        /\ UNCHANGED iCmdHstSP

CmdDownKey ==
    /\ UNCHANGED ringVars
    /\ IF hst_pos = iCmdHstSP THEN UNCHANGED <<lineVars, hst_pos>>
                              ELSE Show(CMD_ADJUST_INDEX(hst_pos + 1), buf)

CmdRightKey ==
    /\ cur_pos' = IF cur_pos < cur_max THEN cur_pos + 1 ELSE cur_pos
    /\ UNCHANGED <<buf, cur_max>>

CmdLeftKey ==
    /\ cur_pos' = IF cur_pos > 0 THEN cur_pos - 1 ELSE cur_pos
    /\ UNCHANGED <<buf, cur_max>>

CmdUpdateHistory(line) ==
    /\ vpchCmdStack' = [vpchCmdStack EXCEPT ![iCmdHstSP] = line]
    /\ iCmdHstSP' = CMD_ADJUST_INDEX(iCmdHstSP + 1)

\* The end of the inner loop of GetMessage().  An empty line is edited on.
EndOfLine ==
    IF cur_max = 0
    THEN at' = "key" /\ UNCHANGED <<lineVars, hst_pos, ringVars, dispVars>>
    ELSE LET ended == [buf EXCEPT ![cur_max] = NUL]
         IN  /\ buf' = ended
             /\ CmdUpdateHistory(CString(ended))
             /\ entered' = SubSeq(<<CString(ended)>> \o entered, 1,
                                  IF Len(entered) + 1 < HstDep THEN Len(entered) + 1
                                                               ELSE HstDep - 1)
             /\ at' = "dispatch"
             /\ UNCHANGED <<cur_pos, cur_max, hst_pos, argv, ran>>

-----------------------------------------------------------------------------
\* GetMessage(): one action per raw_getchar(), each followed by the switch.

\* The keys of the switch that only edit the line.
EditKey(c, spec, esc) ==
    /\ \/ c = "BS" /\ cur_pos > 0 /\ BackSpaceOneKey
       \/ c = "BS" /\ cur_pos = 0 /\ UNCHANGED lineVars
       \/ c = "^C" /\ cur_pos' = 0 /\ cur_max' = 0 /\ UNCHANGED buf
       \/ c = "C" /\ esc = 1 /\ CmdRightKey
       \/ c = "D" /\ esc = 1 /\ CmdLeftKey
       \/ c \in {"A", "B", "C", "D"} /\ esc = 0 /\ PrintInput(c)
       \/ c \in {"O", "3"} /\ spec = 0 /\ PrintInput(c)
       \/ c \in Char \ {"A", "B", "C", "D", "O", "3"} /\ PrintInput(c)
       \/ c \in {"ESC", "CTRL"} /\ UNCHANGED lineVars
    /\ at' = "key"
    /\ UNCHANGED <<hst_pos, ringVars, dispVars>>

HistoryKey(c, esc) ==
    /\ esc = 1
    /\ \/ c = "A" /\ CmdUpKey
       \/ c = "B" /\ CmdDownKey
    /\ at' = "key"
    /\ UNCHANGED dispVars

Switch(c, spec, esc) ==
    \/ EditKey(c, spec, esc)
    \/ HistoryKey(c, esc)
    \/ c = "CR" /\ EndOfLine
    \/ /\ c \in {"O", "3"} /\ spec = 1
       /\ at' = c
       /\ UNCHANGED <<lineVars, hst_pos, ringVars, dispVars>>

\* The byte past the buffer has not been written yet.
Defined == cur_max < MaxCmdLen

\* Line 280: an ordinary character resets both flags, an escape waits for more.
ReadKey(c) ==
    /\ at = "key" /\ Defined
    /\ IF c = "ESC"
       THEN /\ spec_key' = 1 /\ at' = "esc"
            /\ UNCHANGED <<lineVars, hst_pos, esc_sequence, ringVars, dispVars>>
       ELSE /\ spec_key' = 0 /\ esc_sequence' = 0
            /\ Switch(c, 0, 0)

\* Line 284: esc_sequence is set by the bracket and otherwise left as it was.
ReadEsc(c) ==
    /\ at = "esc"
    /\ UNCHANGED spec_key
    /\ IF c = "["
       THEN /\ esc_sequence' = 1 /\ at' = "csi"
            /\ UNCHANGED <<lineVars, hst_pos, ringVars, dispVars>>
       ELSE Switch(c, 1, esc_sequence) /\ UNCHANGED esc_sequence

\* Line 287.
ReadCsi(c) ==
    /\ at = "csi"
    /\ Switch(c, 1, 1)
    /\ UNCHANGED <<spec_key, esc_sequence>>

\* Lines 343 and 363: the last character of Home, End and Delete.
ReadTail(c) ==
    /\ at \in {"O", "3"}
    /\ UNCHANGED <<spec_key, esc_sequence>>
    /\ \/ c = "CR" /\ EndOfLine
       \/ /\ c # "CR"
          /\ \/ at = "O" /\ c = "H" /\ cur_pos' = 0 /\ UNCHANGED <<buf, cur_max>>
             \/ at = "O" /\ c = "F" /\ cur_pos' = cur_max /\ UNCHANGED <<buf, cur_max>>
             \/ at = "3" /\ c = "~" /\ DeleteOneKey
             \/ <<at, c>> \notin {<<"O", "H">>, <<"O", "F">>, <<"3", "~">>} /\ UNCHANGED lineVars
          /\ at' = "key"
          /\ UNCHANGED <<hst_pos, ringVars, dispVars>>

-----------------------------------------------------------------------------
\* TranslateMessage() and DispatchMessage().

\* One character of the line, for the words so far: s.open says whether the
\* last of them still grows.
Scan(s, c) ==
    IF c = Blank THEN [s EXCEPT !.open = FALSE]
    ELSE IF s.open THEN [s EXCEPT !.words[Len(s.words)] = Append(@, c)]
    ELSE [words |-> Append(s.words, <<c>>), open |-> TRUE]

AllWords(line) == FoldLeft(Scan, [words |-> <<>>, open |-> FALSE], line).words

\* It stops at MAX_CMD_ARG words, and gives up at one that is too long; the
\* value for that (-1 in the code) is a word no line has.
TooLong == << <<>> >>
\* Mutant: one word more than there is room for.
TranslateOneMore(line) ==
    LET words == AllWords(line)
        n == IF Len(words) < MaxCmdArg THEN Len(words) ELSE MaxCmdArg + 1
    IN  IF \E i \in 1..Len(words) : i <= n /\ Len(words[i]) + 1 > MaxArgLen THEN TooLong
        ELSE SubSeq(words, 1, IF n < Len(words) THEN n ELSE Len(words))

TranslateMessage(line) ==
    LET words == AllWords(line)
        n == IF Len(words) < MaxCmdArg THEN Len(words) ELSE MaxCmdArg
    IN  IF \E i \in 1..n : Len(words[i]) + 1 > MaxArgLen THEN TooLong
        ELSE SubSeq(words, 1, n)

find_cmd(name) == IF name \in Commands THEN name ELSE NoCommand

\* With no word on the line argv[0] is uninitialised: any command may run.
\* The next GetMessage() starts from a clean buffer.
Dispatch ==
    /\ at = "dispatch"
    /\ argv' = TranslateMessage(CString(buf))
    /\ \/ argv' = TooLong /\ UNCHANGED ran
       \/ /\ argv' # TooLong
          /\ \E cmd \in IF argv' = <<>> THEN Commands \cup {NoCommand}
                                        ELSE {find_cmd(argv'[1])} :
                ran' = [cmd |-> cmd, argc |-> Len(argv')]
    /\ buf' = [i \in Index |-> NUL] /\ cur_pos' = 0 /\ cur_max' = 0
    /\ hst_pos' = iCmdHstSP
    /\ esc_sequence' = 0 /\ spec_key' = 0
    /\ at' = "key"
    /\ UNCHANGED <<ringVars, entered>>

Next ==
    \/ \E c \in Sends["key"] : ReadKey(c)
    \/ \E c \in Sends["esc"] : ReadEsc(c)
    \/ \E c \in Sends["csi"] : ReadCsi(c)
    \/ \E c \in Sends["tail"] : ReadTail(c)
    \/ Dispatch

Spec == Init /\ [][Next]_vars

-----------------------------------------------------------------------------
(***************************************************************************)
(* Properties.                                                             *)
(***************************************************************************)

\* The shifting and terminating of the line buffer, with the stale bytes it
\* leaves behind, edits a line the way the operator sees it, and recalls only
\* lines that were kept (InsertOneKey, BackSpaceOneKey, DeleteOneKey, CmdUpKey,
\* CmdDownKey, GetMessage).
Editor == INSTANCE LineEditor
            WITH line <- Line, cursor <- cur_pos,
                 kept <- {vpchCmdStack[i] : i \in 0..(HstDep - 1)}
EditsALine == Editor!Spec

\* Drafts, interrupted lines and browsing past either end never overwrite or
\* reorder the HstDep - 1 most recent lines entered: the ring holds them, newest
\* first, behind its free slot.
RingHoldsEntered ==
    \A k \in 1..Len(entered) : vpchCmdStack[CMD_ADJUST_INDEX(iCmdHstSP - k)] = entered[k]

\* The fields of a line: its maximal runs without a space.
FieldStarts(line) ==
    {i \in 1..Len(line) : line[i] # Blank /\ (i = 1 \/ line[i - 1] = Blank)}
IsField(word, line, i) ==
    /\ word = SubSeq(line, i, i + Len(word) - 1)
    /\ i + Len(word) - 1 <= Len(line)
    /\ \A j \in 1..Len(word) : word[j] # Blank
    /\ i + Len(word) <= Len(line) => line[i + Len(word)] = Blank

\* Words are the leading fields of a line, all of them or as many as there is room for.
AreLeadingFields(words, line) ==
    \E from \in [1..Len(words) -> FieldStarts(line)] :
        /\ \A k \in 1..Len(words) : IsField(words[k], line, from[k])
        /\ \A j, k \in 1..Len(words) : j < k => from[j] < from[k]
        /\ \A i \in FieldStarts(line) :
             \/ \E k \in 1..Len(words) : from[k] = i
             \/ Len(words) = MaxCmdArg /\ from[MaxCmdArg] < i

\* What runs is what was entered: the arguments are the leading fields of the
\* newest line of the history, in order, and the command is the first of them;
\* characters of longer lines before it never show up in it.
RunsWhatWasEntered ==
    at # "dispatch" /\ argv \notin {<<>>, TooLong} =>
        /\ AreLeadingFields(argv, entered[1])
        /\ Len(argv) <= MaxCmdArg
        /\ \A k \in 1..Len(argv) : Len(argv[k]) < MaxArgLen
        /\ ran = [cmd |-> find_cmd(argv[1]), argc |-> Len(argv)]

\* Going up from the line being typed, with the cursor at its end, keeps it
\* where CmdDownKey finds it again.
DraftKeptFromEnd ==
    [][hst_pos = iCmdHstSP /\ hst_pos' # hst_pos /\ cur_pos = cur_max
         => vpchCmdStack'[iCmdHstSP] = Line]_vars

\* "the command must be less than %d letter" (PrintInput): the line and its
\* terminator fit the buffer.
LineFitsBuffer == cur_max < MaxCmdLen
=============================================================================
