---------------------------- MODULE ConsoleProofs ----------------------------
(***************************************************************************)
(* Proofs about Console, for every size of the line buffer and of the      *)
(* history ring, and whatever the terminal sends.                          *)
(***************************************************************************)
EXTENDS Console, DataInduction, SequenceTheorems

-----------------------------------------------------------------------------
\* Sequences and strings.

LEMMA InsertAtIs ==
    ASSUME NEW S, NEW s \in Seq(S), NEW e \in S, NEW i \in 1..(Len(s) + 1)
    PROVE  InsertAt(s, i, e) = [k \in 1..(Len(s) + 1) |->
                                   IF k < i THEN s[k] ELSE IF k = i THEN e ELSE s[k - 1]]
  <1> DEFINE a == SubSeq(s, 1, i - 1)
             b == SubSeq(s, i, Len(s))
             r == [k \in 1..(Len(s) + 1) |-> IF k < i THEN s[k] ELSE IF k = i THEN e ELSE s[k - 1]]
  <1>1. Len(s) \in Nat /\ i \in Nat /\ 1 <= i /\ i <= Len(s) + 1
    BY LenProperties
  <1>2. a \in Seq(S) /\ Len(a) = i - 1 /\ \A k \in 1..(i - 1) : a[k] = s[k]
    BY <1>1
  <1>3. b \in Seq(S) /\ Len(b) = Len(s) - i + 1 /\ \A k \in 1..(Len(s) - i + 1) : b[k] = s[i + k - 1]
    BY <1>1
  <1>4. <<e>> \in Seq(S) /\ Len(<<e>>) = 1 /\ <<e>>[1] = e
    OBVIOUS
  <1>5. InsertAt(s, i, e) = (a \o <<e>>) \o b
    BY DEF InsertAt
  <1> HIDE DEF a, b
  <1>6. /\ a \o <<e>> \in Seq(S) /\ Len(a \o <<e>>) = i
        /\ \A k \in 1..i : (a \o <<e>>)[k] = IF k < i THEN s[k] ELSE e
    BY <1>1, <1>2, <1>4
  <1> DEFINE c == a \o <<e>>
  <1>7. /\ c \o b \in Seq(S) /\ Len(c \o b) = Len(s) + 1
        /\ \A k \in 1..(Len(s) + 1) : (c \o b)[k] = IF k <= i THEN c[k] ELSE b[k - i]
    BY <1>1, <1>3, <1>6
  <1>8. ASSUME NEW k \in 1..(Len(s) + 1)
        PROVE  (c \o b)[k] = r[k]
    <2>1. CASE k <= i
      BY <1>1, <1>6, <1>7, <2>1
    <2>2. CASE ~(k <= i)
      <3>1. k - i \in 1..(Len(s) - i + 1) /\ i + (k - i) - 1 = k - 1
        BY <1>1, <2>2
      <3>2. b[k - i] = s[k - 1]
        BY <1>3, <3>1
      <3> QED
        BY <1>1, <1>7, <2>2, <3>2
    <2> QED
      BY <2>1, <2>2
  <1>9. c \o b = [k \in 1..(Len(s) + 1) |-> (c \o b)[k]]
    BY <1>7, LenProperties
  <1> QED
    BY <1>5, <1>8, <1>9

LEMMA RemoveAtIs ==
    ASSUME NEW S, NEW s \in Seq(S), NEW i \in 1..Len(s)
    PROVE  RemoveAt(s, i) = [k \in 1..(Len(s) - 1) |-> IF k < i THEN s[k] ELSE s[k + 1]]
  <1> DEFINE a == SubSeq(s, 1, i - 1)
             b == SubSeq(s, i + 1, Len(s))
             r == [k \in 1..(Len(s) - 1) |-> IF k < i THEN s[k] ELSE s[k + 1]]
  <1>1. Len(s) \in Nat /\ i \in Nat /\ 1 <= i /\ i <= Len(s)
    BY LenProperties
  <1>2. a \in Seq(S) /\ Len(a) = i - 1 /\ \A k \in 1..(i - 1) : a[k] = s[k]
    BY <1>1
  <1>3. b \in Seq(S) /\ Len(b) = Len(s) - i /\ \A k \in 1..(Len(s) - i) : b[k] = s[i + k]
    BY <1>1
  <1>4. RemoveAt(s, i) = a \o b
    BY DEF RemoveAt
  <1> HIDE DEF a, b
  <1>0. /\ a \o b \in Seq(S) /\ Len(a \o b) = Len(a) + Len(b)
        /\ \A k \in 1..(Len(a) + Len(b)) : (a \o b)[k] = IF k <= Len(a) THEN a[k] ELSE b[k - Len(a)]
    BY <1>2, <1>3, ConcatProperties
  <1>5. /\ a \o b \in Seq(S) /\ Len(a \o b) = Len(s) - 1
        /\ \A k \in 1..(Len(s) - 1) : (a \o b)[k] = IF k < i THEN a[k] ELSE b[k - (i - 1)]
    BY <1>0, <1>1, <1>2, <1>3
  <1>6. ASSUME NEW k \in 1..(Len(s) - 1)
        PROVE  (a \o b)[k] = r[k]
    <2>1. CASE k < i
      BY <1>1, <1>2, <1>5, <2>1
    <2>2. CASE ~(k < i)
      <3>1. k - (i - 1) \in 1..(Len(s) - i) /\ i + (k - (i - 1)) = k + 1
        BY <1>1, <2>2
      <3>2. b[k - (i - 1)] = s[k + 1]
        BY <1>3, <3>1
      <3> QED
        BY <1>1, <1>5, <2>2, <3>2
    <2> QED
      BY <2>1, <2>2
  <1>7. a \o b = [k \in 1..(Len(s) - 1) |-> (a \o b)[k]]
    BY <1>5, LenProperties
  <1> QED
    BY <1>4, <1>6, <1>7

-----------------------------------------------------------------------------
\* The characters.

LEMMA Characters ==
    /\ NUL \notin Char
    /\ \A p \in DOMAIN Sends : \A c \in Sends[p] : c \in Char <=> c \notin Special
  BY SizesAssumption DEF Char, Keys

Memory == [Index -> Char \cup {NUL}]

\* A C string is what stands before the first NUL.
LEMMA CStringIs ==
    ASSUME NEW m \in Memory, NEW n \in 0..MaxCmdLen,
           m[n] = NUL, \A i \in 0..(n - 1) : m[i] # NUL
    PROVE  CString(m) = [k \in 1..n |-> m[k - 1]]
  <1> DEFINE First(e) == m[e] = NUL /\ \A j \in 0..(e - 1) : m[j] # NUL
             end == CHOOSE e \in Index : First(e)
  <1>1. n \in Index /\ n \in Nat /\ MaxCmdLen \in Nat
    BY SizesAssumption DEF Index
  <1>2. First(n)
    OBVIOUS
  <1>3. end \in Index /\ First(end)
    BY <1>1, <1>2
  <1>4. end = n
    <2> HIDE DEF end
    <2>1. end \in Nat
      BY <1>1, <1>3 DEF Index
    <2>2. ~(end < n)
      BY <1>1, <1>3, <2>1
    <2>3. ~(n < end)
      BY <1>1, <1>3, <2>1
    <2> QED
      BY <1>1, <2>1, <2>2, <2>3
  <1>5. CString(m) = [k \in 1..end |-> m[k - 1]]
    BY DEF CString
  <1> HIDE DEF end
  <1> QED
    BY <1>4, <1>5

\* The characters before position n of a line are a sequence of n characters.
LEMMA CharsAreSeq ==
    ASSUME NEW m \in Memory, NEW n \in 0..MaxCmdLen, \A i \in 0..(n - 1) : m[i] # NUL
    PROVE  /\ [k \in 1..n |-> m[k - 1]] \in Seq(Char)
           /\ Len([k \in 1..n |-> m[k - 1]]) = n
  <1>1. n \in Nat /\ MaxCmdLen \in Nat
    BY SizesAssumption
  <1>2. \A k \in 1..n : m[k - 1] \in Char
    <2> TAKE k \in 1..n
    <2>1. k - 1 \in 0..(n - 1) /\ k - 1 \in Index
      BY <1>1 DEF Index
    <2> QED
      BY <2>1 DEF Memory
  <1> QED
    BY <1>1, <1>2, LenProperties

-----------------------------------------------------------------------------
\* The ring.

Slots == 0..(HstDep - 1)

LEMMA RingDown ==
    ASSUME NEW i \in Slots, NEW k \in 0..HstDep
    PROVE  CMD_ADJUST_INDEX(i - k) = IF i >= k THEN i - k ELSE i - k + HstDep
  <1>1. HstDep \in Nat \ {0}
    BY SizesAssumption
  <1>2. \A a \in 0..(HstDep - 1) : a % HstDep = a /\ (a - HstDep) % HstDep = a
    BY <1>1
  <1> QED
    BY <1>1, <1>2 DEF CMD_ADJUST_INDEX, Slots

LEMMA RingUp ==
    ASSUME NEW i \in Slots
    PROVE  CMD_ADJUST_INDEX(i + 1) = IF i + 1 = HstDep THEN 0 ELSE i + 1
  <1>1. HstDep \in Nat \ {0}
    BY SizesAssumption
  <1>2. \A a \in 0..(HstDep - 1) : a % HstDep = a
    BY <1>1
  <1>3. HstDep % HstDep = 0
    BY <1>1
  <1> QED
    BY <1>1, <1>2, <1>3 DEF CMD_ADJUST_INDEX, Slots

\* The slots behind slot i are others.
LEMMA RingBehind ==
    ASSUME NEW i \in Slots, NEW k \in 1..(HstDep - 1)
    PROVE  CMD_ADJUST_INDEX(i - k) \in Slots /\ CMD_ADJUST_INDEX(i - k) # i
  <1>1. HstDep \in Nat \ {0}
    BY SizesAssumption
  <1>2. CMD_ADJUST_INDEX(i - k) = IF i >= k THEN i - k ELSE i - k + HstDep
    BY <1>1, RingDown
  <1> QED
    BY <1>1, <1>2 DEF Slots

\* From the next slot everything is one further behind.
LEMMA RingNext ==
    ASSUME NEW i \in Slots, NEW j, j = CMD_ADJUST_INDEX(i + 1)
    PROVE  /\ j \in Slots /\ CMD_ADJUST_INDEX(j - 1) = i
           /\ \A k \in 1..(HstDep - 1) : CMD_ADJUST_INDEX(j - k) = CMD_ADJUST_INDEX(i - (k - 1))
  <1>1. HstDep \in Nat \ {0}
    BY SizesAssumption
  <1>2. j = (IF i + 1 = HstDep THEN 0 ELSE i + 1) /\ j \in Slots
    BY <1>1, RingUp DEF Slots
  <1>3. ASSUME NEW k \in 1..HstDep
        PROVE  CMD_ADJUST_INDEX(j - k) = CMD_ADJUST_INDEX(i - (k - 1))
    <2>1. CMD_ADJUST_INDEX(j - k) = IF j >= k THEN j - k ELSE j - k + HstDep
      BY <1>1, <1>2, RingDown
    <2>2. k - 1 \in 0..HstDep
      BY <1>1
    <2>3. CMD_ADJUST_INDEX(i - (k - 1)) = IF i >= k - 1 THEN i - (k - 1) ELSE i - (k - 1) + HstDep
      BY <2>2, RingDown
    <2> QED
      BY <1>1, <1>2, <2>1, <2>3 DEF Slots
  <1>4. CMD_ADJUST_INDEX(i - 0) = i
    BY <1>1, RingDown DEF Slots
  <1>5. CMD_ADJUST_INDEX(j - 1) = CMD_ADJUST_INDEX(i - (1 - 1)) /\ 1 - 1 = 0
    BY <1>1, <1>3
  <1> QED
    BY <1>1, <1>2, <1>3, <1>4, <1>5

-----------------------------------------------------------------------------
(***************************************************************************)
(* The invariant.  The bytes of the line are none of them NUL, so that     *)
(* ending it and reading it back as a C string gives the line, whatever    *)
(* stands behind it; past the first key of a sequence the line fits its    *)
(* buffer, because GetMessage() goes on only from a buffer in which it     *)
(* does; and every line kept fits the buffer it may be shown in.           *)
(***************************************************************************)
LineInv ==
    /\ cur_max \in 0..MaxCmdLen /\ cur_pos \in 0..cur_max
    /\ buf \in Memory
    /\ \A i \in 0..(cur_max - 1) : buf[i] # NUL
    /\ at \in {"key", "esc", "csi", "O", "3", "dispatch"}
    /\ at # "key" => cur_max < MaxCmdLen

RingInv ==
    /\ hst_pos \in Slots /\ iCmdHstSP \in Slots
    /\ vpchCmdStack \in [Slots -> Seq(Char)]
    /\ \A i \in Slots : Len(vpchCmdStack[i]) < MaxCmdLen

\* What was entered is remembered as far as the ring can hold it.
EnteredInv == entered \in Seq(Seq(Char)) /\ Len(entered) < HstDep

EditInv == LineInv /\ RingInv

-----------------------------------------------------------------------------
\* What one character of input comes to, whichever raw_getchar() reads it.

Stays == UNCHANGED <<hst_pos, ringVars, dispVars>>

Inserts == \E c \in Char : cur_pos < MaxCmdLen - 1 /\ InsertOneKey(c) /\ at' = "key" /\ Stays

Backspaces == cur_pos > 0 /\ BackSpaceOneKey /\ at' = "key" /\ Stays

Deletes == cur_pos # cur_max /\ DeleteOneKey /\ at' = "key" /\ Stays

Moves == /\ UNCHANGED <<buf, cur_max>> /\ cur_pos' \in 0..cur_max
         /\ at' \in {"key", "esc", "csi", "O", "3"} /\ Stays

GivesUp == cur_pos' = 0 /\ cur_max' = 0 /\ UNCHANGED buf /\ at' = "key" /\ Stays

Recalls == CmdUpKey \/ CmdDownKey
Browses == Recalls /\ at' = "key" /\ UNCHANGED dispVars

Enters == cur_max # 0 /\ EndOfLine

Does == Inserts \/ Backspaces \/ Deletes \/ Moves \/ GivesUp \/ Browses \/ Enters

LEMMA PrintInputDoes ==
    ASSUME LineInv, NEW c \in Char, PrintInput(c), at' = "key", Stays
    PROVE  Inserts \/ Moves
  BY DEF PrintInput, LineInv, Inserts, Moves, lineVars

LEMMA EndOfLineDoes ==
    ASSUME LineInv, EndOfLine
    PROVE  Enters \/ Moves
  BY DEF EndOfLine, LineInv, Enters, Moves, Stays, lineVars

LEMMA SwitchDoes ==
    ASSUME LineInv, NEW c, c \in Char <=> c \notin Special, NEW spec, NEW esc, Switch(c, spec, esc)
    PROVE  Does
  <1>1. cur_pos \in 0..cur_max /\ cur_max \in Nat
    BY SizesAssumption DEF LineInv
  <1>2. CASE EditKey(c, spec, esc)
    <2>1. at' = "key" /\ Stays
      BY <1>2 DEF EditKey, Stays
    <2>2. CASE c = "BS" /\ cur_pos > 0 /\ BackSpaceOneKey
      BY <2>1, <2>2 DEF Does, Backspaces
    <2>3. CASE c = "^C" /\ cur_pos' = 0 /\ cur_max' = 0 /\ UNCHANGED buf
      BY <2>1, <2>3 DEF Does, GivesUp
    <2>4. CASE UNCHANGED lineVars \/ CmdRightKey \/ CmdLeftKey
      BY <1>1, <2>1, <2>4 DEF Does, Moves, lineVars, CmdRightKey, CmdLeftKey
    <2>5. CASE c \in Char /\ PrintInput(c)
      BY <2>1, <2>5, PrintInputDoes DEF Does
    <2>6. c \in {"A", "B", "C", "D", "O", "3"} => c \in Char
      BY DEF Special
    <2> QED
      BY <1>2, <2>2, <2>3, <2>4, <2>5, <2>6 DEF EditKey
  <1>3. CASE HistoryKey(c, esc)
    BY <1>3 DEF HistoryKey, Does, Browses, Recalls
  <1>4. CASE c = "CR" /\ EndOfLine
    BY <1>4, EndOfLineDoes DEF Does
  <1>5. CASE c \in {"O", "3"} /\ at' = c /\ UNCHANGED <<lineVars, hst_pos, ringVars, dispVars>>
    BY <1>1, <1>5 DEF Does, Moves, Stays, lineVars
  <1> QED
    BY <1>2, <1>3, <1>4, <1>5 DEF Switch

LEMMA InputDoes ==
    ASSUME LineInv, NEW p \in DOMAIN Sends, NEW c \in Sends[p],
           ReadKey(c) \/ ReadEsc(c) \/ ReadCsi(c) \/ ReadTail(c)
    PROVE  cur_max < MaxCmdLen /\ Does
  <1>1. cur_pos \in 0..cur_max /\ cur_max \in Nat
    BY SizesAssumption DEF LineInv
  <1>2. c \in Char <=> c \notin Special
    BY Characters
  <1>3. cur_max < MaxCmdLen
    BY DEF LineInv, ReadKey, Defined, ReadEsc, ReadCsi, ReadTail
  <1>4. CASE ReadKey(c)
    BY <1>1, <1>2, <1>3, <1>4, SwitchDoes DEF ReadKey, Does, Moves, Stays, lineVars
  <1>5. CASE ReadEsc(c)
    BY <1>1, <1>2, <1>3, <1>5, SwitchDoes DEF ReadEsc, Does, Moves, Stays, lineVars
  <1>6. CASE ReadCsi(c)
    BY <1>2, <1>3, <1>6, SwitchDoes DEF ReadCsi
  <1>7. CASE ReadTail(c)
    <2>1. CASE EndOfLine
      BY <1>3, <2>1, EndOfLineDoes DEF Does
    <2>2. CASE at' = "key" /\ Stays /\ DeleteOneKey
      BY <1>1, <1>3, <2>2 DEF Does, Deletes, Moves, DeleteOneKey, lineVars
    <2>3. CASE at' = "key" /\ Stays /\ UNCHANGED <<buf, cur_max>> /\ cur_pos' \in 0..cur_max
      BY <1>3, <2>3 DEF Does, Moves
    <2> QED
      BY <1>1, <1>7, <2>1, <2>2, <2>3 DEF ReadTail, Stays, lineVars
  <1> QED
    BY <1>3, <1>4, <1>5, <1>6, <1>7

-----------------------------------------------------------------------------
\* What the operations make of the line.

LEMMA Sizes == MaxCmdLen \in Nat /\ MaxCmdLen > 1 /\ HstDep \in Nat /\ HstDep > 1
  BY SizesAssumption

LEMMA LineIs ==
    ASSUME LineInv
    PROVE  Line \in Seq(Char) /\ Len(Line) = cur_max /\ \A k \in 1..cur_max : Line[k] = buf[k - 1]
  BY CharsAreSeq DEF LineInv, Line

LEMMA LineNext ==
    /\ Line' = [k \in 1..cur_max' |-> buf'[k - 1]]
  BY DEF Line

LEMMA InsertsMakes ==
    ASSUME LineInv, cur_max < MaxCmdLen, Inserts
    PROVE  /\ LineInv' /\ cur_pos' = cur_pos + 1 /\ Stays
           /\ \E c \in Char : Line' = InsertAt(Line, cur_pos + 1, c)
  <1>1. PICK c \in Char : InsertOneKey(c) /\ at' = "key" /\ Stays
    BY DEF Inserts
  <1>2. /\ cur_max \in Nat /\ cur_pos \in Nat /\ cur_pos <= cur_max /\ MaxCmdLen \in Nat
        /\ buf \in Memory /\ NUL \notin Char
    BY Sizes, Characters DEF LineInv
  <1>3. /\ cur_pos' = cur_pos + 1 /\ cur_max' = cur_max + 1
        /\ buf' = [i \in Index |-> IF i = cur_pos THEN c
                                   ELSE IF i \in (cur_pos + 1)..(cur_max + 1) THEN buf[i - 1]
                                   ELSE buf[i]]
    BY <1>1 DEF InsertOneKey
  <1>4. buf' \in Memory
    <2>1. \A i \in Index : i \in (cur_pos + 1)..(cur_max + 1) => i - 1 \in Index
      BY <1>2 DEF Index
    <2> QED
      BY <1>2, <1>3, <2>1 DEF Memory
  <1>5. \A i \in 0..cur_max : buf'[i] = IF i < cur_pos THEN buf[i]
                                        ELSE IF i = cur_pos THEN c ELSE buf[i - 1]
    BY <1>2, <1>3 DEF Index
  <1>6. \A i \in 0..cur_max : buf'[i] # NUL
    <2> TAKE i \in 0..cur_max
    <2>1. CASE i < cur_pos
      BY <1>2, <1>5, <2>1 DEF LineInv
    <2>2. CASE i = cur_pos
      BY <1>2, <1>5, <2>2
    <2>3. CASE i > cur_pos
      <3>1. i - 1 \in 0..(cur_max - 1) /\ buf'[i] = buf[i - 1]
        BY <1>2, <1>5, <2>3
      <3> QED
        BY <3>1 DEF LineInv
    <2> QED
      BY <1>2, <2>1, <2>2, <2>3
  <1>7. LineInv'
    <2>1. cur_max' \in 0..MaxCmdLen /\ cur_pos' \in 0..cur_max' /\ cur_max' - 1 = cur_max
      BY <1>2, <1>3
    <2> QED
      BY <1>1, <1>4, <1>6, <2>1 DEF LineInv
  <1>8. Line' = InsertAt(Line, cur_pos + 1, c)
    <2>0. PICK i \in 1..(cur_max + 1) : i = cur_pos + 1
      BY <1>2
    <2>1. InsertAt(Line, i, c)
            = [k \in 1..(cur_max + 1) |-> IF k < i THEN Line[k] ELSE IF k = i THEN c ELSE Line[k - 1]]
      <3>1. Line \in Seq(Char) /\ Len(Line) = cur_max
        BY LineIs
      <3>2. i \in 1..(Len(Line) + 1)
        BY <3>1
      <3>3. InsertAt(Line, i, c)
              = [k \in 1..(Len(Line) + 1) |->
                    IF k < i THEN Line[k] ELSE IF k = i THEN c ELSE Line[k - 1]]
        BY ONLY <3>1, <3>2, InsertAtIs
      <3> QED
        BY <3>1, <3>3
    <2>2. ASSUME NEW k \in 1..(cur_max + 1)
          PROVE  buf'[k - 1] = IF k < i THEN Line[k] ELSE IF k = i THEN c ELSE Line[k - 1]
      <3>1. k \in Nat /\ k - 1 \in 0..cur_max
        BY <1>2
      <3>2. CASE k < cur_pos + 1
        BY <1>2, <1>5, <2>0, <3>1, <3>2, LineIs
      <3>3. CASE k = cur_pos + 1
        BY <1>2, <1>5, <2>0, <3>1, <3>3
      <3>4. CASE k > cur_pos + 1
        <4>1. k - 1 \in 1..cur_max /\ buf'[k - 1] = buf[(k - 1) - 1]
          BY <1>2, <1>5, <3>1, <3>4
        <4> QED
          BY <1>2, <2>0, <3>4, <4>1, LineIs
      <3> QED
        BY <1>2, <2>0, <3>1, <3>2, <3>3, <3>4
    <2> QED
      BY <1>3, <2>0, <2>1, <2>2, LineNext
  <1> QED
    BY <1>1, <1>3, <1>7, <1>8

\* Removing the byte at p, when everything behind it moves one place down.
LEMMA RemovesMakes ==
    ASSUME LineInv, NEW p \in 0..(cur_max - 1), cur_max > 0,
           buf' = [i \in Index |-> IF i = cur_max THEN NUL
                                   ELSE IF i \in p..(cur_max - 2) THEN buf[i + 1]
                                   ELSE buf[i]],
           cur_max' = cur_max - 1, cur_pos' \in 0..cur_max', at' = "key"
    PROVE  LineInv' /\ Line' = RemoveAt(Line, p + 1)
  <1>1. /\ cur_max \in Nat /\ p \in Nat /\ p < cur_max /\ cur_max <= MaxCmdLen /\ MaxCmdLen \in Nat
        /\ buf \in Memory
    BY Sizes DEF LineInv
  <1>2. buf' \in Memory
    <2>1. \A i \in Index : i \in p..(cur_max - 2) => i + 1 \in Index
      BY <1>1 DEF Index
    <2> QED
      BY <1>1, <2>1 DEF Memory
  <1>3. \A i \in 0..(cur_max - 2) : buf'[i] = IF i < p THEN buf[i] ELSE buf[i + 1]
    BY <1>1 DEF Index
  <1>4. \A i \in 0..(cur_max - 2) : buf'[i] # NUL
    <2> TAKE i \in 0..(cur_max - 2)
    <2>1. i \in 0..(cur_max - 1) /\ i + 1 \in 0..(cur_max - 1)
      BY <1>1
    <2> QED
      BY <1>3, <2>1 DEF LineInv
  <1>5. LineInv'
    <2>1. cur_max' \in 0..MaxCmdLen /\ cur_max' - 1 = cur_max - 2
      BY <1>1
    <2> QED
      BY <1>2, <1>4, <2>1 DEF LineInv
  <1>6. Line' = RemoveAt(Line, p + 1)
    <2>0. PICK i \in 1..cur_max : i = p + 1
      BY <1>1
    <2>1. RemoveAt(Line, i) = [k \in 1..(cur_max - 1) |-> IF k < i THEN Line[k] ELSE Line[k + 1]]
      <3>1. Line \in Seq(Char) /\ Len(Line) = cur_max
        BY LineIs
      <3>2. i \in 1..Len(Line)
        BY <3>1
      <3>3. RemoveAt(Line, i)
              = [k \in 1..(Len(Line) - 1) |-> IF k < i THEN Line[k] ELSE Line[k + 1]]
        BY ONLY <3>1, <3>2, RemoveAtIs
      <3> QED
        BY <3>1, <3>3
    <2>2. ASSUME NEW k \in 1..(cur_max - 1)
          PROVE  buf'[k - 1] = IF k < i THEN Line[k] ELSE Line[k + 1]
      <3>1. k - 1 \in 0..(cur_max - 2) /\ k \in 1..cur_max /\ k + 1 \in 1..cur_max
            /\ (k - 1) + 1 = (k + 1) - 1 /\ (k - 1 < p <=> k < i)
        BY <1>1, <2>0
      <3>2. Line[k] = buf[k - 1] /\ Line[k + 1] = buf[(k + 1) - 1]
        BY <3>1, LineIs
      <3> QED
        BY <1>3, <3>1, <3>2
    <2> QED
      BY <2>0, <2>1, <2>2, LineNext
  <1> QED
    BY <1>5, <1>6

LEMMA BackspacesMakes ==
    ASSUME LineInv, Backspaces
    PROVE  /\ LineInv' /\ cur_pos > 0 /\ Line' = RemoveAt(Line, cur_pos) /\ cur_pos' = cur_pos - 1
           /\ Stays
  <1>1. cur_max \in Nat /\ cur_pos \in Nat /\ cur_pos <= cur_max /\ cur_pos > 0
    BY Sizes DEF LineInv, Backspaces
  <1>2. cur_pos - 1 \in 0..(cur_max - 1) /\ cur_max > 0 /\ cur_pos - 1 \in 0..(cur_max - 1)
        /\ (cur_pos - 1) + 1 = cur_pos
    BY <1>1
  <1>3. LineInv' /\ Line' = RemoveAt(Line, (cur_pos - 1) + 1)
    BY <1>2, RemovesMakes DEF Backspaces, BackSpaceOneKey
  <1> QED
    BY <1>1, <1>2, <1>3 DEF Backspaces, BackSpaceOneKey

LEMMA DeletesMakes ==
    ASSUME LineInv, Deletes
    PROVE  /\ LineInv' /\ cur_pos < Len(Line) /\ Line' = RemoveAt(Line, cur_pos + 1)
           /\ UNCHANGED cur_pos /\ Stays
  <1>1. cur_max \in Nat /\ cur_pos \in Nat /\ cur_pos <= cur_max /\ cur_pos # cur_max
    BY Sizes DEF LineInv, Deletes
  <1>2. cur_pos \in 0..(cur_max - 1) /\ cur_max > 0 /\ cur_pos < Len(Line)
    BY <1>1, LineIs
  <1>3. LineInv' /\ Line' = RemoveAt(Line, cur_pos + 1)
    BY <1>2, RemovesMakes DEF Deletes, DeleteOneKey
  <1> QED
    BY <1>1, <1>2, <1>3 DEF Deletes, DeleteOneKey

LEMMA MovesMakes ==
    ASSUME LineInv, cur_max < MaxCmdLen, Moves
    PROVE  LineInv' /\ Line' = Line /\ cur_pos' \in 0..Len(Line) /\ Stays
  BY LineIs DEF LineInv, Moves, Line

LEMMA GivesUpMakes ==
    ASSUME LineInv, GivesUp
    PROVE  LineInv' /\ Line' = <<>> /\ cur_pos' = 0 /\ Stays
  <1>1. LineInv'
    BY Sizes DEF LineInv, GivesUp
  <1>2. Line' = [k \in 1..0 |-> buf'[k - 1]]
    BY LineNext DEF GivesUp
  <1> QED
    BY <1>1, <1>2 DEF GivesUp

-----------------------------------------------------------------------------
\* What the history makes of it.

\* Ending the line at position n and reading it back gives its characters before n.
LEMMA EndedIs ==
    ASSUME LineInv, cur_max < MaxCmdLen, NEW n \in 0..cur_max
    PROVE  /\ [buf EXCEPT ![n] = NUL] \in Memory
           /\ CString([buf EXCEPT ![n] = NUL]) = SubSeq(Line, 1, n)
           /\ SubSeq(Line, 1, n) \in Seq(Char) /\ Len(SubSeq(Line, 1, n)) = n
  <1> DEFINE m == [buf EXCEPT ![n] = NUL]
  <1>1. cur_max \in Nat /\ n \in Nat /\ n <= cur_max /\ n \in 0..MaxCmdLen /\ buf \in Memory
    BY Sizes DEF LineInv
  <1>2. n \in Index /\ \A i \in 0..(n - 1) : i \in Index /\ i \in 0..(cur_max - 1)
    BY <1>1, Sizes DEF Index
  <1>3. m \in Memory /\ m[n] = NUL /\ \A i \in 0..(n - 1) : m[i] = buf[i] /\ m[i] # NUL
    BY <1>1, <1>2 DEF Memory, LineInv
  <1> HIDE DEF m
  <1>4. CString(m) = [k \in 1..n |-> m[k - 1]]
    BY <1>1, <1>3, CStringIs
  <1>5. Line \in Seq(Char) /\ Len(Line) = cur_max /\ \A k \in 1..cur_max : Line[k] = buf[k - 1]
    BY LineIs
  <1>6. /\ SubSeq(Line, 1, n) \in Seq(Char) /\ Len(SubSeq(Line, 1, n)) = n
        /\ \A k \in 1..n : SubSeq(Line, 1, n)[k] = Line[k]
    BY <1>1, <1>5
  <1>7. \A k \in 1..n : m[k - 1] = SubSeq(Line, 1, n)[k]
    <2> TAKE k \in 1..n
    <2>1. k - 1 \in 0..(n - 1) /\ k \in 1..cur_max
      BY <1>1
    <2> QED
      BY <1>3, <1>5, <1>6, <2>1
  <1>8. SubSeq(Line, 1, n) = [k \in 1..n |-> SubSeq(Line, 1, n)[k]]
    BY <1>6, LenProperties
  <1>9. CString(m) = SubSeq(Line, 1, n)
    BY <1>4, <1>7, <1>8
  <1> QED
    BY <1>3, <1>6, <1>9 DEF m

\* Copying a kept line over the buffer shows it.
LEMMA ShowMakes ==
    ASSUME cur_pos \in Nat, NEW m \in Memory, NEW i \in Slots, Show(i, m),
           vpchCmdStack'[i] \in Seq(Char), Len(vpchCmdStack'[i]) < MaxCmdLen, at' = "key"
    PROVE  /\ LineInv' /\ Line' = vpchCmdStack'[i] /\ cur_pos' = Len(Line') /\ hst_pos' = i
  <1> DEFINE w == vpchCmdStack'[i]
             erased == [j \in Index |-> IF j < cur_pos THEN NUL ELSE m[j]]
  <1>1. w \in Seq(Char) /\ Len(w) \in Nat /\ Len(w) < MaxCmdLen /\ MaxCmdLen \in Nat
        /\ \A k \in 1..Len(w) : w[k] \in Char
    BY Sizes, LenProperties
  <1>2. erased \in Memory
    BY DEF Memory
  <1>3. buf' = StrCpy(erased, w) /\ cur_pos' = Len(w) /\ cur_max' = Len(w) /\ hst_pos' = i
    BY DEF Show
  <1> HIDE DEF w, erased
  <1>4. buf' = [j \in Index |-> IF j < Len(w) THEN w[j + 1]
                                ELSE IF j = Len(w) THEN NUL ELSE erased[j]]
    BY <1>3 DEF StrCpy
  <1>5. \A j \in 0..(Len(w) - 1) : j \in Index /\ buf'[j] = w[j + 1] /\ w[j + 1] \in Char
    <2> TAKE j \in 0..(Len(w) - 1)
    <2>1. j \in Index /\ j < Len(w) /\ j + 1 \in 1..Len(w)
      BY <1>1 DEF Index
    <2> QED
      BY <1>1, <1>4, <2>1
  <1>6. buf' \in Memory
    <2>1. \A j \in Index : j < Len(w) => j \in 0..(Len(w) - 1)
      BY <1>1 DEF Index
    <2>2. \A j \in Index : buf'[j] \in Char \cup {NUL}
      BY <1>2, <1>4, <1>5, <2>1 DEF Memory
    <2> QED
      BY <1>4, <2>2 DEF Memory
  <1>7. LineInv'
    <2>1. cur_max' \in 0..MaxCmdLen /\ cur_pos' \in 0..cur_max' /\ cur_max' - 1 = Len(w) - 1
      BY <1>1, <1>3
    <2> QED
      BY <1>3, <1>5, <1>6, <2>1, Characters DEF LineInv
  <1>8. Line' = w
    <2>1. \A k \in 1..Len(w) : buf'[k - 1] = w[k]
      <3> TAKE k \in 1..Len(w)
      <3>1. k - 1 \in 0..(Len(w) - 1) /\ (k - 1) + 1 = k
        BY <1>1
      <3> QED
        BY <1>5, <3>1
    <2>2. w = [k \in 1..Len(w) |-> w[k]]
      BY <1>1, LenProperties
    <2> QED
      BY <1>3, <2>1, <2>2, LineNext
  <1> QED
    BY <1>3, <1>7, <1>8 DEF w

Shown == Line' = vpchCmdStack'[hst_pos'] /\ cur_pos' = Len(Line') /\ hst_pos' \in Slots

\* The line is as it was, or a kept one is shown; the line that was being typed is kept up to
\* the cursor, in the slot that is free.
LEMMA RecallsMakes ==
    ASSUME EditInv, cur_max < MaxCmdLen, Recalls, at' = "key"
    PROVE  /\ EditInv' /\ UNCHANGED iCmdHstSP
           /\ \/ UNCHANGED <<lineVars, hst_pos, vpchCmdStack>>
              \/ Shown /\ UNCHANGED vpchCmdStack /\ hst_pos # iCmdHstSP
              \/ /\ Shown /\ hst_pos = iCmdHstSP
                 /\ vpchCmdStack' = [vpchCmdStack EXCEPT ![iCmdHstSP] = SubSeq(Line, 1, cur_pos)]
  <1>1. /\ LineInv /\ RingInv /\ cur_pos \in 0..cur_max /\ cur_pos \in Nat /\ buf \in Memory
        /\ cur_max \in Nat /\ hst_pos \in Slots /\ iCmdHstSP \in Slots
        /\ HstDep \in Nat /\ HstDep > 1
    BY Sizes DEF EditInv, LineInv, RingInv
  <1> DEFINE older == CMD_ADJUST_INDEX(hst_pos - 1)
             newer == CMD_ADJUST_INDEX(hst_pos + 1)
  <1>2. older \in Slots /\ newer \in Slots /\ older # hst_pos
    <2>1. CMD_ADJUST_INDEX(hst_pos - 1) \in Slots /\ CMD_ADJUST_INDEX(hst_pos - 1) # hst_pos
      BY <1>1, RingBehind
    <2>2. CMD_ADJUST_INDEX(hst_pos + 1) \in Slots
      BY <1>1, RingNext
    <2> QED
      BY <2>1, <2>2
  <1> HIDE DEF older, newer
  <1>3. ASSUME UNCHANGED <<lineVars, hst_pos, ringVars>>
        PROVE  EditInv'
    BY <1>1, <1>3 DEF EditInv, LineInv, RingInv, lineVars, ringVars
  <1>4. ASSUME NEW i \in Slots, Show(i, buf), UNCHANGED ringVars
        PROVE  EditInv' /\ Shown
    <2>1. vpchCmdStack'[i] \in Seq(Char) /\ Len(vpchCmdStack'[i]) < MaxCmdLen
      BY <1>1, <1>4 DEF RingInv, ringVars
    <2>2. LineInv' /\ Line' = vpchCmdStack'[i] /\ cur_pos' = Len(Line') /\ hst_pos' = i
      BY <1>1, <1>4, <2>1, ShowMakes
    <2> QED
      BY <1>1, <1>4, <2>2 DEF EditInv, RingInv, ringVars, Shown
  <1>5. CASE CmdDownKey
    <2>1. UNCHANGED ringVars
          /\ IF hst_pos = iCmdHstSP THEN UNCHANGED <<lineVars, hst_pos>> ELSE Show(newer, buf)
      BY <1>5 DEF CmdDownKey, newer
    <2> QED
      BY <1>2, <1>3, <1>4, <2>1 DEF ringVars
  <1>6. CASE CmdUpKey /\ hst_pos # iCmdHstSP
    <2>1. UNCHANGED ringVars
          /\ IF older # iCmdHstSP THEN Show(older, buf) ELSE UNCHANGED <<lineVars, hst_pos>>
      BY <1>6 DEF CmdUpKey, older, ringVars, lineVars
    <2> QED
      BY <1>2, <1>3, <1>4, <1>6, <2>1 DEF ringVars
  <1>7. CASE CmdUpKey /\ hst_pos = iCmdHstSP
    <2> DEFINE cut == [buf EXCEPT ![cur_pos] = NUL]
               typed == SubSeq(Line, 1, cur_pos)
    <2>1. cut \in Memory /\ CString(cut) = typed /\ typed \in Seq(Char) /\ Len(typed) = cur_pos
      BY <1>1, EndedIs
    <2>2. vpchCmdStack' = [vpchCmdStack EXCEPT ![iCmdHstSP] = CString(cut)] /\ UNCHANGED iCmdHstSP
          /\ Show(older, cut)
      BY <1>2, <1>7 DEF CmdUpKey, older
    <2> HIDE DEF cut, typed
    <2>3. vpchCmdStack' = [vpchCmdStack EXCEPT ![iCmdHstSP] = typed]
      BY <2>1, <2>2
    <2>4. cur_pos < MaxCmdLen
      BY <1>1, Sizes
    <2>5. /\ vpchCmdStack' \in [Slots -> Seq(Char)]
          /\ \A i \in Slots : Len(vpchCmdStack'[i]) < MaxCmdLen
      BY <1>1, <2>1, <2>3, <2>4 DEF RingInv
    <2>6. LineInv' /\ Line' = vpchCmdStack'[older] /\ cur_pos' = Len(Line') /\ hst_pos' = older
      BY <1>1, <1>2, <2>1, <2>2, <2>5, ShowMakes
    <2> QED
      BY <1>1, <1>2, <1>7, <2>2, <2>3, <2>5, <2>6 DEF EditInv, RingInv, Shown, typed
  <1> QED
    BY <1>5, <1>6, <1>7 DEF Recalls

LEMMA EntersMakes ==
    ASSUME EditInv, cur_max < MaxCmdLen, Enters
    PROVE  /\ EditInv' /\ Line' = Line /\ UNCHANGED <<cur_pos, hst_pos>> /\ at' = "dispatch"
           /\ vpchCmdStack' = [vpchCmdStack EXCEPT ![iCmdHstSP] = Line]
           /\ iCmdHstSP' = CMD_ADJUST_INDEX(iCmdHstSP + 1)
           /\ entered' = SubSeq(<<Line>> \o entered, 1,
                                IF Len(entered) + 1 < HstDep THEN Len(entered) + 1 ELSE HstDep - 1)
  <1> DEFINE ended == [buf EXCEPT ![cur_max] = NUL]
  <1>1. /\ LineInv /\ RingInv /\ cur_pos \in 0..cur_max /\ buf \in Memory /\ cur_max \in Nat
        /\ iCmdHstSP \in Slots /\ HstDep \in Nat /\ HstDep > 1 /\ cur_max \in 0..cur_max
    BY Sizes DEF EditInv, LineInv, RingInv
  <1>2. Line \in Seq(Char) /\ Len(Line) = cur_max /\ SubSeq(Line, 1, cur_max) = Line
    BY <1>1, LineIs
  <1>3. ended \in Memory /\ CString(ended) = Line
    BY <1>1, <1>2, EndedIs
  <1>4. /\ buf' = ended /\ UNCHANGED <<cur_pos, cur_max, hst_pos>> /\ at' = "dispatch"
        /\ vpchCmdStack' = [vpchCmdStack EXCEPT ![iCmdHstSP] = CString(ended)]
        /\ iCmdHstSP' = CMD_ADJUST_INDEX(iCmdHstSP + 1)
        /\ entered' = SubSeq(<<CString(ended)>> \o entered, 1,
                             IF Len(entered) + 1 < HstDep THEN Len(entered) + 1 ELSE HstDep - 1)
    BY DEF Enters, EndOfLine, CmdUpdateHistory
  <1>5. \A i \in 0..(cur_max - 1) : buf'[i] = buf[i]
    <2> TAKE i \in 0..(cur_max - 1)
    <2>1. i \in Index /\ i # cur_max
      BY <1>1, Sizes DEF Index
    <2> QED
      BY <1>1, <1>4, <2>1 DEF Memory
  <1> HIDE DEF ended
  <1>6. LineInv'
    BY <1>1, <1>3, <1>4, <1>5 DEF LineInv
  <1>7. Line' = Line
    <2>1. \A k \in 1..cur_max : k - 1 \in 0..(cur_max - 1)
      BY <1>1
    <2> QED
      BY <1>4, <1>5, <2>1, LineNext DEF Line
  <1>8. iCmdHstSP' \in Slots
    BY <1>1, <1>4, RingNext
  <1>9. RingInv'
    BY <1>1, <1>2, <1>3, <1>4, <1>8, Sizes DEF RingInv
  <1> QED
    BY <1>3, <1>4, <1>6, <1>7, <1>9 DEF EditInv

LEMMA DispatchMakes ==
    ASSUME EditInv, Dispatch
    PROVE  /\ EditInv' /\ Line' = <<>> /\ cur_pos' = 0 /\ hst_pos' = iCmdHstSP
           /\ UNCHANGED <<ringVars, entered>>
  <1>1. /\ buf' = [i \in Index |-> NUL] /\ cur_pos' = 0 /\ cur_max' = 0 /\ hst_pos' = iCmdHstSP
        /\ at' = "key" /\ UNCHANGED <<ringVars, entered>>
    BY DEF Dispatch
  <1>2. LineInv'
    BY <1>1, Sizes DEF LineInv, Memory
  <1>3. RingInv'
    BY <1>1 DEF EditInv, RingInv, ringVars
  <1>4. Line' = [k \in 1..0 |-> buf'[k - 1]]
    BY <1>1, LineNext
  <1> QED
    BY <1>1, <1>2, <1>3, <1>4 DEF EditInv

-----------------------------------------------------------------------------
\* The steps.

LEMMA NextDoes ==
    ASSUME LineInv, [Next]_vars
    PROVE  (cur_max < MaxCmdLen /\ Does) \/ Dispatch \/ UNCHANGED vars
  <1>1. {"key", "esc", "csi", "tail"} \subseteq DOMAIN Sends
    BY SizesAssumption
  <1> QED
    BY <1>1, InputDoes DEF Next

LEMMA EditInvStep == EditInv /\ [Next]_vars => EditInv'
  <1> SUFFICES ASSUME EditInv, [Next]_vars
               PROVE  EditInv'
    OBVIOUS
  <1>1. LineInv /\ RingInv
    BY DEF EditInv
  <1>2. CASE cur_max < MaxCmdLen /\ Does
    <2>1. CASE Inserts \/ Backspaces \/ Deletes \/ Moves \/ GivesUp
      <3>1. LineInv' /\ Stays
        BY <1>1, <1>2, <2>1, InsertsMakes, BackspacesMakes, DeletesMakes, MovesMakes, GivesUpMakes
      <3> QED
        BY <1>1, <3>1 DEF EditInv, RingInv, Stays, ringVars
    <2>2. CASE Browses
      BY <1>2, <2>2, RecallsMakes DEF Browses
    <2>3. CASE Enters
      BY <1>2, <2>3, EntersMakes
    <2> QED
      BY <1>2, <2>1, <2>2, <2>3 DEF Does
  <1>3. CASE Dispatch
    BY <1>3, DispatchMakes
  <1>4. CASE UNCHANGED vars
    BY <1>1, <1>4 DEF EditInv, LineInv, RingInv, vars, lineVars, ringVars
  <1> QED
    BY <1>1, <1>2, <1>3, <1>4, NextDoes

LEMMA EditInvInitially == Init => EditInv
  <1> SUFFICES ASSUME Init
               PROVE  EditInv
    OBVIOUS
  <1>1. LineInv
    BY Sizes DEF Init, LineInv, Memory
  <1>2. \A i \in Slots : vpchCmdStack[i] = <<>> /\ Len(vpchCmdStack[i]) = 0
    BY DEF Init, Slots
  <1>3. RingInv
    BY <1>2, Sizes DEF Init, RingInv, Slots
  <1> QED
    BY <1>1, <1>3 DEF EditInv

\* The line is always characters of the terminal that fit the buffer up to its end, and so is
\* every line of the history (GetMessage, CmdUpdateHistory).
THEOREM EditInvCorrect == Spec => []EditInv
  BY EditInvInitially, EditInvStep, PTL DEF Spec

-----------------------------------------------------------------------------
\* The ring and the lines entered.

RingOf(k) == CMD_ADJUST_INDEX(iCmdHstSP - k)

LEMMA RingStep ==
    EditInv /\ EnteredInv /\ RingHoldsEntered /\ [Next]_vars => EnteredInv' /\ RingHoldsEntered'
  <1> SUFFICES ASSUME EditInv, EnteredInv, RingHoldsEntered, [Next]_vars
               PROVE  EnteredInv' /\ RingHoldsEntered'
    OBVIOUS
  <1>0. /\ LineInv /\ RingInv /\ HstDep \in Nat /\ HstDep > 1
        /\ entered \in Seq(Seq(Char)) /\ Len(entered) \in Nat /\ Len(entered) < HstDep
        /\ iCmdHstSP \in Slots /\ vpchCmdStack \in [Slots -> Seq(Char)]
    BY Sizes, LenProperties DEF EditInv, RingInv, EnteredInv
  <1>1. \A k \in 1..Len(entered) : /\ k \in 1..(HstDep - 1)
                                   /\ RingOf(k) \in Slots /\ RingOf(k) # iCmdHstSP
                                   /\ vpchCmdStack[RingOf(k)] = entered[k]
    <2> TAKE k \in 1..Len(entered)
    <2>1. k \in 1..(HstDep - 1)
      BY <1>0
    <2> QED
      BY <1>0, <2>1, RingBehind DEF RingHoldsEntered, RingOf
  <1>2. ASSUME UNCHANGED <<iCmdHstSP, entered>>,
               \A i \in Slots : i # iCmdHstSP => vpchCmdStack'[i] = vpchCmdStack[i]
        PROVE  EnteredInv' /\ RingHoldsEntered'
    BY <1>1, <1>2 DEF EnteredInv, RingHoldsEntered, RingOf
  <1>3. CASE cur_max < MaxCmdLen /\ Does
    <2>1. CASE Inserts \/ Backspaces \/ Deletes \/ Moves \/ GivesUp
      BY <1>2, <2>1
      DEF Inserts, Backspaces, Deletes, Moves, GivesUp, Stays, ringVars, dispVars
    <2>2. CASE Browses
      <3>1. /\ UNCHANGED <<iCmdHstSP, entered>>
            /\ \/ UNCHANGED vpchCmdStack
               \/ vpchCmdStack' = [vpchCmdStack EXCEPT ![iCmdHstSP] = SubSeq(Line, 1, cur_pos)]
        BY <1>3, <2>2, RecallsMakes DEF Browses, dispVars
      <3> QED
        BY <1>0, <1>2, <3>1
    <2>3. CASE Enters
      <3> DEFINE all == <<Line>> \o entered
                 n == IF Len(entered) + 1 < HstDep THEN Len(entered) + 1 ELSE HstDep - 1
      <3>1. /\ vpchCmdStack' = [vpchCmdStack EXCEPT ![iCmdHstSP] = Line]
            /\ iCmdHstSP' = CMD_ADJUST_INDEX(iCmdHstSP + 1)
            /\ entered' = SubSeq(all, 1, n)
        BY <1>3, <2>3, EntersMakes
      <3>2. Line \in Seq(Char) /\ <<Line>> \in Seq(Seq(Char)) /\ Len(<<Line>>) = 1
            /\ <<Line>>[1] = Line
        BY <1>0, LineIs
      <3>3. /\ all \in Seq(Seq(Char)) /\ Len(all) = Len(entered) + 1
            /\ \A k \in 1..(Len(entered) + 1) : all[k] = IF k <= 1 THEN Line ELSE entered[k - 1]
        BY <1>0, <3>2, ConcatProperties
      <3>4. n \in Nat /\ n >= 1 /\ n <= Len(entered) + 1 /\ n <= HstDep - 1
        BY <1>0
      <3> HIDE DEF all, n
      <3>5. /\ entered' \in Seq(Seq(Char)) /\ Len(entered') = n
            /\ \A k \in 1..n : entered'[k] = all[k]
        BY <1>0, <3>1, <3>3, <3>4
      <3>6. ASSUME NEW k \in 1..n
            PROVE  vpchCmdStack'[CMD_ADJUST_INDEX(iCmdHstSP' - k)] = entered'[k]
        <4>0. k \in Nat /\ k \in 1..(HstDep - 1) /\ k \in 1..(Len(entered) + 1) /\ k >= 1
          BY <1>0, <3>4
        <4>1. /\ CMD_ADJUST_INDEX(iCmdHstSP' - 1) = iCmdHstSP
              /\ CMD_ADJUST_INDEX(iCmdHstSP' - k) = RingOf(k - 1)
          BY <1>0, <3>1, <4>0, RingNext DEF RingOf
        <4>2. CASE k = 1
          <5>1. entered'[k] = Line
            BY <3>3, <3>5, <4>0, <4>2
          <5> QED
            BY <1>0, <3>1, <4>1, <4>2, <5>1
        <4>3. CASE k # 1
          <5>1. k - 1 \in 1..Len(entered)
            BY <1>0, <4>0, <4>3
          <5>2. entered'[k] = entered[k - 1]
            BY <3>3, <3>5, <4>0, <4>3
          <5> QED
            BY <1>0, <1>1, <3>1, <4>1, <5>1, <5>2
        <4> QED
          BY <4>2, <4>3
      <3> QED
        BY <1>0, <3>4, <3>5, <3>6 DEF EnteredInv, RingHoldsEntered
    <2> QED
      BY <1>3, <2>1, <2>2, <2>3 DEF Does
  <1>4. CASE Dispatch
    BY <1>2, <1>4, DispatchMakes DEF ringVars
  <1>5. CASE UNCHANGED vars
    BY <1>2, <1>5 DEF vars, ringVars, dispVars
  <1> QED
    BY <1>0, <1>3, <1>4, <1>5, NextDoes

\* The ring holds the HstDep - 1 most recent lines entered, newest first, behind its free slot,
\* whatever is typed, browsed or given up between them.
THEOREM RingHoldsEnteredCorrect == Spec => []RingHoldsEntered
  <1>1. Init => EnteredInv /\ RingHoldsEntered
    BY Sizes DEF Init, EnteredInv, RingHoldsEntered
  <1> QED
    BY <1>1, RingStep, EditInvCorrect, PTL DEF Spec

\* Going up from the end of the line being typed keeps all of it.
THEOREM DraftKeptFromEndCorrect == Spec => DraftKeptFromEnd
  <1>1. ASSUME EditInv, [Next]_vars, hst_pos = iCmdHstSP, hst_pos' # hst_pos, cur_pos = cur_max
        PROVE  vpchCmdStack'[iCmdHstSP] = Line
    <2>1. LineInv /\ iCmdHstSP \in Slots /\ vpchCmdStack \in [Slots -> Seq(Char)]
      BY <1>1 DEF EditInv, RingInv
    <2>2. Browses /\ cur_max < MaxCmdLen
      <3>1. hst_pos' # iCmdHstSP
        BY <1>1
      <3> QED
        BY <1>1, <2>1, <3>1, NextDoes, DispatchMakes, EntersMakes
        DEF Does, Inserts, Backspaces, Deletes, Moves, GivesUp, Stays, vars
    <2>3. vpchCmdStack' = [vpchCmdStack EXCEPT ![iCmdHstSP] = SubSeq(Line, 1, cur_pos)]
      BY <1>1, <2>2, RecallsMakes DEF Browses
    <2>4. SubSeq(Line, 1, cur_pos) = Line
      BY <1>1, <2>1, LineIs
    <2> QED
      BY <2>1, <2>3, <2>4
  <1>2. EditInv /\ [Next]_vars =>
            [hst_pos = iCmdHstSP /\ hst_pos' # hst_pos /\ cur_pos = cur_max
               => vpchCmdStack'[iCmdHstSP] = Line]_vars
    BY <1>1
  <1> QED
    BY <1>2, EditInvCorrect, PTL DEF Spec, DraftKeptFromEnd

-----------------------------------------------------------------------------
(***************************************************************************)
(* The words of a line.  Scan goes over the line once; what it has found   *)
(* after k characters are the fields that begin among them, the last one   *)
(* as far as it goes.                                                      *)
(***************************************************************************)

NoWords == [words |-> <<>>, open |-> FALSE]

ScanState(C) == {s \in [words : Seq(Seq(C)), open : BOOLEAN] : s.open => s.words # <<>>}

\* What a character makes of the words so far.
LEMMA ScanIs ==
    ASSUME NEW C, NEW s \in ScanState(C), NEW c \in C
    PROVE  /\ Scan(s, c) \in ScanState(C)
           /\ c = Blank => Scan(s, c) = [words |-> s.words, open |-> FALSE]
           /\ c # Blank /\ s.open =>
                /\ Len(s.words) \in 1..Len(s.words)
                /\ Scan(s, c) = [words |-> [s.words EXCEPT ![Len(s.words)] =
                                              Append(s.words[Len(s.words)], c)],
                                 open |-> TRUE]
           /\ c # Blank /\ ~s.open =>
                Scan(s, c) = [words |-> Append(s.words, <<c>>), open |-> TRUE]
  <1>1. /\ s \in [words : Seq(Seq(C)), open : BOOLEAN] /\ s.words \in Seq(Seq(C))
        /\ s.open \in BOOLEAN /\ Len(s.words) \in Nat
    BY LenProperties DEF ScanState
  <1>2. CASE c = Blank
    <2>1. Scan(s, c) = [words |-> s.words, open |-> FALSE]
      BY <1>1, <1>2 DEF Scan
    <2>. QED BY <1>1, <1>2, <2>1 DEF ScanState
  <1>3. CASE c # Blank /\ s.open
    <2> DEFINE n == Len(s.words)
               w == Append(s.words[n], c)
               all == [s.words EXCEPT ![n] = w]
    <2>1. n \in 1..Len(s.words) /\ s.words[n] \in Seq(C)
      BY <1>1, <1>3, EmptySeq DEF ScanState
    <2>2. w \in Seq(C)
      BY <2>1
    <2>3. all \in Seq(Seq(C)) /\ Len(all) = Len(s.words)
      BY <1>1, <2>1, <2>2, ExceptSeq
    <2>4. all # <<>>
      BY <2>1, <2>3
    <2>5. Scan(s, c) = [words |-> all, open |-> TRUE]
      BY <1>1, <1>3 DEF Scan
    <2> HIDE DEF all
    <2>6. [words |-> all, open |-> TRUE] \in ScanState(C)
      BY <2>3, <2>4 DEF ScanState
    <2>. QED BY <1>3, <2>1, <2>5, <2>6 DEF all
  <1>4. CASE c # Blank /\ ~s.open
    <2>1. Scan(s, c) = [words |-> Append(s.words, <<c>>), open |-> TRUE]
      BY <1>4 DEF Scan
    <2>2. <<c>> \in Seq(C)
      OBVIOUS
    <2>3. Append(s.words, <<c>>) \in Seq(Seq(C)) /\ Append(s.words, <<c>>) # <<>>
      BY <1>1, <2>2, AppendProperties
    <2>. QED BY <1>4, <2>1, <2>3 DEF ScanState
  <1>. QED BY <1>2, <1>3, <1>4

\* AllWords(line) is what Scan has made of the line at its end.
LEMMA WordsAreScanned ==
    ASSUME NEW C, NEW line \in Seq(C)
    PROVE  \E g \in [0..Len(line) -> ScanState(C)] :
             /\ g[0] = NoWords
             /\ \A k \in 1..Len(line) : g[k] = Scan(g[k - 1], line[k])
             /\ AllWords(line) = g[Len(line)].words
  <1> DEFINE n == Len(line)
             S == ScanState(C)
             step == [k \in 1..n |-> [s \in S |-> Scan(s, line[k])]]
             Is(f) == f = [s \in SUBSET DOMAIN line |->
                             IF s = {} THEN NoWords
                             ELSE Scan(f[s \ {Max(s)}], line[Max(s)])]
             all == CHOOSE f : Is(f)
             g == [k \in 0..n |-> all[1..k]]
  <1>1. n \in Nat /\ DOMAIN line = 1..n /\ \A k \in 1..n : line[k] \in C
    BY LenProperties
  <1>2. NoWords \in S
    BY EmptySeq DEF ScanState, NoWords
  <1>3. \A k \in 1..n : \A s \in S : Scan(s, line[k]) \in S
    BY <1>1, ScanIs
  <1>4. step \in Steps(S, n)
    <2> HIDE DEF S
    <2>. QED BY <1>3 DEF Steps
  <1>5. PICK it \in [SUBSET (1..n) -> S] : IsFold(it, n, NoWords, step)
    <2> HIDE DEF n, S, step
    <2>. QED BY <1>1, <1>2, <1>4, FoldExists
  <1>6. Is(it)
    <2>1. ASSUME NEW s \in SUBSET (1..n), s # {}
          PROVE  step[Max(s)][it[s \ {Max(s)}]] = Scan(it[s \ {Max(s)}], line[Max(s)])
      <3>1. s \in SUBSET (0..n) /\ s \ {Max(s)} \in SUBSET (1..n)
        <4> HIDE DEF n
        <4>1. \A x \in s : x \in 1..n /\ x \in 0..n
          OBVIOUS
        <4>. QED BY <4>1
      <3>2. Max(s) \in 1..n /\ it[s \ {Max(s)}] \in S
        BY <1>1, <2>1, <3>1, Greatest
      <3>. QED BY <3>2
    <2> HIDE DEF step, S, n
    <2>. QED BY <1>1, <1>5, <2>1 DEF IsFold
  <1>7. Is(all)
    BY <1>6
  <1>8. AllWords(line) = all[1..n].words
    BY <1>1 DEF AllWords, FoldLeft, MapThenFoldSet, NoWords
  <1> HIDE DEF all, step
  <1>9. all[{}] = NoWords
    BY <1>7
  <1>10. g[0] = NoWords
    <2>1. 1..0 = {} /\ 0 \in 0..n
      BY <1>1
    <2>. QED BY <1>9, <2>1
  <1>11. ASSUME NEW k \in 1..n PROVE g[k] = Scan(g[k - 1], line[k])
    <2>1. all[1..k] = Scan(all[1..(k - 1)], line[k])
      BY <1>1, <1>7, Segment
    <2>. QED BY <1>1, <2>1
  <1>12. \A k \in 0..n : g[k] \in S
    <2> DEFINE T == {k \in 0..n : g[k] \in S}
    <2> HIDE DEF g, S
    <2>1. 0 \in T
      BY <1>1, <1>2, <1>10
    <2>2. \A k \in 1..n : k - 1 \in T => k \in T
      BY <1>3, <1>11
    <2> HIDE DEF T
    <2>3. \A k \in 0..n : k \in T
      BY <1>1, <2>1, <2>2, UpTo
    <2>. QED BY <2>3 DEF T
  <1>13. g \in [0..n -> S] /\ all[1..n] = g[n]
    BY <1>1, <1>12
  <1>. QED BY <1>8, <1>10, <1>11, <1>13

\* A word found at i among the first k characters, ended unless it reaches to k.
FoundAt(w, line, i, k) ==
    /\ Len(w) >= 1 /\ i + Len(w) <= k + 1
    /\ \A x \in 1..Len(w) : w[x] = line[i + x - 1] /\ w[x] # Blank
    /\ i + Len(w) <= k => line[i + Len(w)] = Blank

\* The words begin at p: every field that begins among the first k characters,
\* one behind the other.
WordsAt(W, p, line, k) ==
    /\ p \in [1..Len(W) -> FieldStarts(line)]
    /\ \A j \in 1..Len(W) : FoundAt(W[j], line, p[j], k)
    /\ \A i \in FieldStarts(line) : i <= k => \E j \in 1..Len(W) : p[j] = i
    /\ \A j, l \in 1..Len(W) : j < l => p[j] + Len(W[j]) <= p[l]

Scanned(s, p, line, k) ==
    /\ WordsAt(s.words, p, line, k)
    /\ s.open <=> k > 0 /\ line[k] # Blank
    /\ s.open => p[Len(s.words)] + Len(s.words[Len(s.words)]) = k + 1

\* Among one character more, unless the word grows by it.
LEMMA FoundStays ==
    ASSUME NEW w, Len(w) \in Nat, NEW line, NEW i \in Nat, NEW k \in Nat, k >= 1,
           FoundAt(w, line, i, k - 1), i + Len(w) = k => line[k] = Blank
    PROVE  FoundAt(w, line, i, k)
  <1>1. PICK n \in Nat : n = Len(w)
    OBVIOUS
  <1>2. /\ n >= 1 /\ i + n <= (k - 1) + 1
        /\ \A x \in 1..Len(w) : w[x] = line[i + x - 1] /\ w[x] # Blank
        /\ i + n <= k - 1 => line[i + n] = Blank
    BY <1>1 DEF FoundAt
  <1>3. i + n <= (k - 1) + 1
    BY <1>2
  <1>4. i + n <= k + 1 /\ (i + n <= k => i + n = k \/ i + n <= k - 1)
    BY <1>3
  <1>. QED BY <1>1, <1>2, <1>4 DEF FoundAt

\* A word that grows by the next character, or begins with it.
LEMMA FoundGrows ==
    ASSUME NEW w, Len(w) \in Nat, NEW line, NEW i \in Nat, NEW k \in Nat, k >= 1,
           i + Len(w) = k + 1, Len(w) >= 1, w[Len(w)] = line[k], line[k] # Blank,
           \A x \in 1..(Len(w) - 1) : w[x] = line[i + x - 1] /\ w[x] # Blank
    PROVE  FoundAt(w, line, i, k)
  <1>1. PICK n \in Nat : n = Len(w)
    OBVIOUS
  <1>2. ~(i + n <= k) /\ i + n <= k + 1 /\ i + n - 1 = k
    BY <1>1
  <1>3. ASSUME NEW x \in 1..n PROVE w[x] = line[i + x - 1] /\ w[x] # Blank
    <2>1. CASE x = n
      BY <1>1, <1>2, <2>1
    <2>2. CASE x # n
      <3>1. x \in 1..(n - 1)
        BY <2>2
      <3>. QED BY <1>1, <3>1
    <2>. QED BY <2>1, <2>2
  <1>. QED BY <1>1, <1>2, <1>3 DEF FoundAt

\* The end of a word found.
LEMMA FoundEnd ==
    ASSUME NEW w, Len(w) \in Nat, NEW line, NEW i \in Nat, NEW k \in Nat, k >= 1, i >= 1,
           FoundAt(w, line, i, k - 1)
    PROVE  /\ i <= k - 1 /\ i + Len(w) <= k /\ Len(w) >= 1
           /\ line[i + Len(w) - 1] # Blank
  <1>1. PICK n \in Nat : n = Len(w)
    OBVIOUS
  <1>2. n >= 1 /\ i + n <= (k - 1) + 1 /\ \A x \in 1..n : w[x] = line[i + x - 1] /\ w[x] # Blank
    BY <1>1 DEF FoundAt
  <1>3. n \in 1..n /\ i + n <= k /\ i <= k - 1
    BY <1>2
  <1>. QED BY <1>1, <1>2, <1>3

\* Behind a blank every word has ended before it.
LEMMA EndsBefore ==
    ASSUME NEW line, NEW i \in Nat, NEW n \in Nat, NEW k \in Nat, i >= 1, n >= 1, i + n <= k,
           line[i + n - 1] # Blank, k > 1 => line[k - 1] = Blank
    PROVE  i + n <= k - 1
  OBVIOUS

\* One character more is scanned.
LEMMA ScanStep ==
    ASSUME NEW C, NEW line \in Seq(C), NEW k \in 1..Len(line), NEW s \in ScanState(C),
           \E p : Scanned(s, p, line, k - 1)
    PROVE  \E p : Scanned(Scan(s, line[k]), p, line, k)
  <1> DEFINE W == s.words
             m == Len(s.words)
  <1>1. /\ W \in Seq(Seq(C)) /\ m \in Nat /\ \A j \in 1..m : W[j] \in Seq(C) /\ Len(W[j]) \in Nat
        /\ line[k] \in C /\ Len(line) \in Nat /\ k \in Nat /\ k >= 1
        /\ s.open \in BOOLEAN /\ (s.open => m >= 1)
    <2>1. W \in Seq(Seq(C)) /\ m \in Nat /\ Len(line) \in Nat /\ s.open \in BOOLEAN
      BY LenProperties DEF ScanState
    <2>2. \A j \in 1..m : W[j] \in Seq(C) /\ Len(W[j]) \in Nat
      BY <2>1, LenProperties
    <2>3. s.open => m >= 1
      BY <2>1, EmptySeq DEF ScanState
    <2>. QED BY <2>1, <2>2, <2>3
  <1>2. PICK p : Scanned(s, p, line, k - 1)
    OBVIOUS
  <1>3. /\ p \in [1..m -> FieldStarts(line)]
        /\ \A j \in 1..m : FoundAt(W[j], line, p[j], k - 1)
        /\ \A i \in FieldStarts(line) : i <= k - 1 => \E j \in 1..m : p[j] = i
        /\ \A j, l \in 1..m : j < l => p[j] + Len(W[j]) <= p[l]
        /\ s.open <=> k - 1 > 0 /\ line[k - 1] # Blank
        /\ s.open => p[m] + Len(W[m]) = k
    BY <1>1, <1>2 DEF Scanned, WordsAt
  <1>4. \A i \in FieldStarts(line) : i \in Nat /\ i >= 1
    BY <1>1 DEF FieldStarts
  <1>5. k \in FieldStarts(line) <=> line[k] # Blank /\ ~s.open
    BY <1>1, <1>3 DEF FieldStarts
  <1> HIDE DEF W, m
  <1>6. \A j \in 1..m : /\ p[j] \in Nat /\ p[j] >= 1 /\ p[j] <= k - 1
                       /\ Len(W[j]) \in Nat /\ p[j] + Len(W[j]) <= k /\ Len(W[j]) >= 1
                       /\ line[p[j] + Len(W[j]) - 1] # Blank
    <2> TAKE j \in 1..m
    <2>1. p[j] \in Nat /\ p[j] >= 1 /\ Len(W[j]) \in Nat /\ FoundAt(W[j], line, p[j], k - 1)
      BY <1>1, <1>3, <1>4
    <2>2. k \in Nat /\ k >= 1
      BY <1>1
    <2> HIDE DEF FoundAt
    <2>. QED BY <2>1, <2>2, FoundEnd
  <1>7. CASE line[k] = Blank
    <2>1. Scan(s, line[k]) = [words |-> W, open |-> FALSE]
      BY <1>1, <1>7, ScanIs DEF W
    <2>2. ASSUME NEW j \in 1..m PROVE FoundAt(W[j], line, p[j], k)
      <3>1. FoundAt(W[j], line, p[j], k - 1) /\ p[j] \in Nat /\ Len(W[j]) \in Nat
        BY <1>3, <1>6
      <3>2. k \in Nat /\ k >= 1
        BY <1>1
      <3>. QED BY <1>7, <3>1, <3>2, FoundStays
    <2>3. ASSUME NEW i \in FieldStarts(line), i <= k PROVE \E j \in 1..m : p[j] = i
      <3>1. i \in Nat /\ i # k
        BY <1>4, <1>5, <1>7
      <3>2. i <= k - 1
        BY <1>1, <2>3, <3>1
      <3>. QED BY <1>3, <3>2
    <2>4. WordsAt(W, p, line, k)
      BY <1>3, <2>2, <2>3 DEF WordsAt, m, W
    <2>. QED BY <1>7, <2>1, <2>4 DEF Scanned
  <1>8. CASE line[k] # Blank /\ s.open
    <2> DEFINE w == Append(W[m], line[k])
               V == [W EXCEPT ![m] = w]
    <2>1. /\ Scan(s, line[k]) = [words |-> V, open |-> TRUE]
          /\ m \in 1..m /\ V \in Seq(Seq(C)) /\ Len(V) = m /\ V[m] = w
          /\ \A j \in 1..m : j # m => V[j] = W[j]
      <3>1. Scan(s, line[k]) = [words |-> V, open |-> TRUE]
        BY <1>1, <1>8, ScanIs DEF W, m
      <3>2. m \in 1..m /\ w \in Seq(C)
        BY <1>1, <1>8
      <3>3. V \in Seq(Seq(C)) /\ Len(V) = Len(W)
        BY <1>1, <3>2, ExceptSeq DEF W, m
      <3>4. DOMAIN W = 1..m
        BY <1>1, LenProperties DEF W, m
      <3>. QED BY <3>1, <3>2, <3>3, <3>4 DEF W, m
    <2>2. /\ Len(w) = Len(W[m]) + 1 /\ \A x \in 1..Len(W[m]) : w[x] = W[m][x]
          /\ w[Len(W[m]) + 1] = line[k]
      BY <1>1, <2>1, AppendProperties
    <2> HIDE DEF w, V
    <2>3. ASSUME NEW j \in 1..m PROVE FoundAt(V[j], line, p[j], k)
      <3>0. k \in Nat /\ k >= 1 /\ p[m] + Len(W[m]) = k
        BY <1>1, <1>3, <1>8
      <3>1. CASE j = m
        <4>1. /\ V[j] = w /\ p[j] \in Nat /\ Len(W[m]) \in Nat /\ FoundAt(W[m], line, p[j], k - 1)
          BY <1>3, <1>6, <2>1, <3>1
        <4>2. /\ Len(w) \in Nat /\ Len(w) >= 1 /\ p[j] + Len(w) = k + 1 /\ w[Len(w)] = line[k]
              /\ Len(w) - 1 = Len(W[m])
          <5>1. p[j] + Len(W[m]) = k
            BY <3>0, <3>1
          <5>. QED BY <2>2, <3>0, <4>1, <5>1
        <4>3. \A x \in 1..(Len(w) - 1) : w[x] = line[p[j] + x - 1] /\ w[x] # Blank
          BY <2>2, <4>1, <4>2 DEF FoundAt
        <4>. QED BY <1>8, <3>0, <4>1, <4>2, <4>3, FoundGrows
      <3>2. CASE j # m
        <4>1. V[j] = W[j] /\ FoundAt(W[j], line, p[j], k - 1) /\ p[j] \in Nat /\ Len(W[j]) \in Nat
          BY <1>3, <1>6, <2>1, <3>2
        <4>2. p[j] + Len(W[j]) <= p[m] /\ p[m] <= k - 1 /\ p[m] \in Nat
          <5>1. j < m /\ m \in 1..m
            BY <1>1, <2>1, <3>2
          <5>. QED BY <1>3, <1>6, <5>1
        <4>3. p[j] + Len(W[j]) # k
          BY <3>0, <4>1, <4>2
        <4>. QED BY <3>0, <4>1, <4>3, FoundStays
      <3>. QED BY <3>1, <3>2
    <2>4. ASSUME NEW i \in FieldStarts(line), i <= k PROVE \E j \in 1..m : p[j] = i
      <3>1. i \in Nat /\ i # k
        BY <1>4, <1>5, <1>8
      <3>2. i <= k - 1
        BY <1>1, <2>4, <3>1
      <3>. QED BY <1>3, <3>2
    <2>5. ASSUME NEW j \in 1..m, NEW l \in 1..m, j < l PROVE p[j] + Len(V[j]) <= p[l]
      <3>1. j # m
        BY <1>1, <2>5
      <3>. QED BY <1>3, <2>1, <2>5, <3>1
    <2>6. WordsAt(V, p, line, k)
      BY <1>3, <2>1, <2>3, <2>4, <2>5 DEF WordsAt
    <2>7. p[Len(V)] + Len(V[Len(V)]) = k + 1
      <3>1. Len(V) = m /\ V[m] = w
        BY <2>1
      <3>2. p[m] \in Nat /\ Len(W[m]) \in Nat /\ p[m] + Len(W[m]) = k /\ k \in Nat
        BY <1>1, <1>3, <1>6, <1>8, <2>1
      <3>3. p[m] + Len(w) = k + 1
        BY <2>2, <3>2
      <3>. QED BY <3>1, <3>3
    <2>8. k > 0
      BY <1>1
    <2> DEFINE t == Scan(s, line[k])
    <2>9. t.words = V /\ t.open = TRUE
      BY <2>1
    <2> HIDE DEF t
    <2>10. Scanned(t, p, line, k)
      BY <1>8, <2>6, <2>7, <2>8, <2>9 DEF Scanned
    <2>. QED BY <2>10 DEF t
  <1>9. CASE line[k] # Blank /\ ~s.open
    <2> DEFINE w == <<line[k]>>
               V == Append(W, w)
               q == [j \in 1..(m + 1) |-> IF j = m + 1 THEN k ELSE p[j]]
    <2>1. Scan(s, line[k]) = [words |-> V, open |-> TRUE]
      BY <1>1, <1>9, ScanIs DEF W
    <2>2. Len(w) = 1 /\ w[1] = line[k] /\ w \in Seq(C)
      BY <1>1
    <2>3. Len(V) = m + 1 /\ V[m + 1] = w /\ \A j \in 1..m : V[j] = W[j]
      <3> HIDE DEF w
      <3>. QED BY <1>1, <2>2, AppendProperties DEF W, m
    <2>4. /\ m + 1 \in 1..(m + 1) /\ \A j \in 1..(m + 1) : j # m + 1 => j \in 1..m
          /\ q[m + 1] = k /\ \A j \in 1..m : q[j] = p[j]
      BY <1>1
    <2>5. q \in [1..(m + 1) -> FieldStarts(line)]
      BY <1>3, <1>5, <1>9, <2>4
    <2> HIDE DEF w, V, q
    <2>6. \A j \in 1..m : p[j] + Len(W[j]) <= k - 1
      <3> TAKE j \in 1..m
      <3>1. /\ p[j] \in Nat /\ Len(W[j]) \in Nat /\ p[j] >= 1 /\ Len(W[j]) >= 1
            /\ p[j] + Len(W[j]) <= k /\ line[p[j] + Len(W[j]) - 1] # Blank
        BY <1>6
      <3>2. k \in Nat /\ (k > 1 => line[k - 1] = Blank)
        BY <1>1, <1>3, <1>9
      <3>. QED BY <3>1, <3>2, EndsBefore
    <2>7. ASSUME NEW j \in 1..(m + 1) PROVE FoundAt(V[j], line, q[j], k)
      <3>1. CASE j = m + 1
        <4>1. V[j] = w /\ q[j] = k /\ k \in Nat /\ k >= 1
          BY <1>1, <2>3, <2>4, <3>1
        <4>2. Len(w) \in Nat /\ k + Len(w) = k + 1 /\ w[Len(w)] = line[k] /\ Len(w) >= 1
          BY <2>2, <4>1
        <4>3. \A x \in 1..(Len(w) - 1) : w[x] = line[k + x - 1] /\ w[x] # Blank
          BY <2>2
        <4>. QED BY <1>9, <4>1, <4>2, <4>3, FoundGrows
      <3>2. CASE j # m + 1
        <4>1. j \in 1..m
          BY <2>4, <3>2
        <4>2. V[j] = W[j] /\ q[j] = p[j]
          BY <2>3, <2>4, <4>1
        <4>3. /\ FoundAt(W[j], line, p[j], k - 1) /\ p[j] \in Nat /\ Len(W[j]) \in Nat
              /\ p[j] + Len(W[j]) <= k - 1 /\ k \in Nat /\ k >= 1
          BY <1>1, <1>3, <1>6, <2>6, <4>1
        <4>4. p[j] + Len(W[j]) # k
          BY <4>3
        <4>. QED BY <4>2, <4>3, <4>4, FoundStays
      <3>. QED BY <3>1, <3>2
    <2>8. ASSUME NEW i \in FieldStarts(line), i <= k PROVE \E j \in 1..(m + 1) : q[j] = i
      <3>1. CASE i = k
        BY <2>4, <3>1
      <3>2. CASE i # k
        <4>1. i <= k - 1
          BY <1>1, <1>4, <2>8, <3>2
        <4>2. PICK j \in 1..m : p[j] = i
          BY <1>3, <4>1
        <4>3. j \in 1..(m + 1)
          BY <1>1
        <4>. QED BY <2>4, <4>2, <4>3
      <3>. QED BY <3>1, <3>2
    <2>9. ASSUME NEW j \in 1..(m + 1), NEW l \in 1..(m + 1), j < l
          PROVE  q[j] + Len(V[j]) <= q[l]
      <3>1. j \in 1..m /\ V[j] = W[j] /\ q[j] = p[j]
        BY <1>1, <2>3, <2>4, <2>9
      <3>2. CASE l = m + 1
        <4>1. PICK e \in Nat : e = p[j] + Len(W[j])
          BY <1>6, <3>1
        <4>2. e <= k - 1 /\ q[l] = k /\ k \in Nat
          BY <1>1, <2>4, <2>6, <3>1, <3>2, <4>1
        <4>3. e <= k
          BY <4>2
        <4>. QED BY <3>1, <4>1, <4>2, <4>3
      <3>3. CASE l # m + 1
        <4>1. l \in 1..m /\ q[l] = p[l]
          BY <2>4, <3>3
        <4>. QED BY <1>3, <2>9, <3>1, <4>1
      <3>. QED BY <3>2, <3>3
    <2>10. WordsAt(V, q, line, k)
      BY <2>3, <2>5, <2>7, <2>8, <2>9 DEF WordsAt
    <2>11. q[Len(V)] + Len(V[Len(V)]) = k + 1
      BY <1>1, <2>2, <2>3, <2>4
    <2>. QED BY <1>1, <1>9, <2>1, <2>10, <2>11 DEF Scanned
  <1>. QED BY <1>1, <1>7, <1>8, <1>9

\* The words of a line are its fields, in order.
LEMMA WordsAreFields ==
    ASSUME NEW C, NEW line \in Seq(C)
    PROVE  /\ AllWords(line) \in Seq(Seq(C))
           /\ \E p : WordsAt(AllWords(line), p, line, Len(line))
  <1>1. PICK g \in [0..Len(line) -> ScanState(C)] :
          /\ g[0] = NoWords
          /\ \A k \in 1..Len(line) : g[k] = Scan(g[k - 1], line[k])
          /\ AllWords(line) = g[Len(line)].words
    BY WordsAreScanned
  <1>2. Len(line) \in Nat /\ Len(line) \in 0..Len(line)
    BY LenProperties
  <1> DEFINE T == {k \in 0..Len(line) : \E p : Scanned(g[k], p, line, k)}
  <1>3. 0 \in T
    <2>1. NoWords.words = <<>> /\ NoWords.open = FALSE /\ Len(<<>>) = 0
      BY DEF NoWords
    <2>2. \A i \in FieldStarts(line) : ~(i <= 0)
      BY <1>2 DEF FieldStarts
    <2>3. WordsAt(<<>>, [j \in 1..0 |-> 0], line, 0)
      BY <2>1, <2>2 DEF WordsAt
    <2>4. Scanned(NoWords, [j \in 1..0 |-> 0], line, 0)
      BY <2>1, <2>3 DEF Scanned
    <2>. QED BY <1>1, <1>2, <2>4
  <1>4. ASSUME NEW k \in 1..Len(line), k - 1 \in T PROVE k \in T
    <2>1. g[k - 1] \in ScanState(C) /\ \E p : Scanned(g[k - 1], p, line, k - 1)
      BY <1>1, <1>2, <1>4
    <2>2. \E p : Scanned(Scan(g[k - 1], line[k]), p, line, k)
      BY <2>1, ScanStep
    <2>. QED BY <1>1, <2>2
  <1> HIDE DEF T
  <1>5. \A k \in 0..Len(line) : k \in T
    BY <1>2, <1>3, <1>4, UpTo
  <1>6. PICK p : Scanned(g[Len(line)], p, line, Len(line))
    BY <1>2, <1>5 DEF T
  <1>7. g[Len(line)].words \in Seq(Seq(C))
    BY <1>1, <1>2 DEF ScanState
  <1>. QED BY <1>1, <1>6, <1>7 DEF Scanned

-----------------------------------------------------------------------------
(***************************************************************************)
(* What TranslateMessage() hands on, and what DispatchMessage() runs.      *)
(***************************************************************************)

LEMMA TooLongIs == TooLong \in Seq(Seq(Char)) /\ Len(TooLong) = 1 /\ TooLong[1] = <<>>
  <1>1. <<>> \in Seq(Char)
    BY EmptySeq
  <1>. QED BY <1>1 DEF TooLong

\* A word found in the whole line is a field of it.
LEMMA FoundIsField ==
    ASSUME NEW line \in Seq(Char), NEW w \in Seq(Char), NEW i \in 1..Len(line),
           FoundAt(w, line, i, Len(line))
    PROVE  IsField(w, line, i)
  <1>1. Len(w) \in Nat /\ Len(line) \in Nat
    BY LenProperties
  <1>2. PICK n \in Nat : n = Len(w)
    BY <1>1
  <1>3. /\ n >= 1 /\ i + n <= Len(line) + 1
        /\ \A x \in 1..n : w[x] = line[i + x - 1] /\ w[x] # Blank
        /\ i + n <= Len(line) => line[i + n] = Blank
    BY <1>2 DEF FoundAt
  <1>4. i + n - 1 <= Len(line) /\ i + n - 1 \in Nat /\ (i + n - 1) - i + 1 = n
    BY <1>1, <1>3
  <1>5. w = SubSeq(line, i, i + n - 1)
    <2> DEFINE v == SubSeq(line, i, i + n - 1)
    <2>1. v \in Seq(Char) /\ Len(v) = n /\ \A x \in 1..n : v[x] = line[i + x - 1]
      BY <1>1, <1>4
    <2> HIDE DEF v
    <2>2. w = v
      BY <1>2, <1>3, <2>1, SeqEqual
    <2>. QED BY <2>2 DEF v
  <1>. QED BY <1>2, <1>3, <1>4, <1>5 DEF IsField

\* The arguments are the leading fields, each of which fits its row of the table.
LEMMA TranslateIs ==
    ASSUME NEW line \in Seq(Char), NEW words, words = TranslateMessage(line)
    PROVE  /\ words \in Seq(Seq(Char))
           /\ words # TooLong =>
                /\ AreLeadingFields(words, line)
                /\ Len(words) \in 0..MaxCmdArg
                /\ \A j \in 1..Len(words) : Len(words[j]) < MaxArgLen
  <1> DEFINE all == AllWords(line)
             n == IF Len(all) < MaxCmdArg THEN Len(all) ELSE MaxCmdArg
             long == \E i \in 1..n : Len(all[i]) + 1 > MaxArgLen
  <1>1. words = IF long THEN TooLong ELSE SubSeq(all, 1, n)
    BY DEF TranslateMessage
  <1>2. all \in Seq(Seq(Char))
    BY WordsAreFields
  <1>3. PICK p : WordsAt(all, p, line, Len(line))
    BY WordsAreFields
  <1>4. MaxCmdArg \in Nat /\ MaxCmdArg >= 1 /\ MaxArgLen \in Nat /\ Len(line) \in Nat
    BY SizesAssumption, LenProperties
  <1> HIDE DEF all
  <1>5. /\ Len(all) \in Nat /\ n \in Nat /\ n <= Len(all) /\ n <= MaxCmdArg
        /\ n < Len(all) => n = MaxCmdArg
    BY <1>2, <1>4, LenProperties
  <1> HIDE DEF n
  <1>6. CASE long
    BY <1>1, <1>6, TooLongIs
  <1>7. CASE ~long
    <2>1. words = SubSeq(all, 1, n)
      BY <1>1, <1>7
    <2>2. words \in Seq(Seq(Char)) /\ Len(words) = n /\ \A j \in 1..n : words[j] = all[j]
      BY <1>2, <1>5, <2>1
    <2>3. \A j \in 1..n : /\ j \in 1..Len(all) /\ all[j] \in Seq(Char) /\ Len(all[j]) \in Nat
                          /\ ~(Len(all[j]) + 1 > MaxArgLen)
      <3> TAKE j \in 1..n
      <3>1. j \in 1..Len(all)
        BY <1>5
      <3>2. all[j] \in Seq(Char)
        BY <1>2, <3>1
      <3>. QED BY <1>7, <3>1, <3>2, LenProperties
    <2> DEFINE from == [j \in 1..n |-> p[j]]
    <2>4. /\ p \in [1..Len(all) -> FieldStarts(line)]
          /\ \A j \in 1..Len(all) : FoundAt(all[j], line, p[j], Len(line))
          /\ \A i \in FieldStarts(line) : i <= Len(line) => \E j \in 1..Len(all) : p[j] = i
          /\ \A j, l \in 1..Len(all) : j < l => p[j] + Len(all[j]) <= p[l]
      BY <1>3 DEF WordsAt
    <2>5. \A i \in FieldStarts(line) : i \in 1..Len(line)
      BY DEF FieldStarts
    <2>6. from \in [1..n -> FieldStarts(line)] /\ \A j \in 1..n : from[j] = p[j]
      BY <2>3, <2>4
    <2> HIDE DEF from
    <2>7. ASSUME NEW j \in 1..n PROVE IsField(words[j], line, from[j])
      <3>1. PICK w \in Seq(Char) : w = all[j]
        BY <2>3
      <3>2. PICK i \in 1..Len(line) : i = p[j]
        BY <2>3, <2>4, <2>5
      <3>3. FoundAt(w, line, i, Len(line)) /\ Len(w) \in Nat
        BY <2>3, <2>4, <3>1, <3>2
      <3>4. IsField(w, line, i)
        BY <1>4, <3>3, FoundIsField
      <3>. QED BY <2>2, <2>6, <3>1, <3>2, <3>4
    <2>8. ASSUME NEW j \in 1..n, NEW l \in 1..n, j < l PROVE from[j] < from[l]
      <3>1. /\ p[j] \in 1..Len(line) /\ p[l] \in 1..Len(line) /\ p[j] + Len(all[j]) <= p[l]
            /\ Len(all[j]) >= 1 /\ Len(all[j]) \in Nat
        BY <2>3, <2>4, <2>5, <2>8 DEF FoundAt
      <3>2. p[j] < p[l]
        BY <3>1
      <3>. QED BY <2>6, <3>2
    <2>9. ASSUME NEW i \in FieldStarts(line), ~\E j \in 1..n : from[j] = i
          PROVE  n = MaxCmdArg /\ from[MaxCmdArg] < i
      <3>1. PICK j \in 1..Len(all) : p[j] = i
        BY <1>4, <2>4, <2>5
      <3>2. j \notin 1..n
        BY <2>6, <2>9, <3>1
      <3>3. n < j /\ n < Len(all)
        BY <1>5, <3>2
      <3>4. n = MaxCmdArg /\ n \in 1..n /\ n \in 1..Len(all)
        BY <1>4, <1>5, <3>3
      <3>5. /\ p[n] + Len(all[n]) <= p[j] /\ Len(all[n]) >= 1 /\ Len(all[n]) \in Nat
            /\ p[n] \in 1..Len(line) /\ p[j] \in 1..Len(line)
        BY <2>3, <2>4, <2>5, <3>3, <3>4 DEF FoundAt
      <3>6. p[n] < p[j]
        BY <3>5
      <3>. QED BY <2>6, <3>1, <3>4, <3>6
    <2>10. AreLeadingFields(words, line)
      BY <2>2, <2>6, <2>7, <2>8, <2>9 DEF AreLeadingFields
    <2>11. \A j \in 1..n : Len(words[j]) < MaxArgLen
      <3> TAKE j \in 1..n
      <3>1. Len(all[j]) \in Nat /\ ~(Len(all[j]) + 1 > MaxArgLen) /\ words[j] = all[j]
        BY <2>2, <2>3
      <3>2. Len(all[j]) < MaxArgLen
        BY <1>4, <3>1
      <3>. QED BY <3>1, <3>2
    <2>. QED BY <1>4, <1>5, <2>2, <2>10, <2>11
  <1>. QED BY <1>6, <1>7

\* Between the line's end and the dispatching the buffer holds the line entered last.
RunInv ==
    /\ EnteredInv
    /\ at = "dispatch" => entered # <<>> /\ CString(buf) = entered[1]
    /\ argv \in Seq(Seq(Char))
    /\ ran \in [cmd : Commands \cup {NoCommand}, argc : 0..MaxCmdArg]
    /\ esc_sequence \in {0, 1} /\ spec_key \in {0, 1}
    /\ RunsWhatWasEntered

LEMMA FlagsStay ==
    ASSUME [Next]_vars, esc_sequence \in {0, 1}, spec_key \in {0, 1}
    PROVE  esc_sequence' \in {0, 1} /\ spec_key' \in {0, 1}
  BY DEF Next, vars, ReadKey, ReadEsc, ReadCsi, ReadTail, Dispatch

LEMMA DispatchFollows ==
    ASSUME [Next]_vars, at = "dispatch"
    PROVE  Dispatch \/ UNCHANGED vars
  BY DEF Next, ReadKey, ReadEsc, ReadCsi, ReadTail

LEMMA DispatchRuns ==
    ASSUME RunInv, Dispatch
    PROVE  RunInv'
  <1>1. /\ at = "dispatch" /\ UNCHANGED <<ringVars, entered>> /\ at' = "key"
        /\ esc_sequence' = 0 /\ spec_key' = 0 /\ argv' = TranslateMessage(CString(buf))
        /\ \/ argv' = TooLong /\ UNCHANGED ran
           \/ /\ argv' # TooLong
              /\ \E cmd \in IF argv' = <<>> THEN Commands \cup {NoCommand}
                                            ELSE {find_cmd(argv'[1])} :
                    ran' = [cmd |-> cmd, argc |-> Len(argv')]
    BY DEF Dispatch
  <1>2. CString(buf) = entered[1] /\ entered[1] \in Seq(Char)
    BY <1>1, EmptySeq DEF RunInv, EnteredInv
  <1>3. /\ argv' \in Seq(Seq(Char))
        /\ argv' # TooLong => /\ AreLeadingFields(argv', entered[1])
                              /\ Len(argv') \in 0..MaxCmdArg
                              /\ \A j \in 1..Len(argv') : Len(argv'[j]) < MaxArgLen
    BY <1>1, <1>2, TranslateIs
  <1>4. find_cmd(argv'[1]) \in Commands \cup {NoCommand}
    BY DEF find_cmd
  <1>5. ran' \in [cmd : Commands \cup {NoCommand}, argc : 0..MaxCmdArg]
    BY <1>1, <1>3, <1>4 DEF RunInv
  <1>6. EnteredInv'
    BY <1>1 DEF RunInv, EnteredInv
  <1>7. RunsWhatWasEntered'
    <2> SUFFICES ASSUME argv' # <<>>, argv' # TooLong
                 PROVE  /\ AreLeadingFields(argv', entered'[1])
                        /\ Len(argv') <= MaxCmdArg
                        /\ \A k \in 1..Len(argv') : Len(argv'[k]) < MaxArgLen
                        /\ ran' = [cmd |-> find_cmd(argv'[1]), argc |-> Len(argv')]
      BY DEF RunsWhatWasEntered
    <2>1. ran' = [cmd |-> find_cmd(argv'[1]), argc |-> Len(argv')]
      BY <1>1
    <2>2. Len(argv') <= MaxCmdArg
      BY <1>3, SizesAssumption
    <2>3. entered' = entered
      BY <1>1
    <2>. QED BY <1>3, <2>1, <2>2, <2>3
  <1>. QED BY <1>1, <1>3, <1>5, <1>6, <1>7 DEF RunInv

LEMMA RunStep ==
    ASSUME EditInv, RingHoldsEntered, RunInv, [Next]_vars
    PROVE  RunInv'
  <1>1. LineInv /\ EnteredInv
    BY DEF EditInv, RunInv
  <1>2. EnteredInv' /\ esc_sequence' \in {0, 1} /\ spec_key' \in {0, 1}
    BY <1>1, RingStep, FlagsStay DEF RunInv
  <1>3. CASE cur_max < MaxCmdLen /\ Does /\ at # "dispatch"
    <2>1. CASE Inserts \/ Backspaces \/ Deletes \/ Moves \/ GivesUp \/ Browses
      <3>1. UNCHANGED dispVars /\ at' # "dispatch"
        BY <2>1 DEF Inserts, Backspaces, Deletes, Moves, GivesUp, Browses, Stays
      <3>. QED BY <1>2, <1>3, <3>1 DEF RunInv, RunsWhatWasEntered, dispVars
    <2>2. CASE Enters
      <3>1. /\ cur_max \in Nat /\ cur_max \in 0..cur_max /\ Line \in Seq(Char) /\ Len(Line) = cur_max
            /\ HstDep \in Nat /\ HstDep > 1
        BY <1>1, LineIs, Sizes DEF LineInv
      <3> DEFINE ended == [buf EXCEPT ![cur_max] = NUL]
                 n == IF Len(entered) + 1 < HstDep THEN Len(entered) + 1 ELSE HstDep - 1
      <3>2. CString(ended) = SubSeq(Line, 1, cur_max) /\ SubSeq(Line, 1, cur_max) = Line
        <4>1. CString(ended) = SubSeq(Line, 1, cur_max)
          <5> HIDE DEF LineInv
          <5>. QED BY <1>1, <1>3, <3>1, EndedIs
        <4>2. SubSeq(Line, 1, cur_max) = Line
          BY <3>1
        <4>. QED BY <4>1, <4>2
      <3>3. /\ buf' = ended /\ at' = "dispatch" /\ argv' = argv /\ ran' = ran
            /\ entered' = SubSeq(<<CString(ended)>> \o entered, 1, n)
        BY <2>2 DEF Enters, EndOfLine
      <3> HIDE DEF ended
      <3>4. entered' # <<>> /\ entered'[1] = Line
        <4> DEFINE all == <<Line>> \o entered
        <4>1. <<Line>> \in Seq(Seq(Char)) /\ Len(<<Line>>) = 1 /\ <<Line>>[1] = Line
          BY <3>1
        <4>2. entered \in Seq(Seq(Char)) /\ Len(entered) \in Nat
          BY <1>1, LenProperties DEF EnteredInv
        <4>3. all \in Seq(Seq(Char)) /\ Len(all) = Len(entered) + 1 /\ all[1] = Line
          BY <4>1, <4>2, ConcatProperties
        <4>4. n \in Nat /\ n >= 1 /\ n <= Len(entered) + 1
          BY <3>1, <4>2
        <4> HIDE DEF all, n
        <4>5. Len(SubSeq(all, 1, n)) = n /\ SubSeq(all, 1, n)[1] = all[1]
          BY <4>2, <4>3, <4>4
        <4>6. entered' = SubSeq(all, 1, n)
          BY <3>2, <3>3 DEF all
        <4>7. SubSeq(all, 1, n) # <<>>
          <5>1. Len(<<>>) = 0
            OBVIOUS
          <5>2. SubSeq(all, 1, n) = <<>> => Len(SubSeq(all, 1, n)) = 0
            BY <5>1
          <5>. QED BY <4>4, <4>5, <5>2
        <4>. QED BY <4>3, <4>5, <4>6, <4>7
      <3>. QED BY <1>2, <3>2, <3>3, <3>4 DEF RunInv, RunsWhatWasEntered
    <2>. QED BY <1>3, <2>1, <2>2 DEF Does
  <1>4. CASE Dispatch
    BY <1>4, DispatchRuns
  <1>5. CASE UNCHANGED vars
    BY <1>5 DEF RunInv, EnteredInv, RunsWhatWasEntered, vars, dispVars, lineVars
  <1>. QED BY <1>1, <1>3, <1>4, <1>5, NextDoes, DispatchFollows

LEMMA RunInitially == Init => RunInv /\ RingHoldsEntered
  <1> SUFFICES ASSUME Init
               PROVE  RunInv /\ RingHoldsEntered
    OBVIOUS
  <1>1. EnteredInv /\ RingHoldsEntered
    BY Sizes DEF Init, EnteredInv, RingHoldsEntered
  <1>2. /\ argv = <<>> /\ <<>> \in Seq(Seq(Char)) /\ at # "dispatch"
        /\ esc_sequence = 0 /\ spec_key = 0
    BY EmptySeq DEF Init
  <1>3. ran \in [cmd : Commands \cup {NoCommand}, argc : 0..MaxCmdArg]
    <2>1. 0 \in 0..MaxCmdArg
      BY SizesAssumption
    <2>. QED BY <2>1 DEF Init
  <1>4. RunsWhatWasEntered
    BY <1>2 DEF RunsWhatWasEntered
  <1>. QED BY <1>1, <1>2, <1>3, <1>4 DEF RunInv

THEOREM RunInvCorrect == Spec => [](RunInv /\ RingHoldsEntered)
  <1>1. EditInv /\ RunInv /\ RingHoldsEntered /\ [Next]_vars => RunInv' /\ RingHoldsEntered'
    <2> SUFFICES ASSUME EditInv, RunInv, RingHoldsEntered, [Next]_vars
                 PROVE  RunInv' /\ RingHoldsEntered'
      OBVIOUS
    <2>1. EnteredInv
      BY DEF RunInv
    <2>2. RingHoldsEntered'
      BY <2>1, RingStep
    <2>. QED BY <2>2, RunStep
  <1>. QED BY <1>1, RunInitially, EditInvCorrect, PTL DEF Spec

\* Whatever was typed, edited and recalled before: the arguments a command gets are the leading
\* fields of the line entered last, whole and in order, none too long for its row; and the
\* command that runs is the first of them (TranslateMessage, DispatchMessage).
THEOREM RunsWhatWasEnteredCorrect == Spec => []RunsWhatWasEntered
  <1>1. RunInv => RunsWhatWasEntered
    BY DEF RunInv
  <1>. QED BY <1>1, RunInvCorrect, PTL

\* The console's variables keep their types, the line its buffer.
THEOREM TypeCorrect == Spec => []TypeOK
  <1>1. EditInv /\ RunInv => TypeOK
    BY DEF EditInv, RunInv, LineInv, RingInv, EnteredInv, TypeOK, Memory, Slots
  <1>. QED BY <1>1, EditInvCorrect, RunInvCorrect, PTL

-----------------------------------------------------------------------------
\* The refinement.

Kept == {vpchCmdStack[i] : i \in 0..(HstDep - 1)}

LEMMA EditorInitially == Init => Editor!Init
  <1> SUFFICES ASSUME Init
               PROVE  Editor!Init
    OBVIOUS
  <1>1. Line = <<>>
    BY DEF Init, Line
  <1>2. Kept = {<<>>}
    BY Sizes DEF Init, Kept
  <1> QED
    BY <1>1, <1>2 DEF Init, Editor!Init, Kept

LEMMA EditorStep == EditInv /\ [Next]_vars => [Editor!Next]_<<Line, cur_pos, Kept>>
  <1> SUFFICES ASSUME EditInv, [Next]_vars
               PROVE  Editor!Next \/ UNCHANGED <<Line, cur_pos, Kept>>
    OBVIOUS
  <1>0. /\ LineInv /\ RingInv /\ iCmdHstSP \in Slots /\ vpchCmdStack \in [Slots -> Seq(Char)]
    BY DEF EditInv, RingInv
  <1>1. UNCHANGED vpchCmdStack => Kept' = Kept
    BY DEF Kept
  <1>2. \A w : vpchCmdStack' = [vpchCmdStack EXCEPT ![iCmdHstSP] = w]
                  => Kept' \subseteq Kept \cup {w} /\ w \in Kept'
    BY <1>0 DEF Kept, Slots
  <1>3. CASE cur_max < MaxCmdLen /\ Does
    <2>1. CASE Inserts
      <3>1. PICK c \in Char : Line' = InsertAt(Line, cur_pos + 1, c)
        BY <1>0, <1>3, <2>1, InsertsMakes
      <3>2. cur_pos' = cur_pos + 1 /\ Kept' = Kept
        BY <1>0, <1>1, <1>3, <2>1, InsertsMakes DEF Stays, ringVars
      <3> QED
        BY <3>1, <3>2 
        DEF Editor!Next, Editor!Edit, Editor!Type, Editor!InsertAt, InsertAt, Kept
    <2>2. CASE Backspaces
      BY <1>0, <1>1, <2>2, BackspacesMakes
      DEF Stays, ringVars, Editor!Next, Editor!Edit, Editor!Backspace, Editor!RemoveAt, RemoveAt,
          Kept
    <2>3. CASE Deletes
      BY <1>0, <1>1, <2>3, DeletesMakes
      DEF Stays, ringVars, Editor!Next, Editor!Edit, Editor!Delete, Editor!RemoveAt, RemoveAt, Kept
    <2>4. CASE Moves
      BY <1>0, <1>1, <1>3, <2>4, MovesMakes
      DEF Stays, ringVars, Editor!Next, Editor!Edit, Editor!Move, Kept
    <2>5. CASE GivesUp
      BY <1>0, <1>1, <2>5, GivesUpMakes
      DEF Stays, ringVars, Editor!Next, Editor!Edit, Editor!Clear, Kept
    <2>6. CASE Browses
      <3>1. RingInv'
        BY <1>3, <2>6, RecallsMakes DEF Browses, EditInv
      <3>2. \/ UNCHANGED <<lineVars, hst_pos, vpchCmdStack>>
            \/ Shown /\ Kept' \subseteq Kept \cup {SubSeq(Line, 1, cur_pos)}
        BY <1>1, <1>2, <1>3, <2>6, RecallsMakes DEF Browses
      <3>3. CASE UNCHANGED <<lineVars, hst_pos, vpchCmdStack>>
        BY <1>1, <3>3 DEF lineVars, Line
      <3>4. CASE Shown /\ Kept' \subseteq Kept \cup {SubSeq(Line, 1, cur_pos)}
        <4>1. Line' \in Kept'
          BY <3>1, <3>4 DEF Shown, Kept, RingInv, Slots
        <4> QED
          BY <3>4, <4>1 DEF Shown, Editor!Next, Editor!Recall, Kept
      <3> QED
        BY <3>2, <3>3, <3>4
    <2>7. CASE Enters
      <3>1. Line' = Line /\ cur_pos' = cur_pos /\ Kept' \subseteq Kept \cup {Line} /\ Line \in Kept'
        BY <1>2, <1>3, <2>7, EntersMakes
      <3> QED
        BY <3>1 DEF Editor!Next, Editor!Enter, Kept
    <2> QED
      BY <1>3, <2>1, <2>2, <2>3, <2>4, <2>5, <2>6, <2>7 DEF Does
  <1>4. CASE Dispatch
    BY <1>1, <1>4, DispatchMakes DEF ringVars, Editor!Next, Editor!Edit, Editor!Clear, Kept
  <1>5. CASE UNCHANGED vars
    BY <1>1, <1>5 DEF vars, lineVars, ringVars, Line
  <1> QED
    BY <1>0, <1>3, <1>4, <1>5, NextDoes

\* The buffer, its shifts and its stale bytes, with the ring and its drafts, implement a line
\* editor that recalls only lines it kept.
THEOREM Refinement == Spec => EditsALine
  <1>1. EditInv /\ [Next]_vars => [Editor!Next]_<<Line, cur_pos, Kept>>
    BY EditorStep
  <1> QED
    BY <1>1, EditorInitially, EditInvCorrect, PTL DEF Spec, EditsALine, Editor!Spec, Kept
=============================================================================
