------------------------------- MODULE Strings -------------------------------
(***************************************************************************)
(* The functions of src/src/lib/stdlib/string.c on a memory of a few       *)
(* bytes: each call takes the memory and its arguments to the memory and   *)
(* the value it leaves.  Calls are those C allows: strings have an end,    *)
(* what is written has room, and only memmove() is given ranges that       *)
(* overlap.  A pointer is an address, NULL is -1.                          *)
(***************************************************************************)
EXTENDS Integers, Sequences, SequencesExt, FiniteSetsExt

CONSTANTS MemSize, Chars

ASSUME StringsAssumption == MemSize \in Nat \ {0} /\ Chars \subseteq 1..255

VARIABLES before, mem, call, ret

strVars == <<before, mem, call, ret>>

Address == 0..MemSize - 1
NULL == -1
NoCall == [op |-> "none", d |-> 0, s |-> 0, n |-> 0]

StrInit ==
    /\ mem \in [Address -> Chars \cup {0}] /\ before = mem
    /\ call = NoCall /\ ret = NULL

-----------------------------------------------------------------------------
\* What lies in memory.
Ended(p) == \E a \in p..MemSize - 1 : mem[a] = 0
strlen(m, p) == Min({a \in p..MemSize - 1 : m[a] = 0}) - p
Bytes(m, p, n) == [i \in 1..n |-> m[p + i - 1]]
Text(m, p) == Bytes(m, p, strlen(m, p))
Lesser(a, b) == IF a < b THEN a ELSE b

\* A loop that copies byte by byte, from the first on or from the last back.
CopyByte(d, s, m, k) == [m EXCEPT ![d + k] = m[s + k]]
CopyBy(order, d, s, m0) == FoldLeft(LAMBDA m, k : CopyByte(d, s, m, k), m0, order)
Up(n) == [i \in 1..n |-> i - 1]
Down(n) == [i \in 1..n |-> n - i]

memcpy(d, s, n) == CopyBy(Up(n), d, s, mem)
\* Mutant: the order does not depend on which range comes first.
memmoveUp(d, s, n) == memcpy(d, s, n)
memmove(d, s, n) == IF d < s THEN memcpy(d, s, n) ELSE CopyBy(Down(n), d, s, mem)

EndAt(m, a) == [m EXCEPT ![a] = 0]
strcpy(d, s) == EndAt(memcpy(d, s, strlen(mem, s)), d + strlen(mem, s))
strcat(d, s) == strcpy(d + strlen(mem, d), s)
strncat(d, s, n) ==
    LET k == Lesser(n, strlen(mem, s))  end == d + strlen(mem, d)
    IN EndAt(memcpy(end, s, k), end + k)

\* n is left at 0 only by a string of exactly n characters: one that is longer takes it
\* below 0, which is not 0 either, and is ended behind the n characters.
strncpy(d, s, n) ==
    LET k == Lesser(n, strlen(mem, s))  m == memcpy(d, s, k)
    IN IF strlen(mem, s) = n THEN m ELSE EndAt(m, d + k)

strnlen(p, n) == Lesser(n, strlen(mem, p))

\* The first place, of n at most, where two memories differ; n when there is none.
Differ(p, q, n) == Min({k \in 0..n - 1 : mem[p + k] # mem[q + k]} \cup {n})
memcmp(p, q, n) == LET k == Differ(p, q, n) IN IF k = n THEN 0 ELSE mem[p + k] - mem[q + k]

\* The comparison of strings goes no further than the end of the shorter.
Shorter(p, q) == Lesser(strlen(mem, p), strlen(mem, q)) + 1
strncmp(p, q, n) == memcmp(p, q, Lesser(n, Shorter(p, q)))
Sign(x) == IF x < 0 THEN -1 ELSE IF x > 0 THEN 1 ELSE 0
strcmp(p, q) == Sign(memcmp(p, q, Shorter(p, q)))

strchr(p, c) ==
    LET found == {a \in p..p + strlen(mem, p) : mem[a] = c}
    IN IF found = {} THEN NULL ELSE Min(found)

\* The search starts before the end of the string, and does not find it.
strrchr(p, c) ==
    LET found == {a \in p..p + strlen(mem, p) - 1 : mem[a] = c}
    IN IF found = {} THEN NULL ELSE Max(found)

-----------------------------------------------------------------------------
Room(d, n) == d + n <= MemSize
Apart(d, n, s, k) == d + n <= s \/ s + k <= d

Calls(op, d, s, n) ==
    /\ call' = [op |-> op, d |-> d, s |-> s, n |-> n]
    /\ before' = mem
Changes(op, d, s, n, m) == Calls(op, d, s, n) /\ mem' = m /\ ret' = d
Tells(op, d, s, n, value) == Calls(op, d, s, n) /\ ret' = value /\ UNCHANGED mem

Strcpy(d, s) ==
    /\ Ended(s) /\ Room(d, strlen(mem, s) + 1)
    /\ Apart(d, strlen(mem, s) + 1, s, strlen(mem, s) + 1)
    /\ Changes("strcpy", d, s, 0, strcpy(d, s))
Strncpy(d, s, n) ==
    /\ Ended(s) /\ Room(d, n + 1) /\ Apart(d, n + 1, s, strlen(mem, s) + 1)
    /\ Changes("strncpy", d, s, n, strncpy(d, s, n))
Strcat(d, s) ==
    /\ Ended(s) /\ Ended(d)
    /\ LET n == strlen(mem, d) + strlen(mem, s) + 1
       IN Room(d, n) /\ Apart(d, n, s, strlen(mem, s) + 1)
    /\ Changes("strcat", d, s, 0, strcat(d, s))
Strncat(d, s, n) ==
    /\ Ended(s) /\ Ended(d)
    /\ LET k == strlen(mem, d) + n + 1
       IN Room(d, k) /\ Apart(d, k, s, strlen(mem, s) + 1)
    /\ Changes("strncat", d, s, n, strncat(d, s, n))
Memmove(d, s, n) ==
    /\ Room(d, n) /\ Room(s, n)
    /\ Changes("memmove", d, s, n, memmove(d, s, n))

Memcmp(d, s, n) ==
    Room(d, n) /\ Room(s, n) /\ Tells("memcmp", d, s, n, memcmp(d, s, n))
Strcmp(d, s) == Ended(d) /\ Ended(s) /\ Tells("strcmp", d, s, 0, strcmp(d, s))
Strncmp(d, s, n) == Ended(d) /\ Ended(s) /\ Tells("strncmp", d, s, n, strncmp(d, s, n))
Strnlen(d, n) == Ended(d) /\ Tells("strnlen", d, 0, n, strnlen(d, n))
Strchr(d, c) == Ended(d) /\ Tells("strchr", d, 0, c, strchr(d, c))
Strrchr(d, c) == Ended(d) /\ Tells("strrchr", d, 0, c, strrchr(d, c))

StrNext == call = NoCall /\ \E d, s \in Address :
    \/ Strcpy(d, s) \/ Strcat(d, s) \/ Strcmp(d, s)
    \/ \E n \in 0..MemSize :
         \/ Strncpy(d, s, n) \/ Strncat(d, s, n) \/ Memmove(d, s, n)
         \/ Memcmp(d, s, n) \/ Strncmp(d, s, n) \/ Strnlen(d, n)
    \/ \E c \in Chars : Strchr(d, c) \/ Strrchr(d, c)

-----------------------------------------------------------------------------
\* What each function is for, in terms of the texts and bytes before the call.
Cut(t, n) == SubSeq(t, 1, Lesser(n, Len(t)))
Kept(from, to) == \A a \in Address \ (from..to) : mem[a] = before[a]
Precedes(t, u) == \E k \in 0..Len(t) :
    /\ k < Len(u) /\ \A i \in 1..k : t[i] = u[i]
    /\ k = Len(t) \/ t[k + 1] < u[k + 1]
Order(t, u) == IF t = u THEN 0 ELSE IF Precedes(t, u) THEN -1 ELSE 1

\* The functions of string.c do what the C library's do, with what they write confined to
\* their destination, and with three differences: strncpy() does not fill up with zeros,
\* and ends a text it cuts, one byte behind its n; strrchr() does not find the end.
StringsAgree ==
    LET d == call.d  s == call.s  n == call.n  m == before
        dText == Text(m, d)  sText == Text(m, s)
    IN CASE call.op = "none" -> TRUE
         [] call.op = "strcpy" -> Text(mem, d) = sText /\ Kept(d, d + Len(sText))
         [] call.op = "strcat" ->
              Text(mem, d) = dText \o sText /\ Kept(d, d + Len(dText) + Len(sText))
         [] call.op = "strncat" ->
              Text(mem, d) = dText \o Cut(sText, n) /\ Kept(d, d + Len(dText) + n)
         [] call.op = "strncpy" ->
              /\ Bytes(mem, d, Lesser(n, Len(sText))) = Cut(sText, n) /\ Kept(d, d + n)
              /\ Len(sText) # n => Text(mem, d) = Cut(sText, n)
              /\ Len(sText) = n => mem[d + n] = m[d + n]
         [] call.op = "memmove" -> Bytes(mem, d, n) = Bytes(m, s, n) /\ Kept(d, d + n - 1)
         [] call.op = "memcmp" -> Sign(ret) = Order(Bytes(m, d, n), Bytes(m, s, n))
         [] call.op = "strcmp" -> ret = Order(dText, sText)
         [] call.op = "strncmp" -> Sign(ret) = Order(Cut(dText, n), Cut(sText, n))
         [] call.op = "strnlen" -> ret = Len(Cut(dText, n))
         [] call.op = "strchr" ->
              IF Contains(dText, n) THEN /\ ret \in d..d + Len(dText) - 1 /\ m[ret] = n
                                         /\ \A a \in d..ret - 1 : m[a] # n
              ELSE ret = NULL
         [] call.op = "strrchr" ->
              IF Contains(dText, n) THEN /\ ret \in d..d + Len(dText) - 1 /\ m[ret] = n
                                         /\ \A a \in ret + 1..d + Len(dText) - 1 : m[a] # n
              ELSE ret = NULL
=============================================================================
