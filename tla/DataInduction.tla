---------------------------- MODULE DataInduction ----------------------------
(***************************************************************************)
(* Induction over data, for the proofs about what a fold or a recursive    *)
(* function of the model computes.  The induction theorems of the library  *)
(* are about operators, which the provers cannot instantiate; here are     *)
(* their counterparts about sets and functions: a predicate is the set of  *)
(* the numbers it holds of, and a recursion is a function for each step.   *)
(***************************************************************************)
EXTENDS Integers, Sequences, FiniteSetsExt, WellFoundedInduction, TLAPS

-----------------------------------------------------------------------------
\* Induction.

Below == {p \in Nat \X Nat : p[1] < p[2]}

\* No sequence of natural numbers goes down for ever.
LEMMA BelowWellFounded == IsWellFoundedOn(Below, Nat)
  <1>1. Below = OpToRel(<, Nat)
    BY Zenon DEF Below, OpToRel
  <1>. QED BY <1>1, NatLessThanWellFounded, Zenon

\* A set of natural numbers has a least one.
LEMMA Least ==
    ASSUME NEW T, T \subseteq Nat, T # {}
    PROVE  \E m \in T : \A j \in T : m <= j
  <1>1. PICK m \in T : \A j \in T : ~(<<j, m>> \in Below)
    BY WFMin, BelowWellFounded
  <1>2. ASSUME NEW j \in T PROVE m <= j
    <2>1. <<j, m>> \in Nat \X Nat /\ <<j, m>>[1] = j /\ <<j, m>>[2] = m
      OBVIOUS
    <2>2. ~(j < m)
      BY <1>1, <2>1 DEF Below
    <2>. QED BY <2>2
  <1>. QED BY <1>2

\* The numbers up to n, one after the other.
LEMMA UpTo ==
    ASSUME NEW n \in Nat, NEW T, 0 \in T, \A k \in 1..n : k - 1 \in T => k \in T
    PROVE  \A k \in 0..n : k \in T
  <1> SUFFICES ASSUME NEW k \in 0..n, k \notin T PROVE FALSE
    OBVIOUS
  <1> DEFINE B == {j \in 0..n : j \notin T}
  <1>1. B \subseteq Nat /\ B # {}
    OBVIOUS
  <1>2. PICK m \in B : \A j \in B : m <= j
    <2> HIDE DEF B
    <2>. QED BY <1>1, Least
  <1>3. m \in 1..n /\ m - 1 \notin B /\ m - 1 \in 0..n
    BY <1>2
  <1>. QED BY <1>2, <1>3

\* All natural numbers, one after the other.
LEMMA AllNat ==
    ASSUME NEW T, 0 \in T, \A k \in Nat \ {0} : k - 1 \in T => k \in T
    PROVE  \A k \in Nat : k \in T
  <1> TAKE k \in Nat
  <1>1. \A j \in 1..k : j - 1 \in T => j \in T
    OBVIOUS
  <1>2. \A j \in 0..k : j \in T
    BY <1>1, UpTo
  <1>. QED BY <1>2

\* A bounded set of numbers has a greatest one, Max.
LEMMA Greatest ==
    ASSUME NEW n \in Nat, NEW s \in SUBSET (0..n), s # {}
    PROVE  Max(s) \in s /\ \A j \in s : j <= Max(s)
  <1> DEFINE T == {j \in 0..n : n - j \in s}
  <1>1. T \subseteq Nat /\ T # {}
    <2>1. PICK x \in s : x \in 0..n
      OBVIOUS
    <2>2. n - x \in 0..n /\ n - (n - x) = x
      BY <2>1
    <2>. QED BY <2>1, <2>2
  <1>2. PICK m \in T : \A j \in T : m <= j
    <2> HIDE DEF T
    <2>. QED BY <1>1, Least
  <1>3. n - m \in s
    BY <1>2
  <1>4. ASSUME NEW j \in s PROVE n - m >= j
    <2>1. j \in 0..n /\ n - j \in 0..n /\ n - (n - j) = j
      OBVIOUS
    <2>2. n - j \in T
      BY <2>1
    <2>3. m <= n - j
      <3> HIDE DEF T
      <3>. QED BY <1>2, <2>2
    <2>4. m \in 0..n
      OBVIOUS
    <2>. QED BY <2>1, <2>3, <2>4
  <1>. QED BY <1>3, <1>4 DEF Max

\* A bounded set of numbers has a least one, Min.
LEMMA LeastIsMin ==
    ASSUME NEW s \in SUBSET Nat, s # {}
    PROVE  Min(s) \in s /\ \A j \in s : Min(s) <= j
  <1>1. PICK m \in s : \A j \in s : m <= j
    BY Least
  <1>. QED BY <1>1 DEF Min

-----------------------------------------------------------------------------
\* Recursion: n steps over a state in S, step k a function of the state before.

Steps(S, n) == [1..n -> [S -> S]]
Follows(g, n, base, step) == g[0] = base /\ \A k \in 1..n : g[k] = step[k][g[k - 1]]

\* The states passed through exist.
LEMMA Recursion ==
    ASSUME NEW S, NEW n \in Nat, NEW base \in S, NEW step \in Steps(S, n)
    PROVE  \E g \in [0..n -> S] : Follows(g, n, base, step)
  <1>0. step \in [1..n -> [S -> S]]
    BY DEF Steps
  <1> DEFINE P(k, g) == g[0] = base /\ \A j \in 1..k : g[j] = step[j][g[j - 1]]
             T == {k \in 0..n : \E g \in [0..n -> S] : P(k, g)}
  <1>1. 0 \in T
    <2> DEFINE z == [k \in 0..n |-> base]
    <2>1. z \in [0..n -> S] /\ z[0] = base /\ 0 \in 0..n
      OBVIOUS
    <2> HIDE DEF z
    <2>2. \A j \in 1..0 : z[j] = step[j][z[j - 1]]
      OBVIOUS
    <2>. QED BY <2>1, <2>2
  <1>2. ASSUME NEW k \in 1..n, k - 1 \in T PROVE k \in T
    <2>1. PICK g \in [0..n -> S] : P(k - 1, g)
      BY <1>2
    <2> DEFINE h == [g EXCEPT ![k] = step[k][g[k - 1]]]
    <2>2. g[k - 1] \in S /\ step[k][g[k - 1]] \in S
      BY <1>0
    <2>3. h \in [0..n -> S] /\ h[k] = step[k][g[k - 1]] /\ \A j \in 0..n : j # k => h[j] = g[j]
      BY <2>2
    <2> HIDE DEF h
    <2>4. ASSUME NEW j \in 1..k PROVE h[j] = step[j][h[j - 1]]
      <3>1. CASE j = k
        <4>1. h[k - 1] = g[k - 1]
          BY <2>3
        <4>. QED BY <2>3, <3>1, <4>1
      <3>2. CASE j # k
        <4>1. j \in 1..(k - 1) /\ j \in 0..n /\ j - 1 \in 0..n /\ j - 1 # k
          BY <3>2
        <4>. QED BY <2>1, <2>3, <3>2, <4>1
      <3>. QED BY <3>1, <3>2
    <2>5. h[0] = base
      BY <2>1, <2>3
    <2>. QED BY <2>3, <2>4, <2>5
  <1> HIDE DEF T
  <1>3. \A k \in 1..n : k - 1 \in T => k \in T
    BY <1>2
  <1>4. n \in T
    BY <1>1, <1>3, UpTo, n \in 0..n
  <1>. QED BY <1>4 DEF T, Follows

-----------------------------------------------------------------------------
\* Folds: MapThenFoldSet of the community modules, with Max for its choice, is
\* a function of the sets of positions.

IsFold(it, n, base, step) ==
    \A s \in SUBSET (1..n) :
        it[s] = IF s = {} THEN base ELSE step[Max(s)][it[s \ {Max(s)}]]

\* There is such a function.
LEMMA FoldExists ==
    ASSUME NEW S, NEW n \in Nat, NEW base \in S, NEW step \in Steps(S, n)
    PROVE  \E it \in [SUBSET (1..n) -> S] : IsFold(it, n, base, step)
  <1>0. step \in [1..n -> [S -> S]]
    BY DEF Steps
  <1> DEFINE G == [SUBSET (1..n) -> S]
             first == [s \in SUBSET (1..n) |-> base]
             after(k, F) == [s \in SUBSET (1..n) |->
                                IF s # {} /\ Max(s) = k THEN step[k][F[s \ {k}]] ELSE F[s]]
             moves == [k \in 1..n |-> [F \in G |-> after(k, F)]]
  <1>1. first \in G
    OBVIOUS
  <1>2. moves \in Steps(G, n)
    <2>1. ASSUME NEW k \in 1..n, NEW F \in G PROVE after(k, F) \in G
      BY <1>0
    <2>. QED BY <2>1 DEF Steps
  <1>3. PICK g \in [0..n -> G] : Follows(g, n, first, moves)
    <2> HIDE DEF G, first, moves
    <2>. QED BY <1>1, <1>2, Recursion
  <1>4. ASSUME NEW s \in SUBSET (1..n), s # {}
        PROVE  Max(s) \in s /\ Max(s) \in 1..n /\ \A j \in s : j <= Max(s)
    <2>1. s \in SUBSET (0..n)
      OBVIOUS
    <2>2. Max(s) \in s /\ \A j \in s : j <= Max(s)
      BY <1>4, <2>1, Greatest
    <2>. QED BY <2>2
  <1>5. ASSUME NEW k \in 1..n, NEW s \in SUBSET (1..n)
        PROVE  g[k][s] = IF s # {} /\ Max(s) = k THEN step[k][g[k - 1][s \ {k}]] ELSE g[k - 1][s]
    <2>1. g[k] = moves[k][g[k - 1]] /\ g[k - 1] \in G
      <3> HIDE DEF moves, G
      <3>. QED BY <1>3 DEF Follows
    <2>. QED BY <2>1
  <1>6. \A s \in SUBSET (1..n) : g[0][s] = base
    BY <1>3 DEF Follows
  <1> HIDE DEF moves, first
  <1> DEFINE Right(k, s) ==
               g[k][s] = IF s = {} THEN base ELSE step[Max(s)][g[k][s \ {Max(s)}]]
             T == {k \in 0..n : \A s \in SUBSET (1..k) : Right(k, s)}
  <1>7. 0 \in T
    BY <1>6
  <1>8. ASSUME NEW k \in 1..n, k - 1 \in T PROVE k \in T
    <2> SUFFICES ASSUME NEW s \in SUBSET (1..k) PROVE Right(k, s)
      OBVIOUS
    <2>0. s \in SUBSET (1..n)
      OBVIOUS
    <2>1. CASE s = {}
      <3>1. s \in SUBSET (1..(k - 1))
        BY <2>1
      <3>2. g[k][s] = g[k - 1][s]
        BY <1>5, <2>0, <2>1
      <3>. QED BY <1>8, <2>1, <3>1, <3>2
    <2>2. CASE s # {} /\ Max(s) = k
      <3>1. s \ {k} \in SUBSET (1..n) /\ ~(s \ {k} # {} /\ Max(s \ {k}) = k)
        <4> DEFINE r == s \ {k}
        <4>1. r \in SUBSET (1..n) /\ k \notin r
          BY <2>0
        <4> HIDE DEF r
        <4>2. ~(r # {} /\ Max(r) = k)
          BY <1>4, <4>1
        <4>. QED BY <4>1, <4>2 DEF r
      <3>2. g[k][s \ {k}] = g[k - 1][s \ {k}]
        BY <1>5, <3>1
      <3>. QED BY <1>5, <2>0, <2>2, <3>2
    <2>3. CASE s # {} /\ Max(s) # k
      <3>1. k \notin s /\ s \in SUBSET (1..(k - 1))
        <4>1. Max(s) \in s /\ \A j \in s : j <= Max(s)
          BY <1>4, <2>0, <2>3
        <4>2. k \notin s
          <5>1. PICK x \in s : x = Max(s)
            BY <4>1
          <5>2. x \in 1..k /\ x # k
            BY <2>3, <5>1
          <5>. QED BY <4>1, <5>1, <5>2
        <4>3. \A j \in s : j \in 1..k /\ j # k
          BY <4>2
        <4>. QED BY <4>2, <4>3
      <3> DEFINE r == s \ {Max(s)}
      <3>2. r \in SUBSET (1..n) /\ ~(r # {} /\ Max(r) = k)
        <4>1. r \in SUBSET (1..n) /\ k \notin r
          BY <2>0, <3>1
        <4> HIDE DEF r
        <4>. QED BY <1>4, <4>1
      <3>3. g[k][r] = g[k - 1][r]
        BY <1>5, <3>2
      <3>4. g[k][s] = g[k - 1][s]
        BY <1>5, <2>0, <2>3
      <3>5. g[k - 1][s] = step[Max(s)][g[k - 1][r]]
        BY <1>8, <2>3, <3>1
      <3>. QED BY <2>3, <3>3, <3>4, <3>5
    <2>. QED BY <2>1, <2>2, <2>3
  <1>9. n \in T
    <2>1. \A k \in 1..n : k - 1 \in T => k \in T
      BY <1>8
    <2> HIDE DEF T
    <2>. QED BY <1>7, <2>1, UpTo, n \in 0..n
  <1>. QED BY <1>3, <1>9 DEF IsFold

\* The positions up to each one, which such a function is about in the end.
LEMMA Segment ==
    ASSUME NEW n \in Nat, NEW k \in 1..n
    PROVE  /\ 1..k \in SUBSET (1..n) /\ 1..k # {} /\ Max(1..k) = k
           /\ (1..k) \ {Max(1..k)} = 1..(k - 1) /\ 1..0 = {} /\ {} \in SUBSET (1..n)
  <1>1. 1..k \in SUBSET (0..n) /\ 1..k \in SUBSET (1..n) /\ 1..k # {} /\ n \in 0..n
    OBVIOUS
  <1>2. Max(1..k) \in 1..k /\ \A j \in 1..k : j <= Max(1..k)
    BY <1>1, Greatest
  <1>3. Max(1..k) = k
    BY <1>2
  <1>4. (1..k) \ {k} = 1..(k - 1)
    OBVIOUS
  <1>. QED BY <1>1, <1>3, <1>4

\* What such a function is of the first k elements, k up to n, follows step by step.
Partials(all, n) == [k \in 0..n |-> all[1..k]]

LEMMA FoldFollows ==
    ASSUME NEW S, NEW n \in Nat, NEW base \in S, NEW step \in Steps(S, n), NEW all,
           all[{}] = base,
           \A k \in 1..n : all[1..(k - 1)] \in S => all[1..k] = step[k][all[1..(k - 1)]]
    PROVE  /\ Partials(all, n) \in [0..n -> S]
           /\ Follows(Partials(all, n), n, base, step)
           /\ all[1..n] = Partials(all, n)[n]
  <1> DEFINE g == Partials(all, n)
             T == {k \in 0..n : g[k] \in S}
  <1>1. g[0] = base
    <2>1. 1..0 = {} /\ 0 \in 0..n
      OBVIOUS
    <2>. QED BY <2>1 DEF Partials
  <1>2. ASSUME NEW k \in 1..n, g[k - 1] \in S PROVE g[k] = step[k][g[k - 1]]
    <2>1. k \in 0..n /\ k - 1 \in 0..n
      OBVIOUS
    <2>. QED BY <1>2, <2>1 DEF Partials
  <1>3. DOMAIN g = 0..n /\ n \in 0..n /\ g = [k \in 0..n |-> g[k]] /\ all[1..n] = g[n]
    BY DEF Partials
  <1> HIDE DEF g
  <1>4. \A k \in 0..n : k \in T
    <2>1. 0 \in T
      BY <1>1
    <2>2. \A k \in 1..n : k - 1 \in T => k \in T
      BY <1>2 DEF Steps
    <2> HIDE DEF T
    <2>. QED BY <2>1, <2>2, UpTo
  <1>5. \A k \in 0..n : g[k] \in S
    BY <1>4
  <1>6. g \in [0..n -> S]
    BY <1>3, <1>5
  <1>7. \A k \in 1..n : g[k] = step[k][g[k - 1]]
    BY <1>2, <1>5
  <1>. QED BY <1>1, <1>3, <1>6, <1>7 DEF Follows, g
=============================================================================
