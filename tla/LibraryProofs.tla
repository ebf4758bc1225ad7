---------------------------- MODULE LibraryProofs ----------------------------
(***************************************************************************)
(* Proofs about the parts that MCLibrary puts side by side, for every      *)
(* value of their constants.  Each theorem is about one of the parts.      *)
(***************************************************************************)
EXTENDS MCLibrary, DataInduction, SequenceTheorems, FiniteSetTheorems

-----------------------------------------------------------------------------
(***************************************************************************)
(* gpio.c: the banks' clocks.  The banks turned on are in use, and those   *)
(* in use are turned on or were taken for it; of the clocks turned on only *)
(* the one that is waited for does not run yet.                            *)
(***************************************************************************)
GpioInv ==
    /\ gpio_bank_state \in [Banks -> SUBSET PinsOfBank]
    /\ \A b \in Banks :
          /\ b \in gated => gpio_bank_state[b] # {}
          /\ gpio_bank_state[b] # {} => b \in mistaken \/ b \in gated
          /\ b \in gated => b \in running \/ b = switching

LEMMA GpioInitially == PinsInit => GpioInv
  BY DEF PinsInit, GpioInv

LEMMA GpioStep ==
    ASSUME GpioInv, [GpioNext]_gpioVars
    PROVE  GpioInv'
  <1>1. ASSUME NEW p \in Pin, gpio_request(p) PROVE GpioInv'
    <2>1. p[1] \in Banks /\ p[2] \in PinsOfBank
      BY DEF Pin
    <2>2. gpio_bank_state' = [gpio_bank_state EXCEPT ![p[1]] = @ \cup {p[2]}] /\ Idle
      BY <1>1 DEF gpio_request
    <2>3. CASE gpio_bank_state[p[1]] = {} /\ p[1] \notin running
      BY <1>1, <2>1, <2>2, <2>3, PinsAssumption DEF gpio_request, clock_on, GpioInv, Idle
    <2>4. CASE gpio_bank_state[p[1]] = {} /\ p[1] \in running
      BY <1>1, <2>1, <2>2, <2>4 DEF gpio_request, clock_on, GpioInv
    <2>5. CASE gpio_bank_state[p[1]] # {}
      BY <1>1, <2>1, <2>2, <2>5 DEF gpio_request, NoSwitch, GpioInv
    <2>. QED BY <2>3, <2>4, <2>5
  <1>2. ASSUME NEW p \in Pin, gpio_free(p) PROVE GpioInv'
    <2>1. p[1] \in Banks /\ p[2] \in PinsOfBank
      BY DEF Pin
    <2>. QED BY <1>2, <2>1 DEF gpio_free, clock_off, NoSwitch, GpioInv
  <1>3. ASSUME NEW b \in Banks, ClockStarts(b) \/ ClockStops(b) PROVE GpioInv'
    BY <1>3 DEF ClockStarts, ClockStops, GpioInv
  <1>4. CASE ClockSeen
    BY <1>4 DEF ClockSeen, GpioInv
  <1>5. CASE UNCHANGED gpioVars
    BY <1>5 DEF gpioVars, GpioInv
  <1>. QED BY <1>1, <1>2, <1>3, <1>4, <1>5 DEF GpioNext

LEMMA GpioGood == GpioInv => BanksAreClocked
  BY PinsAssumption DEF GpioInv, BanksAreClocked, Idle

-----------------------------------------------------------------------------
(***************************************************************************)
(* head.S: the copy goes on block by block, and what it reads it has not   *)
(* written; what it leaves behind the image is cleared.                    *)
(***************************************************************************)

\* The blocks that are copied, the last one included, are no more than the image's.
LEMMA Blocks ==
    ASSUME NEW B \in Nat \ {0}, NEW I \in Nat \ {0}, NEW k \in Nat, B * k < I
    PROVE  /\ B * k + B \in Nat /\ B * (k + 1) = B * k + B
           /\ B * k + B <= B * ((I + B - 1) \div B)
           /\ B * ((I + B - 1) \div B) < I + B
  <1> DEFINE q == (I + B - 1) \div B
             m == (I + B - 1) % B
  <1>1. I + B - 1 \in Nat
    OBVIOUS
  <1>2. q \in Nat /\ m \in 0..B - 1 /\ I + B - 1 = B * q + m
    BY <1>1
  <1> HIDE DEF q, m
  <1>3. B * q \in Nat /\ B * q < I + B /\ B * q >= I /\ B * k \in Nat
    BY <1>2
  <1>4. k < q
    <2> SUFFICES ASSUME ~(k < q) PROVE FALSE
      OBVIOUS
    <2>1. PICK d \in Nat : k = q + d
      <3>1. k - q \in Nat /\ k = q + (k - q)
        BY <1>2
      <3>. QED BY <3>1
    <2>2. B * k = B * q + B * d /\ B * d \in Nat
      BY <1>2, <2>1
    <2>. QED BY <1>3, <2>2
  <1>5. PICK e \in Nat : q = k + 1 + e
    <2>1. q - k - 1 \in Nat /\ q = k + 1 + (q - k - 1)
      BY <1>2, <1>4
    <2>. QED BY <2>1
  <1>6. B * q = B * k + B + B * e /\ B * e \in Nat /\ B * (k + 1) = B * k + B
    BY <1>5
  <1>. QED BY <1>3, <1>6 DEF q

Loaded == loaded \in 1..RamSize - Rounded /\ (loaded = TextBase \/ NotOnTop(loaded))
Untouched(a) == ram[a] = Content(loaded, a)

\* What the program's place holds when n words have been copied to it.
Copied(n) ==
    \A a \in 1..RamSize :
        IF a \in TextBase..TextBase + n - 1
        THEN ram[a] = Content(TextBase, a) ELSE Untouched(a)

\* Between the image and what is behind bss, what is to be cleared holds anything.
Cleared(upto) ==
    \A a \in 1..RamSize :
        CASE a \in TextBase..bss_start - 1 -> ram[a] = a - TextBase + 1
          [] a \in bss_start..upto - 1 -> ram[a] = 0
          [] a \in upto..bss_end - 1 -> TRUE
          [] OTHER -> Untouched(a)

StartInv ==
    /\ Loaded /\ DOMAIN ram = 1..RamSize
    /\ running_at \in {"relocate", "copy_loop", "clear_bss", "main"}
    /\ running_at = "relocate" => \A a \in 1..RamSize : Untouched(a)
    /\ running_at = "copy_loop" =>
         /\ NotOnTop(loaded)
         /\ \E k \in Nat : /\ Block * k < Image /\ Copied(Block * k)
                           /\ r1 = loaded + Block * k /\ r2 = TextBase + Block * k
    /\ running_at = "clear_bss" => r1 \in bss_start..bss_end - 1 /\ Cleared(r1)
    /\ running_at = "main" => Cleared(bss_end)

LEMMA Sizes ==
    /\ TextBase \in Nat \ {0} /\ Image \in Nat \ {0} /\ Bss \in Nat \ {0} /\ Block \in Nat \ {0}
    /\ RamSize \in Nat /\ Bss >= Block /\ TextBase + Image + Bss <= RamSize
    /\ bss_start = TextBase + Image /\ bss_end = TextBase + Image + Bss
    /\ Rounded \in Nat /\ Rounded < Image + Block
  <1>1. Block \in Nat \ {0} /\ Image \in Nat \ {0} /\ Block * 0 < Image
    BY StartupAssumption
  <1>2. Block * ((Image + Block - 1) \div Block) \in Nat
    BY <1>1
  <1>3. Rounded < Image + Block
    BY <1>1, Blocks DEF Rounded
  <1>. QED BY <1>2, <1>3, StartupAssumption DEF bss_start, bss_end, Rounded

LEMMA StartInitially == StartInit => StartInv
  BY Sizes DEF StartInit, StartInv, Loaded, Untouched

LEMMA RelocateKeeps ==
    ASSUME StartInv, Relocate
    PROVE  StartInv'
  <1>1. DOMAIN ram = 1..RamSize /\ Loaded /\ \A a \in 1..RamSize : Untouched(a)
    BY DEF StartInv, Relocate
  <1>2. UNCHANGED <<ram, loaded>>
    BY DEF Relocate
  <1>3. CASE loaded = TextBase
    <2>1. r1' = bss_start /\ running_at' = "clear_bss"
      BY <1>3 DEF Relocate
    <2>2. Cleared(bss_start)
      BY <1>1, <1>3, Sizes DEF Cleared, Untouched, Content
    <2>3. bss_start \in bss_start..bss_end - 1
      BY Sizes
    <2>4. Cleared(r1)' /\ Loaded' /\ r1' \in bss_start..bss_end - 1
      BY <1>1, <1>2, <2>1, <2>2, <2>3 DEF Cleared, Untouched, Content, Loaded, NotOnTop, Rounded,
           bss_start, bss_end
    <2>. QED BY <1>1, <1>2, <2>1, <2>4 DEF StartInv, bss_start, bss_end
  <1>4. CASE loaded # TextBase
    <2>1. r1' = loaded /\ r2' = TextBase /\ running_at' = "copy_loop" /\ NotOnTop(loaded)
      BY <1>1, <1>4 DEF Relocate, Loaded
    <2>2. Block * 0 = 0 /\ 0 < Image
      BY Sizes
    <2>3. Copied(0)
      BY <1>1, Sizes DEF Copied
    <2>4. Copied(0)' /\ Loaded' /\ NotOnTop(loaded)'
      BY <1>1, <1>2, <2>1, <2>3 DEF Copied, Untouched, Content, Loaded, NotOnTop, Rounded
    <2>5. loaded' \in Int
      BY <2>4, Sizes DEF Loaded
    <2>6. /\ Block * 0 < Image /\ Copied(Block * 0)'
          /\ r1' = loaded' + Block * 0 /\ r2' = TextBase + Block * 0
      BY <1>2, <2>1, <2>2, <2>4, <2>5, Sizes
    <2>7. \E k \in Nat : /\ Block * k < Image /\ Copied(Block * k)'
                         /\ r1' = loaded' + Block * k /\ r2' = TextBase + Block * k
      BY <2>6
    <2>. QED BY <1>1, <1>2, <2>1, <2>4, <2>7 DEF StartInv
  <1>. QED BY <1>3, <1>4

\* A block: what is read is still what was loaded.
LEMMA CopyStep ==
    ASSUME Loaded, NotOnTop(loaded), DOMAIN ram = 1..RamSize, CopyLoop,
           NEW k \in Nat, Block * k < Image, Copied(Block * k),
           r1 = loaded + Block * k, r2 = TextBase + Block * k
    PROVE  Copied(Block * k + Block)'
  <1> DEFINE n == Block * k
  <1>1. n \in Nat /\ n < Image /\ n + Block <= Rounded
    <2>1. Block \in Nat \ {0} /\ Image \in Nat \ {0}
      BY Sizes
    <2>2. Block * k \in Nat
      BY <2>1
    <2>. QED BY <2>1, <2>2, Blocks DEF Rounded
  <1>2. r1 = loaded + n /\ r2 = TextBase + n /\ Copied(n)
    OBVIOUS
  <1> HIDE DEF n
  <1> SUFFICES Copied(n + Block)'
    BY DEF n
  <1>3. /\ loaded' = loaded
        /\ ram' = [a \in 1..RamSize |->
                     IF a \in r2..r2 + Block - 1 THEN ram[r1 + a - r2] ELSE ram[a]]
    BY DEF CopyLoop
  <1>4. loaded \in Nat /\ loaded >= 1 /\ loaded + Rounded <= RamSize
        /\ (loaded + Rounded <= TextBase \/ TextBase + Rounded <= loaded)
    BY Sizes DEF Loaded, NotOnTop
  <1>5. ASSUME NEW a \in 1..RamSize, a \in TextBase + n..TextBase + n + Block - 1
        PROVE  ram'[a] = Content(TextBase, a)
    <2>1. r1 + a - r2 = loaded + (a - TextBase) /\ a - TextBase \in Nat /\ a - TextBase < Rounded
      BY <1>1, <1>2, <1>4, <1>5, Sizes
    <2>2. r1 + a - r2 \in 1..RamSize /\ ~(r1 + a - r2 \in TextBase..TextBase + n - 1)
      BY <1>1, <1>4, <2>1, Sizes
    <2>3. ram[r1 + a - r2] = Content(loaded, r1 + a - r2)
      BY <1>2, <2>2 DEF Copied, Untouched
    <2>4. Content(loaded, loaded + (a - TextBase)) = Content(TextBase, a)
      BY <1>4, <2>1, Sizes DEF Content
    <2>5. a \in r2..r2 + Block - 1
      BY <1>2, <1>5
    <2>. QED BY <1>3, <2>1, <2>3, <2>4, <2>5
  <1>6. ASSUME NEW a \in 1..RamSize, ~(a \in TextBase + n..TextBase + n + Block - 1)
        PROVE  ram'[a] = ram[a]
    BY <1>2, <1>3, <1>6
  <1>7. ASSUME NEW a \in 1..RamSize
        PROVE  IF a \in TextBase..TextBase + (n + Block) - 1
               THEN ram'[a] = Content(TextBase, a) ELSE ram'[a] = Content(loaded', a)
    <2>1. CASE a \in TextBase + n..TextBase + n + Block - 1
      BY <1>1, <1>5, <2>1, Sizes
    <2>2. CASE a \in TextBase..TextBase + n - 1
      BY <1>1, <1>2, <1>6, <2>2, Sizes DEF Copied
    <2>3. CASE ~(a \in TextBase..TextBase + (n + Block) - 1)
      BY <1>1, <1>2, <1>3, <1>6, <2>3, Sizes DEF Copied, Untouched
    <2>. QED BY <1>1, <2>1, <2>2, <2>3, Sizes
  <1>. QED BY <1>7 DEF Copied, Untouched, Content

LEMMA CopyLoopKeeps ==
    ASSUME StartInv, CopyLoop
    PROVE  StartInv'
  <1>1. PICK k \in Nat : /\ Block * k < Image /\ Copied(Block * k)
                         /\ r1 = loaded + Block * k /\ r2 = TextBase + Block * k
    BY DEF StartInv, CopyLoop
  <1>2. Loaded /\ DOMAIN ram = 1..RamSize /\ NotOnTop(loaded)
    BY DEF StartInv, CopyLoop
  <1>3. Copied(Block * k + Block)'
    BY <1>1, <1>2, CopyStep
  <1>4. Block * k \in Nat /\ Block * (k + 1) = Block * k + Block /\ Block * k + Block <= Rounded
    <2>1. Block \in Nat \ {0} /\ Image \in Nat \ {0}
      BY Sizes
    <2>2. Block * k \in Nat
      BY <2>1
    <2>. QED BY <1>1, <2>1, <2>2, Blocks DEF Rounded
  <1>5. loaded' = loaded /\ DOMAIN ram' = 1..RamSize /\ r2' = TextBase + (Block * k + Block)
    BY <1>1, <1>2, <1>4, Sizes DEF CopyLoop
  <1>6. Loaded' /\ NotOnTop(loaded)'
    BY <1>2, <1>5 DEF Loaded, NotOnTop, Rounded
  <1>7. CASE r2' < bss_start
    <2>1. running_at' = "copy_loop" /\ r1' = loaded + (Block * k + Block)
      BY <1>1, <1>2, <1>4, <1>7, Sizes DEF CopyLoop, Loaded
    <2>2. Block * (k + 1) < Image
      BY <1>4, <1>5, <1>7, Sizes
    <2>3. k + 1 \in Nat /\ Copied(Block * (k + 1))' /\ r1' = loaded' + Block * (k + 1)
          /\ r2' = TextBase + Block * (k + 1)
      BY <1>3, <1>4, <1>5, <2>1
    <2>4. \E j \in Nat : /\ Block * j < Image /\ Copied(Block * j)'
                         /\ r1' = loaded' + Block * j /\ r2' = TextBase + Block * j
      BY <2>2, <2>3
    <2>. QED BY <1>5, <1>6, <2>1, <2>4 DEF StartInv
  <1>8. CASE ~(r2' < bss_start)
    <2>1. running_at' = "clear_bss" /\ r1' = bss_start
      BY <1>8 DEF CopyLoop
    <2>2. bss_start \in bss_start..bss_end - 1
      BY Sizes
    <2> DEFINE n == Block * k + Block
    <2>3. n \in Nat /\ n >= Image /\ n < Image + Block /\ Copied(n)'
      BY <1>3, <1>4, <1>5, <1>8, Sizes
    <2> HIDE DEF n
    <2>4. ASSUME NEW a \in 1..RamSize
          PROVE  CASE a \in TextBase..bss_start - 1 -> ram'[a] = a - TextBase + 1
                   [] a \in bss_start..bss_start - 1 -> ram'[a] = 0
                   [] a \in bss_start..bss_end - 1 -> TRUE
                   [] OTHER -> ram'[a] = Content(loaded', a)
      <3>1. IF a \in TextBase..TextBase + n - 1
            THEN ram'[a] = Content(TextBase, a) ELSE ram'[a] = Content(loaded', a)
        BY <2>3 DEF Copied, Untouched, Content
      <3>. QED BY <2>3, <3>1, Sizes DEF Content
    <2>5. Cleared(r1)'
      BY <2>1, <2>4 DEF Cleared, Untouched, Content, bss_start, bss_end
    <2>. QED BY <1>5, <1>6, <2>1, <2>2, <2>5 DEF StartInv, bss_start, bss_end
  <1>. QED BY <1>7, <1>8

LEMMA ClearBssKeeps ==
    ASSUME StartInv, ClearBss
    PROVE  StartInv'
  <1>1. /\ Loaded /\ DOMAIN ram = 1..RamSize
        /\ r1 \in bss_start..bss_end - 1 /\ Cleared(r1)
    BY DEF StartInv, ClearBss
  <1>2. loaded' = loaded /\ DOMAIN ram' = 1..RamSize /\ r1' = r1 + 1
    BY <1>1 DEF ClearBss
  <1>3. Loaded'
    BY <1>1, <1>2 DEF Loaded, NotOnTop, Rounded
  <1>4. ASSUME NEW a \in 1..RamSize
        PROVE  CASE a \in TextBase..bss_start - 1 -> ram'[a] = a - TextBase + 1
                 [] a \in bss_start..r1 -> ram'[a] = 0
                 [] a \in r1 + 1..bss_end - 1 -> TRUE
                 [] OTHER -> ram'[a] = Content(loaded', a)
    <2>1. r1 \in Nat /\ r1 >= bss_start /\ r1 < bss_end
      BY <1>1, Sizes
    <2>2. CASE a = r1
      BY <1>1, <2>1, <2>2, Sizes DEF ClearBss
    <2>3. CASE a # r1
      <3>1. ram'[a] = ram[a]
        BY <1>1, <2>3 DEF ClearBss
      <3>. QED BY <1>1, <1>2, <2>1, <2>3, <3>1, Sizes DEF Cleared, Untouched
    <2>. QED BY <2>2, <2>3
  <1>5. Cleared(r1)'
    <2>1. r1' - 1 = r1 /\ r1' = r1 + 1
      BY <1>1, <1>2, Sizes
    <2>. QED BY <1>2, <1>4, <2>1, Zenon DEF Cleared, Untouched, Content, bss_start, bss_end
  <1>6. CASE r1' = bss_end
    BY <1>2, <1>3, <1>5, <1>6 DEF ClearBss, StartInv, bss_end, bss_start, Cleared, Untouched
  <1>7. CASE r1' # bss_end
    <2>1. r1' \in bss_start..bss_end - 1
      BY <1>1, <1>2, <1>7, Sizes
    <2>. QED BY <1>2, <1>3, <1>5, <1>7, <2>1 DEF ClearBss, StartInv, bss_end, bss_start
  <1>. QED BY <1>6, <1>7

LEMMA StartStep ==
    ASSUME StartInv, [StartNext]_startVars
    PROVE  StartInv'
  <1>1. CASE UNCHANGED startVars
    BY <1>1 DEF startVars, StartInv, Loaded, NotOnTop, Rounded, Copied, Cleared, Untouched,
         Content, bss_start, bss_end
  <1>. QED BY <1>1, RelocateKeeps, CopyLoopKeeps, ClearBssKeeps DEF StartNext

LEMMA StartGood == StartInv => ImageIsInPlace
  <1> SUFFICES ASSUME StartInv, running_at = "main", NEW a \in 1..RamSize
      PROVE  ram[a] = CASE a \in TextBase..bss_start - 1 -> a - TextBase + 1
                        [] a \in bss_start..bss_end - 1 -> 0
                        [] OTHER -> Content(loaded, a)
    BY DEF StartInv, ImageIsInPlace
  <1>1. Cleared(bss_end)
    BY DEF StartInv
  <1>. QED BY <1>1, Sizes DEF Cleared, Untouched

-----------------------------------------------------------------------------
(***************************************************************************)
(* iomux.c: at any point of the list, the register that is kept and those  *)
(* that were written, taken together, hold what was listed so far.         *)
(***************************************************************************)
Field == (0..255) \X {4 * k : k \in 0..7}
MuxPins == [offset : 0..255, shift : {4 * k : k \in 0..7}, fn : 1..5]
FieldValues == UNION {[D -> 1..5] : D \in SUBSET Field}
MuxStates ==
    {s \in [regs : FieldValues, cached : 0..255, val : FieldValues, cnt : Nat] :
        s.cnt = 0 => s.cached = 255}

Together(s) == IF s.cnt > 0 THEN Over(s.val, s.regs) ELSE s.regs
Place(p) == <<p.offset, p.shift>>
One(p) == [f \in {Place(p)} |-> p.fn]
Valid(p) == p.offset \in MuxOffsets

LEMMA ValuesAre ==
    ASSUME NEW f
    PROVE  f \in FieldValues <=>
             /\ f = [x \in DOMAIN f |-> f[x]] /\ DOMAIN f \in SUBSET Field
             /\ \A x \in DOMAIN f : f[x] \in 1..5
  BY DEF FieldValues

\* One over the other.
LEMMA OverIs ==
    ASSUME NEW f \in FieldValues, NEW g \in FieldValues
    PROVE  /\ Over(f, g) \in FieldValues
           /\ DOMAIN Over(f, g) = DOMAIN f \cup DOMAIN g
           /\ \A x \in DOMAIN f \cup DOMAIN g : Over(f, g)[x] = IF x \in DOMAIN f THEN f[x] ELSE g[x]
  <1>1. /\ DOMAIN f \in SUBSET Field /\ \A x \in DOMAIN f : f[x] \in 1..5
        /\ DOMAIN g \in SUBSET Field /\ \A x \in DOMAIN g : g[x] \in 1..5
    BY ValuesAre
  <1> DEFINE h == Over(f, g)
  <1>2. h = [x \in DOMAIN f \cup DOMAIN g |-> IF x \in DOMAIN f THEN f[x] ELSE g[x]]
    BY DEF Over
  <1> HIDE DEF h
  <1>3. h \in FieldValues
    BY <1>1, <1>2, ValuesAre
  <1>. QED BY <1>2, <1>3 DEF h

LEMMA OneIs ==
    ASSUME NEW p \in MuxPins
    PROVE  /\ Place(p) \in Field /\ One(p) \in FieldValues
           /\ DOMAIN One(p) = {Place(p)} /\ One(p)[Place(p)] = p.fn
  <1>1. Place(p) \in Field /\ p.fn \in 1..5
    BY DEF Place, Field, MuxPins
  <1> DEFINE h == One(p)
  <1>2. h = [x \in {Place(p)} |-> p.fn]
    BY DEF One
  <1> HIDE DEF h
  <1>3. DOMAIN h = {Place(p)} /\ h[Place(p)] = p.fn
    BY <1>2
  <1>4. h \in FieldValues
    BY <1>1, <1>2, ValuesAre
  <1>. QED BY <1>1, <1>3, <1>4 DEF h

LEMMA FieldsAre ==
    ASSUME NEW f \in FieldValues, NEW offset
    PROVE  /\ Fields(f, offset) \in FieldValues /\ DOMAIN Fields(f, offset) \subseteq DOMAIN f
           /\ \A x \in DOMAIN Fields(f, offset) : Fields(f, offset)[x] = f[x]
  <1> DEFINE h == Fields(f, offset)
  <1>1. h = [x \in {y \in DOMAIN f : y[1] = offset} |-> f[x]]
    BY DEF Fields, Restrict
  <1> HIDE DEF h
  <1>2. DOMAIN f \in SUBSET Field /\ \A x \in DOMAIN f : f[x] \in 1..5
    BY ValuesAre
  <1>3. h \in FieldValues
    BY <1>1, <1>2, ValuesAre
  <1>. QED BY <1>1, <1>3 DEF h

\* A pin more.
LEMMA MuxPinIs ==
    ASSUME NEW s \in MuxStates, NEW p \in MuxPins
    PROVE  /\ MuxPin(s, p) \in MuxStates
           /\ ~Valid(p) => MuxPin(s, p) = s
           /\ Valid(p) =>
                /\ DOMAIN Together(MuxPin(s, p)) = DOMAIN Together(s) \cup {Place(p)}
                /\ Together(MuxPin(s, p))[Place(p)] = p.fn
                /\ \A x \in DOMAIN Together(s) :
                     x # Place(p) => Together(MuxPin(s, p))[x] = Together(s)[x]
  <1>1. CASE ~Valid(p)
    BY <1>1 DEF Valid, MuxPin
  <1>2. CASE Valid(p)
    <2>0. /\ s.regs \in FieldValues /\ s.val \in FieldValues /\ s.cnt \in Nat
          /\ p.offset \in 0..255 /\ p.offset # 255 /\ (s.cnt = 0 => s.cached = 255)
      BY <1>2 DEF MuxStates, MuxPins, Valid, MuxOffsets
    <2> DEFINE other == s.cached # p.offset
               written == IF other /\ s.cnt > 0 THEN Over(s.val, s.regs) ELSE s.regs
               val == IF other THEN Fields(written, p.offset) ELSE s.val
               cnt == IF other THEN 0 ELSE s.cnt
               one == One(p)
               t == MuxPin(s, p)
    <2>1. t = [regs |-> written, cached |-> p.offset, val |-> Over(one, val), cnt |-> cnt + 1]
      BY <1>2 DEF MuxPin, Valid, Place, One
    <2>2. one \in FieldValues /\ DOMAIN one = {Place(p)} /\ one[Place(p)] = p.fn
      BY OneIs
    <2>3. written \in FieldValues /\ cnt \in Nat
      <3>0. s.val \in FieldValues /\ s.regs \in FieldValues
        BY <2>0
      <3>1. Over(s.val, s.regs) \in FieldValues
        BY ONLY <3>0, OverIs, Zenon
      <3>. QED BY <2>0, <3>1
    <2>4. val \in FieldValues
      <3> HIDE DEF written
      <3>. QED BY <2>0, <2>3, FieldsAre
    <2>6. \* What is kept and what is written are what they were.
          /\ DOMAIN Over(val, written) = DOMAIN Together(s)
          /\ \A x \in DOMAIN Together(s) : Over(val, written)[x] = Together(s)[x]
      <3>1. CASE other
        <4>1. written = Together(s)
          BY <2>0, <3>1 DEF Together
        <4>2. val = Fields(written, p.offset)
          BY <3>1
        <4> HIDE DEF written, val
        <4>3. DOMAIN val \subseteq DOMAIN written /\ \A x \in DOMAIN val : val[x] = written[x]
          BY <2>3, <4>2, FieldsAre
        <4>4. /\ DOMAIN Over(val, written) = DOMAIN val \cup DOMAIN written
              /\ \A x \in DOMAIN val \cup DOMAIN written :
                   Over(val, written)[x] = IF x \in DOMAIN val THEN val[x] ELSE written[x]
          BY <2>3, <2>4, OverIs
        <4>. QED BY <4>1, <4>3, <4>4
      <3>2. CASE ~other
        <4>1. s.cnt > 0
          BY <2>0, <3>2
        <4>2. val = s.val /\ written = s.regs /\ Together(s) = Over(s.val, s.regs)
          BY <3>2, <4>1 DEF Together
        <4>. QED BY <4>2
      <3>. QED BY <3>1, <3>2
    <2> HIDE DEF written, val, cnt, one, other
    <2>7. Over(one, val) \in FieldValues
      BY <2>2, <2>4, OverIs
    <2>8. t \in MuxStates
      BY <2>0, <2>1, <2>3, <2>7 DEF MuxStates
    <2>9. Together(t) = Over(Over(one, val), written)
      BY <2>1, <2>3 DEF Together
    <2> HIDE DEF t
    <2>10. /\ DOMAIN Together(t) = {Place(p)} \cup DOMAIN val \cup DOMAIN written
           /\ \A x \in DOMAIN Together(t) :
                Together(t)[x] = IF x = Place(p) THEN p.fn
                                 ELSE IF x \in DOMAIN val THEN val[x] ELSE written[x]
      <3> DEFINE kept == Over(one, val)
      <3>0. /\ DOMAIN kept = DOMAIN one \cup DOMAIN val
            /\ \A x \in DOMAIN one \cup DOMAIN val :
                 kept[x] = IF x \in DOMAIN one THEN one[x] ELSE val[x]
        BY <2>2, <2>4, OverIs, Zenon
      <3>1. /\ DOMAIN kept = {Place(p)} \cup DOMAIN val
            /\ \A x \in DOMAIN kept : kept[x] = IF x = Place(p) THEN p.fn ELSE val[x]
        <4> HIDE DEF kept
        <4>. QED BY <2>2, <3>0
      <3>2. kept \in FieldValues
        BY <2>7
      <3> HIDE DEF kept
      <3>3. /\ DOMAIN Over(kept, written) = DOMAIN kept \cup DOMAIN written
            /\ \A x \in DOMAIN kept \cup DOMAIN written :
                 Over(kept, written)[x] = IF x \in DOMAIN kept THEN kept[x] ELSE written[x]
        BY <2>3, <3>2, OverIs
      <3>4. Together(t) = Over(kept, written)
        BY <2>9 DEF kept
      <3>. QED BY <3>1, <3>3, <3>4
    <2>11. /\ DOMAIN Over(val, written) = DOMAIN val \cup DOMAIN written
           /\ \A x \in DOMAIN val \cup DOMAIN written :
                Over(val, written)[x] = IF x \in DOMAIN val THEN val[x] ELSE written[x]
      BY <2>3, <2>4, OverIs
    <2>12. /\ DOMAIN Together(t) = DOMAIN Together(s) \cup {Place(p)}
           /\ Together(t)[Place(p)] = p.fn
           /\ \A x \in DOMAIN Together(s) : x # Place(p) => Together(t)[x] = Together(s)[x]
      BY <2>6, <2>10, <2>11
    <2>. QED BY <1>2, <2>8, <2>12 DEF t
  <1>. QED BY <1>1, <1>2

\* The states the loop passes through.
NothingYet == [regs |-> mux, cached |-> 255, val |-> [f \in {} |-> 0], cnt |-> 0]

LEMMA ListedIsFolded ==
    ASSUME NEW list \in Seq(MuxPins), mux \in FieldValues
    PROVE  \E g \in [0..Len(list) -> MuxStates] :
             /\ g[0] = NothingYet
             /\ \A k \in 1..Len(list) : g[k] = MuxPin(g[k - 1], list[k])
             /\ Listed(list) = g[Len(list)]
  <1> DEFINE n == Len(list)
             S == MuxStates
             step == [k \in 1..n |-> [s \in S |-> MuxPin(s, list[k])]]
             Is(f) == f = [s \in SUBSET DOMAIN list |->
                             IF s = {} THEN NothingYet
                             ELSE MuxPin(f[s \ {Max(s)}], list[Max(s)])]
             all == CHOOSE f : Is(f)
             g == Partials(all, n)
  <1>1. n \in Nat /\ DOMAIN list = 1..n /\ \A k \in 1..n : list[k] \in MuxPins
    BY LenProperties
  <1>2. NothingYet \in S
    <2>1. [f \in {} |-> 0] \in FieldValues
      BY ValuesAre
    <2>. QED BY <2>1 DEF NothingYet, MuxStates
  <1>3. \A k \in 1..n : \A s \in S : MuxPin(s, list[k]) \in S
    BY <1>1, MuxPinIs
  <1>4. step \in Steps(S, n)
    <2> HIDE DEF S
    <2>. QED BY <1>3 DEF Steps
  <1>5. PICK it \in [SUBSET (1..n) -> S] : IsFold(it, n, NothingYet, step)
    <2> HIDE DEF n, S, step
    <2>. QED BY <1>1, <1>2, <1>4, FoldExists
  <1>6. ASSUME NEW s \in SUBSET (1..n), s # {} PROVE Max(s) \in 1..n /\ s \ {Max(s)} \in SUBSET (1..n)
    <2> HIDE DEF n
    <2>1. s \in SUBSET (0..n)
      <3>1. \A x \in s : x \in 0..n
        OBVIOUS
      <3>. QED BY <3>1
    <2>. QED BY <1>1, <1>6, <2>1, Greatest
  <1>7. Is(it)
    <2>1. ASSUME NEW s \in SUBSET (1..n), s # {}
          PROVE  step[Max(s)][it[s \ {Max(s)}]] = MuxPin(it[s \ {Max(s)}], list[Max(s)])
      <3>1. it[s \ {Max(s)}] \in S
        BY <1>6, <2>1
      <3>. QED BY <1>6, <2>1, <3>1
    <2> HIDE DEF step, S, n
    <2>. QED BY <1>1, <1>5, <2>1 DEF IsFold
  <1>8. Is(all)
    BY <1>7
  <1> HIDE DEF all
  <1>9. ASSUME NEW k \in 1..n, all[1..(k - 1)] \in S
        PROVE  all[1..k] = step[k][all[1..(k - 1)]]
    <2>1. all[1..k] = MuxPin(all[1..(k - 1)], list[k])
      BY <1>1, <1>8, Segment
    <2>. QED BY <1>9, <2>1
  <1>10. all[{}] = NothingYet /\ Listed(list) = all[1..n]
    <2>1. {} \in SUBSET DOMAIN list
      OBVIOUS
    <2>. QED BY <1>1, <1>8, <2>1 DEF Listed, FoldLeft, MapThenFoldSet, NothingYet, all
  <1>11. /\ g \in [0..n -> S] /\ Follows(g, n, NothingYet, step) /\ Listed(list) = g[n]
    <2> HIDE DEF n, S, step
    <2>. QED BY <1>1, <1>2, <1>4, <1>9, <1>10, FoldFollows
  <1>12. g[0] = NothingYet /\ \A k \in 1..n : g[k] = MuxPin(g[k - 1], list[k])
    <2> HIDE DEF g
    <2> SUFFICES ASSUME NEW k \in 1..n PROVE g[k] = MuxPin(g[k - 1], list[k])
      BY <1>11 DEF Follows
    <2>1. k - 1 \in 0..n /\ g[k - 1] \in S /\ g[k] = step[k][g[k - 1]]
      <3> HIDE DEF step
      <3>. QED BY <1>1, <1>11 DEF Follows
    <2>. QED BY <2>1
  <1>. QED BY <1>11, <1>12

\* The fields of the first k pins of a list, and what was listed last for each.
Holds(f, list, k) ==
    /\ DOMAIN f = {Place(list[j]) : j \in {j \in 1..k : Valid(list[j])}}
    /\ \A j \in 1..k :
         Valid(list[j]) /\ (\A i \in 1..k : Valid(list[i]) /\ i > j => Place(list[i]) # Place(list[j]))
         => f[Place(list[j])] = list[j].fn

LEMMA HoldsMore ==
    ASSUME NEW list \in Seq(MuxPins), NEW k \in 1..Len(list), NEW s \in MuxStates,
           Holds(Together(s), list, k - 1)
    PROVE  Holds(Together(MuxPin(s, list[k])), list, k)
  <1> DEFINE p == list[k]
             f == Together(s)
             h == Together(MuxPin(s, list[k]))
  <1>1. p \in MuxPins /\ k \in Nat /\ 1..k = (1..(k - 1)) \cup {k}
    BY LenProperties
  <1>2. /\ ~Valid(p) => h = f
        /\ Valid(p) => /\ DOMAIN h = DOMAIN f \cup {Place(p)} /\ h[Place(p)] = p.fn
                       /\ \A x \in DOMAIN f : x # Place(p) => h[x] = f[x]
    BY <1>1, MuxPinIs
  <1>3. Holds(f, list, k - 1)
    OBVIOUS
  <1> HIDE DEF f, h
  <1>4. DOMAIN h = {Place(list[j]) : j \in {j \in 1..k : Valid(list[j])}}
    <2>1. CASE Valid(p)
      BY <1>1, <1>2, <1>3, <2>1 DEF Holds
    <2>2. CASE ~Valid(p)
      BY <1>1, <1>2, <1>3, <2>2 DEF Holds
    <2>. QED BY <2>1, <2>2
  <1>5. ASSUME NEW j \in 1..k, Valid(list[j]),
               \A i \in 1..k : Valid(list[i]) /\ i > j => Place(list[i]) # Place(list[j])
        PROVE  h[Place(list[j])] = list[j].fn
    <2>1. CASE j = k
      BY <1>2, <1>5, <2>1
    <2>2. CASE j # k
      <3>1. j \in 1..(k - 1) /\ k > j /\ k \in 1..k
        BY <1>1, <2>2
      <3>2. f[Place(list[j])] = list[j].fn /\ Place(list[j]) \in DOMAIN f
        BY <1>1, <1>3, <1>5, <3>1 DEF Holds
      <3>3. Valid(p) => Place(list[j]) # Place(p)
        BY <1>5, <3>1
      <3>. QED BY <1>2, <3>2, <3>3
    <2>. QED BY <2>1, <2>2
  <1>6. Holds(h, list, k)
    BY <1>4, <1>5 DEF Holds
  <1>. QED BY <1>6 DEF h

\* i10_iomux_config(): the registers hold what was listed.
LEMMA ListIsWritten ==
    ASSUME NEW list \in Seq(MuxPins), mux = [f \in {} |-> 0]
    PROVE  WithList(list) \in FieldValues /\ Holds(WithList(list), list, Len(list))
  <1>1. mux \in FieldValues
    BY ValuesAre
  <1>2. PICK g \in [0..Len(list) -> MuxStates] :
          /\ g[0] = NothingYet
          /\ \A k \in 1..Len(list) : g[k] = MuxPin(g[k - 1], list[k])
          /\ Listed(list) = g[Len(list)]
    BY <1>1, ListedIsFolded
  <1>3. Len(list) \in Nat
    BY LenProperties
  <1> DEFINE T == {k \in 0..Len(list) : Holds(Together(g[k]), list, k)}
  <1>4. 0 \in T
    <2>1. Together(g[0]) = [f \in {} |-> 0]
      BY <1>2 DEF Together, NothingYet
    <2>2. Holds([f \in {} |-> 0], list, 0)
      BY DEF Holds
    <2>. QED BY <1>3, <2>1, <2>2
  <1>5. ASSUME NEW k \in 1..Len(list), k - 1 \in T PROVE k \in T
    <2>1. g[k] = MuxPin(g[k - 1], list[k]) /\ g[k - 1] \in MuxStates
      BY <1>2, <1>3
    <2>2. Holds(Together(MuxPin(g[k - 1], list[k])), list, k)
      BY <1>5, <2>1, HoldsMore
    <2>. QED BY <1>3, <2>1, <2>2
  <1>6. Len(list) \in T
    <2>1. \A k \in 1..Len(list) : k - 1 \in T => k \in T
      BY <1>5
    <2> HIDE DEF T
    <2>2. \A k \in 0..Len(list) : k \in T
      BY <1>3, <1>4, <2>1, UpTo
    <2>. QED BY <1>3, <2>2
  <1>7. WithList(list) = Together(g[Len(list)]) /\ g[Len(list)] \in MuxStates
    BY <1>2, <1>3 DEF WithList, Together
  <1>8. ASSUME NEW s \in MuxStates PROVE Together(s) \in FieldValues
    <2>1. s.val \in FieldValues /\ s.regs \in FieldValues
      BY DEF MuxStates
    <2>2. Over(s.val, s.regs) \in FieldValues
      BY ONLY <2>1, OverIs, Zenon
    <2>. QED BY <2>1, <2>2 DEF Together
  <1>. QED BY <1>6, <1>7, <1>8

MuxInv ==
    /\ listed \in Seq(MuxPins)
    /\ listed = <<>> => mux = [f \in {} |-> 0]
    /\ Holds(mux, listed, Len(listed))

LEMMA MuxInitially == PinsInit => MuxInv
  <1> SUFFICES ASSUME PinsInit PROVE MuxInv
    OBVIOUS
  <1>1. listed = <<>> /\ mux = [f \in {} |-> 0] /\ Len(<<>>) = 0 /\ <<>> \in Seq(MuxPins)
    BY DEF PinsInit
  <1>. QED BY <1>1 DEF MuxInv, Holds

LEMMA MuxStep ==
    ASSUME MuxInv, [MuxNext]_pinVars
    PROVE  MuxInv'
  <1>1. ASSUME NEW list \in MuxLists, i10_iomux_config(list) PROVE MuxInv'
    <2>1. list \in Seq(MuxPins)
      BY PinsAssumption DEF MuxPins
    <2>2. mux = [f \in {} |-> 0] /\ mux' = WithList(list) /\ listed' = list
      BY <1>1 DEF i10_iomux_config, MuxInv
    <2>3. Holds(mux', listed', Len(listed'))
      BY <2>1, <2>2, ListIsWritten
    <2>4. listed' = <<>> => mux' = [f \in {} |-> 0]
      <3>1. Len(<<>>) = 0 /\ mux' \in FieldValues
        BY <2>1, <2>2, ListIsWritten
      <3>2. listed' = <<>> => DOMAIN mux' = {}
        BY <2>3, <3>1 DEF Holds
      <3>. QED BY <3>1, <3>2, ValuesAre
    <2>5. MuxInv' <=> /\ listed' \in Seq(MuxPins)
                      /\ listed' = <<>> => mux' = [f \in {} |-> 0]
                      /\ Holds(mux', listed', Len(listed'))
      BY DEF MuxInv, Holds, Place, Valid
    <2>. QED BY <2>1, <2>2, <2>3, <2>4, <2>5
  <1>2. CASE UNCHANGED pinVars
    BY <1>2 DEF pinVars, MuxInv, Holds, Place, Valid
  <1>. QED BY <1>1, <1>2 DEF MuxNext

LEMMA MuxGood == MuxInv => MuxAsListed
  <1> SUFFICES ASSUME MuxInv PROVE MuxAsListed
    OBVIOUS
  <1> DEFINE valid == {k \in 1..Len(listed) : listed[k].offset \in MuxOffsets}
             Where(k) == <<listed[k].offset, listed[k].shift>>
  <1>1. DOMAIN mux = {Where(k) : k \in valid}
    BY DEF MuxInv, Holds, Place, Valid
  <1>2. ASSUME NEW k \in valid, \A j \in valid : j > k => Where(j) # Where(k)
        PROVE  mux[Where(k)] = listed[k].fn
    BY <1>2 DEF MuxInv, Holds, Place, Valid
  <1>. QED BY <1>1, <1>2 DEF MuxAsListed

-----------------------------------------------------------------------------
(***************************************************************************)
(* uart.c: the count of uart_putc() is not 0 while its loop goes on, so    *)
(* that it is 0 behind the loop only when that ran out; how often it has   *)
(* looked is what it has counted down.                                     *)
(***************************************************************************)
UartInv ==
    /\ doing \in {"nothing", "putc", "getc", "timeout"}
    /\ txLevel \in 0..TX_FIFO_DEPTH /\ rxLevel \in 0..RX_FIFO_DEPTH
    /\ doing = "putc" => left \in 1..PutPolls /\ looked = PutPolls - left
    /\ doing = "nothing" /\ outcome = "dropped" => looked = PutPolls

LEMMA UartSizes ==
    /\ TX_FIFO_DEPTH \in Nat /\ RX_FIFO_DEPTH \in Nat
    /\ PutPolls \in Nat \ {0} /\ MsPolls * WordMod \in Nat
  <1>1. \A m, w \in Nat : m * w \in Nat
    OBVIOUS
  <1>. QED BY <1>1, UartAssumption

LEMMA UartInitially == UartInit => UartInv
  BY UartSizes DEF UartInit, UartInv

LEMMA PutcKeeps ==
    ASSUME UartInv, uart_putc
    PROVE  UartInv'
  <1>1. /\ left \in 1..PutPolls /\ looked = PutPolls - left /\ doing = "putc"
        /\ rxLevel' = rxLevel /\ rxLevel \in 0..RX_FIFO_DEPTH /\ txLevel \in 0..TX_FIFO_DEPTH
    BY DEF UartInv, uart_putc
  <1>2. CASE txLevel = TX_FIFO_DEPTH
    <2>1. left' = left - 1 /\ looked' = looked + 1 /\ txLevel' = txLevel
      BY <1>1, <1>2, UartSizes DEF uart_putc, Again
    <2>2. \/ left' = 0 /\ doing' = "nothing" /\ outcome' = "dropped"
          \/ left' # 0 /\ doing' = "putc"
      BY <1>1, <1>2, <2>1 DEF uart_putc, Return
    <2>. QED BY <1>1, <2>1, <2>2, UartSizes DEF UartInv
  <1>3. CASE txLevel # TX_FIFO_DEPTH
    BY <1>1, <1>3, UartSizes DEF uart_putc, Return, UartInv
  <1>. QED BY <1>2, <1>3

LEMMA UartStep ==
    ASSUME UartInv, [UartNext]_uartVars
    PROVE  UartInv'
  <1>1. CASE CharComes \/ CharGoes \/ UNCHANGED uartVars
    BY <1>1, UartSizes DEF CharComes, CharGoes, uartVars, UartInv
  <1>2. CASE PutcCalled
    BY <1>2, UartSizes DEF PutcCalled, Call, UartInv
  <1>3. ASSUME NEW ms \in Expires, GetcCalled(ms) PROVE UartInv'
    BY <1>3 DEF GetcCalled, Call, UartInv
  <1>4. CASE uart_getc
    BY <1>4, UartSizes DEF uart_getc, Return, UartInv
  <1>5. CASE uart_getc_timeout
    <2>1. doing = "timeout" /\ txLevel' = txLevel /\ doing' \in {"timeout", "nothing"}
      BY <1>5 DEF uart_getc_timeout, Return
    <2>2. doing' = "nothing" => outcome' \in {"read", "timeout"}
      BY <1>5 DEF uart_getc_timeout, Return
    <2>3. rxLevel' \in 0..RX_FIFO_DEPTH
      BY <1>5, UartSizes DEF uart_getc_timeout, UartInv
    <2>. QED BY <2>1, <2>2, <2>3 DEF UartInv
  <1>. QED BY <1>1, <1>2, <1>3, <1>4, <1>5, PutcKeeps DEF UartNext

LEMMA UartGood == UartInv => FifosHold
  BY DEF UartInv, FifosHold

-----------------------------------------------------------------------------
(***************************************************************************)
(* timer.c: what the divisions leave over, and the cycles that pass.       *)
(***************************************************************************)

\* A product is monotonic in a factor.
LEMMA Monotone ==
    ASSUME NEW a \in Nat, NEW b \in Nat, NEW c \in Nat, a <= b
    PROVE  a * c \in Nat /\ b * c \in Nat /\ c * a = a * c /\ c * b = b * c /\ a * c <= b * c
  <1>1. PICK d \in Nat : b = a + d
    <2>1. b - a \in Nat /\ b = a + (b - a)
      OBVIOUS
    <2>. QED BY <2>1
  <1>2. b * c = a * c + d * c /\ d * c \in Nat /\ a * c \in Nat
    BY <1>1
  <1>. QED BY <1>2

\* Seconds, milliseconds and microseconds of n.
LEMMA Parts ==
    ASSUME NEW T \in Nat \ {0}, NEW n \in Nat
    PROVE  LET sec == n \div (T * T)
               msec == n \div T - sec * T
               us == n - sec * T * T - msec * T
           IN sec \in Nat /\ msec \in 0..T - 1 /\ us \in 0..T - 1
  <1> DEFINE TT == T * T
             s == n \div TT
             r == n % TT
             q == n \div T
             m == n % T
  <1>1. TT \in Nat \ {0}
    OBVIOUS
  <1>2. s \in Nat /\ r \in 0..TT - 1 /\ n = TT * s + r
    <2> HIDE DEF TT
    <2>. QED BY <1>1
  <1>3. q \in Nat /\ m \in 0..T - 1 /\ n = T * q + m
    OBVIOUS
  <1>4. s * T \in Nat /\ T * (s * T) = TT * s /\ s * T * T = TT * s /\ T * (s * T + T) = TT * s + TT
        /\ TT * s \in Nat
    BY <1>1, <1>2
  <1> HIDE DEF TT, s, r, q, m
  <1>5. q >= s * T
    <2> SUFFICES ASSUME q + 1 <= s * T PROVE FALSE
      BY <1>3, <1>4
    <2>1. (q + 1) * T <= T * (s * T)
      BY <1>3, <1>4, Monotone
    <2>2. (q + 1) * T = T * q + T /\ T * q \in Nat
      BY <1>3
    <2>. QED BY <1>2, <1>3, <1>4, <2>1, <2>2
  <1>6. q < s * T + T
    <2> SUFFICES ASSUME s * T + T <= q PROVE FALSE
      BY <1>3, <1>4
    <2>1. s * T + T \in Nat
      BY <1>4
    <2>2. T * (s * T + T) <= T * q /\ T * q \in Nat
      BY <1>3, <2>1, Monotone
    <2>. QED BY <1>1, <1>2, <1>3, <1>4, <2>2
  <1>7. q - s * T \in 0..T - 1
    BY <1>3, <1>4, <1>5, <1>6
  <1>8. n - s * T * T - (q - s * T) * T = m
    <2>1. (q - s * T) * T = T * q - TT * s
      BY <1>2, <1>3, <1>4
    <2>. QED BY <1>3, <1>4, <2>1
  <1>. QED BY <1>2, <1>3, <1>7, <1>8 DEF s, q, TT

\* What the cycles of the parts are short of: less than one a millisecond and two more.
LEMMA LeftOver ==
    ASSUME NEW T \in Nat \ {0}, NEW R \in Nat, NEW sec \in Nat, NEW msec \in 0..T - 1,
           NEW us \in 0..T - 1
    PROVE  LET rate == R \div T
               all == sec * R + msec * rate + (us * rate) \div T
               n == sec * T * T + msec * T + us
           IN all \in Nat /\ all * (T * T) <= n * R /\ n * R < (all + msec + 2) * (T * T)
  <1> DEFINE rate == R \div T
             e == R % T
             v == (us * rate) \div T
             d == (us * rate) % T
             all == sec * R + msec * rate + v
             n == sec * T * T + msec * T + us
  <1>1. rate \in Nat /\ e \in 0..T - 1 /\ R = T * rate + e
    OBVIOUS
  <1> HIDE DEF rate, e
  <1>2. us * rate \in Nat
    BY <1>1
  <1>3. v \in Nat /\ d \in 0..T - 1 /\ us * rate = T * v + d
    <2> DEFINE x == us * rate
    <2>1. x \in Nat
      BY <1>2
    <2> HIDE DEF x
    <2>2. x \div T \in Nat /\ x % T \in 0..T - 1 /\ x = T * (x \div T) + (x % T)
      BY <2>1
    <2>. QED BY <2>2 DEF x
  <1> HIDE DEF v, d
  <1>4. all \in Nat
    <2>1. sec * R \in Nat /\ msec * rate \in Nat
      BY <1>1
    <2>. QED BY <1>3, <2>1
  <1> DEFINE short == msec * T * e + T * d + us * e
  <1>5. n * R = all * (T * T) + short
    <2> DEFINE A == sec * R * (T * T)
               B == msec * rate * (T * T)
               C == v * (T * T)
    <2>1. A \in Int /\ B \in Int /\ C \in Int /\ msec * T * e \in Int /\ T * d \in Int /\ us * e \in Int
      BY <1>1, <1>3
    <2>2. all * (T * T) = A + B + C
      BY <1>1, <1>3
    <2>3. sec * T * T * R = A
      OBVIOUS
    <2>4. msec * T * R = B + msec * T * e
      BY <1>1
    <2>5. us * R = C + T * d + us * e
      <3>1. us * R = T * (us * rate) + us * e
        BY <1>1
      <3>2. T * (us * rate) = T * (T * v) + T * d
        BY <1>3
      <3>3. T * (T * v) = C
        BY <1>3
      <3> HIDE DEF C
      <3>. QED BY <2>1, <3>1, <3>2, <3>3
    <2>6. n * R = sec * T * T * R + msec * T * R + us * R
      OBVIOUS
    <2> DEFINE X == n * R
               Y == all * (T * T)
               D == msec * T * e
               F == T * d
               G == us * e
    <2>7. /\ Y = A + B + C /\ X = A + (B + D) + (C + F + G)
          /\ A \in Int /\ B \in Int /\ C \in Int /\ D \in Int /\ F \in Int /\ G \in Int
      <3> HIDE DEF A, B, C, n, all
      <3>. QED BY <2>1, <2>2, <2>3, <2>4, <2>5, <2>6
    <2> HIDE DEF X, Y, A, B, C, D, F, G
    <2>8. X = Y + (D + F + G)
      BY <2>7
    <2>. QED BY <2>8 DEF X, Y, D, F, G
  <1>6. short \in Nat /\ short < (msec + 2) * (T * T)
    <2>1. T * d \in Nat /\ T * d <= T * (T - 1)
      BY <1>3, Monotone
    <2>2. us * e \in Nat /\ us * e <= T * e /\ T * e <= T * (T - 1)
      <3>1. us \in Nat /\ us <= T /\ e \in Nat /\ T - 1 \in Nat /\ e <= T - 1
        BY <1>1
      <3>. QED BY <3>1, Monotone
    <2>3. msec * T * e \in Nat /\ msec * T * e <= msec * T * T
      <3>1. msec * T \in Nat /\ e \in Nat /\ e <= T
        BY <1>1
      <3>. QED BY <3>1, Monotone
    <2>4. /\ T * (T - 1) = T * T - T /\ (msec + 2) * (T * T) = msec * T * T + T * T + T * T
          /\ T * T \in Nat /\ msec * T * T \in Nat /\ T * e \in Nat
      BY <1>1
    <2> DEFINE a == msec * T * e
               b == T * d
               c == us * e
               A == msec * T * T
               B == T * T
    <2>5. /\ a \in Nat /\ a <= A /\ A \in Nat /\ b \in Nat /\ b <= B - T /\ c \in Nat /\ c <= B - T
          /\ B \in Nat /\ (msec + 2) * (T * T) = A + B + B
      BY <2>1, <2>2, <2>3, <2>4
    <2> HIDE DEF a, b, c, A, B
    <2>6. a + b + c \in Nat /\ a + b + c < A + B + B
      BY <2>5
    <2>. QED BY <2>5, <2>6 DEF a, b, c
  <1>7. (all + msec + 2) * (T * T) = all * (T * T) + (msec + 2) * (T * T)
    BY <1>4
  <1>8. all * (T * T) \in Int /\ (msec + 2) * (T * T) \in Int
    BY <1>4
  <1> HIDE DEF all, n, short
  <1>9. all * (T * T) <= n * R /\ n * R < (all + msec + 2) * (T * T)
    BY <1>5, <1>6, <1>7, <1>8
  <1>. QED BY <1>4, <1>9 DEF all, n, v, rate

second == Thousand * Thousand

LEMMA TimerSizes ==
    /\ CounterMod \in Nat \ {0} /\ ChunkMax \in Nat \ {0} /\ Latency \in Nat \ {0}
    /\ Thousand \in Nat \ {0} /\ timer_rate \in Nat \ {0} /\ RoundMax \in Nat \ {0}
    /\ ChunkMax + Latency <= CounterMod /\ Delays \subseteq Nat /\ second \in Nat \ {0}
  <1>1. \A t \in Nat \ {0} : t * t \in Nat \ {0}
    OBVIOUS
  <1>. QED BY <1>1, TimerAssumption DEF second

\* lost cycles are less than one for each whole millisecond of n, and for each of k rounds.
LostIn(lost, n, k) == lost * Thousand <= n /\ lost <= k * (Thousand - 1)

\* The cycles of n microseconds, against n * timer_rate of a second.
LEMMA CyclesAre ==
    ASSUME NEW n \in Nat
    PROVE  /\ Cycles(n) \in Nat \ {0}
           /\ Cycles(n) * second <= n * timer_rate + second
           /\ \E lost \in Nat : /\ LostIn(lost, n, 1)
                                /\ n * timer_rate < (Cycles(n) + lost + 2) * second
  <1> DEFINE T == Thousand
             R == timer_rate
             sec == n \div (T * T)
             msec == n \div T - sec * T
             us == n - sec * T * T - msec * T
             rate == R \div T
             all == sec * R + msec * rate + (us * rate) \div T
  <1>1. T \in Nat \ {0} /\ R \in Nat
    BY TimerSizes
  <1>2. Cycles(n) = IF all = 0 THEN 1 ELSE all
    BY DEF Cycles
  <1>3. sec \in Nat /\ msec \in 0..T - 1 /\ us \in 0..T - 1
    <2> HIDE DEF T
    <2>. QED BY <1>1, Parts
  <1>4. n = sec * T * T + msec * T + us
    <2> DEFINE x == sec * T * T
               y == msec * T
    <2>1. x \in Int /\ y \in Int
      <3> HIDE DEF sec, msec, T
      <3>. QED BY <1>1, <1>3
    <2>2. us = n - x - y
      OBVIOUS
    <2> HIDE DEF x, y, us
    <2>3. n = x + y + us
      BY <2>1, <2>2
    <2>. QED BY <2>3 DEF x, y
  <1>5. msec \in Nat /\ LostIn(msec, n, 1)
    <2>1. sec * T * T \in Nat /\ msec * T \in Nat
      <3> HIDE DEF sec, msec, T
      <3>. QED BY <1>1, <1>3
    <2> HIDE DEF sec, msec, us
    <2>2. msec * T <= n /\ msec \in Nat /\ msec <= T - 1 /\ T - 1 \in Nat
      BY <1>1, <1>3, <1>4, <2>1
    <2>3. 1 * (T - 1) = T - 1
      BY <2>2
    <2>. QED BY <2>2, <2>3 DEF LostIn, T
  <1> HIDE DEF sec, msec, us
  <1>6. all \in Nat /\ all * (T * T) <= n * R /\ n * R < (all + msec + 2) * (T * T)
    <2> HIDE DEF T, R
    <2>. QED BY <1>1, <1>3, <1>4, LeftOver
  <1> HIDE DEF all
  <1>7. n * R \in Nat /\ second \in Nat \ {0} /\ second = T * T
    BY <1>1, TimerSizes DEF second
  <1> HIDE DEF T, R
  <1>8. /\ Cycles(n) \in Nat \ {0} /\ Cycles(n) * second <= n * R + second
        /\ n * R < (Cycles(n) + msec + 2) * second
    <2>1. CASE all = 0
      <3>1. (1 + msec + 2) * second = second + (msec + 2) * second /\ 1 * second = second
            /\ (0 + msec + 2) * second = (msec + 2) * second /\ (msec + 2) * second \in Nat
        BY <1>5, <1>7
      <3>. QED BY <1>2, <1>6, <1>7, <2>1, <3>1
    <2>2. CASE all # 0
      <3>1. all * second \in Nat
        BY <1>6, <1>7
      <3>. QED BY <1>2, <1>6, <1>7, <2>2, <3>1
    <2>. QED BY <2>1, <2>2
  <1>. QED BY <1>5, <1>8 DEF R

\* A round more.
LEMMA RoundSums ==
    ASSUME NEW S \in Nat, NEW C \in Nat, NEW done \in Nat, NEW m \in Nat, NEW R \in Nat,
           NEW P \in Nat, NEW L \in Nat, NEW lost \in Nat, NEW k \in Nat,
           S * P <= done * R + k * P, done * R + k <= (S + L + 2 * k) * P,
           C * P <= m * R + P, m * R < (C + lost + 2) * P
    PROVE  /\ (S + C) * P <= (done + m) * R + (k + 1) * P
           /\ (done + m) * R + (k + 1) <= (S + C + (L + lost) + 2 * (k + 1)) * P
  <1> DEFINE a == S * P
             b == C * P
             c == done * R
             d == m * R
             e == k * P
             f == (L + 2 * k) * P
             g == (lost + 2) * P
  <1>1. /\ a \in Nat /\ b \in Nat /\ c \in Nat /\ d \in Nat /\ e \in Nat /\ f \in Nat /\ g \in Nat
        /\ (S + C) * P = a + b /\ (done + m) * R = c + d /\ (k + 1) * P = e + P
        /\ (S + L + 2 * k) * P = a + f /\ (C + lost + 2) * P = b + g
        /\ (S + C + (L + lost) + 2 * (k + 1)) * P = a + b + f + g
    OBVIOUS
  <1> HIDE DEF a, b, c, d, e, f, g
  <1>2. a <= c + e /\ c + k <= a + f /\ b <= d + P /\ d < b + g
    BY <1>1 DEF a, b, c, d, e
  <1>3. a + b <= c + d + (e + P) /\ c + d + (k + 1) <= a + b + f + g
    BY <1>1, <1>2
  <1>. QED BY <1>1, <1>3

\* What a round loses comes to what the rounds before have lost.
LEMMA LostSums ==
    ASSUME NEW L \in Nat, NEW lost \in Nat, NEW n \in Nat, NEW m \in Nat, NEW k \in Nat,
           LostIn(L, n, k), LostIn(lost, m, 1)
    PROVE  LostIn(L + lost, n + m, k + 1)
  <1> DEFINE T == Thousand
             U == Thousand - 1
  <1>1. T \in Nat /\ U \in Nat
    BY TimerSizes
  <1> HIDE DEF T, U
  <1>2. /\ (L + lost) * T = L * T + lost * T /\ L * T \in Nat /\ lost * T \in Nat
        /\ (k + 1) * U = k * U + U /\ 1 * U = U /\ k * U \in Nat
    BY <1>1
  <1>3. L * T <= n /\ L <= k * U /\ lost * T <= m /\ lost <= 1 * U
    BY DEF LostIn, T, U
  <1>4. (L + lost) * T <= n + m /\ L + lost <= (k + 1) * U
    BY <1>1, <1>2, <1>3
  <1>. QED BY <1>4 DEF LostIn, T, U

LEMMA Remainder ==
    ASSUME NEW M \in Nat \ {0}, NEW x \in Int
    PROVE  x \div M \in Int /\ x % M \in 0..M - 1 /\ x = M * (x \div M) + (x % M)
  OBVIOUS

\* The distance from a reading grows with the counter, also around the end.
LEMMA DistanceGrows ==
    ASSUME NEW M \in Nat \ {0}, NEW s \in 0..M - 1, NEW c \in 0..M - 1, NEW g \in Nat,
           ((s - c) % M) + g < M
    PROVE  /\ (c - g) % M \in 0..M - 1
           /\ (s - ((c - g) % M)) % M = ((s - c) % M) + g
  <1> DEFINE el == (s - c) % M
             q1 == (s - c) \div M
             e2 == (c - g) % M
             q2 == (c - g) \div M
             r3 == (s - e2) % M
             q3 == (s - e2) \div M
  <1>1. s - c \in Int /\ c - g \in Int
    OBVIOUS
  <1>2. el \in 0..M - 1 /\ q1 \in Int /\ s - c = M * q1 + el /\ el + g < M
    <2> DEFINE x == s - c
    <2> HIDE DEF x
    <2>1. x \div M \in Int /\ x % M \in 0..M - 1 /\ x = M * (x \div M) + (x % M)
      BY <1>1, Remainder DEF x
    <2>. QED BY <2>1 DEF x
  <1>3. e2 \in 0..M - 1 /\ q2 \in Int /\ c - g = M * q2 + e2
    <2> DEFINE x == c - g
    <2> HIDE DEF x
    <2>1. x \div M \in Int /\ x % M \in 0..M - 1 /\ x = M * (x \div M) + (x % M)
      BY <1>1, Remainder DEF x
    <2>. QED BY <2>1 DEF x
  <1> HIDE DEF e2
  <1>4. r3 \in 0..M - 1 /\ q3 \in Int /\ s - e2 = M * q3 + r3
    <2> DEFINE x == s - e2
    <2>0. x \in Int
      BY <1>3
    <2> HIDE DEF x
    <2>1. x \div M \in Int /\ x % M \in 0..M - 1 /\ x = M * (x \div M) + (x % M)
      BY <2>0, Remainder
    <2>. QED BY <2>1 DEF x
  <1> HIDE DEF el, q1, q2, r3, q3
  <1> DEFINE k == q3 - q1 - q2
  <1>5. M * k = M * q3 - M * q1 - M * q2 /\ k \in Int /\ M * k \in Int
        /\ M * q1 \in Int /\ M * q2 \in Int /\ M * q3 \in Int
    BY <1>2, <1>3, <1>4
  <1> HIDE DEF k
  <1>6. M * k = el + g - r3
    BY <1>2, <1>3, <1>4, <1>5
  <1>7. k < 1
    <2> SUFFICES ASSUME k >= 1 PROVE FALSE
      BY <1>5
    <2>1. 1 * M <= k * M /\ k * M = M * k /\ 1 * M = M
      BY <1>5, Monotone, k \in Nat
    <2>. QED BY <1>2, <1>4, <1>6, <2>1
  <1>8. k > -1
    <2> SUFFICES ASSUME k <= -1 PROVE FALSE
      BY <1>5
    <2>1. -k \in Nat /\ 1 <= -k
      BY <1>5
    <2>2. 1 * M <= (-k) * M /\ (-k) * M = -(M * k)
      BY <1>5, <2>1, Monotone
    <2>. QED BY <1>2, <1>4, <1>5, <1>6, <2>2
  <1>9. M * k = 0
    BY <1>5, <1>7, <1>8
  <1>10. r3 = el + g
    BY <1>2, <1>4, <1>6, <1>9
  <1>. QED BY <1>3, <1>10 DEF r3, e2, el

\* k rounds of S cycles in all have begun, and c chunks have gone by.
RoundsAre(k, S) ==
    /\ usec > 0 => wanted - usec = k * RoundMax
    /\ usec = 0 => k > 0 /\ (k - 1) * RoundMax < wanted
    /\ S * second <= (wanted - usec) * timer_rate + k * second
    /\ \E lost \in Nat : /\ LostIn(lost, wanted - usec, k)
                         /\ (wanted - usec) * timer_rate + k <= (S + lost + 2 * k) * second

\* n cycles were waited for, with some readings.
PassedAre(n, readings) == n <= passed /\ passed <= n + readings * Latency

\* Only the last chunk of a round is not a whole one.
TimeIs(k, c, S) ==
    \/ /\ waiting \in {"udelay", "no"} /\ (waiting = "udelay" <=> usec > 0)
       /\ PassedAre(S, k + 2 * c) /\ (c - k) * ChunkMax <= S
    \/ /\ waiting = "chunk" /\ cycles \in 1..S
       /\ PassedAre(S - cycles, k + 2 * c) /\ (c - k + 1) * ChunkMax <= S - cycles
    \/ /\ waiting = "reading" /\ cycles \in 1..S /\ chunk = AtMost(ChunkMax, cycles)
       /\ start \in 0..CounterMod - 1 /\ Distance(start, counter) < chunk
       /\ PassedAre(S - cycles + Distance(start, counter), k + 2 * c + 1)
       /\ (c - k + 1) * ChunkMax <= S - cycles

TimerInv ==
    /\ counter \in 0..CounterMod - 1 /\ wanted \in Nat
    /\ wanted > 0 =>
         /\ usec \in 0..wanted /\ passed \in Nat
         /\ \E k, c, S \in Nat : RoundsAre(k, S) /\ TimeIs(k, c, S)

LEMMA AtMostIs ==
    ASSUME NEW a \in Nat \ {0}, NEW b \in Nat \ {0}
    PROVE  AtMost(a, b) \in 1..a /\ AtMost(a, b) \in 1..b
           /\ (AtMost(a, b) = a \/ AtMost(a, b) = b)
  BY DEF AtMost

\* A step takes no more than Latency.
LEMMA ElapsesIs ==
    ASSUME counter \in 0..CounterMod - 1, passed \in Nat, NEW g \in 0..Latency, Elapses(g)
    PROVE  counter' \in 0..CounterMod - 1 /\ passed' = passed + g /\ passed' \in Nat
  <1>1. counter - g \in Int /\ CounterMod \in Nat \ {0} /\ g \in Nat
    BY TimerSizes
  <1>2. (counter - g) % CounterMod \in 0..CounterMod - 1
    <2> DEFINE x == counter - g
    <2> HIDE DEF x
    <2>. QED BY <1>1, Remainder DEF x
  <1>. QED BY <1>1, <1>2 DEF Elapses

LEMMA MoreReadings ==
    ASSUME NEW n \in Nat, NEW r \in Nat, NEW g \in 0..Latency, NEW p \in Nat,
           n <= p, p <= n + r * Latency
    PROVE  n <= p + g /\ p + g <= n + (r + 1) * Latency
  <1>1. Latency \in Nat /\ r * Latency \in Nat /\ (r + 1) * Latency = r * Latency + Latency
    BY TimerSizes
  <1>. QED BY <1>1

LEMMA TimerInitially == TimerInit => TimerInv
  BY DEF TimerInit, TimerInv

LEMMA UdelayKeeps ==
    ASSUME TimerInv, NEW n \in Delays, udelay(n)
    PROVE  TimerInv'
  <1>1. /\ waiting' = "udelay" /\ usec' = n /\ wanted' = n /\ passed' = 0 /\ counter' = counter
        /\ n \in Nat /\ counter \in 0..CounterMod - 1
    BY TimerSizes DEF udelay, TimerInv
  <1>2. ASSUME n > 0 PROVE RoundsAre(0, 0)' /\ TimeIs(0, 0, 0)'
    <2>1. n - n = 0 /\ 0 * RoundMax = 0 /\ 0 * second = 0 /\ 0 * timer_rate = 0
          /\ 0 * Thousand = 0 /\ 0 * (Thousand - 1) = 0
          /\ (0 - 0) * ChunkMax = 0 /\ (0 + 2 * 0) * Latency = 0
      BY <1>1, TimerSizes
    <2>2. LostIn(0, 0, 0)
      BY <2>1 DEF LostIn
    <2>3. (0 + 0 + 2 * 0) * second = 0
      BY TimerSizes
    <2>4. RoundsAre(0, 0)'
      BY <1>1, <1>2, <2>1, <2>2, <2>3 DEF RoundsAre, second, LostIn
    <2>5. TimeIs(0, 0, 0)'
      BY <1>1, <1>2, <2>1 DEF TimeIs, PassedAre
    <2>. QED BY <2>4, <2>5
  <1>3. wanted' > 0 => \E k, c, S \in Nat : RoundsAre(k, S)' /\ TimeIs(k, c, S)'
    BY <1>1, <1>2
  <1>. QED BY <1>1, <1>3 DEF TimerInv

LEMMA RoundKeeps ==
    ASSUME TimerInv, NEW g \in 0..Latency, __udelay(g), wanted > 0
    PROVE  usec' \in 0..wanted /\ \E k, c, S \in Nat : RoundsAre(k, S)' /\ TimeIs(k, c, S)'
  <1>1. /\ waiting = "udelay" /\ waiting' = "chunk" /\ wanted' = wanted /\ wanted \in Nat
        /\ usec \in 0..wanted /\ passed \in Nat /\ counter \in 0..CounterMod - 1 /\ Elapses(g)
    BY DEF TimerInv, __udelay
  <1>2. PICK k, c, S \in Nat : RoundsAre(k, S) /\ TimeIs(k, c, S)
    BY DEF TimerInv
  <1>3. usec > 0 /\ PassedAre(S, k + 2 * c) /\ (c - k) * ChunkMax <= S
    BY <1>1, <1>2 DEF TimeIs
  <1> DEFINE done == wanted - usec
  <1>4. PICK m \in 1..usec : m = AtMost(RoundMax, usec) /\ (m = RoundMax \/ m = usec) /\ m \in Nat
    BY <1>1, <1>3, TimerSizes, AtMostIs
  <1>5. usec' = usec - m /\ cycles' = Cycles(m)
    BY <1>4 DEF __udelay
  <1>6. PICK C \in Nat \ {0}, lost \in Nat :
            /\ C = Cycles(m) /\ C * second <= m * timer_rate + second
            /\ LostIn(lost, m, 1) /\ m * timer_rate < (C + lost + 2) * second
    BY <1>4, CyclesAre
  <1>7. PICK L \in Nat : LostIn(L, done, k) /\ done * timer_rate + k <= (S + L + 2 * k) * second
    BY <1>2 DEF RoundsAre
  <1>8. done \in Nat
    BY <1>1
  <1>9. /\ (S + C) * second <= (done + m) * timer_rate + (k + 1) * second
         /\ (done + m) * timer_rate + (k + 1) <= (S + C + (L + lost) + 2 * (k + 1)) * second
    <2>1. S \in Nat /\ C \in Nat /\ m \in Nat /\ timer_rate \in Nat /\ second \in Nat
      BY <1>1, <1>4, <1>6, TimerSizes
    <2>2. S * second <= done * timer_rate + k * second
      BY <1>2 DEF RoundsAre
    <2> HIDE DEF done
    <2>. QED BY <1>6, <1>7, <1>8, <2>1, <2>2, RoundSums
  <1>10. LostIn(L + lost, done + m, k + 1)
    <2> HIDE DEF done
    <2>. QED BY <1>4, <1>6, <1>7, <1>8, LostSums
  <1>11. wanted' - usec' = done + m /\ usec' \in 0..wanted
    BY <1>1, <1>4, <1>5
  <1>12. usec' > 0 => wanted' - usec' = (k + 1) * RoundMax
    <2>1. usec' > 0 => m = RoundMax
      BY <1>1, <1>4, <1>5
    <2>2. done = k * RoundMax /\ (k + 1) * RoundMax = k * RoundMax + RoundMax
      BY <1>2, <1>3, TimerSizes DEF RoundsAre
    <2>. QED BY <1>11, <2>1, <2>2
  <1>13. k + 1 > 0 /\ (k + 1 - 1) * RoundMax < wanted'
    <2>1. done = k * RoundMax /\ k + 1 - 1 = k
      BY <1>2, <1>3 DEF RoundsAre
    <2>. QED BY <1>1, <1>3, <2>1
  <1>14. RoundsAre(k + 1, S + C)'
    <2>1. L + lost \in Nat
      BY <1>6, <1>7
    <2> HIDE DEF done
    <2>. QED BY <1>11, <1>12, <1>13, <1>9, <1>10, <2>1 DEF RoundsAre, LostIn, second
  <1>15. TimeIs(k + 1, c, S + C)'
    <2>1. passed' = passed + g
      BY <1>1, ElapsesIs
    <2>2. S <= passed + g /\ passed + g <= S + (k + 2 * c + 1) * Latency
      BY <1>1, <1>3, MoreReadings DEF PassedAre
    <2>3. S + C - C = S /\ k + 1 + 2 * c = k + 2 * c + 1 /\ c - (k + 1) + 1 = c - k
          /\ C \in 1..(S + C)
      BY <1>6
    <2>4. PassedAre(S + C - C, k + 1 + 2 * c)'
      BY <2>1, <2>2, <2>3 DEF PassedAre
    <2>. QED BY <1>1, <1>3, <1>5, <1>6, <2>3, <2>4 DEF TimeIs
  <1>. QED BY <1>6, <1>11, <1>14, <1>15

LEMMA StartReadingKeeps ==
    ASSUME TimerInv, NEW g \in 0..Latency, StartReading(g), wanted > 0
    PROVE  usec' \in 0..wanted /\ \E k, c, S \in Nat : RoundsAre(k, S)' /\ TimeIs(k, c, S)'
  <1>1. /\ waiting = "chunk" /\ waiting' = "reading" /\ wanted' = wanted /\ usec' = usec
        /\ cycles' = cycles /\ chunk' = AtMost(ChunkMax, cycles) /\ start' = counter'
        /\ usec \in 0..wanted /\ passed \in Nat /\ counter \in 0..CounterMod - 1 /\ Elapses(g)
    BY DEF TimerInv, StartReading
  <1>2. PICK k, c, S \in Nat : RoundsAre(k, S) /\ TimeIs(k, c, S)
    BY DEF TimerInv
  <1>3. cycles \in 1..S /\ PassedAre(S - cycles, k + 2 * c) /\ (c - k + 1) * ChunkMax <= S - cycles
    BY <1>1, <1>2 DEF TimeIs
  <1>4. counter' \in 0..CounterMod - 1 /\ passed' = passed + g
    BY <1>1, ElapsesIs
  <1>5. Distance(start, counter)' = 0
    <2>1. 0 % CounterMod = 0
      <3>1. CounterMod \in Nat \ {0} /\ 0 \in Int
        BY TimerSizes
      <3>2. 0 \div CounterMod \in Int /\ 0 % CounterMod \in 0..CounterMod - 1
            /\ 0 = CounterMod * (0 \div CounterMod) + (0 % CounterMod)
        BY <3>1, Remainder
      <3>. QED BY <3>1, <3>2
    <2>2. start' - counter' = 0
      <3>1. PICK x \in Int : x = counter'
        BY <1>4
      <3>2. x - x = 0
        OBVIOUS
      <3>3. start' - counter' = x - x
        BY <1>1, <3>1, Zenon
      <3>. QED BY <3>2, <3>3
    <2>. QED BY <2>1, <2>2 DEF Distance
  <1>6. Distance(start, counter)' < chunk' /\ chunk' = AtMost(ChunkMax, cycles')
    <2>1. AtMost(ChunkMax, cycles) \in 1..cycles
      BY <1>3, TimerSizes, AtMostIs
    <2>2. chunk' \in 1..cycles
      BY <1>1, <2>1, Zenon
    <2>3. 0 < chunk'
      BY <1>3, <2>2
    <2>. QED BY <1>1, <1>5, <2>3
  <1>7. PassedAre(S - cycles + Distance(start, counter), k + 2 * c + 1)'
    <2>1. S - cycles \in Nat /\ k + 2 * c \in Nat
      BY <1>3
    <2>2. S - cycles <= passed + g /\ passed + g <= S - cycles + (k + 2 * c + 1) * Latency
      BY <1>1, <1>3, <2>1, MoreReadings DEF PassedAre
    <2>3. S - cycles' + Distance(start, counter)' = S - cycles
      BY <1>1, <1>3, <1>5
    <2>. QED BY <1>4, <2>2, <2>3 DEF PassedAre
  <1>8. TimeIs(k, c, S)'
    BY <1>1, <1>3, <1>4, <1>5, <1>6, <1>7 DEF TimeIs
  <1>9. RoundsAre(k, S)'
    BY <1>1, <1>2 DEF RoundsAre
  <1>. QED BY <1>1, <1>8, <1>9

\* A reading in time, and the first that is not.
LEMMA ReadingKeeps ==
    ASSUME TimerInv, NEW g \in 0..Latency, delay_cycles(g), wanted > 0
    PROVE  usec' \in 0..wanted /\ \E k, c, S \in Nat : RoundsAre(k, S)' /\ TimeIs(k, c, S)'
  <1>1. /\ waiting = "reading" /\ wanted' = wanted /\ usec' = usec /\ start' = start /\ chunk' = chunk
        /\ usec \in 0..wanted /\ passed \in Nat /\ counter \in 0..CounterMod - 1 /\ Elapses(g)
    BY DEF TimerInv, delay_cycles
  <1>2. PICK k, c, S \in Nat : RoundsAre(k, S) /\ TimeIs(k, c, S)
    BY DEF TimerInv
  <1>3. PICK el \in Int : el = Distance(start, counter)
    <2>1. CounterMod \in Nat \ {0}
      BY TimerSizes
    <2>2. start - counter \in Int
      BY <1>1, <1>2, TimerSizes DEF TimeIs
    <2> DEFINE x == start - counter
    <2> HIDE DEF x
    <2>3. x % CounterMod \in 0..CounterMod - 1
      BY <2>1, <2>2, Remainder DEF x
    <2>. QED BY <2>3 DEF Distance, x
  <1>4. /\ cycles \in 1..S /\ chunk = AtMost(ChunkMax, cycles) /\ start \in 0..CounterMod - 1
        /\ el < chunk /\ PassedAre(S - cycles + el, k + 2 * c + 1)
        /\ (c - k + 1) * ChunkMax <= S - cycles
    BY <1>1, <1>2, <1>3 DEF TimeIs
  <1>5. chunk \in 1..ChunkMax /\ chunk \in 1..cycles /\ (chunk = ChunkMax \/ chunk = cycles)
    BY <1>4, TimerSizes, AtMostIs
  <1>6. el \in Nat /\ el + g < CounterMod
    <2>1. start - counter \in Int /\ CounterMod \in Nat \ {0}
      BY <1>1, <1>4, TimerSizes
    <2> DEFINE x == start - counter
    <2> HIDE DEF x
    <2>2. x % CounterMod \in 0..CounterMod - 1
      BY <2>1, Remainder DEF x
    <2>3. el \in 0..CounterMod - 1
      BY <1>3, <2>2 DEF Distance, x
    <2>. QED BY <1>4, <1>5, <2>3, TimerSizes
  <1>7. /\ counter' \in 0..CounterMod - 1 /\ passed' = passed + g
        /\ Distance(start, counter)' = el + g
    <2>1. counter' = (counter - g) % CounterMod /\ g \in Nat /\ CounterMod \in Nat \ {0}
      BY <1>1, TimerSizes DEF Elapses
    <2>2. ((start - counter) % CounterMod) + g < CounterMod
      BY <1>3, <1>6 DEF Distance
    <2>3. (start - ((counter - g) % CounterMod)) % CounterMod = ((start - counter) % CounterMod) + g
      BY <1>1, <1>4, <2>1, <2>2, DistanceGrows
    <2>4. (start' - counter') % CounterMod = el + g
      BY <1>1, <1>3, <2>1, <2>3 DEF Distance
    <2>. QED BY <1>1, <2>4, ElapsesIs DEF Distance
  <1>8. RoundsAre(k, S)'
    BY <1>1, <1>2 DEF RoundsAre
  <1> DEFINE r == k + 2 * c + 1
  <1>9. /\ S - cycles + el <= passed /\ passed <= S - cycles + el + r * Latency
        /\ r \in Nat /\ r * Latency \in Nat /\ (r + 1) * Latency = r * Latency + Latency
        /\ Latency \in Nat /\ S - cycles \in Nat
    BY <1>4, <1>6, TimerSizes DEF PassedAre
  <1>10. CASE el + g < chunk
    <2>1. waiting' = "reading" /\ cycles' = cycles
      BY <1>1, <1>7, <1>10 DEF delay_cycles, Distance
    <2>2. S - cycles + (el + g) <= passed + g /\ passed + g <= S - cycles + (el + g) + r * Latency
      <3> HIDE DEF r
      <3>. QED BY <1>1, <1>6, <1>9
    <2>3. PassedAre(S - cycles + Distance(start, counter), r)'
      BY <1>7, <2>1, <2>2 DEF PassedAre
    <2>4. TimeIs(k, c, S)'
      BY <1>1, <1>4, <1>7, <1>10, <2>1, <2>3 DEF TimeIs
    <2>. QED BY <1>1, <1>8, <2>4
  <1>11. CASE ~(el + g < chunk)
    <2>1. /\ cycles' = cycles - chunk
          /\ waiting' = IF cycles' > 0 THEN "chunk" ELSE IF usec > 0 THEN "udelay" ELSE "no"
      BY <1>1, <1>7, <1>11 DEF delay_cycles, Distance
    <2>2. PICK n \in Nat : n = S - cycles' /\ n = S - cycles + chunk
      <3>1. S - (cycles - chunk) = S - cycles + chunk /\ S - cycles + chunk \in Nat
        BY <1>4, <1>5
      <3>. QED BY <2>1, <3>1
    <2>3. PassedAre(n, k + 2 * (c + 1))'
      <3>1. n <= passed + g /\ passed + g <= n + (r + 1) * Latency
        <4> HIDE DEF r
        <4>. QED BY <1>1, <1>4, <1>5, <1>6, <1>9, <1>11, <2>2
      <3>2. k + 2 * (c + 1) = r + 1
        OBVIOUS
      <3>. QED BY <1>7, <3>1, <3>2 DEF PassedAre
    <2>4. (c + 1 - k + 1) * ChunkMax = (c - k + 1) * ChunkMax + ChunkMax
          /\ (c - k + 1) * ChunkMax \in Int /\ c + 1 - k = c - k + 1
      BY TimerSizes
    <2>5. CASE cycles' > 0
      <3>1. chunk = ChunkMax /\ waiting' = "chunk" /\ cycles' \in 1..S
        BY <1>4, <1>5, <2>1, <2>5
      <3>2. (c + 1 - k + 1) * ChunkMax <= n
        <4> DEFINE x == (c - k + 1) * ChunkMax
        <4>1. x \in Int /\ x <= S - cycles /\ (c + 1 - k + 1) * ChunkMax = x + ChunkMax
          BY <1>4, <2>4
        <4>2. S - cycles \in Int /\ n = S - cycles + ChunkMax /\ ChunkMax \in Int
          <5>1. n = S - cycles + ChunkMax
            BY <2>2, <3>1, Zenon
          <5>2. S - cycles \in Int
            BY <1>4
          <5>. QED BY <5>1, <5>2, TimerSizes
        <4> HIDE DEF x
        <4>3. x + ChunkMax <= n
          BY <4>1, <4>2
        <4>. QED BY <4>1, <4>3
      <3>3. TimeIs(k, c + 1, S)'
        BY <2>2, <2>3, <3>1, <3>2 DEF TimeIs
      <3>. QED BY <1>1, <1>8, <3>3
    <2>6. CASE ~(cycles' > 0)
      <3>1. cycles' = 0 /\ n = S
        BY <1>4, <1>5, <2>1, <2>2, <2>6
      <3>2. waiting' \in {"udelay", "no"} /\ (waiting' = "udelay" <=> usec' > 0)
        BY <1>1, <2>1, <2>6
      <3>3. (c + 1 - k) * ChunkMax <= S
        BY <1>4, <2>4
      <3>4. TimeIs(k, c + 1, S)'
        BY <2>3, <3>1, <3>2, <3>3 DEF TimeIs
      <3>. QED BY <1>1, <1>8, <3>4
    <2>. QED BY <2>5, <2>6
  <1>. QED BY <1>7, <1>10, <1>11

LEMMA TimerStep ==
    ASSUME TimerInv, [TimerNext]_timerVars
    PROVE  TimerInv'
  <1>1. ASSUME NEW n \in Delays, udelay(n) PROVE TimerInv'
    BY <1>1, UdelayKeeps
  <1>2. ASSUME NEW g \in 0..Latency, __udelay(g) \/ StartReading(g) \/ delay_cycles(g)
        PROVE  TimerInv'
    <2>1. wanted' = wanted /\ Elapses(g) /\ counter \in 0..CounterMod - 1 /\ wanted \in Nat
      BY <1>2 DEF __udelay, StartReading, delay_cycles, TimerInv
    <2>2. counter' \in 0..CounterMod - 1
      <3> DEFINE x == counter - g
      <3>1. x \in Int /\ CounterMod \in Nat \ {0}
        BY <2>1, TimerSizes
      <3> HIDE DEF x
      <3>2. x % CounterMod \in 0..CounterMod - 1
        BY <3>1, Remainder
      <3>. QED BY <2>1, <3>2 DEF Elapses, x
    <2>3. ASSUME wanted > 0
          PROVE  /\ usec' \in 0..wanted /\ passed' \in Nat
                 /\ \E k, c, S \in Nat : RoundsAre(k, S)' /\ TimeIs(k, c, S)'
      <3>1. passed \in Nat
        BY <2>3 DEF TimerInv
      <3>2. passed' \in Nat
        BY <2>1, <3>1, ElapsesIs
      <3>. QED BY <1>2, <2>3, <3>2, RoundKeeps, StartReadingKeeps, ReadingKeeps
    <2>. QED BY <2>1, <2>2, <2>3 DEF TimerInv
  <1>3. CASE UNCHANGED timerVars
    BY <1>3 DEF timerVars, TimerInv, RoundsAre, TimeIs, PassedAre, Distance
  <1>. QED BY <1>1, <1>2, <1>3 DEF TimerNext

\* The bounds of DelayKeepsTime, of what the rounds and chunks come to.
LEMMA RoundsBound ==
    ASSUME NEW w \in Nat \ {0}, NEW M \in Nat \ {0}, NEW k \in Nat, (k - 1) * M < w, k > 0
    PROVE  w \div M \in Nat /\ k <= 1 + w \div M
  <1> DEFINE q == w \div M
             r == w % M
  <1>1. q \in Nat /\ r \in 0..M - 1 /\ w = M * q + r
    OBVIOUS
  <1> HIDE DEF q, r
  <1>2. k <= 1 + q
    <2> SUFFICES ASSUME q + 1 <= k - 1 PROVE FALSE
      BY <1>1
    <2>1. (q + 1) * M <= (k - 1) * M
      BY <1>1, Monotone, k - 1 \in Nat, q + 1 \in Nat
    <2>2. (q + 1) * M = M * q + M /\ M * q \in Nat /\ (k - 1) * M \in Nat
      BY <1>1
    <2>. QED BY <1>1, <2>1, <2>2
  <1>. QED BY <1>1, <1>2 DEF q

LEMMA LostBound ==
    ASSUME NEW lost \in Nat, NEW w \in Nat, NEW k \in Nat, NEW K \in Nat, LostIn(lost, w, k), k <= K
    PROVE  lost <= AtMost(K * (Thousand - 1), w \div Thousand)
  <1> DEFINE T == Thousand
             U == Thousand - 1
             q == w \div T
             r == w % T
  <1>1. T \in Nat \ {0} /\ U \in Nat
    BY TimerSizes
  <1>2. q \in Nat /\ r \in 0..T - 1 /\ w = T * q + r
    <2> HIDE DEF T
    <2>. QED BY <1>1
  <1>3. lost * T <= w /\ lost <= k * U
    BY DEF LostIn
  <1> HIDE DEF T, U, q, r
  <1>4. lost <= K * U
    <2>1. k * U <= K * U /\ k * U \in Nat /\ K * U \in Nat
      BY <1>1, Monotone
    <2>. QED BY <1>3, <2>1
  <1>5. lost <= q
    <2> SUFFICES ASSUME q + 1 <= lost PROVE FALSE
      BY <1>2
    <2>1. (q + 1) * T <= lost * T /\ q + 1 \in Nat
      BY <1>1, <1>2, Monotone
    <2>2. (q + 1) * T = T * q + T /\ T * q \in Nat /\ lost * T \in Nat
      BY <1>1, <1>2
    <2>. QED BY <1>1, <1>2, <1>3, <2>1, <2>2
  <1>. QED BY <1>4, <1>5 DEF AtMost, T, U, q

LEMMA SumBound ==
    ASSUME NEW S \in Nat, NEW a \in Nat, NEW P \in Nat \ {0}, NEW k \in Nat, NEW K \in Nat,
           k <= K, S * P <= a + k * P
    PROVE  a \div P \in Nat /\ S <= a \div P + K
  <1> DEFINE q == a \div P
             r == a % P
  <1>1. q \in Nat /\ r \in 0..P - 1 /\ a = P * q + r
    OBVIOUS
  <1> HIDE DEF q, r
  <1>2. S <= q + k
    <2> SUFFICES ASSUME q + k + 1 <= S PROVE FALSE
      BY <1>1
    <2>1. q + k + 1 \in Nat
      BY <1>1
    <2>2. (q + k + 1) * P <= S * P
      BY <2>1, Monotone
    <2>3. (q + k + 1) * P = P * q + k * P + P /\ P * q \in Nat /\ k * P \in Nat /\ S * P \in Nat
      BY <1>1
    <2>. QED BY <1>1, <2>2, <2>3
  <1>. QED BY <1>1, <1>2 DEF q

LEMMA ChunksBound ==
    ASSUME NEW S \in Nat, NEW W \in Nat, NEW M \in Nat \ {0}, NEW c \in Nat, NEW k \in Nat,
           NEW K \in Nat, S <= W, k <= K, (c - k) * M <= S
    PROVE  W \div M \in Nat /\ k + 2 * c <= K + 2 * (K + W \div M)
  <1> DEFINE q == W \div M
             r == W % M
  <1>1. q \in Nat /\ r \in 0..M - 1 /\ W = M * q + r
    OBVIOUS
  <1> HIDE DEF q, r
  <1>2. c - k <= q
    <2> SUFFICES ASSUME q + 1 <= c - k PROVE FALSE
      BY <1>1
    <2>1. q + 1 \in Nat /\ c - k \in Nat
      BY <1>1
    <2>2. (q + 1) * M <= (c - k) * M /\ (c - k) * M \in Nat
      BY <2>1, Monotone
    <2>3. (q + 1) * M = M * q + M /\ M * q \in Nat
      BY <1>1
    <2>. QED BY <1>1, <2>2, <2>3
  <1>. QED BY <1>1, <1>2 DEF q

LEMMA TimerGood == TimerInv => DelayKeepsTime
  <1> SUFFICES ASSUME TimerInv, waiting = "no", wanted > 0 PROVE DelayKeepsTime
    BY DEF DelayKeepsTime
  <1> DEFINE K == 1 + wanted \div RoundMax
             W == (wanted * timer_rate) \div second + K
             B == AtMost(K * (Thousand - 1), wanted \div Thousand)
  <1>1. wanted \in Nat \ {0} /\ passed \in Nat /\ usec \in 0..wanted
    BY DEF TimerInv
  <1>2. PICK k, c, S \in Nat : RoundsAre(k, S) /\ TimeIs(k, c, S)
    BY DEF TimerInv
  <1>3. usec = 0 /\ PassedAre(S, k + 2 * c) /\ (c - k) * ChunkMax <= S
    BY <1>1, <1>2 DEF TimeIs
  <1>4. PICK L \in Nat : /\ k > 0 /\ (k - 1) * RoundMax < wanted
                         /\ S * second <= wanted * timer_rate + k * second
                         /\ LostIn(L, wanted, k)
                         /\ wanted * timer_rate + k <= (S + L + 2 * k) * second
    <2>1. wanted - usec = wanted
      BY <1>1, <1>3
    <2>. QED BY <1>2, <1>3, <2>1 DEF RoundsAre
  <1>5. K \in Nat /\ k <= K
    BY <1>1, <1>4, RoundsBound, TimerSizes
  <1>6. AtMost(wanted, 1) = 1
    BY <1>1 DEF AtMost
  <1>7. wanted * timer_rate \in Nat
    BY <1>1, TimerSizes
  <1> HIDE DEF K
  <1>8. W \in Nat /\ S <= W
    <2> DEFINE a == wanted * timer_rate
    <2>1. a \in Nat /\ S * second <= a + k * second /\ second \in Nat \ {0}
      BY <1>4, <1>7, TimerSizes
    <2> HIDE DEF a
    <2>2. a \div second \in Nat /\ S <= a \div second + K
      BY <1>5, <2>1, SumBound
    <2>. QED BY <1>5, <2>2 DEF a
  <1> HIDE DEF W
  <1>9. W \div ChunkMax \in Nat /\ k + 2 * c <= K + 2 * (K + W \div ChunkMax)
    BY <1>3, <1>5, <1>8, ChunksBound, TimerSizes
  <1>10. passed <= W + (K + 2 * (K + W \div ChunkMax)) * Latency
    <2> DEFINE r == K + 2 * (K + W \div ChunkMax)
    <2>1. r \in Nat /\ k + 2 * c <= r /\ k + 2 * c \in Nat /\ Latency \in Nat
      BY <1>5, <1>9, TimerSizes
    <2> HIDE DEF r
    <2>2. (k + 2 * c) * Latency <= r * Latency /\ (k + 2 * c) * Latency \in Nat /\ r * Latency \in Nat
      BY <2>1, Monotone
    <2>3. passed <= W + r * Latency
      BY <1>1, <1>3, <1>8, <2>2 DEF PassedAre
    <2>. QED BY <2>3 DEF r
  <1>11. (passed + (B + 2 * K)) * second > wanted * timer_rate
    <2>1. L <= B /\ B \in Int
      <3>1. L <= B
        BY <1>1, <1>4, <1>5, LostBound
      <3>2. K * (Thousand - 1) \in Int /\ wanted \div Thousand \in Int
        BY <1>1, <1>5, TimerSizes
      <3>. QED BY <3>1, <3>2 DEF AtMost
    <2> HIDE DEF B
    <2>2. S <= passed
      BY <1>3 DEF PassedAre
    <2> DEFINE x == S + L + 2 * k
               y == passed + (B + 2 * K)
    <2>3. x \in Nat /\ y \in Nat /\ x <= y
      BY <1>1, <1>5, <2>1, <2>2
    <2>4. wanted * timer_rate + k <= x * second
      BY <1>4
    <2> HIDE DEF x, y
    <2>5. x * second <= y * second /\ x * second \in Nat /\ y * second \in Nat
      BY <2>3, Monotone, TimerSizes
    <2>6. y * second > wanted * timer_rate
      BY <1>4, <1>7, <2>4, <2>5
    <2>. QED BY <2>6 DEF y
  <1>12. B = AtMost(K * (Thousand - 1), wanted \div Thousand)
    OBVIOUS
  <1> HIDE DEF B
  <1>. QED BY <1>6, <1>10, <1>11, <1>12 DEF DelayKeepsTime, second, K, W

-----------------------------------------------------------------------------
(***************************************************************************)
(* cmd_memtest(): the ramp after a pattern that is not negative is the     *)
(* complement of the one before, so that the bit which was the one that    *)
(* stays is not in the next.                                               *)
(***************************************************************************)
LEMMA UniqueRemainder ==
    ASSUME NEW M \in Nat \ {0}, NEW k \in Int, NEW r \in 0..M - 1, NEW x \in Int, x = M * k + r
    PROVE  x % M = r /\ x \div M = k
  <1> DEFINE q == x \div M
             s == x % M
  <1>1. q \in Int /\ s \in 0..M - 1 /\ x = M * q + s
    BY Remainder
  <1> HIDE DEF q, s
  <1> DEFINE d == q - k
  <1>2. M * d = M * q - M * k /\ M * d \in Int /\ M * q \in Int /\ M * k \in Int /\ d \in Int
    BY <1>1
  <1>3. M * d = r - s
    BY <1>1, <1>2
  <1> HIDE DEF d
  <1>4. d < 1
    <2> SUFFICES ASSUME d >= 1 PROVE FALSE
      BY <1>2
    <2>1. 1 * M <= d * M /\ d * M = M * d
      BY <1>2, Monotone, d \in Nat
    <2>. QED BY <1>1, <1>3, <2>1
  <1>5. d > -1
    <2> SUFFICES ASSUME d <= -1 PROVE FALSE
      BY <1>2
    <2>1. -d \in Nat /\ 1 <= -d
      BY <1>2
    <2>2. 1 * M <= (-d) * M /\ (-d) * M = -(M * d)
      BY <1>2, <2>1, Monotone
    <2>. QED BY <1>1, <1>3, <2>2
  <1>6. d = 0 /\ M * d = 0
    BY <1>2, <1>4, <1>5
  <1>7. q = k /\ s = r
    BY <1>1, <1>3, <1>6 DEF d
  <1>. QED BY <1>7 DEF q, s

LEMMA WordSizes ==
    /\ WordRange \in Nat \ {0} /\ TopBit \in Nat /\ WordRange = 2 * TopBit /\ TopBit > 0
    /\ Words \in Nat \ {0} /\ Words <= WordRange
  BY MemTestAssumption DEF TopBit

LEMMA WrapIs ==
    ASSUME NEW x \in Int
    PROVE  Wrap(x) \in 0..WordRange - 1
  BY Remainder, WordSizes DEF Wrap

\* The bit worth w of n, and of its complement.
Bit(n, w) == (n \div w) % 2
Complement(n) == WordRange - 1 - n

LEMMA ComplementFlips ==
    ASSUME NEW w \in Weights, NEW n \in 0..WordRange - 1
    PROVE  Bit(n, w) \in {0, 1} /\ Bit(Complement(n), w) # Bit(n, w)
  <1>1. w \in Nat \ {0} /\ WordRange \in Nat /\ WordRange % (2 * w) = 0
    BY WordSizes DEF Weights
  <1> DEFINE q == n \div w
             r == n % w
             j == WordRange \div (2 * w)
  <1>2. q \in Int /\ r \in 0..w - 1 /\ n = w * q + r
    BY <1>1, Remainder
  <1>3. j \in Int /\ WordRange = 2 * (w * j)
    <2> DEFINE D == 2 * w
    <2>1. D \in Nat \ {0}
      BY <1>1
    <2> HIDE DEF D
    <2>2. WordRange \div D \in Int /\ WordRange = D * (WordRange \div D) + (WordRange % D)
      BY <1>1, <2>1, Remainder
    <2>3. j \in Int /\ WordRange = D * j
      BY <1>1, <2>1, <2>2 DEF D
    <2> HIDE DEF j
    <2>. QED BY <1>1, <2>3 DEF D
  <1> HIDE DEF q, r, j
  <1>4. Complement(n) = w * (2 * j - 1 - q) + (w - 1 - r)
    <2>1. w * (2 * j - 1 - q) = 2 * (w * j) - w - w * q /\ w * j \in Int /\ w * q \in Int
      BY <1>1, <1>2, <1>3
    <2>. QED BY <1>1, <1>2, <1>3, <2>1 DEF Complement
  <1> DEFINE c == Complement(n)
             k == 2 * j - 1 - q
             s == w - 1 - r
  <1>5. c \in Int /\ k \in Int /\ s \in 0..w - 1
    BY <1>1, <1>2, <1>3, WordSizes DEF Complement
  <1>6. c \div w = k
    <2> HIDE DEF c, k, s
    <2>1. c = w * k + s
      BY <1>4 DEF c, k, s
    <2>. QED BY <1>1, <1>5, <2>1, UniqueRemainder
  <1>7. k % 2 # q % 2 /\ q % 2 \in {0, 1}
    BY <1>2, <1>3
  <1>. QED BY <1>6, <1>7 DEF Bit, q

LEMMA WrapOf ==
    ASSUME NEW x \in Int, NEW k \in Int, NEW r \in 0..WordRange - 1, x = WordRange * k + r
    PROVE  Wrap(x) = r
  <1>1. WordRange \in Nat \ {0}
    BY WordSizes
  <1>2. x % WordRange = r
    BY <1>1, UniqueRemainder
  <1>. QED BY <1>2 DEF Wrap

\* Numbers less than the range apart are apart in it.
LEMMA WordsApart ==
    ASSUME NEW x \in Int, NEW d \in 1..WordRange - 1
    PROVE  Wrap(x) # Wrap(x + d)
  <1> DEFINE y == x + d
             q == x \div WordRange
             s == y \div WordRange
             r == Wrap(x)
             t == Wrap(y)
  <1>1. y \in Int /\ d = y - x /\ d > 0 /\ d < WordRange /\ WordRange \in Nat \ {0}
    BY WordSizes
  <1>2. q \in Int /\ r \in 0..WordRange - 1 /\ x = WordRange * q + r
    BY <1>1, Remainder DEF Wrap
  <1> HIDE DEF y
  <1>3. s \in Int /\ t \in 0..WordRange - 1 /\ y = WordRange * s + t
    BY <1>1, Remainder DEF Wrap
  <1> HIDE DEF q, s, r, t
  <1> DEFINE e == s - q
  <1>4. e \in Int /\ WordRange * e = WordRange * s - WordRange * q
        /\ WordRange * s \in Int /\ WordRange * q \in Int /\ WordRange * e \in Int
    BY <1>1, <1>2, <1>3
  <1> HIDE DEF e
  <1>5. ASSUME r = t PROVE FALSE
    <2>1. WordRange * e = d
      BY <1>1, <1>2, <1>3, <1>4, <1>5
    <2>2. CASE e >= 1
      <3>1. 1 * WordRange <= e * WordRange /\ e * WordRange = WordRange * e
        BY <1>1, <1>4, <2>2, Monotone, e \in Nat
      <3>. QED BY <1>1, <2>1, <3>1
    <2>3. CASE e <= 0
      <3>1. -e \in Nat /\ (-e) * WordRange \in Nat /\ (-e) * WordRange = -(WordRange * e)
        BY <1>1, <1>4, <2>3
      <3>. QED BY <1>1, <2>1, <3>1
    <2>. QED BY <1>4, <2>2, <2>3
  <1>. QED BY <1>5 DEF r, t, y

\* The next ramp.
LEMMA NextRampIs ==
    ASSUME NEW p \in 0..WordRange - 1, NEW i \in {1, -1}, NEW a \in Cells
    PROVE  /\ NextPattern(p) \in 0..WordRange - 1
           /\ p < TopBit => Wrap(NextPattern(p) + (-i) * a) = Complement(Wrap(p + i * a))
           /\ p > TopBit => NextPattern(p) < TopBit
  <1> DEFINE M == WordRange
  <1>0. M \in Nat \ {0} /\ p \in Nat /\ p < M /\ a \in Nat /\ M = 2 * TopBit /\ TopBit \in Nat
    BY WordSizes DEF Cells
  <1>1. CASE p < TopBit
    <2>1. NextPattern(p) = M - 1 - p
      <3> DEFINE x == -p - 1
                 k == -1
                 r == M - 1 - p
      <3>1. x \in Int /\ k \in Int /\ r \in 0..WordRange - 1 /\ x = WordRange * k + r
        BY <1>0
      <3>2. ~(p >= TopBit)
        BY <1>0, <1>1
      <3> HIDE DEF x, k, r
      <3>3. Wrap(x) = r
        BY <3>1, WrapOf
      <3>. QED BY <3>2, <3>3 DEF NextPattern, x, r
    <2> DEFINE x == p + i * a
               n == Wrap(x)
               q == x \div WordRange
    <2>2. x \in Int /\ M - 1 - p + (-i) * a = M - 1 - x
      BY <1>0
    <2>3. n \in 0..WordRange - 1 /\ q \in Int /\ x = WordRange * q + n
      <3> HIDE DEF x
      <3>. QED BY <1>0, <2>2, Remainder DEF Wrap
    <2>4. Wrap(M - 1 - x) = M - 1 - n
      <3> HIDE DEF x, n, q
      <3> DEFINE y == M - 1 - x
                 k == -q
                 r == M - 1 - n
      <3>1. WordRange * k = -(WordRange * q) /\ WordRange * q \in Int
        BY <1>0, <2>3
      <3>2. y \in Int /\ k \in Int /\ r \in 0..WordRange - 1
        BY <1>0, <2>2, <2>3
      <3>3. y = WordRange * k + r
        BY <1>0, <2>2, <2>3, <3>1
      <3> HIDE DEF y, k, r
      <3>4. Wrap(y) = r
        BY <3>2, <3>3, WrapOf
      <3>. QED BY <3>4 DEF y, r
    <2>5. Wrap(NextPattern(p) + (-i) * a) = Complement(n)
      BY <2>1, <2>2, <2>4 DEF Complement
    <2>. QED BY <1>0, <1>1, <2>1, <2>5
  <1>2. CASE p >= TopBit
    <2> DEFINE x == -p
               k == -1
               r == M - p
    <2>1. x \in Int /\ k \in Int /\ r \in 0..WordRange - 1 /\ x = WordRange * k + r
      BY <1>0, <1>2
    <2> HIDE DEF x, k, r
    <2>2. Wrap(x) = r
      BY <2>1, WrapOf
    <2>3. NextPattern(p) = M - p
      BY <1>2, <2>2 DEF NextPattern, x, r
    <2>. QED BY <1>0, <1>2, <2>3
  <1>. QED BY <1>0, <1>1, <1>2

-----------------------------------------------------------------------------
\* The bit that stays is not what the ramp to be written needs.
Doomed == Bit(Ramp(fault.a), fault.b) # fault.v

MemInv ==
    /\ fault \in Faults /\ first \in 0..WordRange - 1 /\ pattern \in 0..WordRange - 1
    /\ incr \in {1, -1} /\ passes \in Nat /\ error \in BOOLEAN
    /\ error => fault # Sound
    /\ passes = 0 => pattern = first
    /\ passes = 1 => pattern = NextPattern(first)
    /\ fault.kind = "same" /\ ~error => passes = 0
    /\ fault.kind = "stuck" /\ ~error /\ first # TopBit =>
        /\ passes < (IF first < TopBit THEN 2 ELSE 3)
        /\ passes = (IF first < TopBit THEN 1 ELSE 2) => Doomed

LEMMA MemInitially == ASSUME MemInit PROVE MemInv
  <1>1. first \in Nat /\ TopBit \in Nat
    BY WordSizes DEF MemInit
  <1>2. error = FALSE /\ fault \in Faults
    BY DEF MemInit
  <1>3. /\ first \in 0..WordRange - 1 /\ pattern \in 0..WordRange - 1
        /\ incr \in {1, -1} /\ passes \in Nat /\ passes = 0 /\ pattern = first
        /\ passes # 1 /\ passes < 2 /\ passes < 3 /\ passes # 2
    BY DEF MemInit
  <1>4. /\ passes < (IF first < TopBit THEN 2 ELSE 3)
        /\ passes # (IF first < TopBit THEN 1 ELSE 2)
    BY <1>3
  <1>. QED BY <1>2, <1>3, <1>4, Zenon DEF MemInv

LEMMA FaultKinds ==
    ASSUME NEW f \in Faults
    PROVE  \/ f = Sound /\ f.kind = "none"
           \/ f.kind = "stuck" /\ f.a \in Cells /\ f.b \in Weights /\ f.v \in {0, 1}
           \/ f.kind = "same" /\ f.a \in Cells /\ f.b \in Cells /\ f.a < f.b
  BY DEF Faults, Sound

LEMMA RampIs ==
    ASSUME MemInv, NEW k \in Cells
    PROVE  pattern + incr * k \in Int /\ Ramp(k) \in 0..WordRange - 1
  <1> DEFINE x == pattern + incr * k
  <1>1. x \in Int
    BY WordSizes DEF MemInv, Cells
  <1> HIDE DEF x
  <1>2. Wrap(x) \in 0..WordRange - 1
    BY <1>1, WrapIs
  <1>. QED BY <1>1, <1>2 DEF x, Ramp

\* A pass that finds nothing.
LEMMA NothingFound ==
    ASSUME MemInv, \A k \in Cells : Readback(k) = Ramp(k)
    PROVE  /\ fault.kind # "same"
           /\ fault.kind = "stuck" => ~Doomed
  <1>1. ASSUME fault.kind = "same" PROVE FALSE
    <2> DEFINE a == fault.a
               b == fault.b
    <2>1. a \in Cells /\ b \in Cells /\ a < b
      BY <1>1, FaultKinds DEF MemInv, Sound
    <2>2. Ramp(b) = Ramp(a)
      <3>1. Readback(a) = Ramp(b)
        BY <1>1 DEF Readback
      <3>2. Readback(a) = Ramp(a)
        BY <2>1
      <3>. QED BY <3>1, <3>2
    <2> DEFINE x == pattern + incr * a
               y == pattern + incr * b
    <2>3. x \in Int /\ y \in Int
      BY <2>1, RampIs
    <2>4. Wrap(x) = Wrap(y)
      BY <2>2 DEF Ramp
    <2>5. y = x + incr * (b - a) /\ b - a \in 1..WordRange - 1
      BY <2>1, WordSizes DEF Cells, MemInv
    <2> DEFINE d == b - a
    <2>6. d \in 1..WordRange - 1 /\ (y = x + d \/ x = y + d)
      <3>1. incr = 1 \/ incr = -1
        BY DEF MemInv
      <3> HIDE DEF x, y
      <3>2. b \in Int /\ a \in Int
        BY <2>1, WordSizes DEF Cells
      <3>. QED BY <2>3, <2>5, <3>1, <3>2
    <2> HIDE DEF x, y, d
    <2>7. CASE y = x + d
      <3>1. Wrap(x) # Wrap(x + d)
        BY ONLY <2>3, <2>6, WordsApart, Zenon
      <3>. QED BY <2>4, <2>7, <3>1
    <2>8. CASE x = y + d
      <3>1. Wrap(y) # Wrap(y + d)
        BY ONLY <2>3, <2>6, WordsApart, Zenon
      <3>. QED BY <2>4, <2>8, <3>1
    <2>. QED BY <2>6, <2>7, <2>8
  <1>2. ASSUME fault.kind = "stuck" PROVE ~Doomed
    <2> DEFINE a == fault.a
               n == Ramp(a)
               w == fault.b
               v == fault.v
               u == Bit(n, w)
    <2>1. a \in Cells /\ w \in Weights /\ v \in {0, 1}
      BY <1>2, FaultKinds DEF MemInv, Sound
    <2>2. n \in 0..WordRange - 1
      BY <2>1, RampIs
    <2>3. Readback(a) = Stuck(n) /\ Readback(a) = n
      BY <1>2, <2>1 DEF Readback
    <2>4. Stuck(n) = n + (v - u) * w
      BY DEF Stuck, Bit
    <2> HIDE DEF n
    <2>5. u \in {0, 1}
      BY <2>1, <2>2, ComplementFlips
    <2>6. w \in Nat /\ w > 0 /\ n \in Nat
      BY <2>1, <2>2, WordSizes DEF Weights
    <2> HIDE DEF w, v, u
    <2>7. u = v
      <3>1. n = n + (v - u) * w
        BY <2>3, <2>4, Zenon
      <3>2. v \in {0, 1}
        BY <2>1
      <3>. QED BY ONLY <2>5, <2>6, <3>1, <3>2
    <2>. QED BY <2>7 DEF Doomed, u, v, n, w
  <1>. QED BY <1>1, <1>2

LEMMA MemStep == ASSUME MemInv, [MemNext]_memVars PROVE MemInv'
  <1>1. CASE UNCHANGED memVars
    BY <1>1 DEF MemInv, memVars, Doomed, Ramp
  <1>2. CASE Pass
    <2>1. ~error /\ fault' = fault /\ first' = first
      BY <1>2 DEF Pass
    <2>2. CASE \A k \in Cells : Readback(k) = Ramp(k)
      <3>1. /\ pattern' = NextPattern(pattern) /\ incr' = -incr /\ error' = error
            /\ passes' = (IF passes = Passes THEN passes ELSE passes + 1)
        BY <1>2, <2>2 DEF Pass
      <3>2. fault.kind # "same" /\ (fault.kind = "stuck" => ~Doomed)
        BY <2>2, NothingFound
      <3>3. pattern \in 0..WordRange - 1 /\ incr \in {1, -1} /\ passes \in Nat /\ first \in 0..WordRange - 1
        BY DEF MemInv
      <3>4. \A a \in Cells :
                /\ NextPattern(pattern) \in 0..WordRange - 1
                /\ pattern < TopBit => Wrap(NextPattern(pattern) + (-incr) * a)
                                        = Complement(Wrap(pattern + incr * a))
                /\ pattern > TopBit => NextPattern(pattern) < TopBit
        BY <3>3, NextRampIs
      <3>5. 0 \in Cells
        BY WordSizes DEF Cells
      <3>6. pattern' \in 0..WordRange - 1 /\ incr' \in {1, -1}
        BY <3>1, <3>3, <3>4, <3>5
      <3>7. passes' \in Nat /\ passes' # 0 /\ (passes' = 1 => passes = 0) /\ (passes' = 2 => passes = 1)
            /\ (passes' = passes + 1 \/ (passes = 4 /\ passes' = 4))
        BY <3>1, <3>3 DEF Passes
      <3>8. passes' = 1 => pattern' = NextPattern(first')
        BY <2>1, <3>1, <3>7 DEF MemInv
      <3>9. ASSUME fault.kind = "stuck", first # TopBit
            PROVE  /\ passes' < (IF first < TopBit THEN 2 ELSE 3)
                   /\ passes' = (IF first < TopBit THEN 1 ELSE 2) => Doomed'
        <4>1. ~Doomed /\ passes < (IF first < TopBit THEN 2 ELSE 3)
              /\ passes # (IF first < TopBit THEN 1 ELSE 2)
          BY <2>1, <3>2, <3>9 DEF MemInv
        <4>2. passes' < (IF first < TopBit THEN 2 ELSE 3)
          BY <3>3, <3>7, <4>1
        <4>3. ASSUME passes' = (IF first < TopBit THEN 1 ELSE 2) PROVE Doomed'
          <5>1. pattern < TopBit
            <6>1. first \in Int /\ TopBit \in Int
              BY <3>3, WordSizes
            <6>2. CASE first < TopBit
              BY <3>7, <4>3, <6>2 DEF MemInv
            <6>3. CASE first > TopBit
              <7>1. NextPattern(first) < TopBit
                BY <3>3, <3>5, <6>3, NextRampIs
              <7>2. passes = 1
                BY <3>7, <4>3, <6>1, <6>3
              <7>. QED BY <7>1, <7>2 DEF MemInv
            <6>. QED BY <3>9, <6>1, <6>2, <6>3
          <5> DEFINE a == fault.a
                     w == fault.b
                     n == Ramp(a)
          <5>2. a \in Cells /\ w \in Weights /\ fault.v \in {0, 1}
            BY <3>9, FaultKinds DEF MemInv, Sound
          <5>3. Wrap(NextPattern(pattern) + (-incr) * a) = Complement(n)
            BY <3>4, <5>1, <5>2 DEF Ramp
          <5>4. n \in 0..WordRange - 1
            BY <5>2, RampIs
          <5>5. Bit(n, w) \in {0, 1} /\ Bit(Complement(n), w) # Bit(n, w)
            <6> HIDE DEF n
            <6>. QED BY <5>2, <5>4, ComplementFlips
          <5>6. Bit(n, w) = fault.v
            BY <4>1 DEF Doomed
          <5>7. Ramp(fault.a)' = Complement(Ramp(fault.a))
            BY <2>1, <3>1, <5>3 DEF Ramp
          <5>8. Bit(Ramp(fault.a)', fault.b) # fault.v
            BY <5>5, <5>6, <5>7
          <5>. QED BY <2>1, <5>8 DEF Doomed, Bit
        <4>. QED BY <4>2, <4>3
      <3>10. fault' \in Faults /\ error' \in BOOLEAN /\ (error' => fault' # Sound)
        BY <2>1, <3>1 DEF MemInv
      <3>. QED BY <2>1, <3>1, <3>2, <3>3, <3>6, <3>7, <3>8, <3>9, <3>10, Zenon DEF MemInv
    <2>3. CASE ~(\A k \in Cells : Readback(k) = Ramp(k))
      <3>1. error' = TRUE /\ UNCHANGED <<pattern, incr, passes>>
        BY <1>2, <2>3 DEF Pass
      <3>2. fault # Sound
        <4> SUFFICES ASSUME fault = Sound PROVE FALSE
          OBVIOUS
        <4>1. fault.kind = "none"
          BY DEF Sound
        <4>. QED BY <2>3, <4>1 DEF Readback
      <3>. QED BY <2>1, <3>1, <3>2, Zenon DEF MemInv
    <2>. QED BY <2>2, <2>3
  <1>. QED BY <1>1, <1>2 DEF MemNext

LEMMA MemGood == ASSUME MemInv PROVE FaultsAreFound
  <1>1. ASSUME fault # Sound, first # TopBit, ~error
        PROVE  passes < (IF first < TopBit THEN 2 ELSE 3)
    <2>1. fault.kind = "stuck" \/ fault.kind = "same"
      BY <1>1, FaultKinds DEF MemInv
    <2>2. CASE fault.kind = "stuck"
      BY <1>1, <2>2 DEF MemInv
    <2>3. CASE fault.kind = "same"
      BY <1>1, <2>3 DEF MemInv
    <2>. QED BY <2>1, <2>2, <2>3
  <1>. QED BY <1>1 DEF FaultsAreFound, MemInv

-----------------------------------------------------------------------------
(***************************************************************************)
(* cmd_kermit.c, character by character.  The check tells a changed bit    *)
(* from its sum; a lost character, or a '#' too many or too few, moves the *)
(* place where the check is looked for to a character that is none.        *)
(***************************************************************************)
Octet == 0..255
OneBit == {1, 2, 4, 8, 16, 32, 64, 128}
Checks == 32..95

LEMMA OctetIsInt == \A n \in Octet : n \in Int
  BY DEF Octet

LEMMA OctetsAre ==
    /\ \A n \in Int : ByteOf(n) \in Octet
    /\ \A n \in Octet : ByteOf(n) = n
    /\ \A s \in Octet : Check(s) \in Checks
    /\ MARK \in Octet \ Checks /\ EOL \in Octet \ Checks /\ EOL # MARK /\ Quote \in Octet
    /\ \A n \in 0..94 : TOCHAR(n) = n + 32 /\ UNCHAR(TOCHAR(n)) = n
  <1>1. /\ \A n \in Int : ByteOf(n) \in Octet
        /\ \A n \in Octet : ByteOf(n) = n
    BY DEF ByteOf, Octet
  <1>2. \A s \in Octet : Check(s) \in Checks
    BY DEF Check, TOCHAR, ByteOf, Octet, Checks
  <1>3. \A n \in 0..94 : TOCHAR(n) = n + 32 /\ UNCHAR(TOCHAR(n)) = n
    BY DEF TOCHAR, UNCHAR, ByteOf
  <1>. QED BY <1>1, <1>2, <1>3 DEF MARK, EOL, Quote, Octet, Checks

LEMMA FlipIs ==
    ASSUME NEW c \in Octet, NEW b \in OneBit
    PROVE  FlipBit(c, b) \in Octet /\ (FlipBit(c, b) = c + b \/ FlipBit(c, b) = c - b)
  <1>1. b = 1 \/ b = 2 \/ b = 4 \/ b = 8 \/ b = 16 \/ b = 32 \/ b = 64 \/ b = 128
    BY DEF OneBit
  <1>2. c \in Nat /\ c <= 255
    BY DEF Octet
  <1>3. FlipBit(c, b) = c + b \/ FlipBit(c, b) = c - b
    BY DEF FlipBit
  <1>4. FlipBit(c, b) \in Octet
    <2> USE DEF FlipBit, Octet
    <2>1. CASE b = 1
      BY <1>2, <2>1
    <2>2. CASE b = 2
      BY <1>2, <2>2
    <2>3. CASE b = 4
      BY <1>2, <2>3
    <2>4. CASE b = 8
      BY <1>2, <2>4
    <2>5. CASE b = 16
      BY <1>2, <2>5
    <2>6. CASE b = 32
      BY <1>2, <2>6
    <2>7. CASE b = 64
      BY <1>2, <2>7
    <2>8. CASE b = 128
      BY <1>2, <2>8
    <2>. QED BY <1>1, <2>1, <2>2, <2>3, <2>4, <2>5, <2>6, <2>7, <2>8
  <1>. QED BY <1>3, <1>4

\* The sum folded to six bits changes with each bit of a character.
LEMMA CheckTells ==
    ASSUME NEW s \in Octet, NEW b \in OneBit, NEW d \in {b, -b}
    PROVE  Check(ByteOf(s + d)) # Check(s)
  <1>1. b = 1 \/ b = 2 \/ b = 4 \/ b = 8 \/ b = 16 \/ b = 32 \/ b = 64 \/ b = 128
    BY DEF OneBit
  <1>2. d = b \/ d = -b
    OBVIOUS
  <1> USE DEF Octet, Check, TOCHAR, ByteOf
  <1>3. CASE b \in {1, 2, 4}
    BY <1>2, <1>3
  <1>4. CASE b \in {8, 16, 32}
    BY <1>2, <1>4
  <1>5. CASE b \in {64, 128}
    BY <1>2, <1>5
  <1>. QED BY <1>1, <1>3, <1>4, <1>5

\* The states the sum passes through.
LEMMA SumFolds ==
    ASSUME NEW chars \in Seq(Octet)
    PROVE  \E g \in [0..Len(chars) -> Octet] :
             /\ g[0] = 0
             /\ \A k \in 1..Len(chars) : g[k] = ByteOf(g[k - 1] + chars[k])
             /\ Sum(chars) = g[Len(chars)]
  <1> DEFINE n == Len(chars)
             step == [k \in 1..n |-> [s \in Octet |-> ByteOf(s + chars[k])]]
             Is(f) == f = [s \in SUBSET DOMAIN chars |->
                             IF s = {} THEN 0 ELSE ByteOf(f[s \ {Max(s)}] + chars[Max(s)])]
             all == CHOOSE f : Is(f)
             g == Partials(all, n)
  <1>1. n \in Nat /\ DOMAIN chars = 1..n /\ \A k \in 1..n : chars[k] \in Octet
    BY LenProperties
  <1>2. 0 \in Octet
    BY DEF Octet
  <1>3. \A k \in 1..n : \A s \in Octet : ByteOf(s + chars[k]) \in Octet
    <2> TAKE k \in 1..n
    <2> TAKE s \in Octet
    <2>1. chars[k] \in Int /\ s \in Int
      <3>1. chars[k] \in Octet
        BY <1>1
      <3>. QED BY <3>1, OctetIsInt, Zenon
    <2> DEFINE x == s + chars[k]
    <2>2. x \in Int
      BY <2>1
    <2> HIDE DEF x
    <2>3. ByteOf(x) \in Octet
      BY <2>2, OctetsAre
    <2>. QED BY <2>3 DEF x
  <1>4. step \in Steps(Octet, n)
    BY <1>3 DEF Steps
  <1>5. PICK it \in [SUBSET (1..n) -> Octet] : IsFold(it, n, 0, step)
    <2> HIDE DEF n, step
    <2>. QED BY <1>1, <1>2, <1>4, FoldExists
  <1>6. ASSUME NEW s \in SUBSET (1..n), s # {} PROVE Max(s) \in 1..n /\ s \ {Max(s)} \in SUBSET (1..n)
    <2> HIDE DEF n
    <2>1. s \in SUBSET (0..n)
      <3>1. \A x \in s : x \in 0..n
        OBVIOUS
      <3>. QED BY <3>1
    <2>. QED BY <1>1, <1>6, <2>1, Greatest
  <1>7. Is(it)
    <2>1. ASSUME NEW s \in SUBSET (1..n), s # {}
          PROVE  step[Max(s)][it[s \ {Max(s)}]] = ByteOf(it[s \ {Max(s)}] + chars[Max(s)])
      <3>1. it[s \ {Max(s)}] \in Octet
        BY <1>6, <2>1
      <3>. QED BY <1>6, <2>1, <3>1
    <2> HIDE DEF step, n
    <2>. QED BY <1>1, <1>5, <2>1 DEF IsFold
  <1>8. Is(all)
    BY <1>7
  <1> HIDE DEF all
  <1>9. ASSUME NEW k \in 1..n, all[1..(k - 1)] \in Octet
        PROVE  all[1..k] = step[k][all[1..(k - 1)]]
    <2>1. all[1..k] = ByteOf(all[1..(k - 1)] + chars[k])
      BY <1>1, <1>8, Segment
    <2>. QED BY <1>9, <2>1
  <1>10. all[{}] = 0 /\ Sum(chars) = all[1..n]
    <2>1. {} \in SUBSET DOMAIN chars
      OBVIOUS
    <2>. QED BY <1>1, <1>8, <2>1 DEF Sum, FoldLeft, MapThenFoldSet, all
  <1>11. /\ g \in [0..n -> Octet] /\ Follows(g, n, 0, step) /\ Sum(chars) = g[n]
    <2> HIDE DEF n, step
    <2>. QED BY <1>1, <1>2, <1>4, <1>9, <1>10, FoldFollows
  <1>12. g[0] = 0 /\ \A k \in 1..n : g[k] = ByteOf(g[k - 1] + chars[k])
    <2> HIDE DEF g
    <2> SUFFICES ASSUME NEW k \in 1..n PROVE g[k] = ByteOf(g[k - 1] + chars[k])
      BY <1>11 DEF Follows
    <2>1. k - 1 \in 0..n /\ g[k - 1] \in Octet /\ g[k] = step[k][g[k - 1]]
      <3> HIDE DEF step
      <3>. QED BY <1>1, <1>11 DEF Follows
    <2>. QED BY <2>1
  <1>. QED BY <1>11, <1>12

\* A character that is larger by d makes the sum larger by d.
LEMMA SumOfChanged ==
    ASSUME NEW chars \in Seq(Octet), NEW other \in Seq(Octet), Len(other) = Len(chars),
           NEW k \in 1..Len(chars), NEW d \in Int, other[k] = chars[k] + d,
           \A j \in 1..Len(chars) : j # k => other[j] = chars[j]
    PROVE  Sum(chars) \in Octet /\ Sum(other) = ByteOf(Sum(chars) + d)
  <1> DEFINE n == Len(chars)
  <1>1. n \in Nat /\ k \in 1..n /\ \A j \in 1..n : chars[j] \in Octet /\ other[j] \in Octet
    BY LenProperties
  <1>2. PICK g \in [0..n -> Octet] : /\ g[0] = 0 /\ Sum(chars) = g[n]
                                     /\ \A j \in 1..n : g[j] = ByteOf(g[j - 1] + chars[j])
    BY SumFolds
  <1>3. PICK h \in [0..n -> Octet] : /\ h[0] = 0 /\ Sum(other) = h[n]
                                     /\ \A j \in 1..n : h[j] = ByteOf(h[j - 1] + other[j])
    BY SumFolds
  <1> DEFINE T == {j \in 0..n : h[j] = IF j < k THEN g[j] ELSE ByteOf(g[j] + d)}
  <1>4. 0 \in T
    BY <1>1, <1>2, <1>3
  <1>5. ASSUME NEW j \in 1..n, j - 1 \in T PROVE j \in T
    <2>1. /\ g[j - 1] \in Int /\ chars[j] \in Int /\ g[j] = ByteOf(g[j - 1] + chars[j])
          /\ h[j] = ByteOf(h[j - 1] + other[j]) /\ j - 1 \in 0..n
      <3> HIDE DEF n
      <3>1. j - 1 \in 0..n
        BY <1>1
      <3>2. g[j - 1] \in Octet /\ chars[j] \in Octet
        BY <1>1, <1>2, <3>1
      <3>3. g[j - 1] \in Int /\ chars[j] \in Int
        BY <3>2, OctetIsInt, Zenon
      <3>4. g[j] = ByteOf(g[j - 1] + chars[j]) /\ h[j] = ByteOf(h[j - 1] + other[j])
        BY <1>2, <1>3, Zenon
      <3>. QED BY <3>1, <3>3, <3>4
    <2> DEFINE x == g[j - 1]
               c == chars[j]
    <2>2. CASE j < k
      BY <1>5, <2>1, <2>2
    <2>3. CASE j = k
      <3>1. h[j] = ByteOf(x + (c + d)) /\ g[j] = ByteOf(x + c)
        BY <1>5, <2>1, <2>3
      <3> HIDE DEF x, c
      <3>2. ByteOf(x + (c + d)) = ByteOf(ByteOf(x + c) + d)
        BY <2>1 DEF ByteOf, x, c
      <3>. QED BY <2>3, <3>1, <3>2
    <2>4. CASE j > k
      <3>1. h[j] = ByteOf(ByteOf(x + d) + c) /\ g[j] = ByteOf(x + c)
        BY <1>5, <2>1, <2>4
      <3> HIDE DEF x, c
      <3>2. ByteOf(ByteOf(x + d) + c) = ByteOf(ByteOf(x + c) + d)
        BY <2>1 DEF ByteOf, x, c
      <3>. QED BY <2>4, <3>1, <3>2
    <2>. QED BY <1>1, <2>2, <2>3, <2>4
  <1>6. n \in T
    <2>1. \A j \in 1..n : j - 1 \in T => j \in T
      BY <1>5
    <2> HIDE DEF T
    <2>. QED BY <1>1, <1>4, <2>1, UpTo, n \in 0..n
  <1>. QED BY <1>1, <1>2, <1>3, <1>6

-----------------------------------------------------------------------------
\* The loop over the data.
TakeStates == [i : Nat, quoted : BOOLEAN, data : Seq(Octet)]
NothingTaken == [i |-> 0, quoted |-> FALSE, data |-> <<>>]

LEMMA UnquotedIs ==
    ASSUME NEW c \in Octet
    PROVE  Unquoted(c) \in Octet
  BY DEF Unquoted, Octet

LEMMA TakeCharIs ==
    ASSUME NEW n \in Nat, NEW r \in TakeStates, NEW c \in Octet
    PROVE  /\ TakeChar(n, r, c) \in TakeStates
           /\ r.quoted => TakeChar(n, r, c) =
                [i |-> r.i + 1, quoted |-> FALSE, data |-> Append(r.data, Unquoted(c))]
           /\ ~r.quoted /\ r.i >= n => TakeChar(n, r, c) = r
           /\ ~r.quoted /\ r.i < n /\ c = Quote =>
                TakeChar(n, r, c) = [i |-> r.i + 1, quoted |-> TRUE, data |-> r.data]
           /\ ~r.quoted /\ r.i < n /\ c # Quote =>
                TakeChar(n, r, c) = [i |-> r.i + 1, quoted |-> FALSE, data |-> Append(r.data, c)]
  <1>1. /\ r = [i |-> r.i, quoted |-> r.quoted, data |-> r.data]
        /\ r.i \in Nat /\ r.quoted \in BOOLEAN /\ r.data \in Seq(Octet)
    BY DEF TakeStates
  <1>2. Unquoted(c) \in Octet
    BY UnquotedIs
  <1>3. Append(r.data, Unquoted(c)) \in Seq(Octet) /\ Append(r.data, c) \in Seq(Octet)
    BY <1>1, <1>2, AppendProperties
  <1>4. CASE r.quoted
    <2>1. TakeChar(n, r, c) = [i |-> r.i + 1, quoted |-> FALSE, data |-> Append(r.data, Unquoted(c))]
      BY <1>4 DEF TakeChar
    <2>. QED BY <1>1, <1>3, <1>4, <2>1 DEF TakeStates
  <1>5. CASE ~r.quoted /\ r.i >= n
    <2>1. TakeChar(n, r, c) = r
      BY <1>5 DEF TakeChar
    <2>. QED BY <1>1, <1>5, <2>1
  <1>6. CASE ~r.quoted /\ r.i < n /\ c = Quote
    <2>1. TakeChar(n, r, c) = [r EXCEPT !.i = @ + 1, !.quoted = TRUE]
      BY <1>1, <1>6 DEF TakeChar
    <2>2. TakeChar(n, r, c) = [i |-> r.i + 1, quoted |-> TRUE, data |-> r.data]
      BY <1>1, <2>1
    <2>. QED BY <1>1, <1>6, <2>2 DEF TakeStates
  <1>7. CASE ~r.quoted /\ r.i < n /\ c # Quote
    <2>1. TakeChar(n, r, c) = [r EXCEPT !.i = @ + 1, !.data = Append(@, c)]
      BY <1>1, <1>7 DEF TakeChar
    <2>2. TakeChar(n, r, c) = [i |-> r.i + 1, quoted |-> FALSE, data |-> Append(r.data, c)]
      BY <1>1, <1>7, <2>1
    <2>. QED BY <1>1, <1>3, <1>7, <2>2 DEF TakeStates
  <1>. QED BY <1>1, <1>4, <1>5, <1>6, <1>7

\* The states the loop passes through.
LEMMA TakeFolds ==
    ASSUME NEW chars \in Seq(Octet), NEW max \in Nat
    PROVE  \E g \in [0..Len(chars) -> TakeStates] :
             /\ g[0] = NothingTaken
             /\ \A k \in 1..Len(chars) : g[k] = TakeChar(max, g[k - 1], chars[k])
             /\ TakeData(chars, max) = g[Len(chars)]
  <1> DEFINE n == Len(chars)
             S == TakeStates
             step == [k \in 1..n |-> [s \in S |-> TakeChar(max, s, chars[k])]]
             Is(f) == f = [s \in SUBSET DOMAIN chars |->
                             IF s = {} THEN NothingTaken
                             ELSE TakeChar(max, f[s \ {Max(s)}], chars[Max(s)])]
             all == CHOOSE f : Is(f)
             g == Partials(all, n)
  <1>1. n \in Nat /\ DOMAIN chars = 1..n /\ \A k \in 1..n : chars[k] \in Octet
    BY LenProperties
  <1>2. NothingTaken \in S
    BY EmptySeq DEF TakeStates, NothingTaken
  <1>3. \A k \in 1..n : \A s \in S : TakeChar(max, s, chars[k]) \in S
    BY <1>1, TakeCharIs
  <1>4. step \in Steps(S, n)
    <2> HIDE DEF S
    <2>. QED BY <1>3 DEF Steps
  <1>5. PICK it \in [SUBSET (1..n) -> S] : IsFold(it, n, NothingTaken, step)
    <2> HIDE DEF n, S, step
    <2>. QED BY <1>1, <1>2, <1>4, FoldExists
  <1>6. ASSUME NEW s \in SUBSET (1..n), s # {} PROVE Max(s) \in 1..n /\ s \ {Max(s)} \in SUBSET (1..n)
    <2> HIDE DEF n
    <2>1. s \in SUBSET (0..n)
      <3>1. \A x \in s : x \in 0..n
        OBVIOUS
      <3>. QED BY <3>1
    <2>. QED BY <1>1, <1>6, <2>1, Greatest
  <1>7. Is(it)
    <2>1. ASSUME NEW s \in SUBSET (1..n), s # {}
          PROVE  step[Max(s)][it[s \ {Max(s)}]] = TakeChar(max, it[s \ {Max(s)}], chars[Max(s)])
      <3>1. it[s \ {Max(s)}] \in S
        BY <1>6, <2>1
      <3>. QED BY <1>6, <2>1, <3>1
    <2> HIDE DEF step, S, n
    <2>. QED BY <1>1, <1>5, <2>1 DEF IsFold
  <1>8. Is(all)
    BY <1>7
  <1> HIDE DEF all
  <1>9. ASSUME NEW k \in 1..n, all[1..(k - 1)] \in S
        PROVE  all[1..k] = step[k][all[1..(k - 1)]]
    <2>1. all[1..k] = TakeChar(max, all[1..(k - 1)], chars[k])
      BY <1>1, <1>8, Segment
    <2>. QED BY <1>9, <2>1
  <1>10. all[{}] = NothingTaken /\ TakeData(chars, max) = all[1..n]
    <2>1. {} \in SUBSET DOMAIN chars
      OBVIOUS
    <2>. QED BY <1>1, <1>8, <2>1 DEF TakeData, FoldLeft, MapThenFoldSet, NothingTaken, all
  <1>11. /\ g \in [0..n -> S] /\ Follows(g, n, NothingTaken, step) /\ TakeData(chars, max) = g[n]
    <2> HIDE DEF n, S, step
    <2>. QED BY <1>1, <1>2, <1>4, <1>9, <1>10, FoldFollows
  <1>12. g[0] = NothingTaken /\ \A k \in 1..n : g[k] = TakeChar(max, g[k - 1], chars[k])
    <2> HIDE DEF g
    <2> SUFFICES ASSUME NEW k \in 1..n PROVE g[k] = TakeChar(max, g[k - 1], chars[k])
      BY <1>11 DEF Follows
    <2>1. k - 1 \in 0..n /\ g[k - 1] \in S /\ g[k] = step[k][g[k - 1]]
      <3> HIDE DEF step
      <3>. QED BY <1>1, <1>11 DEF Follows
    <2>. QED BY <2>1
  <1>. QED BY <1>11, <1>12

\* Given one more than it is to take, the loop takes as many as it is to, or that one too.
LEMMA TakesThatMany ==
    ASSUME NEW chars \in Seq(Octet), NEW max \in Nat, Len(chars) > max
    PROVE  /\ TakeData(chars, max) \in TakeStates /\ ~TakeData(chars, max).quoted
           /\ TakeData(chars, max).i \in {max, max + 1}
  <1> DEFINE n == Len(chars)
  <1>1. n \in Nat /\ n > max /\ \A k \in 1..n : chars[k] \in Octet
    BY LenProperties
  <1>2. PICK g \in [0..n -> TakeStates] :
           /\ g[0] = NothingTaken /\ TakeData(chars, max) = g[n]
           /\ \A k \in 1..n : g[k] = TakeChar(max, g[k - 1], chars[k])
    BY TakeFolds
  <1> HIDE DEF n
  <1> DEFINE Progress(k) == /\ k <= max => g[k].i = k
                            /\ k > max => ~g[k].quoted /\ g[k].i \in {max, max + 1}
             T == {k \in 0..n : Progress(k)}
  <1>3. 0 \in T
    BY <1>1, <1>2 DEF NothingTaken
  <1>4. ASSUME NEW k \in 1..n, k - 1 \in T PROVE k \in T
    <2> DEFINE r == g[k - 1]
               c == chars[k]
               t == g[k]
    <2>1. k - 1 \in 0..n /\ Progress(k - 1) /\ k \in 0..n
      BY <1>1, <1>4
    <2>2. r \in TakeStates /\ c \in Octet /\ t = TakeChar(max, r, c)
      BY <1>1, <1>2, <2>1
    <2>3. r.i \in Nat /\ r.quoted \in BOOLEAN
      BY <2>2 DEF TakeStates
    <2>4. /\ k - 1 <= max => r.i = k - 1
          /\ k - 1 > max => ~r.quoted /\ r.i \in {max, max + 1}
      BY <2>1
    <2> HIDE DEF r, c, t
    <2>5. /\ r.quoted => t.i = r.i + 1 /\ ~t.quoted
          /\ ~r.quoted /\ r.i >= max => t = r
          /\ ~r.quoted /\ r.i < max => t.i = r.i + 1
      <3>1. /\ r.quoted => t = [i |-> r.i + 1, quoted |-> FALSE, data |-> Append(r.data, Unquoted(c))]
            /\ ~r.quoted /\ r.i >= max => t = r
            /\ ~r.quoted /\ r.i < max /\ c = Quote => t = [i |-> r.i + 1, quoted |-> TRUE, data |-> r.data]
            /\ ~r.quoted /\ r.i < max /\ c # Quote =>
                 t = [i |-> r.i + 1, quoted |-> FALSE, data |-> Append(r.data, c)]
        BY ONLY <2>2, max \in Nat, TakeCharIs, Zenon
      <3>. QED BY ONLY <3>1
    <2>6. Progress(k)
      <3>1. CASE k <= max
        <4>1. r.i = k - 1 /\ r.i < max
          BY <2>4, <3>1
        <4>2. t.i = k
          BY <2>5, <4>1
        <4>. QED BY <3>1, <4>2 DEF t
      <3>2. CASE k = max + 1
        <4>1. r.i = max /\ r.i >= max
          BY <2>4, <3>2
        <4>2. ~t.quoted /\ t.i \in {max, max + 1}
          BY <2>5, <4>1
        <4>. QED BY <3>2, <4>2 DEF t
      <3>3. CASE k > max + 1
        <4>1. ~r.quoted /\ r.i \in {max, max + 1} /\ r.i >= max
          BY <2>4, <3>3
        <4>2. ~t.quoted /\ t.i \in {max, max + 1}
          BY <2>5, <4>1
        <4>. QED BY <3>3, <4>2 DEF t
      <3>. QED BY <3>1, <3>2, <3>3
    <2>. QED BY <2>1, <2>6
  <1>5. n \in T
    <2>1. \A k \in 1..n : k - 1 \in T => k \in T
      BY <1>4
    <2> HIDE DEF T
    <2>. QED BY <1>1, <1>3, <2>1, UpTo, n \in 0..n
  <1>6. Progress(n) /\ g[n] \in TakeStates
    BY <1>1, <1>2, <1>5
  <1>. QED BY <1>1, <1>2, <1>6

-----------------------------------------------------------------------------
\* The characters of a packet's data.
LEMMA FlattenIs ==
    ASSUME NEW s \in Seq(Seq(Octet))
    PROVE  \E e \in [0..Len(s) -> Seq(Octet)] :
             /\ e[0] = <<>> /\ FlattenSeq(s) = e[Len(s)]
             /\ \A k \in 1..Len(s) : e[k] = e[k - 1] \o s[k]
  <1> DEFINE n == Len(s)
             S == Seq(Octet)
             step == [k \in 1..n |-> [t \in S |-> t \o s[k]]]
             Is(f) == f = [i \in 1..n |-> IF i = 1 THEN s[i] ELSE f[i - 1] \o s[i]]
             all == CHOOSE f : Is(f)
  <1>1. n \in Nat /\ \A k \in 1..n : s[k] \in S
    BY LenProperties
  <1>2. <<>> \in S
    BY EmptySeq
  <1>3. step \in Steps(S, n)
    <2>1. \A k \in 1..n : \A t \in S : t \o s[k] \in S
      BY <1>1, ConcatProperties
    <2> HIDE DEF S
    <2>. QED BY <2>1 DEF Steps
  <1>4. PICK e \in [0..n -> S] : Follows(e, n, <<>>, step)
    <2> HIDE DEF S, n, step
    <2>. QED BY <1>1, <1>2, <1>3, Recursion
  <1>5. e[0] = <<>> /\ \A k \in 1..n : e[k] = e[k - 1] \o s[k]
    <2> SUFFICES ASSUME NEW k \in 1..n PROVE e[k] = e[k - 1] \o s[k]
      BY <1>4 DEF Follows
    <2>1. k - 1 \in 0..n
      BY <1>1
    <2>2. e[k - 1] \in S /\ e[k] = step[k][e[k - 1]]
      <3> HIDE DEF step, S, n
      <3>1. e[k] = step[k][e[k - 1]]
        BY <1>4, Zenon DEF Follows
      <3>. QED BY <2>1, <3>1
    <2>. QED BY <2>2
  <1>6. ASSUME 1 \in 1..n PROVE e[1] = s[1]
    <2>1. 1 - 1 = 0
      OBVIOUS
    <2>2. e[1] = e[1 - 1] \o s[1]
      BY <1>5, <1>6, Zenon
    <2>3. s[1] \in Seq(Octet)
      BY <1>1, <1>6, Zenon
    <2>4. <<>> \o s[1] = s[1]
      BY <2>3, ConcatEmptySeq, Zenon
    <2>. QED BY <1>5, <2>1, <2>2, <2>4, Zenon
  <1>7. Is(all)
    <2> DEFINE h == [i \in 1..n |-> e[i]]
    <2>1. ASSUME NEW i \in 1..n PROVE h[i] = IF i = 1 THEN s[i] ELSE h[i - 1] \o s[i]
      <3>1. CASE i = 1
        <4>1. e[1] = s[1]
          BY <1>6, <3>1, Zenon
        <4>. QED BY <3>1, <4>1
      <3>2. CASE i # 1
        <4>1. i - 1 \in 1..n
          BY <1>1, <3>2
        <4>. QED BY <1>5, <3>2, <4>1
      <3>. QED BY <3>1, <3>2
    <2>2. h = [i \in 1..n |-> h[i]]
      OBVIOUS
    <2> HIDE DEF h, n
    <2>3. Is(h)
      BY <2>1, <2>2
    <2>4. \E f : Is(f)
      <3> HIDE DEF Is
      <3>. QED BY <2>3, Zenon
    <2>. QED BY <2>4, Zenon DEF all
  <1>8. n > 0 => FlattenSeq(s) = all[n]
    BY <1>1 DEF FlattenSeq
  <1>9. n = 0 => FlattenSeq(s) = <<>>
    BY <1>1, EmptySeq DEF FlattenSeq
  <1> HIDE DEF all, step
  <1>10. n > 0 => all[n] = e[n]
    <2> DEFINE T == {k \in 0..n : k > 0 => all[k] = e[k]}
    <2>1. 0 \in T
      BY <1>1
    <2>2. ASSUME NEW k \in 1..n, k - 1 \in T PROVE k \in T
      <3>1. CASE k = 1
        <4>1. all[1] = s[1]
          <5> HIDE DEF n
          <5>. QED BY <1>7, <3>1
        <4>2. all[1] = e[1]
          BY <1>6, <3>1, <4>1, Zenon
        <4>. QED BY <1>1, <3>1, <4>2
      <3>2. CASE k # 1
        <4>1. k - 1 \in 1..n /\ k - 1 > 0
          BY <1>1, <3>2
        <4>2. all[k] = all[k - 1] \o s[k]
          BY <1>7, <3>2
        <4>3. all[k - 1] = e[k - 1]
          BY <2>2, <4>1
        <4>4. all[k] = e[k]
          BY <1>5, <4>2, <4>3
        <4>. QED BY <1>1, <4>4
      <3>. QED BY <3>1, <3>2
    <2>3. n \in T
      <3>1. \A k \in 1..n : k - 1 \in T => k \in T
        BY <2>2
      <3> HIDE DEF T, n
      <3>. QED BY <1>1, <2>1, <3>1, UpTo, n \in 0..n
    <2>. QED BY <2>3
  <1>11. FlattenSeq(s) = e[n]
    BY <1>1, <1>5, <1>8, <1>9, <1>10
  <1>. QED BY <1>5, <1>11

\* Each part is the beginning of the next.
Joins(n, s, e) ==
    /\ e \in [0..n -> Seq(Octet)]
    /\ \A k \in 1..n : s[k] \in Seq(Octet) /\ e[k] = e[k - 1] \o s[k]
Grows(n, s, e) ==
    /\ \A k \in 0..n : /\ Len(e[k]) \in Nat /\ Len(e[k]) <= Len(e[n])
                       /\ \A j \in 1..Len(e[k]) : e[n][j] = e[k][j]
    /\ \A k \in 1..n : /\ Len(e[k]) = Len(e[k - 1]) + Len(s[k])
                       /\ \A x \in 1..Len(s[k]) : e[k][Len(e[k - 1]) + x] = s[k][x]

LEMMA FlattenGrows ==
    ASSUME NEW n \in Nat, NEW s, NEW e, Joins(n, s, e)
    PROVE  Grows(n, s, e)
  <1> DEFINE Begins(k, m) == Len(e[k]) <= Len(e[m]) /\ \A j \in 1..Len(e[k]) : e[m][j] = e[k][j]
             T == {m \in 0..n : \A k \in 0..m : Begins(k, m)}
  <1>0. e \in [0..n -> Seq(Octet)] /\ \A k \in 1..n : s[k] \in Seq(Octet) /\ e[k] = e[k - 1] \o s[k]
    BY DEF Joins
  <1>1. ASSUME NEW k \in 1..n
        PROVE  /\ Len(e[k]) = Len(e[k - 1]) + Len(s[k])
               /\ Len(e[k - 1]) \in Nat /\ Len(s[k]) \in Nat
               /\ \A j \in 1..Len(e[k - 1]) : e[k][j] = e[k - 1][j]
               /\ \A x \in 1..Len(s[k]) : e[k][Len(e[k - 1]) + x] = s[k][x]
    <2>1. k - 1 \in 0..n
      OBVIOUS
    <2> DEFINE a == e[k - 1]
               b == s[k]
    <2>2. a \in Seq(Octet) /\ b \in Seq(Octet) /\ e[k] = a \o b
      BY <1>0, <2>1
    <2> HIDE DEF a, b
    <2>3. /\ Len(a \o b) = Len(a) + Len(b) /\ Len(a) \in Nat /\ Len(b) \in Nat
          /\ \A i \in 1..Len(a) + Len(b) : (a \o b)[i] = IF i <= Len(a) THEN a[i] ELSE b[i - Len(a)]
      BY <2>2, ConcatProperties, LenProperties
    <2>4. ASSUME NEW j \in 1..Len(a) PROVE (a \o b)[j] = a[j]
      BY <2>3
    <2>5. ASSUME NEW x \in 1..Len(b) PROVE (a \o b)[Len(a) + x] = b[x]
      <3>1. Len(a) + x \in 1..Len(a) + Len(b) /\ ~(Len(a) + x <= Len(a)) /\ Len(a) + x - Len(a) = x
        BY <2>3
      <3>. QED BY <2>3, <3>1
    <2>. QED BY <2>2, <2>3, <2>4, <2>5 DEF a, b
  <1>2. \A k \in 0..n : Len(e[k]) \in Nat
    BY <1>0, LenProperties
  <1>3. 0 \in T
    BY <1>2
  <1>4. ASSUME NEW m \in 1..n, m - 1 \in T PROVE m \in T
    <2> SUFFICES ASSUME NEW k \in 0..m PROVE Begins(k, m)
      OBVIOUS
    <2>1. CASE k = m
      BY <1>2, <2>1
    <2>2. CASE k # m
      <3>1. k \in 0..(m - 1) /\ k \in 0..n /\ m - 1 \in 0..n
        BY <2>2
      <3>2. Begins(k, m - 1)
        BY <1>4, <3>1
      <3>3. /\ Len(e[m]) = Len(e[m - 1]) + Len(s[m]) /\ Len(s[m]) \in Nat
            /\ \A j \in 1..Len(e[m - 1]) : e[m][j] = e[m - 1][j]
        BY <1>1
      <3>4. Len(e[k]) \in Nat /\ Len(e[m - 1]) \in Nat /\ Len(e[k]) <= Len(e[m - 1])
        BY <1>2, <3>1, <3>2
      <3>5. ASSUME NEW j \in 1..Len(e[k]) PROVE e[m][j] = e[k][j]
        <4>1. j \in 1..Len(e[m - 1])
          BY <3>4
        <4>. QED BY <3>2, <3>3, <4>1
      <3>6. Len(e[k]) <= Len(e[m])
        <4> DEFINE x == Len(e[m])
                   y == Len(e[m - 1])
                   z == Len(s[m])
                   w == Len(e[k])
        <4>1. x = y + z /\ z \in Nat /\ y \in Nat /\ w \in Nat /\ w <= y
          BY <3>3, <3>4, Zenon
        <4> HIDE DEF x, y, z, w
        <4>2. w <= x
          BY ONLY <4>1
        <4>. QED BY <4>2 DEF x, w
      <3>. QED BY <3>5, <3>6
    <2>. QED BY <2>1, <2>2
  <1>5. n \in T
    <2>1. \A m \in 1..n : m - 1 \in T => m \in T
      BY <1>4
    <2> HIDE DEF T
    <2>. QED BY <1>3, <2>1, UpTo, n \in 0..n
  <1>. QED BY <1>1, <1>2, <1>5 DEF Grows

LEMMA QuotedIs ==
    ASSUME NEW c \in Octet
    PROVE  /\ Quoted(c) \in Seq(Octet)
           /\ \/ Len(Quoted(c)) = 1 /\ Quoted(c)[1] = c /\ c # Quote
              \/ /\ Len(Quoted(c)) = 2 /\ Quoted(c)[1] = Quote
                 /\ Quoted(c)[2] \in Octet /\ Unquoted(Quoted(c)[2]) = c
  <1>1. CASE Control(c)
    <2> DEFINE d == IF c % 128 = 127 THEN c - 64 ELSE c + 64
    <2>1. d \in Octet /\ Unquoted(d) = c
      BY <1>1 DEF Control, Octet, Unquoted
    <2>2. Quoted(c) = <<Quote, d>>
      BY <1>1 DEF Quoted
    <2> HIDE DEF d
    <2>. QED BY <2>1, <2>2, OctetsAre
  <1>2. CASE ~Control(c) /\ c % 128 = Quote
    <2>1. Unquoted(c) = c
      BY <1>2 DEF Octet, Unquoted, Quote
    <2>2. Quoted(c) = <<Quote, c>>
      BY <1>2 DEF Quoted
    <2>. QED BY <2>1, <2>2, OctetsAre
  <1>3. CASE ~Control(c) /\ c % 128 # Quote
    <2>1. c # Quote
      BY <1>3 DEF Quote
    <2>2. Quoted(c) = <<c>>
      BY <1>3 DEF Quoted
    <2>. QED BY <2>1, <2>2
  <1>. QED BY <1>1, <1>2, <1>3

\* One character of the data is taken.
Loop(g, N, max, chars) ==
    /\ max \in Nat /\ N \in Nat /\ max <= N
    /\ g \in [0..N -> TakeStates]
    /\ \A k \in 1..N : chars[k] \in Octet /\ g[k] = TakeChar(max, g[k - 1], chars[k])

TakenAt(g, l, bytes) ==
    /\ l \in Nat /\ bytes \in Seq(Octet)
    /\ g[l] = [i |-> l, quoted |-> FALSE, data |-> bytes]
Stands(w, chars, l, max) ==
    /\ l + Len(w) <= max
    /\ \A x \in 1..Len(w) : chars[l + x] = w[x]

LEMMA DecodesOne ==
    ASSUME NEW g, NEW N, NEW max, NEW chars, NEW c, NEW l, NEW bytes,
           Loop(g, N, max, chars), TakenAt(g, l, bytes), c \in Octet,
           Stands(Quoted(c), chars, l, max)
    PROVE  TakenAt(g, l + Len(Quoted(c)), Append(bytes, c))
  <1> DEFINE w == Quoted(c)
  <1>0. /\ max \in Nat /\ N \in Nat /\ max <= N /\ l \in Nat /\ bytes \in Seq(Octet)
        /\ g[l] = [i |-> l, quoted |-> FALSE, data |-> bytes]
        /\ l + Len(w) <= max /\ \A x \in 1..Len(w) : chars[l + x] = w[x]
    BY DEF Loop, TakenAt, Stands
  <1>1. \/ Len(w) = 1 /\ w[1] = c /\ c # Quote
        \/ Len(w) = 2 /\ w[1] = Quote /\ w[2] \in Octet /\ Unquoted(w[2]) = c
    BY QuotedIs
  <1>7. l + Len(w) \in Nat /\ Append(bytes, c) \in Seq(Octet)
    BY <1>0, <1>1, AppendProperties
  <1> SUFFICES g[l + Len(w)] = [i |-> l + Len(w), quoted |-> FALSE, data |-> Append(bytes, c)]
    BY <1>7 DEF TakenAt
  <1> HIDE DEF w
  <1> DEFINE r == g[l]
             a == l + 1
             b == l + 2
  <1>2. r \in TakeStates /\ r.i = l /\ ~r.quoted /\ r.data = bytes
    BY <1>0 DEF TakeStates
  <1>3. r.i < max /\ a \in 1..N /\ a - 1 = l /\ a \in Nat
    BY <1>0, <1>1, <1>2
  <1>4. g[a] = TakeChar(max, r, chars[a])
    <2> HIDE DEF a
    <2>. QED BY <1>3, Zenon DEF Loop
  <1> HIDE DEF r
  <1>5. CASE Len(w) = 1
    <2>1. chars[a] = c /\ c # Quote
      BY <1>0, <1>1, <1>5
    <2>2. TakeChar(max, r, c) = [i |-> r.i + 1, quoted |-> FALSE, data |-> Append(r.data, c)]
      BY ONLY <1>0, <1>2, <1>3, <2>1, c \in Octet, TakeCharIs, Zenon
    <2>3. g[a] = [i |-> a, quoted |-> FALSE, data |-> Append(bytes, c)]
      BY <1>2, <1>4, <2>1, <2>2
    <2>. QED BY <1>5, <2>3
  <1>6. CASE Len(w) = 2
    <2>1. chars[a] = Quote /\ chars[b] = w[2] /\ w[2] \in Octet /\ Unquoted(w[2]) = c
          /\ b \in 1..N /\ b - 1 = a
      BY <1>0, <1>1, <1>6
    <2> DEFINE t == [i |-> a, quoted |-> TRUE, data |-> bytes]
    <2>2. TakeChar(max, r, Quote) = [i |-> r.i + 1, quoted |-> TRUE, data |-> r.data]
      BY ONLY <1>0, <1>2, <1>3, OctetsAre, TakeCharIs, Zenon
    <2>3. g[a] = t
      BY <1>2, <1>4, <2>1, <2>2
    <2>4. t \in TakeStates /\ t.quoted /\ t.i = a /\ t.data = bytes
      BY <1>0, <1>3 DEF TakeStates
    <2> HIDE DEF t, a, b
    <2>5. g[b] = TakeChar(max, t, w[2])
      <3>1. g[b] = TakeChar(max, g[b - 1], chars[b])
        BY <2>1, Zenon DEF Loop
      <3>. QED BY <2>1, <2>3, <3>1, Zenon
    <2>6. TakeChar(max, t, w[2]) = [i |-> t.i + 1, quoted |-> FALSE, data |-> Append(t.data, Unquoted(w[2]))]
      <3>1. max \in Nat
        BY <1>0
      <3>. QED BY ONLY <3>1, <2>1, <2>4, TakeCharIs, Zenon
    <2>7. t.i + 1 = b /\ b = l + Len(w)
      BY <1>0, <1>6, <2>4 DEF a, b
    <2>8. g[b] = [i |-> b, quoted |-> FALSE, data |-> Append(bytes, c)]
      BY <2>1, <2>4, <2>5, <2>6, <2>7, Zenon
    <2>. QED BY <2>7, <2>8, Zenon
  <1>. QED BY <1>1, <1>5, <1>6

\* When all is taken nothing more is.
LEMMA LoopStops ==
    ASSUME NEW g, NEW N, NEW max, NEW chars, NEW bytes,
           Loop(g, N, max, chars), TakenAt(g, max, bytes)
    PROVE  g[N] = g[max]
  <1>0. /\ max \in Nat /\ N \in Nat /\ max <= N
        /\ ~g[max].quoted /\ g[max].i >= max
    BY DEF Loop, TakenAt
  <1> DEFINE z == g[max]
             U == {j \in 0..N : j >= max => g[j] = z}
  <1>1. z \in TakeStates
    BY <1>0 DEF Loop
  <1>2. 0 \in U
    BY <1>0
  <1>3. ASSUME NEW j \in 1..N, j - 1 \in U PROVE j \in U
    <2>1. CASE j - 1 >= max
      <3>1. g[j - 1] = z
        BY <1>3, <2>1
      <3>2. chars[j] \in Octet /\ g[j] = TakeChar(max, g[j - 1], chars[j])
        BY Zenon DEF Loop
      <3>3. TakeChar(max, z, chars[j]) = z
        <4>1. ~z.quoted /\ z.i >= max
          BY <1>0
        <4> HIDE DEF z
        <4>. QED BY ONLY <1>0, <1>1, <3>2, <4>1, TakeCharIs, Zenon
      <3>4. g[j] = z
        BY <3>1, <3>2, <3>3, Zenon
      <3>. QED BY <3>4
    <2>2. CASE j = max
      BY <1>0, <2>2
    <2>3. CASE j < max
      BY <1>0, <2>3
    <2>. QED BY <1>0, <2>1, <2>2, <2>3
  <1>4. N \in U
    <2>1. \A j \in 1..N : j - 1 \in U => j \in U
      BY <1>3
    <2> HIDE DEF U
    <2>. QED BY <1>0, <1>2, <2>1, UpTo, N \in 0..N
  <1>. QED BY <1>0, <1>4

\* The data as it is sent.
Encoding(bytes) == FlattenSeq([i \in 1..Len(bytes) |-> Quoted(bytes[i])])

LEMMA EncodingJoins ==
    ASSUME NEW bytes \in Seq(Octet)
    PROVE  \E e : /\ Joins(Len(bytes), [i \in 1..Len(bytes) |-> Quoted(bytes[i])], e)
                  /\ e[0] = <<>> /\ Encoding(bytes) = e[Len(bytes)]
  <1> DEFINE n == Len(bytes)
             s == [i \in 1..n |-> Quoted(bytes[i])]
  <1>1. n \in Nat /\ \A k \in 1..n : bytes[k] \in Octet
    BY LenProperties
  <1>2. \A k \in 1..n : Quoted(bytes[k]) \in Seq(Octet)
    BY <1>1, QuotedIs
  <1>3. s \in Seq(Seq(Octet)) /\ Len(s) = n
    <2> HIDE DEF n
    <2>. QED BY <1>1, <1>2, LenProperties
  <1>4. \A k \in 1..n : s[k] \in Seq(Octet)
    BY <1>2
  <1>5. Encoding(bytes) = FlattenSeq(s)
    BY DEF Encoding
  <1> HIDE DEF s
  <1>6. PICK e \in [0..Len(s) -> Seq(Octet)] :
           e[0] = <<>> /\ FlattenSeq(s) = e[Len(s)] /\ \A k \in 1..Len(s) : e[k] = e[k - 1] \o s[k]
    BY <1>3, FlattenIs
  <1>7. Joins(n, s, e)
    <2> HIDE DEF n
    <2>. QED BY <1>3, <1>4, <1>6 DEF Joins
  <1>. QED BY <1>3, <1>5, <1>6, <1>7 DEF s

\* The loop takes from it what was meant, and nothing of what stands behind it.
LEMMA DataDecodes ==
    ASSUME NEW bytes \in Seq(Octet), NEW chars \in Seq(Octet)
    PROVE  /\ Encoding(bytes) \in Seq(Octet) /\ Len(Encoding(bytes)) <= 2 * Len(bytes)
           /\ Len(Encoding(bytes)) <= Len(chars)
              /\ (\A j \in 1..Len(Encoding(bytes)) : chars[j] = Encoding(bytes)[j])
              => TakeData(chars, Len(Encoding(bytes)))
                    = [i |-> Len(Encoding(bytes)), quoted |-> FALSE, data |-> bytes]
  <1> DEFINE n == Len(bytes)
             s == [i \in 1..n |-> Quoted(bytes[i])]
             E == Encoding(bytes)
             max == Len(E)
             N == Len(chars)
  <1>1. n \in Nat /\ \A k \in 1..n : bytes[k] \in Octet /\ s[k] = Quoted(bytes[k])
    BY LenProperties
  <1>2. \A k \in 1..n : Len(s[k]) \in {1, 2}
    BY <1>1, QuotedIs
  <1> HIDE DEF E
  <1>3. PICK e : Joins(n, s, e) /\ e[0] = <<>> /\ E = e[n]
    BY EncodingJoins DEF E
  <1> HIDE DEF s, n
  <1>4. Grows(n, s, e)
    BY <1>1, <1>3, FlattenGrows
  <1>5. PICK len \in [0..n -> Nat] : \A k \in 0..n : len[k] = Len(e[k])
    <2> DEFINE f == [k \in 0..n |-> Len(e[k])]
    <2>1. f \in [0..n -> Nat]
      BY <1>4 DEF Grows
    <2>. QED BY <2>1
  <1>6. E \in Seq(Octet) /\ len[n] = max /\ len[0] = 0 /\ max \in Nat /\ N \in Nat
    BY <1>1, <1>3, <1>5, EmptySeq, LenProperties DEF Joins
  <1>7. ASSUME NEW k \in 1..n
        PROVE  /\ k - 1 \in 0..n /\ len[k - 1] \in Nat /\ len[k] = len[k - 1] + Len(s[k]) /\ len[k] <= max
               /\ \A x \in 1..Len(s[k]) : e[k][len[k - 1] + x] = s[k][x]
               /\ \A j \in 1..len[k] : E[j] = e[k][j]
    <2>1. k - 1 \in 0..n /\ k \in 0..n /\ n \in 0..n
      BY <1>1
    <2>2. len[k - 1] = Len(e[k - 1]) /\ len[k] = Len(e[k]) /\ max = Len(e[n]) /\ len[k - 1] \in Nat
      BY <1>3, <1>5, <2>1
    <2>. QED BY <1>3, <1>4, <2>1, <2>2, Zenon DEF Grows
  <1> HIDE DEF max, N
  <1>8. max <= 2 * n
    <2> DEFINE T == {k \in 0..n : len[k] <= 2 * k}
    <2>1. 0 \in T
      BY <1>1, <1>6
    <2>2. ASSUME NEW k \in 1..n, k - 1 \in T PROVE k \in T
      <3>1. PICK x, y, z : x = len[k] /\ y = len[k - 1] /\ z = Len(s[k])
        OBVIOUS
      <3>2. x = y + z /\ y \in Nat /\ z \in {1, 2} /\ y <= 2 * (k - 1)
        BY <1>2, <1>7, <2>2, <3>1
      <3>3. x <= 2 * k
        BY ONLY <1>1, <3>2, k \in 1..n
      <3>. QED BY <1>1, <3>1, <3>3
    <2>3. \A k \in 1..n : k - 1 \in T => k \in T
      BY <2>2
    <2>4. n \in T
      <3> HIDE DEF T
      <3>. QED BY <1>1, <2>1, <2>3, UpTo, n \in 0..n
    <2>. QED BY <1>6, <2>4
  <1>9. ASSUME max <= N, \A j \in 1..max : chars[j] = E[j]
        PROVE  TakeData(chars, max) = [i |-> max, quoted |-> FALSE, data |-> bytes]
    <2>1. PICK g : Loop(g, N, max, chars) /\ g[0] = NothingTaken /\ TakeData(chars, max) = g[N]
      <3>1. \A j \in 1..N : chars[j] \in Octet
        BY LenProperties DEF N
      <3>2. PICK g \in [0..N -> TakeStates] :
               /\ g[0] = NothingTaken /\ TakeData(chars, max) = g[N]
               /\ \A k \in 1..N : g[k] = TakeChar(max, g[k - 1], chars[k])
        BY <1>6, TakeFolds DEF N
      <3>. QED BY <1>6, <1>9, <3>1, <3>2 DEF Loop
    <2> DEFINE Has(k) == [i |-> len[k], quoted |-> FALSE, data |-> SubSeq(bytes, 1, k)]
               T == {k \in 0..n : g[len[k]] = Has(k)}
    <2>2. 0 \in T
      <3>1. SubSeq(bytes, 1, 0) = <<>>
        BY SubSeqEmpty
      <3>2. g[len[0]] = NothingTaken
        BY <1>6, <2>1
      <3>3. NothingTaken = Has(0)
        BY <1>6, <3>1 DEF NothingTaken
      <3>. QED BY <1>1, <3>2, <3>3
    <2>3. ASSUME NEW k \in 1..n, k - 1 \in T PROVE k \in T
      <3> DEFINE w == s[k]
                 c == bytes[k]
                 l == len[k - 1]
                 old == SubSeq(bytes, 1, k - 1)
                 lw == l + Len(w)
      <3>1. g[l] = [i |-> l, quoted |-> FALSE, data |-> old] /\ l \in Nat /\ c \in Octet /\ w = Quoted(c)
        BY <1>1, <1>7, <2>3
      <3>2. old \in Seq(Octet) /\ Append(old, c) = SubSeq(bytes, 1, k)
        <4>1. \A i \in 1..k - 1 : bytes[i] \in Octet
          BY <1>1
        <4>2. old \in Seq(Octet)
          BY <4>1, SubSeqProperties
        <4>. QED BY <4>2, SubSeqRecursiveSecond DEF n
      <3>3. lw = len[k] /\ lw <= max
        BY <1>7
      <3>4. ASSUME NEW x \in 1..Len(w) PROVE chars[l + x] = w[x]
        <4>1. PICK z, u, v : z = Len(w) /\ u = len[k] /\ v = l
          OBVIOUS
        <4>2. z \in {1, 2} /\ u = v + z /\ v \in Nat /\ u <= max /\ x \in 1..z
          BY <1>2, <1>7, <3>1, <4>1
        <4>3. v + x \in 1..u /\ v + x \in 1..max
          BY ONLY <1>6, <4>2
        <4>4. e[k][v + x] = w[x]
          BY <1>7, <4>1
        <4>5. E[v + x] = e[k][v + x]
          BY <1>7, <4>1, <4>3
        <4>. QED BY <1>9, <4>1, <4>3, <4>4, <4>5
      <3>5. TakenAt(g, lw, Append(old, c))
        <4>1. TakenAt(g, l, old)
          <5> HIDE DEF l, old
          <5>. QED BY <3>1, <3>2 DEF TakenAt
        <4>2. Stands(Quoted(c), chars, l, max)
          <5> HIDE DEF w, c, l
          <5>. QED BY <3>1, <3>3, <3>4 DEF Stands, lw
        <4>3. TakenAt(g, l + Len(Quoted(c)), Append(old, c))
          <5> HIDE DEF w, c, l, old
          <5>. QED BY <2>1, <3>1, <4>1, <4>2, DecodesOne, Zenon
        <4>. QED BY <3>1, <4>3, Zenon
      <3> HIDE DEF w, c, l, old, lw
      <3>6. g[len[k]] = Has(k)
        BY <3>2, <3>3, <3>5 DEF TakenAt
      <3>. QED BY <1>1, <3>6
    <2>4. g[max] = [i |-> max, quoted |-> FALSE, data |-> bytes]
      <3>1. n \in T
        <4>1. \A k \in 1..n : k - 1 \in T => k \in T
          BY <2>3
        <4> HIDE DEF T
        <4>. QED BY <1>1, <2>2, <4>1, UpTo, n \in 0..n
      <3>2. SubSeq(bytes, 1, n) = bytes
        BY SubSeqFull DEF n
      <3>. QED BY <1>6, <3>1, <3>2
    <2>5. g[N] = g[max]
      <3>1. TakenAt(g, max, bytes)
        BY <1>6, <2>4 DEF TakenAt
      <3>. QED BY <2>1, <3>1, LoopStops, Zenon
    <2>. QED BY <2>1, <2>4, <2>5
  <1>. QED BY <1>6, <1>8, <1>9 DEF n, E, max, N

-----------------------------------------------------------------------------
\* The line as kermit_getpacket() finds it: its first mark at q.
Found(line, q) ==
    /\ line \in Seq(Octet) /\ q \in {1, 2} /\ Len(line) >= q + 4
    /\ line[q] = MARK /\ (q = 2 => line[1] # MARK)
TakenFrom(line, q) == TakeData(SubSeq(line, q + 4, Len(line)), UNCHAR(line[q + 1]) - 3)
SumBefore(line, q, i) == Sum(SubSeq(line, q + 1, q + 3 + i))

LEMMA GetPacketIs ==
    ASSUME NEW line, NEW q, Found(line, q), NEW r, r = TakenFrom(line, q)
    PROVE  kermit_getpacket(line) =
             IF Len(line) < q + 4 + r.i \/ r.quoted THEN Waiting
             ELSE IF line[q + 4 + r.i] # Check(SumBefore(line, q, r.i)) THEN Refused
             ELSE Reads([seq |-> UNCHAR(line[q + 2]), type |-> line[q + 3], data |-> r.data])
  <1> DEFINE I == {i \in 1..Len(line) : line[i] = MARK}
  <1>1. Len(line) \in Nat /\ q \in 1..Len(line) /\ line[q] = MARK
    BY LenProperties DEF Found
  <1>2. I \in SUBSET Nat /\ q \in I
    BY <1>1
  <1>3. Min(I) \in I /\ \A j \in I : Min(I) <= j
    <2> HIDE DEF I
    <2>. QED BY <1>2, LeastIsMin
  <1>4. Min(I) = q
    <2> DEFINE x == Min(I)
    <2>1. x \in Nat /\ x >= 1 /\ x <= q /\ line[x] = MARK
      BY <1>2, <1>3
    <2> HIDE DEF x
    <2>2. x = q
      BY <2>1 DEF Found
    <2>. QED BY <2>2 DEF x
  <1>5. SelectInSeq(line, LAMBDA c : c = MARK) = q
    BY <1>2, <1>4 DEF SelectInSeq
  <1>6. q # 0
    BY DEF Found
  <1>. QED BY <1>5, <1>6 DEF kermit_getpacket, TakenFrom, SumBefore

LEMMA SumIsOctet ==
    ASSUME NEW chars \in Seq(Octet)
    PROVE  Sum(chars) \in Octet
  <1>1. PICK g \in [0..Len(chars) -> Octet] : Sum(chars) = g[Len(chars)]
    BY SumFolds
  <1>. QED BY <1>1, LenProperties

LEMMA SpanIs ==
    ASSUME NEW s \in Seq(Octet), NEW a \in Nat \ {0}, NEW b \in Nat, a <= b + 1, b <= Len(s)
    PROVE  /\ SubSeq(s, a, b) \in Seq(Octet) /\ Len(SubSeq(s, a, b)) = b + 1 - a
           /\ \A i \in 1..b + 1 - a : SubSeq(s, a, b)[i] = s[a + i - 1]
  <1>1. \A i \in a..b : s[i] \in Octet
    BY LenProperties
  <1>2. a \in Int /\ b \in Int
    OBVIOUS
  <1>3. /\ SubSeq(s, a, b) \in Seq(Octet) /\ Len(SubSeq(s, a, b)) = IF a <= b THEN b - a + 1 ELSE 0
        /\ \A i \in 1..b - a + 1 : SubSeq(s, a, b)[i] = s[a + i - 1]
    BY <1>1, <1>2, SubSeqProperties
  <1>4. b - a + 1 = b + 1 - a /\ (IF a <= b THEN b - a + 1 ELSE 0) = b + 1 - a
    OBVIOUS
  <1>. QED BY <1>3, <1>4

-----------------------------------------------------------------------------
\* The characters of a packet: m of data, D, and the last one.
Framed(E, m, seq, type, D, last) ==
    /\ E \in Seq(Octet) /\ m \in 0..91 /\ Len(E) = m + 6 /\ D \in Seq(Octet) /\ Len(D) = m
    /\ E[1] = MARK /\ E[2] = TOCHAR(m + 3) /\ E[3] = TOCHAR(seq) /\ E[4] = type
    /\ \A j \in 1..m : E[4 + j] = D[j]
    /\ E[5 + m] = Check(Sum(SubSeq(E, 2, 4 + m))) /\ E[6 + m] = last

Appended(u, a, m, b, n) ==
    /\ u \in Seq(Octet) /\ Len(u) = m + n
    /\ \A j \in 1..m : u[j] = a[j]
    /\ \A j \in 1..n : u[m + j] = b[j]

LEMMA JoinIs ==
    ASSUME NEW a \in Seq(Octet), NEW b \in Seq(Octet), NEW m \in Nat, NEW n \in Nat, Len(a) = m, Len(b) = n
    PROVE  Appended(a \o b, a, m, b, n)
  <1>1. /\ a \o b \in Seq(Octet) /\ Len(a \o b) = m + n
        /\ \A i \in 1..m + n : (a \o b)[i] = IF i <= m THEN a[i] ELSE b[i - m]
    BY ConcatProperties
  <1>2. ASSUME NEW j \in 1..m PROVE (a \o b)[j] = a[j]
    <2>1. j \in 1..m + n /\ j <= m
      OBVIOUS
    <2>. QED BY <1>1, <2>1
  <1>3. ASSUME NEW j \in 1..n PROVE (a \o b)[m + j] = b[j]
    <2>1. m + j \in 1..m + n /\ ~(m + j <= m) /\ m + j - m = j
      OBVIOUS
    <2>. QED BY <1>1, <2>1
  <1>. QED BY <1>1, <1>2, <1>3 DEF Appended

\* What the check is about: the length, the sequence number, the type and the data.
Counted(c, m, seq, type, D) ==
    /\ c \in Seq(Octet) /\ Len(c) = 3 + m
    /\ c[1] = TOCHAR(m + 3) /\ c[2] = TOCHAR(seq) /\ c[3] = type
    /\ \A j \in 1..m : c[3 + j] = D[j]

LEMMA CountedIs ==
    ASSUME NEW m \in 0..91, NEW seq \in 0..63, NEW type \in Octet, NEW D \in Seq(Octet), Len(D) = m
    PROVE  Counted(<<TOCHAR(m + 3), TOCHAR(seq), type>> \o D, m, seq, type, D)
  <1> DEFINE a == TOCHAR(m + 3)
             b == TOCHAR(seq)
             h == <<a, b, type>>
  <1>1. a \in Octet /\ b \in Octet
    <2>1. m + 3 + 32 \in Int /\ seq + 32 \in Int
      OBVIOUS
    <2>2. ByteOf(m + 3 + 32) \in Octet /\ ByteOf(seq + 32) \in Octet
      BY <2>1, OctetsAre
    <2>. QED BY <2>2 DEF TOCHAR
  <1> HIDE DEF a, b
  <1>2. h \in Seq(Octet) /\ Len(h) = 3 /\ h[1] = a /\ h[2] = b /\ h[3] = type
    BY <1>1
  <1> HIDE DEF h
  <1>3. /\ h \o D \in Seq(Octet) /\ Len(h \o D) = 3 + m
        /\ \A j \in 1..3 : (h \o D)[j] = h[j]
        /\ \A j \in 1..m : (h \o D)[3 + j] = D[j]
    <2>1. 3 \in Nat /\ m \in Nat
      OBVIOUS
    <2>2. Appended(h \o D, h, 3, D, m)
      BY <1>2, <2>1, JoinIs, Zenon
    <2>. QED BY <2>2 DEF Appended
  <1>4. (h \o D)[1] = a /\ (h \o D)[2] = b /\ (h \o D)[3] = type
    <2>1. 1 \in 1..3 /\ 2 \in 1..3 /\ 3 \in 1..3
      OBVIOUS
    <2>. QED BY <1>2, <1>3, <2>1, Zenon
  <1>5. Counted(h \o D, m, seq, type, D)
    BY <1>3, <1>4 DEF Counted, a, b
  <1>. QED BY <1>5 DEF h, a, b

LEMMA FrameIs ==
    ASSUME NEW m \in 0..91, NEW seq \in 0..63, NEW type \in Octet, NEW D \in Seq(Octet), Len(D) = m,
           NEW last \in Octet, NEW counted, Counted(counted, m, seq, type, D)
    PROVE  Framed(<<MARK>> \o counted \o <<Check(Sum(counted)), last>>, m, seq, type, D, last)
  <1> DEFINE n == 3 + m
             k == 1 + n
             x == Check(Sum(counted))
             h == <<MARK>>
             t == <<x, last>>
             u == h \o counted
             E == u \o t
  <1>1. /\ counted \in Seq(Octet) /\ Len(counted) = n
        /\ counted[1] = TOCHAR(m + 3) /\ counted[2] = TOCHAR(seq) /\ counted[3] = type
        /\ \A j \in 1..m : counted[3 + j] = D[j]
    BY DEF Counted
  <1>2. x \in Octet
    <2>1. x \in Checks
      BY <1>1, SumIsOctet, OctetsAre
    <2> HIDE DEF x
    <2>. QED BY <2>1 DEF Checks, Octet
  <1> HIDE DEF x
  <1>3. /\ h \in Seq(Octet) /\ Len(h) = 1 /\ h[1] = MARK
        /\ t \in Seq(Octet) /\ Len(t) = 2 /\ t[1] = x /\ t[2] = last
    BY <1>2, OctetsAre
  <1>4. n \in Nat /\ k \in Nat
    OBVIOUS
  <1> HIDE DEF h, t, n
  <1>5. /\ u \in Seq(Octet) /\ Len(u) = k
        /\ \A j \in 1..1 : u[j] = h[j]
        /\ \A j \in 1..n : u[1 + j] = counted[j]
    <2>1. Appended(h \o counted, h, 1, counted, n)
      BY <1>1, <1>3, <1>4, 1 \in Nat, JoinIs, Zenon
    <2>. QED BY <2>1 DEF Appended
  <1> HIDE DEF u, k
  <1>6. /\ E \in Seq(Octet) /\ Len(E) = k + 2
        /\ \A j \in 1..k : E[j] = u[j]
        /\ \A j \in 1..2 : E[k + j] = t[j]
    <2>1. Appended(u \o t, u, k, t, 2)
      BY <1>3, <1>4, <1>5, 2 \in Nat, JoinIs, Zenon
    <2>. QED BY <2>1 DEF Appended
  <1> HIDE DEF E
  <1>7. k = 4 + m /\ n = 3 + m
    BY DEF k, n
  <1>8. Len(E) = m + 6
    BY <1>6, <1>7
  <1>9. ASSUME NEW j \in 1..n PROVE E[1 + j] = counted[j]
    <2>1. 1 + j \in 1..k
      BY <1>7
    <2>. QED BY <1>5, <1>6, <2>1
  <1>10. E[1] = MARK
    <2>1. 1 \in 1..k /\ 1 \in 1..1
      BY <1>7
    <2>. QED BY <1>3, <1>5, <1>6, <2>1
  <1>11. E[5 + m] = x /\ E[6 + m] = last
    <2>1. k + 1 = 5 + m /\ k + 2 = 6 + m /\ 1 \in 1..2 /\ 2 \in 1..2
      BY <1>7
    <2>2. E[k + 1] = t[1] /\ E[k + 2] = t[2]
      BY <1>6, <2>1
    <2>. QED BY <1>3, <2>1, <2>2
  <1>12. SubSeq(E, 2, 4 + m) = counted
    <2> DEFINE v == SubSeq(E, 2, 4 + m)
    <2>0. 4 + m + 1 - 2 = n /\ 2 <= 4 + m + 1 /\ 4 + m <= Len(E) /\ 2 \in Nat \ {0} /\ 4 + m \in Nat
      BY <1>7, <1>8
    <2>1. /\ v \in Seq(Octet) /\ Len(v) = n
          /\ \A i \in 1..n : v[i] = E[2 + i - 1]
      <3>1. /\ v \in Seq(Octet) /\ Len(v) = 4 + m + 1 - 2
            /\ \A i \in 1..4 + m + 1 - 2 : v[i] = E[2 + i - 1]
        BY <1>6, <2>0, SpanIs
      <3> HIDE DEF v
      <3>. QED BY <2>0, <3>1
    <2> HIDE DEF v
    <2>2. ASSUME NEW i \in 1..n PROVE v[i] = counted[i]
      <3>1. 2 + i - 1 = 1 + i
        BY <1>7
      <3>. QED BY <1>9, <2>1, <3>1
    <2>3. v = counted
      BY <1>1, <2>1, <2>2, SeqEqual
    <2>. QED BY <2>3 DEF v
  <1>13. E[2] = TOCHAR(m + 3) /\ E[3] = TOCHAR(seq) /\ E[4] = type
    <2>1. 1 \in 1..n /\ 2 \in 1..n /\ 3 \in 1..n
      BY <1>7
    <2>2. E[1 + 1] = counted[1] /\ E[1 + 2] = counted[2] /\ E[1 + 3] = counted[3]
      BY <1>9, <2>1
    <2>. QED BY <1>1, <2>2
  <1>14. ASSUME NEW j \in 1..m PROVE E[4 + j] = D[j]
    <2>1. 3 + j \in 1..n /\ 1 + (3 + j) = 4 + j
      BY <1>7
    <2>2. E[1 + (3 + j)] = counted[3 + j]
      BY <1>9, <2>1
    <2>. QED BY <1>1, <2>1, <2>2
  <1>15. Framed(E, m, seq, type, D, last)
    <2>1. E[5 + m] = Check(Sum(SubSeq(E, 2, 4 + m)))
      BY <1>11, <1>12 DEF x
    <2>. QED BY <1>6, <1>8, <1>10, <1>11, <1>13, <1>14, <2>1, Zenon DEF Framed
  <1>. QED BY <1>15 DEF E, u, h, t, x

-----------------------------------------------------------------------------
\* The characters of E are those of the line from q on; one more follows.
Stood(line, q, E) ==
    /\ line \in Seq(Octet) /\ q \in {1, 2} /\ Len(line) = q + Len(E)
    /\ \A j \in 1..Len(E) : line[q - 1 + j] = E[j]
    /\ (q = 2 => line[1] # MARK)

LEMMA FrameIsRead ==
    ASSUME NEW E, NEW m, NEW seq \in 0..63, NEW type, NEW bytes \in Seq(Octet), NEW last,
           Framed(E, m, seq, type, Encoding(bytes), last), NEW line, NEW q, Stood(line, q, E)
    PROVE  kermit_getpacket(line) = Reads([seq |-> seq, type |-> type, data |-> bytes])
  <1> DEFINE D == Encoding(bytes)
             chars == SubSeq(line, q + 4, Len(line))
             r == TakenFrom(line, q)
  <1>1. /\ line \in Seq(Octet) /\ q \in Nat \ {0} /\ q \in {1, 2}
        /\ m \in 0..91 /\ Len(E) = m + 6 /\ Len(line) = q + m + 6
        /\ E \in Seq(Octet) /\ D \in Seq(Octet) /\ Len(D) = m
    BY DEF Framed, Stood
  <1> HIDE DEF D
  <1>2. ASSUME NEW j \in 1..m + 6 PROVE line[q - 1 + j] = E[j]
    BY <1>1 DEF Stood
  <1>3. /\ line[q] = MARK /\ line[q + 1] = TOCHAR(m + 3) /\ line[q + 2] = TOCHAR(seq)
        /\ line[q + 3] = type
    <2>1. /\ 1 \in 1..m + 6 /\ 2 \in 1..m + 6 /\ 3 \in 1..m + 6 /\ 4 \in 1..m + 6
          /\ q - 1 + 1 = q /\ q - 1 + 2 = q + 1 /\ q - 1 + 3 = q + 2 /\ q - 1 + 4 = q + 3
      BY <1>1
    <2>2. /\ line[q - 1 + 1] = E[1] /\ line[q - 1 + 2] = E[2]
          /\ line[q - 1 + 3] = E[3] /\ line[q - 1 + 4] = E[4]
      BY <1>2, <2>1
    <2>3. E[1] = MARK /\ E[2] = TOCHAR(m + 3) /\ E[3] = TOCHAR(seq) /\ E[4] = type
      BY DEF Framed
    <2>. QED BY <2>1, <2>2, <2>3
  <1>4. ASSUME NEW j \in 1..m PROVE line[q + 3 + j] = D[j]
    <2>1. 4 + j \in 1..m + 6 /\ q - 1 + (4 + j) = q + 3 + j
      BY <1>1
    <2>2. line[q - 1 + (4 + j)] = E[4 + j]
      BY <1>2, <2>1
    <2>3. E[4 + j] = D[j]
      BY DEF Framed, D
    <2>. QED BY <2>1, <2>2, <2>3
  <1>5. line[q + 4 + m] = E[5 + m]
    <2>1. 5 + m \in 1..m + 6 /\ q - 1 + (5 + m) = q + 4 + m
      BY <1>1
    <2>. QED BY <1>2, <2>1
  <1>6. Found(line, q)
    BY <1>1, <1>3 DEF Stood, Found
  <1>7. UNCHAR(line[q + 1]) - 3 = m /\ UNCHAR(line[q + 2]) = seq
    <2>1. m + 3 \in 0..94 /\ seq \in 0..94
      BY <1>1
    <2>2. UNCHAR(TOCHAR(m + 3)) = m + 3 /\ UNCHAR(TOCHAR(seq)) = seq
      BY <2>1, OctetsAre
    <2>. QED BY <1>1, <1>3, <2>2
  <1>8. r = [i |-> m, quoted |-> FALSE, data |-> bytes]
    <2>1. /\ q + 4 \in Nat \ {0} /\ Len(line) \in Nat /\ q + 4 <= Len(line) + 1
          /\ Len(line) + 1 - (q + 4) = m + 3 /\ Len(line) <= Len(line)
      BY <1>1
    <2>2. /\ chars \in Seq(Octet) /\ Len(chars) = m + 3
          /\ \A i \in 1..m + 3 : chars[i] = line[q + 4 + i - 1]
      <3>1. /\ chars \in Seq(Octet) /\ Len(chars) = Len(line) + 1 - (q + 4)
            /\ \A i \in 1..Len(line) + 1 - (q + 4) : chars[i] = line[q + 4 + i - 1]
        BY <1>1, <2>1, SpanIs
      <3> HIDE DEF chars
      <3>. QED BY <2>1, <3>1
    <2>3. r = TakeData(chars, m)
      BY <1>7 DEF TakenFrom
    <2> HIDE DEF chars, r
    <2>4. ASSUME NEW j \in 1..m PROVE chars[j] = D[j]
      <3>1. j \in 1..m + 3 /\ q + 4 + j - 1 = q + 3 + j
        BY <1>1
      <3>. QED BY <1>4, <2>2, <3>1
    <2>5. m <= m + 3
      BY <1>1
    <2>6. TakeData(chars, Len(D)) = [i |-> Len(D), quoted |-> FALSE, data |-> bytes]
      BY <1>1, <2>2, <2>4, <2>5, DataDecodes DEF D
    <2>. QED BY <1>1, <2>3, <2>6
  <1>9. SubSeq(line, q + 1, q + 3 + m) = SubSeq(E, 2, 4 + m)
    <2> DEFINE v == SubSeq(line, q + 1, q + 3 + m)
               w == SubSeq(E, 2, 4 + m)
    <2>1. /\ q + 1 \in Nat \ {0} /\ q + 3 + m \in Nat /\ q + 1 <= q + 3 + m + 1 /\ q + 3 + m <= Len(line)
          /\ 2 \in Nat \ {0} /\ 4 + m \in Nat /\ 2 <= 4 + m + 1 /\ 4 + m <= Len(E)
          /\ q + 3 + m + 1 - (q + 1) = m + 3 /\ 4 + m + 1 - 2 = m + 3
      BY <1>1
    <2>2. /\ v \in Seq(Octet) /\ Len(v) = q + 3 + m + 1 - (q + 1)
          /\ \A i \in 1..q + 3 + m + 1 - (q + 1) : v[i] = line[q + 1 + i - 1]
      BY <1>1, <2>1, SpanIs
    <2>3. /\ w \in Seq(Octet) /\ Len(w) = 4 + m + 1 - 2
          /\ \A i \in 1..4 + m + 1 - 2 : w[i] = E[2 + i - 1]
      BY <1>1, <2>1, SpanIs
    <2> HIDE DEF v, w
    <2>4. ASSUME NEW i \in 1..m + 3 PROVE v[i] = w[i]
      <3>1. q + 1 + i - 1 = q - 1 + (1 + i) /\ 2 + i - 1 = 1 + i /\ 1 + i \in 1..m + 6
        BY <1>1
      <3>2. v[i] = line[q + 1 + i - 1] /\ w[i] = E[2 + i - 1]
        BY <2>1, <2>2, <2>3
      <3>. QED BY <1>2, <3>1, <3>2
    <2>5. Len(v) = m + 3 /\ Len(w) = m + 3
      BY <2>1, <2>2, <2>3
    <2>6. v = w
      BY <2>2, <2>3, <2>4, <2>5, SeqEqual
    <2>. QED BY <2>6 DEF v, w
  <1>10. line[q + 4 + m] = Check(SumBefore(line, q, m))
    BY <1>5, <1>9 DEF Framed, SumBefore
  <1>11. r.i = m /\ ~r.quoted /\ r.data = bytes
    BY <1>8
  <1>12. ~(Len(line) < q + 4 + m)
    BY <1>1
  <1>13. kermit_getpacket(line) =
           IF Len(line) < q + 4 + r.i \/ r.quoted THEN Waiting
           ELSE IF line[q + 4 + r.i] # Check(SumBefore(line, q, r.i)) THEN Refused
           ELSE Reads([seq |-> UNCHAR(line[q + 2]), type |-> line[q + 3], data |-> r.data])
    BY <1>6, GetPacketIs
  <1> HIDE DEF r
  <1>. QED BY <1>3, <1>7, <1>10, <1>11, <1>12, <1>13

\* No check is where it is looked for.
LEMMA FrameIsRefused ==
    ASSUME NEW line, Found(line, 1), NEW m \in 0..91, line[2] = TOCHAR(m + 3), Len(line) >= m + 6,
           line[5 + m] # Check(SumBefore(line, 1, m)), line[6 + m] \notin Checks
    PROVE  kermit_getpacket(line) = Refused
  <1> DEFINE chars == SubSeq(line, 5, Len(line))
             r == TakenFrom(line, 1)
             n == Len(line)
  <1>1. line \in Seq(Octet) /\ n \in Nat /\ n >= m + 6
    BY LenProperties DEF Found
  <1>2. UNCHAR(line[1 + 1]) - 3 = m
    <2>1. m + 3 \in 0..94 /\ 1 + 1 = 2
      OBVIOUS
    <2>2. UNCHAR(TOCHAR(m + 3)) = m + 3
      BY <2>1, OctetsAre
    <2>. QED BY <2>1, <2>2
  <1>3. chars \in Seq(Octet) /\ Len(chars) = n + 1 - 5
    <2>1. n \in Nat /\ n >= 5
      <3>1. m \in Nat /\ n \in Nat /\ n >= m + 6
        BY <1>1
      <3> HIDE DEF n
      <3>. QED BY ONLY <3>1
    <2> HIDE DEF n
    <2>2. 5 \in Nat \ {0} /\ 5 <= n + 1 /\ n <= n
      BY ONLY <2>1
    <2> USE DEF n
    <2>. QED BY <1>1, <2>2, SpanIs
  <1>4. r = TakeData(chars, m)
    BY <1>2 DEF TakenFrom
  <1> HIDE DEF chars, n
  <1>5. r \in TakeStates /\ ~r.quoted /\ r.i \in {m, m + 1}
    <2>1. Len(chars) > m /\ m \in Nat
      BY <1>1, <1>3
    <2> HIDE DEF r
    <2>. QED BY <1>3, <1>4, <2>1, TakesThatMany
  <1>6. kermit_getpacket(line) =
          IF n < 1 + 4 + r.i \/ r.quoted THEN Waiting
          ELSE IF line[1 + 4 + r.i] # Check(SumBefore(line, 1, r.i)) THEN Refused
          ELSE Reads([seq |-> UNCHAR(line[1 + 2]), type |-> line[1 + 3], data |-> r.data])
    BY GetPacketIs DEF n
  <1> HIDE DEF r
  <1>7. ~(n < 1 + 4 + r.i)
    BY <1>1, <1>5
  <1>8. line[1 + 4 + r.i] # Check(SumBefore(line, 1, r.i))
    <2>1. CASE r.i = m
      <3>1. 1 + 4 + r.i = 5 + m
        BY <2>1
      <3>. QED BY <2>1, <3>1
    <2>2. CASE r.i = m + 1
      <3>1. 1 + 4 + r.i = 6 + m
        BY <2>2
      <3>2. SubSeq(line, 1 + 1, 1 + 3 + r.i) \in Seq(Octet)
        <4>1. /\ 1 + 1 \in Nat \ {0} /\ 1 + 3 + r.i \in Nat
              /\ 1 + 1 <= 1 + 3 + r.i + 1 /\ 1 + 3 + r.i <= Len(line)
          BY <1>1, <2>2 DEF n
        <4>. QED BY <1>1, <4>1, SpanIs
      <3>3. SumBefore(line, 1, r.i) \in Octet
        BY <3>2, SumIsOctet DEF SumBefore
      <3>4. Check(SumBefore(line, 1, r.i)) \in Checks
        BY <3>3, OctetsAre
      <3>. QED BY <3>1, <3>4
    <2>. QED BY <1>5, <2>1, <2>2
  <1>. QED BY <1>5, <1>6, <1>7, <1>8

\* The next mark stands behind what came.
LEMMA Marked ==
    ASSUME NEW s \in Seq(Octet), NEW n \in Nat, Len(s) = n
    PROVE  /\ Append(s, MARK) \in Seq(Octet) /\ Len(Append(s, MARK)) = n + 1
           /\ \A j \in 1..n : Append(s, MARK)[j] = s[j]
           /\ Append(s, MARK)[n + 1] = MARK
  <1>1. MARK \in Octet
    BY OctetsAre
  <1>. QED BY <1>1, AppendProperties

LEMMA LostIsRefused ==
    ASSUME NEW E, NEW m, NEW seq, NEW type, NEW D, Framed(E, m, seq, type, D, EOL), NEW k \in 3..m + 5
    PROVE  kermit_getpacket(Append(RemoveAt(E, k), MARK)) = Refused
  <1> DEFINE a == SubSeq(E, 1, k - 1)
             b == SubSeq(E, k + 1, Len(E))
             x == k - 1
             y == m + 6 - k
             u == a \o b
             line == Append(u, MARK)
  <1>1. /\ E \in Seq(Octet) /\ m \in 0..91 /\ m \in Nat /\ Len(E) = m + 6
        /\ E[1] = MARK /\ E[2] = TOCHAR(m + 3) /\ E[6 + m] = EOL
    BY DEF Framed
  <1>2. k \in Nat /\ x \in Nat /\ y \in Nat /\ x >= 2 /\ y >= 1 /\ x + y = m + 5
    BY <1>1
  <1>3. a \in Seq(Octet) /\ Len(a) = x /\ \A i \in 1..x : a[i] = E[i]
    <2>1. 1 \in Nat \ {0} /\ k - 1 \in Nat /\ 1 <= k - 1 + 1 /\ k - 1 <= Len(E) /\ k - 1 + 1 - 1 = x
      BY <1>1, <1>2
    <2>2. a \in Seq(Octet) /\ Len(a) = k - 1 + 1 - 1 /\ \A i \in 1..k - 1 + 1 - 1 : a[i] = E[1 + i - 1]
      BY <1>1, <2>1, SpanIs
    <2> HIDE DEF a, x
    <2>3. ASSUME NEW i \in 1..x PROVE a[i] = E[i]
      <3>1. 1 + i - 1 = i
        BY <1>2
      <3>. QED BY <2>1, <2>2, <3>1
    <2>. QED BY <2>1, <2>2, <2>3
  <1>4. b \in Seq(Octet) /\ Len(b) = y /\ b[y] = E[6 + m]
    <2>1. /\ k + 1 \in Nat \ {0} /\ Len(E) \in Nat /\ k + 1 <= Len(E) + 1 /\ Len(E) <= Len(E)
          /\ Len(E) + 1 - (k + 1) = y /\ k + 1 + y - 1 = 6 + m /\ y \in 1..y
      BY <1>1, <1>2
    <2>2. /\ b \in Seq(Octet) /\ Len(b) = Len(E) + 1 - (k + 1)
          /\ \A i \in 1..Len(E) + 1 - (k + 1) : b[i] = E[k + 1 + i - 1]
      BY <1>1, <2>1, SpanIs
    <2> HIDE DEF b, y
    <2>3. b[y] = E[k + 1 + y - 1]
      BY <2>1, <2>2
    <2>. QED BY <2>1, <2>2, <2>3
  <1> HIDE DEF a, b
  <1>5. Appended(u, a, x, b, y)
    <2> HIDE DEF x, y
    <2>. QED BY <1>2, <1>3, <1>4, JoinIs, Zenon
  <1> HIDE DEF u, x, y
  <1>6. u \in Seq(Octet) /\ Len(u) = m + 5 /\ u[1] = MARK /\ u[2] = TOCHAR(m + 3) /\ u[m + 5] = EOL
    <2>1. u[1] = a[1] /\ u[2] = a[2] /\ a[1] = E[1] /\ a[2] = E[2]
      <3>1. 1 \in 1..x /\ 2 \in 1..x
        BY <1>2
      <3>. QED BY <1>3, <1>5, <3>1 DEF Appended
    <2>2. u[x + y] = b[y]
      <3>1. y \in 1..y
        BY <1>2
      <3>. QED BY <1>5, <3>1 DEF Appended
    <2>3. u \in Seq(Octet) /\ Len(u) = x + y
      BY <1>5 DEF Appended
    <2>. QED BY <1>1, <1>2, <1>4, <2>1, <2>2, <2>3
  <1>7. line \in Seq(Octet) /\ Len(line) = m + 6 /\ line[1] = MARK /\ line[2] = TOCHAR(m + 3)
        /\ line[5 + m] = EOL /\ line[6 + m] = MARK
    <2>1. /\ m + 5 \in Nat /\ 1 \in 1..m + 5 /\ 2 \in 1..m + 5 /\ m + 5 \in 1..m + 5
          /\ m + 5 + 1 = m + 6 /\ 5 + m = m + 5 /\ 6 + m = m + 6
      BY <1>1
    <2>2. /\ line \in Seq(Octet) /\ Len(line) = m + 5 + 1
          /\ \A j \in 1..m + 5 : line[j] = u[j]
          /\ line[m + 5 + 1] = MARK
      BY <1>6, <2>1, Marked
    <2> HIDE DEF line
    <2>. QED BY <1>6, <2>1, <2>2
  <1> HIDE DEF line
  <1>8. Found(line, 1) /\ Len(line) >= m + 6
    BY <1>1, <1>7 DEF Found
  <1>9. line[5 + m] \notin Checks /\ line[6 + m] \notin Checks
    BY <1>7, OctetsAre
  <1>10. line[5 + m] # Check(SumBefore(line, 1, m))
    <2>1. SubSeq(line, 1 + 1, 1 + 3 + m) \in Seq(Octet)
      <3>1. /\ 1 + 1 \in Nat \ {0} /\ 1 + 3 + m \in Nat
            /\ 1 + 1 <= 1 + 3 + m + 1 /\ 1 + 3 + m <= Len(line)
        BY <1>1, <1>7
      <3>. QED BY <1>7, <3>1, SpanIs
    <2>2. Check(SumBefore(line, 1, m)) \in Checks
      BY <2>1, SumIsOctet, OctetsAre DEF SumBefore
    <2>. QED BY <1>9, <2>2
  <1>11. kermit_getpacket(line) = Refused
    BY <1>1, <1>7, <1>8, <1>9, <1>10, FrameIsRefused
  <1>. QED BY <1>11 DEF line, u, a, b, RemoveAt

LEMMA FlippedIsRefused ==
    ASSUME NEW E, NEW m, NEW seq, NEW type, NEW D, Framed(E, m, seq, type, D, EOL),
           NEW k \in 3..m + 5, NEW b \in OneBit
    PROVE  kermit_getpacket(Append([E EXCEPT ![k] = FlipBit(@, b)], MARK)) = Refused
  <1> DEFINE F == [E EXCEPT ![k] = FlipBit(@, b)]
             line == Append(F, MARK)
             chars == SubSeq(E, 2, 4 + m)
             other == SubSeq(line, 2, 4 + m)
  <1>1. /\ E \in Seq(Octet) /\ m \in 0..91 /\ m \in Nat /\ Len(E) = m + 6 /\ k \in 1..m + 6
        /\ E[1] = MARK /\ E[2] = TOCHAR(m + 3) /\ E[6 + m] = EOL
        /\ E[5 + m] = Check(Sum(chars))
    BY DEF Framed
  <1>2. E[k] \in Octet
    BY <1>1, LenProperties
  <1>3. PICK d \in {b, -b} : FlipBit(E[k], b) = E[k] + d /\ FlipBit(E[k], b) \in Octet
    <2>1. FlipBit(E[k], b) \in Octet /\ (FlipBit(E[k], b) = E[k] + b \/ FlipBit(E[k], b) = E[k] - b)
      BY <1>2, FlipIs
    <2>2. E[k] - b = E[k] + (-b)
      BY <1>2 DEF Octet, OneBit
    <2>. QED BY <2>1, <2>2
  <1>4. d \in Int /\ d # 0
    BY DEF OneBit
  <1>5. F \in Seq(Octet) /\ Len(F) = m + 6 /\ \A j \in 1..m + 6 : F[j] = IF j = k THEN E[k] + d ELSE E[j]
    <2>1. F = [E EXCEPT ![k] = FlipBit(E[k], b)]
      OBVIOUS
    <2> HIDE DEF F
    <2>2. /\ F \in Seq(Octet) /\ Len(F) = Len(E)
          /\ \A j \in 1..Len(E) : F[j] = IF j = k THEN FlipBit(E[k], b) ELSE E[j]
      BY <1>1, <1>3, <2>1, ExceptSeq
    <2>. QED BY <1>1, <1>3, <2>2
  <1> HIDE DEF F
  <1>6. /\ line \in Seq(Octet) /\ Len(line) = m + 7
        /\ \A j \in 1..m + 6 : line[j] = IF j = k THEN E[k] + d ELSE E[j]
    <2>1. m + 6 \in Nat /\ m + 6 + 1 = m + 7
      BY <1>1
    <2>2. /\ line \in Seq(Octet) /\ Len(line) = m + 6 + 1 /\ \A j \in 1..m + 6 : line[j] = F[j]
      BY <1>5, <2>1, Marked
    <2>. QED BY <1>5, <2>1, <2>2
  <1> HIDE DEF line
  <1>7. line[1] = MARK /\ line[2] = TOCHAR(m + 3) /\ line[6 + m] = EOL
    <2>1. /\ 1 \in 1..m + 6 /\ 2 \in 1..m + 6 /\ 6 + m \in 1..m + 6
          /\ 1 # k /\ 2 # k /\ 6 + m # k
      BY <1>1
    <2>. QED BY <1>1, <1>6, <2>1
  <1>8. /\ chars \in Seq(Octet) /\ Len(chars) = m + 3 /\ \A i \in 1..m + 3 : chars[i] = E[1 + i]
        /\ other \in Seq(Octet) /\ Len(other) = m + 3 /\ \A i \in 1..m + 3 : other[i] = line[1 + i]
    <2>1. /\ 2 \in Nat \ {0} /\ 4 + m \in Nat /\ 2 <= 4 + m + 1 /\ 4 + m <= Len(E) /\ 4 + m <= Len(line)
          /\ 4 + m + 1 - 2 = m + 3
      BY <1>1, <1>6
    <2>2. /\ chars \in Seq(Octet) /\ Len(chars) = 4 + m + 1 - 2
          /\ \A i \in 1..4 + m + 1 - 2 : chars[i] = E[2 + i - 1]
      BY <1>1, <2>1, SpanIs
    <2>3. /\ other \in Seq(Octet) /\ Len(other) = 4 + m + 1 - 2
          /\ \A i \in 1..4 + m + 1 - 2 : other[i] = line[2 + i - 1]
      BY <1>6, <2>1, SpanIs
    <2> HIDE DEF chars, other
    <2>4. ASSUME NEW i \in 1..m + 3 PROVE chars[i] = E[1 + i] /\ other[i] = line[1 + i]
      <3>1. 2 + i - 1 = 1 + i
        BY <1>1
      <3>. QED BY <2>1, <2>2, <2>3, <3>1
    <2>. QED BY <2>1, <2>2, <2>3, <2>4
  <1> HIDE DEF chars, other
  <1>9. SumBefore(line, 1, m) = Sum(other)
    <2>1. 1 + 1 = 2 /\ 1 + 3 + m = 4 + m
      BY <1>1
    <2>. QED BY <2>1 DEF SumBefore, other
  <1>10. line[5 + m] # Check(Sum(other))
    <2>0. 5 + m \in 1..m + 6
      BY <1>1
    <2>1. CASE k = m + 5
      <3>1. line[5 + m] = E[5 + m] + d /\ E[5 + m] \in Octet
        BY <1>1, <1>2, <1>6, <2>0, <2>1
      <3>2. E[5 + m] \in Int
        BY <3>1, OctetIsInt, Zenon
      <3>3. line[5 + m] # E[5 + m]
        BY <1>4, <3>1, <3>2
      <3>4. ASSUME NEW i \in 1..m + 3 PROVE chars[i] = other[i]
        <4>1. 1 + i \in 1..m + 6 /\ 1 + i # k
          BY <1>1, <2>1
        <4>. QED BY <1>6, <1>8, <4>1
      <3>5. chars = other
        BY <1>8, <3>4, SeqEqual
      <3>. QED BY <1>1, <3>3, <3>5
    <2>2. CASE k # m + 5
      <3>1. line[5 + m] = E[5 + m]
        <4>1. 5 + m # k
          BY <1>1, <2>2
        <4>. QED BY <1>6, <2>0, <4>1
      <3>2. k - 1 \in 1..m + 3 /\ 1 + (k - 1) = k /\ k - 1 \in 1..Len(chars)
        BY <1>1, <1>8, <2>2
      <3>3. other[k - 1] = chars[k - 1] + d
        BY <1>1, <1>6, <1>8, <3>2
      <3>4. ASSUME NEW j \in 1..Len(chars), j # k - 1 PROVE other[j] = chars[j]
        <4>1. j \in 1..m + 3 /\ 1 + j \in 1..m + 6 /\ 1 + j # k
          BY <1>1, <1>8, <3>4
        <4>. QED BY <1>6, <1>8, <4>1
      <3>5. Sum(chars) \in Octet /\ Sum(other) = ByteOf(Sum(chars) + d)
        <4>1. Len(other) = Len(chars)
          BY <1>8
        <4>. QED BY <1>4, <1>8, <3>2, <3>3, <3>4, <4>1, SumOfChanged
      <3>6. Check(ByteOf(Sum(chars) + d)) # Check(Sum(chars))
        BY <3>5, CheckTells
      <3>. QED BY <1>1, <3>1, <3>5, <3>6
    <2>. QED BY <2>1, <2>2
  <1>11. Found(line, 1) /\ Len(line) >= m + 6
    BY <1>1, <1>6, <1>7 DEF Found
  <1>12. line[6 + m] \notin Checks
    BY <1>7, OctetsAre
  <1>13. kermit_getpacket(line) = Refused
    BY <1>1, <1>7, <1>9, <1>10, <1>11, <1>12, FrameIsRefused
  <1>. QED BY <1>13 DEF line, F

LEMMA CleanIsRead ==
    ASSUME NEW E, NEW m, NEW seq \in 0..63, NEW type, NEW bytes \in Seq(Octet), NEW last,
           Framed(E, m, seq, type, Encoding(bytes), last)
    PROVE  kermit_getpacket(Append(<<EOL>> \o E, MARK)) = Reads([seq |-> seq, type |-> type, data |-> bytes])
  <1> DEFINE h == <<EOL>>
             whole == h \o E
             line == Append(whole, MARK)
             n == m + 6
  <1>1. E \in Seq(Octet) /\ Len(E) = n /\ n \in Nat
    BY DEF Framed
  <1>2. h \in Seq(Octet) /\ Len(h) = 1 /\ h[1] = EOL
    BY OctetsAre
  <1> HIDE DEF h, n
  <1>3. Appended(whole, h, 1, E, n)
    <2>1. Appended(h \o E, h, 1, E, n)
      BY <1>1, <1>2, 1 \in Nat, JoinIs, Zenon
    <2>. QED BY <2>1
  <1> HIDE DEF whole
  <1>4. /\ whole \in Seq(Octet) /\ Len(whole) = 1 + n /\ whole[1] = EOL
        /\ \A j \in 1..n : whole[1 + j] = E[j]
    <2>1. 1 \in 1..1
      OBVIOUS
    <2>. QED BY <1>2, <1>3, <2>1 DEF Appended
  <1>5. /\ line \in Seq(Octet) /\ Len(line) = 1 + n + 1
        /\ \A j \in 1..1 + n : line[j] = whole[j]
    <2>1. 1 + n \in Nat
      BY <1>1
    <2>. QED BY <1>4, <2>1, Marked
  <1> HIDE DEF line
  <1>6. ASSUME NEW j \in 1..n PROVE line[2 - 1 + j] = E[j]
    <2>1. 2 - 1 + j = 1 + j /\ 1 + j \in 1..1 + n
      BY <1>1
    <2>. QED BY <1>4, <1>5, <2>1
  <1>7. line[1] # MARK
    <2>1. 1 \in 1..1 + n
      BY <1>1
    <2>. QED BY <1>4, <1>5, <2>1, OctetsAre
  <1>8. Len(line) = 2 + Len(E)
    BY <1>1, <1>5
  <1>9. Stood(line, 2, E)
    BY <1>1, <1>5, <1>6, <1>7, <1>8 DEF Stood
  <1>10. kermit_getpacket(line) = Reads([seq |-> seq, type |-> type, data |-> bytes])
    BY <1>9, FrameIsRead, Zenon
  <1>. QED BY <1>10 DEF line, whole, h

LEMMA NoDataIs == <<>> \in Seq(Octet) /\ Len(<<>>) = 0 /\ Encoding(<<>>) = <<>>
  <1>1. <<>> \in Seq(Octet) /\ Len(<<>>) = 0
    BY EmptySeq
  <1>2. PICK e : e = Encoding(<<>>)
    OBVIOUS
  <1>3. e \in Seq(Octet) /\ Len(e) <= 2 * Len(<<>>)
    BY <1>1, <1>2, DataDecodes
  <1>4. e = <<>>
    BY ONLY <1>1, <1>3, EmptySeq
  <1>. QED BY <1>1, <1>2, <1>4

LEMMA AckIsRead ==
    ASSUME NEW seq \in 0..63, NEW type \in Octet, NEW eof \in Octet
    PROVE  kermit_getpacket(Append(kermit_send_ack(type, seq, eof), MARK))
             = Reads([seq |-> seq, type |-> type, data |-> <<>>])
  <1> DEFINE c == <<TOCHAR(3), TOCHAR(seq), type>>
             F == <<MARK>> \o c \o <<Check(Sum(c)), eof>>
             line == Append(F, MARK)
  <1>1. Counted(c, 0, seq, type, <<>>)
    <2> DEFINE h == <<TOCHAR(0 + 3), TOCHAR(seq), type>>
               z == h \o <<>>
    <2>1. Counted(z, 0, seq, type, <<>>)
      <3>1. 0 \in 0..91
        OBVIOUS
      <3>. QED BY <3>1, NoDataIs, CountedIs, Zenon
    <2>2. h = c
      OBVIOUS
    <2>3. TOCHAR(3) \in Octet /\ TOCHAR(seq) \in Octet
      <3>1. 3 + 32 \in Int /\ seq + 32 \in Int
        OBVIOUS
      <3>2. ByteOf(3 + 32) \in Octet /\ ByteOf(seq + 32) \in Octet
        BY <3>1, OctetsAre
      <3>. QED BY <3>2 DEF TOCHAR
    <2>4. c \in Seq(Octet)
      BY <2>3
    <2> HIDE DEF h, c
    <2>5. z = c
      BY <2>2, <2>4, ConcatEmptySeq
    <2>. QED BY <2>1, <2>5
  <1> HIDE DEF c
  <1>2. Framed(F, 0, seq, type, <<>>, eof)
    <2>1. 0 \in 0..91
      OBVIOUS
    <2>. QED BY <1>1, <2>1, NoDataIs, FrameIs, Zenon
  <1> HIDE DEF F
  <1>3. F \in Seq(Octet) /\ Len(F) = 6
    BY <1>2 DEF Framed
  <1>4. /\ line \in Seq(Octet) /\ Len(line) = 6 + 1
        /\ \A j \in 1..6 : line[j] = F[j]
    <2>1. 6 \in Nat
      OBVIOUS
    <2>2. /\ Append(F, MARK) \in Seq(Octet) /\ Len(Append(F, MARK)) = 6 + 1
          /\ \A j \in 1..6 : Append(F, MARK)[j] = F[j]
      BY ONLY <1>3, <2>1, Marked
    <2>. QED BY <2>2
  <1> HIDE DEF line
  <1>5. ASSUME NEW j \in 1..6 PROVE line[1 - 1 + j] = F[j]
    <2>1. 1 - 1 + j = j
      OBVIOUS
    <2>. QED BY <1>4, <2>1
  <1>6. Stood(line, 1, F)
    BY <1>3, <1>4, <1>5 DEF Stood
  <1>7. <<>> \in Seq(Octet) /\ Framed(F, 0, seq, type, Encoding(<<>>), eof)
    BY <1>2, NoDataIs
  <1>8. kermit_getpacket(line) = Reads([seq |-> seq, type |-> type, data |-> <<>>])
    BY <1>6, <1>7, FrameIsRead, Zenon
  <1>9. line = Append(kermit_send_ack(type, seq, eof), MARK)
    BY DEF line, F, c, kermit_send_ack
  <1>. QED BY <1>8, <1>9

\* The packets the other end may mean.
Meant(p) ==
    /\ p.seq \in 0..63 /\ p.type \in Octet /\ p.data \in Seq(Octet) /\ 2 * Len(p.data) <= 91
    /\ p = [seq |-> p.seq, type |-> p.type, data |-> p.data]

LEMMA EncodedIs ==
    ASSUME NEW p, Meant(p)
    PROVE  \E m : Framed(Encoded(p), m, p.seq, p.type, Encoding(p.data), EOL)
  <1>1. PICK D, m, n : D = Encoding(p.data) /\ m = Len(D) /\ n = Len(p.data)
    OBVIOUS
  <1>2. D \in Seq(Octet) /\ m <= 2 * n
    BY <1>1, NoDataIs, DataDecodes DEF Meant
  <1>3. m \in Nat /\ n \in Nat /\ 2 * n <= 91
    BY <1>1, <1>2, LenProperties DEF Meant
  <1>4. m \in 0..91
    BY ONLY <1>2, <1>3
  <1>5. PICK counted : counted = <<TOCHAR(m + 3), TOCHAR(p.seq), p.type>> \o D
    OBVIOUS
  <1>6. Counted(counted, m, p.seq, p.type, D)
    BY <1>1, <1>2, <1>4, <1>5, CountedIs, Zenon DEF Meant
  <1>7. EOL \in Octet
    BY OctetsAre
  <1>8. Framed(<<MARK>> \o counted \o <<Check(Sum(counted)), EOL>>, m, p.seq, p.type, D, EOL)
    BY <1>1, <1>2, <1>4, <1>6, <1>7, FrameIs, Zenon DEF Meant
  <1>9. Encoded(p) = <<MARK>> \o counted \o <<Check(Sum(counted)), EOL>>
    BY <1>1, <1>5, Zenon DEF Encoded, Encoding
  <1>. QED BY <1>1, <1>8, <1>9

LEMMA FrameInitially == FrameInit => FramesDecode
  BY DEF FrameInit, FramesDecode

LEMMA FrameStep ==
    ASSUME FrameNext
    PROVE  FramesDecode'
  <1>1. PICK p \in [seq : Seqs, type : Types, data : Payloads] :
          \/ Clean(p)
          \/ \E k \in 3..Len(Encoded(p)) - 1 :
               CharLost(p, k) \/ \E b \in {1, 2, 4, 8, 16, 32, 64, 128} : Flipped(p, k, b)
          \/ \E eof \in {0, EOL} : Acked(p, eof)
    BY DEF FrameNext
  <1>2. Meant(p)
    <2>1. /\ p.seq \in Seqs /\ p.type \in Types /\ p.data \in Payloads
          /\ p = [seq |-> p.seq, type |-> p.type, data |-> p.data]
      OBVIOUS
    <2>2. p.seq \in 0..63 /\ p.data \in Seq(Octet) /\ 2 * Len(p.data) <= 91 /\ p.type \in 65..90
      BY <2>1, KermitFrameAssumption, Zenon DEF Octet
    <2>3. p.type \in Octet
      BY <2>2 DEF Octet
    <2>. QED BY <2>1, <2>2, <2>3, Zenon DEF Meant
  <1>3. PICK m : Framed(Encoded(p), m, p.seq, p.type, Encoding(p.data), EOL)
    BY <1>2, EncodedIs
  <1>4. m \in 0..91 /\ Len(Encoded(p)) - 1 = m + 5
    BY <1>3 DEF Framed
  <1>5. CASE Clean(p)
    <2>1. meant' = p /\ intact' = TRUE /\ got' = kermit_getpacket(Append(<<EOL>> \o Encoded(p), MARK))
      BY <1>5, Zenon DEF Clean, Comes
    <2>2. kermit_getpacket(Append(<<EOL>> \o Encoded(p), MARK)) = Reads(p)
      <3>1. p.seq \in 0..63 /\ p.data \in Seq(Octet)
        BY <1>2, Zenon DEF Meant
      <3>2. kermit_getpacket(Append(<<EOL>> \o Encoded(p), MARK))
              = Reads([seq |-> p.seq, type |-> p.type, data |-> p.data])
        BY <1>3, <3>1, CleanIsRead, Zenon
      <3>. QED BY <1>2, <3>2, Zenon DEF Meant
    <2>. QED BY <2>1, <2>2, Zenon DEF FramesDecode
  <1>6. ASSUME NEW k \in 3..Len(Encoded(p)) - 1, CharLost(p, k) PROVE FramesDecode'
    <2>1. k \in 3..m + 5
      BY <1>4
    <2>2. got' = kermit_getpacket(Append(RemoveAt(Encoded(p), k), MARK)) /\ intact' = FALSE
      BY <1>6, Zenon DEF CharLost, Comes
    <2>3. kermit_getpacket(Append(RemoveAt(Encoded(p), k), MARK)) = Refused
      BY <1>3, <2>1, LostIsRefused, Zenon
    <2>. QED BY <2>2, <2>3, Zenon DEF FramesDecode
  <1>7. ASSUME NEW k \in 3..Len(Encoded(p)) - 1, NEW b \in OneBit, Flipped(p, k, b)
        PROVE  FramesDecode'
    <2>1. k \in 3..m + 5
      BY <1>4
    <2>2. /\ got' = kermit_getpacket(Append([Encoded(p) EXCEPT ![k] = FlipBit(@, b)], MARK))
          /\ intact' = FALSE
      BY <1>7, Zenon DEF Flipped, Comes
    <2>3. kermit_getpacket(Append([Encoded(p) EXCEPT ![k] = FlipBit(@, b)], MARK)) = Refused
      BY <1>3, <2>1, FlippedIsRefused, Zenon
    <2>. QED BY <2>2, <2>3, Zenon DEF FramesDecode
  <1>8. ASSUME NEW eof \in {0, EOL}, Acked(p, eof) PROVE FramesDecode'
    <2>1. /\ meant' = p /\ intact' = TRUE /\ p.data = <<>>
          /\ got' = kermit_getpacket(Append(kermit_send_ack(p.type, p.seq, eof), MARK))
      BY <1>8, Zenon DEF Acked, Comes
    <2>2. eof \in Octet
      BY OctetsAre DEF Octet
    <2>3. p.seq \in 0..63 /\ p.type \in Octet
      BY <1>2, Zenon DEF Meant
    <2>4. kermit_getpacket(Append(kermit_send_ack(p.type, p.seq, eof), MARK))
            = Reads([seq |-> p.seq, type |-> p.type, data |-> <<>>])
      BY <2>2, <2>3, AckIsRead, Zenon
    <2>5. Reads([seq |-> p.seq, type |-> p.type, data |-> <<>>]) = Reads(p)
      BY <1>2, <2>1, Zenon DEF Meant
    <2>. QED BY <2>1, <2>4, <2>5, Zenon DEF FramesDecode
  <1>. QED BY <1>1, <1>5, <1>6, <1>7, <1>8, Zenon DEF OneBit

-----------------------------------------------------------------------------
(***************************************************************************)
(* string.c.  Copying byte by byte, from the end that is safe, is copying  *)
(* at once; the rest is where the texts end.                               *)
(***************************************************************************)
Memories == [Address -> Chars \cup {0}]
\* The bytes of m are those of m0 but for n at d, which are those at s.
IsCopy(m, m0, d, s, n) ==
    /\ m \in Memories /\ m0 \in Memories /\ d \in Nat /\ s \in Nat /\ n \in Nat
    /\ d + n <= MemSize
    /\ \A a \in Address : m[a] = IF a \in d..d + n - 1 THEN m0[s + a - d] ELSE m0[a]
\* The text at p has n characters.
TextEnds(m, p, n) ==
    /\ n \in Nat /\ p + n < MemSize /\ m[p + n] = 0
    /\ \A a \in p..p + n - 1 : m[a] # 0

LEMMA SizeIs == MemSize \in Nat \ {0} /\ \A a \in Address : a \in Nat /\ a < MemSize
  BY StringsAssumption DEF Address

LEMMA EndIs ==
    ASSUME NEW m, NEW p \in Address, \E a \in p..MemSize - 1 : m[a] = 0
    PROVE  TextEnds(m, p, strlen(m, p))
  <1> DEFINE Z == {a \in p..MemSize - 1 : m[a] = 0}
             e == Min(Z)
  <1>1. Z \in SUBSET Nat /\ Z # {}
    BY SizeIs
  <1>2. e \in Z /\ \A a \in Z : e <= a
    <2> HIDE DEF Z
    <2>. QED BY <1>1, LeastIsMin
  <1>3. strlen(m, p) = e - p
    BY DEF strlen
  <1>4. e \in p..MemSize - 1 /\ m[e] = 0
    BY <1>2
  <1>5. ASSUME NEW a \in p..e - 1 PROVE m[a] # 0
    <2>1. a \in p..MemSize - 1 /\ ~(e <= a)
      BY <1>4, SizeIs
    <2>. QED BY <1>2, <2>1
  <1> HIDE DEF e
  <1>6. PICK k \in Nat : k = e - p
    BY <1>4, SizeIs
  <1>7. p + k = e /\ p + k < MemSize
    BY <1>4, <1>6, SizeIs
  <1>8. strlen(m, p) = k /\ m[p + k] = 0
    BY <1>3, <1>4, <1>6, <1>7
  <1>9. \A a \in p..p + k - 1 : m[a] # 0
    BY <1>5, <1>7, SizeIs
  <1>. QED BY <1>6, <1>7, <1>8, <1>9 DEF TextEnds

LEMMA EndFound ==
    ASSUME NEW m, NEW p \in Address, NEW n, TextEnds(m, p, n)
    PROVE  strlen(m, p) = n
  <1>1. p + n \in p..MemSize - 1 /\ m[p + n] = 0
    BY SizeIs DEF TextEnds
  <1>2. TextEnds(m, p, strlen(m, p))
    BY <1>1, EndIs
  <1> DEFINE k == strlen(m, p)
  <1> HIDE DEF k
  <1>3. k \in Nat /\ n \in Nat /\ m[p + k] = 0 /\ m[p + n] = 0 /\ p \in Nat
    BY <1>2, SizeIs DEF TextEnds, k
  <1>4. ~(k < n)
    <2> SUFFICES ASSUME k < n PROVE FALSE
      OBVIOUS
    <2>1. p + k \in p..p + n - 1
      BY <1>3
    <2>. QED BY <1>3, <2>1 DEF TextEnds
  <1>5. ~(n < k)
    <2> SUFFICES ASSUME n < k PROVE FALSE
      OBVIOUS
    <2>1. p + n \in p..p + k - 1
      BY <1>3
    <2>. QED BY <1>2, <1>3, <2>1 DEF TextEnds, k
  <1>. QED BY <1>3, <1>4, <1>5 DEF k

OneByte(m, m0, to, from) == \A a \in Address : m[a] = IF a = to THEN m0[from] ELSE m0[a]

LEMMA CopyByteIs ==
    ASSUME NEW m \in Memories, NEW d \in Nat, NEW s \in Nat, NEW k \in Nat,
           d + k \in Address, s + k \in Address
    PROVE  CopyByte(d, s, m, k) \in Memories /\ OneByte(CopyByte(d, s, m, k), m, d + k, s + k)
  BY DEF CopyByte, Memories, OneByte

\* The memories the loop passes through.
InMemory(order, d, s) ==
    \A i \in 1..Len(order) : d + order[i] \in Address /\ s + order[i] \in Address
CopiesAlong(g, order, d, s, m0) ==
    /\ g[0] = m0
    /\ \A i \in 1..Len(order) : g[i] = CopyByte(d, s, g[i - 1], order[i])
    /\ CopyBy(order, d, s, m0) = g[Len(order)]

LEMMA CopyFolds ==
    ASSUME NEW order \in Seq(Nat), NEW d \in Nat, NEW s \in Nat, NEW m0 \in Memories,
           InMemory(order, d, s)
    PROVE  \E g \in [0..Len(order) -> Memories] : CopiesAlong(g, order, d, s, m0)
  <1> DEFINE n == Len(order)
             S == Memories
             step == [k \in 1..n |-> [m \in S |-> CopyByte(d, s, m, order[k])]]
             Is(f) == f = [t \in SUBSET DOMAIN order |->
                             IF t = {} THEN m0
                             ELSE CopyByte(d, s, f[t \ {Max(t)}], order[Max(t)])]
             all == CHOOSE f : Is(f)
             g == Partials(all, n)
  <1>1. n \in Nat /\ DOMAIN order = 1..n /\ \A k \in 1..n : order[k] \in Nat
    BY LenProperties
  <1>2. m0 \in S
    OBVIOUS
  <1>3. \A k \in 1..n : \A m \in S : CopyByte(d, s, m, order[k]) \in S
    BY <1>1, CopyByteIs DEF InMemory
  <1> HIDE DEF S
  <1>4. step \in Steps(S, n)
    BY <1>3 DEF Steps
  <1>5. PICK it \in [SUBSET (1..n) -> S] : IsFold(it, n, m0, step)
    <2> HIDE DEF n, step
    <2>. QED BY <1>1, <1>2, <1>4, FoldExists
  <1>6. ASSUME NEW t \in SUBSET (1..n), t # {} PROVE Max(t) \in 1..n /\ t \ {Max(t)} \in SUBSET (1..n)
    <2> HIDE DEF n
    <2>1. t \in SUBSET (0..n)
      <3>1. \A x \in t : x \in 0..n
        OBVIOUS
      <3>. QED BY <3>1
    <2>. QED BY <1>1, <1>6, <2>1, Greatest
  <1>7. Is(it)
    <2>1. ASSUME NEW t \in SUBSET (1..n), t # {}
          PROVE  step[Max(t)][it[t \ {Max(t)}]] = CopyByte(d, s, it[t \ {Max(t)}], order[Max(t)])
      <3>1. it[t \ {Max(t)}] \in S
        BY <1>6, <2>1
      <3>. QED BY <1>6, <2>1, <3>1
    <2> HIDE DEF step, n
    <2>. QED BY <1>1, <1>5, <2>1 DEF IsFold
  <1>8. Is(all)
    BY <1>7
  <1> HIDE DEF all
  <1>9. ASSUME NEW k \in 1..n, all[1..(k - 1)] \in S
        PROVE  all[1..k] = step[k][all[1..(k - 1)]]
    <2>1. all[1..k] = CopyByte(d, s, all[1..(k - 1)], order[k])
      BY <1>1, <1>8, Segment
    <2>. QED BY <1>9, <2>1
  <1>10. all[{}] = m0 /\ CopyBy(order, d, s, m0) = all[1..n]
    <2>1. {} \in SUBSET DOMAIN order
      OBVIOUS
    <2>. QED BY <1>1, <1>8, <2>1 DEF CopyBy, FoldLeft, MapThenFoldSet, all
  <1>11. /\ g \in [0..n -> S] /\ Follows(g, n, m0, step) /\ CopyBy(order, d, s, m0) = g[n]
    <2> HIDE DEF n, step
    <2>. QED BY <1>1, <1>2, <1>4, <1>9, <1>10, FoldFollows
  <1>12. g[0] = m0 /\ \A k \in 1..n : g[k] = CopyByte(d, s, g[k - 1], order[k])
    <2> HIDE DEF g
    <2> SUFFICES ASSUME NEW k \in 1..n PROVE g[k] = CopyByte(d, s, g[k - 1], order[k])
      BY <1>11 DEF Follows
    <2>1. k - 1 \in 0..n /\ g[k - 1] \in S /\ g[k] = step[k][g[k - 1]]
      <3> HIDE DEF step
      <3>. QED BY <1>1, <1>11 DEF Follows
    <2>. QED BY <2>1
  <1>. QED BY <1>11, <1>12 DEF S, CopiesAlong

LEMMA CopiedUp ==
    ASSUME NEW d \in Nat, NEW s \in Nat, NEW n \in Nat, NEW m0 \in Memories,
           d + n <= MemSize, s + n <= MemSize, d <= s \/ s + n <= d
    PROVE  IsCopy(CopyBy(Up(n), d, s, m0), m0, d, s, n)
  <1>1. Up(n) \in Seq(Nat) /\ Len(Up(n)) = n /\ \A i \in 1..n : Up(n)[i] = i - 1
    <2> DEFINE o == [i \in 1..n |-> i - 1]
    <2>1. o \in [1..n -> Nat] /\ \A i \in 1..n : o[i] = i - 1
      OBVIOUS
    <2> HIDE DEF o
    <2>2. o \in Seq(Nat) /\ Len(o) = n
      BY <2>1
    <2>. QED BY <2>1, <2>2 DEF Up, o
  <1>2. ASSUME NEW i \in 1..n PROVE d + Up(n)[i] \in Address /\ s + Up(n)[i] \in Address
    <2>1. Up(n)[i] = i - 1
      BY <1>1
    <2>2. d + (i - 1) \in 0..MemSize - 1 /\ s + (i - 1) \in 0..MemSize - 1
      BY SizeIs
    <2>. QED BY <2>1, <2>2 DEF Address
  <1>3. PICK g \in [0..n -> Memories] :
           /\ g[0] = m0 /\ CopyBy(Up(n), d, s, m0) = g[n]
           /\ \A i \in 1..n : g[i] = CopyByte(d, s, g[i - 1], Up(n)[i])
    <2> DEFINE o == Up(n)
    <2>1. o \in Seq(Nat) /\ Len(o) = n /\ InMemory(o, d, s)
      BY <1>1, <1>2 DEF InMemory
    <2> HIDE DEF o
    <2>2. \E g \in [0..Len(o) -> Memories] : CopiesAlong(g, o, d, s, m0)
      BY <2>1, CopyFolds, Zenon
    <2>. QED BY <2>1, <2>2 DEF o, CopiesAlong
  <1> DEFINE T == {k \in 0..n : \A a \in Address :
                     g[k][a] = IF a \in d..d + k - 1 THEN m0[s + a - d] ELSE m0[a]}
  <1>4. 0 \in T
    BY <1>3, SizeIs
  <1>5. ASSUME NEW k \in 1..n, k - 1 \in T PROVE k \in T
    <2>1. PICK j \in Nat : j = k - 1 /\ j < n /\ k = j + 1 /\ j \in 0..n
      OBVIOUS
    <2>2. PICK c \in Nat : c = j
      BY <2>1
    <2>3. \A a \in Address : g[j][a] = IF a \in d..d + j - 1 THEN m0[s + a - d] ELSE m0[a]
      BY <1>5, <2>1
    <2>4. g[j] \in Memories /\ g[k] = CopyByte(d, s, g[j], c)
      BY <1>1, <1>3, <2>1, <2>2
    <2>5. d + c \in Address /\ s + c \in Address /\ s + c \notin d..d + j - 1
      BY <2>1, <2>2, SizeIs DEF Address
    <2>6. \A a \in Address : g[k][a] = IF a = d + c THEN g[j][s + c] ELSE g[j][a]
      <3>1. OneByte(CopyByte(d, s, g[j], c), g[j], d + c, s + c)
        BY <2>4, <2>5, CopyByteIs, Zenon
      <3>. QED BY <2>4, <3>1 DEF OneByte
    <2>7. g[j][s + c] = m0[s + c]
      BY <2>3, <2>5
    <2> SUFFICES ASSUME NEW a \in Address
                 PROVE  g[k][a] = IF a \in d..d + k - 1 THEN m0[s + a - d] ELSE m0[a]
      OBVIOUS
    <2>8. a \in Nat
      BY SizeIs
    <2>9. CASE a = d + c
      <3>1. a \in d..d + k - 1 /\ s + a - d = s + c
        BY <2>1, <2>2, <2>8, <2>9
      <3>. QED BY <2>6, <2>7, <2>9, <3>1
    <2>10. CASE a # d + c
      <3>1. a \in d..d + k - 1 <=> a \in d..d + j - 1
        BY <2>1, <2>2, <2>8, <2>10
      <3>. QED BY <2>3, <2>6, <2>10, <3>1
    <2>. QED BY <2>9, <2>10
  <1>6. n \in T
    <2>1. \A k \in 1..n : k - 1 \in T => k \in T
      BY <1>5
    <2> HIDE DEF T
    <2>. QED BY <1>4, <2>1, UpTo, n \in 0..n
  <1>7. g[n] \in Memories
    OBVIOUS
  <1>. QED BY <1>3, <1>6, <1>7 DEF IsCopy

LEMMA CopiedDown ==
    ASSUME NEW d \in Nat, NEW s \in Nat, NEW n \in Nat, NEW m0 \in Memories,
           d + n <= MemSize, s + n <= MemSize, s <= d
    PROVE  IsCopy(CopyBy(Down(n), d, s, m0), m0, d, s, n)
  <1>1. Down(n) \in Seq(Nat) /\ Len(Down(n)) = n /\ \A i \in 1..n : Down(n)[i] = n - i
    <2> DEFINE o == [i \in 1..n |-> n - i]
    <2>1. o \in [1..n -> Nat] /\ \A i \in 1..n : o[i] = n - i
      OBVIOUS
    <2> HIDE DEF o
    <2>2. o \in Seq(Nat) /\ Len(o) = n
      BY <2>1
    <2>. QED BY <2>1, <2>2 DEF Down, o
  <1>2. ASSUME NEW i \in 1..n PROVE d + Down(n)[i] \in Address /\ s + Down(n)[i] \in Address
    <2>1. Down(n)[i] = n - i
      BY <1>1
    <2>2. d + (n - i) \in 0..MemSize - 1 /\ s + (n - i) \in 0..MemSize - 1
      BY SizeIs
    <2>. QED BY <2>1, <2>2 DEF Address
  <1>3. PICK g \in [0..n -> Memories] :
           /\ g[0] = m0 /\ CopyBy(Down(n), d, s, m0) = g[n]
           /\ \A i \in 1..n : g[i] = CopyByte(d, s, g[i - 1], Down(n)[i])
    <2> DEFINE o == Down(n)
    <2>1. o \in Seq(Nat) /\ Len(o) = n /\ InMemory(o, d, s)
      BY <1>1, <1>2 DEF InMemory
    <2> HIDE DEF o
    <2>2. \E g \in [0..Len(o) -> Memories] : CopiesAlong(g, o, d, s, m0)
      BY <2>1, CopyFolds, Zenon
    <2>. QED BY <2>1, <2>2 DEF o, CopiesAlong
  <1> DEFINE T == {k \in 0..n : \A a \in Address :
                     g[k][a] = IF a \in d + n - k..d + n - 1 THEN m0[s + a - d] ELSE m0[a]}
  <1>4. 0 \in T
    BY <1>3, SizeIs
  <1>5. ASSUME NEW k \in 1..n, k - 1 \in T PROVE k \in T
    <2>1. PICK j \in Nat : j = k - 1 /\ j < n /\ k = j + 1 /\ j \in 0..n
      OBVIOUS
    <2>2. PICK c \in Nat : c = n - k
      BY <2>1
    <2>3. \A a \in Address : g[j][a] = IF a \in d + n - j..d + n - 1 THEN m0[s + a - d] ELSE m0[a]
      BY <1>5, <2>1
    <2>4. g[j] \in Memories /\ g[k] = CopyByte(d, s, g[j], c)
      BY <1>1, <1>3, <2>1, <2>2
    <2>5. d + c \in Address /\ s + c \in Address /\ s + c \notin d + n - j..d + n - 1
      BY <2>1, <2>2, SizeIs DEF Address
    <2>6. \A a \in Address : g[k][a] = IF a = d + c THEN g[j][s + c] ELSE g[j][a]
      <3>1. OneByte(CopyByte(d, s, g[j], c), g[j], d + c, s + c)
        BY <2>4, <2>5, CopyByteIs, Zenon
      <3>. QED BY <2>4, <3>1 DEF OneByte
    <2>7. g[j][s + c] = m0[s + c]
      BY <2>3, <2>5
    <2> SUFFICES ASSUME NEW a \in Address
                 PROVE  g[k][a] = IF a \in d + n - k..d + n - 1 THEN m0[s + a - d] ELSE m0[a]
      OBVIOUS
    <2>8. a \in Nat
      BY SizeIs
    <2>9. CASE a = d + c
      <3>1. a \in d + n - k..d + n - 1 /\ s + a - d = s + c
        BY <2>1, <2>2, <2>8, <2>9
      <3>. QED BY <2>6, <2>7, <2>9, <3>1
    <2>10. CASE a # d + c
      <3>1. a \in d + n - k..d + n - 1 <=> a \in d + n - j..d + n - 1
        BY <2>1, <2>2, <2>8, <2>10
      <3>. QED BY <2>3, <2>6, <2>10, <3>1
    <2>. QED BY <2>9, <2>10
  <1>6. n \in T
    <2>1. \A k \in 1..n : k - 1 \in T => k \in T
      BY <1>5
    <2> HIDE DEF T
    <2>. QED BY <1>4, <2>1, UpTo, n \in 0..n
  <1>7. g[n] \in Memories
    OBVIOUS
  <1>. QED BY <1>3, <1>6, <1>7 DEF IsCopy

-----------------------------------------------------------------------------
\* What is copied behind a text, and ended, is the text's continuation.
Placed(m1, m0, d, l, s, k) ==
    /\ m0 \in Memories /\ m1 \in Memories /\ d \in Address /\ s \in Nat /\ l \in Nat /\ k \in Nat
    /\ s + k <= MemSize /\ TextEnds(m1, d, l + k)
    /\ \A i \in 1..l : m1[d + i - 1] = m0[d + i - 1]
    /\ \A i \in 1..k : m1[d + l + i - 1] = m0[s + i - 1]
    /\ \A a \in Address : a \notin d + l..d + l + k => m1[a] = m0[a]

\* There is room for that, and what is copied is not overwritten.
Fits(m0, d, l, s, k) ==
    /\ m0 \in Memories /\ d \in Nat /\ s \in Nat /\ l \in Nat /\ k \in Nat
    /\ d + l + k < MemSize /\ s + k <= MemSize
    /\ d + l <= s \/ s + k <= d + l
    /\ \A a \in d..d + l - 1 : m0[a] # 0
    /\ \A a \in s..s + k - 1 : m0[a] # 0

LEMMA PlacedBehind ==
    ASSUME NEW m0, NEW d, NEW s, NEW l, NEW k, Fits(m0, d, l, s, k)
    PROVE  Placed(EndAt(CopyBy(Up(k), d + l, s, m0), d + l + k), m0, d, l, s, k)
  <1>0. /\ m0 \in Memories /\ d \in Nat /\ s \in Nat /\ l \in Nat /\ k \in Nat
        /\ d + l + k < MemSize /\ s + k <= MemSize
        /\ d + l <= s \/ s + k <= d + l
        /\ \A a \in d..d + l - 1 : m0[a] # 0
        /\ \A a \in s..s + k - 1 : m0[a] # 0
    BY DEF Fits
  <1>1. PICK e \in Nat : e = d + l
    BY <1>0
  <1>2. PICK c \in Memories : c = CopyBy(Up(k), e, s, m0) /\ IsCopy(c, m0, e, s, k)
    <2>1. e + k <= MemSize /\ (e <= s \/ s + k <= e)
      BY <1>0, <1>1, SizeIs
    <2>2. IsCopy(CopyBy(Up(k), e, s, m0), m0, e, s, k)
      BY <1>0, <2>1, CopiedUp, Zenon
    <2>. QED BY <1>0, <2>2 DEF IsCopy
  <1>3. PICK m1 : m1 = EndAt(c, e + k)
    OBVIOUS
  <1>4. \A a \in Address :
          m1[a] = IF a = e + k THEN 0 ELSE IF a \in e..e + k - 1 THEN m0[s + a - e] ELSE m0[a]
    BY <1>0, <1>2, <1>3 DEF EndAt, IsCopy, Memories
  <1>5. \A a \in Nat : a < MemSize <=> a \in Address
    BY SizeIs DEF Address
  <1>6. ASSUME NEW i \in 1..l PROVE m1[d + i - 1] = m0[d + i - 1]
    <2>1. PICK a \in Nat : a = d + i - 1 /\ a < MemSize /\ a < e
      BY <1>0, <1>1, SizeIs
    <2>2. a \in Address /\ a # e + k /\ a \notin e..e + k - 1
      BY <1>0, <1>5, <2>1
    <2>. QED BY <1>0, <1>4, <2>1, <2>2
  <1>7. ASSUME NEW i \in 1..k PROVE m1[e + i - 1] = m0[s + i - 1]
    <2>1. PICK a \in Nat : a = e + i - 1 /\ a < MemSize /\ a \in e..e + k - 1 /\ a # e + k
      BY <1>0, <1>1, SizeIs
    <2>2. s + a - e = s + i - 1
      BY <1>0, <2>1
    <2>. QED BY <1>0, <1>4, <1>5, <2>1, <2>2
  <1>8. ASSUME NEW a \in Address, a \notin e..e + k PROVE m1[a] = m0[a]
    <2>1. a # e + k /\ a \notin e..e + k - 1
      BY <1>0, <1>8, SizeIs
    <2>. QED BY <1>0, <1>4, <2>1
  <1>9. m1[e + k] = 0
    BY <1>0, <1>1, <1>4, <1>5
  <1>10. ASSUME NEW a \in d..e + k - 1 PROVE m1[a] # 0
    <2>1. CASE a < e
      <3>1. PICK i \in 1..l : a = d + i - 1
        <4>1. a - d + 1 \in 1..l /\ a = d + (a - d + 1) - 1
          BY <1>0, <1>1, <2>1
        <4>. QED BY <1>0, <4>1
      <3>2. a \in d..d + l - 1
        BY <1>0, <1>1, <2>1
      <3>. QED BY <1>0, <1>6, <3>1, <3>2
    <2>2. CASE a >= e
      <3>1. PICK i \in 1..k : a = e + i - 1
        <4>1. a - e + 1 \in 1..k /\ a = e + (a - e + 1) - 1
          BY <1>0, <1>1, <2>2
        <4>. QED BY <1>0, <4>1
      <3>2. s + i - 1 \in s..s + k - 1
        BY <1>0
      <3>. QED BY <1>0, <1>7, <3>1, <3>2
    <2>. QED BY <1>0, <1>1, <2>1, <2>2
  <1>11. TextEnds(m1, d, l + k)
    <2>1. l + k \in Nat /\ d + (l + k) = e + k /\ d + (l + k) < MemSize
      BY <1>0, <1>1
    <2>2. m1[d + (l + k)] = 0
      BY <1>0, <1>9, <2>1
    <2>3. \A a \in d..d + (l + k) - 1 : m1[a] # 0
      BY <1>0, <1>10, <2>1
    <2>. QED BY <1>0, <2>1, <2>2, <2>3 DEF TextEnds
  <1>12. m1 \in Memories
    BY <1>0, <1>3 DEF EndAt, Memories
  <1>13. d \in Address
    BY <1>0, SizeIs DEF Address
  <1>14. Placed(m1, m0, d, l, s, k)
    BY <1>0, <1>1, <1>6, <1>7, <1>8, <1>11, <1>12, <1>13 DEF Placed
  <1>. QED BY <1>0, <1>1, <1>2, <1>3, <1>14

-----------------------------------------------------------------------------
\* Texts.
LEMMA BytesAre ==
    ASSUME NEW m \in Memories, NEW p \in Nat, NEW n \in Nat, p + n <= MemSize
    PROVE  /\ Bytes(m, p, n) \in Seq(Chars \cup {0}) /\ Len(Bytes(m, p, n)) = n
           /\ \A i \in 1..n : Bytes(m, p, n)[i] = m[p + i - 1]
  <1> DEFINE b == [i \in 1..n |-> m[p + i - 1]]
  <1>1. ASSUME NEW i \in 1..n PROVE m[p + i - 1] \in Chars \cup {0}
    <2>1. p + i - 1 \in Address
      BY SizeIs DEF Address
    <2>. QED BY <2>1 DEF Memories
  <1>2. b \in [1..n -> Chars \cup {0}] /\ \A i \in 1..n : b[i] = m[p + i - 1]
    BY <1>1
  <1> HIDE DEF b
  <1>3. b \in Seq(Chars \cup {0}) /\ Len(b) = n
    BY <1>2
  <1>. QED BY <1>2, <1>3 DEF Bytes, b

LEMMA TextIs ==
    ASSUME NEW m \in Memories, NEW p \in Address, NEW n, TextEnds(m, p, n)
    PROVE  /\ strlen(m, p) = n /\ Text(m, p) = Bytes(m, p, n) /\ Len(Text(m, p)) = n
           /\ Text(m, p) \in Seq(Chars \cup {0}) /\ \A i \in 1..n : Text(m, p)[i] = m[p + i - 1]
  <1>1. strlen(m, p) = n /\ Text(m, p) = Bytes(m, p, n)
    BY EndFound DEF Text
  <1>2. p \in Nat /\ n \in Nat /\ p + n <= MemSize
    BY SizeIs DEF TextEnds
  <1>. QED BY <1>1, <1>2, BytesAre

\* The text that is cut.
LEMMA CutIs ==
    ASSUME NEW S, NEW t \in Seq(S), NEW n \in Nat
    PROVE  /\ Lesser(n, Len(t)) \in 0..n /\ Lesser(n, Len(t)) \in 0..Len(t)
           /\ Lesser(n, Len(t)) = n \/ Lesser(n, Len(t)) = Len(t)
           /\ Cut(t, n) \in Seq(S) /\ Len(Cut(t, n)) = Lesser(n, Len(t))
           /\ \A i \in 1..Lesser(n, Len(t)) : Cut(t, n)[i] = t[i]
  <1>1. Len(t) \in Nat
    BY LenProperties
  <1>2. PICK k \in Nat : k = Lesser(n, Len(t)) /\ k <= n /\ k <= Len(t) /\ (k = n \/ k = Len(t))
    BY <1>1 DEF Lesser
  <1>3. Cut(t, n) = SubSeq(t, 1, k)
    BY <1>2 DEF Cut
  <1>4. SubSeq(t, 1, k) \in Seq(S) /\ Len(SubSeq(t, 1, k)) = k /\ \A i \in 1..k : SubSeq(t, 1, k)[i] = t[i]
    BY <1>1, <1>2
  <1>. QED BY <1>1, <1>2, <1>3, <1>4

LEMMA PlacedText ==
    ASSUME NEW m0, NEW m1, NEW d, NEW s, NEW l, NEW k, Placed(m1, m0, d, l, s, k)
    PROVE  Text(m1, d) = Bytes(m0, d, l) \o Bytes(m0, s, k)
  <1> DEFINE S == Chars \cup {0}
             t == Text(m1, d)
             u == Bytes(m0, d, l)
             v == Bytes(m0, s, k)
  <1>1. /\ m0 \in Memories /\ m1 \in Memories /\ TextEnds(m1, d, l + k)
        /\ d \in Address /\ d \in Nat /\ s \in Nat /\ l \in Nat /\ k \in Nat
        /\ d + l <= MemSize /\ s + k <= MemSize
    BY SizeIs DEF Placed, TextEnds
  <1>2. t \in Seq(S) /\ Len(t) = l + k /\ \A i \in 1..l + k : t[i] = m1[d + i - 1]
    BY <1>1, TextIs
  <1>3. /\ u \in Seq(S) /\ Len(u) = l /\ \A i \in 1..l : u[i] = m0[d + i - 1]
        /\ v \in Seq(S) /\ Len(v) = k /\ \A i \in 1..k : v[i] = m0[s + i - 1]
    BY <1>1, BytesAre
  <1>4. /\ \A i \in 1..l : m1[d + i - 1] = m0[d + i - 1]
        /\ \A i \in 1..k : m1[d + l + i - 1] = m0[s + i - 1]
    BY DEF Placed
  <1> HIDE DEF t, u, v, S
  <1>5. /\ u \o v \in Seq(S) /\ Len(u \o v) = l + k
        /\ \A i \in 1..l + k : (u \o v)[i] = IF i <= l THEN u[i] ELSE v[i - l]
    BY <1>1, <1>3, ConcatProperties
  <1>6. ASSUME NEW i \in 1..l + k PROVE t[i] = (u \o v)[i]
    <2>0. t[i] = m1[d + i - 1] /\ (u \o v)[i] = IF i <= l THEN u[i] ELSE v[i - l]
      BY <1>2, <1>5
    <2>1. CASE i <= l
      <3>1. i \in 1..l
        BY <1>1, <2>1
      <3>2. u[i] = m0[d + i - 1] /\ m1[d + i - 1] = m0[d + i - 1]
        BY <1>3, <1>4, <3>1
      <3>. QED BY <2>0, <2>1, <3>2
    <2>2. CASE ~(i <= l)
      <3>1. PICK j \in 1..k : i = l + j
        <4>1. i - l \in 1..k /\ i = l + (i - l)
          BY <1>1, <2>2
        <4>. QED BY <4>1
      <3>2. d + i - 1 = d + l + j - 1 /\ i - l = j
        BY <1>1, <3>1
      <3>3. v[j] = m0[s + j - 1] /\ m1[d + l + j - 1] = m0[s + j - 1]
        BY <1>3, <1>4, <3>1
      <3>. QED BY <2>0, <2>2, <3>2, <3>3
    <2>. QED BY <1>1, <2>1, <2>2
  <1>7. t = u \o v
    BY <1>1, <1>2, <1>5, <1>6, SeqEqual
  <1>. QED BY <1>7 DEF t, u, v

\* What lies at p in a memory with an end behind p.
LEMMA TextAt ==
    ASSUME NEW m \in Memories, NEW p \in Address, \E a \in p..MemSize - 1 : m[a] = 0
    PROVE  /\ p \in Nat /\ strlen(m, p) \in Nat /\ TextEnds(m, p, strlen(m, p))
           /\ p + strlen(m, p) < MemSize /\ m[p + strlen(m, p)] = 0
           /\ \A a \in p..p + strlen(m, p) - 1 : m[a] # 0
           /\ Text(m, p) = Bytes(m, p, strlen(m, p)) /\ Len(Text(m, p)) = strlen(m, p)
           /\ Text(m, p) \in Seq(Chars \cup {0})
           /\ \A i \in 1..strlen(m, p) : Text(m, p)[i] = m[p + i - 1]
  <1>1. TextEnds(m, p, strlen(m, p))
    BY EndIs
  <1>2. /\ Text(m, p) = Bytes(m, p, strlen(m, p)) /\ Len(Text(m, p)) = strlen(m, p)
        /\ Text(m, p) \in Seq(Chars \cup {0})
        /\ \A i \in 1..strlen(m, p) : Text(m, p)[i] = m[p + i - 1]
    BY <1>1, TextIs
  <1>. QED BY <1>1, <1>2, SizeIs DEF TextEnds

LEMMA CopyMoves ==
    ASSUME NEW m, NEW m0, NEW d, NEW s, NEW n, IsCopy(m, m0, d, s, n)
    PROVE  /\ Bytes(m, d, n) = Bytes(m0, s, n)
           /\ \A a \in Address \ (d..d + n) : m[a] = m0[a]
  <1>0. d \in Nat /\ s \in Nat /\ n \in Nat /\ d + n <= MemSize
    BY DEF IsCopy
  <1>1. ASSUME NEW i \in 1..n PROVE m[d + i - 1] = m0[s + i - 1]
    <2>1. PICK a \in Nat : a = d + i - 1
      BY <1>0
    <2>2. a \in 0..MemSize - 1 /\ a \in d..d + n - 1 /\ s + a - d = s + i - 1
      BY <1>0, <2>1, SizeIs
    <2>. QED BY <2>1, <2>2 DEF IsCopy, Address
  <1>2. \A a \in Address \ (d..d + n) : a \notin d..d + n - 1
    BY <1>0, SizeIs
  <1>. QED BY <1>1, <1>2 DEF Bytes, IsCopy

LEMMA CutText ==
    ASSUME NEW m \in Memories, NEW p \in Address, \E a \in p..MemSize - 1 : m[a] = 0, NEW n \in Nat,
           NEW k, k = Lesser(n, strlen(m, p))
    PROVE  /\ k \in 0..n /\ k \in 0..strlen(m, p) /\ (k = n \/ k = strlen(m, p))
           /\ Cut(Text(m, p), n) = Bytes(m, p, k)
           /\ Cut(Text(m, p), n) \in Seq(Chars \cup {0}) /\ Len(Cut(Text(m, p), n)) = k
  <1> DEFINE S == Chars \cup {0}
             t == Text(m, p)
             c == Cut(t, n)
             b == Bytes(m, p, k)
  <1>1. /\ p \in Nat /\ Len(t) \in Nat /\ Len(t) = strlen(m, p) /\ p + Len(t) < MemSize
        /\ t \in Seq(S) /\ \A i \in 1..Len(t) : t[i] = m[p + i - 1]
    BY TextAt
  <1>2. k = Lesser(n, Len(t))
    BY <1>1
  <1> HIDE DEF t, S
  <1>3. /\ k \in 0..n /\ k \in 0..Len(t) /\ (k = n \/ k = Len(t))
        /\ c \in Seq(S) /\ Len(c) = k /\ \A i \in 1..k : c[i] = t[i]
    BY <1>1, <1>2, CutIs
  <1>4. b \in Seq(S) /\ Len(b) = k /\ \A i \in 1..k : b[i] = m[p + i - 1]
    <2>1. k \in Nat /\ p + k <= MemSize
      BY <1>1, <1>3, SizeIs
    <2>. QED BY <1>1, <2>1, BytesAre DEF S
  <1> HIDE DEF b, c
  <1>5. ASSUME NEW i \in 1..k PROVE c[i] = b[i]
    <2>1. i \in 1..Len(t)
      BY <1>1, <1>3
    <2>. QED BY <1>1, <1>3, <1>4, <2>1
  <1>6. c = b
    BY <1>3, <1>4, <1>5, SeqEqual
  <1>. QED BY <1>1, <1>3, <1>6 DEF c, b, t, S

-----------------------------------------------------------------------------
\* The calls, one after the other.
LEMMA StrcpyAgrees ==
    ASSUME mem \in Memories, NEW d \in Address, NEW s \in Address, Strcpy(d, s)
    PROVE  StringsAgree'
  <1>1. PICK n : n = strlen(mem, s)
    OBVIOUS
  <1>2. /\ \E a \in s..MemSize - 1 : mem[a] = 0
        /\ d + (n + 1) <= MemSize
        /\ d + (n + 1) <= s \/ s + (n + 1) <= d
        /\ call' = [op |-> "strcpy", d |-> d, s |-> s, n |-> 0]
        /\ before' = mem /\ mem' = EndAt(CopyBy(Up(n), d, s, mem), d + n)
    BY <1>1 DEF Strcpy, Ended, Room, Apart, Changes, Calls, strcpy, memcpy
  <1>3. /\ n \in Nat /\ s + n < MemSize /\ d \in Nat /\ s \in Nat
        /\ \A a \in s..s + n - 1 : mem[a] # 0
        /\ Text(mem, s) = Bytes(mem, s, n) /\ Len(Text(mem, s)) = n
        /\ Text(mem, s) \in Seq(Chars \cup {0})
    BY <1>1, <1>2, TextAt, SizeIs
  <1>4. d + 0 = d /\ d + n < MemSize /\ s + n <= MemSize /\ (d <= s \/ s + n <= d)
    BY <1>2, <1>3, SizeIs
  <1>5. Placed(mem', mem, d, 0, s, n)
    <2>1. \A a \in d..d + 0 - 1 : mem[a] # 0
      BY <1>3
    <2>2. Fits(mem, d, 0, s, n)
      BY <1>3, <1>4, <2>1 DEF Fits
    <2>. QED BY <1>2, <1>4, <2>2, PlacedBehind
  <1>6. Text(mem', d) = Text(mem, s)
    <2>1. Text(mem', d) = Bytes(mem, d, 0) \o Bytes(mem, s, n)
      BY <1>5, PlacedText
    <2>2. Bytes(mem, d, 0) = <<>>
      BY <1>3 DEF Bytes
    <2>. QED BY <1>3, <2>1, <2>2, ConcatEmptySeq
  <1>7. \A a \in Address \ (d..d + n) : mem'[a] = mem[a]
    BY <1>3, <1>4, <1>5 DEF Placed
  <1>. QED BY <1>2, <1>3, <1>6, <1>7 DEF StringsAgree, Kept

LEMMA StrcatAgrees ==
    ASSUME mem \in Memories, NEW d \in Address, NEW s \in Address, Strcat(d, s)
    PROVE  StringsAgree'
  <1>1. PICK l, n : l = strlen(mem, d) /\ n = strlen(mem, s)
    OBVIOUS
  <1>2. /\ \E a \in s..MemSize - 1 : mem[a] = 0
        /\ \E a \in d..MemSize - 1 : mem[a] = 0
        /\ d + (l + n + 1) <= MemSize
        /\ d + (l + n + 1) <= s \/ s + (n + 1) <= d
        /\ call' = [op |-> "strcat", d |-> d, s |-> s, n |-> 0]
        /\ before' = mem /\ mem' = EndAt(CopyBy(Up(n), d + l, s, mem), d + l + n)
    BY <1>1 DEF Strcat, Ended, Room, Apart, Changes, Calls, strcat, strcpy, memcpy
  <1>3. /\ n \in Nat /\ s + n < MemSize /\ d \in Nat /\ s \in Nat
        /\ \A a \in s..s + n - 1 : mem[a] # 0
        /\ Text(mem, s) = Bytes(mem, s, n) /\ Len(Text(mem, s)) = n
    BY <1>1, <1>2, TextAt
  <1>4. /\ l \in Nat /\ \A a \in d..d + l - 1 : mem[a] # 0
        /\ Text(mem, d) = Bytes(mem, d, l) /\ Len(Text(mem, d)) = l
    BY <1>1, <1>2, TextAt
  <1>5. Placed(mem', mem, d, l, s, n)
    <2>1. d + l + n < MemSize /\ s + n <= MemSize /\ (d + l <= s \/ s + n <= d + l)
      BY <1>2, <1>3, <1>4, SizeIs
    <2>2. Fits(mem, d, l, s, n)
      BY <1>3, <1>4, <2>1 DEF Fits
    <2>. QED BY <1>2, <2>2, PlacedBehind
  <1>6. Text(mem', d) = Text(mem, d) \o Text(mem, s)
    <2>1. Text(mem', d) = Bytes(mem, d, l) \o Bytes(mem, s, n)
      BY <1>5, PlacedText
    <2>. QED BY <1>3, <1>4, <2>1
  <1>7. \A a \in Address \ (d..d + l + n) : mem'[a] = mem[a]
    <2>1. ASSUME NEW a \in Address, a \notin d..d + l + n PROVE a \notin d + l..d + l + n
      BY <1>3, <1>4, <2>1
    <2>. QED BY <1>5, <2>1 DEF Placed
  <1>. QED BY <1>2, <1>3, <1>4, <1>6, <1>7 DEF StringsAgree, Kept

LEMMA StrncatAgrees ==
    ASSUME mem \in Memories, NEW d \in Address, NEW s \in Address, NEW n \in 0..MemSize,
           Strncat(d, s, n)
    PROVE  StringsAgree'
  <1>1. PICK l, k : l = strlen(mem, d) /\ k = Lesser(n, strlen(mem, s))
    OBVIOUS
  <1>2. /\ \E a \in s..MemSize - 1 : mem[a] = 0
        /\ \E a \in d..MemSize - 1 : mem[a] = 0
        /\ d + (l + n + 1) <= MemSize
        /\ d + (l + n + 1) <= s \/ s + (strlen(mem, s) + 1) <= d
        /\ call' = [op |-> "strncat", d |-> d, s |-> s, n |-> n]
        /\ before' = mem /\ mem' = EndAt(CopyBy(Up(k), d + l, s, mem), d + l + k)
    BY <1>1 DEF Strncat, Ended, Room, Apart, Changes, Calls, strncat, memcpy
  <1>3. /\ strlen(mem, s) \in Nat /\ s + strlen(mem, s) < MemSize /\ d \in Nat /\ s \in Nat
        /\ \A a \in s..s + strlen(mem, s) - 1 : mem[a] # 0
    BY <1>2, TextAt, SizeIs
  <1>4. /\ l \in Nat /\ \A a \in d..d + l - 1 : mem[a] # 0
        /\ Text(mem, d) = Bytes(mem, d, l) /\ Len(Text(mem, d)) = l
    BY <1>1, <1>2, TextAt
  <1>5. k \in 0..n /\ k \in 0..strlen(mem, s) /\ Cut(Text(mem, s), n) = Bytes(mem, s, k)
    BY <1>1, <1>2, CutText, n \in Nat
  <1>6. PICK len \in Nat : len = strlen(mem, s)
    BY <1>3
  <1>7. Placed(mem', mem, d, l, s, k)
    <2>1. /\ k \in Nat /\ d + l + k < MemSize /\ s + k <= MemSize
          /\ d + l <= s \/ s + k <= d + l
      <3>1. /\ l \in Nat /\ d \in Nat /\ s \in Nat /\ k \in 0..len /\ k \in 0..n /\ s + len < MemSize
            /\ d + (l + n + 1) <= s \/ s + (len + 1) <= d
            /\ d + (l + n + 1) <= MemSize /\ MemSize \in Nat
        BY <1>2, <1>3, <1>4, <1>5, <1>6, SizeIs
      <3>. QED BY <3>1, <1>6
    <2>2. \A a \in s..s + k - 1 : a \in s..s + len - 1
      BY <1>3, <1>5, <1>6
    <2>3. Fits(mem, d, l, s, k)
      BY <1>3, <1>4, <1>6, <2>1, <2>2 DEF Fits
    <2>. QED BY <1>2, <2>3, PlacedBehind
  <1>8. Text(mem', d) = Text(mem, d) \o Cut(Text(mem, s), n)
    <2>1. Text(mem', d) = Bytes(mem, d, l) \o Bytes(mem, s, k)
      BY <1>7, PlacedText
    <2>. QED BY <1>4, <1>5, <2>1
  <1>9. \A a \in Address \ (d..d + l + n) : mem'[a] = mem[a]
    <2>1. ASSUME NEW a \in Address, a \notin d..d + l + n PROVE a \notin d + l..d + l + k
      BY <1>3, <1>4, <1>5, <2>1
    <2>. QED BY <1>7, <2>1 DEF Placed
  <1>. QED BY <1>2, <1>4, <1>8, <1>9 DEF StringsAgree, Kept

LEMMA StrncpyAgrees ==
    ASSUME mem \in Memories, NEW d \in Address, NEW s \in Address, NEW n \in 0..MemSize,
           Strncpy(d, s, n)
    PROVE  StringsAgree'
  <1>1. PICK len, k : len = strlen(mem, s) /\ k = Lesser(n, len)
    OBVIOUS
  <1>2. /\ \E a \in s..MemSize - 1 : mem[a] = 0
        /\ d + (n + 1) <= MemSize
        /\ d + (n + 1) <= s \/ s + (len + 1) <= d
        /\ call' = [op |-> "strncpy", d |-> d, s |-> s, n |-> n]
        /\ before' = mem
        /\ mem' = IF len = n THEN CopyBy(Up(k), d, s, mem) ELSE EndAt(CopyBy(Up(k), d, s, mem), d + k)
    BY <1>1 DEF Strncpy, Ended, Room, Apart, Changes, Calls, strncpy, memcpy
  <1>3. /\ len \in Nat /\ s + len < MemSize /\ d \in Nat /\ s \in Nat
        /\ Len(Text(mem, s)) = len /\ \A a \in s..s + len - 1 : mem[a] # 0
    BY <1>1, <1>2, TextAt, SizeIs
  <1>4. /\ k \in 0..n /\ k \in 0..len /\ (k = n \/ k = len)
        /\ Cut(Text(mem, s), n) = Bytes(mem, s, k)
        /\ Cut(Text(mem, s), n) \in Seq(Chars \cup {0})
    BY <1>1, <1>2, CutText, n \in Nat
  <1>5. k \in Nat /\ d + 0 = d /\ d + k < MemSize /\ s + k <= MemSize /\ (d <= s \/ s + k <= d)
    BY <1>2, <1>3, <1>4, SizeIs
  <1>6. CASE len = n
    <2>1. mem' = CopyBy(Up(k), d, s, mem) /\ k = n
      BY <1>2, <1>4, <1>6
    <2>2. IsCopy(mem', mem, d, s, k)
      <3>1. d + k <= MemSize
        BY <1>3, <1>5, SizeIs
      <3>2. IsCopy(CopyBy(Up(k), d, s, mem), mem, d, s, k)
        BY <1>3, <1>5, <3>1, CopiedUp, Zenon
      <3>. QED BY <2>1, <3>2
    <2>3. Bytes(mem', d, k) = Bytes(mem, s, k) /\ \A a \in Address \ (d..d + n) : mem'[a] = mem[a]
      BY <2>1, <2>2, CopyMoves
    <2>4. mem'[d + n] = mem[d + n]
      <3>1. d + n \in Address /\ d + n \notin d..d + k - 1
        BY <1>3, <1>5, <2>1, SizeIs DEF Address
      <3>. QED BY <2>2, <3>1 DEF IsCopy
    <2>. QED BY <1>1, <1>2, <1>3, <1>4, <1>6, <2>3, <2>4 DEF StringsAgree, Kept
  <1>7. CASE len # n
    <2>1. Placed(mem', mem, d, 0, s, k)
      <3>1. \A a \in d..d + 0 - 1 : mem[a] # 0
        BY <1>3
      <3>2. \A a \in s..s + k - 1 : a \in s..s + len - 1
        BY <1>3, <1>4
      <3>3. Fits(mem, d, 0, s, k)
        BY <1>3, <1>5, <3>1, <3>2 DEF Fits
      <3>. QED BY <1>2, <1>5, <1>7, <3>3, PlacedBehind
    <2>2. Text(mem', d) = Bytes(mem, s, k)
      <3>1. Text(mem', d) = Bytes(mem, d, 0) \o Bytes(mem, s, k)
        BY <2>1, PlacedText
      <3>2. Bytes(mem, d, 0) = <<>>
        BY <1>3 DEF Bytes
      <3>. QED BY <1>4, <3>1, <3>2, ConcatEmptySeq
    <2>3. Text(mem', d) = Bytes(mem', d, k)
      <3>1. mem' \in Memories /\ TextEnds(mem', d, 0 + k) /\ 0 + k = k
        BY <1>5, <2>1 DEF Placed
      <3>. QED BY <3>1, TextIs
    <2>4. \A a \in Address \ (d..d + n) : mem'[a] = mem[a]
      <3>1. ASSUME NEW a \in Address, a \notin d..d + n PROVE a \notin d + 0..d + 0 + k
        BY <1>3, <1>4, <3>1
      <3>. QED BY <2>1, <3>1 DEF Placed
    <2>. QED BY <1>1, <1>2, <1>3, <1>4, <1>7, <2>2, <2>3, <2>4 DEF StringsAgree, Kept
  <1>. QED BY <1>6, <1>7

LEMMA MemmoveAgrees ==
    ASSUME mem \in Memories, NEW d \in Address, NEW s \in Address, NEW n \in 0..MemSize,
           Memmove(d, s, n)
    PROVE  StringsAgree'
  <1>1. /\ d + n <= MemSize /\ s + n <= MemSize
        /\ call' = [op |-> "memmove", d |-> d, s |-> s, n |-> n] /\ before' = mem
        /\ mem' = IF d < s THEN CopyBy(Up(n), d, s, mem) ELSE CopyBy(Down(n), d, s, mem)
    BY DEF Memmove, Room, Changes, Calls, memmove, memcpy
  <1>2. d \in Nat /\ s \in Nat /\ n \in Nat
    BY SizeIs
  <1>3. IsCopy(mem', mem, d, s, n)
    <2>1. CASE d < s
      <3>1. d <= s \/ s + n <= d
        BY <1>2, <2>1
      <3>2. IsCopy(CopyBy(Up(n), d, s, mem), mem, d, s, n)
        BY <1>1, <1>2, <3>1, CopiedUp, Zenon
      <3>. QED BY <1>1, <2>1, <3>2
    <2>2. CASE ~(d < s)
      <3>1. s <= d
        BY <1>2, <2>2
      <3>2. IsCopy(CopyBy(Down(n), d, s, mem), mem, d, s, n)
        BY <1>1, <1>2, <3>1, CopiedDown, Zenon
      <3>. QED BY <1>1, <2>2, <3>2
    <2>. QED BY <2>1, <2>2
  <1>4. Bytes(mem', d, n) = Bytes(mem, s, n)
    BY <1>3, CopyMoves
  <1>5. \A a \in Address \ (d..d + n - 1) : mem'[a] = mem[a]
    BY <1>3 DEF IsCopy
  <1>. QED BY <1>1, <1>4, <1>5 DEF StringsAgree, Kept

-----------------------------------------------------------------------------
\* Two texts are in the order of the first place where they differ.
Agree(t, u, k) == \A i \in 1..k : t[i] = u[i]

LEMMA OrderDiffers ==
    ASSUME NEW t \in Seq(Nat), NEW u \in Seq(Nat), NEW k \in 0..Len(t), k <= Len(u),
           Agree(t, u, k), k < Len(t) \/ k < Len(u),
           k < Len(t) /\ k < Len(u) => t[k + 1] # u[k + 1]
    PROVE  Order(t, u) = IF k = Len(t) \/ (k < Len(u) /\ t[k + 1] < u[k + 1]) THEN -1 ELSE 1
  <1>1. Len(t) \in Nat /\ Len(u) \in Nat /\ k \in Nat
    BY LenProperties
  <1>2. \A i \in 1..Len(t) : t[i] \in Nat
    BY ElementOfSeq
  <1>3. \A i \in 1..Len(u) : u[i] \in Nat
    BY ElementOfSeq
  <1>4. t # u
    <2> SUFFICES ASSUME t = u PROVE FALSE
      OBVIOUS
    <2>. QED BY <1>1
  <1>5. ASSUME k = Len(t) \/ (k < Len(u) /\ t[k + 1] < u[k + 1]) PROVE Precedes(t, u)
    <2>1. k < Len(u) /\ (k = Len(t) \/ t[k + 1] < u[k + 1])
      BY <1>1, <1>5
    <2>. QED BY <2>1 DEF Precedes, Agree
  <1>6. ASSUME Precedes(t, u) PROVE k = Len(t) \/ (k < Len(u) /\ t[k + 1] < u[k + 1])
    <2>1. PICK j \in 0..Len(t) : /\ j < Len(u) /\ \A i \in 1..j : t[i] = u[i]
                                 /\ j = Len(t) \/ t[j + 1] < u[j + 1]
      BY <1>6 DEF Precedes
    <2>2. ~(j < k)
      <3> SUFFICES ASSUME j < k PROVE FALSE
        OBVIOUS
      <3>1. j + 1 \in 1..k /\ j # Len(t) /\ j + 1 \in 1..Len(t)
        BY <1>1
      <3>2. t[j + 1] = u[j + 1] /\ t[j + 1] \in Nat
        BY <1>2, <3>1 DEF Agree
      <3>3. t[j + 1] < u[j + 1]
        BY <2>1, <3>1
      <3>. QED BY <3>2, <3>3
    <2>3. ~(k < j)
      <3> SUFFICES ASSUME k < j PROVE FALSE
        OBVIOUS
      <3>1. k + 1 \in 1..j /\ k < Len(t) /\ k < Len(u)
        BY <1>1, <2>1
      <3>. QED BY <2>1, <3>1
    <2>4. j = k
      BY <1>1, <2>2, <2>3
    <2>. QED BY <2>1, <2>4
  <1>. QED BY <1>4, <1>5, <1>6 DEF Order

DifferAt(p, q, n, k) ==
    /\ k \in 0..n
    /\ \A j \in 0..k - 1 : mem[p + j] = mem[q + j]
    /\ k < n => mem[p + k] # mem[q + k]

LEMMA DifferIs ==
    ASSUME NEW p, NEW q, NEW n \in Nat
    PROVE  DifferAt(p, q, n, Differ(p, q, n))
  <1> DEFINE D == {k \in 0..n - 1 : mem[p + k] # mem[q + k]}
             Z == D \cup {n}
  <1>1. Z \in SUBSET Nat /\ Z # {}
    OBVIOUS
  <1>2. PICK k : k = Min(Z)
    OBVIOUS
  <1>3. k \in Z /\ \A a \in Z : k <= a
    <2> HIDE DEF Z
    <2>. QED BY <1>1, <1>2, LeastIsMin
  <1>4. Differ(p, q, n) = k
    BY <1>2 DEF Differ
  <1>5. k \in 0..n /\ (k < n => mem[p + k] # mem[q + k])
    BY <1>3
  <1>6. ASSUME NEW j \in 0..k - 1 PROVE mem[p + j] = mem[q + j]
    <2>1. j \in 0..n - 1 /\ ~(k <= j)
      BY <1>5
    <2>. QED BY <1>3, <2>1
  <1>. QED BY <1>4, <1>5, <1>6 DEF DifferAt

\* The byte behind k of a text, or its end.
Following(t, k) == IF k < Len(t) THEN t[k + 1] ELSE 0

LEMMA OrderIs ==
    ASSUME NEW t \in Seq(Nat), NEW u \in Seq(Nat), NEW k \in 0..Len(t), k <= Len(u),
           Agree(t, u, k), NEW x \in Nat, NEW y \in Nat, x # y,
           x = Following(t, k), y = Following(u, k)
    PROVE  Order(t, u) = Sign(x - y)
  <1>1. Len(t) \in Nat /\ Len(u) \in Nat /\ k \in Nat
    BY LenProperties
  <1>2. k < Len(t) \/ k < Len(u)
    BY <1>1 DEF Following
  <1>3. k < Len(t) /\ k < Len(u) => t[k + 1] # u[k + 1]
    BY DEF Following
  <1>4. Order(t, u) = IF k = Len(t) \/ (k < Len(u) /\ t[k + 1] < u[k + 1]) THEN -1 ELSE 1
    BY <1>2, <1>3, OrderDiffers
  <1>5. Sign(x - y) = IF x < y THEN -1 ELSE 1
    BY DEF Sign
  <1>6. x < y <=> k = Len(t) \/ (k < Len(u) /\ t[k + 1] < u[k + 1])
    <2>1. CASE k = Len(t)
      <3>1. x = 0
        BY <1>1, <2>1 DEF Following
      <3>. QED BY <2>1, <3>1
    <2>2. CASE k < Len(t) /\ k < Len(u)
      <3>1. x = t[k + 1] /\ y = u[k + 1]
        BY <2>2 DEF Following
      <3>2. k # Len(t)
        BY <1>1, <2>2
      <3>. QED BY <2>2, <3>1, <3>2
    <2>3. CASE k < Len(t) /\ ~(k < Len(u))
      <3>1. y = 0
        BY <2>3 DEF Following
      <3>. QED BY <1>1, <2>3, <3>1
    <2>. QED BY <1>1, <2>1, <2>2, <2>3
  <1>. QED BY <1>4, <1>5, <1>6

LEMMA OrderSame == ASSUME NEW t PROVE Order(t, t) = 0 /\ Sign(0) = 0
  BY DEF Order, Sign

LEMMA BytesAreNumbers ==
    ASSUME NEW m \in Memories
    PROVE  /\ \A a \in Address : m[a] \in Nat
           /\ Seq(Chars \cup {0}) \subseteq Seq(Nat)
  <1>1. Chars \cup {0} \subseteq Nat
    BY StringsAssumption
  <1>. QED BY <1>1, SeqMonotonic DEF Memories

LEMMA MemcmpAgrees ==
    ASSUME mem \in Memories, NEW d \in Address, NEW s \in Address, NEW n \in 0..MemSize,
           Memcmp(d, s, n)
    PROVE  StringsAgree'
  <1> DEFINE t == Bytes(mem, d, n)
             u == Bytes(mem, s, n)
  <1>1. /\ d + n <= MemSize /\ s + n <= MemSize
        /\ call' = [op |-> "memcmp", d |-> d, s |-> s, n |-> n] /\ before' = mem
        /\ ret' = memcmp(d, s, n)
    BY DEF Memcmp, Room, Tells, Calls
  <1>2. d \in Nat /\ s \in Nat /\ n \in Nat /\ MemSize \in Nat
    BY SizeIs
  <1>3. /\ t \in Seq(Nat) /\ Len(t) = n /\ \A i \in 1..n : t[i] = mem[d + i - 1]
        /\ u \in Seq(Nat) /\ Len(u) = n /\ \A i \in 1..n : u[i] = mem[s + i - 1]
    BY <1>1, <1>2, BytesAre, BytesAreNumbers
  <1> HIDE DEF t, u
  <1>4. PICK k \in 0..n : /\ k = Differ(d, s, n)
                          /\ \A j \in 0..k - 1 : mem[d + j] = mem[s + j]
                          /\ k < n => mem[d + k] # mem[s + k]
    <2>1. DifferAt(d, s, n, Differ(d, s, n))
      BY <1>2, DifferIs, Zenon
    <2>. QED BY <2>1 DEF DifferAt
  <1>5. ret' = IF k = n THEN 0 ELSE mem[d + k] - mem[s + k]
    BY <1>1, <1>4 DEF memcmp
  <1>6. ASSUME NEW i \in 1..k PROVE t[i] = u[i]
    <2>1. PICK j \in 0..k - 1 : j = i - 1
      BY <1>2
    <2>2. d + j = d + i - 1 /\ s + j = s + i - 1 /\ i \in 1..n
      BY <1>2, <2>1
    <2>. QED BY <1>3, <1>4, <2>1, <2>2
  <1>7. Sign(ret') = Order(t, u)
    <2>1. CASE k = n
      <3>1. t = u
        BY <1>3, <1>6, <2>1, SeqEqual
      <3>. QED BY <1>5, <2>1, <3>1, OrderSame
    <2>2. CASE k # n
      <3>1. PICK x, y : x = mem[d + k] /\ y = mem[s + k]
        OBVIOUS
      <3>2. k < n /\ d + k \in Address /\ s + k \in Address
        BY <1>1, <1>2, <2>2 DEF Address
      <3>3. x \in Nat /\ y \in Nat /\ x # y
        BY <1>4, <3>1, <3>2, BytesAreNumbers
      <3>4. x = Following(t, k) /\ y = Following(u, k)
        <4>1. k + 1 \in 1..n /\ d + (k + 1) - 1 = d + k /\ s + (k + 1) - 1 = s + k
          BY <1>2, <3>2
        <4>2. t[k + 1] = mem[d + k] /\ u[k + 1] = mem[s + k]
          BY <1>3, <4>1
        <4>. QED BY <1>3, <3>1, <3>2, <4>2 DEF Following
      <3>5. Agree(t, u, k)
        BY <1>6 DEF Agree
      <3>6. k \in 0..Len(t) /\ k <= Len(u)
        BY <1>2, <1>3
      <3>7. Order(t, u) = Sign(x - y)
        BY <1>3, <3>3, <3>4, <3>5, <3>6, OrderIs
      <3>. QED BY <1>5, <2>2, <3>1, <3>7
    <2>. QED BY <2>1, <2>2
  <1>. QED BY <1>1, <1>7 DEF StringsAgree, t, u

\* Comparing bytes up to the end of the shorter text compares the texts.
LEMMA TextsCompare ==
    ASSUME mem \in Memories, NEW p \in Address, NEW q \in Address, NEW n \in Nat,
           \E a \in p..MemSize - 1 : mem[a] = 0, \E a \in q..MemSize - 1 : mem[a] = 0
    PROVE  Sign(strncmp(p, q, n)) = Order(Cut(Text(mem, p), n), Cut(Text(mem, q), n))
  <1> DEFINE t == Cut(Text(mem, p), n)
             u == Cut(Text(mem, q), n)
  <1>1. PICK lp, lq : lp = strlen(mem, p) /\ lq = strlen(mem, q)
    OBVIOUS
  <1>2. /\ p \in Nat /\ lp \in Nat /\ p + lp < MemSize /\ mem[p + lp] = 0
        /\ \A a \in p..p + lp - 1 : mem[a] # 0
    BY <1>1, TextAt
  <1>3. /\ q \in Nat /\ lq \in Nat /\ q + lq < MemSize /\ mem[q + lq] = 0
        /\ \A a \in q..q + lq - 1 : mem[a] # 0
    BY <1>1, TextAt
  <1>4. PICK a, b : a = Lesser(n, lp) /\ b = Lesser(n, lq)
    OBVIOUS
  <1>5. a \in Nat /\ b \in Nat /\ a <= n /\ a <= lp /\ b <= n /\ b <= lq /\ (a = n \/ a = lp) /\ (b = n \/ b = lq)
    BY <1>2, <1>3, <1>4 DEF Lesser
  <1>6. /\ t \in Seq(Nat) /\ Len(t) = a /\ \A i \in 1..a : t[i] = mem[p + i - 1]
    <2>1. a = Lesser(n, strlen(mem, p))
      BY <1>1, <1>4
    <2>2. t = Bytes(mem, p, a)
      BY <2>1, CutText
    <2>3. p + a <= MemSize
      BY <1>2, <1>5, SizeIs
    <2>. QED BY <1>2, <1>5, <2>2, <2>3, BytesAre, BytesAreNumbers
  <1>7. /\ u \in Seq(Nat) /\ Len(u) = b /\ \A i \in 1..b : u[i] = mem[q + i - 1]
    <2>1. b = Lesser(n, strlen(mem, q))
      BY <1>1, <1>4
    <2>2. u = Bytes(mem, q, b)
      BY <2>1, CutText
    <2>3. q + b <= MemSize
      BY <1>3, <1>5, SizeIs
    <2>. QED BY <1>3, <1>5, <2>2, <2>3, BytesAre, BytesAreNumbers
  <1> HIDE DEF t, u
  <1>8. PICK m \in Nat : /\ m = Lesser(n, Shorter(p, q)) /\ m <= n /\ m <= lp + 1 /\ m <= lq + 1
                         /\ m = n \/ m = lp + 1 \/ m = lq + 1
    <2>1. Shorter(p, q) = Lesser(lp, lq) + 1
      BY <1>1 DEF Shorter
    <2>. QED BY <1>2, <1>3, <2>1 DEF Lesser
  <1>9. PICK k : DifferAt(p, q, m, k) /\ k = Differ(p, q, m)
    BY DifferIs, Zenon
  <1>10. /\ k \in Nat /\ k <= m /\ \A j \in 0..k - 1 : mem[p + j] = mem[q + j]
         /\ k < m => mem[p + k] # mem[q + k]
    BY <1>9 DEF DifferAt
  <1>11. strncmp(p, q, n) = IF k = m THEN 0 ELSE mem[p + k] - mem[q + k]
    BY <1>8, <1>9 DEF strncmp, memcmp
  <1>12. ASSUME NEW i \in 1..k, i <= a, i <= b PROVE t[i] = u[i]
    <2>1. PICK j \in 0..k - 1 : j = i - 1
      BY <1>10
    <2>2. p + j = p + i - 1 /\ q + j = q + i - 1 /\ i \in 1..a /\ i \in 1..b
      BY <1>2, <1>3, <1>5, <1>12, <2>1
    <2>. QED BY <1>6, <1>7, <1>10, <2>1, <2>2
  <1>13. CASE k = m
    <2>1. ~(lp < lq /\ lp < n)
      <3> SUFFICES ASSUME lp < lq, lp < n PROVE FALSE
        OBVIOUS
      <3>1. lp \in 0..k - 1
        BY <1>2, <1>3, <1>8, <1>13
      <3>2. q + lp \in q..q + lq - 1
        BY <1>2, <1>3
      <3>. QED BY <1>2, <1>3, <1>10, <3>1, <3>2
    <2>2. ~(lq < lp /\ lq < n)
      <3> SUFFICES ASSUME lq < lp, lq < n PROVE FALSE
        OBVIOUS
      <3>1. lq \in 0..k - 1
        BY <1>2, <1>3, <1>8, <1>13
      <3>2. p + lq \in p..p + lp - 1
        BY <1>2, <1>3
      <3>. QED BY <1>2, <1>3, <1>10, <3>1, <3>2
    <2>3. a = b /\ a <= m
      BY <1>2, <1>3, <1>5, <1>8, <2>1, <2>2
    <2>4. ASSUME NEW i \in 1..a PROVE t[i] = u[i]
      <3>1. i \in 1..k /\ i <= a /\ i <= b
        BY <1>5, <1>10, <1>13, <2>3
      <3>. QED BY <1>12, <3>1
    <2>5. t = u
      BY <1>6, <1>7, <2>3, <2>4, SeqEqual
    <2>. QED BY <1>11, <1>13, <2>5, OrderSame DEF t, u
  <1>14. CASE k # m
    <2>1. k < m /\ k < n /\ k <= lp /\ k <= lq
      BY <1>2, <1>3, <1>8, <1>10, <1>14
    <2>2. k <= a /\ k <= b /\ k \in 0..a
      BY <1>2, <1>3, <1>5, <1>10, <2>1
    <2>3. PICK x, y : x = mem[p + k] /\ y = mem[q + k]
      OBVIOUS
    <2>4. x \in Nat /\ y \in Nat /\ x # y
      <3>1. p + k \in Address /\ q + k \in Address
        BY <1>2, <1>3, <1>10, <2>1, SizeIs DEF Address
      <3>. QED BY <1>10, <2>1, <2>3, <3>1, BytesAreNumbers
    <2>5. x = Following(t, k)
      <3>1. CASE k < a
        <4>1. k + 1 \in 1..a /\ p + (k + 1) - 1 = p + k
          BY <1>2, <1>5, <1>10, <3>1
        <4>. QED BY <1>6, <2>3, <3>1, <4>1 DEF Following
      <3>2. CASE ~(k < a)
        <4>1. k = lp
          BY <1>2, <1>5, <1>10, <2>1, <3>2
        <4>. QED BY <1>2, <1>6, <2>3, <3>2, <4>1 DEF Following
      <3>. QED BY <3>1, <3>2
    <2>6. y = Following(u, k)
      <3>1. CASE k < b
        <4>1. k + 1 \in 1..b /\ q + (k + 1) - 1 = q + k
          BY <1>3, <1>5, <1>10, <3>1
        <4>. QED BY <1>7, <2>3, <3>1, <4>1 DEF Following
      <3>2. CASE ~(k < b)
        <4>1. k = lq
          BY <1>3, <1>5, <1>10, <2>1, <3>2
        <4>. QED BY <1>3, <1>7, <2>3, <3>2, <4>1 DEF Following
      <3>. QED BY <3>1, <3>2
    <2>7. Agree(t, u, k)
      <3>1. \A i \in 1..k : i <= a /\ i <= b
        BY <1>5, <1>10, <2>2
      <3>. QED BY <1>12, <3>1 DEF Agree
    <2>8. k \in 0..Len(t) /\ k <= Len(u)
      BY <1>6, <1>7, <2>2
    <2>9. Order(t, u) = Sign(x - y)
      BY <1>6, <1>7, <2>4, <2>5, <2>6, <2>7, <2>8, OrderIs
    <2>. QED BY <1>11, <1>14, <2>3, <2>9 DEF t, u
  <1>. QED BY <1>13, <1>14

LEMMA StrncmpAgrees ==
    ASSUME mem \in Memories, NEW d \in Address, NEW s \in Address, NEW n \in 0..MemSize,
           Strncmp(d, s, n)
    PROVE  StringsAgree'
  <1>1. /\ \E a \in d..MemSize - 1 : mem[a] = 0
        /\ \E a \in s..MemSize - 1 : mem[a] = 0
        /\ call' = [op |-> "strncmp", d |-> d, s |-> s, n |-> n] /\ before' = mem
        /\ ret' = strncmp(d, s, n)
    BY DEF Strncmp, Ended, Tells, Calls
  <1>2. n \in Nat
    BY SizeIs
  <1>3. Sign(ret') = Order(Cut(Text(mem, d), n), Cut(Text(mem, s), n))
    BY <1>1, <1>2, TextsCompare
  <1>. QED BY <1>1, <1>3 DEF StringsAgree

LEMMA StrcmpAgrees ==
    ASSUME mem \in Memories, NEW d \in Address, NEW s \in Address, Strcmp(d, s)
    PROVE  StringsAgree'
  <1>1. /\ \E a \in d..MemSize - 1 : mem[a] = 0
        /\ \E a \in s..MemSize - 1 : mem[a] = 0
        /\ call' = [op |-> "strcmp", d |-> d, s |-> s, n |-> 0] /\ before' = mem
        /\ ret' = Sign(memcmp(d, s, Shorter(d, s)))
    BY DEF Strcmp, Ended, Tells, Calls, strcmp
  <1>2. MemSize \in Nat
    BY SizeIs
  <1>3. Sign(strncmp(d, s, MemSize)) = Order(Cut(Text(mem, d), MemSize), Cut(Text(mem, s), MemSize))
    BY <1>1, <1>2, TextsCompare
  <1>4. ASSUME NEW p \in Address, \E a \in p..MemSize - 1 : mem[a] = 0
        PROVE  /\ strlen(mem, p) \in Nat /\ strlen(mem, p) < MemSize
               /\ Cut(Text(mem, p), MemSize) = Text(mem, p)
    <2>1. /\ p \in Nat /\ strlen(mem, p) \in Nat /\ p + strlen(mem, p) < MemSize
          /\ Text(mem, p) = Bytes(mem, p, strlen(mem, p))
      BY <1>4, TextAt
    <2>2. strlen(mem, p) < MemSize /\ strlen(mem, p) = Lesser(MemSize, strlen(mem, p))
      BY <1>2, <2>1 DEF Lesser
    <2>3. Cut(Text(mem, p), MemSize) = Bytes(mem, p, strlen(mem, p))
      BY <1>2, <1>4, <2>2, CutText
    <2>. QED BY <2>1, <2>2, <2>3
  <1>5. Lesser(MemSize, Shorter(d, s)) = Shorter(d, s)
    <2>1. PICK ld \in Nat, ls \in Nat : ld = strlen(mem, d) /\ ls = strlen(mem, s) /\ ld < MemSize /\ ls < MemSize
      BY <1>1, <1>4
    <2>2. Shorter(d, s) = Lesser(ld, ls) + 1
      BY <2>1 DEF Shorter
    <2>. QED BY <1>2, <2>1, <2>2 DEF Lesser
  <1>6. ret' = Order(Text(mem, d), Text(mem, s))
    BY <1>1, <1>3, <1>4, <1>5 DEF strncmp
  <1>. QED BY <1>1, <1>6 DEF StringsAgree

LEMMA StrnlenAgrees ==
    ASSUME mem \in Memories, NEW d \in Address, NEW n \in 0..MemSize, Strnlen(d, n)
    PROVE  StringsAgree'
  <1>1. /\ \E a \in d..MemSize - 1 : mem[a] = 0
        /\ call' = [op |-> "strnlen", d |-> d, s |-> 0, n |-> n] /\ before' = mem
        /\ ret' = Lesser(n, strlen(mem, d))
    BY DEF Strnlen, Ended, Tells, Calls, strnlen
  <1>2. n \in Nat
    BY SizeIs
  <1>3. Len(Cut(Text(mem, d), n)) = Lesser(n, strlen(mem, d))
    BY <1>1, <1>2, CutText
  <1>. QED BY <1>1, <1>3 DEF StringsAgree

LEMMA StrchrAgrees ==
    ASSUME mem \in Memories, NEW d \in Address, NEW c \in Chars, Strchr(d, c)
    PROVE  StringsAgree'
  <1> DEFINE T == Text(mem, d)
  <1>1. PICK l : l = strlen(mem, d)
    OBVIOUS
  <1>2. PICK F : F = {a \in d..d + l : mem[a] = c}
    OBVIOUS
  <1>3. /\ \E a \in d..MemSize - 1 : mem[a] = 0
        /\ call' = [op |-> "strchr", d |-> d, s |-> 0, n |-> c] /\ before' = mem
        /\ ret' = IF F = {} THEN NULL ELSE Min(F)
    BY <1>1, <1>2 DEF Strchr, Ended, Tells, Calls, strchr
  <1>4. /\ d \in Nat /\ l \in Nat /\ mem[d + l] = 0 /\ Len(T) = l
        /\ \A i \in 1..l : T[i] = mem[d + i - 1]
    BY <1>1, <1>3, TextAt
  <1>5. c # 0
    BY StringsAssumption
  <1> HIDE DEF T
  <1>6. CASE F = {}
    <2>1. ~Contains(T, c)
      <3> SUFFICES ASSUME NEW i \in 1..l, T[i] = c PROVE FALSE
        BY <1>4 DEF Contains
      <3>1. d + i - 1 \in d..d + l
        BY <1>4
      <3>. QED BY <1>2, <1>4, <1>6, <3>1
    <2>. QED BY <1>3, <1>6, <2>1 DEF StringsAgree, T
  <1>7. CASE F # {}
    <2>1. PICK r : r = Min(F)
      OBVIOUS
    <2>2. r \in F /\ \A a \in F : r <= a
      <3>1. F \in SUBSET Nat
        BY <1>2, <1>4
      <3>. QED BY <1>7, <2>1, <3>1, LeastIsMin
    <2>3. r \in d..d + l - 1 /\ mem[r] = c
      BY <1>2, <1>4, <1>5, <2>2
    <2>4. Contains(T, c)
      <3>1. PICK i \in 1..l : d + i - 1 = r
        <4>1. r - d + 1 \in 1..l /\ d + (r - d + 1) - 1 = r
          BY <1>4, <2>3
        <4>. QED BY <4>1
      <3>. QED BY <1>4, <2>3, <3>1 DEF Contains
    <2>5. ASSUME NEW a \in d..r - 1 PROVE mem[a] # c
      <3>1. a \in d..d + l /\ ~(r <= a)
        BY <1>4, <2>3
      <3>. QED BY <1>2, <2>2, <3>1
    <2>. QED BY <1>3, <1>4, <1>7, <2>1, <2>3, <2>4, <2>5 DEF StringsAgree, T
  <1>. QED BY <1>6, <1>7

LEMMA StrrchrAgrees ==
    ASSUME mem \in Memories, NEW d \in Address, NEW c \in Chars, Strrchr(d, c)
    PROVE  StringsAgree'
  <1> DEFINE T == Text(mem, d)
  <1>1. PICK l : l = strlen(mem, d)
    OBVIOUS
  <1>2. PICK F : F = {a \in d..d + l - 1 : mem[a] = c}
    OBVIOUS
  <1>3. /\ \E a \in d..MemSize - 1 : mem[a] = 0
        /\ call' = [op |-> "strrchr", d |-> d, s |-> 0, n |-> c] /\ before' = mem
        /\ ret' = IF F = {} THEN NULL ELSE Max(F)
    BY <1>1, <1>2 DEF Strrchr, Ended, Tells, Calls, strrchr
  <1>4. /\ d \in Nat /\ l \in Nat /\ Len(T) = l
        /\ \A i \in 1..l : T[i] = mem[d + i - 1]
    BY <1>1, <1>3, TextAt
  <1> HIDE DEF T
  <1>5. CASE F = {}
    <2>1. ~Contains(T, c)
      <3> SUFFICES ASSUME NEW i \in 1..l, T[i] = c PROVE FALSE
        BY <1>4 DEF Contains
      <3>1. d + i - 1 \in d..d + l - 1
        BY <1>4
      <3>. QED BY <1>2, <1>4, <1>5, <3>1
    <2>. QED BY <1>3, <1>5, <2>1 DEF StringsAgree, T
  <1>6. CASE F # {}
    <2>1. PICK r : r = Max(F)
      OBVIOUS
    <2>2. r \in F /\ \A a \in F : a <= r
      <3>1. F \in SUBSET (0..d + l) /\ d + l \in Nat
        BY <1>2, <1>4
      <3>. QED BY <1>6, <2>1, <3>1, Greatest
    <2>3. r \in d..d + l - 1 /\ mem[r] = c
      BY <1>2, <2>2
    <2>4. Contains(T, c)
      <3>1. PICK i \in 1..l : d + i - 1 = r
        <4>1. r - d + 1 \in 1..l /\ d + (r - d + 1) - 1 = r
          BY <1>4, <2>3
        <4>. QED BY <4>1
      <3>. QED BY <1>4, <2>3, <3>1 DEF Contains
    <2>5. ASSUME NEW a \in r + 1..d + l - 1 PROVE mem[a] # c
      <3>1. a \in d..d + l - 1 /\ ~(a <= r)
        BY <1>4, <2>3
      <3>. QED BY <1>2, <2>2, <3>1
    <2>. QED BY <1>3, <1>4, <1>6, <2>1, <2>3, <2>4, <2>5 DEF StringsAgree, T
  <1>. QED BY <1>5, <1>6

-----------------------------------------------------------------------------
\* The memory before the first call is any; each call leaves what it is for.
StrInv == StringsAgree /\ (call = NoCall => mem \in Memories)

LEMMA StrInitially == StrInit => StrInv
  BY DEF StrInit, StrInv, StringsAgree, NoCall, Memories

LEMMA StrStep == ASSUME StrInv, [StrNext]_strVars PROVE StrInv'
  <1>1. CASE StrNext
    <2>1. call = NoCall /\ mem \in Memories
      BY <1>1 DEF StrNext, StrInv
    <2>2. PICK d \in Address, s \in Address :
            \/ Strcpy(d, s) \/ Strcat(d, s) \/ Strcmp(d, s)
            \/ \E n \in 0..MemSize :
                 \/ Strncpy(d, s, n) \/ Strncat(d, s, n) \/ Memmove(d, s, n)
                 \/ Memcmp(d, s, n) \/ Strncmp(d, s, n) \/ Strnlen(d, n)
            \/ \E c \in Chars : Strchr(d, c) \/ Strrchr(d, c)
      BY <1>1 DEF StrNext
    <2>3. CASE Strcpy(d, s) \/ Strcat(d, s) \/ Strcmp(d, s)
      <3>1. StringsAgree'
        BY <2>1, <2>3, StrcpyAgrees, StrcatAgrees, StrcmpAgrees
      <3>2. call' # NoCall
        BY <2>3 DEF Strcpy, Strcat, Strcmp, Changes, Tells, Calls, NoCall
      <3>. QED BY <3>1, <3>2 DEF StrInv
    <2>4. ASSUME NEW n \in 0..MemSize, Strncpy(d, s, n) \/ Strncat(d, s, n) \/ Memmove(d, s, n)
          PROVE  StrInv'
      <3>1. StringsAgree'
        BY <2>1, <2>4, StrncpyAgrees, StrncatAgrees, MemmoveAgrees
      <3>2. call' # NoCall
        BY <2>4 DEF Strncpy, Strncat, Memmove, Changes, Calls, NoCall
      <3>. QED BY <3>1, <3>2 DEF StrInv
    <2>5. ASSUME NEW n \in 0..MemSize, Memcmp(d, s, n) \/ Strncmp(d, s, n) \/ Strnlen(d, n)
          PROVE  StrInv'
      <3>1. StringsAgree'
        BY <2>1, <2>5, MemcmpAgrees, StrncmpAgrees, StrnlenAgrees
      <3>2. call' # NoCall
        BY <2>5 DEF Memcmp, Strncmp, Strnlen, Tells, Calls, NoCall
      <3>. QED BY <3>1, <3>2 DEF StrInv
    <2>6. ASSUME NEW c \in Chars, Strchr(d, c) \/ Strrchr(d, c) PROVE StrInv'
      <3>1. StringsAgree'
        BY <2>1, <2>6, StrchrAgrees, StrrchrAgrees
      <3>2. call' # NoCall
        BY <2>6 DEF Strchr, Strrchr, Tells, Calls, NoCall
      <3>. QED BY <3>1, <3>2 DEF StrInv
    <2>. QED BY <2>2, <2>3, <2>4, <2>5, <2>6
  <1>2. CASE UNCHANGED strVars
    <2>1. before' = before /\ mem' = mem /\ call' = call /\ ret' = ret
      BY <1>2 DEF strVars
    <2>2. StringsAgree'
      BY <2>1 DEF StrInv, StringsAgree, Kept
    <2>. QED BY <2>1, <2>2 DEF StrInv
  <1>. QED BY <1>1, <1>2

-----------------------------------------------------------------------------
(***************************************************************************)
(* stdio.c and vsprintf.c.  A text of digits is a numeral when the values  *)
(* of its beginnings follow from one another; writing a number makes one,  *)
(* zeros in front leave it one, and reading it takes the same values.      *)
(***************************************************************************)
Bases == {8, 10, 16}
\* The values of the first digits of t.
Runs(t, g, base) ==
    /\ g \in [0..Len(t) -> Nat] /\ g[0] = 0
    /\ \A i \in 1..Len(t) : Value(t[i]) \in 0..base - 1 /\ g[i] = g[i - 1] * base + Value(t[i])
IsNumeral(t, v, base) ==
    /\ t \in Seq(Range(Digit)) /\ Len(t) > 0
    /\ \E g : Runs(t, g, base) /\ g[Len(t)] = v

LEMMA SpaceIs == Space \notin {"0", "1", "2", "3", "4", "5", "6", "7"} \cup
                             {"8", "9", "a", "b", "c", "d", "e", "f"} \cup {"x", "-", "+", "#", "NUL"}
  BY Zenon DEF Space

\* A digit is the character of its value, and none of those with another meaning.
LEMMA DigitIs ==
    ASSUME NEW v \in 0..15
    PROVE  /\ Digit[v + 1] \in Range(Digit) /\ Value(Digit[v + 1]) = v
  <1>1. DOMAIN Digit = 1..16
    BY DEF Digit
  <1>2. \A i, j \in 1..16 : Digit[i] = Digit[j] => i = j
    BY DEF Digit
  <1>3. v + 1 \in 1..16
    OBVIOUS
  <1> DEFINE i == CHOOSE j \in 1..16 : Digit[j] = Digit[v + 1]
  <1>4. i \in 1..16 /\ Digit[i] = Digit[v + 1]
    BY <1>3, Zenon
  <1>5. i = v + 1
    BY <1>2, <1>3, <1>4, Zenon
  <1>6. Value(Digit[v + 1]) = i - 1
    BY Zenon DEF Value
  <1>7. Digit[v + 1] \in Range(Digit)
    BY <1>1, <1>3 DEF Range
  <1> HIDE DEF i
  <1>. QED BY <1>5, <1>6, <1>7

LEMMA DigitsApart ==
    ASSUME NEW c \in Range(Digit)
    PROVE  c \notin {"x", "-", "+", Space, "NUL"}
  <1>1. DOMAIN Digit = 1..16
    BY DEF Digit
  <1>2. PICK i \in 1..16 : c = Digit[i]
    BY <1>1 DEF Range
  <1>3. c \in {"0", "1", "2", "3", "4", "5", "6", "7"} \/ c \in {"8", "9", "a", "b", "c", "d", "e", "f"}
    BY <1>2 DEF Digit
  <1>. QED BY <1>3, SpaceIs

LEMMA OneDigit ==
    ASSUME NEW base \in Bases, NEW v \in 0..base - 1
    PROVE  IsNumeral(<<Digit[v + 1]>>, v, base)
  <1> DEFINE t == <<Digit[v + 1]>>
             g == [i \in 0..1 |-> IF i = 0 THEN 0 ELSE v]
  <1>1. v \in 0..15 /\ v \in Nat /\ base \in Nat
    BY DEF Bases
  <1>2. Digit[v + 1] \in Range(Digit) /\ Value(Digit[v + 1]) = v
    BY <1>1, DigitIs
  <1>3. t \in Seq(Range(Digit)) /\ Len(t) = 1 /\ t[1] = Digit[v + 1]
    BY <1>2
  <1>4. g \in [0..1 -> Nat] /\ g[0] = 0 /\ g[1] = v
    BY <1>1
  <1> HIDE DEF t, g
  <1>5. Runs(t, g, base)
    <2> SUFFICES ASSUME NEW i \in 1..1
                 PROVE  Value(t[i]) \in 0..base - 1 /\ g[i] = g[i - 1] * base + Value(t[i])
      BY <1>3, <1>4 DEF Runs
    <2>1. i = 1 /\ g[i - 1] = 0 /\ 0 * base = 0
      BY <1>1, <1>4
    <2>. QED BY <1>1, <1>2, <1>3, <1>4, <2>1
  <1>6. IsNumeral(t, v, base)
    BY <1>3, <1>4, <1>5 DEF IsNumeral
  <1>. QED BY <1>6 DEF t

\* One more digit behind a numeral.
LEMMA DigitBehind ==
    ASSUME NEW base \in Bases, NEW t, NEW v \in Nat, IsNumeral(t, v, base), NEW d \in 0..base - 1
    PROVE  IsNumeral(Append(t, Digit[d + 1]), v * base + d, base)
  <1>1. PICK g : Runs(t, g, base) /\ g[Len(t)] = v
    BY DEF IsNumeral
  <1> DEFINE n == Len(t)
             c == Digit[d + 1]
             u == Append(t, c)
             h == [i \in 0..n + 1 |-> IF i <= n THEN g[i] ELSE v * base + d]
  <1>2. d \in 0..15 /\ d \in Nat /\ base \in Nat
    BY DEF Bases
  <1>3. c \in Range(Digit) /\ Value(c) = d
    BY <1>2, DigitIs
  <1>4. t \in Seq(Range(Digit)) /\ n \in Nat /\ n > 0
    BY LenProperties DEF IsNumeral
  <1> HIDE DEF c
  <1>5. /\ u \in Seq(Range(Digit)) /\ Len(u) = n + 1 /\ u[n + 1] = c
        /\ \A i \in 1..n : u[i] = t[i]
    BY <1>3, <1>4, AppendProperties
  <1>6. v * base + d \in Nat
    BY <1>2
  <1>7. /\ h \in [0..n + 1 -> Nat] /\ h[n + 1] = v * base + d
        /\ \A i \in 0..n : h[i] = g[i]
    BY <1>1, <1>4, <1>6 DEF Runs
  <1>8. ASSUME NEW i \in 1..n + 1
        PROVE  Value(u[i]) \in 0..base - 1 /\ h[i] = h[i - 1] * base + Value(u[i])
    <2> HIDE DEF u, h
    <2>1. CASE i = n + 1
      <3>1. i - 1 = n /\ n \in 0..n
        BY <1>4, <2>1
      <3>2. h[i - 1] = v /\ u[i] = c
        BY <1>1, <1>5, <1>7, <2>1, <3>1
      <3>. QED BY <1>3, <1>7, <2>1, <3>2
    <2>2. CASE i # n + 1
      <3>1. i \in 1..n /\ i \in 0..n /\ i - 1 \in 0..n
        BY <1>4, <2>2
      <3>2. h[i] = g[i] /\ h[i - 1] = g[i - 1] /\ u[i] = t[i]
        BY <1>5, <1>7, <3>1
      <3>. QED BY <1>1, <3>1, <3>2 DEF Runs
    <2>. QED BY <2>1, <2>2
  <1>9. h[0] = 0
    BY <1>1, <1>4, <1>7 DEF Runs
  <1> HIDE DEF u, h
  <1>10. Runs(u, h, base)
    BY <1>5, <1>7, <1>8, <1>9 DEF Runs
  <1>11. IsNumeral(u, v * base + d, base)
    BY <1>4, <1>5, <1>7, <1>10 DEF IsNumeral
  <1>. QED BY <1>11 DEF u, c

LEMMA TimesIs ==
    ASSUME NEW n \in Int, NEW S, NEW c \in S
    PROVE  /\ Times(n, c) \in Seq(S)
           /\ Len(Times(n, c)) = IF n < 0 THEN 0 ELSE n
           /\ \A i \in 1..Len(Times(n, c)) : Times(n, c)[i] = c
  <1> DEFINE m == IF n < 0 THEN 0 ELSE n
  <1>1. m \in Nat /\ 1..n = 1..m
    OBVIOUS
  <1>2. Times(n, c) = [i \in 1..m |-> c]
    BY <1>1 DEF Times
  <1> HIDE DEF m
  <1>3. Times(n, c) \in Seq(S) /\ Len(Times(n, c)) = m
    BY <1>1, <1>2
  <1>. QED BY <1>2, <1>3 DEF m

\* Zeros in front.
LEMMA ZerosInFront ==
    ASSUME NEW base \in Bases, NEW t, NEW v \in Nat, IsNumeral(t, v, base), NEW z \in Int
    PROVE  IsNumeral(Times(z, "0") \o t, v, base)
  <1>1. PICK g : Runs(t, g, base) /\ g[Len(t)] = v
    BY DEF IsNumeral
  <1>2. "0" \in Range(Digit) /\ Value("0") = 0
    <2>1. Digit[0 + 1] = "0"
      BY DEF Digit
    <2>. QED BY <2>1, DigitIs, 0 \in 0..15
  <1> DEFINE n == Len(t)
             a == Times(z, "0")
             k == Len(a)
             u == a \o t
             h == [i \in 0..k + n |-> IF i <= k THEN 0 ELSE g[i - k]]
  <1>3. a \in Seq(Range(Digit)) /\ k \in Nat /\ \A i \in 1..k : a[i] = "0"
    BY <1>2, TimesIs, LenProperties
  <1>4. t \in Seq(Range(Digit)) /\ n \in Nat /\ n > 0 /\ base \in Nat /\ base > 0
    BY LenProperties DEF IsNumeral, Bases
  <1> HIDE DEF a
  <1>5. /\ u \in Seq(Range(Digit)) /\ Len(u) = k + n
        /\ \A i \in 1..k + n : u[i] = IF i <= k THEN a[i] ELSE t[i - k]
    BY <1>3, <1>4, ConcatProperties
  <1> HIDE DEF u, n, k
  <1>6. h \in [0..k + n -> Nat]
    <2> SUFFICES ASSUME NEW i \in 0..k + n PROVE h[i] \in Nat
      BY Zenon
    <2>1. CASE i <= k
      BY <2>1
    <2>2. CASE ~(i <= k)
      <3>1. i - k \in 0..n
        BY <1>3, <1>4, <2>2
      <3>. QED BY <1>1, <2>2, <3>1 DEF Runs, n
    <2>. QED BY <2>1, <2>2
  <1>7. ASSUME NEW i \in 1..k + n
        PROVE  Value(u[i]) \in 0..base - 1 /\ h[i] = h[i - 1] * base + Value(u[i])
    <2>1. i \in 0..k + n /\ i - 1 \in 0..k + n
      BY <1>3, <1>4
    <2>2. CASE i <= k
      <3>1. i \in 1..k /\ i - 1 <= k
        BY <1>3, <2>2
      <3>2. u[i] = "0" /\ h[i] = 0 /\ h[i - 1] = 0
        BY <1>3, <1>5, <2>1, <3>1
      <3>3. 0 * base = 0
        BY <1>4
      <3>. QED BY <1>2, <1>4, <3>2, <3>3
    <2>3. CASE ~(i <= k)
      <3>1. i - k \in 1..n /\ i - k - 1 \in 0..n
        BY <1>3, <1>4, <2>3
      <3>2. u[i] = t[i - k] /\ h[i] = g[i - k]
        BY <1>5, <2>1, <2>3
      <3>3. h[i - 1] = g[i - k - 1]
        <4>1. CASE i - 1 = k
          <5>1. i - k - 1 = 0 /\ i - 1 <= k
            BY <1>3, <4>1
          <5>. QED BY <1>1, <2>1, <5>1 DEF Runs
        <4>2. CASE i - 1 # k
          <5>1. ~(i - 1 <= k) /\ (i - 1) - k = i - k - 1
            BY <1>3, <2>3, <4>2
          <5>. QED BY <2>1, <5>1
        <4>. QED BY <4>1, <4>2
      <3>. QED BY <1>1, <3>1, <3>2, <3>3 DEF Runs, n
    <2>. QED BY <2>2, <2>3
  <1>8. h[0] = 0 /\ h[k + n] = v
    <2>1. 0 \in 0..k + n /\ 0 <= k /\ k + n \in 0..k + n /\ ~(k + n <= k) /\ k + n - k = n
      BY <1>3, <1>4
    <2>2. h[0] = 0
      BY <2>1
    <2>3. ASSUME NEW i \in 0..k + n, ~(i <= k) PROVE h[i] = g[i - k]
      BY <2>3
    <2>4. h[k + n] = g[n]
      <3> HIDE DEF h
      <3>1. PICK m : m = k + n
        OBVIOUS
      <3>2. m \in 0..k + n /\ ~(m <= k) /\ m - k = n
        BY <1>3, <1>4, <3>1
      <3>3. h[m] = g[m - k]
        BY <2>3, <3>2, Zenon
      <3>. QED BY <3>1, <3>2, <3>3
    <2>. QED BY <1>1, <2>2, <2>4 DEF n
  <1> HIDE DEF h
  <1>9. Runs(u, h, base)
    BY <1>5, <1>6, <1>7, <1>8 DEF Runs
  <1>10. Len(u) > 0
    BY <1>3, <1>4, <1>5
  <1>11. IsNumeral(u, v, base)
    BY <1>5, <1>8, <1>9, <1>10 DEF IsNumeral
  <1>. QED BY <1>11 DEF u, a

\* Writing a number.  The function that does it exists.
Writes(f, n, base) ==
    f = [k \in 0..n |-> IF k < base THEN <<Digit[k + 1]>>
                        ELSE Append(f[k \div base], Digit[(k % base) + 1])]

LEMMA Quotient ==
    ASSUME NEW base \in Bases, NEW k \in Nat, ~(k < base)
    PROVE  /\ k \div base \in Nat /\ k \div base < k
           /\ k % base \in 0..base - 1 /\ k = (k \div base) * base + (k % base)
  <1>1. CASE base = 8
    BY <1>1
  <1>2. CASE base = 10
    BY <1>2
  <1>3. CASE base = 16
    BY <1>3
  <1>. QED BY <1>1, <1>2, <1>3 DEF Bases

LEMMA WriterExists ==
    ASSUME NEW base \in Bases, NEW n \in Nat
    PROVE  \E f : Writes(f, n, base)
  <1> DEFINE T == {m \in Nat : \E f : Writes(f, m, base)}
  <1>0. base \in Nat /\ base > 1
    BY DEF Bases
  <1>1. 0 \in T
    <2> DEFINE f == [k \in 0..0 |-> <<Digit[k + 1]>>]
    <2>1. \A k \in 0..0 : k < base
      BY <1>0
    <2>2. Writes(f, 0, base)
      BY <2>1 DEF Writes
    <2> HIDE DEF f
    <2>. QED BY <2>2
  <1>2. ASSUME NEW m \in Nat \ {0}, m - 1 \in T PROVE m \in T
    <2>1. PICK f : Writes(f, m - 1, base)
      BY <1>2
    <2> DEFINE e(g, k) == IF k < base THEN <<Digit[k + 1]>>
                          ELSE Append(g[k \div base], Digit[(k % base) + 1])
               h == [k \in 0..m |-> IF k = m THEN e(f, k) ELSE f[k]]
    <2>2. \A k \in 0..m - 1 : f[k] = e(f, k)
      BY <2>1 DEF Writes
    <2>3. ASSUME NEW k \in 0..m, ~(k < base) PROVE h[k \div base] = f[k \div base]
      <3>1. k \div base \in Nat /\ k \div base < k
        BY <2>3, Quotient
      <3> DEFINE q == k \div base
      <3>2. q \in 0..m /\ q # m
        BY <3>1
      <3> HIDE DEF q
      <3>3. h[q] = f[q]
        BY <3>2
      <3>. QED BY <3>3 DEF q
    <2>4. ASSUME NEW k \in 0..m PROVE h[k] = e(h, k)
      <3>1. h[k] = e(f, k)
        <4>1. CASE k = m
          BY <4>1
        <4>2. CASE k # m
          <5>1. k \in 0..m - 1
            BY <4>2
          <5> HIDE DEF e
          <5>. QED BY <2>2, <4>2, <5>1
        <4>. QED BY <4>1, <4>2
      <3>2. e(f, k) = e(h, k)
        <4> HIDE DEF h
        <4>. QED BY <2>3
      <3>. QED BY <3>1, <3>2, Zenon
    <2>5. Writes(h, m, base)
      <3>1. h = [k \in 0..m |-> h[k]]
        OBVIOUS
      <3> HIDE DEF h
      <3>. QED BY <2>4, <3>1 DEF Writes
    <2> HIDE DEF h
    <2>. QED BY <2>5
  <1>3. n \in T
    <2>1. \A m \in Nat \ {0} : m - 1 \in T => m \in T
      BY <1>2
    <2> HIDE DEF T
    <2>. QED BY <1>1, <2>1, AllNat
  <1>. QED BY <1>3

LEMMA DigitsAre ==
    ASSUME NEW base \in Bases, NEW n \in Nat
    PROVE  IsNumeral(Digits(n, base), n, base)
  <1> DEFINE of == CHOOSE f : Writes(f, n, base)
             T == {m \in Nat : \A k \in 0..m : k <= n => IsNumeral(of[k], k, base)}
  <1>0. base \in Nat
    BY DEF Bases
  <1>1. Writes(of, n, base)
    BY WriterExists, Zenon
  <1>2. Digits(n, base) = of[n]
    BY Zenon DEF Digits, Writes
  <1> HIDE DEF of
  <1>3. ASSUME NEW k \in 0..n, \A j \in 0..k - 1 : IsNumeral(of[j], j, base)
        PROVE  IsNumeral(of[k], k, base)
    <2>1. CASE k < base
      <3>1. of[k] = <<Digit[k + 1]>> /\ k \in 0..base - 1
        BY <1>0, <1>1, <2>1 DEF Writes
      <3>. QED BY <3>1, OneDigit
    <2>2. CASE ~(k < base)
      <3> DEFINE q == k \div base
                 d == k % base
      <3>1. of[k] = Append(of[q], Digit[d + 1])
        BY <1>1, <2>2 DEF Writes
      <3>2. q \in Nat /\ q < k /\ d \in 0..base - 1 /\ k = q * base + d
        BY <2>2, Quotient
      <3> HIDE DEF q, d
      <3>3. IsNumeral(of[q], q, base)
        <4>1. q \in 0..k - 1
          BY <3>2
        <4>. QED BY <1>3, <4>1
      <3>4. IsNumeral(Append(of[q], Digit[d + 1]), q * base + d, base)
        BY <3>2, <3>3, DigitBehind
      <3>. QED BY <3>1, <3>2, <3>4
    <2>. QED BY <2>1, <2>2
  <1>4. 0 \in T
    <2> SUFFICES ASSUME NEW k \in 0..0 PROVE IsNumeral(of[k], k, base)
      OBVIOUS
    <2>1. k \in 0..n /\ \A j \in 0..k - 1 : FALSE
      OBVIOUS
    <2>. QED BY <1>3, <2>1
  <1>5. ASSUME NEW m \in Nat \ {0}, m - 1 \in T PROVE m \in T
    <2> SUFFICES ASSUME NEW k \in 0..m, k <= n PROVE IsNumeral(of[k], k, base)
      OBVIOUS
    <2>1. ASSUME NEW j \in 0..k - 1 PROVE IsNumeral(of[j], j, base)
      <3>1. j \in 0..m - 1 /\ j <= n
        OBVIOUS
      <3>. QED BY <1>5, <3>1
    <2>2. k \in 0..n
      OBVIOUS
    <2>. QED BY <1>3, <2>1, <2>2
  <1>6. n \in T
    <2>1. \A m \in Nat \ {0} : m - 1 \in T => m \in T
      BY <1>5
    <2> HIDE DEF T
    <2>. QED BY <1>4, <2>1, AllNat
  <1>. QED BY <1>2, <1>6

\* Reading a number.  The values the loop passes through.
LEMMA ReadFolds ==
    ASSUME NEW t \in Seq(Range(Digit)), NEW base \in Bases,
           \A i \in 1..Len(t) : Value(t[i]) \in 0..base - 1
    PROVE  \E g \in [0..Len(t) -> Nat] :
             /\ g[0] = 0
             /\ \A k \in 1..Len(t) : g[k] = TakeDigit(base, g[k - 1], t[k])
             /\ ReadDigits(t, base) = g[Len(t)]
  <1> DEFINE n == Len(t)
             S == Nat
             step == [k \in 1..n |-> [r \in S |-> TakeDigit(base, r, t[k])]]
             Is(f) == f = [s \in SUBSET DOMAIN t |->
                             IF s = {} THEN 0 ELSE TakeDigit(base, f[s \ {Max(s)}], t[Max(s)])]
             all == CHOOSE f : Is(f)
             g == Partials(all, n)
  <1>1. n \in Nat /\ DOMAIN t = 1..n /\ base \in Nat
    BY LenProperties DEF Bases
  <1>2. 0 \in S
    OBVIOUS
  <1>3. ASSUME NEW k \in 1..n, NEW r \in S PROVE TakeDigit(base, r, t[k]) \in S
    <2> DEFINE c == Value(t[k])
               x == r * base
    <2>1. c \in Nat /\ x \in Nat
      BY <1>1
    <2> HIDE DEF c, x
    <2>2. x + c \in Nat /\ WordSize \in Nat \ {0}
      BY <2>1, PrintfAssumption
    <2>3. (x + c) % WordSize \in Nat
      BY <2>2
    <2>. QED BY <2>3 DEF TakeDigit, c, x
  <1>4. step \in Steps(S, n)
    <2> HIDE DEF S
    <2>. QED BY <1>3 DEF Steps
  <1>5. PICK it \in [SUBSET (1..n) -> S] : IsFold(it, n, 0, step)
    <2> HIDE DEF n, S, step
    <2>. QED BY <1>1, <1>2, <1>4, FoldExists
  <1>6. ASSUME NEW s \in SUBSET (1..n), s # {} PROVE Max(s) \in 1..n /\ s \ {Max(s)} \in SUBSET (1..n)
    <2> HIDE DEF n
    <2>1. s \in SUBSET (0..n)
      <3>1. \A x \in s : x \in 0..n
        OBVIOUS
      <3>. QED BY <3>1
    <2>. QED BY <1>1, <1>6, <2>1, Greatest
  <1>7. Is(it)
    <2>1. ASSUME NEW s \in SUBSET (1..n), s # {}
          PROVE  step[Max(s)][it[s \ {Max(s)}]] = TakeDigit(base, it[s \ {Max(s)}], t[Max(s)])
      <3>1. it[s \ {Max(s)}] \in S
        BY <1>6, <2>1
      <3>. QED BY <1>6, <2>1, <3>1
    <2> HIDE DEF step, S, n
    <2>. QED BY <1>1, <1>5, <2>1 DEF IsFold
  <1>8. Is(all)
    BY <1>7
  <1> HIDE DEF all
  <1>9. ASSUME NEW k \in 1..n, all[1..(k - 1)] \in S
        PROVE  all[1..k] = step[k][all[1..(k - 1)]]
    <2>1. all[1..k] = TakeDigit(base, all[1..(k - 1)], t[k])
      BY <1>1, <1>8, Segment
    <2>. QED BY <1>9, <2>1
  <1>10. all[{}] = 0 /\ ReadDigits(t, base) = all[1..n]
    <2>1. {} \in SUBSET DOMAIN t
      OBVIOUS
    <2>. QED BY <1>1, <1>8, <2>1 DEF ReadDigits, FoldLeft, MapThenFoldSet, all
  <1>11. g \in [0..n -> S] /\ Follows(g, n, 0, step) /\ all[1..n] = g[n]
    <2> HIDE DEF n, S, step
    <2>. QED BY <1>1, <1>2, <1>4, <1>9, <1>10, FoldFollows
  <1>12. g[0] = 0 /\ \A k \in 1..n : g[k] = TakeDigit(base, g[k - 1], t[k])
    <2> HIDE DEF g
    <2> SUFFICES ASSUME NEW k \in 1..n PROVE g[k] = TakeDigit(base, g[k - 1], t[k])
      BY <1>11 DEF Follows
    <2>1. k - 1 \in 0..n
      BY <1>1
    <2>2. g[k - 1] \in S /\ g[k] = step[k][g[k - 1]]
      <3> HIDE DEF step, S, n
      <3>. QED BY <1>11, <2>1 DEF Follows
    <2>. QED BY <2>2
  <1>. QED BY <1>10, <1>11, <1>12

\* A number that fits in a word is read without being cut.
LEMMA NumeralIsRead ==
    ASSUME NEW base \in Bases, NEW v \in 0..WordSize - 1, NEW t, IsNumeral(t, v, base)
    PROVE  Number(t, base) = v
  <1> DEFINE n == Len(t)
             digits == {i \in 1..Len(t) : ~IsXdigit(t[i]) \/ Value(t[i]) >= base}
  <1>0. WordSize \in Nat \ {0} /\ v \in Nat /\ base \in Nat /\ base > 0
    BY PrintfAssumption DEF Bases
  <1>1. t \in Seq(Range(Digit)) /\ n \in Nat /\ n > 0 /\ \A i \in 1..n : t[i] \in Range(Digit)
    BY LenProperties DEF IsNumeral
  <1>2. PICK g : Runs(t, g, base) /\ g[Len(t)] = v
    BY DEF IsNumeral
  <1>3. g \in [0..n -> Nat] /\ g[0] = 0
    BY <1>2 DEF Runs
  <1>4. ASSUME NEW i \in 1..n
        PROVE  Value(t[i]) \in 0..base - 1 /\ g[i] = g[i - 1] * base + Value(t[i])
    BY <1>2 DEF Runs
  <1>5. digits = {}
    <2> SUFFICES ASSUME NEW i \in 1..n PROVE IsXdigit(t[i]) /\ ~(Value(t[i]) >= base)
      BY <1>4
    <2>1. IsXdigit(t[i])
      BY <1>1 DEF IsXdigit
    <2>. QED BY <1>0, <1>4, <2>1
  <1>6. Number(t, base) = ReadDigits(t, base)
    BY <1>5 DEF Number, SelectInSeq
  <1>7. PICK f \in [0..n -> Nat] :
             /\ f[0] = 0
             /\ \A k \in 1..n : f[k] = TakeDigit(base, f[k - 1], t[k])
             /\ ReadDigits(t, base) = f[n]
    BY <1>1, <1>4, ReadFolds
  <1> HIDE DEF n
  <1>8. \A k \in 0..n : g[k] <= v
    <2> DEFINE T == {j \in 0..n : g[n - j] <= v}
    <2>1. 0 \in T
      <3>1. n - 0 = n /\ g[n] = v
        BY <1>1, <1>2 DEF n
      <3>. QED BY <1>0, <1>1, <3>1
    <2>2. ASSUME NEW j \in 1..n, j - 1 \in T PROVE j \in T
      <3>1. n - j \in 0..n /\ n - (j - 1) \in 1..n /\ n - (j - 1) - 1 = n - j
        BY <1>1
      <3>2. g[n - (j - 1)] <= v
        BY <2>2
      <3> DEFINE i == n - (j - 1)
                 a == g[n - j]
                 b == g[i]
      <3>3. a \in Nat /\ b \in Nat /\ Value(t[i]) \in Nat
        BY <1>0, <1>3, <1>4, <3>1
      <3>4. b = a * base + Value(t[i])
        BY <1>4, <3>1
      <3> HIDE DEF a, b, i
      <3>5. a * base >= a
        BY <1>0, <3>3
      <3>6. a * base \in Nat
        BY <1>0, <3>3
      <3>7. b >= a
        BY <3>3, <3>4, <3>5, <3>6
      <3>8. a <= v
        BY <1>0, <3>2, <3>3, <3>7 DEF b, i
      <3>. QED BY <3>1, <3>8 DEF a
    <2>3. \A j \in 0..n : j \in T
      <3>1. \A j \in 1..n : j - 1 \in T => j \in T
        BY <2>2
      <3> HIDE DEF T
      <3>. QED BY <1>1, <2>1, <3>1, UpTo
    <2> SUFFICES ASSUME NEW k \in 0..n PROVE g[k] <= v
      OBVIOUS
    <2>4. n - k \in 0..n /\ n - (n - k) = k
      BY <1>1
    <2>5. g[n - (n - k)] <= v
      BY <2>3, <2>4
    <2>. QED BY <2>4, <2>5
  <1>9. n \in {j \in 0..n : f[j] = g[j]}
    <2> DEFINE T == {j \in 0..n : f[j] = g[j]}
    <2>1. 0 \in T
      BY <1>1, <1>3, <1>7
    <2>2. ASSUME NEW j \in 1..n, j - 1 \in T PROVE j \in T
      <3>1. j \in 0..n /\ j - 1 \in 0..n
        BY <1>1
      <3>2. f[j] = TakeDigit(base, g[j - 1], t[j])
        BY <1>7, <2>2
      <3>3. g[j] = g[j - 1] * base + Value(t[j])
        BY <1>4
      <3>4. f[j] = g[j] % WordSize
        BY <3>2, <3>3 DEF TakeDigit
      <3>5. g[j] \in Nat /\ g[j] < WordSize
        <4> DEFINE a == g[j]
        <4>1. a \in Nat /\ a <= v
          BY <1>3, <1>8, <3>1
        <4> HIDE DEF a
        <4>2. a < WordSize
          BY <1>0, <4>1
        <4>. QED BY <4>1, <4>2 DEF a
      <3>6. g[j] % WordSize = g[j]
        BY <1>0, <3>5
      <3>. QED BY <3>1, <3>4, <3>6
    <2>3. \A j \in 1..n : j - 1 \in T => j \in T
      BY <2>2
    <2> HIDE DEF T
    <2>4. n \in T
      BY <1>1, <2>1, <2>3, UpTo, n \in 0..n
    <2>. QED BY <2>4 DEF T
  <1>. QED BY <1>2, <1>6, <1>7, <1>9 DEF n

\* The flags.  What they set never is to fill up with zeros behind the number.
Sets == {"LEFT", "SIGN", "SPACE", "PLUS", "ZERO"}
Plain == {s \in SUBSET Sets : ~("LEFT" \in s /\ "ZERO" \in s)}

LEMMA FlagIs ==
    ASSUME NEW s \in Plain, NEW c \in Flags
    PROVE  FlagOf(s, c) \in Plain
  <1>1. s \in SUBSET Sets /\ ~("LEFT" \in s /\ "ZERO" \in s)
    BY DEF Plain
  <1>2. c \in {"-", "+", Space, "#", "0"}
    BY DEF Flags
  <1>3. CASE c = "-"
    <2>1. FlagOf(s, c) = (s \ {"ZERO"}) \cup {"LEFT"}
      BY <1>3, SpaceIs DEF FlagOf
    <2>. QED BY <1>1, <2>1 DEF Plain, Sets
  <1>4. CASE c = "+"
    <2>1. FlagOf(s, c) = s \cup {"SIGN"}
      BY <1>4, SpaceIs DEF FlagOf
    <2>. QED BY <1>1, <2>1 DEF Plain, Sets
  <1>5. CASE c = Space
    <2>1. FlagOf(s, c) = s \cup {"SPACE"}
      BY <1>5, SpaceIs DEF FlagOf
    <2>. QED BY <1>1, <2>1 DEF Plain, Sets
  <1>6. CASE c = "#"
    <2>1. FlagOf(s, c) = s \cup {"PLUS"}
      BY <1>6, SpaceIs DEF FlagOf
    <2>. QED BY <1>1, <2>1 DEF Plain, Sets
  <1>7. CASE c = "0"
    <2>1. FlagOf(s, c) = IF "LEFT" \in s THEN s ELSE s \cup {"ZERO"}
      BY <1>7, SpaceIs DEF FlagOf
    <2>. QED BY <1>1, <2>1 DEF Plain, Sets
  <1>. QED BY <1>2, <1>3, <1>4, <1>5, <1>6, <1>7

LEMMA StyleIs ==
    ASSUME NEW t \in Seq(Flags)
    PROVE  Style(t) \in Plain
  <1> DEFINE n == Len(t)
             S == Plain
             step == [k \in 1..n |-> [r \in S |-> FlagOf(r, t[k])]]
             Is(f) == f = [s \in SUBSET DOMAIN t |->
                             IF s = {} THEN {} ELSE FlagOf(f[s \ {Max(s)}], t[Max(s)])]
             all == CHOOSE f : Is(f)
             g == Partials(all, n)
  <1>1. n \in Nat /\ DOMAIN t = 1..n /\ \A k \in 1..n : t[k] \in Flags
    BY LenProperties
  <1>2. {} \in S
    BY DEF Plain
  <1> HIDE DEF S
  <1>3. \A k \in 1..n : \A r \in S : FlagOf(r, t[k]) \in S
    BY <1>1, FlagIs DEF S
  <1>4. step \in Steps(S, n)
    BY <1>3 DEF Steps
  <1>5. PICK it \in [SUBSET (1..n) -> S] : IsFold(it, n, {}, step)
    <2> HIDE DEF n, step
    <2>. QED BY <1>1, <1>2, <1>4, FoldExists
  <1>6. ASSUME NEW s \in SUBSET (1..n), s # {} PROVE Max(s) \in 1..n /\ s \ {Max(s)} \in SUBSET (1..n)
    <2> HIDE DEF n
    <2>1. s \in SUBSET (0..n)
      <3>1. \A x \in s : x \in 0..n
        OBVIOUS
      <3>. QED BY <3>1
    <2>. QED BY <1>1, <1>6, <2>1, Greatest
  <1>7. Is(it)
    <2>1. ASSUME NEW s \in SUBSET (1..n), s # {}
          PROVE  step[Max(s)][it[s \ {Max(s)}]] = FlagOf(it[s \ {Max(s)}], t[Max(s)])
      <3>1. it[s \ {Max(s)}] \in S
        BY <1>6, <2>1
      <3>. QED BY <1>6, <2>1, <3>1
    <2> HIDE DEF step, n
    <2>. QED BY <1>1, <1>5, <2>1 DEF IsFold
  <1>8. Is(all)
    BY <1>7
  <1> HIDE DEF all
  <1>9. ASSUME NEW k \in 1..n, all[1..(k - 1)] \in S
        PROVE  all[1..k] = step[k][all[1..(k - 1)]]
    <2>1. all[1..k] = FlagOf(all[1..(k - 1)], t[k])
      BY <1>1, <1>8, Segment
    <2>. QED BY <1>9, <2>1
  <1>10. all[{}] = {} /\ Style(t) = all[1..n]
    <2>1. {} \in SUBSET DOMAIN t
      OBVIOUS
    <2>. QED BY <1>1, <1>8, <2>1 DEF Style, FoldLeft, MapThenFoldSet, all
  <1>11. g \in [0..n -> S] /\ all[1..n] = g[n]
    <2>1. PICK none : none = {}
      OBVIOUS
    <2> HIDE DEF n, step
    <2>2. none \in S /\ all[{}] = none
      BY <1>2, <1>10, <2>1
    <2>3. g \in [0..n -> S] /\ Follows(g, n, none, step) /\ all[1..n] = g[n]
      BY <1>1, <1>4, <1>9, <2>2, FoldFollows
    <2>. QED BY <2>3
  <1>. QED BY <1>1, <1>10, <1>11 DEF S

-----------------------------------------------------------------------------
\* What lies in a text: blanks, the number with what belongs to it, and blanks again.
Glyphs == Range(Digit) \cup {"x", "-", "+", Space}
Pos(z) == IF z < 0 THEN 0 ELSE z
Laid(p, a, t, e) ==
    /\ a \in Nat /\ e \in Nat /\ p \in Seq(Glyphs) /\ Len(p) = a + Len(t) + e
    /\ \A i \in 1..a : p[i] = Space
    /\ \A i \in 1..Len(t) : p[a + i] = t[i]
    /\ \A i \in 1..e : p[a + Len(t) + i] = Space

LEMMA BlanksAround ==
    ASSUME NEW t \in Seq(Glyphs), NEW body, NEW k \in 0..1, Laid(body, k, t, 0), NEW z \in Int
    PROVE  /\ Laid(body \o Times(z, Space), k, t, Pos(z))
           /\ Laid(Times(z, Space) \o body, Pos(z) + k, t, 0)
  <1> DEFINE f == Times(z, Space)
             m == Pos(z)
             n == Len(t)
  <1>1. f \in Seq(Glyphs) /\ Len(f) = m /\ \A i \in 1..m : f[i] = Space
    BY TimesIs DEF Glyphs, Pos
  <1>2. m \in Nat /\ n \in Nat /\ k \in Nat
    BY LenProperties DEF Pos
  <1>3. /\ body \in Seq(Glyphs) /\ Len(body) = k + n
        /\ \A i \in 1..k : body[i] = Space
        /\ \A i \in 1..n : body[k + i] = t[i]
    BY <1>2 DEF Laid
  <1> HIDE DEF f, m, n
  <1>4. Laid(body \o f, k, t, m)
    <2> DEFINE p == body \o f
    <2>1. /\ p \in Seq(Glyphs) /\ Len(p) = k + n + m
          /\ \A i \in 1..k + n + m : p[i] = IF i <= k + n THEN body[i] ELSE f[i - (k + n)]
      <3>1. f \in Seq(Glyphs) /\ body \in Seq(Glyphs) /\ Len(f) = m /\ Len(body) = k + n
        BY <1>1, <1>3
      <3>2. /\ p \in Seq(Glyphs) /\ Len(p) = Len(body) + Len(f)
            /\ \A i \in 1..Len(body) + Len(f) : p[i] = IF i <= Len(body) THEN body[i] ELSE f[i - Len(body)]
        BY <3>1, ConcatProperties
      <3> HIDE DEF p
      <3>. QED BY <3>1, <3>2, Zenon
    <2> HIDE DEF p
    <2>2. ASSUME NEW i \in 1..k PROVE p[i] = Space
      BY <1>2, <1>3, <2>1
    <2>3. ASSUME NEW i \in 1..n PROVE p[k + i] = t[i]
      <3>1. k + i \in 1..k + n + m /\ k + i <= k + n
        BY <1>2
      <3>. QED BY <1>3, <2>1, <3>1
    <2>4. ASSUME NEW i \in 1..m PROVE p[k + n + i] = Space
      <3>1. k + n + i \in 1..k + n + m /\ ~(k + n + i <= k + n) /\ k + n + i - (k + n) = i
        BY <1>2
      <3>2. PICK j : j = k + n + i
        OBVIOUS
      <3>3. p[j] = f[j - (k + n)]
        BY <2>1, <3>1, <3>2, Zenon
      <3>4. j - (k + n) = i
        BY <1>2, <3>2
      <3>. QED BY <1>1, <3>2, <3>3, <3>4
    <2>5. Laid(p, k, t, m)
      BY <1>2, <2>1, <2>2, <2>3, <2>4 DEF Laid, n
    <2>. QED BY <2>5 DEF p
  <1>5. Laid(f \o body, m + k, t, 0)
    <2> DEFINE p == f \o body
    <2>1. /\ p \in Seq(Glyphs) /\ Len(p) = m + (k + n)
          /\ \A i \in 1..m + (k + n) : p[i] = IF i <= m THEN f[i] ELSE body[i - m]
      <3>1. f \in Seq(Glyphs) /\ body \in Seq(Glyphs) /\ Len(f) = m /\ Len(body) = k + n
        BY <1>1, <1>3
      <3>2. /\ p \in Seq(Glyphs) /\ Len(p) = Len(f) + Len(body)
            /\ \A i \in 1..Len(f) + Len(body) : p[i] = IF i <= Len(f) THEN f[i] ELSE body[i - Len(f)]
        BY <3>1, ConcatProperties
      <3> HIDE DEF p
      <3>. QED BY <3>1, <3>2, Zenon
    <2> HIDE DEF p
    <2>2. ASSUME NEW i \in 1..m + k PROVE p[i] = Space
      <3>1. i \in 1..m + (k + n)
        BY <1>2
      <3>2. CASE i <= m
        BY <1>1, <2>1, <3>1, <3>2
      <3>3. CASE ~(i <= m)
        <4>1. i - m \in 1..k
          BY <1>2, <3>3
        <4>. QED BY <1>3, <2>1, <3>1, <3>3, <4>1
      <3>. QED BY <3>2, <3>3
    <2>3. ASSUME NEW i \in 1..n PROVE p[m + k + i] = t[i]
      <3>1. PICK j : j = m + k + i
        OBVIOUS
      <3>2. j \in 1..m + (k + n) /\ ~(j <= m) /\ j - m = k + i
        BY <1>2, <3>1
      <3>3. p[j] = body[j - m]
        BY <2>1, <3>2, Zenon
      <3>4. body[k + i] = t[i]
        BY <1>3
      <3>. QED BY <3>1, <3>2, <3>3, <3>4
    <2>4. Len(p) = m + k + n + 0 /\ m + k \in Nat
      BY <1>2, <2>1
    <2>5. Laid(p, m + k, t, 0)
      BY <2>1, <2>2, <2>3, <2>4 DEF Laid, n
    <2>. QED BY <2>5 DEF p
  <1>. QED BY <1>4, <1>5 DEF f, m

\* The blanks are what is taken off.
LEMMA StrippedIs ==
    ASSUME NEW p, NEW a, NEW t \in Seq(Glyphs), NEW e, Laid(p, a, t, e),
           Len(t) > 0, t[1] # Space, t[Len(t)] # Space
    PROVE  Stripped(p) = t
  <1> DEFINE n == Len(t)
             I == {i \in 1..Len(p) : p[i] # Space}
  <1>1. a \in Nat /\ e \in Nat /\ n \in Nat /\ n > 0 /\ Len(p) = a + n + e /\ p \in Seq(Glyphs)
    BY LenProperties DEF Laid
  <1>2. \A i \in 1..n : p[a + i] = t[i]
    BY DEF Laid
  <1>3. p[a + 1] = t[1] /\ p[a + n] = t[n]
    BY <1>1, <1>2
  <1> HIDE DEF n
  <1>4. a + 1 \in I /\ a + n \in I
    BY <1>1, <1>3 DEF n
  <1>5. ASSUME NEW i \in I PROVE a + 1 <= i /\ i <= a + n
    <2>1. i \in 1..a + n + e /\ p[i] # Space
      BY <1>1
    <2>2. ~(i \in 1..a)
      BY <2>1 DEF Laid
    <2>3. ASSUME i > a + n PROVE FALSE
      <3>1. PICK j : j = i - (a + n)
        OBVIOUS
      <3>2. j \in 1..e /\ a + n + j = i
        BY <1>1, <2>1, <2>3, <3>1
      <3>3. p[a + n + j] = Space
        BY <3>2 DEF Laid, n
      <3>. QED BY <2>1, <3>2, <3>3
    <2>. QED BY <1>1, <2>1, <2>2, <2>3
  <1>6. I \in SUBSET Nat /\ I \in SUBSET (0..Len(p)) /\ I # {} /\ Len(p) \in Nat
    <2>1. \A i \in I : i \in 0..Len(p) /\ i \in Nat
      BY <1>1
    <2>2. Len(p) \in Nat
      BY <1>1
    <2> HIDE DEF I
    <2>. QED BY <1>4, <2>1, <2>2
  <1>7. Min(I) = a + 1 /\ Max(I) = a + n
    <2> HIDE DEF I
    <2>1. PICK x : x = Min(I)
      OBVIOUS
    <2>2. PICK y : y = Max(I)
      OBVIOUS
    <2>3. x \in I /\ \A j \in I : x <= j
      BY <1>6, <2>1, LeastIsMin
    <2>4. y \in I /\ \A j \in I : j <= y
      BY <1>6, <2>2, Greatest
    <2>5. x \in Nat /\ y \in Nat /\ a + 1 <= x /\ x <= a + 1 /\ a + n <= y /\ y <= a + n
      BY <1>4, <1>5, <1>6, <2>3, <2>4
    <2>6. x = a + 1 /\ y = a + n
      BY <1>1, <2>5
    <2>. QED BY <2>1, <2>2, <2>6
  <1>8. SelectInSeq(p, LAMBDA c : c # Space) = a + 1
    BY <1>4, <1>7, Zenon DEF SelectInSeq
  <1>9. SelectLastInSeq(p, LAMBDA c : c # Space) = a + n
    BY <1>4, <1>7, Zenon DEF SelectLastInSeq
  <1>10. Stripped(p) = SubSeq(p, a + 1, a + n)
    BY <1>8, <1>9, Zenon DEF Stripped
  <1> DEFINE q == SubSeq(p, a + 1, a + n)
  <1>11. /\ q \in Seq(Glyphs) /\ Len(q) = n
         /\ \A i \in 1..n : q[i] = p[a + i]
    <2>1. a + 1 \in 1..Len(p) + 1 /\ a + n \in a + 1 - 1..Len(p)
      BY <1>1
    <2>2. /\ q \in Seq(Glyphs)
          /\ Len(q) = IF a + 1 <= a + n THEN a + n - (a + 1) + 1 ELSE 0
          /\ \A i \in 1..a + n - (a + 1) + 1 : q[i] = p[a + 1 + i - 1]
      BY <1>1, SubSeqProperties
    <2>3. a + n - (a + 1) + 1 = n /\ a + 1 <= a + n
      BY <1>1
    <2>4. ASSUME NEW i \in 1..n PROVE q[i] = p[a + i]
      <3>1. a + 1 + i - 1 = a + i
        BY <1>1
      <3>2. q[i] = p[a + 1 + i - 1]
        BY <2>2, <2>3
      <3>. QED BY <3>1, <3>2
    <2>. QED BY <2>2, <2>3, <2>4
  <1> HIDE DEF q
  <1>12. q = t
    BY <1>2, <1>11, SeqEqual DEF n
  <1>. QED BY <1>10, <1>12 DEF q

-----------------------------------------------------------------------------
\* What stands in front of the digits, by the letter: a sign or a blank, or a prefix.
IsHead(lead, blank) == lead \in {<<>>, <<"-">>, <<"+">>, <<"0">>, <<"0", "x">>} /\ blank \in BOOLEAN
\* What the head may be, by the letter.
HeadFor(c, st, n, base, lead, blank) ==
    /\ blank => base = 10 /\ lead = <<>> /\ "SPACE" \in st
    /\ lead = <<"-">> \/ lead = <<"+">> => base = 10
    /\ lead = <<"0">> => base = 8
    /\ lead = <<"0", "x">> => base = 16
    /\ c = "p" \/ ("PLUS" \in st /\ c \in {"x", "X"}) => lead = <<"0", "x">>
    /\ "PLUS" \in st /\ c = "o" => lead = <<"0">>
    /\ lead = <<"-">> <=> c \in {"d", "i"} /\ Negative(n)
\* The letter, the flags and a number give this base, number to write and head.
PrintParts(c, st, n, base, v, lead, blank) ==
    LET s == StyleFor(c, st) IN
    /\ base = Base(c) /\ base \in Bases /\ v = Magnitude(n, base, s) /\ v \in 0..WordSize - 1
    /\ Prefix(base, s) = (IF base = 10 THEN <<>> ELSE lead)
    /\ SignOf(n, base, s) = (IF base # 10 THEN <<>> ELSE IF blank THEN <<Space>> ELSE lead)
    /\ IsHead(lead, blank)
    /\ HeadFor(c, st, n, base, lead, blank)
    /\ base = 16 <=> c \in {"x", "X", "p"}
    /\ v = IF c \in {"d", "i"} /\ Negative(n) THEN WordSize - n ELSE n
    /\ "LEFT" \in s <=> "LEFT" \in st
    /\ "ZERO" \in s <=> "ZERO" \in st

LEMMA HeadsApart ==
    /\ <<>> # <<"-">> /\ <<>> # <<"+">> /\ <<>> # <<"0">> /\ <<>> # <<"0", "x">>
    /\ <<"-">> # <<"+">> /\ <<"-">> # <<"0">> /\ <<"-">> # <<"0", "x">>
    /\ <<"+">> # <<"0">> /\ <<"+">> # <<"0", "x">> /\ <<"0">> # <<"0", "x">>
  <1>1. <<"-">>[1] = "-" /\ <<"+">>[1] = "+" /\ <<"0">>[1] = "0" /\ <<"0", "x">>[1] = "0"
    OBVIOUS
  <1>2. Len(<<>>) = 0 /\ Len(<<"-">>) = 1 /\ Len(<<"+">>) = 1 /\ Len(<<"0">>) = 1 /\ Len(<<"0", "x">>) = 2
    OBVIOUS
  <1>. QED BY <1>1, <1>2

LEMMA PrintWordSizes ==
    ASSUME NEW n \in 0..WordSize - 1
    PROVE  /\ WordSize \in Nat /\ n \in Nat
           /\ Negative(n) => WordSize - n \in 0..WordSize - 1
  <1>1. WordSize \in Nat /\ WordSize # 0 /\ WordSize % 2 = 0
    BY PrintfAssumption
  <1>2. WordSize \div 2 >= 1
    BY <1>1
  <1>3. Negative(n) => n >= 1
    BY <1>1, <1>2 DEF Negative
  <1>. QED BY <1>1, <1>3

LEMMA SignedParts ==
    ASSUME NEW c \in {"d", "i"}, NEW st \in Plain, NEW n \in 0..WordSize - 1
    PROVE  \E lead, blank : PrintParts(c, st, n, 10, IF Negative(n) THEN WordSize - n ELSE n, lead, blank)
  <1> DEFINE s == StyleFor(c, st)
             blank == FALSE
             lead == IF Negative(n) THEN <<"-">> ELSE IF "SIGNINT" \in s THEN <<>> ELSE <<"+">>
             v == IF Negative(n) THEN WordSize - n ELSE n
  <1>1. s = IF "SIGN" \in st THEN st ELSE st \cup {"SIGN", "SIGNINT"}
    BY DEF StyleFor
  <1>2. /\ "SIGN" \in s /\ ("LEFT" \in s <=> "LEFT" \in st) /\ ("ZERO" \in s <=> "ZERO" \in st)
    BY <1>1
  <1>3. Base(c) = 10
    BY DEF Base
  <1> HIDE DEF s
  <1>4. Prefix(10, s) = <<>>
    BY DEF Prefix
  <1>5. SignOf(n, 10, s) = lead /\ Magnitude(n, 10, s) = v
    BY <1>2 DEF SignOf, Magnitude
  <1>6. v \in 0..WordSize - 1
    BY PrintWordSizes
  <1>7. IsHead(lead, blank)
    BY DEF IsHead
  <1>8. lead = <<"-">> <=> Negative(n)
    BY HeadsApart
  <1>9. lead # <<"0">> /\ lead # <<"0", "x">>
    BY HeadsApart
  <1>10. c \notin {"x", "X", "p", "o"}
    OBVIOUS
  <1>0. ~blank
    OBVIOUS
  <1> HIDE DEF lead, v, blank
  <1>11. HeadFor(c, st, n, 10, lead, blank)
    BY <1>0, <1>8, <1>9, <1>10 DEF HeadFor
  <1>12. v = IF c \in {"d", "i"} /\ Negative(n) THEN WordSize - n ELSE n
    BY DEF v
  <1>13. PrintParts(c, st, n, 10, v, lead, blank)
    BY <1>0, <1>2, <1>3, <1>4, <1>5, <1>6, <1>7, <1>10, <1>11, <1>12 DEF PrintParts, s, Bases
  <1>. QED BY <1>13, Zenon DEF v

LEMMA UnsignedParts ==
    ASSUME NEW st \in Plain, NEW n \in 0..WordSize - 1
    PROVE  \E blank : PrintParts("u", st, n, 10, n, <<>>, blank)
  <1> DEFINE s == StyleFor("u", st)
             blank == "SPACE" \in s /\ ~Negative(n)
  <1>1. s = st \ {"SIGN", "PLUS"}
    BY DEF StyleFor
  <1>2. /\ "SIGN" \notin s /\ ("LEFT" \in s <=> "LEFT" \in st) /\ ("ZERO" \in s <=> "ZERO" \in st)
        /\ blank => "SPACE" \in st
    BY <1>1
  <1>3. Base("u") = 10
    BY DEF Base
  <1> HIDE DEF s
  <1>4. Prefix(10, s) = <<>>
    BY DEF Prefix
  <1>5. SignOf(n, 10, s) = IF blank THEN <<Space>> ELSE <<>>
    BY <1>2 DEF SignOf
  <1>6. Magnitude(n, 10, s) = n
    BY <1>2 DEF Magnitude
  <1>7. IsHead(<<>>, blank)
    BY DEF IsHead
  <1> HIDE DEF blank
  <1>8. HeadFor("u", st, n, 10, <<>>, blank)
    BY <1>2, HeadsApart DEF HeadFor
  <1>9. PrintParts("u", st, n, 10, n, <<>>, blank)
    BY <1>2, <1>3, <1>4, <1>5, <1>6, <1>7, <1>8 DEF PrintParts, s, Bases
  <1>. QED BY <1>9, Zenon

LEMMA HexParts ==
    ASSUME NEW c \in {"x", "X", "p"}, NEW st \in Plain, NEW n \in 0..WordSize - 1
    PROVE  \E lead, blank : PrintParts(c, st, n, 16, n, lead, blank)
  <1> DEFINE s == StyleFor(c, st)
             blank == FALSE
             lead == IF "PLUS" \in s THEN <<"0", "x">> ELSE <<>>
  <1>1. s = IF c = "p" THEN st \cup {"PLUS"} ELSE st
    BY DEF StyleFor
  <1>2. /\ ("LEFT" \in s <=> "LEFT" \in st) /\ ("ZERO" \in s <=> "ZERO" \in st)
        /\ "PLUS" \in s <=> (c = "p" \/ "PLUS" \in st)
    BY <1>1
  <1>3. Base(c) = 16
    BY DEF Base
  <1> HIDE DEF s
  <1>4. Prefix(16, s) = lead
    BY DEF Prefix
  <1>5. SignOf(n, 16, s) = <<>> /\ Magnitude(n, 16, s) = n
    BY DEF SignOf, Magnitude
  <1>6. IsHead(lead, blank)
    BY DEF IsHead
  <1>7. lead \notin {<<"-">>, <<"+">>, <<"0">>}
    BY HeadsApart
  <1>8. c = "p" \/ "PLUS" \in st => lead = <<"0", "x">>
    BY <1>2
  <1>9. c \notin {"d", "i", "o"}
    OBVIOUS
  <1>0. ~blank
    OBVIOUS
  <1> HIDE DEF lead, blank
  <1>10. HeadFor(c, st, n, 16, lead, blank)
    BY <1>0, <1>7, <1>8, <1>9 DEF HeadFor
  <1>11. PrintParts(c, st, n, 16, n, lead, blank)
    BY <1>0, <1>2, <1>3, <1>4, <1>5, <1>6, <1>9, <1>10 DEF PrintParts, s, Bases
  <1>. QED BY <1>11, Zenon

LEMMA OctalParts ==
    ASSUME NEW st \in Plain, NEW n \in 0..WordSize - 1
    PROVE  \E lead, blank : PrintParts("o", st, n, 8, n, lead, blank)
  <1> DEFINE s == StyleFor("o", st)
             blank == FALSE
             lead == IF "PLUS" \in s THEN <<"0">> ELSE <<>>
  <1>1. s = st
    BY DEF StyleFor
  <1>2. Base("o") = 8
    BY DEF Base
  <1> HIDE DEF s
  <1>3. Prefix(8, s) = lead
    BY DEF Prefix
  <1>4. SignOf(n, 8, s) = <<>> /\ Magnitude(n, 8, s) = n
    BY DEF SignOf, Magnitude
  <1>5. IsHead(lead, blank)
    BY DEF IsHead
  <1>6. lead \notin {<<"-">>, <<"+">>, <<"0", "x">>}
    BY HeadsApart
  <1>7. "PLUS" \in st => lead = <<"0">>
    BY <1>1
  <1>0. ~blank
    OBVIOUS
  <1> HIDE DEF lead, blank
  <1>8. HeadFor("o", st, n, 8, lead, blank)
    BY <1>0, <1>6, <1>7 DEF HeadFor
  <1>9. PrintParts("o", st, n, 8, n, lead, blank)
    BY <1>0, <1>1, <1>2, <1>3, <1>4, <1>5, <1>8 DEF PrintParts, s, Bases
  <1>. QED BY <1>9, Zenon

LEMMA PartsAre ==
    ASSUME NEW c \in Letters, NEW st \in Plain, NEW n \in 0..WordSize - 1
    PROVE  \E base, v, lead, blank : PrintParts(c, st, n, base, v, lead, blank)
  <1>1. c \in {"d", "i"} \/ c \in {"x", "X", "p"} \/ c = "u" \/ c = "o"
    BY DEF Letters
  <1>2. CASE c \in {"d", "i"}
    BY <1>2, SignedParts, Zenon
  <1>3. CASE c \in {"x", "X", "p"}
    BY <1>3, HexParts, Zenon
  <1>4. CASE c = "u"
    BY <1>4, UnsignedParts, Zenon
  <1>5. CASE c = "o"
    BY <1>5, OctalParts, Zenon
  <1>. QED BY <1>1, <1>2, <1>3, <1>4, <1>5, Zenon

-----------------------------------------------------------------------------
\* What a directive makes of a number: the blanks in front, head and digits, the blanks
\* behind.
LEMMA DigitsAreGlyphs ==
    ASSUME NEW t, NEW v, NEW base, IsNumeral(t, v, base)
    PROVE  /\ t \in Seq(Glyphs) /\ Len(t) \in Nat /\ Len(t) > 0
           /\ \A i \in 1..Len(t) : t[i] \in Range(Digit) /\ t[i] \notin {"x", "-", "+", Space, "NUL"}
  <1>1. t \in Seq(Range(Digit)) /\ Len(t) > 0
    BY DEF IsNumeral
  <1>2. Len(t) \in Nat /\ \A i \in 1..Len(t) : t[i] \in Range(Digit)
    BY <1>1, LenProperties
  <1>3. t \in Seq(Glyphs)
    <2>1. \A i \in 1..Len(t) : t[i] \in Glyphs
      BY <1>2 DEF Glyphs
    <2>2. t = [i \in 1..Len(t) |-> t[i]]
      BY <1>1
    <2> DEFINE n == Len(t)
               G == Glyphs
    <2>3. n \in Nat /\ t = [i \in 1..n |-> t[i]] /\ \A i \in 1..n : t[i] \in G
      BY <1>2, <2>1, <2>2
    <2> HIDE DEF n, G
    <2>4. [i \in 1..n |-> t[i]] \in Seq(G)
      BY <2>3
    <2>. QED BY <2>3, <2>4 DEF G
  <1>. QED BY <1>1, <1>2, <1>3, DigitsApart

LEMMA HeadsAre ==
    ASSUME NEW lead, NEW blank, IsHead(lead, blank)
    PROVE  lead \in Seq(Glyphs)
  <1>1. "0" \in Glyphs /\ "x" \in Glyphs /\ "-" \in Glyphs /\ "+" \in Glyphs
    <2>1. Digit[0 + 1] = "0"
      BY DEF Digit
    <2>. QED BY <2>1, DigitIs, 0 \in 0..15 DEF Glyphs
  <1> HIDE DEF Glyphs
  <1>2. /\ <<"-">> \in Seq(Glyphs) /\ <<"+">> \in Seq(Glyphs) /\ <<"0">> \in Seq(Glyphs)
        /\ <<"0", "x">> \in Seq(Glyphs) /\ <<>> \in Seq(Glyphs)
    BY <1>1
  <1>. QED BY <1>2 DEF IsHead

\* Text and blanks around it, a in front and e behind.
Shows(p, width, st, lead, m, blank, a, e) ==
    /\ Laid(p, a, lead \o m, e)
    /\ Len(p) >= width
    /\ Len(p) > width => a + e = IF blank THEN 1 ELSE 0
    /\ blank => a > 0
    /\ IF "LEFT" \in st THEN a + e > 1 => e > 0 ELSE e = 0

LEMMA Joined2 ==
    ASSUME NEW base \in Bases, NEW lead, NEW blank, NEW m, NEW v, IsHead(lead, blank),
           IsNumeral(m, v, base), blank => lead = <<>>,
           NEW pre, NEW sign,
           pre = IF base = 10 THEN <<>> ELSE lead,
           sign = IF base # 10 THEN <<>> ELSE IF blank THEN <<Space>> ELSE lead
    PROVE  /\ lead \o m \in Seq(Glyphs)
           /\ Laid((pre \o sign) \o m, IF blank /\ base = 10 THEN 1 ELSE 0, lead \o m, 0)
  <1>1. lead \in Seq(Glyphs) /\ m \in Seq(Glyphs) /\ <<>> \in Seq(Glyphs)
    BY HeadsAre, DigitsAreGlyphs, EmptySeq
  <1>2. <<Space>> \in Seq(Glyphs) /\ Len(<<Space>>) = 1 /\ <<Space>>[1] = Space
    BY DEF Glyphs
  <1>3. <<>> \o <<Space>> = <<Space>> /\ <<>> \o lead = lead /\ lead \o <<>> = lead /\ <<>> \o m = m
    BY <1>1, <1>2, ConcatEmptySeq
  <1>4. lead \o m \in Seq(Glyphs) /\ Len(lead \o m) \in Nat
    BY <1>1, ConcatProperties, LenProperties
  <1>5. CASE blank /\ base = 10
    <2>1. (pre \o sign) \o m = <<Space>> \o m /\ lead \o m = m
      BY <1>3, <1>5
    <2> DEFINE p == <<Space>> \o m
    <2>2. /\ p \in Seq(Glyphs) /\ Len(p) = 1 + Len(m) /\ Len(m) \in Nat
          /\ \A i \in 1..1 + Len(m) : p[i] = IF i <= 1 THEN <<Space>>[i] ELSE m[i - 1]
      BY <1>1, <1>2, ConcatProperties, LenProperties
    <2> HIDE DEF p
    <2>3. p[1] = Space
      BY <1>2, <2>2
    <2>4. ASSUME NEW i \in 1..Len(m) PROVE p[1 + i] = m[i]
      <3>1. PICK j : j = 1 + i
        OBVIOUS
      <3>2. j \in 1..1 + Len(m) /\ ~(j <= 1) /\ j - 1 = i
        BY <2>2, <3>1
      <3>3. p[j] = m[j - 1]
        BY <2>2, <3>2, Zenon
      <3>. QED BY <3>1, <3>2, <3>3
    <2>5. Laid(p, 1, m, 0)
      BY <2>2, <2>3, <2>4 DEF Laid
    <2>. QED BY <1>4, <1>5, <2>1, <2>5 DEF p
  <1>6. CASE ~(blank /\ base = 10)
    <2>1. (pre \o sign) \o m = lead \o m
      BY <1>3, <1>6
    <2> DEFINE p == lead \o m
    <2>2. p \in Seq(Glyphs) /\ Len(p) \in Nat
      BY <1>4
    <2> HIDE DEF p
    <2>3. Laid(p, 0, p, 0)
      BY <2>2 DEF Laid
    <2>. QED BY <1>4, <1>6, <2>1, <2>3 DEF p
  <1>. QED BY <1>5, <1>6

\* No zeros in front of a head.
NoZerosFirst(c, st, n) ==
    LET s == StyleFor(c, st)
    IN "ZERO" \in s => Prefix(Base(c), s) = <<>> /\ SignOf(n, Base(c), s) = <<>>

LEMMA Shown ==
    ASSUME NEW c \in Letters, NEW st \in Plain, NEW n \in 0..WordSize - 1, NEW width \in Nat,
           NEW base, NEW v, NEW lead, NEW blank, PrintParts(c, st, n, base, v, lead, blank),
           NoZerosFirst(c, st, n)
    PROVE  \E m, a, e : /\ IsNumeral(m, v, base)
                        /\ Shows(NumToAscii(n, width, Base(c), StyleFor(c, st)),
                                 width, st, lead, m, blank, a, e)
  <1> DEFINE s == StyleFor(c, st)
             p == NumToAscii(n, width, Base(c), s)
             pre == Prefix(base, s)
             sign == SignOf(n, base, s)
             N == Digits(v, base)
             body == pre \o sign \o N
             z == width - Len(body)
  <1>1. /\ base = Base(c) /\ base \in Bases /\ v = Magnitude(n, base, s)
        /\ v \in Nat /\ IsHead(lead, blank)
        /\ pre = IF base = 10 THEN <<>> ELSE lead
        /\ sign = IF base # 10 THEN <<>> ELSE IF blank THEN <<Space>> ELSE lead
        /\ blank => base = 10 /\ lead = <<>>
        /\ ("LEFT" \in s <=> "LEFT" \in st) /\ ("ZERO" \in s <=> "ZERO" \in st)
    <2>1. v \in Nat
      BY PrintWordSizes DEF PrintParts
    <2>2. HeadFor(c, st, n, base, lead, blank)
      BY Zenon DEF PrintParts
    <2>3. blank => base = 10 /\ lead = <<>>
      BY <2>2, Zenon DEF HeadFor
    <2>. QED BY <2>1, <2>3, Zenon DEF PrintParts
  <1>2. IsNumeral(N, v, base)
    BY <1>1, DigitsAre
  <1>3. p = LET fill == Times(z, IF "ZERO" \in s THEN "0" ELSE Space)
            IN IF "LEFT" \in s THEN body \o fill ELSE fill \o body
    BY <1>1, Zenon DEF NumToAscii
  <1>4. /\ lead \o N \in Seq(Glyphs)
        /\ Laid(body, IF blank /\ base = 10 THEN 1 ELSE 0, lead \o N, 0)
    <2> HIDE DEF pre, sign, N
    <2>. QED BY <1>1, <1>2, Joined2, Zenon
  <1>5. N \in Seq(Glyphs) /\ Len(N) \in Nat /\ <<>> \in Seq(Glyphs)
    BY <1>2, DigitsAreGlyphs, EmptySeq
  <1>6. ASSUME "ZERO" \in s
        PROVE  \E m, a, e : IsNumeral(m, v, base) /\ Shows(p, width, st, lead, m, blank, a, e)
    <2>1. pre = <<>> /\ sign = <<>>
      BY <1>1, <1>6 DEF NoZerosFirst
    <2>2. <<Space>> # <<>>
      OBVIOUS
    <2>3. ~blank /\ lead = <<>>
      <3> HIDE DEF pre, sign
      <3>1. CASE base = 10
        BY <1>1, <2>1, <2>2, <3>1
      <3>2. CASE base # 10
        BY <1>1, <2>1, <3>2
      <3>. QED BY <3>1, <3>2
    <2>4. "LEFT" \notin s /\ "LEFT" \notin st
      BY <1>1, <1>6 DEF Plain
    <2> DEFINE k == width - Len(N)
               m == Times(k, "0") \o N
    <2>5. body = N
      <3>1. <<>> \o <<>> = <<>> /\ <<>> \o N = N
        BY <1>5, ConcatEmptySeq
      <3>. QED BY <2>1, <3>1
    <2>6. p = m
      <3> HIDE DEF N, body
      <3>. QED BY <1>3, <1>6, <2>4, <2>5
    <2>7. k \in Int
      BY <1>5
    <2>8. IsNumeral(m, v, base)
      BY <1>1, <1>2, <2>7, ZerosInFront
    <2>9. Len(m) >= width /\ Len(m) \in Nat /\ m \in Seq(Glyphs) /\ <<>> \o m = m
      <3>1. "0" \in Glyphs
        <4>1. Digit[0 + 1] = "0"
          BY DEF Digit
        <4>. QED BY <4>1, DigitIs, 0 \in 0..15 DEF Glyphs
      <3> DEFINE f == Times(k, "0")
      <3>2. f \in Seq(Glyphs) /\ Len(f) = IF k < 0 THEN 0 ELSE k
        BY <2>7, <3>1, TimesIs
      <3> HIDE DEF f, k
      <3>3. m \in Seq(Glyphs) /\ Len(m) = Len(f) + Len(N)
        BY <1>5, <3>2, ConcatProperties DEF f
      <3>4. <<>> \o m = m
        BY <3>3, ConcatEmptySeq
      <3>5. Len(m) >= width /\ Len(m) \in Nat
        BY <1>5, <2>7, <3>2, <3>3 DEF k
      <3>. QED BY <3>3, <3>4, <3>5
    <2> HIDE DEF m, p
    <2>10. Laid(p, 0, <<>> \o m, 0)
      BY <2>6, <2>9 DEF Laid
    <2>11. Shows(p, width, st, lead, m, blank, 0, 0)
      <3>1. Len(p) >= width /\ (IF blank THEN 1 ELSE 0) = 0
        BY <2>3, <2>6, <2>9
      <3>. QED BY <2>3, <2>4, <2>10, <3>1 DEF Shows
    <2>. QED BY <2>8, <2>11, Zenon
  <1>7. ASSUME "ZERO" \notin s
        PROVE  \E m, a, e : IsNumeral(m, v, base) /\ Shows(p, width, st, lead, m, blank, a, e)
    <2> DEFINE k == IF blank /\ base = 10 THEN 1 ELSE 0
               t == lead \o N
    <2>1. p = IF "LEFT" \in s THEN body \o Times(z, Space) ELSE Times(z, Space) \o body
      BY <1>3, <1>7
    <2>2. k \in 0..1 /\ Laid(body, k, t, 0) /\ t \in Seq(Glyphs) /\ k = IF blank THEN 1 ELSE 0
      BY <1>1, <1>4
    <2>3. Len(t) \in Nat
      BY <2>2, LenProperties
    <2> HIDE DEF body, t, k
    <2>4. Len(body) = k + Len(t)
      BY <2>2, <2>3 DEF Laid
    <2>5. z \in Int
      BY <2>2, <2>3, <2>4
    <2>6. /\ Laid(body \o Times(z, Space), k, t, Pos(z))
          /\ Laid(Times(z, Space) \o body, Pos(z) + k, t, 0)
      <3> HIDE DEF z
      <3>. QED BY <2>2, <2>5, BlanksAround
    <2>7. Pos(z) + k + Len(t) >= width /\ Pos(z) \in Nat /\ k \in Nat
          /\ (Pos(z) + k + Len(t) > width => Pos(z) = 0)
      <3>1. PICK l : l = Len(t)
        OBVIOUS
      <3>2. k \in Nat /\ l \in Nat /\ z = width - (k + l) /\ z \in Int
        BY <2>2, <2>3, <2>4, <2>5, <3>1
      <3> HIDE DEF z
      <3>3. Pos(z) = IF z < 0 THEN 0 ELSE z
        BY DEF Pos
      <3>4. /\ Pos(z) + k + l >= width /\ Pos(z) \in Nat
            /\ (Pos(z) + k + l > width => Pos(z) = 0)
        BY <3>2, <3>3
      <3>. QED BY <3>1, <3>2, <3>4
    <2> HIDE DEF z, p
    <2>8. CASE "LEFT" \in s
      <3>1. Laid(p, k, t, Pos(z)) /\ "LEFT" \in st
        BY <1>1, <2>1, <2>6, <2>8
      <3>2. Len(p) = Pos(z) + k + Len(t)
        BY <2>3, <2>7, <3>1 DEF Laid
      <3>3. Len(p) >= width /\ (Len(p) > width => k + Pos(z) = k)
        BY <2>7, <3>2
      <3>4. k + Pos(z) > 1 => Pos(z) > 0
        BY <2>2, <2>7
      <3>5. Shows(p, width, st, lead, N, blank, k, Pos(z))
        BY <2>2, <3>1, <3>3, <3>4 DEF Shows, t
      <3>. QED BY <1>2, <3>5, Zenon
    <2>9. CASE "LEFT" \notin s
      <3>1. Laid(p, Pos(z) + k, t, 0) /\ "LEFT" \notin st
        BY <1>1, <2>1, <2>6, <2>9
      <3>2. Len(p) = Pos(z) + k + Len(t)
        BY <2>3, <2>7, <3>1 DEF Laid
      <3>3. /\ Len(p) >= width /\ (Len(p) > width => Pos(z) + k + 0 = k)
            /\ blank => Pos(z) + k > 0
        BY <2>2, <2>7, <3>2
      <3>4. Shows(p, width, st, lead, N, blank, Pos(z) + k, 0)
        BY <2>2, <3>1, <3>3 DEF Shows, t
      <3>. QED BY <1>2, <3>4, Zenon
    <2>. QED BY <2>8, <2>9
  <1>. QED BY <1>6, <1>7

-----------------------------------------------------------------------------
\* Head and digits, as they are read back.
Shape(t, lead, m, v, base) ==
    /\ t \in Seq(Glyphs) /\ Len(t) \in Nat /\ Len(t) > 0
    /\ t[Len(t)] # Space /\ t[1] # Space
    /\ t[1] = "-" <=> lead = <<"-">>
    /\ lead = <<>> => t = m /\ Unsigned(t) = m /\ ~Hex(t)
    /\ lead \in {<<"-">>, <<"+">>} => Unsigned(t) = m /\ ~Hex(m)
    /\ lead = <<"0">> => Unsigned(t) = t /\ IsNumeral(t, v, base) /\ ~Hex(t) /\ t[1] = "0"
    /\ lead = <<"0", "x">> => /\ Unsigned(t) = t /\ Hex(t) /\ At(t, 3) = m[1]
                              /\ SubSeq(t, 3, Len(t)) = m

LEMMA HeadIs ==
    ASSUME NEW lead, NEW blank, IsHead(lead, blank), NEW m, NEW v \in 0..WordSize - 1,
           NEW base \in Bases, IsNumeral(m, v, base)
    PROVE  Shape(lead \o m, lead, m, v, base)
  <1> DEFINE t == lead \o m
             n == Len(m)
             l == Len(lead)
  <1>1. /\ m \in Seq(Glyphs) /\ n \in Nat /\ n > 0
        /\ \A i \in 1..n : m[i] \in Range(Digit) /\ m[i] \notin {"x", "-", "+", Space, "NUL"}
    BY DigitsAreGlyphs
  <1>2. lead \in Seq(Glyphs) /\ l \in Nat
    BY HeadsAre, LenProperties
  <1> HIDE DEF n, l
  <1>3. /\ t \in Seq(Glyphs) /\ Len(t) = l + n
        /\ \A i \in 1..l + n : t[i] = IF i <= l THEN lead[i] ELSE m[i - l]
    BY <1>1, <1>2, ConcatProperties DEF n, l
  <1> HIDE DEF t
  <1>4. Len(t) \in Nat /\ Len(t) > 0
    BY <1>1, <1>2, <1>3
  <1>5. ASSUME NEW i \in 1..n PROVE t[l + i] = m[i]
    <2>1. PICK j : j = l + i
      OBVIOUS
    <2>2. j \in 1..l + n /\ ~(j <= l) /\ j - l = i
      BY <1>1, <1>2, <2>1
    <2>3. t[j] = m[j - l]
      BY <1>3, <2>2, Zenon
    <2>. QED BY <2>1, <2>2, <2>3
  <1>6. ASSUME NEW i \in 1..l PROVE t[i] = lead[i]
    BY <1>1, <1>2, <1>3
  <1>7. t[Len(t)] # Space
    <2>1. n \in 1..n /\ l + n = Len(t)
      BY <1>1, <1>3
    <2>. QED BY <1>1, <1>5, <2>1
  <1>8. 1 \in 1..n
    BY <1>1
  <1>9. At(m, 1) = m[1] /\ At(m, 2) # "x"
    <2>1. At(m, 1) = m[1]
      BY <1>8 DEF At, n
    <2>2. CASE 2 \in 1..n
      BY <1>1, <2>1, <2>2 DEF At, n
    <2>3. CASE ~(2 \in 1..n)
      BY <2>1, <2>3 DEF At, n
    <2>. QED BY <2>1, <2>2, <2>3
  <1>10. ~Hex(m)
    BY <1>9 DEF Hex
  <1>11. ASSUME lead = <<>>
         PROVE  t[1] \notin {Space, "-"} /\ t = m /\ Unsigned(t) = m /\ ~Hex(t)
    <2>1. t = m
      BY <1>1, <1>11, ConcatEmptySeq DEF t
    <2>2. m[1] \notin {"+", "-", Space}
      BY <1>1, <1>8
    <2>3. Unsigned(m) = m
      BY <2>2 DEF Unsigned
    <2>. QED BY <1>10, <2>1, <2>2, <2>3
  <1>12. ASSUME NEW c \in {"-", "+"}, lead = <<c>>
         PROVE  t[1] = c /\ Unsigned(t) = m
    <2>1. l = 1 /\ lead[1] = c
      BY <1>12 DEF l
    <2>2. t[1] = c
      BY <1>6, <2>1
    <2>3. Unsigned(t) = Tail(t)
      BY <2>2 DEF Unsigned
    <2>4. /\ Tail(t) \in Seq(Glyphs) /\ Len(Tail(t)) = Len(t) - 1
          /\ \A i \in 1..Len(t) - 1 : Tail(t)[i] = t[i + 1]
      <3>1. t # <<>>
        BY <1>4
      <3>. QED BY <1>3, <1>4, <3>1, HeadTailProperties
    <2>5. Len(t) - 1 = n
      BY <1>1, <1>3, <2>1
    <2>6. ASSUME NEW i \in 1..n PROVE Tail(t)[i] = m[i]
      <3>1. t[i + 1] = m[i]
        <4>1. i + 1 = l + i
          BY <2>1
        <4>. QED BY <1>5, <4>1
      <3>. QED BY <2>4, <2>5, <3>1
    <2>7. Tail(t) = m
      <3> DEFINE q == Tail(t)
      <3>1. q \in Seq(Glyphs) /\ Len(q) = n /\ \A i \in 1..n : q[i] = m[i]
        BY <2>4, <2>5, <2>6
      <3> HIDE DEF q
      <3>2. q = m
        BY <1>1, <3>1, SeqEqual DEF n
      <3>. QED BY <3>2 DEF q
    <2>. QED BY <2>2, <2>3, <2>7
  <1>13. ASSUME lead = <<"0">>
         PROVE  t[1] = "0" /\ Unsigned(t) = t /\ IsNumeral(t, v, base) /\ ~Hex(t)
    <2>1. l = 1 /\ lead[1] = "0"
      BY <1>13 DEF l
    <2>2. t[1] = "0"
      BY <1>6, <2>1
    <2>3. Unsigned(t) = t
      BY <2>2 DEF Unsigned
    <2>4. At(t, 2) # "x"
      <3>1. 2 \in 1..Len(t) /\ t[2] = m[1]
        <4>1. 2 = l + 1 /\ 2 \in 1..Len(t)
          BY <1>1, <1>3, <2>1
        <4>. QED BY <1>5, <1>8, <4>1
      <3>. QED BY <1>1, <1>8, <3>1 DEF At
    <2>5. lead = Times(1, "0")
      BY <1>13 DEF Times
    <2>6. IsNumeral(Times(1, "0") \o m, v, base)
      <3>1. v \in Nat
        BY PrintWordSizes
      <3>. QED BY <3>1, ZerosInFront
    <2>. QED BY <2>2, <2>3, <2>4, <2>5, <2>6 DEF Hex, t
  <1>14. ASSUME lead = <<"0", "x">>
         PROVE  /\ t[1] = "0" /\ Unsigned(t) = t /\ Hex(t) /\ At(t, 3) = m[1]
                /\ SubSeq(t, 3, Len(t)) = m
    <2>1. l = 2 /\ lead[1] = "0" /\ lead[2] = "x"
      BY <1>14 DEF l
    <2>2. t[1] = "0" /\ t[2] = "x"
      BY <1>6, <2>1
    <2>3. Unsigned(t) = t
      BY <2>2 DEF Unsigned
    <2>4. 1 \in 1..Len(t) /\ 2 \in 1..Len(t) /\ 3 \in 1..Len(t) /\ 3 = l + 1 /\ Len(t) = 2 + n
      BY <1>1, <1>3, <2>1
    <2>5. Hex(t)
      BY <2>2, <2>4 DEF Hex, At
    <2>6. At(t, 3) = m[1]
      <3>1. t[3] = m[1]
        BY <1>5, <1>8, <2>4
      <3>. QED BY <2>4, <3>1 DEF At
    <2> DEFINE q == SubSeq(t, 3, Len(t))
    <2>7. q \in Seq(Glyphs) /\ Len(q) = n /\ \A i \in 1..n : q[i] = m[i]
      <3> DEFINE w == Len(t)
      <3>1. \A i \in 3..w : t[i] \in Glyphs
        BY <1>3, <1>4
      <3>2. w \in Int /\ w = 2 + n
        BY <1>4, <2>4
      <3> HIDE DEF w
      <3>3. /\ SubSeq(t, 3, w) \in Seq(Glyphs)
            /\ Len(SubSeq(t, 3, w)) = IF 3 <= w THEN w - 3 + 1 ELSE 0
            /\ \A i \in 1..w - 3 + 1 : SubSeq(t, 3, w)[i] = t[3 + i - 1]
        BY <3>1, <3>2, SubSeqProperties
      <3>4. w - 3 + 1 = n /\ 3 <= w
        BY <1>1, <3>2
      <3>5. ASSUME NEW i \in 1..n PROVE SubSeq(t, 3, w)[i] = m[i]
        <4>1. 3 + i - 1 = l + i
          BY <2>1
        <4>. QED BY <1>5, <3>3, <3>4, <4>1
      <3>. QED BY <3>3, <3>4, <3>5 DEF w
    <2> HIDE DEF q
    <2>8. q = m
      BY <1>1, <2>7, SeqEqual DEF n
    <2>. QED BY <2>2, <2>3, <2>5, <2>6, <2>8 DEF q
  <1>15. /\ t \in Seq(Glyphs) /\ Len(t) \in Nat /\ Len(t) > 0
         /\ t[Len(t)] # Space /\ t[1] # Space
         /\ t[1] = "-" <=> lead = <<"-">>
         /\ lead = <<>> => t = m /\ Unsigned(t) = m /\ ~Hex(t)
         /\ lead \in {<<"-">>, <<"+">>} => Unsigned(t) = m /\ ~Hex(m)
         /\ lead = <<"0">> => Unsigned(t) = t /\ IsNumeral(t, v, base) /\ ~Hex(t) /\ t[1] = "0"
         /\ lead = <<"0", "x">> => /\ Unsigned(t) = t /\ Hex(t) /\ At(t, 3) = m[1]
                                   /\ SubSeq(t, 3, Len(t)) = m
    <2>1. lead = <<>> \/ lead = <<"-">> \/ lead = <<"+">> \/ lead = <<"0">> \/ lead = <<"0", "x">>
      BY DEF IsHead
    <2>2. CASE lead = <<>>
      BY <1>3, <1>4, <1>7, <1>11, <2>2, HeadsApart
    <2>3. CASE lead = <<"-">>
      BY <1>3, <1>4, <1>7, <1>10, <1>12, <2>3, HeadsApart, SpaceIs
    <2>4. CASE lead = <<"+">>
      BY <1>3, <1>4, <1>7, <1>10, <1>12, <2>4, HeadsApart, SpaceIs
    <2>5. CASE lead = <<"0">>
      BY <1>3, <1>4, <1>7, <1>13, <2>5, HeadsApart, SpaceIs
    <2>6. CASE lead = <<"0", "x">>
      BY <1>3, <1>4, <1>7, <1>14, <2>6, HeadsApart, SpaceIs
    <2>. QED BY <2>1, <2>2, <2>3, <2>4, <2>5, <2>6
  <1>16. Shape(t, lead, m, v, base)
    BY <1>15 DEF Shape
  <1>. QED BY <1>16 DEF t

\* What is read back from head and digits.
IsRead(t, lead, v, base) ==
    /\ simple_strtoul(Unsigned(t), base) = v
    /\ base = 16 => hatol(t) = v
    /\ lead \in {<<"0">>, <<"0", "x">>} => simple_strtoul(t, 0) = v
LEMMA ReadsBack ==
    ASSUME NEW lead, NEW blank, IsHead(lead, blank), NEW m, NEW v \in 0..WordSize - 1,
           NEW base \in Bases, IsNumeral(m, v, base),
           lead \in {<<"-">>, <<"+">>} => base = 10, lead = <<"0">> => base = 8,
           lead = <<"0", "x">> => base = 16
    PROVE  IsRead(lead \o m, lead, v, base)
  <1> DEFINE t == lead \o m
  <1>1. Shape(t, lead, m, v, base)
    BY HeadIs, Zenon
  <1>0. SUFFICES IsRead(t, lead, v, base)
    BY DEF t
  <1> HIDE DEF t
  <1>10. /\ lead = <<>> => t = m /\ Unsigned(t) = m /\ ~Hex(t)
         /\ lead \in {<<"-">>, <<"+">>} => Unsigned(t) = m /\ ~Hex(m)
         /\ lead = <<"0">> => Unsigned(t) = t /\ IsNumeral(t, v, base) /\ ~Hex(t) /\ t[1] = "0"
         /\ lead = <<"0", "x">> => /\ Unsigned(t) = t /\ Hex(t) /\ At(t, 3) = m[1]
                                   /\ SubSeq(t, 3, Len(t)) = m
         /\ Len(t) \in Nat /\ Len(t) > 0
    BY <1>1, Zenon DEF Shape
  <1>2. Number(m, base) = v /\ (IsNumeral(t, v, base) => Number(t, base) = v)
    BY NumeralIsRead
  <1>3. base # 0
    BY DEF Bases
  <1>4. Len(m) \in Nat /\ \A i \in 1..Len(m) : IsXdigit(m[i])
    BY DigitsAreGlyphs DEF IsXdigit
  <1>5. IsXdigit(m[1])
    <2>1. 1 \in 1..Len(m)
      BY DigitsAreGlyphs
    <2>. QED BY <1>4, <2>1
  <1>6. CASE lead = <<>>
    <2>1. simple_strtoul(Unsigned(t), base) = v
      BY <1>10, <1>2, <1>3, <1>6 DEF simple_strtoul
    <2>2. base = 16 => hatol(t) = v
      BY <1>10, <1>2, <1>4, <1>6 DEF hatol
    <2>. QED BY <1>6, <2>1, <2>2, HeadsApart DEF IsRead
  <1>7. CASE lead \in {<<"-">>, <<"+">>}
    <2>1. simple_strtoul(Unsigned(t), base) = v
      BY <1>10, <1>2, <1>3, <1>7 DEF simple_strtoul
    <2>. QED BY <1>7, <2>1, HeadsApart DEF IsRead
  <1>8. CASE lead = <<"0">>
    <2>1. simple_strtoul(Unsigned(t), base) = v
      BY <1>10, <1>2, <1>3, <1>8 DEF simple_strtoul
    <2>2. 1 \in 1..Len(t) /\ base = 8
      BY <1>10, <1>8
    <2>3. simple_guess_base(t) = 8
      BY <1>10, <1>8, <2>2 DEF simple_guess_base, At
    <2>4. simple_strtoul(t, 0) = v
      BY <1>10, <1>2, <1>8, <2>2, <2>3 DEF simple_strtoul
    <2>. QED BY <1>8, <2>1, <2>2, <2>4, HeadsApart DEF IsRead
  <1>9. CASE lead = <<"0", "x">>
    <2>1. base = 16
      BY <1>9
    <2>7. Unsigned(t) = t /\ Hex(t) /\ At(t, 3) = m[1] /\ SubSeq(t, 3, Len(t)) = m
      BY <1>10, <1>9, Zenon
    <2>2. simple_strtoul(Unsigned(t), base) = v
      <3> DEFINE q == SubSeq(t, 3, Len(t))
      <3>1. Hex(t) /\ Unsigned(t) = t /\ q = m
        BY <2>7
      <3>2. simple_strtoul(t, 16) = Number(q, 16)
        <4> HIDE DEF q
        <4>1. (IF 16 = 0 THEN simple_guess_base(t) ELSE 16) = 16
          OBVIOUS
        <4>. QED BY <3>1, <4>1, Zenon DEF simple_strtoul, q
      <3> HIDE DEF q
      <3>. QED BY <1>2, <2>1, <3>1, <3>2
    <2>3. hatol(t) = v
      BY <1>2, <1>4, <2>1, <2>7 DEF hatol
    <2>4. At(t, 1) = "0"
      BY <2>7 DEF Hex
    <2>5. simple_guess_base(t) = 16
      BY <1>5, <2>7, <2>4 DEF simple_guess_base
    <2>6. simple_strtoul(t, 0) = v
      BY <1>2, <2>7, <2>1, <2>5 DEF simple_strtoul
    <2>. QED BY <1>9, <2>1, <2>2, <2>3, <2>6, HeadsApart DEF IsRead
  <1>. QED BY <1>6, <1>7, <1>8, <1>9 DEF IsHead

\* A text that is printed shows the number it was made of.
Printed == directive = Nothing \/ /\ directive \in Directives /\ arg \in Arguments
                                  /\ printed = vsprintf(directive, arg)

LEMMA PrintedReadsBack == ASSUME Printed PROVE PrintfReadsBack
  <1> DEFINE style == Style(directive.flags)
             c == directive.conv
             width == directive.width
             text == Stripped(printed)
             filled == Len(printed) - Len(text)
             minus == c \in {"d", "i"} /\ Negative(arg)
  <1>0. SUFFICES ASSUME directive # Nothing, ~ZerosFirst(directive) PROVE
         /\ Len(printed) >= width
         /\ Len(printed) > width =>
              filled = (IF "SPACE" \in style /\ Head(printed) = Space THEN 1 ELSE 0)
         /\ IF "LEFT" \in style THEN filled > 1 => Last(printed) = Space ELSE Last(printed) # Space
         /\ (Head(text) = "-") = minus
         /\ simple_strtoul(Unsigned(text), Base(c)) = IF minus THEN WordSize - arg ELSE arg
         /\ c \in {"x", "X", "p"} => hatol(text) = arg
         /\ c = "p" \/ ("PLUS" \in style /\ c \in {"x", "X", "o"}) =>
              simple_strtoul(text, 0) = arg
    BY Zenon DEF PrintfReadsBack
  <1>1. /\ directive \in Directives /\ arg \in Arguments /\ printed = vsprintf(directive, arg)
    BY <1>0 DEF Printed
  <1>2. /\ directive.flags \in Seq(Flags) /\ width \in Nat /\ c \in Letters
        /\ arg \in 0..WordSize - 1
    BY <1>1, PrintfAssumption
  <1>3. style \in Plain
    BY <1>2, StyleIs
  <1> HIDE DEF style, width, c
  <1>4. NoZerosFirst(c, style, arg)
    BY <1>0 DEF NoZerosFirst, ZerosFirst, style, c
  <1>5. printed = NumToAscii(arg, width, Base(c), StyleFor(c, style))
    BY <1>1, Zenon DEF vsprintf, style, width, c
  <1>6. PICK base, v, lead, blank : PrintParts(c, style, arg, base, v, lead, blank)
    BY <1>2, <1>3, PartsAre, Zenon
  <1>7. PICK m, a, e : /\ IsNumeral(m, v, base)
                       /\ Shows(printed, width, style, lead, m, blank, a, e)
    BY <1>2, <1>3, <1>4, <1>5, <1>6, Shown, Zenon
  <1> DEFINE t == lead \o m
  <1>8. /\ base = Base(c) /\ base \in Bases /\ v \in 0..WordSize - 1
        /\ IsHead(lead, blank) /\ HeadFor(c, style, arg, base, lead, blank)
        /\ base = 16 <=> c \in {"x", "X", "p"}
        /\ v = IF minus THEN WordSize - arg ELSE arg
    BY <1>6, Zenon DEF PrintParts
  <1>9. /\ blank => base = 10 /\ lead = <<>> /\ "SPACE" \in style
        /\ lead \in {<<"-">>, <<"+">>} => base = 10
        /\ lead = <<"0">> => base = 8
        /\ lead = <<"0", "x">> => base = 16
        /\ c = "p" \/ ("PLUS" \in style /\ c \in {"x", "X"}) => lead = <<"0", "x">>
        /\ "PLUS" \in style /\ c = "o" => lead = <<"0">>
        /\ lead = <<"-">> <=> minus
    BY <1>8 DEF HeadFor
  <1>10. /\ t \in Seq(Glyphs) /\ Len(t) \in Nat /\ Len(t) > 0
         /\ t[Len(t)] # Space /\ t[1] # Space
         /\ t[1] = "-" <=> lead = <<"-">>
    <2>1. Shape(t, lead, m, v, base)
      BY <1>7, <1>8, HeadIs, Zenon
    <2>. QED BY <2>1, Zenon DEF Shape
  <1>11. /\ simple_strtoul(Unsigned(t), base) = v
         /\ base = 16 => hatol(t) = v
         /\ lead \in {<<"0">>, <<"0", "x">>} => simple_strtoul(t, 0) = v
    <2>1. IsRead(t, lead, v, base)
      BY <1>7, <1>8, <1>9, ReadsBack, Zenon
    <2>. QED BY <2>1, Zenon DEF IsRead
  <1> HIDE DEF t
  <1>12. /\ Laid(printed, a, t, e) /\ Len(printed) >= width
         /\ Len(printed) > width => a + e = IF blank THEN 1 ELSE 0
         /\ blank => a > 0
         /\ IF "LEFT" \in style THEN a + e > 1 => e > 0 ELSE e = 0
    BY <1>7, Zenon DEF Shows, t
  <1>13. text = t
    BY <1>10, <1>12, StrippedIs
  <1>14. /\ a \in Nat /\ e \in Nat /\ printed \in Seq(Glyphs) /\ Len(printed) = a + Len(t) + e
         /\ \A i \in 1..a : printed[i] = Space
         /\ \A i \in 1..Len(t) : printed[a + i] = t[i]
         /\ \A i \in 1..e : printed[a + Len(t) + i] = Space
    BY <1>12 DEF Laid
  <1>15. filled = a + e
    <2> HIDE DEF text
    <2>. QED BY <1>10, <1>13, <1>14
  <1>16. Head(printed) = printed[1] /\ Last(printed) = printed[Len(printed)] /\ Head(t) = t[1]
    <2>1. printed # <<>> /\ t # <<>>
      BY <1>10, <1>14
    <2>. QED BY <1>10, <1>14, <2>1, HeadTailProperties DEF Last
  <1> HIDE DEF text, filled, minus
  <1>17. Len(printed) > width =>
              filled = (IF "SPACE" \in style /\ Head(printed) = Space THEN 1 ELSE 0)
    <2> SUFFICES ASSUME Len(printed) > width
                 PROVE  filled = (IF "SPACE" \in style /\ Head(printed) = Space THEN 1 ELSE 0)
      OBVIOUS
    <2>1. CASE blank
      <3>1. a > 0 /\ a + e = 1
        BY <1>12, <2>1
      <3>2. printed[1] = Space
        BY <1>14, <3>1
      <3>. QED BY <1>9, <1>15, <1>16, <2>1, <3>1, <3>2
    <2>2. CASE ~blank
      <3>1. a = 0 /\ a + e = 0
        BY <1>12, <1>14, <2>2
      <3>2. printed[1] = t[1]
        <4>1. 1 \in 1..Len(t) /\ 0 + 1 = 1
          BY <1>10
        <4>. QED BY <1>14, <3>1, <4>1
      <3>. QED BY <1>10, <1>15, <1>16, <3>1, <3>2
    <2>. QED BY <2>1, <2>2
  <1>18. IF "LEFT" \in style THEN filled > 1 => Last(printed) = Space ELSE Last(printed) # Space
    <2>1. ASSUME e > 0 PROVE Last(printed) = Space
      <3>1. e \in 1..e /\ a + Len(t) + e = Len(printed)
        BY <1>14, <2>1
      <3>2. printed[a + Len(t) + e] = Space
        BY <1>14, <3>1
      <3>. QED BY <1>16, <3>1, <3>2
    <2>2. ASSUME e = 0 PROVE Last(printed) # Space
      <3>1. Len(t) \in 1..Len(t) /\ a + Len(t) = Len(printed)
        BY <1>10, <1>14, <2>2
      <3>2. printed[a + Len(t)] = t[Len(t)]
        BY <1>14, <3>1
      <3>. QED BY <1>10, <1>16, <3>1, <3>2
    <2>. QED BY <1>12, <1>15, <2>1, <2>2
  <1>19. (Head(text) = "-") = minus
    BY <1>9, <1>10, <1>13, <1>16 DEF minus
  <1>20. simple_strtoul(Unsigned(text), Base(c)) = IF minus THEN WordSize - arg ELSE arg
    BY <1>8, <1>11, <1>13
  <1>21. c \in {"x", "X", "p"} => hatol(text) = arg
    BY <1>8, <1>11, <1>13 DEF minus
  <1>22. c = "p" \/ ("PLUS" \in style /\ c \in {"x", "X", "o"}) => simple_strtoul(text, 0) = arg
    BY <1>8, <1>9, <1>11, <1>13 DEF minus
  <1>. QED BY <1>12, <1>17, <1>18, <1>19, <1>20, <1>21, <1>22

LEMMA PrintInitially == PrintfInit => Printed
  BY DEF PrintfInit, Printed

LEMMA PrintStep ==
    ASSUME Printed, PrintfNext
    PROVE  Printed'
  <1>1. PICK dir \in Directives, n \in Arguments : Convert(dir, n)
    BY DEF PrintfNext
  <1>2. directive' = dir /\ arg' = n /\ printed' = vsprintf(dir, n)
    BY <1>1 DEF Convert
  <1>. QED BY <1>2 DEF Printed

-----------------------------------------------------------------------------
(***************************************************************************)
(* cmd_bootlinux.c.                                                        *)
(***************************************************************************)
\* What the console lets through.
LineOk(line) ==
    /\ line \in Seq(Seq(Char)) /\ Len(line) \in 1..MAX_CMD_ARG - 1
    /\ \A k \in 1..Len(line) :
         /\ line[k] \in Seq(Char) /\ Len(line[k]) \in 1..MAX_CMD_ARG_LEN - 1
         /\ line[k] \in Names \cup {OptC} => k + 1 \in 1..Len(line)
         /\ line[k] \in Names => line[k + 1][1] # Hyphen

LEMMA LinesAreOk == ASSUME NEW line \in Lines PROVE LineOk(line)
  <1>1. /\ line \in Seq(Seq(Char)) /\ Len(line) \in 1..MAX_CMD_ARG - 1
        /\ \A k \in 1..Len(line) : Len(line[k]) \in 1..MAX_CMD_ARG_LEN - 1
        /\ line[Len(line)] \notin Names \cup {OptC}
        /\ \A k \in 1..Len(line) : line[k] \in Names => line[k + 1][1] # Hyphen
    BY BootAssumption, Zenon DEF Last
  <1>2. Len(line) \in Nat /\ \A k \in 1..Len(line) : line[k] \in Seq(Char)
    BY <1>1, ElementOfSeq, LenProperties
  <1>3. ASSUME NEW k \in 1..Len(line), line[k] \in Names \cup {OptC} PROVE k + 1 \in 1..Len(line)
    <2>1. k # Len(line)
      BY <1>1, <1>3
    <2>. QED BY <1>2, <2>1
  <1>. QED BY <1>1, <1>2, <1>3 DEF LineOk

LEMMA OptionsBegin ==
    /\ \A o \in Names \cup {OptC, OptB, OptH} : o[1] = Hyphen
    /\ OptC \notin Names /\ OptB \notin Names \cup {OptC} /\ OptH \notin Names \cup {OptC, OptB}
    /\ \E o : o \in Names
  <1>1. \A a : Option(a)[1] = Hyphen /\ Option(a)[2] = a
    BY DEF Option
  <1>2. \A o \in Names : o[1] = Hyphen /\ o[2] \in {109, 97, 107}
    BY <1>1 DEF Names
  <1>3. /\ OptC[1] = Hyphen /\ OptB[1] = Hyphen /\ OptH[1] = Hyphen
        /\ OptC[2] = 99 /\ OptB[2] = 98 /\ OptH[2] = 104
    BY <1>1 DEF OptC, OptB, OptH
  <1>4. OptC \notin Names /\ OptB \notin Names /\ OptH \notin Names
    BY <1>2, <1>3
  <1>5. OptB # OptC /\ OptH # OptC /\ OptH # OptB
    BY <1>3
  <1>6. \A o \in Names \cup {OptC, OptB, OptH} : o[1] = Hyphen
    BY <1>2, <1>3
  <1>7. \E o : o \in Names
    BY DEF Names
  <1>. QED BY <1>4, <1>5, <1>6, <1>7

\* The words behind an option: up to one that begins with a hyphen or to the end.
LEMMA WordsEndIs ==
    ASSUME NEW line, LineOk(line), NEW from \in 1..Len(line)
    PROVE  /\ WordsEnd(line, from) \in from - 1..Len(line)
           /\ \A k \in from..WordsEnd(line, from) : line[k][1] # Hyphen
           /\ WordsEnd(line, from) < Len(line) => line[WordsEnd(line, from) + 1][1] = Hyphen
  <1> DEFINE next == {k \in from..Len(line) : line[k][1] = Hyphen}
  <1>1. Len(line) \in Nat
    BY LenProperties DEF LineOk
  <1>2. CASE next = {}
    <2>1. WordsEnd(line, from) = Len(line)
      BY <1>2 DEF WordsEnd
    <2>. QED BY <1>1, <1>2, <2>1
  <1>3. CASE next # {}
    <2>1. next \subseteq Nat
      BY <1>1
    <2>2. Min(next) \in next /\ \A j \in next : Min(next) <= j
      <3> HIDE DEF next
      <3>. QED BY <1>3, <2>1, LeastIsMin
    <2>3. WordsEnd(line, from) = Min(next) - 1
      BY <1>3 DEF WordsEnd
    <2> DEFINE m == Min(next)
    <2>4. m \in from..Len(line) /\ line[m][1] = Hyphen
      BY <2>2
    <2>5. \A k \in from..m - 1 : line[k][1] # Hyphen
      <3> SUFFICES ASSUME NEW k \in from..m - 1, line[k][1] = Hyphen PROVE FALSE
        OBVIOUS
      <3> HIDE DEF m
      <3>1. k \in from..Len(line) /\ ~(m <= k)
        BY <1>1, <2>4
      <3>2. k \in next
        BY <3>1
      <3>. QED BY <2>2, <3>1, <3>2 DEF m
    <2> HIDE DEF m, next
    <2>6. m - 1 \in from - 1..Len(line) /\ m - 1 + 1 = m
      BY <1>1, <2>4
    <2>7. WordsEnd(line, from) = m - 1
      BY <2>3 DEF m
    <2>. QED BY <2>4, <2>5, <2>6, <2>7
  <1>. QED BY <1>2, <1>3

\* The text grows word by word.
GrowsBy(h, words) ==
    /\ h \in [0..Len(words) -> Seq(Char)] /\ h[0] = <<>>
    /\ \A k \in 1..Len(words) : h[k] = WithWord(h[k - 1], words[k])

LEMMA WithWordIs ==
    ASSUME NEW text \in Seq(Char), NEW w \in Seq(Char)
    PROVE  /\ WithWord(text, w) \in Seq(Char) /\ Len(WithWord(text, w)) = Len(text) + Len(w) + 1
           /\ WithWord(text, w) = text \o (w \o <<Blank>>) /\ w \o <<Blank>> \in Seq(Char)
  <1>1. <<Blank>> \in Seq(Char) /\ Len(<<Blank>>) = 1
    BY DEF Blank, Char
  <1>2. text \o w \in Seq(Char) /\ Len(text \o w) = Len(text) + Len(w)
    BY ConcatProperties
  <1>3. (text \o w) \o <<Blank>> \in Seq(Char) /\ Len((text \o w) \o <<Blank>>) = Len(text \o w) + 1
    BY <1>1, <1>2, ConcatProperties
  <1>4. (text \o w) \o <<Blank>> = text \o (w \o <<Blank>>)
    BY <1>1, ConcatAssociative
  <1>5. w \o <<Blank>> \in Seq(Char)
    BY <1>1, ConcatProperties
  <1>6. Len(text) \in Nat /\ Len(w) \in Nat
    BY LenProperties
  <1>. QED BY <1>2, <1>3, <1>4, <1>5, <1>6 DEF WithWord

LEMMA JoinedIs ==
    ASSUME NEW words \in Seq(Seq(Char))
    PROVE  \E h : GrowsBy(h, words) /\ Joined(words) = h[Len(words)]
  <1> DEFINE n == Len(words)
             S == Seq(Char)
             step == [k \in 1..n |-> [text \in S |-> WithWord(text, words[k])]]
             Is(f) == f = [s \in SUBSET DOMAIN words |->
                             IF s = {} THEN <<>> ELSE WithWord(f[s \ {Max(s)}], words[Max(s)])]
             all == CHOOSE f : Is(f)
             g == Partials(all, n)
  <1>1. n \in Nat /\ DOMAIN words = 1..n /\ \A k \in 1..n : words[k] \in S
    BY LenProperties, ElementOfSeq
  <1>2. <<>> \in S
    BY EmptySeq
  <1>3. ASSUME NEW k \in 1..n, NEW text \in S PROVE WithWord(text, words[k]) \in S
    BY <1>1, WithWordIs
  <1>4. step \in Steps(S, n)
    <2> HIDE DEF S
    <2>. QED BY <1>3 DEF Steps
  <1>5. PICK it \in [SUBSET (1..n) -> S] : IsFold(it, n, <<>>, step)
    <2> HIDE DEF n, S, step
    <2>. QED BY <1>1, <1>2, <1>4, FoldExists
  <1>6. ASSUME NEW s \in SUBSET (1..n), s # {} PROVE Max(s) \in 1..n /\ s \ {Max(s)} \in SUBSET (1..n)
    <2> HIDE DEF n
    <2>1. s \in SUBSET (0..n)
      <3>1. \A x \in s : x \in 0..n
        OBVIOUS
      <3>. QED BY <3>1
    <2>. QED BY <1>1, <1>6, <2>1, Greatest
  <1>7. Is(it)
    <2>1. ASSUME NEW s \in SUBSET (1..n), s # {}
          PROVE  step[Max(s)][it[s \ {Max(s)}]] = WithWord(it[s \ {Max(s)}], words[Max(s)])
      <3>1. it[s \ {Max(s)}] \in S
        BY <1>6, <2>1
      <3>. QED BY <1>6, <2>1, <3>1
    <2> HIDE DEF step, S, n
    <2>. QED BY <1>1, <1>5, <2>1 DEF IsFold
  <1>8. Is(all)
    BY <1>7
  <1> HIDE DEF all
  <1>9. ASSUME NEW k \in 1..n, all[1..(k - 1)] \in S
        PROVE  all[1..k] = step[k][all[1..(k - 1)]]
    <2>1. all[1..k] = WithWord(all[1..(k - 1)], words[k])
      BY <1>1, <1>8, Segment
    <2>. QED BY <1>9, <2>1
  <1>10. all[{}] = <<>> /\ Joined(words) = all[1..n]
    <2>1. {} \in SUBSET DOMAIN words
      OBVIOUS
    <2>. QED BY <1>1, <1>8, <2>1 DEF Joined, FoldLeft, MapThenFoldSet, all
  <1>11. g \in [0..n -> S] /\ Follows(g, n, <<>>, step) /\ all[1..n] = g[n]
    <2> HIDE DEF n, S, step
    <2>. QED BY <1>1, <1>2, <1>4, <1>9, <1>10, FoldFollows
  <1>12. g[0] = <<>> /\ \A k \in 1..n : g[k] = WithWord(g[k - 1], words[k])
    <2> HIDE DEF g
    <2>0. g[0] = <<>>
      BY <1>11 DEF Follows
    <2> SUFFICES ASSUME NEW k \in 1..n PROVE g[k] = WithWord(g[k - 1], words[k])
      BY <2>0
    <2>1. k - 1 \in 0..n
      BY <1>1
    <2>2. g[k - 1] \in S /\ g[k] = step[k][g[k - 1]]
      <3> HIDE DEF step, S, n
      <3>. QED BY <1>11, <2>1 DEF Follows
    <2>. QED BY <2>2
  <1>13. GrowsBy(g, words)
    <2> HIDE DEF g
    <2>. QED BY <1>11, <1>12 DEF GrowsBy
  <1>. QED BY <1>10, <1>11, <1>13

LEMMA FunctionIsSeq ==
    ASSUME NEW S, NEW n \in Nat, NEW s \in [1..n -> S]
    PROVE  s \in Seq(S) /\ Len(s) = n
  OBVIOUS

\* A text is no longer than its words with a place for the blank behind each.
LEMMA JoinedFits ==
    ASSUME NEW words \in Seq(Seq(Char)), NEW l \in Nat,
           \A k \in 1..Len(words) : Len(words[k]) <= l - 1
    PROVE  Joined(words) \in Seq(Char) /\ Len(Joined(words)) <= Len(words) * l
  <1> DEFINE n == Len(words)
  <1>1. PICK h : GrowsBy(h, words) /\ Joined(words) = h[n]
    BY JoinedIs, Zenon
  <1>2. n \in Nat /\ \A k \in 1..n : words[k] \in Seq(Char) /\ Len(words[k]) \in Nat
    BY LenProperties, ElementOfSeq
  <1>3. h \in [0..n -> Seq(Char)] /\ h[0] = <<>> /\ \A k \in 1..n : h[k] = WithWord(h[k - 1], words[k])
    BY <1>1, Zenon DEF GrowsBy
  <1> DEFINE T == {k \in 0..n : Len(h[k]) <= k * l}
  <1>4. 0 \in T
    BY <1>2, <1>3
  <1>5. ASSUME NEW k \in 1..n, k - 1 \in T PROVE k \in T
    <2>1. k - 1 \in 0..n /\ k \in 0..n /\ Len(h[k - 1]) <= (k - 1) * l
      BY <1>2, <1>5
    <2>2. h[k - 1] \in Seq(Char) /\ words[k] \in Seq(Char) /\ Len(h[k - 1]) \in Nat
      BY <1>2, <1>3, <2>1, LenProperties
    <2>3. Len(h[k]) = Len(h[k - 1]) + Len(words[k]) + 1
      <3>1. h[k] = WithWord(h[k - 1], words[k])
        BY <1>3
      <3>2. Len(WithWord(h[k - 1], words[k])) = Len(h[k - 1]) + Len(words[k]) + 1
        BY <2>2, WithWordIs
      <3>. QED BY <3>1, <3>2
    <2>4. k * l = (k - 1) * l + l /\ k * l \in Nat /\ (k - 1) * l \in Nat
      BY <1>2
    <2>5. Len(words[k]) + 1 <= l /\ Len(words[k]) \in Nat
      BY <1>2
    <2> DEFINE x == (k - 1) * l
               y == k * l
               a == Len(h[k - 1])
               b == Len(words[k])
    <2>6. a + b + 1 <= y
      <3>1. a <= x /\ y = x + l /\ x \in Nat /\ a \in Nat /\ b + 1 <= l /\ b \in Nat
        BY <2>1, <2>2, <2>4, <2>5
      <3> HIDE DEF x, y, a, b
      <3>. QED BY <3>1
    <2>7. Len(h[k]) <= y
      BY <2>3, <2>6
    <2>. QED BY <2>1, <2>7
  <1>6. n \in T
    <2> HIDE DEF T, n
    <2>. QED BY <1>2, <1>4, <1>5, UpTo, n \in 0..n
  <1>. QED BY <1>1, <1>2, <1>3, <1>6

\* Joining words is putting one text behind another, each with its blank.
LEMMA JoinedIsFlat ==
    ASSUME NEW words \in Seq(Seq(Char))
    PROVE  Joined(words) = FlattenSeq([k \in 1..Len(words) |-> words[k] \o <<Blank>>])
  <1> DEFINE n == Len(words)
             s == [k \in 1..n |-> words[k] \o <<Blank>>]
  <1>1. PICK h : GrowsBy(h, words) /\ Joined(words) = h[n]
    BY JoinedIs, Zenon
  <1>2. n \in Nat /\ \A k \in 1..n : words[k] \in Seq(Char)
    BY LenProperties, ElementOfSeq
  <1>3. h \in [0..n -> Seq(Char)] /\ h[0] = <<>> /\ \A k \in 1..n : h[k] = WithWord(h[k - 1], words[k])
    BY <1>1, Zenon DEF GrowsBy
  <1>4. s \in Seq(Seq(Octet)) /\ Len(s) = n
    <2>1. Seq(Char) \subseteq Seq(Octet)
      <3>1. Char \subseteq Octet
        BY DEF Char, Octet
      <3>. QED BY <3>1, SeqMonotonic
    <2>2. \A k \in 1..n : words[k] \o <<Blank>> \in Seq(Octet)
      BY <1>2, <2>1, WithWordIs, EmptySeq
    <2> DEFINE S == Seq(Octet)
    <2>3. \A k \in 1..n : s[k] \in S
      BY <2>2
    <2> HIDE DEF S
    <2>4. s \in [1..n -> S]
      BY <2>3
    <2>5. s \in Seq(S) /\ Len(s) = n
      <3> HIDE DEF s
      <3>. QED BY <1>2, <2>4, FunctionIsSeq
    <2>. QED BY <2>5 DEF S
  <1>5. PICK e : e \in [0..n -> Seq(Octet)] /\ e[0] = <<>> /\ FlattenSeq(s) = e[n]
                 /\ \A k \in 1..n : e[k] = e[k - 1] \o s[k]
    <2> HIDE DEF s, n
    <2>. QED BY <1>4, FlattenIs
  <1> DEFINE T == {k \in 0..n : e[k] = h[k]}
  <1>6. 0 \in T
    BY <1>2, <1>3, <1>5
  <1>7. ASSUME NEW k \in 1..n, k - 1 \in T PROVE k \in T
    <2>1. k - 1 \in 0..n /\ k \in 0..n /\ e[k - 1] = h[k - 1]
      BY <1>2, <1>7
    <2>2. h[k - 1] \in Seq(Char) /\ words[k] \in Seq(Char)
      BY <1>2, <1>3, <2>1
    <2>3. h[k] = h[k - 1] \o (words[k] \o <<Blank>>)
      BY <1>3, <2>2, WithWordIs
    <2>4. e[k] = e[k - 1] \o (words[k] \o <<Blank>>)
      BY <1>5
    <2>. QED BY <2>1, <2>3, <2>4
  <1>8. n \in T
    <2> HIDE DEF T, n
    <2>. QED BY <1>2, <1>6, <1>7, UpTo, n \in 0..n
  <1>. QED BY <1>1, <1>5, <1>8

\* What is taken behind -c is a text that fits, and is the words with a blank between them.
Asked(line, j) ==
    LET begin == j + 1
        words == {k \in begin..Len(line) : \A i \in begin..k : line[i][1] # Hyphen}
        n == Cardinality(words)
        text == FlattenSeq([k \in 1..n |-> line[j + k] \o <<Blank>>])
    IN IF n > 0 /\ j + n = Len(line) THEN Front(text) ELSE text

LEMMA WordsAre ==
    ASSUME NEW line, LineOk(line), NEW j \in 1..Len(line), j + 1 \in 1..Len(line)
    PROVE  LET n == WordsEnd(line, j + 1) - j
               words == SubSeq(line, j + 1, WordsEnd(line, j + 1))
           IN /\ n \in 0..Len(line) - j /\ words \in Seq(Seq(Char)) /\ Len(words) = n
              /\ \A k \in 1..n : words[k] = line[j + k] /\ Len(words[k]) <= MAX_CMD_ARG_LEN - 1
  <1> DEFINE e == WordsEnd(line, j + 1)
             n == e - j
             words == SubSeq(line, j + 1, e)
  <1>1. Len(line) \in Nat /\ line \in Seq(Seq(Char)) /\ \A k \in 1..Len(line) : line[k] \in Seq(Char)
    BY LenProperties DEF LineOk
  <1>2. e \in j + 1 - 1..Len(line)
    BY WordsEndIs
  <1> HIDE DEF e
  <1>3. e \in Int /\ j \in Int /\ n \in 0..Len(line) - j /\ j + 1 \in Int
    BY <1>1, <1>2
  <1>4. \A k \in j + 1..e : k \in 1..Len(line)
    BY <1>1, <1>2
  <1>5. /\ words \in Seq(Seq(Char)) /\ Len(words) = IF j + 1 <= e THEN e - (j + 1) + 1 ELSE 0
        /\ \A k \in 1..e - (j + 1) + 1 : words[k] = line[j + 1 + k - 1]
    <2> DEFINE S == Seq(Char)
    <2>1. \A k \in j + 1..e : line[k] \in S
      BY <1>1, <1>4
    <2> HIDE DEF S
    <2>2. /\ words \in Seq(S) /\ Len(words) = IF j + 1 <= e THEN e - (j + 1) + 1 ELSE 0
          /\ \A k \in 1..e - (j + 1) + 1 : words[k] = line[j + 1 + k - 1]
      BY <1>3, <2>1, SubSeqProperties
    <2>. QED BY <2>2 DEF S
  <1>6. e - (j + 1) + 1 = n /\ (IF j + 1 <= e THEN e - (j + 1) + 1 ELSE 0) = n
    BY <1>3
  <1>7. ASSUME NEW k \in 1..n
        PROVE  words[k] = line[j + k] /\ Len(words[k]) <= MAX_CMD_ARG_LEN - 1
    <2>1. j + 1 + k - 1 = j + k /\ j + k \in 1..Len(line)
      BY <1>1, <1>3
    <2>2. words[k] = line[j + k]
      BY <1>5, <1>6, <2>1
    <2>3. Len(line[j + k]) \in 1..MAX_CMD_ARG_LEN - 1
      BY <2>1, Zenon DEF LineOk
    <2>4. MAX_CMD_ARG_LEN \in Nat
      BY BootAssumption
    <2>5. Len(line[j + k]) <= MAX_CMD_ARG_LEN - 1
      BY <2>3, <2>4
    <2> HIDE DEF words
    <2>. QED BY <2>2, <2>5
  <1>. QED BY <1>3, <1>5, <1>6, <1>7 DEF e

LEMMA TakenFits ==
    ASSUME NEW line, LineOk(line), NEW j \in 1..Len(line), j + 1 \in 1..Len(line)
    PROVE  Taken(line, j + 1) \in Seq(Char) /\ Len(Taken(line, j + 1)) < CmdlineSize
  <1> DEFINE e == WordsEnd(line, j + 1)
             n == e - j
             words == SubSeq(line, j + 1, e)
             text == Joined(words)
             l == MAX_CMD_ARG_LEN
             m == MAX_CMD_ARG
  <1>1. /\ n \in 0..Len(line) - j /\ words \in Seq(Seq(Char)) /\ Len(words) = n
        /\ \A k \in 1..n : Len(words[k]) <= l - 1
    BY WordsAre
  <1>2. m \in Nat /\ l \in Nat /\ CmdlineSize = m * l
    BY BootAssumption
  <1>3. Len(line) \in 1..m - 1 /\ l - 1 >= 1
    <2>1. Len(line) \in 1..m - 1
      BY Zenon DEF LineOk
    <2>2. Len(line) >= 1 /\ 1 \in 1..Len(line)
      BY <1>2, <2>1
    <2>3. Len(line[1]) \in 1..l - 1
      BY <2>2, Zenon DEF LineOk
    <2>. QED BY <1>2, <2>1, <2>3
  <1> HIDE DEF words, text, m, l, n
  <1>4. Joined(words) \in Seq(Char) /\ Len(Joined(words)) <= Len(words) * l
    BY <1>1, <1>2, JoinedFits
  <1>5. n \in 0..m - 2
    BY <1>1, <1>2, <1>3
  <1>6. n * l < m * l
    <2>1. n * l \in Nat /\ m * l \in Nat /\ (m - n) * l \in Nat /\ m * l = n * l + (m - n) * l
      BY <1>2, <1>5
    <2>2. (m - n) * l > 0
      <3>1. m - n - 1 \in Nat /\ (m - n - 1) * l \in Nat /\ (m - n) * l = (m - n - 1) * l + l
        BY <1>2, <1>5
      <3> DEFINE x == (m - n - 1) * l
                 y == (m - n) * l
      <3>2. x \in Nat /\ y = x + l
        BY <3>1
      <3> HIDE DEF x, y
      <3>3. y > 0
        BY <1>2, <1>3, <3>2
      <3>. QED BY <3>3 DEF y
    <2> DEFINE x == n * l
               y == m * l
               z == (m - n) * l
    <2>3. x \in Nat /\ z > 0 /\ z \in Nat /\ y = x + z
      BY <2>1, <2>2
    <2> HIDE DEF x, y, z
    <2>4. x < y
      BY <2>3
    <2>. QED BY <2>4 DEF x, y
  <1>7. text \in Seq(Char) /\ Len(text) \in Nat /\ Len(text) < CmdlineSize
    <2>1. text \in Seq(Char) /\ Len(text) \in Nat
      BY <1>4, LenProperties DEF text
    <2> DEFINE x == n * l
               y == m * l
    <2>2. Len(text) <= x /\ x < y /\ x \in Nat /\ y \in Nat /\ CmdlineSize = y
      BY <1>1, <1>2, <1>4, <1>5, <1>6 DEF text
    <2> HIDE DEF x, y
    <2>. QED BY <2>1, <2>2
  <1>8. Front(text) \in Seq(Char) /\ Len(Front(text)) <= Len(text)
    <2>1. \A i \in 1..Len(text) - 1 : text[i] \in Char
      BY <1>7, ElementOfSeq
    <2>2. /\ SubSeq(text, 1, Len(text) - 1) \in Seq(Char)
          /\ Len(SubSeq(text, 1, Len(text) - 1)) = IF 1 <= Len(text) - 1 THEN Len(text) - 1 - 1 + 1 ELSE 0
      <3>1. Len(text) - 1 \in Int
        BY <1>7
      <3>. QED BY <2>1, <3>1, SubSeqProperties
    <2>. QED BY <1>7, <2>2 DEF Front
  <1>9. Len(Front(text)) < CmdlineSize
    <2>1. Len(Front(text)) \in Nat
      BY <1>8, LenProperties
    <2>2. CmdlineSize \in Nat
      BY <1>2
    <2>. QED BY <1>7, <1>8, <2>1, <2>2
  <1>10. Taken(line, j + 1) = IF e = Len(line) THEN Front(text) ELSE text
    BY DEF Taken, text, words
  <1>. QED BY <1>7, <1>8, <1>9, <1>10

LEMMA TakenIsAsked ==
    ASSUME NEW line, LineOk(line), NEW j \in 1..Len(line), j + 1 \in 1..Len(line)
    PROVE  Asked(line, j) = Taken(line, j + 1)
  <1> DEFINE e == WordsEnd(line, j + 1)
             n == e - j
             words == SubSeq(line, j + 1, e)
             reach == {k \in j + 1..Len(line) : \A i \in j + 1..k : line[i][1] # Hyphen}
             flat == [k \in 1..n |-> line[j + k] \o <<Blank>>]
  <1>1. /\ n \in 0..Len(line) - j /\ words \in Seq(Seq(Char)) /\ Len(words) = n
        /\ \A k \in 1..n : words[k] = line[j + k]
    BY WordsAre
  <1>2. Len(line) \in Nat
    BY LenProperties DEF LineOk
  <1>3. /\ e \in j..Len(line) /\ \A k \in j + 1..e : line[k][1] # Hyphen
        /\ e < Len(line) => line[e + 1][1] = Hyphen
    <2>1. j + 1 - 1 = j
      OBVIOUS
    <2>. QED BY <2>1, WordsEndIs
  <1>4. reach = j + 1..e
    <2> HIDE DEF e
    <2>1. ASSUME NEW k \in reach PROVE k \in j + 1..e
      <3>1. k \in j + 1..Len(line) /\ \A i \in j + 1..k : line[i][1] # Hyphen
        BY <2>1
      <3>2. CASE e < Len(line)
        <4>1. ~(e + 1 \in j + 1..k)
          BY <1>3, <3>1, <3>2
        <4>. QED BY <1>2, <1>3, <3>1, <4>1
      <3>3. CASE ~(e < Len(line))
        BY <1>2, <1>3, <3>1, <3>3
      <3>. QED BY <3>2, <3>3
    <2>2. ASSUME NEW k \in j + 1..e PROVE k \in reach
      <3>1. k \in j + 1..Len(line)
        BY <1>2, <1>3
      <3>2. \A i \in j + 1..k : i \in j + 1..e
        BY <1>2, <1>3
      <3>. QED BY <1>3, <3>1, <3>2
    <2>. QED BY <2>1, <2>2
  <1>5. Cardinality(reach) = n
    <2> HIDE DEF reach, e
    <2>1. e \in Int /\ j + 1 \in Int
      BY <1>2, <1>3
    <2>2. Cardinality(j + 1..e) = IF j + 1 > e THEN 0 ELSE e - (j + 1) + 1
      BY <2>1, FS_Interval
    <2>. QED BY <1>2, <1>3, <1>4, <2>2
  <1>6. Joined(words) = FlattenSeq(flat)
    <2>1. Joined(words) = FlattenSeq([k \in 1..n |-> words[k] \o <<Blank>>])
      <3> HIDE DEF n, words
      <3>1. Joined(words) = FlattenSeq([k \in 1..Len(words) |-> words[k] \o <<Blank>>])
        BY <1>1, JoinedIsFlat, Zenon
      <3>. QED BY <1>1, <3>1, Zenon
    <2>2. [k \in 1..n |-> words[k] \o <<Blank>>] = flat
      <3> HIDE DEF n, words
      <3>. QED BY <1>1
    <2>. QED BY <2>1, <2>2, Zenon
  <1>7. (n > 0 /\ j + n = Len(line)) <=> e = Len(line)
    <2> HIDE DEF e
    <2>. QED BY <1>1, <1>2, <1>3
  <1>8. Asked(line, j) = IF n > 0 /\ j + n = Len(line) THEN Front(FlattenSeq(flat)) ELSE FlattenSeq(flat)
    <2> HIDE DEF n
    <2>1. Cardinality({k \in j + 1..Len(line) : \A i \in j + 1..k : line[i][1] # Hyphen}) = n
      BY <1>5
    <2>. QED BY <2>1, Zenon DEF Asked
  <1>9. Taken(line, j + 1) = IF e = Len(line) THEN Front(Joined(words)) ELSE Joined(words)
    BY DEF Taken
  <1> HIDE DEF n, e, words, flat, reach
  <1>. QED BY <1>6, <1>7, <1>8, <1>9, Zenon

-----------------------------------------------------------------------------
\* Where an option stood in what was read so far: in the lines before, up to their -h, and
\* in the line that is read, up to the argument the loop is at.
Seen(ls, av, p, o) ==
    {q \in (1..Len(ls)) \X (1..MAX_CMD_ARG) :
        /\ q[2] <= (IF q[1] < Len(ls) \/ av = <<>> THEN Len(Read(ls[q[1]])) ELSE p - 1)
        /\ ls[q[1]][q[2]] = o}
IsLatest(q, places) == q \in places /\ \A r \in places : r[1] < q[1] \/ (r[1] = q[1] /\ r[2] <= q[2])
NumberIs(places, ls, n) ==
    \/ places = {} /\ n = Default
    \/ \E q \in places : IsLatest(q, places) /\ n = ToNumber(ls[q[1]][q[2] + 1])
CmdlineIs(places, ls, text) ==
    \/ places = {} /\ text = DefaultCmdline
    \/ \E q \in places : IsLatest(q, places) /\ text = Taken(ls[q[1]], q[2] + 1)

\* How much of a line is read.
LEMMA ReadIs ==
    ASSUME NEW line, LineOk(line), NEW p \in 1..Len(line) + 1,
           \A k \in 1..p - 1 : line[k] # OptH, p <= Len(line) => line[p] = OptH
    PROVE  Len(Read(line)) = p - 1
  <1> DEFINE stops == {k \in 1..Len(line) : line[k] = OptH} \cup {Len(line) + 1}
             m == Min(stops)
  <1>1. Len(line) \in Nat /\ line \in Seq(Seq(Char)) /\ \A k \in 1..Len(line) : line[k] \in Seq(Char)
    BY LenProperties DEF LineOk
  <1>2. stops \subseteq Nat /\ stops # {}
    BY <1>1
  <1>3. m \in stops /\ \A k \in stops : m <= k
    <2> HIDE DEF stops
    <2>. QED BY <1>2, LeastIsMin
  <1>4. p \in stops
    <2>1. CASE p <= Len(line)
      BY <1>1, <2>1
    <2>2. CASE ~(p <= Len(line))
      <3>1. p = Len(line) + 1
        BY <1>1, <2>2
      <3>. QED BY <3>1
    <2>. QED BY <2>1, <2>2
  <1>5. \A k \in stops : p <= k
    <2> SUFFICES ASSUME NEW k \in stops, ~(p <= k) PROVE FALSE
      OBVIOUS
    <2>1. k \in 1..p - 1 /\ k # Len(line) + 1
      BY <1>1
    <2>2. line[k] = OptH
      BY <2>1
    <2>. QED BY <2>1, <2>2
  <1>6. m = p
    <2> HIDE DEF m, stops
    <2>1. m <= p /\ p <= m /\ m \in Nat
      BY <1>2, <1>3, <1>4, <1>5
    <2>. QED BY <1>1, <2>1
  <1>7. Read(line) = SubSeq(line, 1, p - 1)
    BY <1>6 DEF Read
  <1>8. Len(SubSeq(line, 1, p - 1)) = IF 1 <= p - 1 THEN p - 1 - 1 + 1 ELSE 0
    <2> DEFINE S == Seq(Char)
               e == p - 1
    <2>1. e \in Int /\ 1 \in Int /\ \A k \in 1..e : line[k] \in S
      BY <1>1
    <2> HIDE DEF S, e
    <2>2. Len(SubSeq(line, 1, e)) = IF 1 <= e THEN e - 1 + 1 ELSE 0
      BY <2>1, SubSeqProperties
    <2>. QED BY <2>2 DEF e
  <1>. QED BY <1>1, <1>7, <1>8

LEMMA ReadIsPart ==
    ASSUME NEW line, LineOk(line)
    PROVE  Len(line) \in Nat /\ Len(Read(line)) \in Nat /\ Len(Read(line)) <= Len(line)
  <1> DEFINE stops == {k \in 1..Len(line) : line[k] = OptH} \cup {Len(line) + 1}
  <1>1. Len(line) \in Nat
    BY LenProperties DEF LineOk
  <1>2. PICK p \in stops : \A k \in stops : p <= k
    <2>1. stops \subseteq Nat /\ stops # {}
      BY <1>1
    <2> HIDE DEF stops
    <2>. QED BY <2>1, Least
  <1>3. p \in 1..Len(line) + 1 /\ (p <= Len(line) => line[p] = OptH)
    BY <1>1, <1>2
  <1>4. ASSUME NEW k \in 1..p - 1 PROVE line[k] # OptH
    <2>1. k \in 1..Len(line) /\ ~(p <= k)
      BY <1>1, <1>3
    <2>. QED BY <1>2, <2>1
  <1>5. Len(Read(line)) = p - 1
    BY <1>3, <1>4, ReadIs
  <1>. QED BY <1>1, <1>3, <1>5

\* The loop goes from the argument it is at to a later one.
LEMMA Advance ==
    ASSUME NEW ls, NEW av, Len(ls) \in Nat, Len(ls) > 0, av = ls[Len(ls)], av # <<>>, LineOk(av),
           NEW p \in 1..Len(av), NEW p2 \in p + 1..Len(av) + 1,
           NEW o, \A k \in p + 1..p2 - 1 : av[k] # o
    PROVE  /\ av[p] = o => /\ <<Len(ls), p>> \in Seen(ls, av, p2, o)
                           /\ IsLatest(<<Len(ls), p>>, Seen(ls, av, p2, o))
           /\ av[p] # o => Seen(ls, av, p2, o) = Seen(ls, av, p, o)
  <1> DEFINE n == Len(ls)
             A == Seen(ls, av, p, o)
             B == Seen(ls, av, p2, o)
  <1>1. Len(av) \in Nat /\ MAX_CMD_ARG \in Nat /\ Len(av) \in 1..MAX_CMD_ARG - 1
    BY BootAssumption, LenProperties DEF LineOk
  <1>2. ASSUME NEW q \in (1..n) \X (1..MAX_CMD_ARG)
        PROVE  /\ q \in A <=> /\ q[2] <= (IF q[1] < n THEN Len(Read(ls[q[1]])) ELSE p - 1)
                              /\ ls[q[1]][q[2]] = o
               /\ q \in B <=> /\ q[2] <= (IF q[1] < n THEN Len(Read(ls[q[1]])) ELSE p2 - 1)
                              /\ ls[q[1]][q[2]] = o
    BY Zenon DEF Seen
  <1>3. A \subseteq (1..n) \X (1..MAX_CMD_ARG) /\ B \subseteq (1..n) \X (1..MAX_CMD_ARG)
    BY DEF Seen
  <1> HIDE DEF A, B
  <1>4. ASSUME NEW q \in B, q[1] = n PROVE q[2] <= p
    <2>1. q[1] \in 1..n /\ q[2] \in 1..MAX_CMD_ARG /\ ~(n < n)
      <3>1. q \in (1..n) \X (1..MAX_CMD_ARG)
        BY <1>3, <1>4, Zenon
      <3>2. q[1] \in 1..n /\ q[2] \in 1..MAX_CMD_ARG
        BY <3>1
      <3>. QED BY <3>2
    <2>2. q[2] <= p2 - 1 /\ av[q[2]] = o
      BY <1>2, <1>3, <1>4, <2>1
    <2> DEFINE k == q[2]
    <2>3. k \in Nat /\ k <= p2 - 1 /\ ~(k \in p + 1..p2 - 1)
      BY <1>1, <2>1, <2>2
    <2> HIDE DEF k
    <2>4. k <= p
      BY <1>1, <2>3
    <2>. QED BY <2>4 DEF k
  <1>5. ASSUME av[p] = o PROVE <<n, p>> \in B /\ IsLatest(<<n, p>>, B)
    <2>1. PICK q : q = <<n, p>>
      OBVIOUS
    <2>2. q \in (1..n) \X (1..MAX_CMD_ARG) /\ q[1] = n /\ q[2] = p
      BY <1>1, <2>1
    <2>3. p <= p2 - 1 /\ ~(n < n) /\ ls[n][p] = o
      BY <1>1, <1>5
    <2>4. q \in B
      BY <1>2, <2>2, <2>3
    <2>5. ASSUME NEW r \in B PROVE r[1] < n \/ (r[1] = n /\ r[2] <= p)
      <3>1. r[1] \in 1..n
        BY <1>3
      <3>. QED BY <1>4, <3>1
    <2>. QED BY <2>1, <2>2, <2>4, <2>5 DEF IsLatest
  <1>6. ASSUME av[p] # o PROVE A = B
    <2>1. ASSUME NEW q \in (1..n) \X (1..MAX_CMD_ARG) PROVE q \in A <=> q \in B
      <3>1. q[1] \in 1..n /\ q[2] \in 1..MAX_CMD_ARG
        BY <2>1
      <3>2. CASE q[1] < n
        BY <1>2, <2>1, <3>2
      <3>3. CASE q[1] = n
        <4>1. ~(n < n)
          OBVIOUS
        <4>2. q \in A <=> q[2] <= p - 1 /\ av[q[2]] = o
          BY <1>2, <2>1, <3>3, <4>1
        <4>3. q \in B <=> q[2] <= p2 - 1 /\ av[q[2]] = o
          BY <1>2, <2>1, <3>3, <4>1
        <4>4. q \in B => q[2] <= p
          BY <1>4, <3>3
        <4>5. q \in B => q[2] # p
          BY <1>6, <4>3
        <4> DEFINE k == q[2]
        <4>6. k \in Nat /\ (q \in A <=> k <= p - 1 /\ av[k] = o) /\ (q \in B <=> k <= p2 - 1 /\ av[k] = o)
              /\ (q \in B => k <= p /\ k # p)
          BY <1>1, <3>1, <4>2, <4>3, <4>4, <4>5
        <4> HIDE DEF k
        <4>7. k <= p - 1 => k <= p2 - 1
          <5>1. p \in Nat /\ p2 \in Nat /\ p < p2
            BY <1>1
          <5>. QED BY <4>6, <5>1
        <4>8. k <= p /\ k # p => k <= p - 1
          BY <1>1, <4>6
        <4>. QED BY <4>6, <4>7, <4>8, Zenon
      <3>. QED BY <3>1, <3>2, <3>3
    <2>. QED BY <1>3, <2>1
  <1>. QED BY <1>5, <1>6 DEF A, B

\* A line is entered, with nothing of it read.
LEMMA LineBegins ==
    ASSUME NEW ls, NEW S, ls \in Seq(S), NEW line \in S, line # <<>>, NEW p, NEW o
    PROVE  Seen(Append(ls, line), line, 1, o) = Seen(ls, <<>>, p, o)
  <1> DEFINE n == Len(ls)
             l2 == Append(ls, line)
             A == Seen(ls, <<>>, p, o)
             B == Seen(l2, line, 1, o)
  <1>1. n \in Nat /\ Len(l2) = n + 1 /\ \A i \in 1..n : l2[i] = ls[i]
    BY LenProperties, AppendProperties
  <1>2. ASSUME NEW q \in B PROVE q \in A
    <2>1. /\ q \in (1..n + 1) \X (1..MAX_CMD_ARG)
          /\ q[2] <= (IF q[1] < n + 1 THEN Len(Read(l2[q[1]])) ELSE 1 - 1)
          /\ l2[q[1]][q[2]] = o
      BY <1>1, <1>2, Zenon DEF Seen
    <2> HIDE DEF l2
    <2>2. MAX_CMD_ARG \in Nat /\ q[2] \in 1..MAX_CMD_ARG /\ q[1] \in 1..n + 1
      BY <2>1, BootAssumption
    <2>3. q[1] < n + 1
      BY <2>1, <2>2
    <2>4. q[1] \in 1..n
      BY <1>1, <2>2, <2>3
    <2>5. l2[q[1]] = ls[q[1]] /\ q \in (1..n) \X (1..MAX_CMD_ARG)
      BY <1>1, <2>1, <2>4
    <2>. QED BY <2>1, <2>3, <2>5 DEF Seen
  <1>3. ASSUME NEW q \in A PROVE q \in B
    <2>1. /\ q \in (1..n) \X (1..MAX_CMD_ARG)
          /\ q[2] <= Len(Read(ls[q[1]])) /\ ls[q[1]][q[2]] = o
      BY <1>3, Zenon DEF Seen
    <2> HIDE DEF l2
    <2>2. q[1] \in 1..n /\ q[1] < n + 1 /\ l2[q[1]] = ls[q[1]] /\ q \in (1..n + 1) \X (1..MAX_CMD_ARG)
      BY <1>1, <2>1
    <2>. QED BY <1>1, <2>1, <2>2 DEF Seen
  <1> HIDE DEF A, B
  <1>4. \A q : q \in A <=> q \in B
    BY <1>2, <1>3
  <1>5. A = B
    BY <1>4
  <1>. QED BY <1>5 DEF A, B

\* A line is left, at its end or at -h.
LEMMA LineEnds ==
    ASSUME NEW ls, NEW av, Len(ls) \in Nat, Len(ls) > 0, av = ls[Len(ls)], av # <<>>, NEW p, NEW p2,
           Len(Read(av)) = p - 1, NEW o
    PROVE  Seen(ls, <<>>, p2, o) = Seen(ls, av, p, o)
  <1>1. ASSUME NEW q \in (1..Len(ls)) \X (1..MAX_CMD_ARG)
        PROVE  Len(Read(ls[q[1]])) = IF q[1] < Len(ls) \/ av = <<>> THEN Len(Read(ls[q[1]])) ELSE p - 1
    <2>1. q[1] \in 1..Len(ls)
      OBVIOUS
    <2>2. CASE q[1] < Len(ls)
      BY <2>2
    <2>3. CASE q[1] = Len(ls)
      BY <2>3
    <2>. QED BY <2>1, <2>2, <2>3
  <1>. QED BY <1>1 DEF Seen

-----------------------------------------------------------------------------
\* The tags in memory, with a text in the second.
NoneAt(n) == 20 + 4 * ((n + 11) \div 4)
LaidOut(m, text) ==
    /\ m[0] = 5 /\ m[1] = 0
    /\ m[4] = 1 /\ m[5] = 0 /\ m[6] = 65 /\ m[7] = 84
    /\ Size(m, 20) = (Len(text) + 11) \div 4
    /\ m[24] = 9 /\ m[25] = 0 /\ m[26] = 65 /\ m[27] = 84
    /\ \A k \in 1..Len(text) : m[27 + k] = text[k]
    /\ m[28 + Len(text)] = 0
    /\ \A k \in 0..7 : m[NoneAt(Len(text)) + k] = 0

IsPut(w, m, top, a, n, bytes) ==
    /\ DOMAIN w = 0..top
    /\ \A k \in 1..n : w[a + k - 1] = bytes[k]
    /\ \A b \in 0..a - 1 : w[b] = m[b]
LEMMA PutIs ==
    ASSUME NEW m, NEW top \in Nat, DOMAIN m = 0..top, NEW a \in 0..top, NEW n \in Nat, NEW bytes, Len(bytes) = n,
           a + n <= top + 1
    PROVE  IsPut(Put(m, a, bytes), m, top, a, n, bytes)
  <1> DEFINE w == Put(m, a, bytes)
  <1>1. w = [b \in 0..top |-> IF b \in a..a + n - 1 THEN bytes[b - a + 1] ELSE m[b]]
    BY DEF Put
  <1> HIDE DEF w
  <1>2. DOMAIN w = 0..top
    BY <1>1
  <1>3. ASSUME NEW k \in 1..n PROVE w[a + k - 1] = bytes[k]
    <2>1. PICK b : b = a + k - 1
      OBVIOUS
    <2>2. b \in 0..top /\ b \in a..a + n - 1 /\ b - a + 1 = k
      BY <2>1
    <2>3. w[b] = bytes[b - a + 1]
      BY <1>1, <2>2
    <2>. QED BY <2>1, <2>2, <2>3
  <1>4. ASSUME NEW b \in 0..a - 1 PROVE w[b] = m[b]
    <2>1. b \in 0..top /\ ~(b \in a..a + n - 1)
      OBVIOUS
    <2>. QED BY <1>1, <2>1
  <1>. QED BY <1>2, <1>3, <1>4 DEF IsPut, w

\* The bytes of the tags.
Behind(c, a, m, b, n) ==
    /\ c \in Seq(Nat) /\ Len(c) = m + n
    /\ \A i \in 1..m : c[i] = a[i]
    /\ \A i \in 1..n : c[m + i] = b[i]
LEMMA OneBehind ==
    ASSUME NEW a \in Seq(Nat), NEW b \in Seq(Nat), NEW m, NEW n, Len(a) = m, Len(b) = n
    PROVE  Behind(a \o b, a, m, b, n)
  <1> DEFINE c == a \o b
  <1>1. m \in Nat /\ n \in Nat
    BY LenProperties
  <1>2. c \in Seq(Nat) /\ Len(c) = m + n /\ \A i \in 1..m + n : c[i] = IF i <= m THEN a[i] ELSE b[i - m]
    BY ConcatProperties
  <1> HIDE DEF c
  <1>3. ASSUME NEW i \in 1..m PROVE c[i] = a[i]
    <2>1. i \in 1..m + n /\ i <= m
      BY <1>1
    <2>. QED BY <1>2, <2>1
  <1>4. ASSUME NEW i \in 1..n PROVE c[m + i] = b[i]
    <2>1. PICK k : k = m + i
      OBVIOUS
    <2>2. k \in 1..m + n /\ ~(k <= m) /\ k - m = i
      BY <1>1, <2>1
    <2>. QED BY <1>2, <2>1, <2>2
  <1>5. Behind(c, a, m, b, n)
    BY <1>2, <1>3, <1>4 DEF Behind
  <1>. QED BY <1>5 DEF c

LEMMA WordsAreBytes ==
    /\ \A s \in Nat : Word(s) \in Seq(Nat) /\ Len(Word(s)) = 4 /\ Word(s)[1] = s % 256 /\ Word(s)[2] = s \div 256
    /\ Word(0)[1] = 0 /\ Word(0)[2] = 0 /\ Word(0)[3] = 0 /\ Word(0)[4] = 0
    /\ ATAG_CORE \in Seq(Nat) /\ Len(ATAG_CORE) = 4 /\ ATAG_NONE \in Seq(Nat) /\ Len(ATAG_NONE) = 4
    /\ ATAG_CMDLINE \in Seq(Nat) /\ Len(ATAG_CMDLINE) = 4
  <1>1. ASSUME NEW s \in Nat
        PROVE  Word(s) \in Seq(Nat) /\ Len(Word(s)) = 4 /\ Word(s)[1] = s % 256 /\ Word(s)[2] = s \div 256
    <2> DEFINE x == s % 256
               y == s \div 256
    <2>1. x \in Nat /\ y \in Nat
      OBVIOUS
    <2> HIDE DEF x, y
    <2>2. Word(s) = <<x, y, 0, 0>>
      BY DEF Word, x, y
    <2>3. Word(s) \in Seq(Nat) /\ Len(Word(s)) = 4 /\ Word(s)[1] = x /\ Word(s)[2] = y
      BY <2>1, <2>2
    <2>. QED BY <2>3 DEF x, y
  <1>2. Word(0)[1] = 0 /\ Word(0)[2] = 0 /\ Word(0)[3] = 0 /\ Word(0)[4] = 0
    BY DEF Word
  <1>3. /\ ATAG_CORE \in Seq(Nat) /\ Len(ATAG_CORE) = 4 /\ ATAG_NONE \in Seq(Nat) /\ Len(ATAG_NONE) = 4
        /\ ATAG_CMDLINE \in Seq(Nat) /\ Len(ATAG_CMDLINE) = 4
    BY DEF ATAG_CORE, ATAG_NONE, ATAG_CMDLINE
  <1>. QED BY <1>1, <1>2, <1>3

CoreBytes(bytes) ==
    /\ Len(bytes) = 20 /\ bytes[1] = 5 /\ bytes[2] = 0
    /\ bytes[5] = 1 /\ bytes[6] = 0 /\ bytes[7] = 65 /\ bytes[8] = 84
LEMMA CoreIs == CoreBytes(Word(5) \o ATAG_CORE \o Word(0) \o Word(0) \o Word(0))
  <1> DEFINE c1 == Word(5) \o ATAG_CORE
             c2 == c1 \o Word(0)
             c3 == c2 \o Word(0)
             c4 == c3 \o Word(0)
  <1>1. /\ Word(5) \in Seq(Nat) /\ Len(Word(5)) = 4 /\ Word(5)[1] = 5 /\ Word(5)[2] = 0
        /\ Word(0) \in Seq(Nat) /\ Len(Word(0)) = 4
    <2>1. 5 % 256 = 5 /\ 5 \div 256 = 0 /\ 5 \in Nat /\ 0 \in Nat
      OBVIOUS
    <2>2. Word(5) \in Seq(Nat) /\ Len(Word(5)) = 4 /\ Word(5)[1] = 5 % 256 /\ Word(5)[2] = 5 \div 256
      BY <2>1, WordsAreBytes, Zenon
    <2>3. Word(0) \in Seq(Nat) /\ Len(Word(0)) = 4
      BY <2>1, WordsAreBytes, Zenon
    <2>. QED BY <2>1, <2>2, <2>3, Zenon
  <1>2. ATAG_CORE[1] = 1 /\ ATAG_CORE[2] = 0 /\ ATAG_CORE[3] = 65 /\ ATAG_CORE[4] = 84
    BY DEF ATAG_CORE
  <1>3. Behind(c1, Word(5), 4, ATAG_CORE, 4)
    <2>1. ATAG_CORE \in Seq(Nat) /\ Len(ATAG_CORE) = 4
      BY WordsAreBytes, Zenon
    <2>. QED BY <1>1, <2>1, OneBehind
  <1> HIDE DEF c1
  <1>4. c1 \in Seq(Nat) /\ Len(c1) = 8
    BY <1>3 DEF Behind
  <1>5. Behind(c2, c1, 8, Word(0), 4)
    BY <1>1, <1>4, OneBehind
  <1> HIDE DEF c2
  <1>6. c2 \in Seq(Nat) /\ Len(c2) = 12
    BY <1>5 DEF Behind
  <1>7. Behind(c3, c2, 12, Word(0), 4)
    BY <1>1, <1>6, OneBehind
  <1> HIDE DEF c3
  <1>8. c3 \in Seq(Nat) /\ Len(c3) = 16
    BY <1>7 DEF Behind
  <1>9. Behind(c4, c3, 16, Word(0), 4)
    BY <1>1, <1>8, OneBehind
  <1> HIDE DEF c4
  <1>10. Len(c1) = 8 /\ c1[1] = 5 /\ c1[2] = 0 /\ \A i \in 1..4 : c1[4 + i] = ATAG_CORE[i]
    <2>1. (\A i \in 1..4 : c1[i] = Word(5)[i]) /\ \A i \in 1..4 : c1[4 + i] = ATAG_CORE[i]
      BY <1>3, Zenon DEF Behind
    <2>2. c1[1] = Word(5)[1] /\ c1[2] = Word(5)[2]
      BY <2>1
    <2>. QED BY <1>1, <1>4, <2>1, <2>2, Zenon
  <1>11. c1[5] = 1 /\ c1[6] = 0 /\ c1[7] = 65 /\ c1[8] = 84
    BY <1>2, <1>10
  <1>12. Len(c2) = 12 /\ \A i \in 1..8 : c2[i] = c1[i]
    BY <1>5, <1>6 DEF Behind
  <1>13. Len(c3) = 16 /\ \A i \in 1..12 : c3[i] = c2[i]
    BY <1>7, <1>8 DEF Behind
  <1>14. Len(c4) = 20 /\ \A i \in 1..16 : c4[i] = c3[i]
    BY <1>9 DEF Behind
  <1>15. CoreBytes(c4)
    <2>1. \A i \in 1..8 : c4[i] = c1[i]
      BY <1>12, <1>13, <1>14
    <2>. QED BY <1>10, <1>11, <1>14, <2>1 DEF CoreBytes
  <1>. QED BY <1>15, Zenon DEF c1, c2, c3, c4

ZeroBytes(bytes) == Len(bytes) = 8 /\ \A k \in 1..8 : bytes[k] = 0
LEMMA NoneIs == ZeroBytes(Word(0) \o ATAG_NONE)
  <1> DEFINE c == Word(0) \o ATAG_NONE
  <1>1. Word(0) \in Seq(Nat) /\ Len(Word(0)) = 4 /\ \A i \in 1..4 : Word(0)[i] = 0
    <2>1. Word(0)[1] = 0 /\ Word(0)[2] = 0 /\ Word(0)[3] = 0 /\ Word(0)[4] = 0
      BY WordsAreBytes, Zenon
    <2>2. \A i \in 1..4 : i = 1 \/ i = 2 \/ i = 3 \/ i = 4
      OBVIOUS
    <2>3. 0 \in Nat
      OBVIOUS
    <2>4. Word(0) \in Seq(Nat) /\ Len(Word(0)) = 4
      BY <2>3, WordsAreBytes, Zenon
    <2>. QED BY <2>1, <2>2, <2>4, Zenon
  <1>2. \A i \in 1..4 : ATAG_NONE[i] = 0
    BY DEF ATAG_NONE
  <1>3. Behind(c, Word(0), 4, ATAG_NONE, 4)
    <2>1. ATAG_NONE \in Seq(Nat) /\ Len(ATAG_NONE) = 4
      BY WordsAreBytes, Zenon
    <2>. QED BY <1>1, <2>1, OneBehind
  <1> HIDE DEF c
  <1>4. Len(c) = 8 /\ (\A i \in 1..4 : c[i] = 0) /\ \A i \in 1..4 : c[4 + i] = 0
    BY <1>1, <1>2, <1>3 DEF Behind
  <1>5. ASSUME NEW k \in 1..8 PROVE c[k] = 0
    <2>1. CASE k <= 4
      BY <1>4, <2>1
    <2>2. CASE k > 4
      <3>1. PICK i \in 1..4 : k = 4 + i
        <4>1. k - 4 \in 1..4 /\ k = 4 + (k - 4)
          BY <2>2
        <4>. QED BY <4>1
      <3>. QED BY <1>4, <3>1
    <2>. QED BY <2>1, <2>2
  <1>6. ZeroBytes(c)
    BY <1>4, <1>5 DEF ZeroBytes
  <1>. QED BY <1>6 DEF c

TextBytes(bytes, s, text) ==
    /\ Len(bytes) = 9 + Len(text) /\ bytes[1] = s % 256 /\ bytes[2] = s \div 256
    /\ bytes[5] = 9 /\ bytes[6] = 0 /\ bytes[7] = 65 /\ bytes[8] = 84
    /\ \A k \in 1..Len(text) : bytes[8 + k] = text[k]
    /\ bytes[9 + Len(text)] = 0
LEMMA TextIsPut ==
    ASSUME NEW text \in Seq(Char), NEW s \in Nat
    PROVE  TextBytes(Word(s) \o ATAG_CMDLINE \o text \o <<0>>, s, text)
  <1> DEFINE l == Len(text)
             x == s % 256
             y == s \div 256
             head == Word(s) \o ATAG_CMDLINE
             long == head \o text
             all == long \o <<0>>
  <1>1. l \in Nat /\ text \in Seq(Nat)
    <2>1. Char \subseteq Nat
      BY DEF Char
    <2>2. text \in Seq(Nat)
      BY <2>1, SeqMonotonic
    <2>. QED BY <2>2, LenProperties
  <1>2. Word(s) \in Seq(Nat) /\ Len(Word(s)) = 4 /\ Word(s)[1] = x /\ Word(s)[2] = y
    BY WordsAreBytes
  <1>3. ATAG_CMDLINE[1] = 9 /\ ATAG_CMDLINE[2] = 0 /\ ATAG_CMDLINE[3] = 65 /\ ATAG_CMDLINE[4] = 84
    BY DEF ATAG_CMDLINE
  <1>4. Behind(head, Word(s), 4, ATAG_CMDLINE, 4)
    <2>1. ATAG_CMDLINE \in Seq(Nat) /\ Len(ATAG_CMDLINE) = 4
      BY WordsAreBytes, Zenon
    <2>2. Word(s) \in Seq(Nat) /\ Len(Word(s)) = 4
      BY <1>2
    <2>. QED BY <2>1, <2>2, OneBehind
  <1> HIDE DEF head, l, x, y
  <1>5. /\ head \in Seq(Nat) /\ Len(head) = 8 /\ head[1] = x /\ head[2] = y
        /\ \A i \in 1..4 : head[4 + i] = ATAG_CMDLINE[i]
    BY <1>2, <1>4 DEF Behind
  <1>6. head[5] = 9 /\ head[6] = 0 /\ head[7] = 65 /\ head[8] = 84
    BY <1>3, <1>5
  <1>7. Behind(long, head, 8, text, l)
    BY <1>1, <1>5, OneBehind DEF l
  <1> HIDE DEF long
  <1>8. /\ long \in Seq(Nat) /\ Len(long) = 8 + l /\ \A i \in 1..8 : long[i] = head[i]
        /\ \A i \in 1..l : long[8 + i] = text[i]
    BY <1>7 DEF Behind
  <1>9. <<0>> \in Seq(Nat) /\ Len(<<0>>) = 1 /\ <<0>>[1] = 0
    OBVIOUS
  <1>10. Behind(all, long, 8 + l, <<0>>, 1)
    BY <1>8, <1>9, OneBehind
  <1> HIDE DEF all
  <1>11. /\ Len(all) = 8 + l + 1 /\ \A i \in 1..8 + l : all[i] = long[i]
         /\ all[8 + l + 1] = 0
    BY <1>9, <1>10 DEF Behind
  <1>12. ASSUME NEW i \in 1..8 PROVE all[i] = head[i]
    <2>1. i \in 1..8 + l
      BY <1>1
    <2>. QED BY <1>8, <1>11, <2>1
  <1>13. ASSUME NEW k \in 1..l PROVE all[8 + k] = text[k]
    <2>1. PICK i : i = 8 + k
      OBVIOUS
    <2>2. i \in 1..8 + l
      BY <1>1, <2>1
    <2>3. all[i] = long[i] /\ long[8 + k] = text[k]
      BY <1>8, <1>11, <2>2
    <2>. QED BY <2>1, <2>3
  <1>14. 8 + l + 1 = 9 + l
    BY <1>1
  <1>15. all[1] = x /\ all[2] = y /\ all[5] = 9 /\ all[6] = 0 /\ all[7] = 65 /\ all[8] = 84
    BY <1>5, <1>6, <1>12
  <1>16. TextBytes(all, s, text)
    <2>1. Len(all) = 9 + l /\ all[9 + l] = 0
      BY <1>11, <1>14
    <2>. QED BY <1>13, <1>15, <2>1, Zenon DEF TextBytes, l, x, y
  <1>. QED BY <1>16, Zenon DEF all, long, head

\* The command line without blanks in front is a text that is no longer.
LEMMA TrimmedIs ==
    ASSUME NEW text \in Seq(Char)
    PROVE  /\ WithoutLeadingBlanks(text) \in Seq(Char)
           /\ Len(WithoutLeadingBlanks(text)) <= Len(text)
  <1> DEFINE found == {i \in 1..Len(text) : text[i] # Blank}
             begin == IF found # {} THEN Min(found) ELSE 0
             rest == SubSeq(text, begin, Len(text))
  <1>1. Len(text) \in Nat /\ \A i \in 1..Len(text) : text[i] \in Char
    BY LenProperties, ElementOfSeq
  <1>2. WithoutLeadingBlanks(text) = IF begin = 0 THEN <<>> ELSE rest
    BY DEF WithoutLeadingBlanks, SelectInSeq
  <1>3. CASE found = {}
    <2>1. WithoutLeadingBlanks(text) = <<>>
      BY <1>2, <1>3
    <2>. QED BY <1>1, <2>1
  <1>4. CASE found # {}
    <2>1. begin \in found
      <3>1. found \subseteq Nat
        OBVIOUS
      <3>2. Min(found) \in found
        <4> HIDE DEF found
        <4>. QED BY <1>4, <3>1, LeastIsMin
      <3>. QED BY <1>4, <3>2
    <2>2. begin \in 1..Len(text)
      BY <2>1
    <2> HIDE DEF begin, found
    <2>3. rest \in Seq(Char) /\ Len(rest) = IF begin <= Len(text) THEN Len(text) - begin + 1 ELSE 0
      BY <1>1, <2>2, SubSeqProperties
    <2> HIDE DEF rest
    <2>. QED BY <1>1, <1>2, <2>2, <2>3
  <1>. QED BY <1>3, <1>4

LEMMA NoneIsBehind ==
    ASSUME NEW n \in Nat
    PROVE  /\ NoneAt(n) \in Nat /\ 28 + n <= NoneAt(n) /\ NoneAt(n) <= 31 + n
           /\ (8 + n + 3) \div 4 = (n + 11) \div 4 /\ (n + 11) \div 4 \in Nat
           /\ NoneAt(n) = 20 + 4 * ((n + 11) \div 4)
  BY DEF NoneAt

LEMMA TagsAre ==
    ASSUME DOMAIN tags = Memory, cmdline \in Seq(Char), Len(cmdline) < CmdlineSize
    PROVE  LaidOut(WithTags, WithoutLeadingBlanks(cmdline))
  <1> DEFINE top == 4 * 10 + CmdlineSize
             c == WithoutLeadingBlanks(cmdline)
             l == Len(c)
             s == (8 + l + 3) \div 4
             bytes == Word(s) \o ATAG_CMDLINE \o c \o <<0>>
             begin == Word(5) \o ATAG_CORE \o Word(0) \o Word(0) \o Word(0)
             last == Word(0) \o ATAG_NONE
             core == Put(tags, 0, begin)
             text == Put(core, 20, bytes)
             none == NoneAt(l)
             m == Put(text, none, last)
  <1>1. c \in Seq(Char) /\ l \in Nat /\ l < CmdlineSize /\ CmdlineSize \in Nat /\ top \in Nat
    <2>1. c \in Seq(Char) /\ l <= Len(cmdline)
      BY TrimmedIs
    <2>2. l \in Nat /\ Len(cmdline) \in Nat
      BY <2>1, LenProperties
    <2>3. CmdlineSize \in Nat
      <3>1. MAX_CMD_ARG \in Nat /\ MAX_CMD_ARG_LEN \in Nat /\ CmdlineSize = MAX_CMD_ARG * MAX_CMD_ARG_LEN
        BY BootAssumption
      <3>. QED BY <3>1
    <2> HIDE DEF c, l
    <2>. QED BY <2>1, <2>2, <2>3
  <1>2. DOMAIN tags = 0..top
    BY DEF Memory
  <1>3. top = 40 + CmdlineSize
    OBVIOUS
  <1> HIDE DEF c, l, top
  <1>4. /\ none \in Nat /\ 28 + l <= none /\ none <= 31 + l
        /\ s = (l + 11) \div 4 /\ s \in Nat /\ none = 20 + 4 * s
    BY <1>1, NoneIsBehind
  <1>5. CoreBytes(begin) /\ ZeroBytes(last) /\ TextBytes(bytes, s, c)
    BY <1>1, <1>4, CoreIs, NoneIs, TextIsPut
  <1>6. WithTags = m
    <2>1. atag_core_setup(tags) = core /\ atag_cmdline_setup(core, 20) = text
          /\ atag_none_setup(text, none) = m
      BY DEF atag_core_setup, atag_cmdline_setup, atag_none_setup, c, l
    <2>2. Len(begin) = 20 /\ begin[1] = 5 /\ begin[2] = 0
      BY <1>5, Zenon DEF CoreBytes
    <2>3. Len(bytes) = 9 + l /\ bytes[1] = s % 256 /\ bytes[2] = s \div 256
      BY <1>5, Zenon DEF TextBytes, l
    <2> HIDE DEF s, bytes, begin, last, none
    <2>4. DOMAIN core = 0..top /\ core[0] = 5 /\ core[1] = 0
      <3>1. 0 \in 0..top /\ 0 + 20 <= top + 1 /\ 20 \in Nat
        BY <1>1, <1>3
      <3>2. DOMAIN core = 0..top /\ \A k \in 1..20 : core[0 + k - 1] = begin[k]
        <4>1. IsPut(core, tags, top, 0, 20, begin)
          BY <1>1, <1>2, <2>2, <3>1, PutIs, Zenon
        <4>. QED BY <4>1, Zenon DEF IsPut
      <3> HIDE DEF core
      <3>3. core[0 + 1 - 1] = begin[1] /\ core[0 + 2 - 1] = begin[2]
        BY <3>2
      <3>. QED BY <2>2, <3>2, <3>3
    <2>5. tag_next(core, 0) = 20
      <3> HIDE DEF core
      <3>. QED BY <2>4 DEF tag_next, Size
    <2> HIDE DEF core
    <2>6. text[0] = 5 /\ text[1] = 0 /\ text[20] = s % 256 /\ text[21] = s \div 256
      <3>1. 20 \in 0..top /\ 20 + (9 + l) <= top + 1 /\ 9 + l \in Nat /\ 1 \in 1..9 + l /\ 2 \in 1..9 + l
        BY <1>1, <1>3
      <3>2. DOMAIN core = 0..top /\ Len(bytes) = 9 + l /\ top \in Nat
        BY <1>1, <2>3, <2>4
      <3>3. IsPut(text, core, top, 20, 9 + l, bytes)
        BY <3>1, <3>2, PutIs, Zenon
      <3> HIDE DEF text
      <3>4. text[20 + 1 - 1] = bytes[1] /\ text[20 + 2 - 1] = bytes[2]
        BY <3>1, <3>3, Zenon DEF IsPut
      <3>5. 0 \in 0..20 - 1 /\ 1 \in 0..20 - 1 /\ 20 + 1 - 1 = 20 /\ 20 + 2 - 1 = 21
        OBVIOUS
      <3>6. text[0] = core[0] /\ text[1] = core[1]
        BY <3>3, <3>5, Zenon DEF IsPut
      <3>. QED BY <2>3, <2>4, <3>4, <3>5, <3>6, Zenon
    <2> HIDE DEF text
    <2>7. tag_next(text, 0) = 20
      BY <2>6 DEF tag_next, Size
    <2>8. tag_next(text, 20) = none
      <3>1. (s % 256) + 256 * (s \div 256) = s
        BY <1>4
      <3>2. Size(text, 20) = s
        <4>1. 20 + 1 = 21
          OBVIOUS
        <4>. QED BY <2>6, <3>1, <4>1, Zenon DEF Size
      <3>. QED BY <1>4, <3>2 DEF tag_next
    <2>. QED BY <2>1, <2>5, <2>7, <2>8, Zenon DEF WithTags
  <1>7. /\ Len(begin) = 20 /\ begin[1] = 5 /\ begin[2] = 0
        /\ begin[5] = 1 /\ begin[6] = 0 /\ begin[7] = 65 /\ begin[8] = 84
    BY <1>5, Zenon DEF CoreBytes
  <1>8. /\ Len(bytes) = 9 + l /\ bytes[1] = s % 256 /\ bytes[2] = s \div 256
        /\ bytes[5] = 9 /\ bytes[6] = 0 /\ bytes[7] = 65 /\ bytes[8] = 84
        /\ \A k \in 1..l : bytes[8 + k] = c[k]
        /\ bytes[9 + l] = 0
    BY <1>5, Zenon DEF TextBytes, l
  <1>9. Len(last) = 8 /\ \A k \in 1..8 : last[k] = 0
    BY <1>5, Zenon DEF ZeroBytes
  <1> HIDE DEF s, bytes, begin, last, none
  <1>10. DOMAIN core = 0..top /\ \A k \in 1..20 : core[0 + k - 1] = begin[k]
    <2>1. 0 \in 0..top /\ 0 + 20 <= top + 1 /\ 20 \in Nat
      BY <1>1, <1>3
    <2>2. IsPut(core, tags, top, 0, 20, begin)
      BY <1>1, <1>2, <1>7, <2>1, PutIs, Zenon
    <2>. QED BY <2>2, Zenon DEF IsPut
  <1> HIDE DEF core
  <1>11. /\ DOMAIN text = 0..top
         /\ \A k \in 1..9 + l : text[20 + k - 1] = bytes[k]
         /\ \A b \in 0..20 - 1 : text[b] = core[b]
    <2>1. 20 \in 0..top /\ 20 + (9 + l) <= top + 1 /\ 9 + l \in Nat
      BY <1>1, <1>3
    <2>3. Len(bytes) = 9 + l /\ DOMAIN core = 0..top /\ top \in Nat
      BY <1>1, <1>8, <1>10, Zenon
    <2>2. IsPut(text, core, top, 20, 9 + l, bytes)
      BY <2>1, <2>3, PutIs, Zenon
    <2>. QED BY <2>2, Zenon DEF IsPut
  <1> HIDE DEF text
  <1>12. /\ \A k \in 1..8 : m[none + k - 1] = last[k]
         /\ \A b \in 0..none - 1 : m[b] = text[b]
    <2>1. none \in 0..top /\ none + 8 <= top + 1 /\ 8 \in Nat
      BY <1>1, <1>3, <1>4
    <2>2. IsPut(m, text, top, none, 8, last)
      BY <1>1, <1>9, <1>11, <2>1, PutIs, Zenon
    <2>. QED BY <2>2, Zenon DEF IsPut
  <1> HIDE DEF m
  <1>13. \A b \in 0..27 : m[b] = text[b]
    BY <1>1, <1>4, <1>12
  <1>14. \A k \in 1..20 : m[k - 1] = begin[k]
    <2> SUFFICES ASSUME NEW k \in 1..20 PROVE m[k - 1] = begin[k]
      OBVIOUS
    <2>1. PICK b : b = k - 1
      OBVIOUS
    <2>2. b \in 0..27 /\ b \in 0..20 - 1 /\ 0 + k - 1 = b
      BY <2>1
    <2>3. m[b] = text[b] /\ text[b] = core[b] /\ core[b] = begin[k]
      BY <1>10, <1>11, <1>13, <2>2
    <2>. QED BY <2>1, <2>3
  <1>15. \A k \in 1..8 + l : m[19 + k] = bytes[k]
    <2> SUFFICES ASSUME NEW k \in 1..8 + l PROVE m[19 + k] = bytes[k]
      OBVIOUS
    <2>1. PICK b : b = 19 + k
      OBVIOUS
    <2>2. b \in 0..none - 1 /\ k \in 1..9 + l /\ 20 + k - 1 = b
      BY <1>1, <1>4, <2>1
    <2>3. m[b] = text[b] /\ text[b] = bytes[k]
      BY <1>11, <1>12, <2>2
    <2>. QED BY <2>1, <2>3
  <1>16. m[28 + l] = 0
    <2>1. CASE 28 + l = none
      <3>1. none + 1 - 1 = none
        BY <1>4
      <3>2. m[none + 1 - 1] = last[1]
        BY <1>12
      <3>. QED BY <1>9, <2>1, <3>1, <3>2
    <2>2. CASE 28 + l # none
      <3>1. PICK b : b = 28 + l
        OBVIOUS
      <3>2. b \in 0..none - 1 /\ 9 + l \in 1..9 + l /\ 20 + (9 + l) - 1 = b
        BY <1>1, <1>4, <2>2, <3>1
      <3>3. m[b] = text[b] /\ text[b] = bytes[9 + l]
        BY <1>11, <1>12, <3>2
      <3>. QED BY <1>8, <3>1, <3>3
    <2>. QED BY <2>1, <2>2
  <1>17. \A k \in 0..7 : m[none + k] = 0
    <2> SUFFICES ASSUME NEW k \in 0..7 PROVE m[none + k] = 0
      OBVIOUS
    <2>1. PICK i : i = k + 1
      OBVIOUS
    <2>2. i \in 1..8 /\ none + i - 1 = none + k
      BY <1>4, <2>1
    <2>3. m[none + i - 1] = last[i] /\ last[i] = 0
      BY <1>9, <1>12, <2>2
    <2>. QED BY <2>2, <2>3
  <1>18. /\ m[0] = 5 /\ m[1] = 0 /\ m[4] = 1 /\ m[5] = 0 /\ m[6] = 65 /\ m[7] = 84
    <2>1. /\ m[1 - 1] = begin[1] /\ m[2 - 1] = begin[2] /\ m[5 - 1] = begin[5] /\ m[6 - 1] = begin[6]
          /\ m[7 - 1] = begin[7] /\ m[8 - 1] = begin[8]
      BY <1>14
    <2>. QED BY <1>7, <2>1
  <1>19. /\ m[20] = s % 256 /\ m[21] = s \div 256
         /\ m[24] = 9 /\ m[25] = 0 /\ m[26] = 65 /\ m[27] = 84
    <2>1. \A k \in 1..8 : m[19 + k] = bytes[k]
      BY <1>1, <1>15
    <2>2. /\ m[19 + 1] = bytes[1] /\ m[19 + 2] = bytes[2] /\ m[19 + 5] = bytes[5] /\ m[19 + 6] = bytes[6]
          /\ m[19 + 7] = bytes[7] /\ m[19 + 8] = bytes[8]
      BY <2>1
    <2>. QED BY <1>8, <2>2
  <1>20. Size(m, 20) = s
    <2>1. (s % 256) + 256 * (s \div 256) = s
      BY <1>4
    <2>. QED BY <1>19, <2>1 DEF Size
  <1>21. \A k \in 1..l : m[27 + k] = c[k]
    <2> SUFFICES ASSUME NEW k \in 1..l PROVE m[27 + k] = c[k]
      OBVIOUS
    <2>1. PICK i : i = 8 + k
      OBVIOUS
    <2>2. i \in 1..8 + l /\ 19 + i = 27 + k
      BY <1>1, <2>1
    <2>3. m[19 + i] = bytes[i]
      BY <1>15, <2>2
    <2>. QED BY <1>8, <2>1, <2>2, <2>3
  <1>22. LaidOut(m, c)
    <2>1. \A k \in 0..7 : m[NoneAt(Len(c)) + k] = 0
      BY <1>17 DEF none, l
    <2>2. Size(m, 20) = (Len(c) + 11) \div 4 /\ m[28 + Len(c)] = 0 /\ \A k \in 1..Len(c) : m[27 + k] = c[k]
      BY <1>4, <1>16, <1>20, <1>21 DEF l
    <2>. QED BY <1>18, <1>19, <2>1, <2>2, Zenon DEF LaidOut
  <1>. QED BY <1>6, <1>22 DEF c

\* What a kernel finds that goes from tag to tag.
Finds(m, words) ==
    LET text == tag_next(m, 0)
        none == tag_next(m, text)
        Tag(a) == [k \in 1..4 |-> m[a + 3 + k]]
        end == Min({a \in text + 8..none + 8 : m[a] = 0})
    IN /\ Tag(0) = ATAG_CORE /\ Tag(text) = ATAG_CMDLINE
       /\ Tag(none) = ATAG_NONE /\ Size(m, none) = 0
       /\ [k \in 1..end - text - 8 |-> m[text + 7 + k]] = words

LEMMA KernelFinds ==
    ASSUME NEW m, NEW words \in Seq(Char), LaidOut(m, words)
    PROVE  Finds(m, words)
  <1> DEFINE l == Len(words)
             none == NoneAt(l)
             zeros == {a \in 28..none + 8 : m[a] = 0}
             end == Min(zeros)
             Tag(a) == [k \in 1..4 |-> m[a + 3 + k]]
  <1>1. l \in Nat /\ words = [k \in 1..l |-> words[k]] /\ \A k \in 1..l : words[k] # 0
    <2>1. l \in Nat /\ \A k \in 1..l : words[k] \in Char
      BY LenProperties, ElementOfSeq
    <2>2. words = [k \in 1..l |-> words[k]]
      BY LenProperties
    <2>3. \A k \in 1..l : words[k] # 0
      <3>1. 0 \notin Char
        BY DEF Char
      <3>. QED BY <2>1, <3>1
    <2>. QED BY <2>1, <2>2, <2>3
  <1>2. /\ m[0] = 5 /\ m[1] = 0 /\ m[4] = 1 /\ m[5] = 0 /\ m[6] = 65 /\ m[7] = 84
        /\ Size(m, 20) = (l + 11) \div 4
        /\ m[24] = 9 /\ m[25] = 0 /\ m[26] = 65 /\ m[27] = 84
        /\ m[28 + l] = 0
    BY DEF LaidOut
  <1>3. (\A k \in 1..l : m[27 + k] = words[k]) /\ \A k \in 0..7 : m[none + k] = 0
    BY DEF LaidOut
  <1> HIDE DEF l
  <1>4. none \in Nat /\ 28 + l <= none /\ none = 20 + 4 * ((l + 11) \div 4)
    BY <1>1, NoneIsBehind
  <1> HIDE DEF none
  <1>13. none \in Int
    BY <1>4
  <1>5. tag_next(m, 0) = 20 /\ tag_next(m, 20) = none
    <2>1. tag_next(m, 0) = 20
      BY <1>2 DEF tag_next, Size
    <2>2. tag_next(m, 20) = none
      BY <1>2, <1>4 DEF tag_next
    <2>. QED BY <2>1, <2>2
  <1>6. Tag(0) = ATAG_CORE
    <2>1. m[0 + 3 + 1] = 1 /\ m[0 + 3 + 2] = 0 /\ m[0 + 3 + 3] = 65 /\ m[0 + 3 + 4] = 84
      BY <1>2
    <2>. QED BY <2>1 DEF ATAG_CORE
  <1>7. Tag(20) = ATAG_CMDLINE
    <2>1. m[20 + 3 + 1] = 9 /\ m[20 + 3 + 2] = 0 /\ m[20 + 3 + 3] = 65 /\ m[20 + 3 + 4] = 84
      BY <1>2
    <2>. QED BY <2>1 DEF ATAG_CMDLINE
  <1>8. Tag(none) = ATAG_NONE
    <2>1. m[none + 3 + 1] = 0 /\ m[none + 3 + 2] = 0 /\ m[none + 3 + 3] = 0 /\ m[none + 3 + 4] = 0
      <3>1. none + 3 + 1 = none + 4 /\ none + 3 + 2 = none + 5 /\ none + 3 + 3 = none + 6 /\ none + 3 + 4 = none + 7
        BY <1>13
      <3>2. m[none + 4] = 0 /\ m[none + 5] = 0 /\ m[none + 6] = 0 /\ m[none + 7] = 0
        BY <1>3
      <3>. QED BY <3>1, <3>2
    <2>. QED BY <2>1 DEF ATAG_NONE
  <1>9. Size(m, none) = 0
    <2>1. m[none + 0] = 0 /\ m[none + 1] = 0
      BY <1>3
    <2>2. none + 0 = none
      BY <1>13
    <2>3. m[none] = 0 /\ 0 + 256 * 0 = 0
      BY <2>1, <2>2
    <2>. QED BY <2>1, <2>3, Zenon DEF Size
  <1>10. end = 28 + l
    <2>1. zeros \subseteq Nat
      BY <1>4
    <2>2. 28 + l \in zeros
      <3>1. 28 + l \in 28..none + 8
        <4>1. l \in Nat /\ none \in Nat /\ 28 + l <= none
          BY <1>1, <1>4
        <4>. QED BY <4>1
      <3>. QED BY <1>2, <3>1
    <2>3. end \in zeros /\ \A a \in zeros : end <= a
      <3> HIDE DEF zeros
      <3>. QED BY <2>1, <2>2, LeastIsMin
    <2>4. end \in 28..none + 8 /\ m[end] = 0 /\ end <= 28 + l
      BY <2>2, <2>3
    <2> HIDE DEF end
    <2>5. ~(end - 27 \in 1..l)
      <3> SUFFICES ASSUME end - 27 \in 1..l PROVE FALSE
        OBVIOUS
      <3>1. PICK k : k = end - 27
        OBVIOUS
      <3>2. k \in 1..l /\ 27 + k = end
        BY <1>4, <2>4, <3>1
      <3>. QED BY <1>1, <1>3, <2>4, <3>2
    <2>6. end \in Nat /\ end >= 28 /\ end <= 28 + l /\ l \in Nat
      BY <1>1, <1>4, <2>4
    <2>. QED BY <2>5, <2>6
  <1>11. [k \in 1..end - 20 - 8 |-> m[20 + 7 + k]] = words
    <2> HIDE DEF end
    <2>1. end - 20 - 8 = l
      BY <1>1, <1>10
    <2>2. ASSUME NEW k \in 1..l PROVE m[20 + 7 + k] = words[k]
      <3>1. 20 + 7 + k = 27 + k
        BY <1>1
      <3>. QED BY <1>3, <3>1
    <2>3. [k \in 1..l |-> m[20 + 7 + k]] = [k \in 1..l |-> words[k]]
      BY <2>2
    <2>. QED BY <1>1, <2>1, <2>3, Zenon
  <1>12. 20 + 8 = 28
    OBVIOUS
  <1>. QED BY <1>5, <1>6, <1>7, <1>8, <1>9, <1>11, <1>12, Zenon DEF Finds

-----------------------------------------------------------------------------
\* What the program has taken from what was read is what stood there last.
NumbersAre(ls, av, p, num) ==
    /\ num = [name \in Names |-> num[name]]
    /\ \A name \in Names : NumberIs(Seen(ls, av, p, name), ls, num[name])
InLine ==
    argv # <<>> =>
        /\ Len(lines) > 0 /\ argv = lines[Len(lines)] /\ entered = <<>>
        /\ at \in 1..Len(argv) + 1 /\ \A k \in 1..at - 1 : argv[k] # OptH
Booted ==
    \/ entered = <<>>
    \/ entered = number /\ argv = <<>> /\ LaidOut(tags, WithoutLeadingBlanks(cmdline))
Taking ==
    /\ NumbersAre(lines, argv, at, number)
    /\ CmdlineIs(Seen(lines, argv, at, OptC), lines, cmdline)
    /\ cmdline \in Seq(Char) /\ Len(cmdline) < CmdlineSize
BootInv ==
    /\ lines \in Seq(Lines) /\ DOMAIN tags = Memory
    /\ Taking /\ InLine /\ Booted

LEMMA BootInitially == BootInit => BootInv
  <1> SUFFICES ASSUME BootInit PROVE BootInv
    OBVIOUS
  <1>1. /\ argv = <<>> /\ at = 1 /\ number = [name \in Names |-> Default] /\ cmdline = DefaultCmdline
        /\ tags = [a \in Memory |-> Junk] /\ entered = <<>> /\ lines = <<>>
    BY DEF BootInit
  <1>2. lines \in Seq(Lines) /\ DOMAIN tags = Memory /\ Len(lines) = 0
    BY <1>1
  <1>3. \A o : Seen(lines, argv, at, o) = {}
    <2>1. 1..0 = {}
      OBVIOUS
    <2>. QED BY <1>2, <2>1 DEF Seen
  <1>4. NumbersAre(lines, argv, at, number)
    BY <1>1, <1>3 DEF NumbersAre, NumberIs
  <1>5. CmdlineIs(Seen(lines, argv, at, OptC), lines, cmdline)
    BY <1>1, <1>3 DEF CmdlineIs
  <1>6. cmdline \in Seq(Char) /\ Len(cmdline) < CmdlineSize
    BY <1>1, BootAssumption
  <1>. QED BY <1>1, <1>2, <1>4, <1>5, <1>6 DEF BootInv, InLine, Booted, Taking

\* The places of an option keep what they say when a line is added behind.
LEMMA SaysTheSame ==
    ASSUME NEW ls, NEW ls2, NEW places, \A q \in places : ls2[q[1]] = ls[q[1]], NEW x
    PROVE  /\ NumberIs(places, ls, x) => NumberIs(places, ls2, x)
           /\ CmdlineIs(places, ls, x) => CmdlineIs(places, ls2, x)
  <1>1. ASSUME NumberIs(places, ls, x) PROVE NumberIs(places, ls2, x)
    BY <1>1 DEF NumberIs
  <1>2. ASSUME CmdlineIs(places, ls, x) PROVE CmdlineIs(places, ls2, x)
    BY <1>2 DEF CmdlineIs
  <1>. QED BY <1>1, <1>2

\* What holds of the line that is read.
Reading ==
    /\ Len(lines) \in Nat /\ Len(lines) > 0 /\ argv = lines[Len(lines)] /\ argv # <<>>
    /\ LineOk(argv) /\ Len(argv) \in Nat /\ at \in 1..Len(argv) + 1
    /\ \A k \in 1..at - 1 : argv[k] # OptH
    /\ entered = <<>> /\ MAX_CMD_ARG \in Nat
LEMMA InReading ==
    ASSUME BootInv, argv # <<>> PROVE Reading
  <1>1. /\ lines \in Seq(Lines) /\ Len(lines) > 0 /\ argv = lines[Len(lines)] /\ entered = <<>>
        /\ at \in 1..Len(argv) + 1 /\ \A k \in 1..at - 1 : argv[k] # OptH
    BY DEF BootInv, InLine
  <1>2. Len(lines) \in Nat /\ argv \in Lines
    <2>1. Len(lines) \in Nat /\ lines \in [1..Len(lines) -> Lines]
      BY <1>1, LenProperties
    <2>2. Len(lines) \in 1..Len(lines)
      BY <1>1, <2>1
    <2>. QED BY <1>1, <2>1, <2>2
  <1>3. LineOk(argv)
    BY <1>2, LinesAreOk
  <1>4. Len(argv) \in Nat
    BY <1>3, LenProperties DEF LineOk
  <1>5. MAX_CMD_ARG \in Nat
    BY BootAssumption
  <1>. QED BY <1>1, <1>2, <1>3, <1>4, <1>5 DEF Reading

\* The loop goes on, having taken nothing of some of the options.
LEMMA GoesOn ==
    ASSUME Reading, at \in 1..Len(argv), NEW p2 \in at + 1..Len(argv) + 1,
           \A k \in at + 1..p2 - 1 : argv[k][1] # Hyphen, NEW o \in Names \cup {OptC, OptB, OptH}
    PROVE  /\ argv[at] = o => /\ <<Len(lines), at>> \in Seen(lines, argv, p2, o)
                              /\ IsLatest(<<Len(lines), at>>, Seen(lines, argv, p2, o))
           /\ argv[at] # o => Seen(lines, argv, p2, o) = Seen(lines, argv, at, o)
  <1>1. \A k \in at + 1..p2 - 1 : argv[k] # o
    BY OptionsBegin
  <1>2. /\ Len(lines) \in Nat /\ Len(lines) > 0 /\ argv = lines[Len(lines)] /\ argv # <<>> /\ LineOk(argv)
    BY DEF Reading
  <1>. QED BY <1>1, <1>2, Advance, Zenon

\* The same of all that is taken.
StillTaken(p2) ==
    /\ \A name \in Names : argv[at] # name => Seen(lines, argv, p2, name) = Seen(lines, argv, at, name)
    /\ argv[at] # OptC => Seen(lines, argv, p2, OptC) = Seen(lines, argv, at, OptC)
    /\ argv[at] # OptH => \A k \in 1..p2 - 1 : argv[k] # OptH
LEMMA GoesOnKeeping ==
    ASSUME Reading, at \in 1..Len(argv), NEW p2 \in at + 1..Len(argv) + 1,
           \A k \in at + 1..p2 - 1 : argv[k][1] # Hyphen
    PROVE  StillTaken(p2)
  <1>1. ASSUME NEW name \in Names, argv[at] # name
        PROVE  Seen(lines, argv, p2, name) = Seen(lines, argv, at, name)
    <2>1. name \in Names \cup {OptC, OptB, OptH}
      OBVIOUS
    <2>. QED BY <1>1, <2>1, GoesOn, Zenon
  <1>2. ASSUME argv[at] # OptC PROVE Seen(lines, argv, p2, OptC) = Seen(lines, argv, at, OptC)
    <2>1. OptC \in Names \cup {OptC, OptB, OptH}
      OBVIOUS
    <2>. QED BY <1>2, <2>1, GoesOn, Zenon
  <1>3. ASSUME argv[at] # OptH, NEW k \in 1..p2 - 1 PROVE argv[k] # OptH
    <2>1. CASE k \in 1..at - 1
      BY <2>1 DEF Reading
    <2>2. CASE k = at
      BY <1>3, <2>2
    <2>3. CASE k \in at + 1..p2 - 1
      <3>1. argv[k][1] # Hyphen
        BY <2>3
      <3>. QED BY <3>1, OptionsBegin
    <2>4. k \in 1..at - 1 \/ k = at \/ k \in at + 1..p2 - 1
      OBVIOUS
    <2>. QED BY <2>1, <2>2, <2>3, <2>4
  <1>. QED BY <1>1, <1>2, <1>3 DEF StillTaken

\* An iteration that takes nothing.
LEMMA TakesNothing ==
    ASSUME Reading, Taking, at \in 1..Len(argv), argv[at] \notin Names \cup {OptC, OptH}, NEW p2, p2 = at + 1
    PROVE  /\ NumbersAre(lines, argv, p2, number)
           /\ CmdlineIs(Seen(lines, argv, p2, OptC), lines, cmdline)
           /\ \A k \in 1..p2 - 1 : argv[k] # OptH
           /\ p2 \in 1..Len(argv) + 1
  <1>1. p2 \in at + 1..Len(argv) + 1 /\ p2 \in 1..Len(argv) + 1 /\ at + 1..p2 - 1 = {}
    BY DEF Reading
  <1>2. StillTaken(p2)
    <2>1. \A k \in at + 1..p2 - 1 : argv[k][1] # Hyphen
      BY <1>1
    <2>. QED BY <1>1, <2>1, GoesOnKeeping, Zenon
  <1>3. argv[at] # OptC /\ argv[at] # OptH /\ \A name \in Names : argv[at] # name
    OBVIOUS
  <1>4. NumbersAre(lines, argv, p2, number)
    BY <1>2, <1>3, Zenon DEF StillTaken, Taking, NumbersAre
  <1>5. CmdlineIs(Seen(lines, argv, p2, OptC), lines, cmdline)
    BY <1>2, <1>3, Zenon DEF StillTaken, Taking
  <1>6. \A k \in 1..p2 - 1 : argv[k] # OptH
    BY <1>2, <1>3, Zenon DEF StillTaken
  <1>. QED BY <1>1, <1>4, <1>5, <1>6

\* An iteration that takes a number.
LEMMA TakesTheNumber ==
    ASSUME Reading, Taking, at \in 1..Len(argv), argv[at] \in Names, NEW p2, p2 = at + 2,
           NEW num, num = [number EXCEPT ![argv[at]] = ToNumber(argv[at + 1])]
    PROVE  /\ NumbersAre(lines, argv, p2, num)
           /\ CmdlineIs(Seen(lines, argv, p2, OptC), lines, cmdline)
           /\ \A k \in 1..p2 - 1 : argv[k] # OptH
           /\ p2 \in 1..Len(argv) + 1
  <1> DEFINE o == argv[at]
             n == Len(lines)
  <1>1. at + 1 \in 1..Len(argv) /\ argv[at + 1][1] # Hyphen /\ Len(argv) \in Nat
    BY DEF Reading, LineOk
  <1>2. p2 \in at + 1..Len(argv) + 1 /\ p2 \in 1..Len(argv) + 1 /\ at + 1..p2 - 1 = {at + 1}
    BY <1>1
  <1>3. \A k \in at + 1..p2 - 1 : argv[k][1] # Hyphen
    BY <1>1, <1>2
  <1>4. StillTaken(p2)
    BY <1>2, <1>3, GoesOnKeeping, Zenon
  <1>5. o # OptC /\ o # OptH /\ o \in Names \cup {OptC, OptB, OptH}
    BY OptionsBegin
  <1>6. <<n, at>> \in Seen(lines, argv, p2, o) /\ IsLatest(<<n, at>>, Seen(lines, argv, p2, o))
    BY <1>2, <1>3, <1>5, GoesOn, Zenon
  <1>7. argv = lines[n] /\ number = [name \in Names |-> number[name]]
    BY Zenon DEF Reading, Taking, NumbersAre
  <1>8. num = [name \in Names |-> num[name]] /\ num[o] = ToNumber(argv[at + 1])
        /\ \A name \in Names : name # o => num[name] = number[name]
    BY <1>7, Zenon
  <1>9. NumberIs(Seen(lines, argv, p2, o), lines, num[o])
    <2>1. PICK q : q = <<n, at>>
      OBVIOUS
    <2>2. q[1] = n /\ q[2] = at
      BY <2>1
    <2>3. num[o] = ToNumber(lines[q[1]][q[2] + 1])
      BY <1>7, <1>8, <2>2
    <2>. QED BY <1>6, <2>1, <2>3, Zenon DEF NumberIs
  <1>10. ASSUME NEW name \in Names PROVE NumberIs(Seen(lines, argv, p2, name), lines, num[name])
    <2>1. CASE name = o
      BY <1>9, <2>1
    <2>2. CASE name # o
      BY <1>4, <1>8, <2>2, Zenon DEF StillTaken, Taking, NumbersAre
    <2>. QED BY <2>1, <2>2
  <1>11. NumbersAre(lines, argv, p2, num)
    BY <1>8, <1>10, Zenon DEF NumbersAre
  <1>12. CmdlineIs(Seen(lines, argv, p2, OptC), lines, cmdline)
    BY <1>4, <1>5, Zenon DEF StillTaken, Taking
  <1>13. \A k \in 1..p2 - 1 : argv[k] # OptH
    BY <1>4, <1>5, Zenon DEF StillTaken
  <1>. QED BY <1>2, <1>11, <1>12, <1>13

\* An iteration that takes a command line.
LEMMA TakesTheText ==
    ASSUME Reading, Taking, at \in 1..Len(argv), argv[at] = OptC, NEW p2, p2 = WordsEnd(argv, at + 1) + 1,
           NEW text, text = Taken(argv, at + 1)
    PROVE  /\ NumbersAre(lines, argv, p2, number)
           /\ CmdlineIs(Seen(lines, argv, p2, OptC), lines, text)
           /\ text \in Seq(Char) /\ Len(text) < CmdlineSize
           /\ \A k \in 1..p2 - 1 : argv[k] # OptH
           /\ p2 \in 1..Len(argv) + 1
  <1> DEFINE n == Len(lines)
             e == WordsEnd(argv, at + 1)
  <1>0. LineOk(argv) /\ Len(argv) \in Nat /\ argv = lines[n]
    BY DEF Reading
  <1>1. at + 1 \in 1..Len(argv)
    BY <1>0 DEF LineOk
  <1>2. e \in at..Len(argv) /\ \A k \in at + 1..e : argv[k][1] # Hyphen
    <2>1. at + 1 - 1 = at
      OBVIOUS
    <2>. QED BY <1>0, <1>1, <2>1, WordsEndIs
  <1> HIDE DEF e
  <1>3. p2 \in at + 1..Len(argv) + 1 /\ p2 \in 1..Len(argv) + 1 /\ p2 - 1 = e
    <2>1. p2 = e + 1
      BY DEF e
    <2>2. e \in Int /\ at <= e /\ e <= Len(argv) /\ Len(argv) \in Int /\ at \in Int /\ at >= 1
      BY <1>0, <1>2
    <2>. QED BY <2>1, <2>2
  <1>4. \A k \in at + 1..p2 - 1 : argv[k][1] # Hyphen
    BY <1>2, <1>3
  <1>5. StillTaken(p2)
    BY <1>3, <1>4, GoesOnKeeping, Zenon
  <1>6. OptC # OptH /\ OptC \notin Names /\ OptC \in Names \cup {OptC, OptB, OptH}
    BY OptionsBegin
  <1>7. /\ <<n, at>> \in Seen(lines, argv, p2, OptC)
        /\ IsLatest(<<n, at>>, Seen(lines, argv, p2, OptC))
    BY <1>3, <1>4, <1>6, GoesOn, Zenon
  <1>8. CmdlineIs(Seen(lines, argv, p2, OptC), lines, text)
    <2>1. PICK q : q = <<n, at>>
      OBVIOUS
    <2>2. q[1] = n /\ q[2] = at
      BY <2>1
    <2>3. text = Taken(lines[q[1]], q[2] + 1)
      BY <1>0, <2>2
    <2>. QED BY <1>7, <2>1, <2>3, Zenon DEF CmdlineIs
  <1>9. \A name \in Names : argv[at] # name
    BY <1>6
  <1>10. NumbersAre(lines, argv, p2, number)
    BY <1>5, <1>9, Zenon DEF StillTaken, Taking, NumbersAre
  <1>11. \A k \in 1..p2 - 1 : argv[k] # OptH
    BY <1>5, <1>6, Zenon DEF StillTaken
  <1>12. text \in Seq(Char) /\ Len(text) < CmdlineSize
    BY <1>0, <1>1, TakenFits
  <1>. QED BY <1>3, <1>8, <1>10, <1>11, <1>12

\* A line that is left, having been read up to where it is left.
LEMMA LineIsLeft ==
    ASSUME Reading, Taking, at <= Len(argv) => argv[at] = OptH, NEW p2
    PROVE  /\ NumbersAre(lines, <<>>, p2, number)
           /\ CmdlineIs(Seen(lines, <<>>, p2, OptC), lines, cmdline)
  <1>1. Len(Read(argv)) = at - 1
    BY ReadIs DEF Reading
  <1>2. ASSUME NEW o PROVE Seen(lines, <<>>, p2, o) = Seen(lines, argv, at, o)
    <2>1. Len(lines) \in Nat
      BY DEF Reading
    <2>2. Len(lines) > 0 /\ argv = lines[Len(lines)] /\ argv # <<>>
      BY DEF Reading
    <2>. QED BY <1>1, <2>1, <2>2, LineEnds
  <1>3. NumbersAre(lines, <<>>, p2, number)
    BY <1>2, Zenon DEF Taking, NumbersAre
  <1>4. CmdlineIs(Seen(lines, <<>>, p2, OptC), lines, cmdline)
    BY <1>2, Zenon DEF Taking
  <1>. QED BY <1>3, <1>4

\* A line that is entered.
LEMMA LineIsEntered ==
    ASSUME BootInv, argv = <<>>, NEW line \in Lines, NEW ls, ls = Append(lines, line)
    PROVE  /\ NumbersAre(ls, line, 1, number)
           /\ CmdlineIs(Seen(ls, line, 1, OptC), ls, cmdline)
           /\ ls \in Seq(Lines) /\ Len(ls) > 0 /\ line = ls[Len(ls)] /\ Len(line) \in Nat
  <1>1. lines \in Seq(Lines) /\ Taking
    BY DEF BootInv
  <1>2. /\ ls \in Seq(Lines) /\ Len(ls) > 0 /\ line = ls[Len(ls)] /\ Len(lines) \in Nat
        /\ \A i \in 1..Len(lines) : ls[i] = lines[i]
    <2>1. Len(lines) \in Nat
      BY <1>1, LenProperties
    <2>. QED BY <1>1, <2>1, AppendProperties
  <1>3. Len(line) \in Nat /\ line # <<>>
    <2>1. LineOk(line)
      BY LinesAreOk
    <2>2. Len(line) \in Nat /\ Len(line) # 0
      BY <2>1, LenProperties DEF LineOk
    <2>. QED BY <2>2
  <1>4. ASSUME NEW o PROVE Seen(ls, line, 1, o) = Seen(lines, argv, at, o)
    BY <1>1, <1>3, LineBegins
  <1>5. ASSUME NEW o, NEW q \in Seen(lines, argv, at, o) PROVE ls[q[1]] = lines[q[1]]
    <2>1. q[1] \in 1..Len(lines)
      BY <1>5 DEF Seen
    <2>. QED BY <1>2, <2>1
  <1>6. ASSUME NEW name \in Names PROVE NumberIs(Seen(ls, line, 1, name), ls, number[name])
    <2>1. NumberIs(Seen(lines, argv, at, name), lines, number[name])
      BY <1>1, Zenon DEF Taking, NumbersAre
    <2>2. NumberIs(Seen(lines, argv, at, name), ls, number[name])
      BY <1>5, <2>1, SaysTheSame, Zenon
    <2>. QED BY <1>4, <2>2, Zenon
  <1>7. CmdlineIs(Seen(ls, line, 1, OptC), ls, cmdline)
    <2>1. CmdlineIs(Seen(lines, argv, at, OptC), lines, cmdline)
      BY <1>1, Zenon DEF Taking
    <2>2. CmdlineIs(Seen(lines, argv, at, OptC), ls, cmdline)
      BY <1>5, <2>1, SaysTheSame, Zenon
    <2>. QED BY <1>4, <2>2, Zenon
  <1>8. NumbersAre(ls, line, 1, number)
    BY <1>1, <1>6, Zenon DEF Taking, NumbersAre
  <1>. QED BY <1>2, <1>3, <1>7, <1>8

LEMMA PutDomain == ASSUME NEW m, NEW a, NEW bytes PROVE DOMAIN Put(m, a, bytes) = DOMAIN m
  BY Zenon DEF Put

LEMMA WithTagsDomain == DOMAIN WithTags = DOMAIN tags
  <1> DEFINE core == atag_core_setup(tags)
             text == atag_cmdline_setup(core, tag_next(core, 0))
             none == tag_next(text, tag_next(text, 0))
  <1>1. DOMAIN core = DOMAIN tags
    BY PutDomain, Zenon DEF atag_core_setup
  <1>2. WithTags = atag_none_setup(text, none)
    BY Zenon DEF WithTags
  <1> HIDE DEF core
  <1>3. DOMAIN text = DOMAIN core
    BY PutDomain, Zenon DEF atag_cmdline_setup
  <1> HIDE DEF text, none
  <1>4. DOMAIN atag_none_setup(text, none) = DOMAIN text
    BY PutDomain, Zenon DEF atag_none_setup
  <1>. QED BY <1>1, <1>2, <1>3, <1>4

\* Every step.
LEMMA BootStep ==
    ASSUME BootInv, [BootNext]_bootVars
    PROVE  BootInv'
  <1>0. /\ lines \in Seq(Lines) /\ DOMAIN tags = Memory /\ Taking /\ InLine /\ Booted
        /\ NumbersAre(lines, argv, at, number) /\ CmdlineIs(Seen(lines, argv, at, OptC), lines, cmdline)
        /\ cmdline \in Seq(Char) /\ Len(cmdline) < CmdlineSize
    BY Zenon DEF BootInv, Taking
  <1>1. ASSUME NEW line \in Lines, Enter(line) PROVE BootInv'
    <2>1. /\ argv = <<>> /\ entered = <<>> /\ argv' = line /\ lines' = Append(lines, line) /\ at' = 1
          /\ number' = number /\ cmdline' = cmdline /\ tags' = tags /\ entered' = entered
      BY <1>1 DEF Enter
    <2>2. /\ NumbersAre(lines', line, 1, number)
          /\ CmdlineIs(Seen(lines', line, 1, OptC), lines', cmdline)
          /\ lines' \in Seq(Lines) /\ Len(lines') > 0 /\ line = lines'[Len(lines')] /\ Len(line) \in Nat
      BY <2>1, LineIsEntered, Zenon
    <2>3. NumbersAre(lines', argv', at', number') /\ CmdlineIs(Seen(lines', argv', at', OptC), lines', cmdline')
      BY <2>1, <2>2, Zenon
    <2>4. Taking' /\ Booted'
      BY <1>0, <2>1, <2>3, Zenon DEF Taking, Booted
    <2>5. InLine'
      BY <2>1, <2>2 DEF InLine
    <2>. QED BY <1>0, <2>1, <2>2, <2>4, <2>5, Zenon DEF BootInv
  <1>2. ASSUME argv # <<>>, argv' = argv, lines' = lines, tags' = tags, entered' = entered,
               NumbersAre(lines, argv, at', number'), CmdlineIs(Seen(lines, argv, at', OptC), lines, cmdline'),
               cmdline' \in Seq(Char), Len(cmdline') < CmdlineSize,
               \A k \in 1..at' - 1 : argv[k] # OptH, at' \in 1..Len(argv) + 1
        PROVE  BootInv'
    <2>1. Taking'
      BY <1>2, Zenon DEF Taking
    <2>2. InLine' /\ entered = <<>>
      BY <1>0, <1>2, Zenon DEF InLine
    <2>3. Booted'
      BY <1>2, <2>2, Zenon DEF Booted
    <2>. QED BY <1>0, <1>2, <2>1, <2>2, <2>3, Zenon DEF BootInv
  <1>3. ASSUME InLoop PROVE Reading /\ at \in 1..Len(argv) /\ argv # <<>>
    <2>1. Reading /\ at <= Len(argv) /\ argv # <<>>
      BY <1>3, InReading DEF InLoop
    <2>. QED BY <2>1 DEF Reading
  <1>4. CASE TakesNumber
    <2>1. /\ InLoop /\ argv[at] \in Names /\ at' = at + 2
          /\ number' = [number EXCEPT ![argv[at]] = ToNumber(argv[at + 1])]
          /\ argv' = argv /\ cmdline' = cmdline /\ tags' = tags /\ entered' = entered /\ lines' = lines
      BY <1>4, Zenon DEF TakesNumber, Arg
    <2>2. /\ NumbersAre(lines, argv, at', number')
          /\ CmdlineIs(Seen(lines, argv, at', OptC), lines, cmdline)
          /\ \A k \in 1..at' - 1 : argv[k] # OptH
          /\ at' \in 1..Len(argv) + 1
      BY <1>0, <1>3, <2>1, TakesTheNumber, Zenon
    <2>. QED BY <1>0, <1>2, <1>3, <2>1, <2>2, Zenon
  <1>5. CASE TakesCmdline
    <2>1. /\ InLoop /\ argv[at] = OptC /\ at' = WordsEnd(argv, at + 1) + 1
          /\ cmdline' = Taken(argv, at + 1)
          /\ argv' = argv /\ number' = number /\ tags' = tags /\ entered' = entered /\ lines' = lines
      BY <1>5, Zenon DEF TakesCmdline, Arg
    <2>2. /\ NumbersAre(lines, argv, at', number)
          /\ CmdlineIs(Seen(lines, argv, at', OptC), lines, cmdline')
          /\ cmdline' \in Seq(Char) /\ Len(cmdline') < CmdlineSize
          /\ \A k \in 1..at' - 1 : argv[k] # OptH
          /\ at' \in 1..Len(argv) + 1
      BY <1>0, <1>3, <2>1, TakesTheText, Zenon
    <2>. QED BY <1>2, <1>3, <2>1, <2>2, Zenon
  <1>6. CASE TakesBoot \/ SkipsArgument
    <2>1. /\ InLoop /\ argv[at] \notin Names \cup {OptC, OptH} /\ at' = at + 1
          /\ argv' = argv /\ number' = number /\ cmdline' = cmdline /\ tags' = tags
          /\ entered' = entered /\ lines' = lines
      <3>1. OptB \notin Names \cup {OptC, OptH}
        BY OptionsBegin
      <3>2. CASE TakesBoot
        BY <3>1, <3>2 DEF TakesBoot, Arg
      <3>3. CASE SkipsArgument
        BY <3>3 DEF SkipsArgument, Arg
      <3>. QED BY <1>6, <3>2, <3>3
    <2>2. /\ NumbersAre(lines, argv, at', number)
          /\ CmdlineIs(Seen(lines, argv, at', OptC), lines, cmdline)
          /\ \A k \in 1..at' - 1 : argv[k] # OptH
          /\ at' \in 1..Len(argv) + 1
      BY <1>0, <1>3, <2>1, TakesNothing, Zenon
    <2>. QED BY <1>0, <1>2, <1>3, <2>1, <2>2, Zenon
  <1>7. CASE ShowsHelp \/ Ends
    <2>1. /\ argv # <<>> /\ argv' = <<>>
          /\ at <= Len(argv) => argv[at] = OptH
          /\ at' = at /\ number' = number /\ cmdline' = cmdline /\ tags' = tags
          /\ entered' = entered /\ lines' = lines
      <3>1. Reading
        BY <1>7, InReading DEF ShowsHelp, InLoop, Ends
      <3>2. CASE ShowsHelp
        BY <3>2 DEF ShowsHelp, InLoop, Arg
      <3>3. CASE Ends
        <4>1. at > Len(argv) => ~(at <= Len(argv))
          BY <3>1 DEF Reading
        <4>. QED BY <3>3, <4>1 DEF Ends
      <3>. QED BY <1>7, <3>2, <3>3
    <2>2. Reading
      BY <2>1, InReading
    <2>3. NumbersAre(lines, <<>>, at, number) /\ CmdlineIs(Seen(lines, <<>>, at, OptC), lines, cmdline)
      BY <1>0, <2>1, <2>2, LineIsLeft, Zenon
    <2>4. Taking'
      BY <1>0, <2>1, <2>3, Zenon DEF Taking
    <2>5. entered = <<>>
      BY <2>2 DEF Reading
    <2>6. InLine' /\ Booted'
      BY <2>1, <2>5, Zenon DEF InLine, Booted
    <2>. QED BY <1>0, <2>1, <2>4, <2>6, Zenon DEF BootInv
  <1>8. CASE Boots
    <2>1. /\ argv # <<>> /\ at > Len(argv) /\ argv' = <<>> /\ tags' = WithTags /\ entered' = number
          /\ at' = at /\ number' = number /\ cmdline' = cmdline /\ lines' = lines
      BY <1>8 DEF Boots
    <2>2. Reading
      BY <2>1, InReading
    <2>3. at <= Len(argv) => argv[at] = OptH
      BY <2>1, <2>2 DEF Reading
    <2>4. NumbersAre(lines, <<>>, at, number) /\ CmdlineIs(Seen(lines, <<>>, at, OptC), lines, cmdline)
      BY <1>0, <2>2, <2>3, LineIsLeft, Zenon
    <2>5. Taking'
      BY <1>0, <2>1, <2>4, Zenon DEF Taking
    <2>6. LaidOut(tags', WithoutLeadingBlanks(cmdline'))
      BY <1>0, <2>1, TagsAre, Zenon
    <2>7. InLine' /\ Booted'
      BY <2>1, <2>6, Zenon DEF InLine, Booted
    <2>8. DOMAIN tags' = Memory
      BY <1>0, <2>1, WithTagsDomain, Zenon
    <2>. QED BY <1>0, <2>1, <2>5, <2>7, <2>8, Zenon DEF BootInv
  <1>9. CASE UNCHANGED bootVars
    <2>1. /\ argv' = argv /\ at' = at /\ number' = number /\ cmdline' = cmdline /\ tags' = tags
          /\ entered' = entered /\ lines' = lines
      BY <1>9 DEF bootVars
    <2>2. Taking' /\ InLine' /\ Booted'
      BY <1>0, <2>1, Zenon DEF Taking, InLine, Booted
    <2>. QED BY <1>0, <2>1, <2>2, Zenon DEF BootInv
  <1>. QED BY <1>1, <1>4, <1>5, <1>6, <1>7, <1>8, <1>9 DEF BootNext

\* What was asked for last, in the words of the property.
LEMMA LatestIs ==
    ASSUME NEW places, places \subseteq (1..Len(lines)) \X (1..MAX_CMD_ARG), Len(lines) \in Nat,
           NEW q \in places, IsLatest(q, places)
    PROVE  Latest(places) = q /\ places # {}
  <1> DEFINE L(p) == p \in places /\ \A r \in places : r[1] < p[1] \/ (r[1] = p[1] /\ r[2] <= p[2])
             p0 == Latest(places)
  <1>0. MAX_CMD_ARG \in Nat
    BY BootAssumption
  <1>1. L(q)
    BY DEF IsLatest
  <1>2. L(p0)
    BY <1>1, Zenon DEF Latest
  <1> HIDE DEF p0
  <1>3. /\ p0[1] < q[1] \/ (p0[1] = q[1] /\ p0[2] <= q[2])
        /\ q[1] < p0[1] \/ (q[1] = p0[1] /\ q[2] <= p0[2])
    BY <1>1, <1>2
  <1>4. /\ p0 \in (1..Len(lines)) \X (1..MAX_CMD_ARG) /\ q \in (1..Len(lines)) \X (1..MAX_CMD_ARG)
    BY <1>1, <1>2
  <1>5. /\ p0[1] \in Int /\ p0[2] \in Int /\ q[1] \in Int /\ q[2] \in Int
        /\ p0 = <<p0[1], p0[2]>> /\ q = <<q[1], q[2]>>
    BY <1>0, <1>4
  <1>6. p0[1] = q[1] /\ p0[2] = q[2]
    BY <1>3, <1>5
  <1>7. p0 = q
    BY <1>5, <1>6
  <1>. QED BY <1>7 DEF p0

LEMMA AskedIsTaken ==
    ASSUME BootInv, argv = <<>>
    PROVE  number = [name \in Names |-> NumberAsked(name)] /\ cmdline = CmdlineAsked
  <1>1. ASSUME NEW o PROVE Seen(lines, argv, at, o) = Given(o)
    BY DEF Seen, Given
  <1>2. lines \in Seq(Lines) /\ Len(lines) \in Nat /\ \A i \in 1..Len(lines) : lines[i] \in Lines
    <2>1. lines \in Seq(Lines)
      BY DEF BootInv
    <2>. QED BY <2>1, LenProperties, ElementOfSeq
  <1>3. ASSUME NEW o PROVE Given(o) \subseteq (1..Len(lines)) \X (1..MAX_CMD_ARG)
    BY DEF Given
  <1>4. ASSUME NEW name \in Names PROVE number[name] = NumberAsked(name)
    <2>1. NumberIs(Given(name), lines, number[name])
      BY <1>1, Zenon DEF BootInv, Taking, NumbersAre
    <2>2. CASE Given(name) = {}
      BY <2>1, <2>2 DEF NumberIs, NumberAsked
    <2>3. CASE Given(name) # {}
      <3>1. PICK q \in Given(name) : IsLatest(q, Given(name)) /\ number[name] = ToNumber(lines[q[1]][q[2] + 1])
        BY <2>1, <2>3, Zenon DEF NumberIs
      <3>2. Latest(Given(name)) = q
        BY <1>2, <1>3, <3>1, LatestIs, Zenon
      <3>. QED BY <2>3, <3>1, <3>2, Zenon DEF NumberAsked
    <2>. QED BY <2>2, <2>3
  <1>5. number = [name \in Names |-> NumberAsked(name)]
    <2>1. number = [name \in Names |-> number[name]]
      BY Zenon DEF BootInv, Taking, NumbersAre
    <2>2. [name \in Names |-> number[name]] = [name \in Names |-> NumberAsked(name)]
      BY <1>4, Zenon
    <2>. QED BY <2>1, <2>2, Zenon
  <1>6. cmdline = CmdlineAsked
    <2>1. CmdlineIs(Given(OptC), lines, cmdline)
      BY <1>1, Zenon DEF BootInv, Taking
    <2>2. CASE Given(OptC) = {}
      BY <2>1, <2>2, Zenon DEF CmdlineIs, CmdlineAsked
    <2>3. CASE Given(OptC) # {}
      <3>1. PICK q \in Given(OptC) : IsLatest(q, Given(OptC)) /\ cmdline = Taken(lines[q[1]], q[2] + 1)
        BY <2>1, <2>3, Zenon DEF CmdlineIs
      <3>2. Latest(Given(OptC)) = q
        BY <1>2, <1>3, <3>1, LatestIs, Zenon
      <3> DEFINE line == lines[q[1]]
                 j == q[2]
      <3>3. q[1] \in 1..Len(lines) /\ j \in 1..MAX_CMD_ARG /\ j <= Len(Read(line)) /\ line[j] = OptC
        BY <3>1 DEF Given
      <3>4. LineOk(line)
        BY <1>2, <3>3, LinesAreOk
      <3> HIDE DEF line, j
      <3>5. Len(Read(line)) <= Len(line) /\ Len(line) \in Nat
        BY <3>4, ReadIsPart
      <3>6. j \in 1..Len(line)
        <4>1. MAX_CMD_ARG \in Nat /\ Len(Read(line)) \in Nat
          BY <3>4, BootAssumption, ReadIsPart
        <4>. QED BY <3>3, <3>5, <4>1
      <3>7. j + 1 \in 1..Len(line)
        BY <3>3, <3>4, <3>6 DEF LineOk
      <3>8. Asked(line, j) = Taken(line, j + 1)
        BY <3>4, <3>6, <3>7, TakenIsAsked, Zenon
      <3>9. CmdlineAsked = Asked(line, j)
        BY <2>3, <3>2, Zenon DEF CmdlineAsked, Asked, line, j
      <3>. QED BY <3>1, <3>8, <3>9, Zenon DEF line, j
    <2>. QED BY <2>2, <2>3
  <1>. QED BY <1>5, <1>6

LEMMA BootsRight == ASSUME BootInv PROVE KernelGetsWhatWasAsked
  <1>1. Len(cmdline) < CmdlineSize /\ cmdline \in Seq(Char) /\ Booted
    BY Zenon DEF BootInv, Taking
  <1>2. CASE entered = <<>>
    BY <1>1, <1>2, Zenon DEF KernelGetsWhatWasAsked
  <1>3. CASE entered # <<>>
    <2>1. entered = number /\ argv = <<>> /\ LaidOut(tags, WithoutLeadingBlanks(cmdline))
      BY <1>1, <1>3, Zenon DEF Booted
    <2>2. number = [name \in Names |-> NumberAsked(name)] /\ cmdline = CmdlineAsked
      BY <2>1, AskedIsTaken, Zenon
    <2>3. WithoutLeadingBlanks(cmdline) \in Seq(Char)
      BY <1>1, TrimmedIs
    <2>4. Finds(tags, WithoutLeadingBlanks(cmdline))
      BY <2>1, <2>3, KernelFinds, Zenon
    <2>. QED BY <1>1, <2>1, <2>2, <2>4, Zenon DEF KernelGetsWhatWasAsked, Finds
  <1>. QED BY <1>2, <1>3

-----------------------------------------------------------------------------
(***************************************************************************)
(* The parts side by side.                                                 *)
(***************************************************************************)
\* gpio.c and clock.c: whichever pins are requested and freed, in whatever order, and however
\* long a clock takes to start and to stop, a bank in use runs between calls and one out of
\* use is turned off, unless it was requested again before its clock had stopped.
THEOREM BanksRunCorrect == LibSpec => []BanksRun
  <1> DEFINE Inv == part = "gpio" => GpioInv
  <1>1. LibInit => Inv
    BY GpioInitially DEF LibInit
  <1>2. Inv /\ [LibNext]_libVars => Inv'
    <2> SUFFICES ASSUME Inv, [LibNext]_libVars, part = "gpio" PROVE GpioInv'
      BY DEF LibNext, libVars
    <2>1. [GpioNext]_gpioVars
      BY DEF LibNext, libVars, pinVars
    <2>. QED BY <2>1, GpioStep
  <1>3. Inv => BanksRun
    BY GpioGood DEF BanksRun
  <1>. QED BY <1>1, <1>2, <1>3, PTL DEF LibSpec

\* iomux.c: a list of pin functions, of any length and order, is in the registers when it
\* was gone through.
THEOREM FunctionsAsListedCorrect == LibSpec => []FunctionsAsListed
  <1> DEFINE Inv == part = "mux" => MuxInv
  <1>1. LibInit => Inv
    BY MuxInitially DEF LibInit
  <1>2. Inv /\ [LibNext]_libVars => Inv'
    <2> SUFFICES ASSUME Inv, [LibNext]_libVars, part = "mux" PROVE MuxInv'
      BY DEF LibNext, libVars
    <2>1. [MuxNext]_pinVars
      BY DEF LibNext, libVars
    <2>. QED BY <2>1, MuxStep
  <1>3. Inv => FunctionsAsListed
    BY MuxGood DEF FunctionsAsListed
  <1>. QED BY <1>1, <1>2, <1>3, PTL DEF LibSpec

\* head.S: a program of any size, loaded anywhere but on top of its place, is there in main().
THEOREM MainFindsItsImageCorrect == LibSpec => []MainFindsItsImage
  <1> DEFINE Inv == part = "start" => StartInv
  <1>1. LibInit => Inv
    BY StartInitially DEF LibInit
  <1>2. Inv /\ [LibNext]_libVars => Inv'
    <2> SUFFICES ASSUME Inv, [LibNext]_libVars, part = "start" PROVE StartInv'
      BY DEF LibNext, libVars
    <2>1. [StartNext]_startVars
      BY DEF LibNext, libVars
    <2>. QED BY <2>1, StartStep
  <1>3. Inv => MainFindsItsImage
    BY StartGood DEF MainFindsItsImage
  <1>. QED BY <1>1, <1>2, <1>3, PTL DEF LibSpec

\* head.S and iomux.c: in main() the program is in its place, and the pins have the functions
\* listed for them.
THEOREM BoardComesUpCorrect == LibSpec => []BoardComesUp
  BY MainFindsItsImageCorrect, FunctionsAsListedCorrect, PTL DEF BoardComesUp

\* timer.c: a delay of any length keeps its time, for every rate and reach of the counter,
\* wherever it stands.
THEOREM WaitsKeepTimeCorrect == LibSpec => []WaitsKeepTime
  <1> DEFINE Inv == part = "timer" => TimerInv
  <1>1. LibInit => Inv
    BY TimerInitially DEF LibInit
  <1>2. Inv /\ [LibNext]_libVars => Inv'
    <2> SUFFICES ASSUME Inv, [LibNext]_libVars, part = "timer" PROVE TimerInv'
      BY DEF LibNext, libVars
    <2>1. [TimerNext]_timerVars
      BY DEF LibNext, libVars
    <2>. QED BY <2>1, TimerStep
  <1>3. Inv => WaitsKeepTime
    BY TimerGood DEF WaitsKeepTime
  <1>. QED BY <1>1, <1>2, <1>3, PTL DEF LibSpec

\* uart.c: for FIFOs of any depth and any number of polls, nothing is written to a full one
\* or read from an empty one, and a character is dropped only after all polls found no room.
THEOREM UartPollsDecideCorrect == LibSpec => []UartPollsDecide
  <1> DEFINE Inv == part = "uart" => UartInv
  <1>1. LibInit => Inv
    BY UartInitially DEF LibInit
  <1>2. Inv /\ [LibNext]_libVars => Inv'
    <2> SUFFICES ASSUME Inv, [LibNext]_libVars, part = "uart" PROVE UartInv'
      BY DEF LibNext, libVars
    <2>1. [UartNext]_uartVars
      BY DEF LibNext, libVars
    <2>. QED BY <2>1, UartStep
  <1>3. Inv => UartPollsDecide
    BY UartGood DEF UartPollsDecide
  <1>. QED BY <1>1, <1>2, <1>3, PTL DEF LibSpec

\* cmd_mem.c: whatever the number of words and of bits, memtest reports no error of a sound
\* memory, and finds a bad bit or two words in one place by its second pass, by its third
\* when the pattern it is started with is negative.
THEOREM MemtestFindsCorrect == LibSpec => []MemtestFinds
  <1> DEFINE Inv == part = "memory" => MemInv
  <1>1. LibInit => Inv
    BY MemInitially DEF LibInit
  <1>2. Inv /\ [LibNext]_libVars => Inv'
    <2> SUFFICES ASSUME Inv, [LibNext]_libVars PROVE Inv'
      OBVIOUS
    <2>1. part' = part
      BY DEF LibNext, libVars
    <2>2. ASSUME part = "memory" PROVE MemInv'
      <3>1. [MemNext]_memVars
        BY <2>2 DEF LibNext, libVars
      <3>. QED BY <2>2, <3>1, MemStep
    <2>. QED BY <2>1, <2>2
  <1>3. Inv => MemtestFinds
    BY MemGood DEF MemtestFinds
  <1>. QED BY <1>1, <1>2, <1>3, PTL DEF LibSpec

\* cmd_kermit.c: whatever a packet carries, kermit_getpacket() takes it as it was meant when
\* its characters come as they were sent, and what kermit_send_ack() sends likewise; with any
\* bit changed of any character behind the length, or without any one of those, it is refused.
THEOREM FramesDecodeCorrect == LibSpec => []FramesDecode
  <1>1. LibInit => FramesDecode
    BY FrameInitially DEF LibInit
  <1>2. FramesDecode /\ [LibNext]_libVars => FramesDecode'
    <2> SUFFICES ASSUME FramesDecode, [LibNext]_libVars PROVE FramesDecode'
      OBVIOUS
    <2>1. FrameNext \/ UNCHANGED frameVars
      BY DEF LibNext, libVars
    <2>2. CASE UNCHANGED frameVars
      BY <2>2 DEF frameVars, FramesDecode
    <2>. QED BY <2>1, <2>2, FrameStep
  <1>. QED BY <1>1, <1>2, PTL DEF LibSpec

\* stdio.c, vsprintf.c, string.c: for every word size, width, flag sequence and number, what
\* vsprintf() makes of a number is filled up to its width and no further, on the side its flags
\* ask for, and simple_strtoul() and hatol() read the same number back from it.
THEOREM PrintfReadsBackCorrect == LibSpec => []PrintfReadsBack
  <1>1. LibInit => Printed
    BY PrintInitially DEF LibInit
  <1>2. Printed /\ [LibNext]_libVars => Printed'
    <2> SUFFICES ASSUME Printed, [LibNext]_libVars PROVE Printed'
      OBVIOUS
    <2>1. PrintfNext \/ UNCHANGED printfVars
      BY DEF LibNext, libVars
    <2>2. CASE UNCHANGED printfVars
      BY <2>2 DEF printfVars, Printed
    <2>. QED BY <2>1, <2>2, PrintStep
  <1>3. Printed => PrintfReadsBack
    BY PrintedReadsBack
  <1>. QED BY <1>1, <1>2, <1>3, PTL DEF LibSpec

\* string.c: on a memory of any size and content, each routine, called as C allows, does what
\* the C library's does, but for the three differences StringsAgree names: memmove() copies
\* ranges that overlap as if at once, what is copied over or behind a text ends where it
\* should, and comparing byte by byte orders the texts.
THEOREM StringsMeanWhatTheySayCorrect == LibSpec => []StringsMeanWhatTheySay
  <1> DEFINE Inv == part = "strings" => StrInv
  <1>1. LibInit => Inv
    BY StrInitially DEF LibInit
  <1>2. Inv /\ [LibNext]_libVars => Inv'
    <2> SUFFICES ASSUME Inv, [LibNext]_libVars PROVE Inv'
      OBVIOUS
    <2>1. part' = part
      BY DEF LibNext, libVars
    <2>2. ASSUME part = "strings" PROVE StrInv'
      <3>1. [StrNext]_strVars
        BY <2>2 DEF LibNext, libVars
      <3>. QED BY <2>2, <3>1, StrStep
    <2>. QED BY <2>1, <2>2
  <1>3. Inv => StringsMeanWhatTheySay
    BY DEF StrInv, StringsMeanWhatTheySay
  <1>. QED BY <1>1, <1>2, <1>3, PTL DEF LibSpec

\* cmd_bootlinux.c: whatever lines were entered, the kernel is entered with the number last
\* given of each option, and the tags it finds lie behind each other in memory, the second
\* with the words that stood behind the last -c, up to a 0 that no size counts.
THEOREM BootsAsAskedCorrect == LibSpec => []BootsAsAsked
  <1> DEFINE Inv == part = "boot" => BootInv
  <1>1. LibInit => Inv
    BY BootInitially DEF LibInit
  <1>2. Inv /\ [LibNext]_libVars => Inv'
    <2> SUFFICES ASSUME Inv, [LibNext]_libVars PROVE Inv'
      OBVIOUS
    <2>1. part' = part
      BY DEF LibNext, libVars
    <2>2. ASSUME part = "boot" PROVE BootInv'
      <3>1. [BootNext]_bootVars
        BY <2>2 DEF LibNext, libVars
      <3>. QED BY <2>2, <3>1, BootStep
    <2>. QED BY <2>1, <2>2
  <1>3. Inv => BootsAsAsked
    BY BootsRight DEF BootsAsAsked
  <1>. QED BY <1>1, <1>2, <1>3, PTL DEF LibSpec

=============================================================================
