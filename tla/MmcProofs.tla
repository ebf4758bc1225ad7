----------------------------- MODULE MmcProofs -----------------------------
(***************************************************************************)
(* Proofs about Mmc, for every number of polls, retries, faults and        *)
(* exchanges: the types, the number of data lines, that an accepted card   *)
(* is selected, and, unless a card may become ready at the very poll that  *)
(* ends the loop (LastTry), that it is addressed in its own unit and that  *)
(* mmc_bread() is a block device.                                          *)
(***************************************************************************)
EXTENDS Mmc, SequenceTheorems, TLAPS

-----------------------------------------------------------------------------
\* The inductive invariant.

Looking == {"go_idle", "if_cond", "op_app", "op_cond", "mmc_idle", "mmc_op_cond"}
Configuring == {"scr_app", "scr", "width_app", "width", "ext_csd", "hs", "ext_csd2", "mmc_width"}
InUse == {"ready", "blocklen", "read"}
Selected == Configuring \cup InUse
Found == {"cid", "rca", "csd", "select"} \cup Selected

\* A card in the slot is as far as the program thinks it is, or was just inserted.
CardIsAt ==
    /\ pc = "cid" => card.state \in {"idle", "ready"}
    /\ pc = "rca" => card.state \in {"idle", "ident"}
    /\ pc \in {"csd", "select"} => card.state \in {"idle", "stby"}
    /\ pc \in Selected => card.state \in {"idle", "tran"}

\* What the struct says about a card that was identified.  Until the card answers to an
\* address, an SD card that became ready at the last poll may be taken for another; but
\* then the address is the one no SD card has.
Identified ==
    /\ ~IS_SD => mmc.rca = 0
    /\ card.state # "idle" =>
         /\ pc \in Found /\ IS_SD => IsSd(card)
         /\ pc = "csd" /\ IsSd(card) => card.rca # 0
         /\ pc \in {"select"} \cup Selected =>
              card.rca = mmc.rca /\ (IsSd(card) => IS_SD)

\* The unit its blocks are counted in, which the program learns when the card is ready.
Units ==
    ~LastTry /\ pc \in Found /\ card.state # "idle" => (mmc.high_capacity <=> BySector(card))

\* The card drives more lines only while it is selected, and the host listens to one until
\* the switch.
Lines ==
    /\ card.state # "tran" => card.width = 1
    /\ pc \notin InUse \cup {"prompt"} => mmc.bus_width = 1
    /\ pc \in Selected /\ card.state = "tran" => card.width = mmc.bus_width

\* The card that is set up is the one in the slot until another is inserted.
SetUpIs ==
    /\ pc \in InUse <=> setUp # NotSetUp
    /\ setUp <= card.id
    /\ pc \in InUse => (StillThere <=> card.state = "tran")

\* mmc_bread() is under way, or nothing is asked for.
Reads ==
    /\ pc \in {"blocklen", "read"} <=> req # NoReq
    /\ pc = "blocklen" => got = <<>>
    /\ pc = "read" => Len(got) < req.count

\* mmc_bread() has stored the blocks from the first one asked for on.
Stored ==
    ~LastTry /\ pc = "read" => \A k \in 1..Len(got) : got[k] = <<setUp, req.start + k - 1>>

MmcInv ==
    TypeOK /\ CardIsAt /\ Identified /\ Lines /\ SetUpIs /\ Reads /\ Units /\ Stored

-----------------------------------------------------------------------------
\* What the program knows once a command was sent: that something went missing at most
\* once more, that the card in the slot is the same one, and how it moved.

Counts(r) == r.err \in BOOLEAN /\ r.lost \in {0, 1} /\ (r.lost = 1 => r.err /\ faults # MaxFaults)

Moves(d, state, rca, width) ==
    d \in Card /\ d.id = card.id /\ d.kind = card.kind
    /\ d.state = state /\ d.rca = rca /\ d.width = width

Keeps(d) == Moves(d, card.state, card.rca, card.width)

\* mmc_send_cmd() hands over an answer of the card, or none for a command that reached the
\* card or did not.
LEMMA SentIs ==
    ASSUME NEW answers, \A a \in answers : a.heard \in BOOLEAN, NEW r \in Sent(answers)
    PROVE  /\ Counts(r)
           /\ \/ r.err /\ r.card = card
              \/ \E a \in answers : r.card = a.card /\ (~r.err => a.heard /\ r.resp = a.resp)
  <1>1. CASE \E a \in answers : r = Fine(a)
    <2>1. PICK a \in answers : r = Fine(a)
      BY <1>1
    <2>2. /\ r.card = a.card /\ r.err = ~a.heard /\ r.resp = a.resp /\ r.lost = 0
      BY <2>1 DEF Fine
    <2>3. r.err \in BOOLEAN /\ (~r.err => a.heard)
      BY <2>2, Zenon
    <2> QED
      BY <2>2, <2>3 DEF Counts
  <1>2. CASE /\ faults # MaxFaults
             /\ r = Lost(card) \/ \E a \in answers : r = Lost(a.card)
    <2>1. PICK c : r = Lost(c) /\ (c = card \/ \E a \in answers : c = a.card)
      BY <1>2
    <2>2. r.card = c /\ r.err = TRUE /\ r.lost = 1
      BY <2>1 DEF Lost
    <2> QED
      BY <1>2, <2>1, <2>2 DEF Counts
  <1> QED
    BY <1>1, <1>2 DEF Sent

\* A card obeys a command it is meant for and otherwise stays as it is.
LEMMA ObeyIs ==
    ASSUME card \in Card, NEW legal \in BOOLEAN, NEW new \in Card, NEW resp, NEW a,
           new.id = card.id, new.kind = card.kind, a = Obey(card, legal, new, resp)
    PROVE  /\ a.heard = legal
           /\ legal => Moves(a.card, new.state, new.rca, new.width) /\ a.resp = resp
           /\ ~legal => Keeps(a.card)
  BY DEF Obey, Moves, Keeps, Card

-----------------------------------------------------------------------------
\* What each command does, as far as the program can tell.

LEMMA GoIdleDoes ==
    ASSUME card \in Card, NEW r \in Sent(GoIdle(card))
    PROVE  Counts(r) /\ (Keeps(r.card) \/ Moves(r.card, "idle", 0, 1))
  <1>1. \A a \in GoIdle(card) : a.heard \in BOOLEAN /\ Moves(a.card, "idle", 0, 1)
    <2> DEFINE c == [card EXCEPT !.state = "idle", !.rca = 0, !.app = FALSE, !.width = 1]
    <2>1. /\ c \in Card /\ c.id = card.id /\ c.kind = card.kind
          /\ c.state = "idle" /\ c.rca = 0 /\ c.width = 1
      BY DEF Card, CardState
    <2>2. Moves(c, "idle", 0, 1)
      BY <2>1 DEF Moves
    <2> HIDE DEF c
    <2>3. \A a \in GoIdle(card) : a.heard = TRUE /\ a.card = c
      BY DEF GoIdle, c
    <2> QED
      BY <2>2, <2>3
  <1>2. Keeps(card)
    BY DEF Keeps, Moves
  <1> QED
    BY <1>1, <1>2, SentIs

LEMMA SendIfCondDoes ==
    ASSUME card \in Card, NEW r \in Sent(SendIfCond(card))
    PROVE  /\ Counts(r) /\ Keeps(r.card)
           /\ ~r.err => r.resp.pattern = IsSd(card)
  <1> DEFINE legal == \/ card.kind \in {"SD2", "SDHC"} /\ card.state = "idle"
                      \/ IsMmc4(card) /\ card.state = "tran"
  <1>1. ASSUME NEW a \in SendIfCond(card)
        PROVE  a.heard \in BOOLEAN /\ Keeps(a.card) /\ (a.heard => a.resp.pattern = IsSd(card))
    <2>1. a = Obey(card, legal, card, [pattern |-> IsSd(card)])
      BY DEF SendIfCond
    <2>2. legal \in BOOLEAN
      BY DEF IsMmc4
    <2> HIDE DEF legal
    <2>3. /\ a.heard = legal
          /\ legal => Keeps(a.card) /\ a.resp = [pattern |-> IsSd(card)]
          /\ ~legal => Keeps(a.card)
      BY <2>1, <2>2, ObeyIs DEF Keeps
    <2> QED
      BY <2>2, <2>3
  <1>2. Keeps(card)
    BY DEF Keeps, Moves
  <1> QED
    BY <1>1, <1>2, SentIs

LEMMA AppCmdDoes ==
    ASSUME card \in Card, NEW rca, NEW r \in Sent(AppCmd(card, rca))
    PROVE  Counts(r) /\ Keeps(r.card)
  <1> DEFINE legal == IsSd(card) /\ \/ card.state = "idle" /\ rca = 0
                                    \/ card.state \in {"stby", "tran"} /\ rca = card.rca
             c == [card EXCEPT !.app = legal]
  <1>1. \A a \in AppCmd(card, rca) : a.heard \in BOOLEAN /\ Keeps(a.card)
    <2>1. legal \in BOOLEAN
      BY DEF IsSd
    <2>2. AppCmd(card, rca) = {[card |-> c, heard |-> legal, resp |-> NoAnswer]}
      BY Zenon DEF AppCmd
    <2> HIDE DEF legal
    <2>3. Keeps(c)
      BY <2>1 DEF Keeps, Moves, Card
    <2> HIDE DEF c
    <2> QED
      BY <2>1, <2>2, <2>3
  <1>2. Keeps(card)
    BY DEF Keeps, Moves
  <1> QED
    BY <1>1, <1>2, SentIs

\* Powering up: a card that says it is ready has left its idle state.
PoweredUp(r, legal, able) ==
    /\ Counts(r)
    /\ Keeps(r.card) \/ (legal /\ card.state = "idle" /\ Moves(r.card, "ready", card.rca, card.width))
    /\ ~r.err => /\ legal /\ r.resp.done \in BOOLEAN
                 /\ r.resp.hcs = BySector(card)
                 /\ r.resp.done => able /\ r.card.state = "ready"
                 /\ ~r.resp.done => r.card.state = "idle"

LEMMA PowerUpDoes ==
    ASSUME card \in Card, NEW legal \in BOOLEAN, NEW able \in BOOLEAN,
           NEW r \in Sent(PowerUp(card, legal, able))
    PROVE  PoweredUp(r, legal, able)
  <1>1. ASSUME NEW a \in PowerUp(card, legal, able)
        PROVE  /\ a.heard \in BOOLEAN
               /\ Keeps(a.card) \/ (legal /\ card.state = "idle"
                                    /\ Moves(a.card, "ready", card.rca, card.width))
               /\ a.heard => /\ legal /\ card.state = "idle"
                             /\ a.resp.done \in BOOLEAN
                             /\ a.resp.hcs = BySector(card)
                             /\ a.resp.done => able /\ a.card.state = "ready"
                             /\ ~a.resp.done => a.card.state = "idle"
    <2> DEFINE up == legal /\ card.state = "idle"
               new(done) == IF done THEN [card EXCEPT !.state = "ready"] ELSE card
               resp(done) == [done |-> done, hcs |-> BySector(card)]
    <2>1. PICK done \in IF able THEN BOOLEAN ELSE {FALSE} :
             a = Obey(card, up, new(done), resp(done))
      BY DEF PowerUp
    <2>2. done \in BOOLEAN /\ (done => able)
      OBVIOUS
    <2>3. /\ new(done) \in Card /\ new(done).id = card.id /\ new(done).kind = card.kind
          /\ new(done).state = IF done THEN "ready" ELSE card.state
          /\ new(done).rca = card.rca /\ new(done).width = card.width
      BY <2>2 DEF Card, CardState
    <2>4. resp(done).done = done /\ resp(done).hcs = BySector(card)
      OBVIOUS
    <2>5. up \in BOOLEAN
      OBVIOUS
    <2>6. up <=> legal /\ card.state = "idle"
      OBVIOUS
    <2> HIDE DEF new, resp, up
    <2>7. /\ a.heard = up
          /\ up => Moves(a.card, new(done).state, new(done).rca, new(done).width)
                   /\ a.resp = resp(done)
          /\ ~up => Keeps(a.card)
      BY <2>1, <2>3, <2>5, ObeyIs
    <2>8. CASE up
      BY <2>2, <2>3, <2>4, <2>6, <2>7, <2>8 DEF Keeps, Moves
    <2>9. CASE ~up
      BY <2>5, <2>6, <2>7, <2>9
    <2> QED
      BY <2>8, <2>9
  <1>2. Keeps(card)
    BY DEF Keeps, Moves
  <1>3. /\ Counts(r)
        /\ \/ r.err /\ r.card = card
           \/ \E a \in PowerUp(card, legal, able) :
                 r.card = a.card /\ (~r.err => a.heard /\ r.resp = a.resp)
    BY <1>1, SentIs
  <1> QED
    BY <1>1, <1>2, <1>3 DEF PoweredUp, Keeps, Moves, Counts

LEMMA SdSendOpCondDoes ==
    ASSUME card \in Card, NEW hcs, NEW able \in BOOLEAN, NEW r \in Sent(SdSendOpCond(card, hcs, able))
    PROVE  /\ Counts(r)
           /\ \/ Keeps(r.card)
              \/ IsSd(card) /\ card.state = "idle" /\ Moves(r.card, "ready", card.rca, card.width)
           /\ ~r.err => /\ IsSd(card) /\ r.resp.done \in BOOLEAN
                        /\ r.resp.hcs = BySector(card)
                        /\ r.resp.done => able /\ r.card.state = "ready"
                        /\ r.card.state = IF r.resp.done THEN "ready" ELSE "idle"
  <1> DEFINE legal == IsSd(card) /\ card.app
             ready == able /\ (BySector(card) => hcs)
  <1>1. legal \in BOOLEAN /\ ready \in BOOLEAN /\ (legal => IsSd(card)) /\ (ready => able)
    BY DEF IsSd, BySector, Card
  <1>2. r \in Sent(PowerUp(card, legal, ready))
    BY DEF SdSendOpCond
  <1> HIDE DEF legal, ready
  <1> QED
    BY <1>1, <1>2, PowerUpDoes DEF PoweredUp

LEMMA MmcSendOpCondDoes ==
    ASSUME card \in Card, NEW able \in BOOLEAN, NEW r \in Sent(MmcSendOpCond(card, able))
    PROVE  /\ Counts(r)
           /\ \/ Keeps(r.card)
              \/ ~IsSd(card) /\ card.state = "idle" /\ Moves(r.card, "ready", card.rca, card.width)
           /\ ~r.err => /\ ~IsSd(card) /\ r.resp.done \in BOOLEAN
                        /\ r.resp.hcs = BySector(card)
                        /\ r.resp.done => able /\ r.card.state = "ready"
                        /\ r.card.state = IF r.resp.done THEN "ready" ELSE "idle"
  <1> DEFINE legal == card.kind \in MmcKinds
  <1>1. legal \in BOOLEAN /\ (legal => ~IsSd(card))
    BY DEF IsSd, MmcKinds, SdKinds
  <1>2. r \in Sent(PowerUp(card, legal, able))
    BY DEF MmcSendOpCond
  <1> HIDE DEF legal
  <1> QED
    BY <1>1, <1>2, PowerUpDoes DEF PoweredUp

LEMMA SendCsdDoes ==
    ASSUME card \in Card, NEW rca, NEW r \in Sent(SendCsd(card, rca))
    PROVE  /\ Counts(r) /\ Keeps(r.card)
           /\ ~r.err => card.state = "stby" /\ card.rca = rca
  <1> DEFINE legal == card.state = "stby" /\ card.rca = rca
             resp == [mmc4 |-> IsMmc4(card)]
  <1>1. ASSUME NEW a \in SendCsd(card, rca)
        PROVE  a.heard \in BOOLEAN /\ Keeps(a.card) /\ (a.heard => card.state = "stby" /\ card.rca = rca)
    <2>1. a = Obey(card, legal, card, resp)
      BY DEF SendCsd
    <2>2. legal \in BOOLEAN
      BY DEF IsSd, IsMmc4
    <2> HIDE DEF legal, resp
    <2>3. /\ a.heard = legal
          /\ legal => Keeps(a.card) /\ a.resp = resp
          /\ ~legal => Keeps(a.card)
      BY <2>1, <2>2, ObeyIs DEF Keeps
    <2>4. a.heard => card.state = "stby" /\ card.rca = rca
      BY <2>2, <2>3 DEF legal, resp
    <2> QED
      BY <2>2, <2>3, <2>4
  <1>2. Keeps(card)
    BY DEF Keeps, Moves
  <1> HIDE DEF legal, resp
  <1> QED
    BY <1>1, <1>2, SentIs

LEMMA SendExtCsdDoes ==
    ASSUME card \in Card, NEW r \in Sent(SendExtCsd(card))
    PROVE  /\ Counts(r) /\ Keeps(r.card)
           /\ ~r.err => card.state = "tran" /\ r.resp.sectors = BySector(card)
  <1> DEFINE legal == IsMmc4(card) /\ card.state = "tran"
             resp == [sectors |-> BySector(card)]
  <1>1. ASSUME NEW a \in SendExtCsd(card)
        PROVE  /\ a.heard \in BOOLEAN /\ Keeps(a.card)
               /\ a.heard => card.state = "tran" /\ a.resp.sectors = BySector(card)
    <2>1. a = Obey(card, legal, card, resp)
      BY DEF SendExtCsd
    <2>2. legal \in BOOLEAN
      BY DEF IsSd, IsMmc4
    <2>3. resp.sectors = BySector(card)
      OBVIOUS
    <2> HIDE DEF legal, resp
    <2>4. /\ a.heard = legal
          /\ legal => Keeps(a.card) /\ a.resp = resp
          /\ ~legal => Keeps(a.card)
      BY <2>1, <2>2, ObeyIs DEF Keeps
    <2>5. a.heard => card.state = "tran" /\ a.resp.sectors = BySector(card)
      BY <2>2, <2>3, <2>4 DEF legal
    <2> QED
      BY <2>2, <2>4, <2>5
  <1>2. Keeps(card)
    BY DEF Keeps, Moves
  <1> HIDE DEF legal, resp
  <1> QED
    BY <1>1, <1>2, SentIs

LEMMA SetBlocklenDoes ==
    ASSUME card \in Card, NEW r \in Sent(SetBlocklen(card))
    PROVE  /\ Counts(r) /\ Keeps(r.card)
           /\ ~r.err => card.state = "tran"
  <1> DEFINE legal == card.state = "tran"
             resp == NoAnswer
  <1>1. ASSUME NEW a \in SetBlocklen(card)
        PROVE  a.heard \in BOOLEAN /\ Keeps(a.card) /\ (a.heard => card.state = "tran")
    <2>1. a = Obey(card, legal, card, resp)
      BY DEF SetBlocklen
    <2>2. legal \in BOOLEAN
      BY DEF IsSd, IsMmc4
    <2> HIDE DEF legal, resp
    <2>3. /\ a.heard = legal
          /\ legal => Keeps(a.card) /\ a.resp = resp
          /\ ~legal => Keeps(a.card)
      BY <2>1, <2>2, ObeyIs DEF Keeps
    <2>4. a.heard => card.state = "tran"
      BY <2>2, <2>3 DEF legal, resp
    <2> QED
      BY <2>2, <2>3, <2>4
  <1>2. Keeps(card)
    BY DEF Keeps, Moves
  <1> HIDE DEF legal, resp
  <1> QED
    BY <1>1, <1>2, SentIs

LEMMA AllSendCidDoes ==
    ASSUME card \in Card, NEW r \in Sent(AllSendCid(card))
    PROVE  /\ Counts(r)
           /\ \/ r.err /\ Keeps(r.card)
              \/ card.state = "ready" /\ Moves(r.card, "ident", card.rca, card.width)
  <1> DEFINE legal == card.kind # "empty" /\ card.state = "ready"
             new == [card EXCEPT !.state = "ident"]
  <1>1. /\ new \in Card /\ new.id = card.id /\ new.kind = card.kind
        /\ new.state = "ident" /\ new.rca = card.rca /\ new.width = card.width
    BY DEF Card, CardState
  <1>2. legal \in BOOLEAN /\ (legal => card.state = "ready")
    BY DEF IsSd, IsMmc4
  <1>3. \A a \in AllSendCid(card) : a = Obey(card, legal, new, NoAnswer)
    BY DEF AllSendCid
  <1> HIDE DEF legal, new
  <1>4. ASSUME NEW a \in AllSendCid(card)
        PROVE  /\ a.heard \in BOOLEAN
               /\ \/ ~a.heard /\ Keeps(a.card)
                  \/ card.state = "ready" /\ Moves(a.card, "ident", card.rca, card.width)
    <2>1. /\ a.heard = legal
          /\ legal => Moves(a.card, "ident", card.rca, card.width)
          /\ ~legal => Keeps(a.card)
      BY <1>1, <1>2, <1>3, ObeyIs
    <2> QED
      BY <1>2, <2>1
  <1>5. Keeps(card)
    BY DEF Keeps, Moves
  <1> QED
    BY <1>4, <1>5, SentIs

LEMMA SetBusWidthDoes ==
    ASSUME card \in Card, NEW r \in Sent(SetBusWidth(card))
    PROVE  /\ Counts(r)
           /\ \/ r.err /\ Keeps(r.card)
              \/ card.state = "tran" /\ Moves(r.card, card.state, card.rca, 4)
  <1> DEFINE legal == IsSd(card) /\ card.app /\ card.state = "tran"
             new == [card EXCEPT !.width = 4]
  <1>1. /\ new \in Card /\ new.id = card.id /\ new.kind = card.kind
        /\ new.state = card.state /\ new.rca = card.rca /\ new.width = 4
    BY DEF Card, CardState
  <1>2. legal \in BOOLEAN /\ (legal => card.state = "tran")
    BY DEF IsSd, IsMmc4
  <1>3. \A a \in SetBusWidth(card) : a = Obey(card, legal, new, NoAnswer)
    BY DEF SetBusWidth
  <1> HIDE DEF legal, new
  <1>4. ASSUME NEW a \in SetBusWidth(card)
        PROVE  /\ a.heard \in BOOLEAN
               /\ \/ ~a.heard /\ Keeps(a.card)
                  \/ card.state = "tran" /\ Moves(a.card, card.state, card.rca, 4)
    <2>1. /\ a.heard = legal
          /\ legal => Moves(a.card, card.state, card.rca, 4)
          /\ ~legal => Keeps(a.card)
      BY <1>1, <1>2, <1>3, ObeyIs
    <2> QED
      BY <1>2, <2>1
  <1>5. Keeps(card)
    BY DEF Keeps, Moves
  <1> QED
    BY <1>4, <1>5, SentIs

LEMMA SwitchDoes ==
    ASSUME card \in Card, NEW width \in {1, 4}, NEW r \in Sent(Switch(card, width))
    PROVE  /\ Counts(r)
           /\ \/ r.err /\ Keeps(r.card)
              \/ card.state = "tran" /\ Moves(r.card, card.state, card.rca, width)
  <1> DEFINE legal == IsMmc4(card) /\ card.state = "tran"
             new == [card EXCEPT !.width = width]
  <1>1. /\ new \in Card /\ new.id = card.id /\ new.kind = card.kind
        /\ new.state = card.state /\ new.rca = card.rca /\ new.width = width
    BY DEF Card, CardState
  <1>2. legal \in BOOLEAN /\ (legal => card.state = "tran")
    BY DEF IsSd, IsMmc4
  <1>3. \A a \in Switch(card, width) : a = Obey(card, legal, new, NoAnswer)
    BY DEF Switch
  <1> HIDE DEF legal, new
  <1>4. ASSUME NEW a \in Switch(card, width)
        PROVE  /\ a.heard \in BOOLEAN
               /\ \/ ~a.heard /\ Keeps(a.card)
                  \/ card.state = "tran" /\ Moves(a.card, card.state, card.rca, width)
    <2>1. /\ a.heard = legal
          /\ legal => Moves(a.card, card.state, card.rca, width)
          /\ ~legal => Keeps(a.card)
      BY <1>1, <1>2, <1>3, ObeyIs
    <2> QED
      BY <1>2, <2>1
  <1>5. Keeps(card)
    BY DEF Keeps, Moves
  <1> QED
    BY <1>4, <1>5, SentIs

LEMMA RelativeAddrDoes ==
    ASSUME card \in Card, NEW rca \in {0} \cup Rcas, NEW r \in Sent(RelativeAddr(card, rca))
    PROVE  /\ Counts(r)
           /\ \/ r.err /\ Keeps(r.card)
              \/ \E a \in IF IsSd(card) THEN Rcas ELSE {rca} :
                    /\ card.state \in {"ident", "stby"}
                    /\ Moves(r.card, "stby", a, card.width)
                    /\ ~r.err => r.resp.rca = a
  <1> DEFINE legal == \/ IsSd(card) /\ card.state \in {"ident", "stby"}
                      \/ card.kind \in MmcKinds /\ card.state = "ident"
             new(a) == [card EXCEPT !.state = "stby", !.rca = a]
             resp(a) == [rca |-> a]
             own == IF IsSd(card) THEN Rcas ELSE {rca}
  <1>1. ASSUME NEW a \in own
        PROVE  /\ new(a) \in Card /\ new(a).id = card.id /\ new(a).kind = card.kind
               /\ new(a).state = "stby" /\ new(a).rca = a /\ new(a).width = card.width
               /\ resp(a).rca = a
    BY DEF Card, CardState
  <1>2. legal \in BOOLEAN /\ (legal => card.state \in {"ident", "stby"})
    BY DEF IsSd
  <1>3. \A s \in RelativeAddr(card, rca) : \E a \in own : s = Obey(card, legal, new(a), resp(a))
    BY DEF RelativeAddr
  <1> HIDE DEF legal, new, resp, own
  <1>4. ASSUME NEW s \in RelativeAddr(card, rca)
        PROVE  /\ s.heard \in BOOLEAN
               /\ \/ ~s.heard /\ Keeps(s.card)
                  \/ \E a \in own : /\ card.state \in {"ident", "stby"}
                                    /\ Moves(s.card, "stby", a, card.width)
                                    /\ s.resp.rca = a
    <2>1. PICK a \in own : s = Obey(card, legal, new(a), resp(a))
      BY <1>3
    <2>2. /\ s.heard = legal
          /\ legal => Moves(s.card, "stby", a, card.width) /\ s.resp = resp(a)
          /\ ~legal => Keeps(s.card)
      BY <1>1, <1>2, <2>1, ObeyIs
    <2> QED
      BY <1>1, <1>2, <2>2
  <1>5. Keeps(card)
    BY DEF Keeps, Moves
  <1>6. /\ Counts(r)
        /\ \/ r.err /\ r.card = card
           \/ \E s \in RelativeAddr(card, rca) :
                 r.card = s.card /\ (~r.err => s.heard /\ r.resp = s.resp)
    BY <1>4, SentIs
  <1> QED
    BY <1>4, <1>5, <1>6 DEF Counts, own

LEMMA SelectCardDoes ==
    ASSUME card \in Card, NEW rca, NEW r \in Sent(SelectCard(card, rca))
    PROVE  /\ Counts(r)
           /\ \/ r.err /\ Keeps(r.card)
              \/ /\ card.state = "stby" /\ card.rca = rca
                 /\ Moves(r.card, "tran", card.rca, card.width)
  <1> DEFINE legal(able) == card.state = "stby" /\ card.rca = rca /\ able
             new == [card EXCEPT !.state = "tran"]
  <1>1. /\ new \in Card /\ new.id = card.id /\ new.kind = card.kind
        /\ new.state = "tran" /\ new.rca = card.rca /\ new.width = card.width
    BY DEF Card, CardState
  <1>2. \A able \in BOOLEAN :
           legal(able) \in BOOLEAN /\ (legal(able) => card.state = "stby" /\ card.rca = rca)
    OBVIOUS
  <1>3. \A a \in SelectCard(card, rca) : \E able \in BOOLEAN : a = Obey(card, legal(able), new, NoAnswer)
    BY DEF SelectCard
  <1> HIDE DEF legal, new
  <1>4. ASSUME NEW a \in SelectCard(card, rca)
        PROVE  /\ a.heard \in BOOLEAN
               /\ \/ ~a.heard /\ Keeps(a.card)
                  \/ /\ card.state = "stby" /\ card.rca = rca
                     /\ Moves(a.card, "tran", card.rca, card.width)
    <2>1. PICK able \in BOOLEAN : a = Obey(card, legal(able), new, NoAnswer)
      BY <1>3
    <2>2. /\ a.heard = legal(able)
          /\ legal(able) => Moves(a.card, "tran", card.rca, card.width)
          /\ ~legal(able) => Keeps(a.card)
      BY <1>1, <1>2, <2>1, ObeyIs
    <2> QED
      BY <1>2, <2>2
  <1>5. Keeps(card)
    BY DEF Keeps, Moves
  <1> QED
    BY <1>4, <1>5, SentIs

LEMMA SendScrDoes ==
    ASSUME card \in Card, NEW r \in Sent(SendScr(card))
    PROVE  /\ Counts(r) /\ Keeps(r.card)
           /\ ~r.err => IsSd(card) /\ card.state = "tran" /\ r.resp.spec \in SdVersions
  <1> DEFINE legal == IsSd(card) /\ card.app /\ card.state = "tran"
             spec == CASE card.kind = "SD1" -> "SD_1_0" [] card.kind = "SD11" -> "SD_1_10"
                       [] OTHER -> "SD_2"
             resp(w) == [spec |-> spec, wide |-> w]
  <1>1. \A w : resp(w).spec = spec
    OBVIOUS
  <1>2. legal \in BOOLEAN /\ (legal => IsSd(card) /\ card.state = "tran")
    BY DEF IsSd, Card
  <1>3. \A a \in SendScr(card) : \E w \in BOOLEAN : a = Obey(card, legal, card, resp(w))
    BY DEF SendScr
  <1>4. spec \in SdVersions
    BY DEF SdVersions
  <1> HIDE DEF legal, resp, spec
  <1>5. ASSUME NEW a \in SendScr(card)
        PROVE  /\ a.heard \in BOOLEAN /\ Keeps(a.card)
               /\ a.heard => IsSd(card) /\ card.state = "tran" /\ a.resp.spec \in SdVersions
    <2>1. PICK w \in BOOLEAN : a = Obey(card, legal, card, resp(w))
      BY <1>3
    <2>2. /\ a.heard = legal
          /\ legal => Keeps(a.card) /\ a.resp = resp(w)
          /\ ~legal => Keeps(a.card)
      BY <1>2, <2>1, ObeyIs DEF Keeps
    <2> QED
      BY <1>1, <1>2, <1>4, <2>2
  <1>6. Keeps(card)
    BY DEF Keeps, Moves
  <1> QED
    BY <1>5, <1>6, SentIs

LEMMA ReadSingleBlockDoes ==
    ASSUME card \in Card, NEW arg, NEW r \in Sent(ReadSingleBlock(card, arg))
    PROVE  /\ Counts(r) /\ Keeps(r.card)
           /\ ~r.err => /\ card.state = "tran"
                        /\ r.resp.data = <<card.id, IF BySector(card) THEN arg ELSE arg \div BlockLen>>
  <1> DEFINE block == IF BySector(card) THEN arg ELSE arg \div BlockLen
             legal == /\ card.state = "tran" /\ block < CardBlocks
                      /\ BySector(card) \/ arg % BlockLen = 0
             resp == [data |-> <<card.id, block>>]
  <1>1. resp.data = <<card.id, block>>
    OBVIOUS
  <1>2. legal \in BOOLEAN /\ (legal => card.state = "tran")
    BY DEF BySector
  <1>3. \A a \in ReadSingleBlock(card, arg) : a = Obey(card, legal, card, resp)
    BY DEF ReadSingleBlock
  <1> HIDE DEF legal, resp, block
  <1>4. ASSUME NEW a \in ReadSingleBlock(card, arg)
        PROVE  /\ a.heard \in BOOLEAN /\ Keeps(a.card)
               /\ a.heard => card.state = "tran" /\ a.resp.data = <<card.id, block>>
    <2>1. /\ a.heard = legal
          /\ legal => Keeps(a.card) /\ a.resp = resp
          /\ ~legal => Keeps(a.card)
      BY <1>2, <1>3, ObeyIs DEF Keeps
    <2> QED
      BY <1>1, <1>2, <2>1
  <1>5. Keeps(card)
    BY DEF Keeps, Moves
  <1> QED
    BY <1>4, <1>5, SentIs DEF block

-----------------------------------------------------------------------------
\* MmcInv is inductive.

\* struct mmc.
Struct == [version : {"none"} \cup SdVersions \cup MmcVersions, high_capacity : BOOLEAN,
           rca : {0} \cup Rcas, bus_width : {0, 1, 4}]

LEMMA MmcInvInitially == Init => MmcInv
  <1> SUFFICES ASSUME Init
               PROVE  MmcInv
    OBVIOUS
  <1>1. PICK k \in Kinds :
           card = [id |-> 0, kind |-> k, state |-> "idle", rca |-> 0, app |-> FALSE, width |-> 1]
    BY DEF Init, Inserted
  <1>2. card \in Card /\ card.id = 0 /\ card.state = "idle" /\ card.width = 1
    BY <1>1, CardAssumption DEF Card, CardState
  <1>3. mmc \in Struct /\ mmc.version = "none" /\ mmc.rca = 0
    BY DEF Init, Struct
  <1>4. TypeOK
    BY <1>2, <1>3, MmcAssumption DEF Init, TypeOK, Struct, NoReq, NotSetUp
  <1> QED
    BY <1>2, <1>3, <1>4
    DEF Init, MmcInv, CardIsAt, Identified, Lines, SetUpIs, Reads, Units, Stored, InUse, NotSetUp

\* What holds of card, faults and swaps after any command.
LEMMA TookOK ==
    ASSUME TypeOK, NEW r, Counts(r), NEW state, NEW rca, NEW width, Moves(r.card, state, rca, width),
           Took(r), UNCHANGED swaps
    PROVE  /\ card' \in Card /\ card'.id = swaps' /\ swaps' \in 0..MaxSwaps
           /\ faults' \in 0..MaxFaults
  BY MmcAssumption DEF TypeOK, Counts, Moves, Took

LEMMA Quotient ==
    ASSUME NEW a \in Nat, NEW b \in Nat \ {0}
    PROVE  a * b \in Nat /\ a \div b \in Nat /\ (a * b) \div b = a
  OBVIOUS

\* One block more is stored, and it is the next of those asked for, or none.
LEMMA ReadStores ==
    ASSUME MmcInv, mmc_read_block
    PROVE  /\ got' \in Seq(Nat \X Nat) /\ Len(got') \in 0..req.count
           /\ req \in [start : Starts, count : 0..MaxCount]
           /\ ~LastTry => \A k \in 1..Len(got') : got'[k] = <<setUp, req.start + k - 1>>
           /\ \/ Returns
              \/ UNCHANGED <<req, pc, setUp>> /\ Len(got') < req.count
           /\ \E r : Counts(r) /\ Keeps(r.card) /\ Took(r)
  <1> DEFINE blocknum == req.start + Len(got)
             cmdarg   == IF mmc.high_capacity THEN blocknum ELSE blocknum * BlockLen
             block    == IF BySector(card) THEN cmdarg ELSE cmdarg \div BlockLen
  <1>1. PICK r \in Sent(ReadSingleBlock(card, cmdarg)) :
           /\ Took(r)
           /\ got' = IF r.err THEN got ELSE Append(got, r.resp.data)
           /\ IF r.err \/ Len(got') = req.count THEN Returns ELSE UNCHANGED <<req, pc, setUp>>
    BY DEF mmc_read_block
  <1>2. /\ card \in Card /\ card.id \in Nat /\ pc = "read"
        /\ got \in Seq(Nat \X Nat) /\ req \in [start : Starts, count : 0..MaxCount]
        /\ Len(got) < req.count
    BY DEF mmc_read_block, MmcInv, TypeOK, Reads, Card
  <1>3. /\ Counts(r) /\ Keeps(r.card)
        /\ ~r.err => card.state = "tran" /\ r.resp.data = <<card.id, block>>
    BY <1>1, <1>2, ReadSingleBlockDoes
  <1>4. /\ Len(got) \in Nat /\ req.start \in Nat /\ req.count \in Nat
        /\ blocknum \in Nat /\ BlockLen \in Nat \ {0}
    <2>1. Len(got) \in Nat
      BY <1>2
    <2>2. req.start \in Nat /\ req.count \in Nat
      <3>1. req.start \in Starts /\ req.count \in 0..MaxCount
        BY <1>2
      <3>2. Starts \subseteq Nat /\ MaxCount \in Nat
        BY MmcAssumption
      <3>3. req.start \in Nat
        BY <3>1, <3>2
      <3> QED
        BY <3>1, <3>2, <3>3
    <2> QED
      BY <2>1, <2>2, CardAssumption
  <1>5. cmdarg \in Nat /\ cmdarg \div BlockLen \in Nat /\ block \in Nat
    BY <1>4, Quotient
  <1>6. (mmc.high_capacity <=> BySector(card)) => block = blocknum
    BY <1>4, Quotient
  <1> HIDE DEF block, cmdarg, blocknum
  <1>7. CASE r.err
    <2>1. ~LastTry => \A k \in 1..Len(got) : got[k] = <<setUp, req.start + k - 1>>
      BY <1>2 DEF MmcInv, Stored
    <2> QED
      BY <1>1, <1>2, <1>3, <1>4, <1>7, <2>1
  <1>8. CASE ~r.err
    <2>1. r.resp.data \in Nat \X Nat
      <3>1. r.resp.data = <<card.id, block>>
        BY <1>3, <1>8
      <3> QED
        BY <1>2, <1>5, <3>1
    <2>2. /\ got' = Append(got, r.resp.data) /\ got' \in Seq(Nat \X Nat)
          /\ Len(got') = Len(got) + 1
          /\ got'[Len(got) + 1] = r.resp.data
          /\ \A k \in 1..Len(got) : got'[k] = got[k]
      BY <1>1, <1>2, <1>8, <2>1
    <2>3. Len(got') \in 0..req.count
      BY <1>2, <1>4, <2>2
    <2>4. ASSUME ~LastTry, NEW k \in 1..Len(got')
          PROVE  got'[k] = <<setUp, req.start + k - 1>>
      <3>1. CASE k <= Len(got)
        BY <1>2, <1>4, <2>2, <2>4, <3>1 DEF MmcInv, Stored
      <3>2. CASE k = Len(got) + 1
        <4>1. card.id = setUp /\ (mmc.high_capacity <=> BySector(card))
          BY <1>2, <1>3, <1>8, <2>4 DEF MmcInv, SetUpIs, Units, StillThere, InUse, Selected, Found
        <4> QED
          BY <1>3, <1>4, <1>6, <1>8, <2>2, <3>2, <4>1 DEF blocknum
      <3>3. k <= Len(got) \/ k = Len(got) + 1
        BY ONLY <1>4, <2>2, k \in 1..Len(got')
      <3> QED
        BY ONLY <3>1, <3>2, <3>3
    <2>5. Returns \/ (UNCHANGED <<req, pc, setUp>> /\ Len(got') < req.count)
      BY <1>1, <1>4, <1>8, <2>3
    <2> QED
      BY <1>1, <1>2, <1>3, <2>2, <2>3, <2>4, <2>5
  <1> QED
    BY <1>7, <1>8

LEMMA MmcInvStep == MmcInv /\ [Next]_vars => MmcInv'
  <1> SUFFICES ASSUME MmcInv, [Next]_vars
               PROVE  MmcInv'
    OBVIOUS
  <1> USE MmcAssumption
      DEF Looking, Configuring, InUse, Selected, Found, Goto, Fails, Continue, Succeeds, drvVars, readVars,
          MmcInv
  <1>1. card \in Card
    BY DEF TypeOK
  <1>2. CASE mmc_go_idle
    <2>1. PICK r \in Sent(GoIdle(card)) :
             Took(r)
      BY <1>2 DEF mmc_go_idle
    <2>2. Counts(r) /\ (Keeps(r.card) \/ Moves(r.card, "idle", 0, 1))
      BY <1>1, <2>1, GoIdleDoes
    <2>3. UNCHANGED swaps
      BY <1>2 DEF mmc_go_idle
    <2>4. /\ card' \in Card /\ card'.id = swaps' /\ swaps' \in 0..MaxSwaps
          /\ faults' \in 0..MaxFaults
      BY <2>1, <2>2, <2>3, TookOK DEF Keeps
    <2> QED
      BY <1>2, <2>1, <2>2, <2>4
      DEF mmc_go_idle, TypeOK, CardIsAt, Identified, Lines, SetUpIs, Reads, Units, Stored, IS_SD,
          Moves, Keeps, Took
  <1>3. CASE mmc_send_if_cond
    <2>1. PICK r \in Sent(SendIfCond(card)) :
             /\ Took(r)
             /\ mmc' = IF ~r.err /\ r.resp.pattern THEN [mmc EXCEPT !.version = "SD_2"] ELSE mmc
      BY <1>3 DEF mmc_send_if_cond
    <2>2. Counts(r) /\ Keeps(r.card)
      BY <1>1, <2>1, SendIfCondDoes
    <2>3. UNCHANGED swaps
      BY <1>3 DEF mmc_send_if_cond
    <2>4. /\ card' \in Card /\ card'.id = swaps' /\ swaps' \in 0..MaxSwaps
          /\ faults' \in 0..MaxFaults
      BY <2>1, <2>2, <2>3, TookOK DEF Keeps
    <2>5. /\ mmc' \in Struct /\ mmc'.version \in {mmc.version, "SD_2"}
          /\ mmc'.rca = mmc.rca /\ mmc'.bus_width = mmc.bus_width
      BY <2>1, <2>2 DEF TypeOK, Struct, IS_SD, SdVersions, MmcVersions
    <2>6. TypeOK'
      BY <1>3, <2>1, <2>2, <2>4, <2>5 DEF mmc_send_if_cond, TypeOK, Struct
    <2>7. (CardIsAt /\ Identified /\ Lines /\ Units)'
      BY <1>3, <2>1, <2>2, <2>5
      DEF mmc_send_if_cond, CardIsAt, Identified, Lines, Units, IS_SD, SdVersions, Moves, Keeps,
          Took
    <2>8. (SetUpIs /\ Reads /\ Stored)'
      BY <1>3, <2>1, <2>2, <2>4 DEF mmc_send_if_cond, TypeOK, SetUpIs, Reads, Stored
    <2> QED
      BY <2>6, <2>7, <2>8
  <1>4. CASE SdOpCondApp
    <2>1. PICK r \in Sent(AppCmd(card, 0)) :
             Took(r) /\ (IF r.err THEN TryMmc ELSE Continue("op_cond"))
      BY <1>4 DEF SdOpCondApp
    <2>2. Counts(r) /\ Keeps(r.card)
      BY <1>1, <2>1, AppCmdDoes
    <2>3. UNCHANGED swaps
      BY <1>4 DEF SdOpCondApp
    <2>4. /\ card' \in Card /\ card'.id = swaps' /\ swaps' \in 0..MaxSwaps
          /\ faults' \in 0..MaxFaults
      BY <2>1, <2>2, <2>3, TookOK DEF Keeps
    <2> QED
      BY <1>4, <2>1, <2>2, <2>4
      DEF SdOpCondApp, TryMmc, TypeOK, CardIsAt, Identified, Lines, SetUpIs, Reads, Units, Stored,
          IS_SD, Moves, Keeps, Took
  <1>5. CASE SdOpCond
    <2>1. PICK r \in Sent(SdSendOpCond(card, mmc.version = "SD_2", timeout > 0 \/ LastTry)) :
             /\ Took(r)
             /\ \/ r.err /\ TryMmc
                \/ /\ ~r.err /\ ~r.resp.done /\ CountDown
                   /\ Goto("op_app")
                   /\ UNCHANGED mmc
                \/ /\ ~r.err /\ (r.resp.done \/ timeout = 0)
                   /\ mmc' = IF r.resp.done /\ timeout > 0 THEN SdReady(r.resp.hcs) ELSE mmc
                   /\ Goto("cid")
                   /\ UNCHANGED timeout
      BY <1>5 DEF SdOpCond
    <2>2. /\ Counts(r)
          /\ \/ Keeps(r.card)
             \/ IsSd(card) /\ card.state = "idle" /\ Moves(r.card, "ready", card.rca, card.width)
          /\ ~r.err => /\ IsSd(card) /\ r.resp.done \in BOOLEAN
                       /\ r.resp.hcs = BySector(card)
                       /\ r.resp.done => timeout > 0 \/ LastTry
                       /\ r.card.state = IF r.resp.done THEN "ready" ELSE "idle"
      BY <1>1, <2>1, SdSendOpCondDoes
    <2>3. pc = "op_cond" /\ UNCHANGED <<readVars, swaps>>
      BY <1>5 DEF SdOpCond
    <2>4. /\ card' \in Card /\ card'.id = swaps' /\ swaps' \in 0..MaxSwaps
          /\ faults' \in 0..MaxFaults
      BY <2>1, <2>2, <2>3, TookOK DEF Keeps
    <2>5. r.err \/ r.resp.hcs \in BOOLEAN
      <3>1. BySector(card) \in BOOLEAN
        BY DEF BySector
      <3> QED
        BY <2>2, <3>1, Zenon
    <2>6. /\ mmc' \in Struct /\ mmc'.bus_width = mmc.bus_width
          /\ IS_SD' \/ (mmc'.version = mmc.version /\ mmc'.rca = mmc.rca)
      <3>1. CASE mmc' = mmc
        BY <3>1 DEF TypeOK, Struct
      <3>2. CASE mmc' = SdReady(r.resp.hcs) /\ r.resp.hcs \in BOOLEAN
        BY <3>2 DEF SdReady, TypeOK, Struct, IS_SD, SdVersions
      <3> QED
        BY <2>1, <2>5, <3>1, <3>2 DEF TryMmc
    <2>7. /\ pc' \in {"op_app", "mmc_idle", "cid"} /\ setUp' = setUp
          /\ timeout' = timeout \/ (timeout > 0 /\ timeout' = timeout - 1)
          /\ pc' = "cid" => ~r.err
      BY <2>1 DEF TryMmc, CountDown
    <2>8. TypeOK'
      BY <2>3, <2>4, <2>6, <2>7 DEF TypeOK, Struct
    <2>9. (CardIsAt /\ Lines /\ SetUpIs /\ Reads /\ Stored)'
      BY <2>1, <2>2, <2>3, <2>6, <2>7
      DEF CardIsAt, Lines, SetUpIs, Reads, Stored, Took, Moves, Keeps
    <2>10. Identified'
      BY <2>1, <2>2, <2>3, <2>6, <2>7 DEF Identified, IS_SD, IsSd, Took, Moves, Keeps
    <2>11. Units'
      <3>1. ~LastTry /\ pc' = "cid" /\ card'.state # "idle" => mmc'.high_capacity = r.resp.hcs
        BY <2>1, <2>2, <2>3, <2>7 DEF TypeOK, SdReady, Took
      <3>2. BySector(card') = BySector(card)
        BY <2>1, <2>2 DEF Took, Moves, Keeps, BySector
      <3> QED
        BY <2>2, <2>7, <3>1, <3>2 DEF Units
    <2> QED
      BY <2>8, <2>9, <2>10, <2>11
  <1>6. CASE MmcIdle
    <2>1. PICK r \in Sent(GoIdle(card)) :
             Took(r)
      BY <1>6 DEF MmcIdle
    <2>2. Counts(r) /\ (Keeps(r.card) \/ Moves(r.card, "idle", 0, 1))
      BY <1>1, <2>1, GoIdleDoes
    <2>3. UNCHANGED swaps
      BY <1>6 DEF MmcIdle
    <2>4. /\ card' \in Card /\ card'.id = swaps' /\ swaps' \in 0..MaxSwaps
          /\ faults' \in 0..MaxFaults
      BY <2>1, <2>2, <2>3, TookOK DEF Keeps
    <2> QED
      BY <1>6, <2>1, <2>2, <2>4
      DEF MmcIdle, TypeOK, CardIsAt, Identified, Lines, SetUpIs, Reads, Units, Stored, IS_SD, Moves,
          Keeps, Took
  <1>7. CASE MmcOpCond
    <2>1. PICK r \in Sent(MmcSendOpCond(card, timeout > 0 \/ LastTry)) :
             /\ Took(r)
             /\ OrFails(r,
                   \/ /\ ~r.resp.done /\ CountDown
                      /\ Goto("mmc_op_cond")
                      /\ UNCHANGED mmc
                   \/ timeout = 0 /\ Fails /\ UNCHANGED drvVars
                   \/ /\ r.resp.done /\ timeout > 0
                      /\ mmc' = [mmc EXCEPT !.version = "MMC_UNKNOWN",
                                            !.high_capacity = r.resp.hcs, !.rca = 0]
                      /\ Goto("cid")
                      /\ UNCHANGED timeout)
      BY <1>7 DEF MmcOpCond
    <2>2. /\ Counts(r)
          /\ \/ Keeps(r.card)
             \/ ~IsSd(card) /\ card.state = "idle" /\ Moves(r.card, "ready", card.rca, card.width)
          /\ ~r.err => /\ ~IsSd(card) /\ r.resp.done \in BOOLEAN
                       /\ r.resp.hcs = BySector(card)
                       /\ r.resp.done => timeout > 0 \/ LastTry
                       /\ r.card.state = IF r.resp.done THEN "ready" ELSE "idle"
      BY <1>1, <2>1, MmcSendOpCondDoes
    <2>3. pc = "mmc_op_cond" /\ UNCHANGED <<readVars, swaps>>
      BY <1>7 DEF MmcOpCond
    <2>4. /\ card' \in Card /\ card'.id = swaps' /\ swaps' \in 0..MaxSwaps
          /\ faults' \in 0..MaxFaults
      BY <2>1, <2>2, <2>3, TookOK DEF Keeps
    <2>5. r.err \/ r.resp.hcs \in BOOLEAN
      <3>1. BySector(card) \in BOOLEAN
        BY DEF BySector
      <3> QED
        BY <2>2, <3>1, Zenon
    <2>6. /\ mmc' \in Struct /\ mmc'.bus_width = mmc.bus_width
          /\ \/ mmc' = mmc /\ pc' # "cid"
             \/ mmc'.rca = 0 /\ mmc'.version = "MMC_UNKNOWN" /\ ~IS_SD'
      <3>1. CASE mmc' = mmc /\ pc' # "cid"
        BY <3>1 DEF TypeOK, Struct
      <3>2. CASE /\ mmc' = [mmc EXCEPT !.version = "MMC_UNKNOWN",
                                       !.high_capacity = r.resp.hcs, !.rca = 0]
                 /\ r.resp.hcs \in BOOLEAN
        BY <3>2 DEF TypeOK, Struct, IS_SD, SdVersions, MmcVersions
      <3> QED
        BY <2>1, <2>5, <3>1, <3>2 DEF OrFails, CountDown
    <2>7. /\ pc' \in {"mmc_op_cond", "prompt", "cid"} /\ setUp' = setUp
          /\ timeout' = timeout \/ (timeout > 0 /\ timeout' = timeout - 1)
          /\ pc' = "cid" => ~r.err
      BY <2>1 DEF OrFails, CountDown
    <2>8. TypeOK'
      BY <2>3, <2>4, <2>6, <2>7 DEF TypeOK, Struct
    <2>9. (CardIsAt /\ Lines /\ SetUpIs /\ Reads /\ Stored)'
      BY <2>1, <2>2, <2>3, <2>6, <2>7
      DEF CardIsAt, Lines, SetUpIs, Reads, Stored, Took, Moves, Keeps
    <2>10. Identified'
      BY <2>1, <2>2, <2>3, <2>6, <2>7 DEF Identified, IS_SD
    <2>11. Units'
      <3>1. ~LastTry /\ pc' = "cid" /\ card'.state # "idle" => mmc'.high_capacity = r.resp.hcs
        BY <2>1, <2>2, <2>3, <2>7 DEF TypeOK, OrFails, Took
      <3>2. BySector(card') = BySector(card)
        BY <2>1, <2>2 DEF Took, Moves, Keeps, BySector
      <3> QED
        BY <2>2, <2>7, <3>1, <3>2 DEF Units
    <2> QED
      BY <2>8, <2>9, <2>10, <2>11
  <1>8. CASE AllSendCidStep
    <2>1. PICK r \in Sent(AllSendCid(card)) :
             Took(r) /\ OrFails(r, Continue("rca"))
      BY <1>8 DEF AllSendCidStep
    <2>2. /\ Counts(r)
          /\ \/ r.err /\ Keeps(r.card)
             \/ card.state = "ready" /\ Moves(r.card, "ident", card.rca, card.width)
      BY <1>1, <2>1, AllSendCidDoes
    <2>3. UNCHANGED swaps
      BY <1>8 DEF AllSendCidStep
    <2>4. /\ card' \in Card /\ card'.id = swaps' /\ swaps' \in 0..MaxSwaps
          /\ faults' \in 0..MaxFaults
      BY <2>1, <2>2, <2>3, TookOK DEF Keeps
    <2> QED
      BY <1>8, <2>1, <2>2, <2>4, SMTT(30)
      DEF AllSendCidStep, OrFails, TypeOK, CardIsAt, Identified, Lines, SetUpIs, Reads, Units,
          Stored, IS_SD, Moves, Keeps, Took, IsSd, BySector
  <1>9. CASE SendRelativeAddr
    <2>1. PICK r \in Sent(RelativeAddr(card, mmc.rca)) :
             /\ Took(r)
             /\ OrFails(r, /\ mmc' = IF IS_SD THEN [mmc EXCEPT !.rca = r.resp.rca] ELSE mmc
                           /\ Goto("csd") /\ UNCHANGED timeout)
      BY <1>9 DEF SendRelativeAddr
    <2>2. /\ Counts(r)
          /\ \/ r.err /\ Keeps(r.card)
             \/ \E a \in IF IsSd(card) THEN Rcas ELSE {mmc.rca} :
                   /\ card.state \in {"ident", "stby"}
                   /\ Moves(r.card, "stby", a, card.width)
                   /\ ~r.err => r.resp.rca = a
      BY <1>1, <2>1, RelativeAddrDoes DEF TypeOK
    <2>3. UNCHANGED swaps
      BY <1>9 DEF SendRelativeAddr
    <2>4. /\ card' \in Card /\ card'.id = swaps' /\ swaps' \in 0..MaxSwaps
          /\ faults' \in 0..MaxFaults
      BY <2>1, <2>2, <2>3, TookOK DEF Keeps
    <2>5. /\ mmc' \in Struct /\ mmc'.bus_width = mmc.bus_width
          /\ mmc'.high_capacity = mmc.high_capacity
          /\ mmc'.version = mmc.version /\ (mmc'.rca = mmc.rca \/ IS_SD)
      BY <2>1, <2>2, ZenonT(40) DEF OrFails, TypeOK, Struct
    <2>6. TypeOK'
      BY <1>9, <2>1, <2>2, <2>4, <2>5 DEF SendRelativeAddr, OrFails, TypeOK
    <2>7. (CardIsAt /\ Identified /\ Lines /\ Units)'
      <3>1. /\ pc = "rca" /\ setUp' = setUp
            /\ \/ r.err /\ pc' = "prompt" /\ mmc' = mmc
               \/ ~r.err /\ pc' = "csd"
        BY <1>9, <2>1 DEF SendRelativeAddr, OrFails
      <3>2. CASE Keeps(r.card)
        BY <2>1, <2>2, <2>5, <3>1, <3>2
        DEF CardIsAt, Identified, Lines, Units, IS_SD, Moves, Keeps, Took
      <3>3. CASE \E a \in IF IsSd(card) THEN Rcas ELSE {mmc.rca} : Moves(r.card, "stby", a, card.width)
        <4>1. PICK a \in IF IsSd(card) THEN Rcas ELSE {mmc.rca} : Moves(r.card, "stby", a, card.width)
          BY <3>3
        <4>2. IsSd(card) => a # 0
          BY CardAssumption
        <4> QED
          BY <2>1, <2>2, <2>5, <3>1, <4>1, <4>2
          DEF CardIsAt, Identified, Lines, Units, IS_SD, Moves, Took, IsSd, BySector
      <3> QED
        BY <2>2, <3>2, <3>3
    <2>8. (SetUpIs /\ Reads /\ Stored)'
      BY <1>9, <2>1, <2>2, <2>4 DEF SendRelativeAddr, OrFails, TypeOK, SetUpIs, Reads, Stored
    <2> QED
      BY <2>6, <2>7, <2>8
  <1>10. CASE SendCsdStep
    <2>1. PICK r \in Sent(SendCsd(card, mmc.rca)) :
             /\ Took(r)
             /\ OrFails(r, /\ mmc' = IF mmc.version = "MMC_UNKNOWN"
                                     THEN [mmc EXCEPT !.version = IF r.resp.mmc4 THEN "MMC_4" ELSE "MMC_3"]
                                     ELSE mmc
                           /\ Goto("select") /\ UNCHANGED timeout)
      BY <1>10 DEF SendCsdStep
    <2>2. /\ Counts(r) /\ Keeps(r.card)
          /\ ~r.err => card.state = "stby" /\ card.rca = mmc.rca
      BY <1>1, <2>1, SendCsdDoes
    <2>3. UNCHANGED swaps
      BY <1>10 DEF SendCsdStep
    <2>4. /\ card' \in Card /\ card'.id = swaps' /\ swaps' \in 0..MaxSwaps
          /\ faults' \in 0..MaxFaults
      BY <2>1, <2>2, <2>3, TookOK DEF Keeps
    <2>5. /\ mmc' \in Struct /\ mmc'.bus_width = mmc.bus_width
          /\ mmc'.rca = mmc.rca /\ (IS_SD' <=> IS_SD)
      BY <2>1, <2>2 DEF OrFails, TypeOK, Struct, IS_SD, SdVersions, MmcVersions
    <2>6. TypeOK'
      BY <1>10, <2>1, <2>2, <2>4, <2>5 DEF SendCsdStep, OrFails, TypeOK, Struct
    <2>7. (CardIsAt /\ Identified /\ Lines /\ Units)'
      BY <1>10, <2>1, <2>2, <2>5
      DEF SendCsdStep, OrFails, TypeOK, CardIsAt, Identified, Lines, Units, Moves, Keeps, Took,
          IsSd, BySector
    <2>8. (SetUpIs /\ Reads /\ Stored)'
      BY <1>10, <2>1, <2>2, <2>4 DEF SendCsdStep, OrFails, TypeOK, SetUpIs, Reads, Stored
    <2> QED
      BY <2>6, <2>7, <2>8
  <1>11. CASE SelectCardStep
    <2>1. PICK r \in Sent(SelectCard(card, mmc.rca)) :
             /\ Took(r)
             /\ OrFails(r, \/ IS_SD /\ Continue("scr_app")
                           \/ mmc.version = "MMC_4" /\ Continue("ext_csd")
                           \/ ~IS_SD /\ mmc.version # "MMC_4" /\ Succeeds /\ UNCHANGED drvVars)
      BY <1>11 DEF SelectCardStep
    <2>2. /\ Counts(r)
          /\ \/ r.err /\ Keeps(r.card)
             \/ /\ card.state = "stby" /\ card.rca = mmc.rca
                /\ Moves(r.card, "tran", card.rca, card.width)
      BY <1>1, <2>1, SelectCardDoes
    <2>3. UNCHANGED swaps
      BY <1>11 DEF SelectCardStep
    <2>4. /\ card' \in Card /\ card'.id = swaps' /\ swaps' \in 0..MaxSwaps
          /\ faults' \in 0..MaxFaults
      BY <2>1, <2>2, <2>3, TookOK DEF Keeps
    <2> QED
      BY <1>11, <2>1, <2>2, <2>4, SMTT(30)
      DEF SelectCardStep, OrFails, TypeOK, CardIsAt, Identified, Lines, SetUpIs, Reads, Units,
          Stored, IS_SD, NotSetUp, StillThere, Moves, Keeps, Took, IsSd, BySector
  <1>12. CASE ScrApp
    <2>1. PICK r \in Sent(AppCmd(card, mmc.rca)) :
             Took(r) /\ OrFails(r, timeout' = Retries /\ Goto("scr") /\ UNCHANGED mmc)
      BY <1>12 DEF ScrApp
    <2>2. Counts(r) /\ Keeps(r.card)
      BY <1>1, <2>1, AppCmdDoes
    <2>3. UNCHANGED swaps
      BY <1>12 DEF ScrApp
    <2>4. /\ card' \in Card /\ card'.id = swaps' /\ swaps' \in 0..MaxSwaps
          /\ faults' \in 0..MaxFaults
      BY <2>1, <2>2, <2>3, TookOK DEF Keeps
    <2> QED
      BY <1>12, <2>1, <2>2, <2>4
      DEF ScrApp, OrFails, TypeOK, CardIsAt, Identified, Lines, SetUpIs, Reads, Units, Stored,
          IS_SD, Moves, Keeps, Took, IsSd, BySector
  <1>13. CASE SendScrStep
    <2>1. PICK r \in Sent(SendScr(card)) :
             /\ Took(r)
             /\ \/ /\ r.err /\ CountDown
                   /\ Goto("scr")
                   /\ UNCHANGED mmc
                \/ r.err /\ timeout = 0 /\ Fails /\ UNCHANGED drvVars
                \/ /\ ~r.err
                   /\ mmc' = [mmc EXCEPT !.version = r.resp.spec]
                   /\ IF r.resp.spec # "SD_1_0" /\ r.resp.wide THEN Goto("width_app") ELSE Succeeds
                   /\ UNCHANGED timeout
      BY <1>13 DEF SendScrStep
    <2>2. /\ Counts(r) /\ Keeps(r.card)
          /\ ~r.err => IsSd(card) /\ card.state = "tran" /\ r.resp.spec \in SdVersions
      BY <1>1, <2>1, SendScrDoes
    <2>3. UNCHANGED swaps
      BY <1>13 DEF SendScrStep
    <2>4. /\ card' \in Card /\ card'.id = swaps' /\ swaps' \in 0..MaxSwaps
          /\ faults' \in 0..MaxFaults
      BY <2>1, <2>2, <2>3, TookOK DEF Keeps
    <2>5. /\ mmc' \in Struct /\ mmc'.bus_width = mmc.bus_width
          /\ mmc'.rca = mmc.rca /\ (IS_SD => IS_SD') /\ (~r.err => IS_SD')
      BY <2>1, <2>2 DEF TypeOK, Struct, IS_SD
    <2>6. TypeOK'
      BY <1>13, <2>1, <2>2, <2>4, <2>5 DEF SendScrStep, CountDown, TypeOK
    <2>7. (CardIsAt /\ Identified /\ Lines /\ Units)'
      BY <1>13, <2>1, <2>2, <2>5
      DEF SendScrStep, TypeOK, CardIsAt, Identified, Lines, Units, IS_SD, Moves, Keeps, Took, IsSd,
          BySector
    <2>8. (SetUpIs /\ Reads /\ Stored)'
      BY <1>13, <2>1, <2>2, <2>4
      DEF SendScrStep, SetUpIs, Reads, Stored, NotSetUp, StillThere, Moves, Keeps, Took
    <2> QED
      BY <2>6, <2>7, <2>8
  <1>14. CASE WidthApp
    <2>1. PICK r \in Sent(AppCmd(card, mmc.rca)) :
             Took(r) /\ OrFails(r, Continue("width"))
      BY <1>14 DEF WidthApp
    <2>2. Counts(r) /\ Keeps(r.card)
      BY <1>1, <2>1, AppCmdDoes
    <2>3. UNCHANGED swaps
      BY <1>14 DEF WidthApp
    <2>4. /\ card' \in Card /\ card'.id = swaps' /\ swaps' \in 0..MaxSwaps
          /\ faults' \in 0..MaxFaults
      BY <2>1, <2>2, <2>3, TookOK DEF Keeps
    <2> QED
      BY <1>14, <2>1, <2>2, <2>4
      DEF WidthApp, OrFails, TypeOK, CardIsAt, Identified, Lines, SetUpIs, Reads, Units, Stored,
          IS_SD, Moves, Keeps, Took, IsSd, BySector
  <1>15. CASE SetBusWidthStep
    <2>1. PICK r \in Sent(SetBusWidth(card)) :
             Took(r) /\ OrFails(r, mmc' = [mmc EXCEPT !.bus_width = 4] /\ Succeeds /\ UNCHANGED timeout)
      BY <1>15 DEF SetBusWidthStep
    <2>2. /\ Counts(r)
          /\ \/ r.err /\ Keeps(r.card)
             \/ card.state = "tran" /\ Moves(r.card, card.state, card.rca, 4)
      BY <1>1, <2>1, SetBusWidthDoes
    <2>3. UNCHANGED swaps
      BY <1>15 DEF SetBusWidthStep
    <2>4. /\ card' \in Card /\ card'.id = swaps' /\ swaps' \in 0..MaxSwaps
          /\ faults' \in 0..MaxFaults
      BY <2>1, <2>2, <2>3, TookOK DEF Keeps
    <2>5. /\ mmc' \in Struct /\ mmc'.rca = mmc.rca /\ mmc'.version = mmc.version
          /\ mmc'.bus_width = IF r.err THEN mmc.bus_width ELSE 4
      BY <2>1, <2>2, ZenonT(40) DEF OrFails, TypeOK, Struct
    <2>6. TypeOK'
      BY <1>15, <2>1, <2>2, <2>4, <2>5 DEF SetBusWidthStep, OrFails, TypeOK, Struct
    <2>7. (CardIsAt /\ Identified /\ Lines /\ Units)'
      BY <1>15, <2>1, <2>2, <2>5
      DEF SetBusWidthStep, OrFails, TypeOK, CardIsAt, Identified, Lines, Units, IS_SD, Moves, Keeps,
          Took, IsSd, BySector
    <2>8. (SetUpIs /\ Reads /\ Stored)'
      BY <1>15, <2>1, <2>2, <2>4
      DEF SetBusWidthStep, OrFails, SetUpIs, Reads, Stored, NotSetUp, StillThere, Moves, Took
    <2> QED
      BY <2>6, <2>7, <2>8
  <1>16. CASE SendExtCsdStep
    <2>1. PICK r \in Sent(SendExtCsd(card)) :
             /\ Took(r)
             /\ OrFails(r, /\ mmc' = [mmc EXCEPT !.high_capacity = @ \/ r.resp.sectors]
                           /\ Goto("hs") /\ UNCHANGED timeout)
      BY <1>16 DEF SendExtCsdStep
    <2>2. /\ Counts(r) /\ Keeps(r.card)
          /\ ~r.err => card.state = "tran" /\ r.resp.sectors = BySector(card)
      BY <1>1, <2>1, SendExtCsdDoes
    <2>3. UNCHANGED swaps
      BY <1>16 DEF SendExtCsdStep
    <2>4. /\ card' \in Card /\ card'.id = swaps' /\ swaps' \in 0..MaxSwaps
          /\ faults' \in 0..MaxFaults
      BY <2>1, <2>2, <2>3, TookOK DEF Keeps
    <2>5. /\ mmc' \in Struct /\ mmc'.bus_width = mmc.bus_width
          /\ mmc'.rca = mmc.rca /\ mmc'.version = mmc.version
      BY <2>1, <2>2, ZenonT(40) DEF OrFails, TypeOK, Struct
    <2>6. TypeOK'
      BY <1>16, <2>1, <2>2, <2>4, <2>5, ZenonT(40) DEF SendExtCsdStep, OrFails, TypeOK
    <2>7. (CardIsAt /\ Identified /\ Lines /\ Units)'
      BY <1>16, <2>1, <2>2, <2>5
      DEF SendExtCsdStep, OrFails, TypeOK, CardIsAt, Identified, Lines, Units, IS_SD, Moves, Keeps,
          Took, IsSd, BySector
    <2>8. (SetUpIs /\ Reads /\ Stored)'
      BY <1>16, <2>1, <2>2, <2>4 DEF SendExtCsdStep, OrFails, TypeOK, SetUpIs, Reads, Stored
    <2> QED
      BY <2>6, <2>7, <2>8
  <1>17. CASE SwitchHighSpeed
    <2>1. PICK r \in Sent(Switch(card, card.width)) :
             Took(r) /\ OrFails(r, Continue("ext_csd2"))
      BY <1>17 DEF SwitchHighSpeed
    <2>2. /\ Counts(r)
          /\ \/ r.err /\ Keeps(r.card)
             \/ card.state = "tran" /\ Moves(r.card, card.state, card.rca, card.width)
      BY <1>1, <2>1, SwitchDoes DEF Card
    <2>3. UNCHANGED swaps
      BY <1>17 DEF SwitchHighSpeed
    <2>4. /\ card' \in Card /\ card'.id = swaps' /\ swaps' \in 0..MaxSwaps
          /\ faults' \in 0..MaxFaults
      BY <2>1, <2>2, <2>3, TookOK DEF Keeps
    <2> QED
      BY <1>17, <2>1, <2>2, <2>4
      DEF SwitchHighSpeed, OrFails, TypeOK, CardIsAt, Identified, Lines, SetUpIs, Reads, Units,
          Stored, IS_SD, Moves, Keeps, Took, IsSd, BySector
  <1>18. CASE CheckHighSpeed
    <2>1. PICK r \in Sent(SendExtCsd(card)) :
             Took(r) /\ OrFails(r, Continue("mmc_width"))
      BY <1>18 DEF CheckHighSpeed
    <2>2. Counts(r) /\ Keeps(r.card)
      BY <1>1, <2>1, SendExtCsdDoes
    <2>3. UNCHANGED swaps
      BY <1>18 DEF CheckHighSpeed
    <2>4. /\ card' \in Card /\ card'.id = swaps' /\ swaps' \in 0..MaxSwaps
          /\ faults' \in 0..MaxFaults
      BY <2>1, <2>2, <2>3, TookOK DEF Keeps
    <2> QED
      BY <1>18, <2>1, <2>2, <2>4
      DEF CheckHighSpeed, OrFails, TypeOK, CardIsAt, Identified, Lines, SetUpIs, Reads, Units,
          Stored, IS_SD, Moves, Keeps, Took, IsSd, BySector
  <1>19. CASE SwitchWidth
    <2>1. PICK r \in Sent(Switch(card, 4)) :
             Took(r) /\ OrFails(r, mmc' = [mmc EXCEPT !.bus_width = 4] /\ Succeeds /\ UNCHANGED timeout)
      BY <1>19 DEF SwitchWidth
    <2>2. /\ Counts(r)
          /\ \/ r.err /\ Keeps(r.card)
             \/ card.state = "tran" /\ Moves(r.card, card.state, card.rca, 4)
      BY <1>1, <2>1, SwitchDoes
    <2>3. UNCHANGED swaps
      BY <1>19 DEF SwitchWidth
    <2>4. /\ card' \in Card /\ card'.id = swaps' /\ swaps' \in 0..MaxSwaps
          /\ faults' \in 0..MaxFaults
      BY <2>1, <2>2, <2>3, TookOK DEF Keeps
    <2>5. /\ mmc' \in Struct /\ mmc'.rca = mmc.rca /\ mmc'.version = mmc.version
          /\ mmc'.bus_width = IF r.err THEN mmc.bus_width ELSE 4
      BY <2>1, <2>2, ZenonT(40) DEF OrFails, TypeOK, Struct
    <2>6. TypeOK'
      BY <1>19, <2>1, <2>2, <2>4, <2>5 DEF SwitchWidth, OrFails, TypeOK
    <2>7. (CardIsAt /\ Identified /\ Lines /\ Units)'
      BY <1>19, <2>1, <2>2, <2>5
      DEF SwitchWidth, OrFails, TypeOK, CardIsAt, Identified, Lines, Units, IS_SD, Moves, Keeps,
          Took, IsSd, BySector
    <2>8. (SetUpIs /\ Reads /\ Stored)'
      BY <1>19, <2>1, <2>2, <2>4
      DEF SwitchWidth, OrFails, SetUpIs, Reads, Stored, IS_SD, NotSetUp, StillThere, Moves, Took,
          IsSd
    <2> QED
      BY <2>6, <2>7, <2>8
  <1>20. CASE mmc_set_blocklen
    <2>1. PICK r \in Sent(SetBlocklen(card)) :
             Took(r) /\ (IF r.err \/ req.count = 0 THEN Returns ELSE UNCHANGED req /\ Goto("read"))
      BY <1>20 DEF mmc_set_blocklen
    <2>2. Counts(r) /\ Keeps(r.card)
      BY <1>1, <2>1, SetBlocklenDoes
    <2>3. UNCHANGED swaps
      BY <1>20 DEF mmc_set_blocklen
    <2>4. /\ card' \in Card /\ card'.id = swaps' /\ swaps' \in 0..MaxSwaps
          /\ faults' \in 0..MaxFaults
      BY <2>1, <2>2, <2>3, TookOK DEF Keeps
    <2> QED
      BY <1>20, <2>1, <2>2, <2>4
      DEF mmc_set_blocklen, Returns, TypeOK, CardIsAt, Identified, Lines, SetUpIs, Reads, Units,
          Stored, IS_SD, StillThere, Moves, Keeps, Took, IsSd, BySector
  <1>21. CASE mmc_read_block
    <2>1. PICK r : Counts(r) /\ Keeps(r.card) /\ Took(r)
      BY <1>21, ReadStores
    <2>2. pc = "read" /\ UNCHANGED <<drvVars, swaps>>
      BY <1>21 DEF mmc_read_block
    <2>3. /\ card' \in Card /\ card'.id = swaps' /\ swaps' \in 0..MaxSwaps
          /\ faults' \in 0..MaxFaults
      BY <2>1, <2>2, TookOK DEF Keeps
    <2>4. /\ got' \in Seq(Nat \X Nat) /\ Len(got') \in 0..req.count
          /\ req \in [start : Starts, count : 0..MaxCount]
          /\ ~LastTry => \A k \in 1..Len(got') : got'[k] = <<setUp, req.start + k - 1>>
      BY <1>21, ReadStores
    <2>5. \/ pc' = "ready" /\ req' = NoReq /\ setUp' = setUp
          \/ pc' = "read" /\ req' = req /\ setUp' = setUp /\ Len(got') < req.count
      BY <1>21, <2>2, ReadStores DEF Returns
    <2>6. TypeOK'
      BY <2>2, <2>3, <2>4, <2>5 DEF TypeOK
    <2>7. (CardIsAt /\ Lines /\ SetUpIs /\ Reads)'
      BY <2>1, <2>2, <2>5 DEF CardIsAt, Lines, SetUpIs, Reads, StillThere, Took, Moves, Keeps
    <2>8. (Identified /\ Units)'
      BY <2>1, <2>2, <2>5 DEF Identified, Units, IS_SD, IsSd, BySector, Took, Moves, Keeps
    <2>9. Stored'
      BY <2>4, <2>5 DEF Stored
    <2> QED
      BY <2>6, <2>7, <2>8, <2>9
  <1>22. CASE Sdload
    BY <1>22 DEF Sdload, TypeOK, CardIsAt, Identified, Lines, SetUpIs, Reads, Units, Stored, IS_SD
  <1>23. CASE LoadEnds
    BY <1>23
    DEF LoadEnds, TypeOK, CardIsAt, Identified, Lines, SetUpIs, Reads, Units, Stored, IS_SD,
        NotSetUp
  <1>24. CASE Exchange
    <2>1. PICK k \in Kinds :
             card' = [id |-> card.id + 1, kind |-> k, state |-> "idle", rca |-> 0,
                      app |-> FALSE, width |-> 1]
      BY <1>24 DEF Exchange, Inserted
    <2>2. /\ card' \in Card /\ card'.id = card.id + 1 /\ card'.state = "idle" /\ card'.width = 1
      BY <1>1, <2>1, CardAssumption DEF Card, CardState
    <2>3. TypeOK'
      BY <1>24, <2>2 DEF Exchange, TypeOK
    <2>4. (CardIsAt /\ Identified /\ Lines /\ Units)'
      BY <1>24, <2>2 DEF Exchange, CardIsAt, Identified, Lines, Units, IS_SD
    <2>5. (SetUpIs /\ Reads /\ Stored)'
      BY <1>24, <2>2 DEF Exchange, TypeOK, SetUpIs, Reads, Stored, StillThere, NotSetUp
    <2> QED
      BY <2>3, <2>4, <2>5
  <1>25. ASSUME NEW start \in Starts, NEW count \in 0..MaxCount, mmc_bread(start, count)
        PROVE  MmcInv'
    BY <1>25
    DEF mmc_bread, NoReq, TypeOK, CardIsAt, Identified, Lines, SetUpIs, Reads, Units, Stored, IS_SD,
        StillThere
  <1>26. CASE UNCHANGED vars
    BY <1>26
    DEF vars, TypeOK, CardIsAt, Identified, Lines, SetUpIs, Reads, Units, Stored, IS_SD, StillThere
  <1> QED
    BY <1>2, <1>3, <1>4, <1>5, <1>6, <1>7, <1>8, <1>9, <1>10, <1>11, <1>12, <1>13, <1>14, <1>15,
       <1>16, <1>17, <1>18, <1>19, <1>20, <1>21, <1>22, <1>23, <1>24, <1>25, <1>26
    DEF Next, Step, Identify, Startup

-----------------------------------------------------------------------------
(***************************************************************************)
(* Theorems.                                                               *)
(***************************************************************************)

\* MmcInv holds in every reachable state, whatever the card does and however often it is
\* exchanged.
THEOREM MmcInvCorrect == Spec => []MmcInv
  BY MmcInvInitially, MmcInvStep, PTL DEF Spec

\* Every variable stays within its type: no count of the power-up loops and of
\* sd_change_freq() goes below 0, no read stores more blocks than were asked for.
THEOREM TypeCorrect == Spec => []TypeOK
  BY MmcInvCorrect, PTL DEF MmcInv

\* A card that mmc_init() returned 0 for, and that is still in the slot, is selected under
\* the address in struct mmc, whose version says rightly whether it is an SD card: even when
\* the card before it was of another kind, and even when it became ready at the last poll.
THEOREM ReadyMeansSelectedCorrect == Spec => []ReadyMeansSelected
  <1>1. MmcInv => ReadyMeansSelected
    <2> SUFFICES ASSUME MmcInv, StillThere
                 PROVE  /\ card.state = "tran" /\ card.rca = mmc.rca
                        /\ IS_SD <=> IsSd(card)
      BY DEF ReadyMeansSelected
    <2>1. pc \in InUse
      BY DEF MmcInv, TypeOK, SetUpIs, StillThere, NotSetUp
    <2>2. card.state = "tran"
      BY <2>1 DEF MmcInv, SetUpIs
    <2> QED
      BY <2>1, <2>2 DEF MmcInv, Identified, Found, Selected
  <1> QED
    BY <1>1, MmcInvCorrect, PTL

\* A selected card that is asked for data drives as many lines as the host listens to
\* (mmc_set_bus_width(), sd_change_freq(), mmc_change_freq()).
THEOREM DataWidthsAgreeCorrect == Spec => []DataWidthsAgree
  <1>1. MmcInv => DataWidthsAgree
    BY DEF MmcInv, Lines, DataWidthsAgree, Selected, Configuring, InUse
  <1> QED
    BY <1>1, MmcInvCorrect, PTL

\* Unless a card may become ready at the very poll that ends the loop of
\* sd_send_op_cond(), which leaves high_capacity as the card before had it, blocks are
\* counted in the unit of the card (mmc_read_block()).
THEOREM AddressUnitsAgreeCorrect ==
    ASSUME ~LastTry
    PROVE  Spec => []AddressUnitsAgree
  <1>1. MmcInv => AddressUnitsAgree
    <2> SUFFICES ASSUME MmcInv, StillThere
                 PROVE  mmc.high_capacity <=> BySector(card)
      BY DEF AddressUnitsAgree
    <2>1. pc \in InUse
      BY DEF MmcInv, TypeOK, SetUpIs, StillThere, NotSetUp
    <2>2. card.state = "tran"
      BY <2>1 DEF MmcInv, SetUpIs
    <2> QED
      BY <2>1, <2>2 DEF MmcInv, Units, Found, Selected, BySector
  <1> QED
    BY <1>1, MmcInvCorrect, PTL

-----------------------------------------------------------------------------
(***************************************************************************)
(* mmc_bread() is the block device of BlockDevice.                         *)
(***************************************************************************)

\* What the file system can see of the blocks stored.
Seen == IF req = NoReq THEN got ELSE <<>>

LEMMA DeviceInitially == Init => Device!Init
  BY DEF Init, Device!Init

\* The return of mmc_bread() delivers the blocks stored so far.
LEMMA ReturnAnswers ==
    ASSUME MmcInv, pc = "read", Returns, got' \in Seq(Nat \X Nat), Len(got') \in 0..req.count,
           \A k \in 1..Len(got') : got'[k] = <<setUp, req.start + k - 1>>
    PROVE  Device!Answer
  <1>1. req # NoReq /\ req' = NoReq /\ UNCHANGED setUp
    BY DEF Returns, Goto, MmcInv, Reads
  <1>2. got' = [k \in 1..Len(got') |-> <<setUp, req.start + k - 1>>]
    <2>1. got' \in [1..Len(got') -> Nat \X Nat]
      BY LenProperties
    <2> QED
      BY <2>1
  <1> QED
    BY <1>1, <1>2 DEF Device!Answer

\* Every step is a step of the device, or one it does not see.
LEMMA DeviceStep ==
    ASSUME ~LastTry
    PROVE  MmcInv /\ MmcInv' /\ [Next]_vars => [Device!Next]_<<setUp, req, Seen>>
  <1> SUFFICES ASSUME MmcInv, MmcInv', [Next]_vars
               PROVE  Device!Next \/ UNCHANGED <<setUp, req, Seen>>
    OBVIOUS
  <1> USE MmcAssumption
  <1>1. ASSUME UNCHANGED readVars, UNCHANGED setUp
        PROVE  UNCHANGED <<setUp, req, Seen>>
    BY <1>1 DEF readVars, Seen
  <1>2. CASE Identify \/ Startup
    <2>1. UNCHANGED readVars /\ (UNCHANGED setUp \/ pc \notin InUse)
      BY <1>2
      DEF Identify, Startup, mmc_go_idle, mmc_send_if_cond, SdOpCondApp, SdOpCond, MmcIdle,
          MmcOpCond, AllSendCidStep, SendRelativeAddr, SendCsdStep, SelectCardStep, ScrApp,
          SendScrStep, WidthApp, SetBusWidthStep, SendExtCsdStep, SwitchHighSpeed,
          CheckHighSpeed, SwitchWidth, readVars, InUse, Goto
    <2>2. CASE UNCHANGED setUp
      BY <1>1, <2>1, <2>2
    <2>3. CASE ~UNCHANGED setUp
      <3>1. setUp = NotSetUp
        BY <2>1, <2>3 DEF MmcInv, SetUpIs
      <3>2. setUp' \in 0..MaxSwaps
        BY <2>3, <3>1 DEF MmcInv, TypeOK
      <3> QED
        BY <2>1, <3>1, <3>2 DEF Device!Next, Device!SetUp, readVars
    <2> QED
      BY <2>2, <2>3
  <1>3. CASE mmc_set_blocklen
    <2>1. pc = "blocklen" /\ UNCHANGED got
      BY <1>3 DEF mmc_set_blocklen
    <2>2. Returns \/ (UNCHANGED req /\ Goto("read"))
      BY <1>3 DEF mmc_set_blocklen
    <2>3. CASE Returns
      <3>1. got = <<>> /\ req # NoReq /\ req' = NoReq /\ UNCHANGED setUp
        BY <2>1, <2>3 DEF MmcInv, Reads, Returns, Goto
      <3>2. 0 \in 0..req.count
        BY <3>1 DEF MmcInv, TypeOK
      <3>3. got' = [k \in 1..0 |-> <<setUp, req.start + k - 1>>]
        BY <2>1, <3>1
      <3> QED
        BY <3>1, <3>2, <3>3 DEF Device!Next, Device!Answer
    <2>4. CASE UNCHANGED req /\ Goto("read")
      BY <1>1, <2>1, <2>4 DEF Goto, readVars
    <2> QED
      BY <2>2, <2>3, <2>4
  <1>4. CASE mmc_read_block
    <2>1. CASE Returns
      BY <1>4, <2>1, ReadStores, ReturnAnswers DEF mmc_read_block, Device!Next
    <2>2. CASE UNCHANGED <<req, pc, setUp>>
      BY <1>4, <2>2 DEF mmc_read_block, MmcInv, Reads, Seen
    <2> QED
      BY <1>4, <2>1, <2>2, ReadStores
  <1>5. CASE LoadEnds
    <2>1. setUp # NotSetUp /\ req = NoReq
      BY <1>5 DEF LoadEnds, MmcInv, SetUpIs, Reads, InUse
    <2> QED
      BY <1>5, <2>1 DEF LoadEnds, Device!Next, Device!TakeDown
  <1>6. ASSUME NEW start \in Starts, NEW count \in 0..MaxCount, mmc_bread(start, count)
        PROVE  Device!Next
    <2>1. setUp # NotSetUp /\ req = NoReq
      BY <1>6 DEF mmc_bread, MmcInv, SetUpIs, Reads, InUse
    <2>2. req' \in [start : Nat, count : Nat] /\ req' # NoReq
      BY <1>6 DEF mmc_bread, NoReq
    <2> QED
      BY <1>6, <2>1, <2>2 DEF mmc_bread, Goto, Device!Next, Device!Ask
  <1>7. CASE Sdload \/ Exchange \/ UNCHANGED vars
    BY <1>1, <1>7 DEF Sdload, Exchange, vars, Goto, readVars
  <1> QED
    BY <1>2, <1>3, <1>4, <1>5, <1>6, <1>7 DEF Next, Step

\* Unless a card may become ready at the very poll that ends the loop: the blocks mmc_bread()
\* says it read are the blocks asked for, of the card that was set up, in order.
THEOREM Refinement ==
    ASSUME ~LastTry
    PROVE  Spec => IsABlockDevice
  BY DeviceInitially, DeviceStep, MmcInvCorrect, PTL DEF Spec, IsABlockDevice, Device!Spec, Seen
=============================================================================
