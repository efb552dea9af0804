----------------------------- MODULE TurnGames -----------------------------
(***************************************************************************)
(* apps/duell-web/src/turns.js, the first half of the table GAMES in the   *)
(* order of the file: which prompts each turn of a game has, and what the  *)
(* card of a finished game says.  m[t][i] is the answer to prompt i of     *)
(* turn t; a choice is a sequence of numbers, so m[t][i][1] is the one     *)
(* chosen.  The sentences around a result are left out, the numbers are    *)
(* those of the code.                                                      *)
(***************************************************************************)
EXTENDS TurnRules

CONSTANTS
  SIZE,        \* side of the field for the blocks (8 in the code)
  MAX_BLOCKS   \* blocks put down (40 in the code)

Chosen(a) == a[1]
(* whose is more: 0 the first, 1 the second, nobody on a tie *)
More(a, b) == IF a = b THEN NULL ELSE IF a > b THEN 0 ELSE 1
(* equal answers to a row of choices *)
Score(a, b) == Cardinality({i \in DOMAIN a : a[i][1] = b[i][1]})
Zeros(a) == Cardinality({i \in DOMAIN a : a[i][1] = 0})

-----------------------------------------------------------------------------
Dealing == << <<Slide(0, 10, 0)>>, <<Slide(0, 10, 0), Slide(0, 10, 0)>>, <<Slide(0, 10, 0)>> >>
SplitLine(x, f) == IF x >= f THEN [a |-> 10 - x, b |-> x] ELSE NULL
DealResult(doc, m) == <<SplitLine(m[1][1], m[2][1]), SplitLine(m[2][2], m[3][1])>>

Einig == << <<Words(5), Rank(5)>>, <<Rank(5)>> >>
(* the place where the less happy one is happiest, then the sum, then the seed; *)
(* and the one they are furthest apart about                                    *)
EinigResult(doc, m) ==
  LET pa == Places(m[1][2])  pb == Places(m[2][1])  tie == Mix(doc, <<"einig", 0>>, 5)
      s(i) == SetMax({pa[i], pb[i]}) * 100 + (pa[i] + pb[i]) * 10 + Pos(tie, i) - 1
      d(i) == Diff(pa[i], pb[i])
  IN [best |-> CHOOSE i \in Below(5) : \A j \in Below(5) : s(i) <= s(j),
      fight |-> CHOOSE i \in Below(5) : \A j \in Below(5) : d(i) > d(j) \/ (d(i) = d(j) /\ i <= j)]

Board(doc) == FirstOf(Mix(doc, <<"wort", 0>>, 100), 9)
OnBoard(doc, v) == \E i \in ToSet(Board(doc)) : Fold(Thing(i)) = Fold(v)
Wort == << <<Pick(3, 9), LineBut("board")>>, <<Pick(3, 9)>> >>
WortResult(doc, m) == Cardinality(Hits(m[1][1], m[2][1]))

Smuggle(doc) == FirstOf(Mix(doc, <<"schmuggel", 0>>, 36), 12)
SmugglePick(doc, who) == SubSeq(Smuggle(doc), 3 * who + 1, 3 * who + 3)
(* where on the other one's board the three words of `who` stand *)
SmuggleSpot(doc, who) ==
  LET o == Mix(doc, <<"board", 0>>, 12)
  IN {at \in Below(12) : Smuggle(doc)[o[at + 1] + 1] \in ToSet(SmugglePick(doc, who))}
Schmuggel == << <<Show>>, <<Show, Pick(3, 12)>>, <<Pick(3, 12)>> >>
SchmuggelResult(doc, m) ==
  <<Cardinality(ToSet(m[2][2]) \intersect SmuggleSpot(doc, 0)), Cardinality(ToSet(m[3][1]) \intersect SmuggleSpot(doc, 1))>>

Lob == Twice(<<Pick(3, 24), Pick(3, 24)>>)
(* what both say, what the second sees in the first, what the first sees in the second *)
LobResult(doc, m) ==
  LET a == Hits(m[1][1], m[2][2])  b == Hits(m[2][1], m[1][2])
  IN <<a \union b, ToSet(m[2][2]) \ a, ToSet(m[1][2]) \ b>>

Worth(doc, who) == LET o == Mix(doc, <<"wert", who>>, 5) IN [i \in 1 .. 5 |-> (o[i] + 1) * 10]
Auktion == Twice(<<Alloc(5, 100, 10)>>)
AuktionResult(doc, m) ==
  LET won(who) == {i \in 1 .. 5 : More(m[1][1][i], m[2][1][i]) = who}
      sum(who) == SumOf([i \in 1 .. 5 |-> IF i \in won(who) THEN Worth(doc, who)[i] ELSE 0])
  IN <<sum(0), sum(1)>>

Kapsel == << <<Pick(1, 16), Slide(1, 30, 7)>>, <<Pick(1, 2)>> >>
KapselResult(doc, m) == <<Chosen(m[2][1]) = 0, Chosen(m[1][1])>>

-----------------------------------------------------------------------------
Fives == Times(5, Tip(3))
Kennst == <<Fives, Fives \o Fives, Fives>>
KennstResult(doc, m) == <<Score(m[1], FirstOf(m[2], 5)), Score(SubSeq(m[2], 6, 10), m[3])>>

Eithers(doc) == FirstOf(Mix(doc, <<"either", 0>>, 24), 10)
Tens == Times(10, Tip(2))
Snack == Twice(Tens)
(* how often alike, and the first two questions they differ on *)
SnackResult(doc, m) ==
  LET diff == SelectSeq([i \in 1 .. 10 |-> i], LAMBDA i : m[1][i][1] # m[2][i][1])
  IN <<Score(m[1], m[2]), [i \in 1 .. SetMin({2, Len(diff)}) |-> Eithers(doc)[diff[i]]]>>

Teilen == Twice(<<Alloc(4, 10, 1)>>)
(* the task goes to whoever bids more, the seed breaks a tie *)
TeilenResult(doc, m) ==
  LET tie == Mix(doc, <<"teil", 0>>, 4)
      first(i) == LET d == m[1][1][i] - m[2][1][i] IN d > 0 \/ (d = 0 /\ tie[i] % 2 = 0)
  IN [i \in 1 .. 4 |-> IF first(i) THEN 0 ELSE 1]

Wette == << <<Pick(1, 12), Slide(1, 7, 3)>>, <<Pick(1, 2)>> >>
WetteResult(doc, m) == <<Chosen(m[2][1]) = 0, Chosen(m[1][1])>>

Luecke == << <<Pick(1, 3)>>, <<Words(6)>> >>
LueckeResult(doc, m) == <<Chosen(m[1][1]), m[2][1]>>

Socke == Twice(<<Slide(10, 200, 50)>>)
SockeResult(doc, m) == <<m[1][1] + m[2][1], More(m[1][1], m[2][1])>>

Cards(doc) == LET o == Mix(doc, <<"karten", 0>>, 12) IN [i \in 1 .. 5 |-> (o[i] % 6) + 1]
(* the card's own value or anything above it up to six *)
Says == [i \in 1 .. 5 |-> TipFrom("card", i)]
Checks == Times(5, Tip(2))
Bluff == <<Says, Checks>>
BluffResult(doc, m) ==
  LET t(i) == Cards(doc)[i]
      said(i) == t(i) + Chosen(m[1][i])
      open(i) == Chosen(m[2][i]) = 1
  IN <<SumOf([i \in 1 .. 5 |-> IF ~open(i) THEN said(i) ELSE IF said(i) = t(i) THEN t(i) + 2 ELSE 0]),
       SumOf([i \in 1 .. 5 |-> IF open(i) /\ said(i) # t(i) THEN said(i) ELSE 0])>>

Auftrag == Twice(<<Pick(1, 12)>>)
AuftragResult(doc, m) == <<Chosen(m[2][1]), Chosen(m[1][1])>>

Wheels == <<"who", "what", "why">>
Ausrede == <<Times(3, Tip(4)), <<Tip(3)>> >>
AusredeResult(doc, m) ==
  <<Chosen(m[2][1]), [i \in 1 .. 3 |-> Mix(doc, <<Wheels[i], 0>>, 8)[Chosen(m[1][i]) + 1]]>>

Gutschein == << <<Pick(3, 12)>>, <<Pick(1, 3)>> >>
GutscheinResult(doc, m) == m[1][1][Chosen(m[2][1]) + 1]

Rubbellos == << <<Pick(1, 6), Pick(1, 6)>>, <<Pick(3, 6)>> >>
RubbellosResult(doc, m) == IF Chosen(m[1][2]) \in ToSet(m[2][1]) THEN Chosen(m[1][1]) ELSE NULL

Urkunde == << <<Pick(1, 6), Slide(0, 10, 5), Slide(0, 10, 5), Slide(0, 10, 5)>> >>
UrkundeResult(doc, m) ==
  LET sum == m[1][2] + m[1][3] + m[1][4] IN IF sum >= 24 THEN 3 ELSE IF sum >= 16 THEN 2 ELSE IF sum >= 8 THEN 1 ELSE 0

Luege == << <<Words(3), Pick(1, 3)>>, <<Pick(1, 3)>> >>
LuegeResult(doc, m) == <<Chosen(m[2][1]) = Chosen(m[1][2]), m[1][1][Chosen(m[1][2]) + 1]>>

(* the seed's letter of BDFGHKLMNPRST, and whether a word starts with it *)
Letter(doc) == doc.seed % 13
Initial == [x \in ToSet(Vocab) |-> CASE x = "tea" -> 12 [] x = "nut" -> 8 [] x = "fig" -> 2 [] x = "rye" -> 10 [] x = "mud" -> 7 [] OTHER -> NULL]
Keep(doc, x) == x \in DOMAIN Initial /\ Initial[x] = Letter(doc)
Blitz == Twice(<<Loose(6, 0)>>)
BlitzResult(doc, m) ==
  LET a == Folds(m[1][1])  b == Folds(m[2][1])
      good(l, o) == Len(SelectSeq(l, LAMBDA x : x # "" /\ x \notin ToSet(o) /\ Keep(doc, x)))
  IN <<good(a, b), good(b, a)>>

Recht == << <<Line>>, <<Line>>, <<Pick(1, 2), Pick(1, 5)>> >>
RechtResult(doc, m) == [wins |-> Chosen(m[3][1]), a |-> m[1][1], b |-> m[2][1], why |-> Chosen(m[3][2])]

Morgen == << <<Pick(1, 6), Slide(1, 7, 1)>>, <<Show>> >>
MorgenResult(doc, m) == Chosen(m[1][1])

Umschlag == << <<Line, Line, Line>>, <<Pick(1, 3)>> >>
UmschlagResult(doc, m) == m[1][Chosen(m[2][1]) + 1]

Rad == << <<Pick(3, 10)>>, <<Tip(3)>> >>
RadResult(doc, m) == m[1][1][Mix(doc, <<"rad", 0>>, 3)[Chosen(m[2][1]) + 1] + 1]

-----------------------------------------------------------------------------
(* Blocks: same seed, same blocks; the receiver replays the moves. *)
BLOCKS ==
  << {<<0, 0>>}, {<<0, 0>>, <<1, 0>>}, {<<0, 0>>, <<0, 1>>}, {<<0, 0>>, <<1, 0>>, <<2, 0>>}, {<<0, 0>>, <<0, 1>>, <<0, 2>>},
     {<<0, 0>>, <<1, 0>>, <<0, 1>>, <<1, 1>>}, {<<0, 0>>, <<1, 0>>, <<0, 1>>}, {<<0, 0>>, <<0, 1>>, <<1, 1>>},
     {<<0, 0>>, <<1, 0>>, <<2, 0>>, <<3, 0>>}, {<<0, 0>>, <<0, 1>>, <<0, 2>>, <<0, 3>>}, {<<0, 0>>, <<1, 0>>, <<2, 0>>, <<1, 1>>} >>
Cells == Below(SIZE * SIZE)
BlockAt(doc, i) == BLOCKS[Rnd(doc.seed, <<"steine", 0>>, i, Len(BLOCKS)) + 1]
At(c, b) == ((c \div SIZE) + b[2]) * SIZE + (c % SIZE) + b[1]
Fits(grid, block, c) ==
  \A b \in block : (c % SIZE) + b[1] < SIZE /\ (c \div SIZE) + b[2] < SIZE /\ At(c, b) \notin grid
Drop(st, block, c) ==
  LET g == st.grid \union {At(c, b) : b \in block}
      row(i) == {i * SIZE + j : j \in Below(SIZE)}
      col(i) == {j * SIZE + i : j \in Below(SIZE)}
      full == {l \in {row(i) : i \in Below(SIZE)} \union {col(i) : i \in Below(SIZE)} : l \subseteq g}
      n == Cardinality(full)
  IN [grid |-> g \ UNION full, score |-> st.score + Cardinality(block) + n * n * 10, lines |-> n, i |-> st.i + 1]
EmptyGrid == [grid |-> {}, score |-> 0, lines |-> 0, i |-> 0]
(* the state the moves lead to, or NULL when one does not fit *)
Replay(doc, cells) ==
  LET f[n \in 0 .. Len(cells)] ==
        IF n = 0 THEN EmptyGrid
        ELSE LET st == f[n - 1] IN
             IF st = NULL THEN NULL
             ELSE IF Fits(st.grid, BlockAt(doc, st.i), cells[n]) THEN Drop(st, BlockAt(doc, st.i), cells[n]) ELSE NULL
  IN f[Len(cells)]
CanMove(st, doc) == \E c \in Cells : Fits(st.grid, BlockAt(doc, st.i), c)
Steine == Twice(<<Timed("blocks", MAX_BLOCKS)>>)
SteineResult(doc, m) == <<Replay(doc, m[1][1]).score, Replay(doc, m[2][1]).score>>

(* how often the counter of pairs foresees the next tap *)
Foreseen(tips) ==
  LET alike(i, j) == IF i < 3 THEN j < 3 ELSE j >= 3 /\ tips[j - 2] = tips[i - 2] /\ tips[j - 1] = tips[i - 1]
      seen(i, x) == Cardinality({j \in 1 .. i - 1 : alike(i, j) /\ tips[j] = x})
  IN Cardinality({i \in DOMAIN tips : (IF seen(i, 1) > seen(i, 0) THEN 1 ELSE 0) = tips[i]})
Unlesbar == <<Times(20, Tip(2))>>
UnlesbarResult(doc, m) == Foreseen([i \in DOMAIN m[1] |-> Chosen(m[1][i])])

Damals == <<Times(5, Line)>>
DamalsResult(doc, m) == m[1]

-----------------------------------------------------------------------------
(* The circle: each thing beats the two after it. *)
Beats(order, a, b) == LET p == Places(order) IN (p[b] - p[a] + 5) % 5 \in {1, 2}
(* the tests so far, the winner of each first *)
CircleSoFar(m, now) ==
  LET o == m[1][2] IN [i \in DOMAIN now |-> IF Beats(o, now[i][1], now[i][2]) THEN now[i] ELSE <<now[i][2], now[i][1]>>]
CircleSame(a, b) == LET s == Pos(a, b[1]) - 1 IN \A i \in 1 .. 5 : a[((s + i - 1) % 5) + 1] = b[i]
Kreis == << <<Words(5), Rank(5)>>, Times(3, Pick(2, 5)) \o <<Rank(5)>> >>
KreisResult(doc, m) == CircleSame(m[1][2], m[2][4])

PoliteLimit(doc) == 7 + Mix(doc, <<"grenze", 0>>, 10)[1]
PoliteLevel(m) == SumOf([t \in DOMAIN m |-> Chosen(m[t][1]) + 1])
Hoeflich == Times(6, <<Tip(3)>>)
(* who said the last word over the limit loses, else the ruder one wins *)
HoeflichResult(doc, m) ==
  LET said(w) == SumOf([t \in DOMAIN m |-> IF (t - 1) % 2 = w THEN Chosen(m[t][1]) + 1 ELSE 0]) IN
  IF PoliteLevel(m) > PoliteLimit(doc) THEN IF (Len(m) - 1) % 2 = 1 THEN 0 ELSE 1 ELSE More(said(0), said(1))

(* Round r (from 0): a coined word and its moment, guessed among three. *)
CoinPrompts == <<Tip(5), Tip(6)>>
MomentSlot(doc, r) == SubSeq(Mix(doc, <<"moment", 0>>, 24), r * 6 + 1, r * 6 + 6)
CoinMoment(doc, m, r) == MomentSlot(doc, r)[Chosen(m[r + 1][IF r = 0 THEN 2 ELSE 3]) + 1]
CoinOptions(doc, m, r) ==
  LET s == MomentSlot(doc, r)  at == Pos(s, CoinMoment(doc, m, r)) - 1  k == Mix(doc, <<"wahl", r>>, 3)
  IN [i \in 1 .. 3 |-> s[((at + k[i]) % 6) + 1]]
CoinGuess == <<Tip(3)>>
Woerter == <<CoinPrompts, CoinGuess \o CoinPrompts, CoinGuess \o CoinPrompts, CoinGuess \o CoinPrompts, CoinGuess>>
WoerterResult(doc, m) ==
  Cardinality({r \in Below(4) : CoinOptions(doc, m, r)[Chosen(m[r + 2][1]) + 1] = CoinMoment(doc, m, r)})

CardPrompts == <<Words(4), Same(4)>>
CardBack == [i \in 1 .. 8 |-> IF i % 2 = 1 THEN Show ELSE Tip(2)]
Abfragen == <<CardPrompts, CardBack \o CardPrompts, CardBack>>
(* how many each knew, and the questions still open for each *)
AbfragenResult(doc, m) ==
  LET knew(t) == [i \in 1 .. 4 |-> m[t][2 * i]]
      open(t, q) == SelectSeq([i \in 1 .. 4 |-> i], LAMBDA i : Chosen(knew(t)[i]) = 1)
  IN [second |-> Zeros(knew(2)), first |-> Zeros(knew(3)), open2 |-> open(2, m[1][1]), open1 |-> open(3, m[2][9])]

(* The rule on a tablet: every turn changes one of its four words to another. *)
RuleStart(doc) == [s \in 1 .. 4 |-> Mix(doc, <<"regel", s>>, 8)[1]]
RuleOthers(cur, s) == SelectSeq([i \in 1 .. 8 |-> i - 1], LAMBDA w : w # cur[s])
RuleAt(doc, m) ==
  LET f[n \in 0 .. Len(m)] ==
        IF n = 0 THEN RuleStart(doc)
        ELSE LET c == f[n - 1]  s == Chosen(m[n][1]) + 1 IN [c EXCEPT ![s] = RuleOthers(c, s)[Chosen(m[n][2]) + 1]]
  IN f[Len(m)]
Regel == Times(5, <<Tip(4), Tip(7)>>)
RegelResult(doc, m) == [i \in 1 .. Len(m) + 1 |-> RuleAt(doc, FirstOf(m, i - 1))]

Three == <<0, 1, 2>>
Werbung == << <<Words(3)>> >> \o Times(3, <<Timed("clock", 0)>>) \o Times(3, <<Tip(2)>>)
(* everyone buys from one of the two others *)
BuysFrom(m, v) == SelectSeq(Three, LAMBDA x : x # v)[Chosen(m[5 + v][1]) + 1]
WerbungResult(doc, m) == [x \in Below(3) |-> Cardinality({v \in Below(3) : BuysFrom(m, v) = x})]

(* The fourth row answers as most did, on one or two questions the other way. *)
MachineRows(doc, m) ==
  LET flip == ToSet(FirstOf(Mix(doc, <<"aus", 0>>, 6), 1 + (doc.seed % 2)))
      most(q) == IF Cardinality({t \in 2 .. 4 : Chosen(m[t][q]) = 1}) >= 2 THEN 1 ELSE 0
  IN [t \in 1 .. 4 |-> [q \in 1 .. 6 |-> IF t < 4 THEN Chosen(m[t + 1][q]) ELSE IF q - 1 \in flip THEN 1 - most(q) ELSE most(q)]]
MachineSeen(doc) == Mix(doc, <<"reihe", 0>>, 4)
Maschine == << <<Words(3)>> >> \o Times(3, Times(6, Tip(2))) \o Times(3, <<Tip(4)>>)
(* who found it *)
MaschineResult(doc, m) == {i \in 1 .. 3 : MachineSeen(doc)[Chosen(m[4 + i][1]) + 1] = 3}

Suche == << <<Show, Words(4)>>, <<Timed("hunt", 3600)>> >>
SucheResult(doc, m) == m[2][1]
=============================================================================
