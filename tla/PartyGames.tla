----------------------------- MODULE PartyGames -----------------------------
(***************************************************************************)
(* apps/duell-web/src/turns.js, the second half of the table GAMES, from   *)
(* the Santa draw on: games of several people, of one phone that is handed *)
(* around, and those in which time or sound counts.                        *)
(***************************************************************************)
EXTENDS TurnGames

CONSTANT
  VOTERS       \* people in a date poll (10 in the code)

-----------------------------------------------------------------------------
(* Draws, lists and a daily guess. *)
DrawNames(m) == Filled(m[1][1])
(* one closed circle, so nobody can draw themselves *)
Drawn(doc, n) ==
  LET f[i \in 1 .. n] == IF i = n THEN CountedTo(n)
                         ELSE LET a == f[i + 1] IN Swap(a, i + 1, 1 + Rnd(doc.seed, <<"wichtel", 0>>, n - i - 1, i))
      a == f[1]
  IN [v \in Below(n) |-> a[(Pos(a, v) % n) + 1]]
Wichteln == << <<Loose(12, 3)>>, <<TipFrom("names", 0), Show>> >>
WichtelnResult(doc, m) == NULL

Rangliste == Twice(<<Rank(8)>>)
(* how far apart, in percent of the most, and the place they differ on most *)
RanglisteResult(doc, m) ==
  LET a == Places(m[1][1])  b == Places(m[2][1])
      d(i) == Diff(a[i], b[i])
      sum == SumOf([i \in 1 .. 8 |-> d(i - 1)])
  IN [alike |-> (100 * (32 - sum) + 16) \div 32, tops |-> <<m[1][1][1], m[2][1][1]>>,
      far |-> IF sum = 0 THEN NULL ELSE CHOOSE i \in Below(8) : \A j \in Below(8) : d(i) > d(j) \/ (d(i) = d(j) /\ i <= j)]

(* answer and largest guess of each question *)
GUESS ==
  << <<206, 500>>, <<88, 200>>, <<32, 60>>, <<330, 1000>>, <<64, 200>>, <<8849, 12000>>, <<3, 10>>, <<687, 1000>>,
     <<52, 100>>, <<8, 20>>, <<3600, 10000>>, <<42, 100>>, <<8, 20>>, <<168, 500>>, <<1440, 5000>> >>
Guesses(doc) == LET o == Mix(doc, <<"tag", 0>>, 15) IN [i \in 1 .. 5 |-> GUESS[o[i] + 1]]
Schaetzen == <<[i \in 1 .. 5 |-> [Slide(0, 12000, 0) EXCEPT !.from = "guess", !.def = i]]>>
(* how far off each guess is in percent, at most 100, and on average *)
SchaetzenResult(doc, m) ==
  LET q(i) == Guesses(doc)[i][1]
      off == [i \in 1 .. 5 |-> SetMin({100, (200 * Diff(m[1][i], q(i)) + q(i)) \div (2 * q(i))})]
  IN <<(2 * SumOf(off) + 5) \div 10, off>>

Reihum == Times(4, <<Tip(6), Line, Line>>)
ReihumResult(doc, m) == [t \in DOMAIN m |-> <<Chosen(m[t][1]), m[t][2], m[t][3]>>]

(* Finding a date: whoever asks counts as yes everywhere. *)
HOURS == 9
TermDates(m) == m[1][1][2]
Voted(m) == {Fold(m[t][1][1]) : t \in DOMAIN m}
OkSlots(v) ==
  /\ NameOk(v[1]) /\ Len(v[2]) \in 2 .. 5
  /\ \A i \in DOMAIN v[2] : v[2][i] % 10 < HOURS /\ (i > 1 => v[2][i] > v[2][i - 1])
OkVote(v, m) ==
  /\ NameOk(v[1]) /\ Fold(v[1]) \notin Voted(m)
  /\ Len(v[2]) = Len(TermDates(m)) /\ \A i \in DOMAIN v[2] : v[2][i] \in 0 .. 2
(* two points for a yes, one for a maybe; the more yes first, then the earlier date *)
Tally(m, i) ==
  LET said(x) == {t \in 2 .. Len(m) : m[t][1][2][i] = x}
      yes == 1 + Cardinality(said(0))
      maybe == Cardinality(said(1))
  IN [yes |-> yes, maybe |-> maybe, pts |-> (yes * 2 + maybe) * 100 + yes]
Ahead(m, i, j) == LET a == Tally(m, i).pts  b == Tally(m, j).pts IN a > b \/ (a = b /\ TermDates(m)[i] < TermDates(m)[j])
Termin == << <<Ask("slots")>> >> \o Times(VOTERS - 1, <<Ask("vote")>>)
TerminResult(doc, m) == SetToSortSeq(DOMAIN TermDates(m), LAMBDA i, j : Ahead(m, i, j))

-----------------------------------------------------------------------------
Danke == << <<Line, Line>>, <<Show>> >>
DankeResult(doc, m) == m[1]
Kerzen == << <<Line>>, <<Timed("blow", 5)>> >>
KerzenResult(doc, m) == m[1][1]
Tunnel == << <<LineBut("word")>> >>
TunnelResult(doc, m) == Fold(m[1][1])

Post == << <<Words(3), Slide(7, 30, 30)>>, Times(3, Tip(2)) >>
PostResult(doc, m) == Zeros(m[2])

(* A falling price: the one who buys at the higher price pays it. *)
JunkWorth(doc, who) == LET o == Mix(doc, <<"qwert", who>>, 9) IN [i \in 1 .. 4 |-> 20 + o[i] * 10]
Fallpreis == Twice(Times(4, Timed("drop", 100)))
FallpreisResult(doc, m) ==
  LET won(who) == {i \in 1 .. 4 : More(m[1][i], m[2][i]) = who}
      sum(who) == SumOf([i \in 1 .. 4 |-> IF i \in won(who) THEN JunkWorth(doc, who)[i] - m[who + 1][i] ELSE 0])
  IN <<sum(0), sum(1)>>

(* Socks on a field of five by five: found, near or far. *)
LastOf(s) == s[Len(s)]
Hidden(m, who) == ToSet(m[who + 1][1])
SockAnswer(socks, c) ==
  IF c \in socks THEN 2
  ELSE IF \E s \in socks : Diff(s % 5, c % 5) <= 1 /\ Diff(s \div 5, c \div 5) <= 1 THEN 1 ELSE 0
(* the taps on the field of `who` so far, and the socks they found *)
SockTaps(m, who) == UNION {ToSet(LastOf(m[t])) : t \in {t \in 2 .. Len(m) : (t - 1) % 2 # who}}
SockFound(m, who) == Cardinality(Hidden(m, who) \intersect SockTaps(m, who))
Hide == [Ask("grid") EXCEPT !.n = 2, !.of = 25]
Probe == [Ask("probe") EXCEPT !.n = 6, !.of = 25]
Socken == << <<Hide>>, <<Hide, Probe>> >> \o Times(5, <<Probe>>)
SockenResult(doc, m) == <<SockFound(m, 1), SockFound(m, 0), Len(m) - 1>>

Advent == << <<Loose(24, 0)>>, <<Ask("doors")>> >>
AdventResult(doc, m) == m[1][1][1]

(* A rap from rhyme cards: three of six, never the same one twice. *)
RAPTYPE == <<0, 0, 1, 1, 2, 2>>
RapCards(doc, who, k, avoid) == FirstOf(SelectSeq(Mix(doc, <<"karte", 2 * who + k>>, 6), LAMBDA i : i # avoid), 3)
RapChosen(doc, t, who) ==
  LET first == RapCards(doc, who, 0, NULL)[Chosen(t[1]) + 1] IN <<first, RapCards(doc, who, 1, first)[Chosen(t[2]) + 1]>>
Rap == Twice(<<Tip(3), Tip(3)>>)
RapResult(doc, m) ==
  LET punch(who) == Cardinality({i \in 1 .. 2 : RAPTYPE[RapChosen(doc, m[who + 1], who)[i] + 1] = 2}) IN <<punch(0), punch(1)>>

-----------------------------------------------------------------------------
(* Music, voices in a call, voices on one phone. *)
Disco == << <<Tip(3), Timed("freeze", 99)>> >>
DiscoResult(doc, m) == m[1][2]

Figure(doc, r) == Mix(doc, <<"figur", 0>>, 18)[r + 1]
FigureCards(doc, r) ==
  LET ok == Figure(doc, r)
      rest == FirstOf(SelectSeq(Mix(doc, <<"fk", r>>, 18), LAMBDA i : i # ok), 5) \o <<ok>>
      o == Mix(doc, <<"fo", r>>, 6)
  IN [i \in 1 .. 6 |-> rest[o[i] + 1]]
Stimme == << <<Show>>, <<Tip(2), Timed("voices", 5)>> >>
StimmeResult(doc, m) == m[2][2]

Maus == << <<Line, Tip(4), Voiced("rec", 0)>>, <<Voiced("once", 0)>> >>
MausResult(doc, m) == m[1][1]

ParrotWord(doc) == Mix(doc, <<"pw", 0>>, 3)[1]
Papagei == << <<Show, Voiced("rec", 0)>>, <<Voiced("parrot", 1), Tip(3)>> >>
PapageiResult(doc, m) == Chosen(m[2][2]) = ParrotWord(doc)

AnimalOrder(doc) == Mix(doc, <<"tierfolge", 0>>, 3)
Tier == << <<Words(3)>> >> \o [i \in 1 .. 3 |-> <<Voiced("rec", i - 1)>>] \o << [k \in 1 .. 3 |-> Voiced("whose", k)] >>
TierResult(doc, m) == {who \in Below(3) : m[5][Pos(AnimalOrder(doc), who)] = who}

-----------------------------------------------------------------------------
(* Time and nerves: the phone measures, targets and pauses come from the seed. *)
UhrTargets(doc) == [r \in 1 .. 5 |-> 3000 + Mix(doc, <<"uhr", r>>, 6)[1] * 1000]
Uhr == << <<Timed("inner", 5)>> >>
UhrResult(doc, m) == SumOf(m[1][1])

GOAL == 10000
Pokal == Twice(<<Timed("blind", 3)>>)
PokalResult(doc, m) == More(Diff(m[2][1], GOAL), Diff(m[1][1], GOAL))

(* Misere Nim: the last fry loses; good plays it perfectly, the other bot rolls. *)
HEAPS == <<3, 4, 5>>
Xor(a, b) == SumOf([k \in 1 .. 3 |-> LET bit(x) == (x \div 2^(k - 1)) % 2 IN 2^(k - 1) * ((bit(a) + bit(b)) % 2)])
NimSum(h) == Xor(Xor(h[1], h[2]), h[3])
AnyMove(h) == {x \in (DOMAIN h) \X (1 .. 5) : x[2] <= h[x[1]]}
Rolled(doc, h, step) ==
  LET live == SelectSeq(<<1, 2, 3>>, LAMBDA i : h[i] > 0)
      roll(k, n) == Rnd(doc.seed, <<"nim", step>>, k, n)
      i == live[roll(0, Len(live)) + 1]
  IN <<i, 1 + roll(1, h[i])>>
(* the bot's move after `step` moves *)
BotMove(doc, h, step, good) ==
  LET big == {i \in DOMAIN h : h[i] > 1}
      ones == Cardinality({i \in DOMAIN h : h[i] = 1})
      x == NimSum(h)
      down == {i \in DOMAIN h : Xor(h[i], x) < h[i]}
  IN IF good /\ Cardinality(big) = 1
     THEN LET i == SetMin(big) IN <<i, IF ones % 2 = 1 THEN h[i] ELSE h[i] - 1>>
     ELSE IF good /\ Cardinality(big) > 1 /\ x # 0 THEN LET i == SetMin(down) IN <<i, h[i] - Xor(h[i], x)>>
     ELSE Rolled(doc, h, step)
Pommes == << <<Tip(2), Timed("nim", 0)>> >>
PommesResult(doc, m) == <<m[1][2] = 1, Chosen(m[1][1])>>

(* per round, how many decoys come first: the same for both players *)
Decoys(doc, r) == Mix(doc, <<"lock", r>>, 3)[1]
Reaktion == Twice(<<Timed("react", 5)>>)
ReaktionResult(doc, m) == More(m[2][1], m[1][1])

(* The bouncer: a being is <<animal, hat, colour, socks>>. *)
DoorRule(r, b) ==
  CASE r = 0 -> b[2] = 1 [] r = 1 -> b[2] = 0 [] r = 2 -> b[4] = 1 [] r = 3 -> b[4] = 0 [] r = 4 -> b[3] = 0
    [] r = 5 -> b[3] = 1 [] r = 6 -> b[3] = 2 [] r = 7 -> b[1] # 0 [] r = 8 -> b[1] = 1 [] r = 9 -> b[1] # 2
DoorOrder(doc) == Mix(doc, <<"tuer", 0>>, 10)
(* when the last two under the rule agreed, the generator is asked up to 24 times more for one that differs *)
DoorBeing(doc, r, i, prev) ==
  LET try(k) == LET roll(j, n) == Rnd(doc.seed, <<"wesen", 100 * r + i>>, 4 * k + j, n) IN <<roll(0, 4), 1 - roll(1, 2), roll(2, 3), 1 - roll(3, 2)>>
      n == Len(prev)
      fine == {k \in 0 .. 24 : k = 24 \/ DoorRule(r, try(k)) # prev[n]}
  IN IF n >= 2 /\ prev[n] = prev[n - 1] THEN try(SetMin(fine)) ELSE try(0)
STREAK == 4
Tuer == << <<Timed("door", 10)>> >>
TuerResult(doc, m) == m[1][1]

-----------------------------------------------------------------------------
(* One phone in the room. *)
Struck(m) ==
  LET f[n \in 0 .. Len(m)] == IF n = 0 THEN [i \in 1 .. 7 |-> i - 1] ELSE RemoveAt(f[n - 1], Chosen(m[n][1]) + 1)
  IN f[Len(m)]
Streichen == Times(6, <<TipFrom("left", 0)>>)
StreichenResult(doc, m) == Struck(m)[1]

Finger == << <<Timed("touch", 5)>> >>
FingerResult(doc, m) == NULL
Erklaeren == << <<Timed("explain", 99)>> >>
ErklaerenResult(doc, m) == m[1][1]
Sorry == <<Times(3, Tip(4))>>
SorryResult(doc, m) == [i \in 1 .. 3 |-> Chosen(m[1][i])]

(* Collecting money: cents split over people, what is left over stays with who collects. *)
EUR == <<1, 50>>
PAYERS == 20
Split(c, k) == [e |-> c \div k, r |-> c - k * (c \div k)]
MoneyOk(c, k) == k \in 1 .. PAYERS /\ c \in EUR[1] * 100 .. EUR[2] * 100 * k /\ Split(c, k).e >= 1
Sammeln == << <<LineBut("paypal"), Line, Slide(1, PAYERS, 1), Ask("money")>>, <<Ask("pay")>> >>
SammelnResult(doc, m) == Split(m[1][4], m[1][3])
(* an amount for one person in whole euros travels in the form older apps read *)
Store(t, x) == IF t = 1 /\ x[3] = 1 /\ x[4] % 100 = 0 /\ x[4] \div 100 \in EUR[1] .. EUR[2] THEN <<x[1], x[2], x[4] \div 100>> ELSE x
Legacy(t, x) == IF t = 1 /\ Len(x) = 3 THEN <<x[1], x[2], 1, x[3] * 100>> ELSE x

(* Gifts in three questions, five ideas, and the other one's favourite. *)
Geschenk == << <<ByItself(Opts(1, 7)), Tip(4), Opts(2, 12), Ask("ideas")>>, <<TipFrom("ideas", 0)>> >>
GiftLast(m) == LastOf(m[1])
GeschenkResult(doc, m) == LET x == GiftLast(m) IN <<x[1][x[2] + 1], x[1][Chosen(m[2][1]) + 1]>>

(* only with a question pack, which is not modelled: without one no answer is valid *)
Quiz == << <<Ask("pk")>> >>
Typen == << <<Ask("pk")>> >>

-----------------------------------------------------------------------------
(* the turns of each game *)
GAMES ==
  [deal |-> Dealing, einig |-> Einig, wort |-> Wort, schmuggel |-> Schmuggel, lob |-> Lob, auktion |-> Auktion, kapsel |-> Kapsel,
   kennst |-> Kennst, snack |-> Snack, teilen |-> Teilen, wette |-> Wette, luecke |-> Luecke, socke |-> Socke, bluff |-> Bluff,
   auftrag |-> Auftrag, ausrede |-> Ausrede, gutschein |-> Gutschein, rubbellos |-> Rubbellos, urkunde |-> Urkunde,
   luege |-> Luege, blitz |-> Blitz, recht |-> Recht, morgen |-> Morgen, umschlag |-> Umschlag, rad |-> Rad, steine |-> Steine,
   unlesbar |-> Unlesbar, damals |-> Damals, kreis |-> Kreis, hoeflich |-> Hoeflich, woerter |-> Woerter, abfragen |-> Abfragen,
   regel |-> Regel, werbung |-> Werbung, maschine |-> Maschine, suche |-> Suche, wichteln |-> Wichteln, rangliste |-> Rangliste,
   schaetzen |-> Schaetzen, reihum |-> Reihum, termin |-> Termin, danke |-> Danke, kerzen |-> Kerzen, tunnel |-> Tunnel,
   post |-> Post, fallpreis |-> Fallpreis, socken |-> Socken, advent |-> Advent, rap |-> Rap, disco |-> Disco, stimme |-> Stimme,
   maus |-> Maus, papagei |-> Papagei, tier |-> Tier, uhr |-> Uhr, pokal |-> Pokal, pommes |-> Pommes, reaktion |-> Reaktion,
   tuer |-> Tuer, streichen |-> Streichen, finger |-> Finger, erklaeren |-> Erklaeren, sorry |-> Sorry, sammeln |-> Sammeln,
   geschenk |-> Geschenk, quiz |-> Quiz, typen |-> Typen]
(* one phone that is handed around; the same game for everybody on a day; a *)
(* link that stays the same; a second turn that waits for its day           *)
Daily == {"schaetzen", "uhr", "tuer"}
OnePhone == Daily \union
  {"urkunde", "unlesbar", "damals", "werbung", "maschine", "suche", "tunnel", "disco", "maus",
   "papagei", "tier", "pommes", "streichen", "finger", "erklaeren", "sorry"}
Staying == {"wichteln", "advent", "stimme", "sammeln"}
LaterDay == {"kapsel", "wette", "morgen", "post"}
=============================================================================
