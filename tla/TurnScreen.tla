----------------------------- MODULE TurnScreen -----------------------------
(***************************************************************************)
(* apps/duell-web/src/turn-ui.js: walk() goes through the prompts of a     *)
(* turn one by one.  Each widget keeps its own state and sets an answer    *)
(* (or none yet); "auto" goes on by itself, otherwise "Weiter" does.  The  *)
(* finished turn is a link, opened on the other phone or passed on here.   *)
(*                                                                         *)
(* A handler of a widget takes one input: what was tapped, or how long it  *)
(* took.  Ways names the plain one of somebody who just goes on and all    *)
(* that are tried; bound: Whims(g) of them in a game are not plain.        *)
(***************************************************************************)
EXTENDS Turns

CONSTANTS
  Starts,      \* the links people begin with: game, seed, moves so far
  Seeds,       \* what a new game may get as its seed
  Days,        \* bound: the days on which somebody looks
  Whims(_)     \* bound: inputs of a game that are not the plain ones

VARIABLE
  turn         \* the link, its moves, the step it is at, and what is on the screen (Screen)

-----------------------------------------------------------------------------
(* The widgets: state s and the answer set so far. *)

Widget(s, cur) == [s |-> s, cur |-> cur, go |-> TRUE]
When(c, v) == IF c THEN v ELSE NULL
Least(S) == IF S = {} THEN NULL ELSE SetMin(S)
(* bound: of many things only the first four and the last are tapped *)
Reach(n) == Below(SetMin({n, 4})) \union {n - 1}

(* n of the choices; one too many pushes the first out *)
Off(s, x) == SelectSeq(s, LAMBDA y : y # x)
(* mutant: a choice too many is kept *)
TapPickKeeps(p, s, i) ==
  LET on == IF i \in ToSet(s) THEN Off(s, i) ELSE Append(s, i) IN Widget(on, When(Len(on) >= p.n, on))
TapPick(p, s, i) ==
  LET on == IF i \in ToSet(s) THEN Off(s, i) ELSE Append(IF Len(s) >= p.n THEN Tail(s) ELSE s, i)
  IN Widget(on, When(Len(on) = p.n, on))
(* the last place of a ranking fills itself *)
TapRank(p, s, i) ==
  LET o == IF i \in ToSet(s) THEN Off(s, i) ELSE Append(s, i)
      all == IF Len(o) = p.of - 1 THEN Append(o, SetMin(Below(p.of) \ ToSet(o))) ELSE o
  IN Widget(all, When(Len(all) = p.of, all))
TapGrid(p, s, i) ==
  LET on == IF i \in ToSet(s) THEN Off(s, i) ELSE IF Len(s) < p.n THEN Append(s, i) ELSE s
  IN Widget(on, When(Len(on) = p.n, on))
(* one step more or less for one of the things, as far as it goes *)
TapAlloc(p, s, x) ==
  LET v == [s EXCEPT ![x[1]] = @ + x[2] * p.def]
      out == IF v[x[1]] >= 0 /\ SumOf(v) <= p.n THEN v ELSE s
  IN Widget(out, out)
(* one field of a list is typed; a filtered text counts as none *)
TapList(p, s, x) ==
  LET typed == [s EXCEPT ![x[1]] = x[2]]
      v == [i \in DOMAIN typed |-> Clean(typed[i])]
      enough == p.w = "loose" /\ (p.of > 0 => Len(Filled(v)) >= p.of /\ Distinct(Folds(Filled(v))))
      full == p.w # "loose" /\ "" \notin ToSet(v) /\ (p.w = "list" => Distinct(Folds(v)))
  IN Widget(typed, When(enough \/ full, v))
TapText(p, x, doc, m, now) == Widget(x, When(OkAnswer(p, x, doc, m, now), x))
TapMoney(p, x, now) == Widget(x, When(MoneyOk(x, now[3]), x))

(* a tapped cell says found, near or far at once and cannot be tapped again *)
TapProbe(p, s, i, m) ==
  IF Len(s.taps) >= p.n \/ i \in ToSet(s.taps) \union SockTaps(m, (Len(m) + 1) % 2) THEN Widget(s, When(s.taps # <<>>, s.taps))
  ELSE LET u == [taps |-> Append(s.taps, i), shown |-> Append(s.shown, SockAnswer(Hidden(m, (Len(m) + 1) % 2), i))] IN Widget(u, u.taps)
BY_HAND == -1
(* a block goes down where it fits; the game ends by hand, or when no block fits any more *)
TapBlocks(p, s, x, doc) ==
  LET b == BlockAt(doc, s.st.i)
      st == Drop(s.st, b, x)
      moves == Append(s.moves, x)
  IN IF x = BY_HAND THEN Widget(s, s.moves)
     ELSE IF ~Fits(s.st.grid, b, x) THEN Widget(s, NULL)
     ELSE Widget([st |-> st, moves |-> moves], When(Len(moves) >= p.n \/ ~CanMove(st, doc), moves))
(* the player takes, the bot answers after a short look; the last fry loses *)
TakeFries(s, x, bot) ==
  LET h == [s.h EXCEPT ![x[1]] = @ - x[2]]
  IN Widget([h |-> h, step |-> s.step + 1, busy |-> ~bot], When(SumOf(h) = 0, IF bot THEN 1 ELSE 0))
TapNim(s, x, doc, now) ==
  IF s.busy THEN TakeFries(s, BotMove(doc, s.h, s.step, Chosen(now[1]) = 1), TRUE) ELSE TakeFries(s, x, FALSE)

(* a day takes the hour chosen before; five dates at most *)
TapSlots(s, x, today) ==
  LET slot == (today + x[2]) * 10 + s.hour
      u == CASE x[1] = "name" -> [s EXCEPT !.name = x[2]]
             [] x[1] = "hour" -> [s EXCEPT !.hour = x[2]]
             [] x[1] = "day" -> [s EXCEPT !.picked = IF slot \in @ THEN @ \ {slot} ELSE IF Cardinality(@) >= 5 THEN @ ELSE @ \union {slot}]
      v == <<u.name, SetToSortSeq(u.picked, <)>>
  IN Widget(u, When(OkSlots(v), v))
(* no answer is set in advance: a silent no would look like a real one *)
TapVote(s, x, m) ==
  LET u == CASE x[1] = "name" -> [s EXCEPT !.name = x[2]]
             [] x[1] = "yes" -> [s EXCEPT !.v = [i \in DOMAIN @ |-> 0]]
             [] x[1] = "date" -> [s EXCEPT !.v[x[2]] = x[3]]
      v == <<u.name, u.v>>
  IN Widget(u, When(-1 \notin ToSet(u.v) /\ OkVote(v, m), v))
(* fingers come and go; when nobody moved for three seconds one of them is chosen *)
TapTouch(s, x) == IF x = "chosen" THEN Widget(s, 0) ELSE Widget(IF x = "down" THEN s + 1 ELSE s - 1, NULL)
TapVoices(p, s, x, doc, now) ==
  LET hit == Chosen(now[1]) = 1 /\ FigureCards(doc, s.r)[x + 1] = Figure(doc, s.r)
      u == [r |-> s.r + 1, hits |-> IF hit THEN s.hits + 1 ELSE s.hits]
  IN Widget(u, When(u.r >= p.n, u.hits))
(* the music plays, breaks off and a statue is named; ended at any time *)
TapFreeze(p, s, x) ==
  CASE x = "play" -> Widget([s EXCEPT !.music = TRUE], NULL)
    [] x = "stop" -> Widget([music |-> FALSE, r |-> s.r + 1], NULL)
    [] x = "end" -> Widget([s EXCEPT !.music = FALSE], SetMin({p.n, s.r}))
(* the price falls from the first tap on; the second buys at what is shown, or it comes to nothing *)
TapPrice(s, x) == IF ~s THEN Widget(TRUE, NULL) ELSE Widget(TRUE, x)
TapCandles(p, s) == Widget(s + 1, When(s + 1 = p.n, 0))
(* the words on the papers in the room, four of them; x is the seconds it took *)
TapHunt(p, s, x) == Widget(s + 1, When(s + 1 = 4, SetMin({p.n, SetMax({1, x})})))

-----------------------------------------------------------------------------
(* turn2.js: the widgets with a clock.  gate(): no clock runs before a tap. *)

Gated(p) == p.w \in {"explain", "clock", "react", "door"}
TapExplain(p, s, x) == IF x = "over" THEN Widget(s, s) ELSE Widget(IF x = "hit" THEN SetMin({p.n, s + 1}) ELSE s, NULL)
(* a tap starts the time, the next one stops it; a stop in the first half second does not count *)
TapInner(s, x, doc) ==
  LET off == x - UhrTargets(doc)[Len(s.out) + 1]
      out == Append(s.out, SetMax({-20000, SetMin({20000, off})}))
  IN IF ~s.run THEN Widget([s EXCEPT !.run = TRUE], NULL)
     ELSE IF x < 500 THEN Widget(s, NULL)
     ELSE Widget([run |-> FALSE, out |-> out], When(Len(out) = 5, out))
(* the best of some tries; a stop under two seconds does not count *)
TapBlind(p, s, x) ==
  LET best == IF s.best = 0 \/ Diff(x, GOAL) < Diff(s.best, GOAL) THEN SetMin({30000, x}) ELSE s.best
  IN IF ~s.run THEN Widget([s EXCEPT !.run = TRUE], NULL)
     ELSE IF x < 2000 THEN Widget(s, NULL)
     ELSE Widget([run |-> FALSE, n |-> s.n + 1, best |-> best], When(s.n + 1 >= p.n, best))
(* decoys come first, then the star for two seconds; a wrong tap costs half a second *)
NextRound(p, s, cost) ==
  LET u == [s EXCEPT !.sum = @ + cost, !.r = @ + 1, !.k = 0, !.shown = "none"] IN Widget(u, When(u.r >= p.n, SetMin({60000, u.sum})))
TapReact(p, s, x, doc) ==
  CASE x = "wait" /\ s.shown = "none" -> IF s.k < Decoys(doc, s.r) THEN Widget([s EXCEPT !.k = @ + 1, !.shown = "decoy"], NULL) ELSE Widget([s EXCEPT !.shown = "star"], NULL)
    [] x = "wait" /\ s.shown = "decoy" -> Widget([s EXCEPT !.shown = "none"], NULL)
    [] x = "wait" /\ s.shown = "star" -> NextRound(p, s, 2000)
    [] x = "tap" /\ s.shown = "star" -> NextRound(p, s, 300)
    [] x = "tap" /\ s.shown = "decoy" -> Widget([s EXCEPT !.sum = @ + 500], NULL)
(* STREAK right answers in a row find a rule; a being stays for a moment after   *)
(* each answer, and when the time is over meanwhile the card is set after it     *)
AtDoor(doc, s) == DoorRule(DoorOrder(doc)[s.k + 1], DoorBeing(doc, DoorOrder(doc)[s.k + 1], s.i, s.prev))
TapDoor(p, s, x, doc) ==
  LET inside == AtDoor(doc, s)
      ok == (x = "in") = inside
      said == [s EXCEPT !.lock = TRUE, !.total = @ + 1, !.prev = Append(@, inside),
                        !.run = IF ok THEN @ + 1 ELSE 0, !.right = IF ok THEN @ + 1 ELSE @]
      gone == IF s.run >= STREAK THEN [s EXCEPT !.k = @ + 1, !.run = 0, !.prev = <<>>, !.i = 0] ELSE [s EXCEPT !.i = @ + 1]
      rest == [gone EXCEPT !.lock = gone.k >= p.n]
      card(u) == <<u.k, u.right, u.total>>
  IN CASE x = "over" -> IF s.lock THEN Widget([s EXCEPT !.late = TRUE], NULL) ELSE Widget([s EXCEPT !.lock = TRUE], card(s))
       [] x = "moment" -> Widget(rest, When(rest.lock \/ s.late, card(rest)))
       [] OTHER -> Widget(said, NULL)
(* five ideas from the list, or those of the AI; another list puts the choice back *)
STD == <<1, 2, 3, 4, 5>>
OF_AI == <<6, 7>>
TapIdeas(s, x) ==
  CASE x[1] = "ai" -> Widget(OF_AI, NULL) [] x[1] = "back" -> Widget(STD, NULL) [] x[1] = "idea" -> Widget(s, <<s, x[2]>>)

-----------------------------------------------------------------------------
(* a widget as it is drawn *)
Draw(p, doc, m, voice) ==
  LET waiting(s) == [Widget(s, NULL) EXCEPT !.go = FALSE]
      empty == [i \in 1 .. p.n |-> ""]
      zeros == [i \in 1 .. p.of |-> 0]
  IN CASE p.w \in {"show", "pay"} -> Widget(0, 0)
       [] p.w = "slide" -> Widget(0, IF p.def > 0 THEN p.def ELSE p.of)
       [] p.w = "alloc" -> Widget(zeros, zeros)
       [] p.w = "once" -> Widget(0, When(p.of \notin voice, 0))
       [] p.w \in {"list", "same"} -> Widget(empty, NULL)
       [] p.w = "loose" -> Widget(empty, When(p.of = 0, empty))
       [] p.w \in {"pick", "opts", "rank", "grid"} -> Widget(<<>>, NULL)
       [] p.w = "probe" -> Widget([taps |-> <<>>, shown |-> <<>>], NULL)
       [] p.w = "blocks" -> Widget([st |-> EmptyGrid, moves |-> <<>>], NULL)
       [] p.w = "nim" -> Widget([h |-> HEAPS, step |-> 0, busy |-> FALSE], NULL)
       [] p.w = "slots" -> Widget([name |-> "", hour |-> 6, picked |-> {}], NULL)
       [] p.w = "vote" -> Widget([name |-> "", v |-> [i \in DOMAIN TermDates(m) |-> -1]], NULL)
       [] p.w = "voices" -> Widget([r |-> 0, hits |-> 0], NULL)
       [] p.w = "freeze" -> Widget([r |-> 0, music |-> FALSE], NULL)
       [] p.w = "drop" -> Widget(FALSE, NULL)
       [] p.w = "inner" -> Widget([run |-> FALSE, out |-> <<>>], NULL)
       [] p.w = "blind" -> Widget([run |-> FALSE, n |-> 0, best |-> 0], NULL)
       [] p.w = "react" -> waiting([r |-> 0, k |-> 0, sum |-> 0, shown |-> "none"])
       [] p.w = "door" -> waiting([k |-> 0, i |-> 0, run |-> 0, right |-> 0, total |-> 0, prev |-> <<>>, lock |-> FALSE, late |-> FALSE])
       [] p.w \in {"explain", "clock"} -> waiting(0)
       [] p.w = "ideas" -> Widget(STD, NULL)
       [] OTHER -> Widget(0, NULL)

(* the inputs that are tried, the plain one first *)
Way(plain, more) == [plain |-> plain, all |-> {plain} \union more]
FirstFit(seq, Test(_)) == seq[SelectInSeq(seq, Test)]
NextOf(n, used) == Least(Below(n) \ used)
TextOrder == Vocab \o <<"Tea", "my tea", "rude">>
Ways(p, w, doc, m, now) ==
  LET s == w.s
      n == Count(p, doc, m)
      free == {i \in 1 .. p.n : s[i] = ""}
      field == IF free = {} THEN 1 ELSE SetMin(free)
      fits == {c \in Cells : Fits(s.st.grid, BlockAt(doc, s.st.i), c)}
      fresh(name) == NameOk(name) /\ Fold(name) \notin Voted(m)
      untapped == FIELD \ (ToSet(s.taps) \union SockTaps(m, (Len(m) + 1) % 2))
  IN IF ~w.go THEN Way(0, {}) ELSE
     CASE p.w = "slide" -> Way(NULL, {p.of, p.of + 1, Most(p, doc)})
       [] p.w \in {"pick", "opts"} -> Way(NextOf(n, ToSet(s)), Reach(n))
       [] p.w = "rank" -> Way(NextOf(p.of, ToSet(s)), Reach(p.of))
       [] p.w = "grid" -> Way(NextOf(25, ToSet(s)), Reach(25))
       [] p.w = "alloc" -> Way(NULL, {1, 2, p.of} \X {1, -1})
       [] p.w \in {"list", "loose", "same"} -> Way(<<field, Thing(field - 1)>>, {field, 1} \X {"Tea", "rude", ""})
       [] p.w = "text" -> Way(FirstFit(TextOrder, LAMBDA x : OkAnswer(p, x, doc, m, now)), {"Tea", "rude", "my tea"})
       [] p.w = "money" -> Way(1000, {99, 150, 5000, 5001, 100001})
       [] p.w = "probe" -> Way(Least(untapped), untapped \intersect (Reach(25) \union Hidden(m, (Len(m) + 1) % 2)))
       [] p.w = "blocks" -> Way(Least(fits), {BY_HAND} \union fits)
       [] p.w = "nim" -> IF s.busy THEN Way(<<0, 0>>, {}) ELSE Way(<<SetMin({i \in 1 .. 3 : s.h[i] > 0}), 1>>, AnyMove(s.h))
       [] p.w = "slots" -> Way(IF s.name = "" THEN <<"name", "tea">> ELSE <<"day", Cardinality(s.picked)>>,
                               {<<"name", "rude">>, <<"hour", 0>>, <<"day", 0>>, <<"day", 13>>})
       [] p.w = "vote" -> Way(IF fresh(s.name) THEN <<"yes">> ELSE <<"name", FirstFit(Vocab, fresh)>>,
                              {<<"name", "Tea">>, <<"name", "rude">>} \union {<<"date", i, x>> : i \in DOMAIN s.v, x \in 0 .. 2})
       [] p.w = "touch" -> Way(IF s < 2 THEN "down" ELSE "chosen", {x \in {"down", "up"} : IF x = "up" THEN s > 0 ELSE s < 5})
       [] p.w = "voices" -> Way(0, IF Chosen(now[1]) = 1 THEN Below(6) ELSE {})
       [] p.w = "freeze" -> Way(IF s.music THEN "stop" ELSE IF s.r = 0 THEN "play" ELSE "end", {"play", "end"})
       [] p.w = "drop" -> Way(IF s THEN 50 ELSE 0, IF s THEN {100, 1, 0} ELSE {})
       [] p.w = "hunt" -> Way(60, IF s = 3 THEN {0, 4000} ELSE {})
       [] p.w = "whose" -> Way(0, Below(3))
       [] p.w = "explain" -> Way("over", {"hit", "skip"})
       [] p.w = "inner" -> IF s.run THEN Way(UhrTargets(doc)[Len(s.out) + 1], {400, 500, 90000}) ELSE Way(0, {})
       [] p.w = "blind" -> IF s.run THEN Way(GOAL, {1999, 9500, 40000}) ELSE Way(0, {})
       [] p.w = "react" -> Way(IF s.shown = "star" THEN "tap" ELSE "wait", IF s.shown = "none" THEN {} ELSE {"wait", "tap"})
       [] p.w = "door" -> IF s.lock THEN Way("moment", IF s.late THEN {} ELSE {"over"})
                          ELSE Way(IF AtDoor(doc, s) THEN "in" ELSE "out", {"in", "out", "over"})
       [] p.w = "ideas" -> Way(<<"idea", 0>>, {<<"idea", i>> : i \in Below(Len(s))} \union {<<"ai">>, <<"back">>})
       [] p.w \in {"blow", "rec", "parrot", "clock"} \/ (p.w = "once" /\ w.cur = NULL) -> Way(0, {})
       [] OTHER -> Way(NULL, {})

Tap(p, w, x, doc, m, now, today) ==
  LET s == w.s IN
  IF ~w.go THEN [w EXCEPT !.go = TRUE] ELSE
  CASE p.w = "slide" -> Widget(s, x)
    [] p.w \in {"pick", "opts"} -> TapPick(p, s, x)
    [] p.w = "rank" -> TapRank(p, s, x)
    [] p.w = "grid" -> TapGrid(p, s, x)
    [] p.w = "alloc" -> TapAlloc(p, s, x)
    [] p.w \in {"list", "loose", "same"} -> TapList(p, s, x)
    [] p.w = "text" -> TapText(p, x, doc, m, now)
    [] p.w = "money" -> TapMoney(p, x, now)
    [] p.w = "probe" -> TapProbe(p, s, x, m)
    [] p.w = "blocks" -> TapBlocks(p, s, x, doc)
    [] p.w = "nim" -> TapNim(s, x, doc, now)
    [] p.w = "slots" -> TapSlots(s, x, today)
    [] p.w = "vote" -> TapVote(s, x, m)
    [] p.w = "touch" -> TapTouch(s, x)
    [] p.w = "voices" -> TapVoices(p, s, x, doc, now)
    [] p.w = "freeze" -> TapFreeze(p, s, x)
    [] p.w = "drop" -> TapPrice(s, x)
    [] p.w = "blow" -> TapCandles(p, s)
    [] p.w = "hunt" -> TapHunt(p, s, x)
    [] p.w = "explain" -> TapExplain(p, s, x)
    [] p.w = "inner" -> TapInner(s, x, doc)
    [] p.w = "blind" -> TapBlind(p, s, x)
    [] p.w = "react" -> TapReact(p, s, x, doc)
    [] p.w = "door" -> TapDoor(p, s, x, doc)
    [] p.w = "ideas" -> TapIdeas(s, x)
    [] p.w = "whose" -> Widget(1, x)
    [] p.w \in {"rec", "parrot", "once", "clock"} -> Widget(1, 0)

-----------------------------------------------------------------------------
(* walk() *)

M == turn.m
GameOn == turn.doc.g
Prompt == turn.ps[Len(turn.now) + 1]
(* what a recording widget does with the memory of this tab *)
Voice(p, v) ==
  CASE p.w = "rec" -> turn.voice \union {p.of}
    [] p.w = "once" -> turn.voice \ {p.of}
    [] p.w = "parrot" -> (turn.voice \union {p.of}) \ {p.of - 1}
    [] p.w = "whose" -> IF v = 2 \/ Len(turn.now) = 2 THEN turn.voice \ {AnimalOrder(turn.doc)[p.of]} ELSE turn.voice
    [] OTHER -> turn.voice

(* the step's answer is taken; after the last one the turn becomes a link, *)
(* unless the same link goes on to the next person                         *)
GoOn(now, voice, whims) ==
  LET done == Len(now) = Len(turn.ps) IN
  turn' = [turn EXCEPT !.now = now, !.voice = voice, !.whims = whims,
                       !.next = IF ~done \/ (GameOn \in Staying /\ M # <<>>) THEN NULL ELSE Play(turn.doc, now, turn.today),
                       !.w = IF done THEN NULL ELSE Draw(turn.ps[Len(now) + 1], turn.doc, M, voice)]

Walking == turn.w # NULL /\ Gate(turn.doc, M, turn.today) = 0
(* text(): a PayPal name is for adults, so there is no field for it *)
Closed(p) == p.from = "paypal" /\ turn.minor
Touch ==
  /\ Walking /\ ~Closed(Prompt)
  /\ LET way == Ways(Prompt, turn.w, turn.doc, M, turn.now) IN
     \E x \in way.all \ {NULL} :
       LET w == Tap(Prompt, turn.w, x, turn.doc, M, turn.now, turn.today)
           whims == turn.whims + IF turn.w.cur = NULL /\ x = way.plain THEN 0 ELSE 1
       IN /\ whims <= Whims(GameOn)
          /\ IF Prompt.auto /\ w.cur # NULL THEN GoOn(Append(turn.now, w.cur), Voice(Prompt, w.cur), whims)
             ELSE turn' = [turn EXCEPT !.w = w, !.whims = whims]
(* "Weiter", or the short look after a choice is over; paying has no button *)
Go ==
  /\ Walking /\ turn.w.cur # NULL /\ Prompt.w # "pay"
  /\ GoOn(Append(turn.now, turn.w.cur), turn.voice, turn.whims)

Screen(doc, m, today, voice, whims, minor) ==
  LET ps == Prompts(doc, m) IN
  [doc |-> doc, m |-> m, ps |-> ps, today |-> today, now |-> <<>>, next |-> NULL, voice |-> voice, minor |-> minor,
   whims |-> whims, before |-> whims,
   card |-> IF ps = <<>> THEN Result(doc, m) ELSE NULL,
   w |-> IF ps = <<>> THEN NULL ELSE Draw(ps[1], doc, m, voice)]
Open(doc, whims) == turn' = Screen(doc, Moves(doc), turn.today, turn.voice, whims, turn.minor)
(* open(): a game not begun gets a seed of its own, one of the day the same for everybody *)
Seeded(doc, seed, today) == [doc EXCEPT !.seed = IF doc.g \in Daily THEN today ELSE seed, !.q = NULL]

(* the link is opened on the other phone, or this one is passed on *)
Pass == turn.next # NULL /\ Open(turn.next, turn.whims)
(* a game for one phone and a finished one are passed on by walk() itself *)
PassesItself == turn.next # NULL /\ (GameOn \in OnePhone \/ Over(turn.next, Moves(turn.next)))
(* "redo" before sending, or the tab left and opened again *)
Redo ==
  /\ turn.now # <<>> /\ ~PassesItself
  /\ turn' = [turn EXCEPT !.now = <<>>, !.next = NULL, !.whims = turn.before, !.w = Draw(turn.ps[1], turn.doc, M, turn.voice)]
Again ==
  /\ turn.ps = <<>>
  /\ \E seed \in Seeds : Open(Seeded(Rematch(turn.doc, seed), seed, turn.today), 0)
(* only a game with a gate looks at the day *)
Day ==
  /\ GameOn \in LaterDay /\ ~PassesItself
  /\ \E d \in Days : d > turn.today /\ turn' = [turn EXCEPT !.today = d]

TurnInit ==
  \E d \in Starts, minor \in BOOLEAN :
    /\ minor => d.g = "sammeln"
    /\ LET today == SetMin(Days)
           doc == IF d.q = NULL THEN Seeded(d, d.seed, today) ELSE d
       IN turn = Screen(doc, Moves(doc), today, {}, 0, minor)
TurnNext == Touch \/ Go \/ Pass \/ Redo \/ Again \/ Day
TurnSpec == TurnInit /\ [][TurnNext]_turn

-----------------------------------------------------------------------------
(* turns.js:1132 "every answer has to be one the screen could have given", and *)
(* the other way round: whatever a widget sets is accepted, a turn walked to   *)
(* its end always gives a link, and the link opens with exactly the moves made *)
(* so far and this one, for the next turn or the end.                          *)
ScreensAndLinksAgree ==
  LET d == turn.doc  walked == turn.ps # <<>> /\ Len(turn.now) = Len(turn.ps) IN
  /\ turn.w # NULL /\ turn.w.cur # NULL => OkAnswer(Prompt, turn.w.cur, d, M, turn.now)
  /\ walked /\ ~(d.g \in Staying /\ M # <<>>) => turn.next # NULL
  /\ turn.next # NULL => Moves(turn.next) = Append(M, turn.now)
  /\ Len(M) = Len(Unseal(d.q, d.seed))

(* The heaps at which whoever has to take loses: every move of theirs leaves *)
(* a position the other one can win, and taking the last fry loses.          *)
NimLost ==
  LET heaps(n) == {h \in [DOMAIN HEAPS -> 0 .. SetMax(ToSet(HEAPS))] : SumOf(h) = n /\ \A i \in DOMAIN h : h[i] <= HEAPS[i]}
      f[n \in 0 .. SumOf(HEAPS)] ==
        IF n = 0 THEN {}
        ELSE LET lost == f[n - 1]
             IN lost \union {h \in heaps(n) : \A x \in AnyMove(h) : [h EXCEPT ![x[1]] = @ - x[2]] \notin lost}
  IN f[SumOf(HEAPS)]

(* What a finished card says follows from what was offered, typed and played. *)
CardIsTrue(d, m, c) ==
  LET g == d.g IN
  CASE g = "deal" -> \A i \in 1 .. 2 : c[i] # NULL => c[i].a + c[i].b = 10 /\ c[i].b >= (IF i = 1 THEN m[2][1] ELSE m[3][1])
    [] g = "einig" -> LET pa == Places(m[1][2])  pb == Places(m[2][1]) IN ~\E i \in Below(5) : pa[i] < pa[c.best] /\ pb[i] < pb[c.best]
    [] g = "wort" -> (c = 3) = (ToSet(m[1][1]) = ToSet(m[2][1]))
    [] g = "schmuggel" -> SmuggleSpot(d, 0) \intersect SmuggleSpot(d, 1) = {} /\ \A w \in {0, 1} : Cardinality(SmuggleSpot(d, w)) = 3
    [] g = "auktion" -> /\ m[1] = m[2] => c = <<0, 0>>
                        /\ \A w \in {0, 1} : SumOf(m[w + 1][1]) = 0 => c[w + 1] = 0
    [] g = "kennst" -> (c = <<5, 5>>) = (m[2] = m[1] \o m[3])
    [] g = "snack" -> (c[1] = 10) = (m[1] = m[2]) /\ (c[2] = <<>>) = (m[1] = m[2])
    [] g = "teilen" -> \A i \in 1 .. 4 : m[c[i] + 1][1][i] >= m[2 - c[i]][1][i]
    [] g = "bluff" -> LET honest == \A i \in 1 .. 5 : Chosen(m[1][i]) = 0  opened == 5 - Zeros(m[2]) IN
                      honest => c = <<SumOf(Cards(d)) + 2 * opened, 0>>
    [] g \in {"gutschein", "rad"} -> c \in ToSet(m[1][1])
    [] g = "umschlag" -> c \in ToSet(m[1])
    [] g = "recht" -> {c.a, c.b} = {m[1][1], m[2][1]}
    [] g = "blitz" -> ToSet(Folds(m[1][1])) = ToSet(Folds(m[2][1])) => c = <<0, 0>>
    [] g = "unlesbar" -> (\A i \in 1 .. 20 : Chosen(m[1][i]) = 0) => c = 20
    [] g = "woerter" -> \A r \in Below(4) : CoinMoment(d, m, r) \in ToSet(CoinOptions(d, m, r)) /\ Distinct(CoinOptions(d, m, r))
    [] g = "abfragen" -> c.second + Len(c.open2) = 4 /\ c.first + Len(c.open1) = 4
    [] g = "maschine" -> LET r == MachineRows(d, m) IN
                         /\ Cardinality({q \in 1 .. 6 : Cardinality({t \in 1 .. 3 : r[t][q] = r[4][q]}) < 2}) = 1 + (d.seed % 2)
                         /\ Cardinality(c) < 3 \/ (m[5] = m[6] /\ m[6] = m[7])
    [] g = "rangliste" -> (c.alike = 100) = (m[1] = m[2]) /\ (c.far = NULL) = (m[1] = m[2]) /\ c.alike \in 0 .. 100
    [] g = "schaetzen" -> c[1] \in 0 .. 100 /\ ((\A i \in 1 .. 5 : m[1][i] = Guesses(d)[i][1]) => c[1] = 0)
    [] g = "post" -> (c = 3) = (m[2] = Times(3, <<0>>))
    [] g = "fallpreis" -> \A w \in {0, 1} : (\A i \in 1 .. 4 : m[w + 1][i] <= m[2 - w][i]) => c[w + 1] = 0
    [] g = "rap" -> \A w \in {0, 1} : Distinct(RapChosen(d, m[w + 1], w))
    [] g = "stimme" -> \A r \in Below(5) : Distinct(FigureCards(d, r)) /\ Figure(d, r) \in ToSet(FigureCards(d, r))
    [] g = "pokal" -> (c = NULL) = (Diff(m[1][1], GOAL) = Diff(m[2][1], GOAL))
    [] g = "reaktion" -> (c = NULL) = (m[1] = m[2])
    [] g = "tuer" -> c[1] * STREAK <= c[2]
    [] g = "geschenk" -> {c[1], c[2]} \subseteq ToSet(GiftLast(m)[1])
    [] OTHER -> TRUE

(* turns.js results against what each game promises: the option agreed on is   *)
(* not worse for both, the socks end after equally many searches, the draw is  *)
(* one circle without oneself, the good bot never gives a won game away, every *)
(* tablet turn changes one word, the last one left was never struck, no cent   *)
(* is lost, the date with the most yes and maybe comes first, no gate opens    *)
(* early, no recording outlives its game, and the card is true.                *)
GamesKeepTheirPromise ==
  LET d == turn.doc  g == d.g  over == turn.ps = <<>> IN
  /\ g = "socken" /\ over =>
       /\ Cardinality({t \in 2 .. Len(M) : t % 2 = 0}) = Cardinality({t \in 2 .. Len(M) : t % 2 = 1})
       /\ Len(M) < Len(GAMES[g]) => \E w \in {0, 1} : Hidden(M, w) \subseteq SockTaps(M, w)
  /\ g = "wichteln" /\ M # <<>> =>
       LET n == Len(DrawNames(M))  to == Drawn(d, n)
           at[k \in 0 .. n] == IF k = 0 THEN 0 ELSE to[at[k - 1]]
       IN {at[k] : k \in 1 .. n} = Below(n)
  /\ g = "kreis" /\ over =>
       LET o == M[1][2]  u == M[2][4] IN
       /\ turn.card <=> \A a, b \in Below(5) : Beats(o, a, b) = Beats(u, a, b)
       /\ \A a, b \in Below(5) : a # b => Beats(o, a, b) # Beats(o, b, a)
  /\ g = "pommes" /\ turn.w # NULL /\ Prompt.w = "nim" =>
       LET s == turn.w.s  x == BotMove(d, s.h, s.step, TRUE) IN
       s.busy /\ SumOf(s.h) > 0 /\ Chosen(turn.now[1]) = 1 /\ s.h \notin NimLost => [s.h EXCEPT ![x[1]] = @ - x[2]] \in NimLost
  /\ g = "regel" /\ M # <<>> =>
       LET r == RuleAt(d, M)  s == RuleAt(d, Front(M)) IN Cardinality({i \in DOMAIN r : r[i] # s[i]}) = 1
  /\ g = "streichen" /\ over => Len(Struck(M)) = 1
  /\ g = "werbung" /\ over => SumOf([v \in 1 .. 3 |-> turn.card[v - 1]]) = 3 /\ \A v \in Below(3) : BuysFrom(M, v) # v
  /\ g = "sammeln" /\ M # <<>> =>
       LET k == M[1][3]  c == M[1][4] IN Split(c, k).e * k + Split(c, k).r = c /\ Split(c, k).r < k
  /\ g = "termin" /\ over =>
       \A i \in DOMAIN TermDates(M) : Tally(M, i).yes * 2 + Tally(M, i).maybe <= Tally(M, turn.card[1]).yes * 2 + Tally(M, turn.card[1]).maybe
  /\ g = "steine" /\ over => \A t \in {1, 2} : Replay(d, M[t][1]) # NULL
  /\ g = "hoeflich" /\ over /\ PoliteLevel(M) > PoliteLimit(d) => turn.card = Len(M) % 2 /\ PoliteLevel(Front(M)) <= PoliteLimit(d)
  /\ g = "maus" /\ over => turn.voice = {}
  /\ g \in LaterDay /\ Len(M) = 1 /\ turn.now # <<>> => turn.today >= d.o
  /\ over => CardIsTrue(d, M, turn.card)
=============================================================================
