----------------------------- MODULE TurnRules -----------------------------
(***************************************************************************)
(* apps/duell-web/src/turns.js, what its games are made of: the texts      *)
(* people type, the seeded order both phones share, and the prompts.       *)
(* Values count from 0 as in the code, positions in a sequence from 1.     *)
(***************************************************************************)
EXTENDS Integers, Sequences, FiniteSets, SequencesExt, TLC

CONSTANTS
  NULL,             \* no answer, no link
  Rnd(_, _, _, _)   \* core.js mulberry32 seeded with a tag: Rnd(seed, <<tag, i>>, k, n) is its k-th number below n

Pos(s, x) == CHOOSE i \in DOMAIN s : s[i] = x
SumOf(s) == LET f[n \in 0 .. Len(s)] == IF n = 0 THEN 0 ELSE f[n - 1] + s[n] IN f[Len(s)]
SetMin(S) == CHOOSE x \in S : \A y \in S : x <= y
SetMax(S) == CHOOSE x \in S : \A y \in S : x >= y
Distinct(s) == IsInjective(s)
Below(n) == 0 .. n - 1
Diff(a, b) == IF a > b THEN a - b ELSE b - a
Hits(a, b) == ToSet(a) \intersect ToSet(b)
Places(order) == [o \in ToSet(order) |-> Pos(order, o) - 1]

-----------------------------------------------------------------------------
(* Texts.  quest.js clean() empties a filtered text, fold() makes "Tea" and  *)
(* "tea" one word; a text has no length here, so nothing is too long.        *)
Vocab == <<"tea", "oat", "nut", "fig", "rye", "mud">>
Texts == ToSet(Vocab) \union {"", "Tea", "rude", "my tea"}
Clean(s) == IF s = "rude" THEN "" ELSE s
Fold(s) == IF s = "Tea" THEN "tea" ELSE s
Folds(s) == [i \in DOMAIN s |-> Fold(s[i])]
Filled(s) == SelectSeq(s, LAMBDA x : x # "")
NameOk(s) == Fold(s) # "" /\ Clean(s) = s
OneWord(s) == s # "my tea"
(* PPME: letters and digits only *)
PayName(s) == OneWord(s) /\ s # ""
(* the i-th of the words that come with the app *)
Thing(i) == IF i < Len(Vocab) THEN Vocab[i + 1] ELSE "sock"

(* mix(): the same order on both phones, from the seed in the link *)
CountedTo(n) == <<0>> \o [k \in 1 .. n - 1 |-> k]
Swap(a, i, j) == [a EXCEPT ![i] = a[j], ![j] = a[i]]
Mix(doc, tag, n) ==
  LET f[i \in 1 .. n] == IF i = n THEN CountedTo(n)
                         ELSE LET a == f[i + 1] IN Swap(a, i + 1, 1 + Rnd(doc.seed, tag, n - i - 1, i + 1))
  IN IF n = 0 THEN <<>> ELSE f[1]
FirstOf(s, n) == SubSeq(s, 1, n)

-----------------------------------------------------------------------------
(* Prompts: the widget, how many answers it wants, how many there are to     *)
(* choose from (or what decides that), and whether it goes on by itself.     *)

Ask(w) == [w |-> w, n |-> 1, of |-> 0, def |-> 0, from |-> "all", auto |-> FALSE]
ByItself(p) == [p EXCEPT !.auto = TRUE]
Pick(n, of) == [Ask("pick") EXCEPT !.n = n, !.of = of]
Tip(of) == ByItself(Pick(1, of))
TipFrom(from, i) == [Tip(i) EXCEPT !.from = from]
Opts(n, of) == [Pick(n, of) EXCEPT !.w = "opts"]
Rank(of) == [Ask("rank") EXCEPT !.n = of, !.of = of]
Slide(min, max, def) == [Ask("slide") EXCEPT !.of = min, !.n = max, !.def = def]
Alloc(of, sum, step) == [Ask("alloc") EXCEPT !.of = of, !.n = sum, !.def = step]
Words(n) == [Ask("list") EXCEPT !.n = n, !.of = n]
Loose(n, least) == [Ask("loose") EXCEPT !.n = n, !.of = least]
Same(n) == [Ask("same") EXCEPT !.n = n, !.of = n]
Line == Ask("text")
LineBut(bad) == [Line EXCEPT !.from = bad]
Show == Ask("show")
Timed(w, n) == [ByItself(Ask(w)) EXCEPT !.n = n]
Voiced(w, slot) == [ByItself(Ask(w)) EXCEPT !.of = slot]

Twice(x) == <<x, x>>
Times(n, x) == [i \in 1 .. n |-> x]
=============================================================================
