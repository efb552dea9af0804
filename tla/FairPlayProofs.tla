--------------------------- MODULE FairPlayProofs ---------------------------
(***************************************************************************)
(* Two people, or a person and a paid service, who each see only their own *)
(* side, come out even, for any values of the constants.                   *)
(*                                                                         *)
(* The AI actions: nobody pays for what was not taken (PaidForWhatWasTaken *)
(* of AiAction), for any number of sheets, questions and panels and packs  *)
(* of any size.                                                            *)
(*                                                                         *)
(* Live duels: no hand is known before both are sealed, and there is one   *)
(* ball (HandsStaySealed and OneBall of Live), for any number of           *)
(* invitations, rounds, games and hits and any number of points to win.    *)
(* Every step is taken by one page; it may take the first message on its   *)
(* way and may send some.  So the invariant relates what a page has taken, *)
(* what the other one has said and what is between the two (Heard for the  *)
(* hand game, OneRally for the ball), and PlayKeeps reduces a step to what *)
(* becomes of these on either side (Heeded).                               *)
(***************************************************************************)
EXTENDS AiAction, Live, FiniteSetTheorems, TLAPS


(* The bounds are numbers, and a panel does one of three things. *)
Setting ==
  /\ MaxSheets \in Nat /\ MaxAsks \in Nat /\ MaxPanels \in Nat
  /\ PackSize \in Nat /\ MIN_Q \in Nat
  /\ Kinds \subseteq {"options", "auto", "quiz"}

(* The page's state. *)
Receipts == Asks \union {0, NIGHT}
Question == [n : Asks, sheet : Nat, panel : Nat, shelf : Nat, phase : {"out", "sleeps", "hash"}]
Verdicts == {"", "accept", "discard"}
State ==
  [ed : Nat, kind : Kinds \union {"off"}, screen : {"off", "home", "editor", "shelf"},
   sheets : Nat, panel : Nat, shelf : Nat, asks : 0 .. MaxAsks, ask : Question \union {NoAsk},
   mine : Asks \union {0}, shows : Asks \union {0}, done : Receipts, list : Receipts,
   open : SUBSET Asks, said : [Asks -> Verdicts], of : [Asks -> Nat], took : SUBSET Asks,
   kept : Nat, early : BOOLEAN]

(* What is taken is accepted, and nothing else is. *)
Paid(s) == \A r \in Asks : s.said[r] = "accept" <=> r \in s.took

(* An open receipt has no verdict yet and belongs to the sheet on screen. *)
OpenHere(s) == \A r \in s.open : s.said[r] = "" /\ s.of[r] = s.ed /\ s.ed # 0

(* The question under way is the last one asked, from the pack sheet that is *)
(* still there.                                                              *)
Asked(s) ==
  s.ask # NoAsk => s.ask.n = s.asks /\ s.of[s.ask.n] = s.ask.sheet /\ s.ask.shelf = s.shelf

(* The receipts to come are nowhere yet: not open, not decided, behind no    *)
(* check list.                                                               *)
ToCome(s, r) == r > s.asks \/ (s.ask # NoAsk /\ r = s.ask.n)
Untold(s) == \A r \in Asks : ToCome(s, r) => r \notin s.open /\ s.said[r] = "" /\ r # s.done

(* What can be tapped is open, or was taken before.                          *)
Tappable(s) == s.shows # 0 => s.kind = "options" /\ (s.shows \in s.open \/ s.shows \in s.took)

(* The check list on screen is the one that waits for a decision.            *)
Listed(s) ==
  /\ s.screen = "shelf" => s.kind = "quiz"
  /\ s.list # 0 => s.screen = "shelf"
  /\ s.list # 0 /\ s.done # 0 => s.done = s.list /\ (s.list = NIGHT \/ s.list \in s.open)

Sound(s) == Paid(s) /\ OpenHere(s) /\ Asked(s) /\ Untold(s) /\ Tappable(s) /\ Listed(s)

(* A sheet being edited has a panel.                                         *)
Panelled(s) == s.kind = "off" => s.ed = 0

IInv == ai \in State /\ Panelled(ai) /\ (ai.early \/ Sound(ai))
-----------------------------------------------------------------------------
(* The helpers: which fields of the page's state they change. *)

SameAsk(s, t) ==
  /\ t.ed = s.ed /\ t.kind = s.kind /\ t.screen = s.screen /\ t.sheets = s.sheets
  /\ t.panel = s.panel /\ t.shelf = s.shelf /\ t.asks = s.asks /\ t.ask = s.ask
  /\ t.of = s.of /\ t.took = s.took /\ t.kept = s.kept /\ t.early = s.early

(* t is s with receipt r settled as v, if it was open. *)
Gives(s, t, r, v) ==
  /\ t.open = s.open \ {r}
  /\ t.said = [q \in Asks |-> IF q = r /\ r \in s.open THEN v ELSE s.said[q]]

LEMMA NightIsNoReceipt ==
  ASSUME Setting
  PROVE  NIGHT \notin Asks /\ 0 \notin Asks /\ NIGHT # 0 /\ Asks \subseteq Nat /\ Asks \subseteq 0 .. MaxAsks
  BY DEF Setting, NIGHT, Asks

LEMMA NoneFits == 0 \in Receipts /\ NIGHT \in Receipts /\ Asks \subseteq Receipts
  BY DEF Receipts

LEMMA SettleIs ==
  ASSUME NEW s \in State, NEW r, NEW took \in BOOLEAN, NEW t, t = Settle(s, r, took)
  PROVE  /\ t \in State /\ SameAsk(s, t) /\ Gives(s, t, r, IF took THEN "accept" ELSE "discard")
         /\ t.mine = s.mine /\ t.shows = s.shows /\ t.done = s.done /\ t.list = s.list
<1>1. CASE r \in s.open
  <2> DEFINE v == IF took THEN "accept" ELSE "discard"
  <2>1. t = [s EXCEPT !.open = @ \ {r}, !.said[r] = v] /\ v \in Verdicts
    BY <1>1 DEF Settle, Verdicts
  <2>2. s.said \in [Asks -> Verdicts] /\ s.open \subseteq Asks
    BY DEF State
  <2>3. [s.said EXCEPT ![r] = v] = [q \in Asks |-> IF q = r /\ r \in s.open THEN v ELSE s.said[q]]
    BY <1>1, <2>2
  <2>4. [q \in Asks |-> IF q = r /\ r \in s.open THEN v ELSE s.said[q]] \in [Asks -> Verdicts]
    BY <2>1, <2>2
  <2>5. t = [s EXCEPT !.open = s.open \ {r}, !.said = [q \in Asks |-> IF q = r /\ r \in s.open THEN v ELSE s.said[q]]]
    BY <2>1, <2>3
  <2> DEFINE f == [q \in Asks |-> IF q = r /\ r \in s.open THEN v ELSE s.said[q]]
  <2> HIDE DEF v, f
  <2>6. t \in State
    BY <2>2, <2>4, <2>5 DEF State, f
  <2>7. QED
    BY <2>5, <2>6 DEF SameAsk, Gives, State, v, f
<1>2. CASE r \notin s.open
  <2>1. t = s
    BY <1>2 DEF Settle
  <2>2. s.said = [q \in Asks |-> s.said[q]]
    BY DEF State
  <2>3. QED
    BY <1>2, <2>1, <2>2 DEF SameAsk, Gives
<1>3. QED
  BY <1>1, <1>2

LEMMA SettledBack ==
  ASSUME NEW s \in State, NEW r, NEW t, t = Settle(s, r, FALSE)
  PROVE  /\ t \in State /\ SameAsk(s, t) /\ Gives(s, t, r, "discard")
         /\ t.mine = s.mine /\ t.shows = s.shows /\ t.done = s.done /\ t.list = s.list
<1>1. (IF FALSE THEN "accept" ELSE "discard") = "discard" /\ FALSE \in BOOLEAN
  OBVIOUS
<1>2. /\ t \in State /\ SameAsk(s, t) /\ Gives(s, t, r, IF FALSE THEN "accept" ELSE "discard")
      /\ t.mine = s.mine /\ t.shows = s.shows /\ t.done = s.done /\ t.list = s.list
  BY <1>1, SettleIs, Zenon
<1>3. QED
  BY <1>1, <1>2

LEMMA SettledTaken ==
  ASSUME NEW s \in State, NEW r, NEW t, t = Settle(s, r, TRUE)
  PROVE  /\ t \in State /\ SameAsk(s, t) /\ Gives(s, t, r, "accept")
         /\ t.mine = s.mine /\ t.shows = s.shows /\ t.done = s.done /\ t.list = s.list
<1>1. (IF TRUE THEN "accept" ELSE "discard") = "accept" /\ TRUE \in BOOLEAN
  OBVIOUS
<1>2. /\ t \in State /\ SameAsk(s, t) /\ Gives(s, t, r, IF TRUE THEN "accept" ELSE "discard")
      /\ t.mine = s.mine /\ t.shows = s.shows /\ t.done = s.done /\ t.list = s.list
  BY <1>1, SettleIs, Zenon
<1>3. QED
  BY <1>1, <1>2

LEMMA DropIs ==
  ASSUME NEW s \in State, NEW t, t = Drop(s)
  PROVE  /\ t \in State /\ SameAsk(s, t) /\ t.open = {}
         /\ t.said = [q \in Asks |-> IF q \in s.open THEN "discard" ELSE s.said[q]]
         /\ t.mine = s.mine /\ t.shows = s.shows /\ t.done = s.done /\ t.list = s.list
<1> DEFINE f == [q \in Asks |-> IF q \in s.open THEN "discard" ELSE s.said[q]]
<1>1. t = [s EXCEPT !.open = {}, !.said = f]
  BY DEF Drop
<1>2. f \in [Asks -> Verdicts]
  BY DEF State, Verdicts
<1> HIDE DEF f
<1>3. t \in State
  BY <1>1, <1>2 DEF State
<1>4. QED
  BY <1>1, <1>3 DEF SameAsk, State, f

LEMMA CloseIs ==
  ASSUME Setting, NEW s \in State, NEW took \in BOOLEAN, NEW t, t = Close(s, took)
  PROVE  /\ t \in State /\ SameAsk(s, t) /\ Gives(s, t, s.done, IF took THEN "accept" ELSE "discard")
         /\ t.shows = s.shows /\ t.done = 0 /\ t.list = s.list
<1>1. CASE s.done = 0
  <2>1. t = s /\ 0 \notin s.open
    BY <1>1, NightIsNoReceipt DEF Close, State
  <2>2. s.said = [q \in Asks |-> s.said[q]]
    BY DEF State
  <2>3. QED
    BY <1>1, <2>1, <2>2 DEF SameAsk, Gives
<1>2. CASE s.done # 0
  <2> DEFINE u == [s EXCEPT !.done = 0, !.mine = IF @ = s.done THEN 0 ELSE @]
  <2>1. u \in State
    BY DEF State, Receipts
  <2>2. /\ SameAsk(s, u) /\ u.open = s.open /\ u.said = s.said
        /\ u.shows = s.shows /\ u.done = 0 /\ u.list = s.list
    BY DEF SameAsk, State
  <2>3. t = Settle(u, s.done, took)
    BY <1>2 DEF Close
  <2> HIDE DEF u
  <2>4. QED
    BY <2>1, <2>2, <2>3, SettleIs DEF SameAsk, Gives
<1>3. QED
  BY <1>1, <1>2

LEMMA UntouchedIs ==
  ASSUME NEW s \in State, NEW t, t = Untouched(s)
  PROVE  /\ t \in State /\ SameAsk(s, t) /\ Gives(s, t, s.mine, "discard")
         /\ t.mine = 0 /\ t.shows = 0 /\ t.done = s.done /\ t.list = s.list
<1> DEFINE u == Settle(s, s.mine, FALSE)
<1>1. /\ u \in State /\ SameAsk(s, u) /\ Gives(s, u, s.mine, "discard")
      /\ u.mine = s.mine /\ u.shows = s.shows /\ u.done = s.done /\ u.list = s.list
  BY SettleIs
<1>2. t = [u EXCEPT !.mine = 0, !.shows = 0]
  BY DEF Untouched
<1> HIDE DEF u
<1>3. t \in State
  BY <1>1, <1>2 DEF State
<1>4. QED
  BY <1>1, <1>2, <1>3 DEF SameAsk, Gives, State


-----------------------------------------------------------------------------
(* Giving back.  t is s with some receipts given back, and perhaps the       *)
(* question under way given up, the check list decided, the sheet left.      *)

Returned(s, t) ==
  /\ t.open \subseteq s.open
  /\ \A q \in Asks : t.said[q] = IF q \in s.open /\ q \notin t.open THEN "discard" ELSE s.said[q]

Books(s) == Paid(s) /\ OpenHere(s) /\ Asked(s) /\ Untold(s)

LEMMA GivesReturns ==
  ASSUME NEW s, NEW t, NEW r, Gives(s, t, r, "discard")
  PROVE  Returned(s, t)
<1>1. t.open = s.open \ {r}
  BY DEF Gives
<1>2. \A q \in Asks : t.said[q] = IF q = r /\ r \in s.open THEN "discard" ELSE s.said[q]
  BY DEF Gives
<1>3. QED
  BY <1>1, <1>2 DEF Returned

LEMMA GivenBack ==
  ASSUME NEW s \in State, NEW t, Books(s), Returned(s, t),
         t.took = s.took, t.of = s.of, t.asks = s.asks, t.done \in {0, s.done},
         t.ed = s.ed \/ t.open = {},
         t.ask = NoAsk \/ (t.ask = s.ask /\ t.shelf = s.shelf)
  PROVE  Books(t)
<1>1. s.open \subseteq Asks
  BY DEF State
<1>2. /\ t.open \subseteq s.open
      /\ \A q \in Asks : t.said[q] = IF q \in s.open /\ q \notin t.open THEN "discard" ELSE s.said[q]
  BY DEF Returned
<1>3. Paid(s) /\ OpenHere(s) /\ Asked(s) /\ Untold(s)
  BY DEF Books
<1>4. ASSUME NEW q \in Asks PROVE t.said[q] = "accept" <=> q \in t.took
  BY <1>1, <1>2, <1>3 DEF Paid, OpenHere
<1>5. ASSUME NEW q \in t.open PROVE t.said[q] = "" /\ t.of[q] = t.ed /\ t.ed # 0
  <2>1. q \in s.open /\ q \in Asks /\ t.ed = s.ed
    BY <1>1, <1>2
  <2>2. s.said[q] = "" /\ s.of[q] = s.ed /\ s.ed # 0
    BY <1>3, <2>1 DEF OpenHere
  <2>3. QED
    BY <1>2, <2>1, <2>2
<1>6. NoAsk.phase = "none"
  BY DEF NoAsk
<1>7. Asked(t)
  BY <1>3, <1>6 DEF Asked
<1>8. ASSUME NEW q \in Asks, ToCome(t, q) PROVE q \notin t.open /\ t.said[q] = "" /\ q # t.done
  <2>1. ToCome(s, q)
    BY <1>6, <1>8 DEF ToCome
  <2>2. q \notin s.open /\ s.said[q] = "" /\ q # s.done
    BY <1>3, <2>1 DEF Untold
  <2>3. q # 0
    BY DEF Asks
  <2>4. QED
    BY <1>2, <2>2, <2>3
<1>9. QED
  BY <1>4, <1>5, <1>7, <1>8 DEF Books, Paid, OpenHere, Untold

-----------------------------------------------------------------------------
(* The actions, one by one. *)

LEMMA OpenEditorKeeps ==
  ASSUME Setting, IInv, OpenEditor
  PROVE  IInv'
<1> DEFINE u == Drop(ai)
<1>1. PICK k \in Kinds : ai' = [u EXCEPT !.sheets = @ + 1, !.ed = ai.sheets + 1, !.kind = k,
                                        !.screen = "editor", !.panel = @ + 1, !.mine = 0, !.shows = 0]
  BY DEF OpenEditor
<1>2. /\ ai \in State /\ u \in State /\ SameAsk(ai, u) /\ u.open = {} /\ u.list = ai.list /\ u.done = ai.done
      /\ u.said = [q \in Asks |-> IF q \in ai.open THEN "discard" ELSE ai.said[q]]
  BY DropIs DEF IInv
<1> HIDE DEF u
<1>3. PICK n \in Nat, m \in Nat, p \in Nat :
         ai' = [u EXCEPT !.sheets = n, !.ed = m, !.kind = k, !.screen = "editor", !.panel = p,
                         !.mine = 0, !.shows = 0]
  <2>1. u.sheets + 1 \in Nat /\ ai.sheets + 1 \in Nat /\ u.panel + 1 \in Nat
    BY <1>2 DEF State
  <2>2. QED
    BY <1>1, <2>1
<1>4. ai' \in State
  BY <1>2, <1>3 DEF State
<1>5. /\ ai'.screen = "editor" /\ ai'.shows = 0 /\ ai'.open = {} /\ ai'.list = ai.list /\ ai'.done = ai.done
      /\ ai'.said = u.said /\ ai'.took = ai.took /\ ai'.asks = ai.asks /\ ai'.ask = ai.ask
      /\ ai'.shelf = ai.shelf /\ ai'.of = ai.of /\ ai'.early = ai.early /\ ai'.kind = k
  BY <1>2, <1>3 DEF State, SameAsk
<1>8. k # "off"
  BY DEF Setting
<1>6. ASSUME Sound(ai) PROVE Sound(ai')
  <2>1. Returned(ai, ai') /\ Books(ai)
    BY <1>2, <1>5, <1>6 DEF Returned, Sound, Books
  <2>2. Books(ai')
    BY <1>2, <1>5, <2>1, GivenBack
  <2>3. ai.list = 0
    BY <1>6 DEF OpenEditor, Sound, Listed
  <2>4. QED
    BY <1>5, <2>2, <2>3 DEF Books, Sound, Tappable, Listed
<1>7. QED
  BY <1>4, <1>5, <1>6, <1>8 DEF IInv, Panelled

LEMMA LeaveKeeps ==
  ASSUME Setting, IInv, Leave
  PROVE  IInv'
<1> DEFINE u == Drop(ai)
<1>1. ai' = [u EXCEPT !.ed = 0, !.kind = "off", !.screen = "home", !.mine = 0, !.shows = 0, !.list = 0]
  BY DEF Leave
<1>2. /\ ai \in State /\ u \in State /\ SameAsk(ai, u) /\ u.open = {} /\ u.done = ai.done
      /\ u.said = [q \in Asks |-> IF q \in ai.open THEN "discard" ELSE ai.said[q]]
  BY DropIs DEF IInv
<1> HIDE DEF u
<1>3. ai' \in State
  BY <1>1, <1>2 DEF State, Receipts
<1>4. /\ ai'.ed = 0 /\ ai'.screen = "home" /\ ai'.shows = 0 /\ ai'.open = {} /\ ai'.list = 0 /\ ai'.done = ai.done
      /\ ai'.said = u.said /\ ai'.took = ai.took /\ ai'.asks = ai.asks /\ ai'.ask = ai.ask
      /\ ai'.shelf = ai.shelf /\ ai'.of = ai.of /\ ai'.early = ai.early
  BY <1>1, <1>2 DEF State, SameAsk
<1>5. ASSUME Sound(ai) PROVE Sound(ai')
  <2>1. Returned(ai, ai') /\ Books(ai)
    BY <1>2, <1>4, <1>5 DEF Returned, Sound, Books
  <2>2. Books(ai')
    BY <1>2, <1>4, <2>1, GivenBack
  <2>3. QED
    BY <1>4, <2>2 DEF Books, Sound, Tappable, Listed
<1>6. QED
  BY <1>3, <1>4, <1>5 DEF IInv, Panelled

LEMMA TabKeeps ==
  ASSUME Setting, IInv, Tab
  PROVE  IInv'
<1>1. ai \in State /\ ai' = [ai EXCEPT !.panel = @ + 1, !.mine = 0, !.shows = 0]
  BY DEF Tab, IInv
<1>2. PICK p \in Nat : ai' = [ai EXCEPT !.panel = p, !.mine = 0, !.shows = 0]
  <2>1. ai.panel + 1 \in Nat
    BY <1>1 DEF State
  <2>2. QED
    BY <1>1, <2>1
<1>3. ai' \in State
  BY <1>1, <1>2 DEF State
<1>4. /\ ai'.ed = ai.ed /\ ai'.kind = ai.kind /\ ai'.screen = ai.screen /\ ai'.shelf = ai.shelf
      /\ ai'.asks = ai.asks /\ ai'.ask = ai.ask /\ ai'.of = ai.of /\ ai'.took = ai.took
      /\ ai'.early = ai.early /\ ai'.open = ai.open /\ ai'.said = ai.said /\ ai'.list = ai.list
      /\ ai'.done = ai.done /\ ai'.shows = 0
  BY <1>1, <1>2 DEF State
<1>5. ASSUME Sound(ai) PROVE Sound(ai')
  <2>1. Paid(ai') /\ OpenHere(ai')
    BY <1>4, <1>5 DEF Sound, Paid, OpenHere
  <2>2. Asked(ai') /\ Untold(ai')
    BY <1>4, <1>5 DEF Sound, Asked, Untold, ToCome
  <2>3. QED
    BY <1>4, <1>5, <2>1, <2>2 DEF Sound, Tappable, Listed
<1>6. QED
  BY <1>3, <1>4, <1>5 DEF IInv, Panelled

LEMMA OpenPacksKeeps ==
  ASSUME Setting, IInv, OpenPacks
  PROVE  IInv'
<1> DEFINE u == Close(ai, FALSE)
<1>1. ai' = [u EXCEPT !.screen = "shelf", !.shelf = @ + 1, !.list = 0, !.mine = 0,
                      !.early = @ \/ ai.ask # NoAsk]
  BY DEF OpenPacks
<1>2. /\ ai \in State /\ u \in State /\ SameAsk(ai, u) /\ Gives(ai, u, ai.done, "discard")
      /\ u.shows = ai.shows /\ u.done = 0
  BY CloseIs DEF IInv
<1> HIDE DEF u
<1>3. PICK p \in Nat, b \in BOOLEAN :
         /\ ai' = [u EXCEPT !.screen = "shelf", !.shelf = p, !.list = 0, !.mine = 0, !.early = b]
         /\ b = (ai.early \/ ai.ask # NoAsk)
  <2>1. u.shelf + 1 \in Nat /\ u.early = ai.early
    BY <1>2 DEF State, SameAsk
  <2>2. QED
    BY <1>1, <2>1
<1> DEFINE v == [u EXCEPT !.screen = "shelf", !.list = 0]
           w == [v EXCEPT !.shelf = p, !.mine = 0]
<1>8. w \in State
  <2>1. v \in State
    <3>1. u \in State
      BY <1>2
    <3>2. QED
      BY <3>1, NoneFits DEF State
  <2> HIDE DEF v
  <2>2. QED
    BY <2>1 DEF State
<1>9. ai' = [w EXCEPT !.early = b]
  BY <1>2, <1>3 DEF State
<1>4. ai' \in State
  <2> HIDE DEF w
  <2>1. QED
    BY <1>8, <1>9, Zenon DEF State
<1>5. /\ ai'.screen = "shelf" /\ ai'.shows = ai.shows /\ ai'.open = u.open /\ ai'.list = 0 /\ ai'.done = 0
      /\ ai'.said = u.said /\ ai'.took = ai.took /\ ai'.asks = ai.asks /\ ai'.ask = ai.ask
      /\ ai'.of = ai.of /\ ai'.ed = ai.ed /\ ai'.kind = ai.kind /\ ai'.early = b
  BY <1>2, <1>3 DEF State, SameAsk
<1>6. ASSUME Sound(ai), ai.ask = NoAsk PROVE Sound(ai')
  <2>1. Returned(ai, u) /\ Books(ai)
    BY <1>2, <1>6, GivesReturns DEF Sound, Books
  <2>2. Returned(ai, ai')
    BY <1>5, <2>1 DEF Returned
  <2>3. Books(ai')
    BY <1>2, <1>5, <1>6, <2>1, <2>2, GivenBack
  <2>4. ai.kind = "quiz"
    BY DEF OpenPacks
  <2>5. QED
    BY <1>5, <1>6, <2>3, <2>4 DEF Books, Sound, Tappable, Listed
<1>7. QED
  BY <1>3, <1>4, <1>5, <1>6 DEF IInv, Panelled

LEMMA BackKeeps ==
  ASSUME Setting, IInv, BackFromPacks \/ DropPack
  PROVE  IInv'
<1> DEFINE u == Close(ai, FALSE)
<1>1. /\ ai \in State /\ u \in State /\ SameAsk(ai, u) /\ Gives(ai, u, ai.done, "discard")
      /\ u.shows = ai.shows /\ u.done = 0 /\ ai.screen = "shelf"
  BY CloseIs DEF IInv, BackFromPacks, DropPack
<1>2. ai' = [u EXCEPT !.screen = "editor", !.list = 0] \/ ai' = [u EXCEPT !.list = 0]
  BY DEF BackFromPacks, DropPack
<1> HIDE DEF u
<1>3. ai' \in State
  <2>1. u \in State
    BY <1>1
  <2>2. CASE ai' = [u EXCEPT !.list = 0]
    BY <2>1, <2>2, NoneFits DEF State
  <2>3. CASE ai' = [u EXCEPT !.screen = "editor", !.list = 0]
    BY <2>1, <2>3, NoneFits DEF State
  <2>4. QED
    BY <1>2, <2>2, <2>3
<1>4. /\ ai'.screen \in {"editor", "shelf"} /\ ai'.shows = ai.shows /\ ai'.open = u.open /\ ai'.list = 0
      /\ ai'.done = 0 /\ ai'.said = u.said /\ ai'.took = ai.took /\ ai'.asks = ai.asks /\ ai'.ask = ai.ask
      /\ ai'.of = ai.of /\ ai'.ed = ai.ed /\ ai'.kind = ai.kind /\ ai'.early = ai.early /\ ai'.shelf = ai.shelf
  <2>1. CASE ai' = [u EXCEPT !.list = 0]
    BY <1>1, <2>1 DEF State, SameAsk
  <2>2. CASE ai' = [u EXCEPT !.screen = "editor", !.list = 0]
    BY <1>1, <2>2 DEF State, SameAsk
  <2>3. QED
    BY <1>2, <2>1, <2>2
<1>5. ASSUME Sound(ai) PROVE Sound(ai')
  <2>1. Returned(ai, u) /\ Books(ai)
    BY <1>1, <1>5, GivesReturns DEF Sound, Books
  <2>2. Returned(ai, ai')
    BY <1>4, <2>1 DEF Returned
  <2>3. Books(ai')
    BY <1>1, <1>4, <2>1, <2>2, GivenBack
  <2>4. QED
    BY <1>1, <1>4, <1>5, <2>3 DEF Books, Sound, Tappable, Listed
<1>6. QED
  BY <1>3, <1>4, <1>5 DEF IInv, Panelled

-----------------------------------------------------------------------------
(* Asking. *)

LEMMA ActKeeps ==
  ASSUME Setting, IInv, NEW how \in {"crisis", "filtered", "send"}, Act(how)
  PROVE  IInv'
<1> DEFINE c == Close(ai, FALSE)
           s == IF ai.kind = "quiz" THEN [c EXCEPT !.list = 0] ELSE ai
           u == Untouched(s)
<1>1. ai \in State /\ c \in State /\ SameAsk(ai, c) /\ Gives(ai, c, ai.done, "discard")
      /\ c.shows = ai.shows /\ c.done = 0
  BY CloseIs DEF IInv
<1>2. s \in State
  <2>1. c \in State /\ ai \in State
    BY <1>1
  <2> HIDE DEF c
  <2>2. QED
    BY <2>1, NoneFits DEF State
<1>3. /\ SameAsk(ai, s) /\ s.shows = ai.shows /\ s.done \in {0, ai.done} /\ Returned(ai, s)
      /\ s.list = 0 \/ (ai.kind # "quiz" /\ s.list = ai.list)
  <2>1. CASE ai.kind = "quiz"
    <3>1. c \in State /\ s = [c EXCEPT !.list = 0]
      BY <1>1, <2>1
    <3>2. Returned(ai, c)
      BY <1>1, GivesReturns
    <3> HIDE DEF c, s
    <3>3. SameAsk(c, s) /\ s.shows = c.shows /\ s.done = c.done /\ s.open = c.open /\ s.said = c.said /\ s.list = 0
      BY <3>1 DEF State, SameAsk
    <3>4. QED
      BY <1>1, <3>2, <3>3 DEF SameAsk, Returned
  <2>2. CASE ai.kind # "quiz"
    <3>1. s = ai
      BY <2>2
    <3> HIDE DEF s
    <3>2. QED
      BY <2>2, <3>1 DEF SameAsk, Returned
  <2>3. QED
    BY <2>1, <2>2
<1> HIDE DEF c, s
<1>4. /\ u \in State /\ SameAsk(s, u) /\ Gives(s, u, s.mine, "discard")
      /\ u.shows = 0 /\ u.done = s.done /\ u.list = s.list
  BY <1>2, UntouchedIs
<1> HIDE DEF u
<1>5. /\ ai.ask = NoAsk /\ ai.ed # 0 /\ ai.asks < MaxAsks
      /\ ai.screen = IF ai.kind = "quiz" THEN "shelf" ELSE "editor"
  BY DEF Act
<1>6. ASSUME Sound(ai) PROVE Books(s) /\ s.list = 0 /\ Books(u) /\ Sound(s) /\ Sound(u)
  <2>1. Books(ai) /\ Books(s)
    BY <1>1, <1>3, <1>6, GivenBack DEF Sound, Books, SameAsk
  <2>2. s.list = 0
    BY <1>3, <1>5, <1>6 DEF Sound, Listed
  <2>3. Returned(s, u)
    BY <1>4, GivesReturns
  <2>4. Books(u)
    BY <1>2, <1>4, <2>1, <2>3, GivenBack DEF SameAsk
  <2>5. ai.shows # 0 => s = ai
    BY <1>6 DEF Sound, Tappable, s
  <2>6. Tappable(s) /\ Listed(s)
    BY <1>3, <1>6, <2>2, <2>5 DEF Sound, Tappable, Listed, SameAsk
  <2>7. Tappable(u) /\ Listed(u)
    BY <1>4, <2>2, <2>6 DEF Tappable, Listed, SameAsk
  <2>8. QED
    BY <2>1, <2>2, <2>4, <2>6, <2>7 DEF Books, Sound
<1>7. CASE how = "crisis"
  <2>1. ai' = u
    BY <1>7 DEF Act, u, s, c
  <2>2. u.early = ai.early /\ u.ed = ai.ed /\ u.kind = ai.kind
    BY <1>3, <1>4 DEF SameAsk
  <2>3. QED
    BY <1>4, <1>6, <2>1, <2>2 DEF IInv, Panelled
<1>8. CASE how = "filtered"
  <2>1. ai' = s
    BY <1>8 DEF Act, s, c
  <2>2. s.early = ai.early /\ s.ed = ai.ed /\ s.kind = ai.kind
    BY <1>3 DEF SameAsk
  <2>3. QED
    BY <1>2, <1>6, <2>1, <2>2 DEF IInv, Panelled
<1>9. CASE how = "send"
  <2> DEFINE n == ai.asks + 1
             q == [n |-> n, sheet |-> ai.ed, panel |-> ai.panel, shelf |-> ai.shelf, phase |-> "out"]
  <2>1. s.asks = ai.asks /\ s.ed = ai.ed /\ s.panel = ai.panel /\ s.shelf = ai.shelf
        /\ u.asks = ai.asks /\ u.ed = ai.ed /\ u.shelf = ai.shelf
    BY <1>3, <1>4 DEF SameAsk
  <2>2. ai' = [u EXCEPT !.asks = n, !.of[n] = ai.ed, !.ask = q]
    <3>1. ai' = [Untouched(s) EXCEPT
                   !.asks = @ + 1, !.of[s.asks + 1] = s.ed,
                   !.ask = [n |-> s.asks + 1, sheet |-> s.ed, panel |-> s.panel, shelf |-> s.shelf, phase |-> "out"]]
      BY <1>9 DEF Act, s, c
    <3>2. QED
      BY <2>1, <3>1 DEF u
  <2>3. n \in Asks /\ n \in 0 .. MaxAsks
    <3>1. ai.asks \in 0 .. MaxAsks
      BY <1>1 DEF State
    <3>2. QED
      BY <1>5, <3>1 DEF Setting, Asks
  <2>4. ai.ed \in Nat /\ ai.panel \in Nat /\ ai.shelf \in Nat
    BY <1>1 DEF State
  <2>5. q \in Question /\ q # NoAsk /\ q.n = n /\ q.sheet = ai.ed /\ q.shelf = ai.shelf
    BY <2>3, <2>4 DEF Question, NoAsk
  <2> DEFINE f == [u.of EXCEPT ![n] = ai.ed]
  <2>6. ai' = [u EXCEPT !.asks = n, !.of = f, !.ask = q]
    BY <2>2
  <2>7. u.of \in [Asks -> Nat] /\ u \in State
    BY <1>4 DEF State
  <2>8. f \in [Asks -> Nat] /\ f[n] = ai.ed /\ \A r \in Asks : r # n => f[r] = u.of[r]
    BY <2>3, <2>4, <2>7
  <2> HIDE DEF n, q, f
  <2>9. ai' \in State
    BY <2>3, <2>5, <2>6, <2>7, <2>8 DEF State
  <2>10. /\ ai'.asks = n /\ ai'.of = f /\ ai'.ask = q /\ ai'.early = u.early /\ ai'.open = u.open
         /\ ai'.said = u.said /\ ai'.took = u.took /\ ai'.ed = u.ed /\ ai'.done = u.done /\ ai'.list = u.list
         /\ ai'.shows = u.shows /\ ai'.screen = u.screen /\ ai'.kind = u.kind /\ ai'.shelf = u.shelf
    BY <2>6, <2>7 DEF State
  <2>11. u.early = ai.early /\ u.ed = ai.ed /\ u.kind = ai.kind
    BY <1>3, <1>4 DEF SameAsk
  <2>12. ASSUME Sound(ai) PROVE Sound(ai')
    <3>1. Sound(u)
      BY <1>6, <2>12
    <3>2. u.asks \in Nat /\ n = u.asks + 1 /\ u.open \subseteq Asks
      BY <1>4, <2>1 DEF State, n, Setting
    <3>3. ASSUME NEW r \in Asks, ToCome(ai', r) PROVE r \notin u.open /\ u.said[r] = "" /\ r # u.done
      <4>1. r > n \/ r = n
        BY <2>5, <2>10, <3>3 DEF ToCome
      <4>2. ToCome(u, r)
        BY <3>2, <4>1 DEF ToCome, Asks
      <4>3. QED
        BY <3>1, <4>2 DEF Sound, Untold
    <3>4. n \notin u.open
      BY <2>3, <2>5, <2>10, <3>3 DEF ToCome
    <3>5. OpenHere(ai')
      BY <2>8, <2>10, <3>1, <3>2, <3>4 DEF Sound, OpenHere
    <3>6. Paid(ai') /\ Tappable(ai') /\ Listed(ai')
      BY <2>10, <3>1 DEF Sound, Paid, Tappable, Listed
    <3>7. Asked(ai')
      BY <2>1, <2>5, <2>8, <2>10 DEF Asked
    <3>8. QED
      BY <2>10, <3>3, <3>5, <3>6, <3>7 DEF Sound, Untold
  <2>13. QED
    BY <2>9, <2>10, <2>11, <2>12 DEF IInv, Panelled
<1>10. QED
  BY <1>7, <1>8, <1>9

(* A question under way changes its phase and nothing else. *)
LEMMA PhaseIs ==
  ASSUME NEW s \in State, s.ask # NoAsk, NEW p \in {"out", "sleeps", "hash"}, NEW t, t = [s EXCEPT !.ask.phase = p]
  PROVE  /\ t = [s EXCEPT !.ask = t.ask] /\ t.ask \in Question /\ t.ask # NoAsk
         /\ t.ask.n = s.ask.n /\ t.ask.sheet = s.ask.sheet /\ t.ask.shelf = s.ask.shelf
<1> DEFINE q == [s.ask EXCEPT !.phase = p]
<1>1. s.ask \in Question
  BY DEF State
<1>2. q \in Question /\ q # NoAsk /\ q.n = s.ask.n /\ q.sheet = s.ask.sheet /\ q.shelf = s.ask.shelf
  BY <1>1 DEF Question, NoAsk
<1>3. t = [s EXCEPT !.ask = q]
  OBVIOUS
<1> HIDE DEF q
<1>4. t.ask = q
  BY <1>3 DEF State
<1>5. QED
  BY <1>2, <1>3, <1>4

LEMMA WaitKeeps ==
  ASSUME Setting, IInv, Queued \/ Wake \/ Refused \/ Result
  PROVE  IInv'
<1>1. ai \in State
  BY DEF IInv
<1>2. ai.ask # NoAsk
  BY DEF Queued, Wake, Refused, Result, NoAsk
<1>3. PICK q \in Question \union {NoAsk} :
         /\ ai' = [ai EXCEPT !.ask = q]
         /\ q # NoAsk => q.n = ai.ask.n /\ q.sheet = ai.ask.sheet /\ q.shelf = ai.ask.shelf
  <2>1. CASE ai' = [ai EXCEPT !.ask = NoAsk]
    BY <2>1
  <2>2. ASSUME NEW p \in {"out", "sleeps", "hash"}, ai' = [ai EXCEPT !.ask.phase = p]
        PROVE  \E q \in Question \union {NoAsk} :
                  /\ ai' = [ai EXCEPT !.ask = q]
                  /\ q # NoAsk => q.n = ai.ask.n /\ q.sheet = ai.ask.sheet /\ q.shelf = ai.ask.shelf
    <3>1. PICK t : t = [ai EXCEPT !.ask.phase = p]
      OBVIOUS
    <3>2. /\ t = [ai EXCEPT !.ask = t.ask] /\ t.ask \in Question
          /\ t.ask.n = ai.ask.n /\ t.ask.sheet = ai.ask.sheet /\ t.ask.shelf = ai.ask.shelf
      BY <1>1, <1>2, <3>1, PhaseIs
    <3>3. ai' = [ai EXCEPT !.ask = t.ask]
      BY <2>2, <3>1, <3>2
    <3>4. QED
      BY <3>2, <3>3
  <2>3. \/ ai' = [ai EXCEPT !.ask = NoAsk] \/ ai' = [ai EXCEPT !.ask.phase = "out"]
        \/ ai' = [ai EXCEPT !.ask.phase = "sleeps"] \/ ai' = [ai EXCEPT !.ask.phase = "hash"]
    BY DEF Queued, Wake, Refused, Result
  <2>4. QED
    BY <2>1, <2>2, <2>3
<1>4. ai' \in State
  BY <1>1, <1>3 DEF State
<1>5. /\ ai'.asks = ai.asks /\ ai'.of = ai.of /\ ai'.ask = q /\ ai'.early = ai.early /\ ai'.open = ai.open
      /\ ai'.said = ai.said /\ ai'.took = ai.took /\ ai'.ed = ai.ed /\ ai'.done = ai.done /\ ai'.list = ai.list
      /\ ai'.shows = ai.shows /\ ai'.screen = ai.screen /\ ai'.kind = ai.kind /\ ai'.shelf = ai.shelf
  BY <1>1, <1>3 DEF State
<1>6. ASSUME Sound(ai) PROVE Sound(ai')
  <2>1. Paid(ai') /\ OpenHere(ai')
    BY <1>5, <1>6 DEF Sound, Paid, OpenHere
  <2>2. Tappable(ai') /\ Listed(ai')
    BY <1>5, <1>6 DEF Sound, Tappable, Listed
  <2>3. Asked(ai') /\ Untold(ai')
    BY <1>2, <1>3, <1>5, <1>6 DEF Sound, Asked, Untold, ToCome
  <2>4. QED
    BY <2>1, <2>2, <2>3 DEF Sound
<1>7. QED
  BY <1>4, <1>5, <1>6 DEF IInv, Panelled

-----------------------------------------------------------------------------
(* The answer: its receipt r is open and the panel does one of four things   *)
(* with it.                                                                  *)

(* Sound(s) says of the receipt of the question under way: *)
LEMMA ReceiptIsNew ==
  ASSUME NEW s \in State, s.ask # NoAsk, Sound(s)
  PROVE  /\ s.ask.n \in Asks /\ s.ask.n = s.asks /\ s.ask.n \notin s.open /\ s.said[s.ask.n] = ""
         /\ s.ask.n \notin s.took /\ s.ask.n # s.done /\ s.ask.n # 0
         /\ s.of[s.ask.n] = s.ask.sheet /\ s.ask.shelf = s.shelf
<1>1. s.ask.n \in Asks
  BY DEF State, Question
<1>2. s.ask.n \notin s.open /\ s.said[s.ask.n] = "" /\ s.ask.n # s.done
  BY <1>1 DEF Sound, Untold, ToCome
<1>3. s.ask.n \notin s.took
  BY <1>1, <1>2 DEF Sound, Paid
<1>4. s.ask.n # 0
  BY <1>1 DEF Asks
<1>5. QED
  BY <1>1, <1>2, <1>3, <1>4 DEF Sound, Asked

LEMMA OpenAreAsked ==
  ASSUME Setting, NEW s \in State
  PROVE  s.open \subseteq Asks /\ s.asks \in Nat
<1>1. s.open \subseteq Asks /\ s.asks \in 0 .. MaxAsks
  BY DEF State
<1>2. QED
  BY <1>1 DEF Setting

LEMMA AboveIsOther == ASSUME NEW m \in Nat, NEW n \in Nat, m > n PROVE m # n
  OBVIOUS

(* With the question over, the books need a word on its receipt only; o are  *)
(* the receipts that stay open besides.                                      *)
Answered(s, t, o) ==
  /\ t.ask = NoAsk /\ t.asks = s.asks /\ t.of = s.of /\ t.ed = s.ed
  /\ o \subseteq s.open
  /\ t.open = o \/ t.open = o \union {s.ask.n}
  /\ s.ask.n \in t.open => s.ed = s.ask.sheet /\ s.ed # 0 /\ t.said[s.ask.n] = ""
  /\ \A q \in Asks : q # s.ask.n => t.said[q] = IF q \in s.open /\ q \notin o THEN "discard" ELSE s.said[q]
  /\ t.took = s.took \/ t.took = s.took \union {s.ask.n}
  /\ t.said[s.ask.n] = "accept" <=> s.ask.n \in t.took
  /\ t.done = s.done \/ t.done = s.ask.n

LEMMA AnswerBooked ==
  ASSUME Setting, NEW s \in State, s.ask # NoAsk, Sound(s), NEW t \in State, NEW o, Answered(s, t, o)
  PROVE  Books(t)
<1> DEFINE r == s.ask.n
<1>0. /\ t.ask = NoAsk /\ t.asks = s.asks /\ t.of = s.of /\ t.ed = s.ed
      /\ o \subseteq s.open
      /\ t.open = o \/ t.open = o \union {r}
      /\ r \in t.open => s.ed = s.ask.sheet /\ s.ed # 0 /\ t.said[r] = ""
      /\ \A q \in Asks : q # r => t.said[q] = IF q \in s.open /\ q \notin o THEN "discard" ELSE s.said[q]
      /\ t.took = s.took \/ t.took = s.took \union {r}
      /\ t.said[r] = "accept" <=> r \in t.took
      /\ t.done = s.done \/ t.done = r
  BY DEF Answered
<1>1. /\ r \in Asks /\ r = s.asks /\ r \notin s.open /\ s.said[r] = "" /\ r \notin s.took
      /\ s.of[r] = s.ask.sheet /\ r # 0
  BY ReceiptIsNew
<1> HIDE DEF r
<1>2. s.open \subseteq Asks /\ s.asks \in Nat
  BY OpenAreAsked
<1>3. Paid(s) /\ OpenHere(s) /\ Untold(s)
  BY DEF Sound
<1>4. ASSUME NEW q \in Asks PROVE t.said[q] = "accept" <=> q \in t.took
  <2>1. CASE q = r
    BY <1>0, <2>1
  <2>2. CASE q # r
    <3>1. s.said[q] = "accept" <=> q \in s.took
      BY <1>3 DEF Paid
    <3>2. q \in s.open => s.said[q] = ""
      BY <1>3 DEF OpenHere
    <3>3. QED
      BY <1>0, <2>2, <3>1, <3>2
  <2>3. QED
    BY <2>1, <2>2
<1>5. ASSUME NEW q \in t.open PROVE t.said[q] = "" /\ t.of[q] = t.ed /\ t.ed # 0
  <2>1. CASE q = r
    BY <1>0, <1>1, <1>5, <2>1
  <2>2. CASE q # r
    <3>1. q \in o /\ q \in s.open /\ q \in Asks
      BY <1>0, <1>2, <1>5, <2>2
    <3>2. s.said[q] = "" /\ s.of[q] = s.ed /\ s.ed # 0
      BY <1>3, <3>1 DEF OpenHere
    <3>3. QED
      BY <1>0, <2>2, <3>1, <3>2
  <2>3. QED
    BY <2>1, <2>2
<1>6. ASSUME NEW q \in Asks, ToCome(t, q) PROVE q \notin t.open /\ t.said[q] = "" /\ q # t.done
  <2>1. q > s.asks
    BY <1>0, <1>6 DEF ToCome
  <2>2. q # r /\ ToCome(s, q) /\ q # 0
    <3>1. q \in Nat /\ 0 \notin Asks
      BY NightIsNoReceipt
    <3>2. q # r
      BY <1>1, <1>2, <2>1, <3>1, AboveIsOther
    <3>3. QED
      BY <2>1, <3>1, <3>2 DEF ToCome
  <2>3. q \notin s.open /\ s.said[q] = "" /\ q # s.done
    BY <1>3, <2>2 DEF Untold
  <2>4. QED
    BY <1>0, <2>2, <2>3
<1>7. QED
  BY <1>0, <1>4, <1>5, <1>6 DEF Books, Paid, OpenHere, Asked, Untold

LEMMA HandOutKeeps ==
  ASSUME Setting, IInv, NEW can \in BOOLEAN, HandOut(can)
  PROVE  IInv'
<1> DEFINE r == ai.ask.n
           s == [ai EXCEPT !.open = @ \union {r}]
           t == IF Alive(ai) THEN Present(s, r, can) ELSE Settle(s, r, FALSE)
<1>1. ai \in State /\ ai.ask # NoAsk /\ ai' = [t EXCEPT !.ask = NoAsk]
  BY DEF IInv, HandOut, NoAsk
<1>2. r \in Asks
  BY <1>1 DEF State, Question
<1>3. s \in State
  <2>1. ai \in State /\ ai.open \union {r} \in SUBSET Asks
    BY <1>1, <1>2 DEF State
  <2>2. PICK o \in SUBSET Asks : o = ai.open \union {r}
    BY <2>1
  <2>3. s = [ai EXCEPT !.open = o]
    BY <2>2
  <2> HIDE DEF s
  <2>4. QED
    BY <2>1, <2>3 DEF State
<1>4. SameAsk(ai, s) /\ s.open = ai.open \union {r} /\ s.said = ai.said /\ s.mine = ai.mine
      /\ s.shows = ai.shows /\ s.done = ai.done /\ s.list = ai.list
  BY <1>1 DEF State, SameAsk
<1> HIDE DEF r, s
<1>5. Alive(ai) => ai.ed = ai.ask.sheet /\ ai.ed # 0
  BY DEF Alive
<1>6. CASE ~can \/ ~Alive(ai)
  <2>1. t = Settle(s, r, FALSE)
    BY <1>6 DEF Present
  <2> HIDE DEF t
  <2>2. /\ t \in State /\ SameAsk(s, t) /\ Gives(s, t, r, "discard")
        /\ t.mine = s.mine /\ t.shows = s.shows /\ t.done = s.done /\ t.list = s.list
    BY <1>3, <2>1, SettledBack
  <2>3. ai' \in State
    <3>1. t \in State
      BY <2>2
    <3>2. QED
      BY <1>1, <3>1 DEF State
  <2>4. /\ ai'.asks = ai.asks /\ ai'.of = ai.of /\ ai'.ask = NoAsk /\ ai'.early = ai.early
        /\ ai'.open = t.open /\ ai'.said = t.said /\ ai'.took = ai.took /\ ai'.ed = ai.ed
        /\ ai'.done = ai.done /\ ai'.list = ai.list /\ ai'.shows = ai.shows /\ ai'.screen = ai.screen
        /\ ai'.kind = ai.kind
    <3>1. t \in State /\ SameAsk(s, t) /\ t.done = s.done /\ t.list = s.list /\ t.shows = s.shows
      BY <2>2
    <3>2. QED
      BY <1>1, <1>4, <3>1 DEF State, SameAsk
  <2>5. ASSUME Sound(ai) PROVE Sound(ai')
    <3>1. r \notin ai.open /\ r \notin ai.took
      BY <1>1, <2>5, ReceiptIsNew DEF r
    <3>2. t.open = ai.open /\ \A q \in Asks : t.said[q] = IF q = r THEN "discard" ELSE ai.said[q]
      BY <1>4, <2>2, <3>1 DEF Gives
    <3>3. Books(ai')
      <4>1. /\ ai'.said[r] = "accept" <=> r \in ai'.took
            /\ \A q \in Asks : q # r => ai'.said[q] = IF q \in ai.open /\ q \notin ai.open THEN "discard" ELSE ai.said[q]
        BY <1>2, <2>4, <3>1, <3>2
      <4>2. ai'.open = ai.open /\ r \notin ai'.open /\ ai.open \subseteq ai.open
        BY <2>4, <3>1, <3>2
      <4>3. ai'.took = ai.took /\ ai'.done = ai.done /\ r = ai.ask.n
        BY <2>4 DEF r
      <4>4. Answered(ai, ai', ai.open)
        BY <2>4, <4>1, <4>2, <4>3 DEF Answered
      <4>5. QED
        BY <1>1, <2>3, <2>5, <4>4, AnswerBooked
    <3>4. Tappable(ai') /\ Listed(ai')
      BY <2>4, <2>5, <3>2 DEF Sound, Tappable, Listed
    <3>5. QED
      BY <3>3, <3>4 DEF Books, Sound
  <2>6. QED
    BY <2>3, <2>4, <2>5 DEF IInv, Panelled
<1>7. CASE can /\ Alive(ai) /\ ai.kind = "options"
  <2>1. PICK m \in {r, ai.mine}, h \in {r, ai.shows} : t = [s EXCEPT !.mine = m, !.shows = h]
    <3>1. t = [s EXCEPT !.mine = r, !.shows = r] \/ t = s
      BY <1>4, <1>7 DEF Present, SameAsk
    <3> HIDE DEF t
    <3>2. s = [s EXCEPT !.mine = ai.mine, !.shows = ai.shows]
      BY <1>3, <1>4 DEF State
    <3>3. QED
      BY <3>1, <3>2
  <2> HIDE DEF t
  <2>2. m \in Asks \union {0} /\ h \in Asks \union {0}
    BY <1>1, <1>2 DEF State
  <2>3. t \in State
    BY <1>3, <2>1, <2>2 DEF State
  <2>4. ai' \in State
    BY <1>1, <2>3 DEF State
  <2>5. /\ ai'.asks = s.asks /\ ai'.of = s.of /\ ai'.ask = NoAsk /\ ai'.early = s.early
        /\ ai'.open = s.open /\ ai'.said = s.said /\ ai'.took = s.took /\ ai'.ed = s.ed
        /\ ai'.done = s.done /\ ai'.list = s.list /\ ai'.shows = h /\ ai'.screen = s.screen
        /\ ai'.kind = s.kind
    <3>1. s \in State
      BY <1>3
    <3>2. QED
      BY <1>1, <2>1, <3>1 DEF State
  <2>6. ASSUME Sound(ai) PROVE Sound(ai')
    <3>1. r \notin ai.open /\ r \notin ai.took /\ ai.said[r] = ""
      BY <1>1, <2>6, ReceiptIsNew DEF r
    <3>2. Books(ai')
      <4>1. /\ ai'.said[r] = "accept" <=> r \in ai'.took
            /\ \A q \in Asks : q # r => ai'.said[q] = IF q \in ai.open /\ q \notin ai.open THEN "discard" ELSE ai.said[q]
        BY <1>4, <2>5, <3>1 DEF SameAsk
      <4>2. ai'.open = ai.open \union {r} /\ ai.open \subseteq ai.open /\ ai'.said[r] = ""
        BY <1>4, <2>5, <3>1
      <4>3. ai'.of = ai.of /\ ai'.ed = ai.ed /\ ai'.asks = ai.asks /\ ai'.took = ai.took /\ ai'.done = ai.done
        BY <1>4, <2>5 DEF SameAsk
      <4>4. ai.ed = ai.ask.sheet /\ ai.ed # 0 /\ r = ai.ask.n
        BY <1>5, <1>7 DEF r
      <4>5. Answered(ai, ai', ai.open)
        BY <2>5, <4>1, <4>2, <4>3, <4>4 DEF Answered
      <4>6. QED
        BY <1>1, <2>4, <2>6, <4>5, AnswerBooked
    <3>3. Tappable(ai') /\ Listed(ai')
      BY <1>4, <1>7, <2>1, <2>5, <2>6 DEF Sound, Tappable, Listed, SameAsk
    <3>4. QED
      BY <3>2, <3>3 DEF Books, Sound
  <2>7. QED
    BY <1>4, <2>4, <2>5, <2>6 DEF IInv, Panelled, SameAsk
<1>8. CASE can /\ Alive(ai) /\ ai.kind = "auto"
  <2> DEFINE u == [s EXCEPT !.took = @ \union {r}]
  <2>1. t = Settle(u, r, TRUE)
    BY <1>4, <1>8 DEF Present, SameAsk
  <2>2. u \in State
    <3>1. PICK k \in SUBSET Asks : k = s.took \union {r}
      BY <1>2, <1>3 DEF State
    <3>2. u = [s EXCEPT !.took = k]
      BY <3>1
    <3> HIDE DEF u
    <3>3. QED
      BY <1>3, <3>2 DEF State
  <2>3. SameAsk(s, [u EXCEPT !.took = s.took]) /\ u.took = s.took \union {r} /\ u.open = s.open /\ u.said = s.said
        /\ u.shows = s.shows /\ u.done = s.done /\ u.list = s.list /\ u.ed = s.ed /\ u.of = s.of
        /\ u.asks = s.asks /\ u.early = s.early /\ u.screen = s.screen /\ u.kind = s.kind
    BY <1>3 DEF State, SameAsk
  <2> HIDE DEF u, t
  <2>4. /\ t \in State /\ SameAsk(u, t) /\ Gives(u, t, r, "accept")
        /\ t.shows = u.shows /\ t.done = u.done /\ t.list = u.list
    BY <2>1, <2>2, SettledTaken
  <2>5. ai' \in State
    <3>1. t \in State
      BY <2>4
    <3>2. QED
      BY <1>1, <3>1 DEF State
  <2>6. /\ ai'.asks = t.asks /\ ai'.of = t.of /\ ai'.ask = NoAsk /\ ai'.early = t.early
        /\ ai'.open = t.open /\ ai'.said = t.said /\ ai'.took = t.took /\ ai'.ed = t.ed
        /\ ai'.done = t.done /\ ai'.list = t.list /\ ai'.shows = t.shows /\ ai'.screen = t.screen
        /\ ai'.kind = t.kind
    <3>1. t \in State
      BY <2>4
    <3>2. QED
      BY <1>1, <3>1 DEF State
  <2>7. /\ ai'.asks = ai.asks /\ ai'.of = ai.of /\ ai'.early = ai.early
        /\ ai'.took = ai.took \union {r} /\ ai'.ed = ai.ed /\ ai'.done = ai.done /\ ai'.list = ai.list
        /\ ai'.shows = ai.shows /\ ai'.screen = ai.screen /\ ai'.kind = ai.kind
    BY <1>4, <2>3, <2>4, <2>6 DEF SameAsk
  <2>8. ASSUME Sound(ai) PROVE Sound(ai')
    <3>1. r \notin ai.open /\ r \notin ai.took
      BY <1>1, <2>8, ReceiptIsNew DEF r
    <3>2. ai'.open = ai.open /\ \A q \in Asks : ai'.said[q] = IF q = r THEN "accept" ELSE ai.said[q]
      BY <1>4, <2>3, <2>4, <2>6, <3>1 DEF Gives
    <3>3. Books(ai')
      <4>1. /\ ai'.said[r] = "accept" <=> r \in ai'.took
            /\ \A q \in Asks : q # r => ai'.said[q] = IF q \in ai.open /\ q \notin ai.open THEN "discard" ELSE ai.said[q]
        BY <1>2, <2>7, <3>2
      <4>2. ai'.open = ai.open /\ r \notin ai'.open /\ ai.open \subseteq ai.open
        BY <3>1, <3>2
      <4>3. r = ai.ask.n
        BY DEF r
      <4>4. Answered(ai, ai', ai.open)
        BY <2>6, <2>7, <4>1, <4>2, <4>3 DEF Answered
      <4>5. QED
        BY <1>1, <2>5, <2>8, <4>4, AnswerBooked
    <3>4. Tappable(ai') /\ Listed(ai')
      BY <2>7, <2>8, <3>2 DEF Sound, Tappable, Listed
    <3>5. QED
      BY <3>3, <3>4 DEF Books, Sound
  <2>9. QED
    BY <2>5, <2>7, <2>8 DEF IInv, Panelled
<1>9. CASE can /\ Alive(ai) /\ ai.kind = "quiz"
  <2> DEFINE c == Close(s, FALSE)
  <2>1. /\ c \in State /\ SameAsk(s, c) /\ Gives(s, c, s.done, "discard")
        /\ c.shows = s.shows /\ c.list = s.list
    BY <1>3, CloseIs
  <2>2. PICK m \in {r, c.mine}, l \in {r, c.list} :
           /\ t = [c EXCEPT !.done = r, !.mine = m, !.list = l, !.kept = PackSize]
           /\ l = IF s.ask.shelf = s.shelf /\ s.screen = "shelf" THEN r ELSE c.list
    <3>1. t = Review(s, r)
      BY <1>4, <1>9 DEF Present, SameAsk
    <3>2. t = [c EXCEPT !.done = r, !.mine = IF SamePanel(s) THEN r ELSE c.mine,
                        !.list = IF s.ask.shelf = s.shelf /\ s.screen = "shelf" THEN r ELSE c.list,
                        !.kept = PackSize]
      BY <3>1 DEF Review
    <3> HIDE DEF t, c
    <3>3. QED
      BY <3>2
  <2> HIDE DEF t, c
  <2>3. ai' \in State
    <3>1. c \in State
      BY <2>1
    <3>2. r \in Receipts /\ m \in Asks \union {0} /\ l \in Receipts /\ PackSize \in Nat
      BY <1>2, <3>1, NoneFits DEF State, Setting
    <3>3. t \in State
      BY <2>2, <3>1, <3>2 DEF State
    <3>4. QED
      BY <1>1, <3>3 DEF State
  <2>4. /\ ai'.asks = c.asks /\ ai'.of = c.of /\ ai'.ask = NoAsk /\ ai'.early = c.early
        /\ ai'.open = c.open /\ ai'.said = c.said /\ ai'.took = c.took /\ ai'.ed = c.ed
        /\ ai'.done = r /\ ai'.list = l /\ ai'.shows = c.shows /\ ai'.screen = c.screen
        /\ ai'.kind = c.kind
    <3>1. c \in State
      BY <2>1
    <3>2. t \in State => ai' = [c EXCEPT !.done = r, !.mine = m, !.list = l, !.kept = PackSize, !.ask = NoAsk]
      BY <1>1, <2>2
    <3>3. ai' = [c EXCEPT !.done = r, !.mine = m, !.list = l, !.kept = PackSize, !.ask = NoAsk]
      BY <1>1, <2>2
    <3>4. QED
      BY <3>1, <3>3 DEF State
  <2>5. /\ ai'.asks = ai.asks /\ ai'.of = ai.of /\ ai'.early = ai.early
        /\ ai'.took = ai.took /\ ai'.ed = ai.ed
        /\ ai'.shows = ai.shows /\ ai'.screen = ai.screen /\ ai'.kind = ai.kind
    BY <1>4, <2>1, <2>4 DEF SameAsk
  <2>6. ASSUME Sound(ai) PROVE Sound(ai')
    <3>1. /\ r \notin ai.open /\ r \notin ai.took /\ r # ai.done /\ ai.said[r] = ""
          /\ ai.ask.shelf = ai.shelf
      BY <1>1, <2>6, ReceiptIsNew DEF r
    <3> DEFINE o == ai.open \ {ai.done}
    <3>2. ai'.open = o \union {r}
      BY <1>4, <2>1, <2>4, <3>1 DEF Gives
    <3>3. \A q \in Asks : ai'.said[q] = IF q \in ai.open /\ q \notin o THEN "discard" ELSE ai.said[q]
      <4>1. c.said = [q \in Asks |-> IF q = s.done /\ s.done \in s.open THEN "discard" ELSE s.said[q]]
        BY <2>1 DEF Gives
      <4>2. s.done = ai.done /\ s.said = ai.said /\ s.open = ai.open \union {r} /\ ai'.said = c.said
        BY <1>4, <2>4
      <4>3. QED
        BY <3>1, <4>1, <4>2
    <3>4. Books(ai')
      <4>1. ai'.said[r] = ""
        BY <1>2, <3>1, <3>3
      <4>2. ai.ed = ai.ask.sheet /\ ai.ed # 0
        BY <1>5, <1>9
      <4>3. o \subseteq ai.open /\ ai'.done = r /\ r = ai.ask.n
        BY <2>4 DEF r
      <4>4. ai'.took = ai.took /\ r \notin ai.took
        BY <2>5, <3>1
      <4> HIDE DEF o
      <4>5. Answered(ai, ai', o)
        BY <2>4, <2>5, <3>2, <3>3, <4>1, <4>2, <4>3, <4>4 DEF Answered
      <4>6. QED
        BY <1>1, <2>3, <2>6, <4>5, AnswerBooked
    <3>5. Tappable(ai')
      BY <1>9, <2>5, <2>6 DEF Sound, Tappable
    <3>6. l = IF ai.screen = "shelf" THEN r ELSE ai.list
      BY <1>4, <2>1, <2>2, <3>1 DEF SameAsk
    <3>7. Listed(ai')
      BY <1>9, <2>4, <2>5, <2>6, <3>2, <3>6 DEF Sound, Listed
    <3>8. QED
      BY <3>4, <3>5, <3>7 DEF Books, Sound
  <2>7. QED
    BY <2>3, <2>5, <2>6 DEF IInv, Panelled
<1>10. ai.kind \in {"options", "auto", "quiz"} \/ ~Alive(ai)
  <2>1. ai.kind \in Kinds \union {"off"}
    BY <1>1 DEF State
  <2>2. QED
    BY <1>5, <2>1 DEF IInv, Panelled, Setting
<1>11. QED
  BY <1>6, <1>7, <1>8, <1>9, <1>10

-----------------------------------------------------------------------------
(* Taking. *)

LEMMA PickOptionKeeps ==
  ASSUME Setting, IInv, PickOption
  PROVE  IInv'
<1> DEFINE r == ai.shows
           u == [ai EXCEPT !.took = @ \union {r}, !.mine = IF @ = r THEN 0 ELSE @]
<1>1. ai \in State /\ ai.screen = "editor" /\ r # 0 /\ ai' = Settle(u, r, TRUE)
  BY DEF IInv, PickOption
<1>2. r \in Asks
  BY <1>1 DEF State
<1>3. PICK m \in Asks \union {0}, k \in SUBSET Asks : u = [ai EXCEPT !.took = k, !.mine = m] /\ k = ai.took \union {r}
  <2>1. ai.took \union {r} \in SUBSET Asks /\ (IF ai.mine = r THEN 0 ELSE ai.mine) \in Asks \union {0}
    BY <1>1, <1>2 DEF State
  <2>2. QED
    BY <2>1
<1> HIDE DEF u, r
<1>4. u \in State
  <2>1. ai \in State
    BY <1>1
  <2>2. QED
    BY <1>3, <2>1 DEF State
<1>5. /\ u.took = ai.took \union {r} /\ u.open = ai.open /\ u.said = ai.said /\ u.shows = ai.shows
      /\ u.done = ai.done /\ u.list = ai.list /\ u.ed = ai.ed /\ u.of = ai.of /\ u.asks = ai.asks
      /\ u.ask = ai.ask /\ u.early = ai.early /\ u.screen = ai.screen /\ u.kind = ai.kind /\ u.shelf = ai.shelf
  <2>1. ai \in State
    BY <1>1
  <2>2. QED
    BY <1>3, <2>1 DEF State
<1>6. PICK t : t = Settle(u, r, TRUE)
  OBVIOUS
<1>7. /\ t \in State /\ SameAsk(u, t) /\ Gives(u, t, r, "accept")
      /\ t.shows = u.shows /\ t.done = u.done /\ t.list = u.list
  BY <1>4, <1>6, SettledTaken
<1>8. ai' = t
  BY <1>1, <1>6
<1>9. /\ ai'.took = ai.took \union {r} /\ ai'.shows = r
      /\ ai'.done = ai.done /\ ai'.list = ai.list /\ ai'.ed = ai.ed /\ ai'.of = ai.of /\ ai'.asks = ai.asks
      /\ ai'.ask = ai.ask /\ ai'.early = ai.early /\ ai'.screen = ai.screen /\ ai'.kind = ai.kind /\ ai'.shelf = ai.shelf
  BY <1>5, <1>7, <1>8 DEF SameAsk, r
<1>10. /\ ai'.open = ai.open \ {r}
       /\ \A q \in Asks : ai'.said[q] = IF q = r /\ r \in ai.open THEN "accept" ELSE ai.said[q]
  BY <1>5, <1>7, <1>8 DEF Gives
<1>11. ASSUME Sound(ai) PROVE Sound(ai')
  <2>1. ai.open \subseteq Asks
    BY <1>1 DEF State
  <2>2. ai.kind = "options" /\ (r \in ai.open \/ r \in ai.took)
    BY <1>1, <1>11 DEF Sound, Tappable, r
  <2>3. r \notin ai.open => ai.said[r] = "accept"
    BY <1>2, <1>11, <2>2 DEF Sound, Paid
  <2>4. ASSUME NEW q \in Asks PROVE ai'.said[q] = "accept" <=> q \in ai'.took
    <3>1. ai.said[q] = "accept" <=> q \in ai.took
      BY <1>11 DEF Sound, Paid
    <3>2. QED
      BY <1>9, <1>10, <2>3, <3>1
  <2>5. ASSUME NEW q \in ai'.open PROVE ai'.said[q] = "" /\ ai'.of[q] = ai'.ed /\ ai'.ed # 0
    BY <1>9, <1>10, <1>11, <2>1, <2>5 DEF Sound, OpenHere
  <2>6. ~ToCome(ai, r)
    BY <1>2, <1>11, <2>2, <2>3 DEF Sound, Untold
  <2>7. ASSUME NEW q \in Asks, ToCome(ai', q) PROVE q \notin ai'.open /\ ai'.said[q] = "" /\ q # ai'.done
    <3>1. ToCome(ai, q)
      BY <1>9, <2>7 DEF ToCome
    <3>2. q # r /\ q \notin ai.open /\ ai.said[q] = "" /\ q # ai.done
      BY <1>11, <2>6, <3>1 DEF Sound, Untold
    <3>3. QED
      BY <1>9, <1>10, <3>2
  <2>8. Asked(ai')
    BY <1>9, <1>11 DEF Sound, Asked
  <2>9. Tappable(ai')
    BY <1>9, <2>2 DEF Tappable
  <2>10. Listed(ai')
    BY <1>1, <1>9, <1>11 DEF Sound, Listed
  <2>11. QED
    BY <2>4, <2>5, <2>7, <2>8, <2>9, <2>10 DEF Sound, Paid, OpenHere, Untold
<1>12. QED
  BY <1>7, <1>8, <1>9, <1>11 DEF IInv, Panelled

LEMMA NightPackKeeps ==
  ASSUME Setting, IInv, NightPack
  PROVE  IInv'
<1> DEFINE u == Close(ai, FALSE)
<1>1. /\ ai \in State /\ u \in State /\ SameAsk(ai, u) /\ Gives(ai, u, ai.done, "discard")
      /\ u.shows = ai.shows /\ u.done = 0 /\ ai.screen = "shelf"
      /\ ai' = [u EXCEPT !.list = NIGHT, !.done = NIGHT, !.kept = PackSize]
  BY CloseIs DEF IInv, NightPack
<1> HIDE DEF u
<1>2. ai' \in State
  <2>1. u \in State /\ ai' = [u EXCEPT !.list = NIGHT, !.done = NIGHT, !.kept = PackSize]
    BY <1>1
  <2>2. PackSize \in Nat
    BY DEF Setting
  <2>3. QED
    BY <2>1, <2>2, NoneFits DEF State
<1>3. /\ ai'.shows = u.shows /\ ai'.open = u.open /\ ai'.list = NIGHT /\ ai'.screen = u.screen
      /\ ai'.done = NIGHT /\ ai'.said = u.said /\ ai'.took = u.took /\ ai'.asks = u.asks /\ ai'.ask = u.ask
      /\ ai'.of = u.of /\ ai'.ed = u.ed /\ ai'.kind = u.kind /\ ai'.early = u.early /\ ai'.shelf = u.shelf
  <2>1. u \in State /\ ai' = [u EXCEPT !.list = NIGHT, !.done = NIGHT, !.kept = PackSize]
    BY <1>1
  <2>2. QED
    BY <2>1 DEF State
<1>4. u.ed = ai.ed /\ u.kind = ai.kind /\ u.early = ai.early /\ u.screen = "shelf"
  BY <1>1 DEF SameAsk
<1>5. ASSUME Sound(ai) PROVE Sound(ai')
  <2>1. Returned(ai, u) /\ Books(ai)
    BY <1>1, <1>5, GivesReturns DEF Sound, Books
  <2>2. Books(u)
    BY <1>1, <2>1, GivenBack DEF SameAsk
  <2>3. Paid(ai') /\ OpenHere(ai') /\ Asked(ai')
    BY <1>3, <2>2 DEF Books, Paid, OpenHere, Asked
  <2>4. Untold(ai')
    BY <1>3, <2>2, NightIsNoReceipt DEF Books, Untold, ToCome
  <2>5. ai.kind = "quiz"
    BY <1>1, <1>5 DEF Sound, Listed
  <2>6. Tappable(ai') /\ Listed(ai')
    BY <1>1, <1>3, <1>4, <1>5, <2>5 DEF Sound, Tappable, Listed
  <2>7. QED
    BY <2>3, <2>4, <2>6 DEF Sound
<1>6. QED
  BY <1>2, <1>3, <1>4, <1>5 DEF IInv, Panelled

LEMMA StrikeKeeps ==
  ASSUME Setting, IInv, Strike
  PROVE  IInv'
<1>1. ai \in State
  BY DEF IInv
<1>2. PICK n \in 0 .. PackSize : ai' = [ai EXCEPT !.kept = n]
  BY DEF Strike
<1>3. n \in Nat
  BY DEF Setting
<1>4. ai' \in State
  BY <1>1, <1>2, <1>3 DEF State
<1>5. /\ ai'.asks = ai.asks /\ ai'.of = ai.of /\ ai'.ask = ai.ask /\ ai'.early = ai.early /\ ai'.open = ai.open
      /\ ai'.said = ai.said /\ ai'.took = ai.took /\ ai'.ed = ai.ed /\ ai'.done = ai.done /\ ai'.list = ai.list
      /\ ai'.shows = ai.shows /\ ai'.screen = ai.screen /\ ai'.kind = ai.kind /\ ai'.shelf = ai.shelf
  BY <1>1, <1>2 DEF State
<1>6. ASSUME Sound(ai) PROVE Sound(ai')
  <2>1. Paid(ai') /\ OpenHere(ai')
    BY <1>5, <1>6 DEF Sound, Paid, OpenHere
  <2>2. Tappable(ai') /\ Listed(ai')
    BY <1>5, <1>6 DEF Sound, Tappable, Listed
  <2>3. Asked(ai') /\ Untold(ai')
    BY <1>5, <1>6 DEF Sound, Asked, Untold, ToCome
  <2>4. QED
    BY <2>1, <2>2, <2>3 DEF Sound
<1>7. QED
  BY <1>4, <1>5, <1>6 DEF IInv, Panelled

LEMMA TakePackKeeps ==
  ASSUME Setting, IInv, TakePack
  PROVE  IInv'
<1> DEFINE d == ai.done
           taken == {ai.list} \ {NIGHT}
<1>1. PICK u : u = Close(ai, TRUE)
  OBVIOUS
<1>2. ai \in State /\ ai.screen = "shelf" /\ ai.list # 0 /\ d # 0
  BY DEF IInv, TakePack
<1>3. /\ u \in State /\ SameAsk(ai, u) /\ Gives(ai, u, d, IF TRUE THEN "accept" ELSE "discard") /\ u.done = 0
  BY <1>1, <1>2, CloseIs, Zenon
<1>4. ai' = [u EXCEPT !.took = @ \union taken, !.list = 0, !.screen = "editor", !.panel = @ + 1, !.shows = 0]
  BY <1>1 DEF TakePack
<1>5. taken \subseteq Asks
  BY <1>2 DEF State, Receipts
<1>6. PICK k \in SUBSET Asks, p \in Nat :
         /\ k = ai.took \union taken
         /\ ai' = [u EXCEPT !.took = k, !.list = 0, !.screen = "editor", !.panel = p, !.shows = 0]
  <2>1. u.took = ai.took /\ u.took \subseteq Asks /\ u.panel + 1 \in Nat
    BY <1>3 DEF State, SameAsk
  <2>2. QED
    BY <1>4, <1>5, <2>1
<1> HIDE DEF taken, d
<1>7. ai' \in State
  <2>1. u \in State /\ ai' = [u EXCEPT !.took = k, !.list = 0, !.screen = "editor", !.panel = p, !.shows = 0]
    BY <1>3, <1>6
  <2>2. [u EXCEPT !.took = k, !.screen = "editor", !.shows = 0] \in State
    BY <2>1 DEF State
  <2>3. PICK v \in State : v = [u EXCEPT !.took = k, !.screen = "editor", !.shows = 0]
    BY <2>2
  <2>4. ai' = [v EXCEPT !.list = 0, !.panel = p]
    BY <2>1, <2>3 DEF State
  <2>5. QED
    BY <2>4, NoneFits DEF State
<1>8. /\ ai'.took = k /\ ai'.list = 0 /\ ai'.screen = "editor" /\ ai'.shows = 0
      /\ ai'.asks = u.asks /\ ai'.of = u.of /\ ai'.ask = u.ask /\ ai'.early = u.early /\ ai'.open = u.open
      /\ ai'.said = u.said /\ ai'.ed = u.ed /\ ai'.done = u.done /\ ai'.kind = u.kind /\ ai'.shelf = u.shelf
  <2>1. u \in State /\ ai' = [u EXCEPT !.took = k, !.list = 0, !.screen = "editor", !.panel = p, !.shows = 0]
    BY <1>3, <1>6
  <2>2. QED
    BY <2>1 DEF State
<1>9. /\ ai'.asks = ai.asks /\ ai'.of = ai.of /\ ai'.ask = ai.ask /\ ai'.early = ai.early
      /\ ai'.ed = ai.ed /\ ai'.done = 0 /\ ai'.kind = ai.kind /\ ai'.shelf = ai.shelf
      /\ ai'.open = ai.open \ {d}
      /\ ai'.said = [q \in Asks |-> IF q = d /\ d \in ai.open THEN "accept" ELSE ai.said[q]]
  BY <1>3, <1>8 DEF SameAsk, Gives
<1>10. ASSUME Sound(ai) PROVE Sound(ai')
  <2>1. ai.open \subseteq Asks
    BY <1>2 DEF State
  <2>2. d = ai.list /\ (d = NIGHT \/ d \in ai.open)
    BY <1>2, <1>10 DEF Sound, Listed, d
  <2>3. \A q \in Asks : q \in taken <=> (q = d /\ d \in ai.open)
    BY <2>1, <2>2, NightIsNoReceipt DEF taken
  <2>4. ASSUME NEW q \in Asks PROVE ai'.said[q] = "accept" <=> q \in ai'.took
    <3>1. ai.said[q] = "accept" <=> q \in ai.took
      BY <1>10 DEF Sound, Paid
    <3>2. ai'.said[q] = IF q = d /\ d \in ai.open THEN "accept" ELSE ai.said[q]
      BY <1>9
    <3>3. q \in ai'.took <=> q \in ai.took \/ q \in taken
      BY <1>6, <1>8
    <3>4. QED
      BY <2>3, <3>1, <3>2, <3>3
  <2>5. ASSUME NEW q \in ai'.open PROVE ai'.said[q] = "" /\ ai'.of[q] = ai'.ed /\ ai'.ed # 0
    <3>1. q \in Asks /\ q \in ai.open /\ q # d
      BY <1>9, <2>1, <2>5
    <3>2. ai.said[q] = "" /\ ai.of[q] = ai.ed /\ ai.ed # 0
      BY <1>10, <3>1 DEF Sound, OpenHere
    <3>3. QED
      BY <1>9, <3>1, <3>2
  <2>6. ASSUME NEW q \in Asks, ToCome(ai', q) PROVE q \notin ai'.open /\ ai'.said[q] = "" /\ q # ai'.done
    <3>1. ToCome(ai, q)
      BY <1>9, <2>6 DEF ToCome
    <3>2. q # d /\ q \notin ai.open /\ ai.said[q] = ""
      BY <1>10, <3>1 DEF Sound, Untold, d
    <3>3. q # 0
      BY NightIsNoReceipt
    <3>4. QED
      BY <1>9, <3>2, <3>3
  <2>7. Asked(ai')
    BY <1>9, <1>10 DEF Sound, Asked
  <2>8. Tappable(ai') /\ Listed(ai')
    BY <1>8 DEF Tappable, Listed
  <2>9. QED
    BY <2>4, <2>5, <2>6, <2>7, <2>8 DEF Sound, Paid, OpenHere, Untold
<1>11. QED
  BY <1>7, <1>9, <1>10 DEF IInv, Panelled

-----------------------------------------------------------------------------
(* The theorem. *)

LEMMA InitKeeps == ASSUME Setting, AiInit PROVE IInv
<1>1. /\ ai.ed = 0 /\ ai.screen = "home" /\ ai.asks = 0 /\ ai.ask = NoAsk /\ ai.shows = 0
      /\ ai.done = 0 /\ ai.list = 0 /\ ai.open = {} /\ ai.said = [r \in Asks |-> ""] /\ ai.took = {}
  BY DEF AiInit, Off
<1>2. ai \in State
  <2>1. 0 \in Nat /\ 0 \in 0 .. MaxAsks /\ 0 \in Receipts
    BY NoneFits DEF Setting
  <2>2. [r \in Asks |-> ""] \in [Asks -> Verdicts] /\ [r \in Asks |-> 0] \in [Asks -> Nat]
    BY DEF Verdicts
  <2>3. QED
    BY <2>1, <2>2 DEF AiInit, Off, State
<1>3. Asked(ai) /\ Tappable(ai) /\ Listed(ai) /\ Panelled(ai)
  BY <1>1 DEF Asked, Tappable, Listed, Panelled
<1>4. Paid(ai) /\ OpenHere(ai)
  BY <1>1 DEF Paid, OpenHere
<1>5. Untold(ai)
  BY <1>1, NightIsNoReceipt DEF Untold
<1>6. QED
  BY <1>2, <1>3, <1>4, <1>5 DEF IInv, Sound

LEMMA NextKeeps == ASSUME Setting, IInv, [AiNext]_ai PROVE IInv'
<1>1. CASE UNCHANGED ai
  <2>1. ai' = ai
    BY <1>1
  <2>2. QED
    BY <2>1 DEF IInv
<1>2. CASE AiNext
  BY <1>2, OpenEditorKeeps, LeaveKeeps, TabKeeps, OpenPacksKeeps, BackKeeps, ActKeeps, WaitKeeps, HandOutKeeps,
     PickOptionKeeps, NightPackKeeps, StrikeKeeps, TakePackKeeps
     DEF AiNext
<1>3. QED
  BY <1>1, <1>2

(* What the books say at every moment, whatever the person taps while an     *)
(* answer is under way.                                                      *)
THEOREM BooksKept == ASSUME Setting PROVE AiSpec => []IInv
<1>1. AiInit => IInv
  BY InitKeeps
<1>2. IInv /\ [AiNext]_ai => IInv'
  BY NextKeeps
<1>3. QED
  BY <1>1, <1>2, PTL DEF AiSpec

(* What the invariant says once nothing strayed: the property. *)
LEMMA InvSays == IInv => PaidForWhatWasTaken
<1> SUFFICES ASSUME IInv, Sound(ai) PROVE PaidForWhatWasTaken
  BY DEF IInv, PaidForWhatWasTaken
<1>1. Paid(ai) /\ OpenHere(ai)
  BY DEF Sound
<1>2. \A r \in Asks : ai.said[r] = "accept" <=> r \in ai.took
  BY <1>1 DEF Paid
<1>3. (\A r \in ai.open : ai.of[r] = ai.ed) /\ (ai.ed = 0 => ai.open = {})
  BY <1>1 DEF OpenHere
<1>4. QED
  BY <1>2, <1>3 DEF PaidForWhatWasTaken

(* Nobody pays for what was not taken, and what was taken is paid for: ai.js *)
(* settles every receipt it opened, once, as the person decided, unless the  *)
(* pack sheet was opened again over an answer under way.                     *)
THEOREM PaidForTaken == ASSUME Setting PROVE AiSpec => []PaidForWhatWasTaken
  BY InvSays, BooksKept, PTL

-----------------------------------------------------------------------------
(* Live duels: the game needs a point to win it, and is one of the two. *)
LiveSetting == WIN \in Nat \ {0} /\ LiveKinds \subseteq {"rps", "ball"}

-----------------------------------------------------------------------------
(* What a page and the messages consist of. *)
Hands == 0 .. 2
Scores == Nat \X Nat
SealSet == Nat \X Nat \X Hands
Matches == [game : Nat, round : Nat, score : Scores, mine : Hands \cup {NoHand},
            theirs : SealSet \cup {<<>>}, sent : BOOLEAN, done : BOOLEAN, cheat : BOOLEAN]
Rallies == [serving : BOOLEAN, ball : {"none", "toward", "away"}, n : Nat, score : Scores,
            hits : Nat, due : BOOLEAN, done : BOOLEAN]
Sheets == [scr : {"off", "msg", "wait", "connecting", "hidden", "here", "ready", "play", "end"},
           ph : {"none", "attest", "register", "join", "rtc"}, tries : Nat, conn : BOOLEAN,
           games : Nat, watch : BOOLEAN, again : BOOLEAN \X BOOLEAN, m : Matches, b : Rallies]

GO == [t |-> "go"]
AG == [t |-> "ag"]
AGAIN == [t |-> "again"]
MISS == [t |-> "miss"]
HIT == [t |-> "hit", n |-> 0]
SERVE(n) == [t |-> "serve", n |-> n]
SEAL(m) == [t |-> "c", n |-> m.round, h |-> Seal(m.game, m.round, m.mine)]
HAND(n, h) == [t |-> "r", n |-> n, h |-> h]
Messages == {GO, AG, AGAIN, MISS, HIT} \cup [t : {"serve"}, n : Nat]
            \cup [t : {"c"}, n : Nat, h : SealSet] \cup [t : {"r"}, n : Nat, h : Hands]

Duels == [kind : {"rps", "ball"}, token : {"none", "open", "joined", "gone"}, invites : Nat, broken : BOOLEAN,
          page : [Pages -> Sheets], to : [Pages -> Seq(Messages)]]

-----------------------------------------------------------------------------
(* A page as it stands by itself. *)

InPlay(a) == a.scr \in {"play", "end"}
Unplayed(a) == a.games = 0 /\ a.again = <<FALSE, FALSE>> /\ a.m = Match(0) /\ a.b = Rally(FALSE)
MatchSound(a) ==
  LET m == a.m
  IN /\ m.game = a.games
     /\ m.sent <=> m.mine # NoHand /\ m.theirs # <<>>
     /\ m.done <=> IsOver(m.score)
     /\ m.done <=> a.scr = "end"
     /\ m.done => m.mine = NoHand /\ m.theirs = <<>>
     /\ m.round = 0 => m.score = <<0, 0>>
     /\ m.theirs # <<>> => m.theirs[3] \in Hands /\ m.theirs = Seal(m.game, m.round, m.theirs[3])
RallySound(a) == (a.b.done <=> IsOver(a.b.score)) /\ (a.b.done <=> a.scr = "end")
SheetSound(k, p, a) ==
  /\ a \in Sheets /\ ~a.m.cheat
  /\ IF a.conn THEN InPlay(a) \/ (a.scr = (IF p = 1 THEN "here" ELSE "ready") /\ Unplayed(a))
               ELSE ~InPlay(a) /\ a.scr \notin {"here", "ready"} /\ Unplayed(a)
  /\ a.conn \/ a.scr \in {"off", "msg"} => a.ph = "none"
  /\ a.again[1] => a.scr = "end" /\ ~a.again[2]
  /\ InPlay(a) => IF k = "rps" THEN MatchSound(a) ELSE RallySound(a)

-----------------------------------------------------------------------------
(* Rock-paper-scissors: what page a, number p, has taken of what page b said *)
(* and what is still on the way.                                             *)

Mirrored(s, t) == s[1] = t[2] /\ s[2] = t[1]
Starts(b) == b.scr = "play" /\ b.m.round = 0 /\ b.m.theirs = <<>> /\ b.again = <<FALSE, FALSE>>
AsksFor(a, b) == b.again[1] /\ ~a.again[2]

\* Both are in the same round.
SameRound(a, b, x) ==
  /\ b.m.round = a.m.round /\ Mirrored(a.m.score, b.m.score)
  /\ a.again[2] => b.again[1]
  /\ b.m.sent => a.m.mine # NoHand /\ b.m.theirs = Seal(b.m.game, b.m.round, a.m.mine)
  /\ \/ /\ a.m.theirs = <<>>
        /\ \/ b.m.mine = NoHand /\ ~AsksFor(a, b) /\ x = <<>>
           \/ b.m.mine = NoHand /\ AsksFor(a, b) /\ x = <<AGAIN>>
           \/ b.m.mine # NoHand /\ ~b.m.sent /\ x = <<SEAL(b.m)>>
           \/ b.m.sent /\ x = <<SEAL(b.m), HAND(b.m.round, b.m.mine)>>
     \/ /\ a.m.theirs = <<>> /\ a.m.round = 0
        /\ \/ b.m.mine = NoHand /\ x = <<AG>>
           \/ b.m.mine # NoHand /\ ~b.m.sent /\ x = <<AG, SEAL(b.m)>>
           \/ b.m.sent /\ x = <<AG, SEAL(b.m), HAND(b.m.round, b.m.mine)>>
     \/ /\ b.m.mine # NoHand /\ a.m.theirs = Seal(a.m.game, a.m.round, b.m.mine)
        /\ \/ ~b.m.sent /\ x = <<>>
           \/ b.m.sent /\ x = <<HAND(b.m.round, b.m.mine)>>
\* a has finished the round b is in.
RoundBefore(a, b, x) ==
  /\ a.m.round = b.m.round + 1 /\ x = <<>> /\ b.m.sent /\ a.m.theirs = <<>> /\ ~a.again[2]
  /\ Mirrored(a.m.score, RoundOver(b.m, b.m.theirs[3]).score)
\* b has finished the round a is in.
RoundAfter(a, b, x) ==
  /\ b.m.round = a.m.round + 1 /\ a.m.sent /\ b.m.theirs = <<>> /\ ~a.again[2]
  /\ Mirrored(RoundOver(a.m, a.m.theirs[3]).score, b.m.score)
  /\ \/ b.m.mine = NoHand /\ ~b.again[1] /\ x = <<HAND(a.m.round, a.m.theirs[3])>>
     \/ b.m.mine = NoHand /\ b.again[1] /\ x = <<HAND(a.m.round, a.m.theirs[3]), AGAIN>>
     \/ b.m.mine # NoHand /\ x = <<HAND(a.m.round, a.m.theirs[3]), SEAL(b.m)>>
\* b plays the next game already, or still the one before.
GameAfter(a, b, x) ==
  /\ b.games = a.games + 1 /\ a.again[1] /\ ~a.again[2] /\ Starts(b)
  /\ \/ b.m.mine = NoHand /\ x = <<AGAIN, AG>>
     \/ b.m.mine # NoHand /\ x = <<AGAIN, AG, SEAL(b.m)>>
GameBefore(a, b, x) ==
  /\ a.games = b.games + 1 /\ b.again[1] /\ ~b.again[2] /\ Starts(a) /\ x = <<>>
\* Before the first game.
GameToCome(p, a, b, x) ==
  \/ ~InPlay(a) /\ ~InPlay(b) /\ x = <<>>
  \/ /\ p = 2 /\ ~InPlay(a) /\ Starts(b) /\ b.games = 0
     /\ \/ b.m.mine = NoHand /\ x = <<GO, AG>>
        \/ b.m.mine # NoHand /\ x = <<GO, AG, SEAL(b.m)>>
  \/ p = 1 /\ Starts(a) /\ a.games = 0 /\ ~InPlay(b) /\ x = <<>>
Heard(p, a, b, x) ==
  \/ GameToCome(p, a, b, x)
  \/ /\ InPlay(a) /\ InPlay(b)
     /\ \/ a.games = b.games /\ (SameRound(a, b, x) \/ RoundBefore(a, b, x) \/ RoundAfter(a, b, x))
        \/ GameAfter(a, b, x) \/ GameBefore(a, b, x)

-----------------------------------------------------------------------------
(* The ball duel: x is on the way to a, y to b. *)

FirstServe(r) == r.serving /\ r.n = 0 /\ r.ball = "none"
Begun(r) == ~(r.serving /\ r.n = 0)
Won(s) == <<s[1] + 1, s[2]>>
\* a opens the game.
ToOpen(a, b, x, y) ==
  LET r == a.b
      q == b.b
  IN /\ ~r.due /\ ~q.due /\ ~r.done /\ ~q.done /\ x = <<>> /\ y = <<>>
     /\ FirstServe(r) /\ ~q.serving /\ q.ball = "none" /\ r.score = <<0, 0>> /\ q.score = <<0, 0>>
\* a has missed and serves.
ToServe(a, b, x, y) ==
  LET r == a.b
      q == b.b
  IN /\ r.due /\ ~q.due /\ ~r.done /\ ~q.done /\ Begun(r) /\ Begun(q) /\ r.ball = "none" /\ x = <<>>
     /\ \/ y = <<>> /\ q.ball = "none" /\ Mirrored(r.score, q.score)
        \/ y = <<MISS>> /\ q.ball = "away" /\ Mirrored(r.score, Won(q.score))
\* The ball flies towards a, or will when a has heard of it.
Flying(a, b, x, y) ==
  LET r == a.b
      q == b.b
  IN /\ ~r.due /\ ~q.due /\ ~r.done /\ ~q.done /\ Begun(r) /\ Begun(q) /\ y = <<>> /\ q.ball = "away"
     /\ \/ r.ball = "toward" /\ x = <<>> /\ Mirrored(r.score, q.score)
        \/ r.ball = "away" /\ x = <<HIT>> /\ Mirrored(r.score, q.score)
        \/ r.ball = "none" /\ x = <<SERVE(q.n - 1)>> /\ q.n > 0 /\ Mirrored(r.score, q.score)
        \/ r.ball = "away" /\ x = <<MISS, SERVE(q.n - 1)>> /\ q.n > 0 /\ Mirrored(Won(r.score), q.score)
\* a has missed the last ball, and b does not know yet.
LastPoint(a, b, x, y) ==
  LET r == a.b
      q == b.b
  IN /\ ~r.due /\ ~q.due /\ r.done /\ ~q.done /\ Begun(r) /\ Begun(q) /\ r.ball = "none" /\ q.ball = "away"
     /\ Mirrored(r.score, Won(q.score)) /\ x = <<>> /\ ~a.again[2] /\ ~b.again[2]
     /\ \/ ~a.again[1] /\ y = <<MISS>>
        \/ a.again[1] /\ y = <<MISS, AGAIN>>
BothDone(a, b, x, y) ==
  LET r == a.b
      q == b.b
  IN /\ ~r.due /\ ~q.due /\ r.done /\ q.done /\ Begun(r) /\ Begun(q) /\ r.ball = "none" /\ q.ball = "none"
     /\ Mirrored(r.score, q.score)
     /\ y = IF AsksFor(b, a) THEN <<AGAIN>> ELSE <<>>
     /\ x = IF AsksFor(a, b) THEN <<AGAIN>> ELSE <<>>
\* The ball is a's.
Turn(a, b, x, y) == ToOpen(a, b, x, y) \/ ToServe(a, b, x, y) \/ Flying(a, b, x, y) \/ LastPoint(a, b, x, y)
Paired(a, b) ==
  /\ InPlay(a) /\ InPlay(b) /\ a.games = b.games /\ (a.b.serving <=> ~b.b.serving)
  /\ (a.again[2] => b.again[1]) /\ (b.again[2] => a.again[1])
SameBall(a, b, x, y) ==
  Paired(a, b) /\ (Turn(a, b, x, y) \/ Turn(b, a, y, x) \/ BothDone(a, b, x, y))
\* b has begun a game and may have served.
Opens(b) ==
  /\ b.scr = "play" /\ b.again = <<FALSE, FALSE>> /\ ~b.b.due /\ ~b.b.done /\ b.b.score = <<0, 0>>
  /\ \/ b.b.ball = "none" /\ b.b.n = 0
     \/ b.b.ball = "away" /\ b.b.serving /\ b.b.n = 1
OpensFirst(a, b, x, y) ==
  /\ ~InPlay(a) /\ Opens(b) /\ b.b.serving /\ b.games = 0 /\ y = <<>>
  /\ x = IF b.b.ball = "away" THEN <<GO, SERVE(0)>> ELSE <<GO>>
OpensNext(a, b, x, y) ==
  /\ InPlay(a) /\ Opens(b) /\ b.games = a.games + 1 /\ a.again[1] /\ ~a.again[2]
  /\ (b.b.serving <=> a.b.serving) /\ y = <<>>
  /\ x = IF b.b.ball = "away" THEN <<AGAIN, SERVE(0)>> ELSE <<AGAIN>>
OneRally(p, a, b, x, y) ==
  \/ ~InPlay(a) /\ ~InPlay(b) /\ x = <<>> /\ y = <<>>
  \/ p = 2 /\ OpensFirst(a, b, x, y)
  \/ p = 1 /\ OpensFirst(b, a, y, x)
  \/ OpensNext(a, b, x, y) \/ OpensNext(b, a, y, x)
  \/ SameBall(a, b, x, y)

-----------------------------------------------------------------------------
(* The two pages. *)

Near(a) == a.conn \/ a.ph = "rtc"
Joint(L) ==
  IF L.kind = "rps" THEN Heard(1, L.page[1], L.page[2], L.to[1]) /\ Heard(2, L.page[2], L.page[1], L.to[2])
  ELSE OneRally(1, L.page[1], L.page[2], L.to[1], L.to[2])
Connected(L) ==
  /\ \A p \in Pages : L.page[p].conn => Near(L.page[Other(p)])
  /\ (\A p \in Pages : ~L.page[p].conn) => L.to[1] = <<>> /\ L.to[2] = <<>>
  /\ (\A p \in Pages : Near(L.page[p])) => Joint(L)
\* What was on the way when the other one left.
LastWords(p, a, x) ==
  x = <<>> \/ \E b : SheetSound("rps", Other(p), b) /\ Heard(p, a, b, x)
Parted(L) ==
  L.kind = "rps" => \A p \in Pages : L.page[p].conn => LastWords(p, L.page[p], L.to[p])
LiveInv(L) ==
  /\ L \in Duels
  /\ \A p \in Pages : SheetSound(L.kind, p, L.page[p])
  /\ IF L.broken THEN Parted(L) ELSE Connected(L)

-----------------------------------------------------------------------------
(* Short sequences. *)

LEMMA Alike ==
  ASSUME NEW S, NEW s \in Seq(S), NEW t \in Seq(S), Len(s) = Len(t), \A i \in 1 .. Len(s) : s[i] = t[i]
  PROVE  s = t
  OBVIOUS

LEMMA Joining ==
  ASSUME NEW S, NEW u \in S, NEW v \in S, NEW w \in S
  PROVE  /\ <<>> \o <<u>> = <<u>> /\ <<>> \o <<u, v>> = <<u, v>> /\ <<>> \o <<u, v, w>> = <<u, v, w>>
         /\ <<u>> \o <<v>> = <<u, v>> /\ <<u>> \o <<v, w>> = <<u, v, w>> /\ <<u, v>> \o <<w>> = <<u, v, w>>
<1>1. <<u>> \in Seq(S) /\ <<u, v>> \in Seq(S) /\ <<u, v, w>> \in Seq(S)
  OBVIOUS
<1>2. <<>> \o <<u>> = <<u>> /\ <<>> \o <<u, v>> = <<u, v>> /\ <<>> \o <<u, v, w>> = <<u, v, w>>
  BY <1>1
<1>3. <<u>> \o <<v>> = <<u, v>>
  <2>1. <<u>> \in Seq(S) /\ <<v>> \in Seq(S) /\ <<u, v>> \in Seq(S)
    OBVIOUS
  <2>2. <<u>> \o <<v>> \in Seq(S) /\ Len(<<u>> \o <<v>>) = 2 /\ Len(<<u, v>>) = 2
    BY <2>1
  <2>3. \A i \in 1 .. 2 : (<<u>> \o <<v>>)[i] = (<<u, v>>)[i]
    BY <2>1
  <2>4. QED
    BY <2>1, <2>2, <2>3, Alike
<1>4. <<u>> \o <<v, w>> = <<u, v, w>>
  <2>1. <<u>> \in Seq(S) /\ <<v, w>> \in Seq(S) /\ <<u, v, w>> \in Seq(S)
    OBVIOUS
  <2>2. <<u>> \o <<v, w>> \in Seq(S) /\ Len(<<u>> \o <<v, w>>) = 3 /\ Len(<<u, v, w>>) = 3
    BY <2>1
  <2>3. \A i \in 1 .. 3 : (<<u>> \o <<v, w>>)[i] = (<<u, v, w>>)[i]
    BY <2>1
  <2>4. QED
    BY <2>1, <2>2, <2>3, Alike
<1>5. <<u, v>> \o <<w>> = <<u, v, w>>
  <2>1. <<u, v>> \in Seq(S) /\ <<w>> \in Seq(S) /\ <<u, v, w>> \in Seq(S)
    OBVIOUS
  <2>2. <<u, v>> \o <<w>> \in Seq(S) /\ Len(<<u, v>> \o <<w>>) = 3 /\ Len(<<u, v, w>>) = 3
    BY <2>1
  <2>3. \A i \in 1 .. 3 : (<<u, v>> \o <<w>>)[i] = (<<u, v, w>>)[i]
    BY <2>1
  <2>4. QED
    BY <2>1, <2>2, <2>3, Alike
<1>6. QED
  BY <1>2, <1>3, <1>4, <1>5

LEMMA Taking ==
  ASSUME NEW S, NEW u \in S, NEW v \in S, NEW w \in S
  PROVE  /\ Head(<<u>>) = u /\ Head(<<u, v>>) = u /\ Head(<<u, v, w>>) = u
         /\ Tail(<<u>>) = <<>> /\ Tail(<<u, v>>) = <<v>> /\ Tail(<<u, v, w>>) = <<v, w>>
         /\ <<u>> # <<>> /\ <<u, v>> # <<>> /\ <<u, v, w>> # <<>>
  OBVIOUS

LEMMA Empty == ASSUME NEW S, NEW s \in Seq(S) PROVE s \o <<>> = s
  OBVIOUS

LEMMA Nothing ==
  ASSUME NEW S, NEW u \in S, NEW v \in S, NEW w \in S
  PROVE  <<>> \o <<>> = <<>> /\ <<u>> \o <<>> = <<u>> /\ <<u, v>> \o <<>> = <<u, v>> /\ <<u, v, w>> \o <<>> = <<u, v, w>>
<1>1. <<>> \in Seq(S) /\ <<u>> \in Seq(S) /\ <<u, v>> \in Seq(S) /\ <<u, v, w>> \in Seq(S)
  OBVIOUS
<1>2. \A s \in Seq(S) : s \o <<>> = s
  OBVIOUS
<1>3. QED
  BY <1>1, <1>2, Zenon

LEMMA TakingTyped ==
  ASSUME NEW S, NEW s \in Seq(S), s # <<>>
  PROVE  Head(s) \in S /\ Tail(s) \in Seq(S)
  OBVIOUS

-----------------------------------------------------------------------------
(* What a step of page p does: its page becomes a, x is what is still on the *)
(* way to it, and out is sent.                                               *)
Acted(L, M, p, a, x, out) ==
  /\ M \in Duels /\ M.kind = L.kind /\ M.broken = L.broken
  /\ M.page[p] = a /\ M.page[Other(p)] = L.page[Other(p)] /\ M.to[p] = x
  /\ M.to[Other(p)] = IF L.broken THEN L.to[Other(p)] ELSE L.to[Other(p)] \o out

LEMMA Two == /\ \A p \in Pages : Other(p) \in Pages /\ Other(p) # p /\ Other(Other(p)) = p
             /\ Pages = {1, 2} /\ Other(1) = 2 /\ Other(2) = 1
             /\ \A p \in Pages, q \in Pages : q = p \/ q = Other(p)
  BY DEF Pages, Other

LEMMA SetIs ==
  ASSUME NEW L \in Duels, NEW p \in Pages, NEW a \in Sheets
  PROVE  LET M == [L EXCEPT !.page[p] = a]
         IN /\ M \in Duels /\ M.kind = L.kind /\ M.broken = L.broken /\ M.to = L.to
            /\ M.page[p] = a /\ M.page[Other(p)] = L.page[Other(p)]
  BY Two DEF Duels

LEMMA SentIs ==
  ASSUME NEW L \in Duels, NEW p \in Pages, NEW a \in Sheets, NEW out \in Seq(Messages)
  PROVE  Acted(L, Sent([L EXCEPT !.page[p] = a], p, out), p, a, L.to[p], out)
<1> DEFINE M == [L EXCEPT !.page[p] = a]
<1>1. M \in Duels /\ M.kind = L.kind /\ M.broken = L.broken /\ M.to = L.to
      /\ M.page[p] = a /\ M.page[Other(p)] = L.page[Other(p)]
  BY SetIs
<1>2. L.to[Other(p)] \in Seq(Messages) /\ L.to[Other(p)] \o out \in Seq(Messages)
  BY Two DEF Duels
<1> DEFINE N == Sent(M, p, out)
<1>3. Acted(L, N, p, a, L.to[p], out)
  <2> HIDE DEF M
  <2>1. CASE L.broken
    BY <1>1, <2>1 DEF Acted, Sent
  <2>2. CASE ~L.broken
    <3>1. N = [M EXCEPT !.to[Other(p)] = @ \o out]
      BY <1>1, <2>2 DEF Sent
    <3>2. M.to[Other(p)] \o out \in Seq(Messages)
      BY <1>1, <1>2
    <3>3. N \in Duels /\ N.page = M.page /\ N.kind = M.kind /\ N.broken = M.broken
          /\ N.to[Other(p)] = M.to[Other(p)] \o out /\ N.to[p] = M.to[p]
      <4> HIDE DEF N
      <4>1. M.to \in [Pages -> Seq(Messages)] /\ Other(p) \in Pages /\ Other(p) # p
        BY <1>1, Two DEF Duels
      <4>2. N.to = [M.to EXCEPT ![Other(p)] = M.to[Other(p)] \o out]
        BY <3>1, <1>1 DEF Duels
      <4>3. N.to \in [Pages -> Seq(Messages)]
        BY <4>1, <4>2, <3>2
      <4>4. N \in Duels /\ N.page = M.page /\ N.kind = M.kind /\ N.broken = M.broken
        BY <3>1, <4>2, <4>3, <1>1 DEF Duels
      <4>5. QED
        BY <4>1, <4>2, <4>4
    <3>4. QED
      BY <3>3, <1>1, <2>2 DEF Acted
  <2>3. QED
    BY <2>1, <2>2
<1>4. QED
  BY <1>3

LEMMA SentOn ==
  ASSUME NEW L \in Duels, NEW p \in Pages, NEW a, NEW x, NEW out \in Seq(Messages), NEW M,
         Acted(L, M, p, a, x, out), NEW c \in Sheets, NEW more \in Seq(Messages)
  PROVE  Acted(L, Sent([M EXCEPT !.page[p] = c], p, more), p, c, x, out \o more)
<1>1. M \in Duels
  BY DEF Acted
<1>2. Acted(M, Sent([M EXCEPT !.page[p] = c], p, more), p, c, M.to[p], more)
  BY <1>1, SentIs
<1>3. L.to[Other(p)] \in Seq(Messages)
  BY Two DEF Duels
<1>4. (L.to[Other(p)] \o out) \o more = L.to[Other(p)] \o (out \o more)
  <2> DEFINE S == Messages
  <2>1. L.to[Other(p)] \in Seq(S) /\ out \in Seq(S) /\ more \in Seq(S)
    BY <1>3
  <2> HIDE DEF S
  <2>2. \A q \in Seq(S), r \in Seq(S), s \in Seq(S) : (q \o r) \o s = q \o (r \o s)
    OBVIOUS
  <2>3. QED
    BY <2>1, <2>2, Zenon
<1>5. QED
  BY <1>2, <1>4 DEF Acted

LEMMA TakenOn ==
  ASSUME NEW L \in Duels, NEW p \in Pages, NEW a, NEW out, NEW M, Acted(L, M, p, a, L.to[p], out), L.to[p] # <<>>
  PROVE  Acted(L, [M EXCEPT !.to[p] = Tail(@)], p, a, Tail(L.to[p]), out)
<1>1. M \in Duels /\ M.to[p] = L.to[p]
  BY DEF Acted
<1>2. Tail(M.to[p]) \in Seq(Messages)
  BY <1>1, TakingTyped DEF Duels
<1> DEFINE N == [M EXCEPT !.to[p] = Tail(@)]
<1>3. N \in Duels /\ N.kind = M.kind /\ N.broken = M.broken /\ N.page = M.page /\ N.to[p] = Tail(M.to[p])
      /\ N.to[Other(p)] = M.to[Other(p)]
  BY <1>1, <1>2, Two DEF Duels
<1>4. QED
  BY <1>1, <1>3 DEF Acted

-----------------------------------------------------------------------------
(* A page that is not in play looks alike to the other one. *)

LEMMA OutOfPlay ==
  ASSUME NEW p \in Pages, NEW a, NEW c, NEW b, NEW x, NEW y, ~InPlay(a), ~InPlay(c)
  PROVE  /\ Heard(p, a, b, x) => Heard(p, c, b, x)
         /\ Heard(p, b, a, x) => Heard(p, b, c, x)
         /\ OneRally(p, a, b, x, y) => OneRally(p, c, b, x, y)
         /\ OneRally(p, b, a, x, y) => OneRally(p, b, c, x, y)
  BY DEF Heard, GameToCome, GameAfter, GameBefore, InPlay, Starts, OneRally, OpensFirst, OpensNext, Opens, SameBall, Paired

LEMMA Symmetric ==
  ASSUME NEW a, NEW b, NEW x, NEW y
  PROVE  OneRally(1, a, b, x, y) <=> OneRally(2, b, a, y, x)
<1>1. BothDone(a, b, x, y) <=> BothDone(b, a, y, x)
  BY DEF BothDone, Mirrored
<1>2. SameBall(a, b, x, y) <=> SameBall(b, a, y, x)
  BY <1>1 DEF SameBall, Paired
<1>3. QED
  BY <1>2 DEF OneRally

LEMMA JointIs ==
  ASSUME NEW L, NEW p \in Pages
  PROVE  Joint(L) <=> IF L.kind = "rps"
                      THEN /\ Heard(p, L.page[p], L.page[Other(p)], L.to[p])
                           /\ Heard(Other(p), L.page[Other(p)], L.page[p], L.to[Other(p)])
                      ELSE OneRally(p, L.page[p], L.page[Other(p)], L.to[p], L.to[Other(p)])
<1>1. p = 1 \/ p = 2
  BY Two
<1>2. QED
  BY <1>1, Two, Symmetric DEF Joint

-----------------------------------------------------------------------------
(* Steps that keep the invariant. *)

\* A step of a page with a connection: c and z are its page and what is on the
\* way to it before the step, a and x after it, and out is sent.
Heeded(k, p, c, a, z, x, out) ==
  IF k = "rps"
  THEN \A b : SheetSound(k, Other(p), b) /\ Heard(p, c, b, z) =>
         /\ Heard(p, a, b, x)
         /\ \A y \in Seq(Messages) : Heard(Other(p), b, c, y) => Heard(Other(p), b, a, y \o out)
  ELSE \A b, y : SheetSound(k, Other(p), b) /\ y \in Seq(Messages) /\ OneRally(p, c, b, z, y)
         => OneRally(p, a, b, x, y \o out)

LEMMA PlayKeeps ==
  ASSUME NEW L, LiveInv(L), NEW p \in Pages, NEW M, NEW a, NEW x, NEW out, Acted(L, M, p, a, x, out),
         L.page[p].conn, a.conn, SheetSound(L.kind, p, a), L.to[p] = <<>> => x = <<>>,
         Heeded(L.kind, p, L.page[p], a, L.to[p], x, out)
  PROVE  LiveInv(M)
<1> DEFINE o == Other(p)
<1>1. o \in Pages /\ o # p /\ Other(o) = p /\ \A q \in Pages : q = p \/ q = o
  BY Two
<1>2. M \in Duels /\ M.kind = L.kind /\ M.broken = L.broken /\ M.page[p] = a /\ M.page[o] = L.page[o] /\ M.to[p] = x
      /\ M.to[o] = IF L.broken THEN L.to[o] ELSE L.to[o] \o out
  BY DEF Acted
<1>3. L \in Duels /\ L.to[o] \in Seq(Messages) /\ L.kind \in {"rps", "ball"} /\ L.broken \in BOOLEAN
  BY <1>1 DEF LiveInv, Duels
<1>4. \A q \in Pages : SheetSound(M.kind, q, M.page[q])
  BY <1>1, <1>2 DEF LiveInv
<1> HIDE DEF o
<1>5. CASE L.broken
  <2>1. ASSUME L.kind = "rps", NEW q \in Pages, M.page[q].conn PROVE LastWords(q, M.page[q], M.to[q])
    <3>1. CASE q = o
      BY <3>1, <2>1, <1>2, <1>5 DEF LiveInv, Parted
    <3>2. CASE q = p
      <4>1. LastWords(p, L.page[p], L.to[p])
        BY <2>1, <1>5 DEF LiveInv, Parted
      <4>2. CASE L.to[p] = <<>>
        BY <4>2, <3>2, <1>2 DEF LastWords
      <4>3. CASE L.to[p] # <<>>
        <5>1. PICK b : SheetSound("rps", o, b) /\ Heard(p, L.page[p], b, L.to[p])
          BY <4>1, <4>3 DEF LastWords, o
        <5>2. Heard(p, a, b, x)
          BY <5>1, <2>1 DEF Heeded, o
        <5>3. QED
          BY <5>1, <5>2, <3>2, <1>2 DEF LastWords, o
      <4>4. QED
        BY <4>2, <4>3
    <3>3. QED
      BY <3>1, <3>2, <1>1
  <2>2. QED
    BY <2>1, <1>2, <1>4, <1>5 DEF LiveInv, Parted
<1>6. CASE ~L.broken
  <2>1. Connected(L)
    BY <1>6 DEF LiveInv
  <2>2. Near(L.page[o]) /\ Near(L.page[p])
    BY <2>1 DEF Connected, Near, o
  <2>3. Joint(L)
    BY <2>1, <2>2, <1>1 DEF Connected
  <2>4. SheetSound(L.kind, o, L.page[o])
    BY <1>1 DEF LiveInv
  <2>5. Joint(M)
    <3>1. CASE L.kind = "rps"
      BY <3>1, <2>3, <2>4, <1>2, <1>3, <1>6, JointIs DEF Heeded, o
    <3>2. CASE L.kind = "ball"
      BY <3>2, <2>3, <2>4, <1>2, <1>3, <1>6, JointIs DEF Heeded, o
    <3>3. QED
      BY <3>1, <3>2, <1>3
  <2>6. \A q \in Pages : M.page[q].conn => Near(M.page[Other(q)])
    BY <2>2, <1>1, <1>2 DEF Near, o
  <2>7. Connected(M)
    BY <2>5, <2>6, <1>2 DEF Connected
  <2>8. QED
    BY <2>7, <1>2, <1>4, <1>6 DEF LiveInv
<1>7. QED
  BY <1>5, <1>6, <1>3

\* A step of a page without a connection.
LEMMA SetupKeeps ==
  ASSUME NEW L, LiveInv(L), NEW p \in Pages, NEW M \in Duels, NEW a, M.kind = L.kind, M.broken = L.broken, M.to = L.to,
         M.page[p] = a, M.page[Other(p)] = L.page[Other(p)], ~L.page[p].conn, ~a.conn, SheetSound(L.kind, p, a),
         L.page[p].ph = "rtc" => a.ph = "rtc",
         a.ph = "rtc" /\ L.page[p].ph # "rtc" => L.broken \/ ~L.page[Other(p)].conn
  PROVE  LiveInv(M)
<1> DEFINE o == Other(p)
<1>1. o \in Pages /\ o # p /\ Other(o) = p /\ \A q \in Pages : q = p \/ q = o
  BY Two
<1>2. SheetSound(L.kind, p, L.page[p]) /\ ~InPlay(L.page[p]) /\ ~InPlay(a)
  BY DEF LiveInv, SheetSound
<1>3. \A q \in Pages : SheetSound(M.kind, q, M.page[q])
  BY <1>1 DEF LiveInv
<1>4. M.broken \in BOOLEAN /\ L.kind \in {"rps", "ball"} /\ 1 \in Pages /\ 2 \in Pages
  BY DEF Duels, Pages
<1> HIDE DEF o
<1>5. CASE L.broken
  <2>1. Parted(M)
    BY <1>1, <1>5 DEF LiveInv, Parted, o
  <2>2. QED
    BY <2>1, <1>3, <1>5 DEF LiveInv
<1>6. CASE ~L.broken
  <2>1. Connected(L)
    BY <1>6 DEF LiveInv
  <2>2. \A q \in Pages : M.page[q].conn => Near(M.page[Other(q)])
    BY <2>1, <1>1 DEF Connected, Near, o
  <2>3. (\A q \in Pages : ~M.page[q].conn) => M.to[1] = <<>> /\ M.to[2] = <<>>
    BY <2>1, <1>1 DEF Connected, o
  <2>4. ASSUME \A q \in Pages : Near(M.page[q]) PROVE Joint(M)
    <3>1. a.ph = "rtc" /\ Near(L.page[o])
      BY <2>4, <1>1 DEF Near, o
    <3>2. CASE L.page[p].ph = "rtc"
      <4>1. Joint(L)
        BY <3>1, <3>2, <2>1, <1>1 DEF Connected, Near
      <4>2. QED
        <5> DEFINE c == L.page[p]
                   b == L.page[o]
                   x == L.to[p]
                   y == L.to[o]
        <5>1. M.page[p] = a /\ M.page[o] = b /\ M.to[p] = x /\ M.to[o] = y
          BY DEF o
        <5>2. ~InPlay(c) /\ ~InPlay(a)
          BY <1>2
        <5>3. CASE L.kind = "rps"
          <6>1. Heard(p, c, b, x) /\ Heard(o, b, c, y)
            BY <4>1, <5>3, JointIs DEF o
          <6> HIDE DEF c, b, x, y
          <6>2. Heard(p, a, b, x) /\ Heard(o, b, a, y)
            BY <6>1, <5>2, <1>1, OutOfPlay
          <6>3. QED
            BY <6>2, <5>1, <5>3, JointIs DEF o
        <5>4. CASE L.kind = "ball"
          <6>1. OneRally(p, c, b, x, y)
            BY <4>1, <5>4, JointIs DEF o
          <6> HIDE DEF c, b, x, y
          <6>2. OneRally(p, a, b, x, y)
            BY <6>1, <5>2, OutOfPlay
          <6>3. QED
            BY <6>2, <5>1, <5>4, JointIs DEF o
        <5>5. QED
          BY <5>3, <5>4, <1>4
    <3>3. CASE L.page[p].ph # "rtc"
      <4>1. ~L.page[o].conn
        BY <3>1, <3>3, <1>6 DEF o
      <4>2. L.to[p] = <<>> /\ L.to[o] = <<>> /\ ~InPlay(L.page[o])
        BY <4>1, <2>1, <1>1, Two DEF Connected, LiveInv, SheetSound
      <4>3. QED
        BY <4>2, <1>2, <1>4, JointIs DEF Heard, GameToCome, OneRally, o
    <3>4. QED
      BY <3>2, <3>3
  <2>5. QED
    BY <2>2, <2>3, <2>4, <1>3, <1>6 DEF LiveInv, Connected
<1>7. QED
  BY <1>5, <1>6, <1>4

\* A step that ends the connection of page p, or finds it ended.
LEMMA CloseKeeps ==
  ASSUME NEW L, LiveInv(L), NEW p \in Pages, NEW M \in Duels, NEW a, M.kind = L.kind, M.broken, M.to = L.to,
         M.page[p] = a, M.page[Other(p)] = L.page[Other(p)], ~a.conn, SheetSound(L.kind, p, a),
         L.broken \/ Near(L.page[p])
  PROVE  LiveInv(M)
<1> DEFINE o == Other(p)
<1>1. o \in Pages /\ o # p /\ Other(o) = p /\ \A q \in Pages : q = p \/ q = o
  BY Two
<1>2. \A q \in Pages : SheetSound(M.kind, q, M.page[q])
  BY <1>1 DEF LiveInv
<1> HIDE DEF o
<1>3. ASSUME L.kind = "rps", L.page[o].conn PROVE LastWords(o, L.page[o], L.to[o])
  <2>1. CASE L.broken
    BY <2>1, <1>3, <1>1 DEF LiveInv, Parted
  <2>2. CASE ~L.broken
    <3>1. Near(L.page[p]) /\ Near(L.page[o])
      BY <2>2, <1>3 DEF Near
    <3>2. Joint(L)
      BY <3>1, <2>2, <1>1 DEF LiveInv, Connected
    <3>3. Heard(o, L.page[o], L.page[p], L.to[o]) /\ SheetSound("rps", p, L.page[p])
      BY <3>2, <1>3, JointIs DEF LiveInv, o
    <3>4. QED
      BY <3>3, <1>1 DEF LastWords
  <2>3. QED
    BY <2>1, <2>2
<1>4. Parted(M)
  BY <1>1, <1>3 DEF Parted, o
<1>5. QED
  BY <1>2, <1>4 DEF LiveInv

-----------------------------------------------------------------------------
(* The invitation, the connection and its end. *)

LEMMA BlankIs ==
  ASSUME LiveSetting, NEW k, NEW p \in Pages, NEW a \in Sheets, ~a.m.cheat, ~a.conn, ~InPlay(a),
         a.scr \notin {"here", "ready"}, Unplayed(a), a.scr \in {"off", "msg"} => a.ph = "none"
  PROVE  SheetSound(k, p, a)
  BY DEF SheetSound, Unplayed

LEMMA Page0Is == Page0 \in Sheets /\ Unplayed(Page0) /\ Page0.scr = "off" /\ Page0.ph = "none" /\ ~Page0.conn
                 /\ Page0.m.cheat = FALSE
<1>1. Match(0) \in Matches
  BY DEF Match, Matches, NoHand, Scores
<1>2. Rally(FALSE) \in Rallies
  BY DEF Rally, Rallies, Scores
<1>3. Page0.m = Match(0) /\ Page0.b = Rally(FALSE)
  BY DEF Page0
<1>4. Match(0).cheat = FALSE
  BY DEF Match
<1>5. Page0 \in Sheets
  BY <1>1, <1>2 DEF Page0, Sheets
<1>6. QED
  BY <1>3, <1>4, <1>5 DEF Page0, Unplayed

LEMMA BareIs ==
  ASSUME LiveSetting, NEW k, NEW p \in Pages, NEW a \in Sheets, ~a.m.cheat, NEW scr \in {"off", "msg"}
  PROVE  LET c == Bare(a, scr) IN SheetSound(k, p, c) /\ c \in Sheets /\ ~c.conn /\ c.ph = "none"
<1> DEFINE c == Bare(a, scr)
<1>1. a.m.cheat = FALSE
  BY DEF Sheets, Matches
<1>2. Page0.m \in Matches /\ Page0.m.cheat = FALSE
  BY Page0Is DEF Sheets
<1>3. [Page0.m EXCEPT !.cheat = a.m.cheat] = Page0.m
  BY <1>1, <1>2 DEF Matches
<1>4. c = [Page0 EXCEPT !.scr = scr]
  <2>1. c = [Page0 EXCEPT !.scr = scr, !.m = [Page0.m EXCEPT !.cheat = a.m.cheat]]
    BY Page0Is DEF Bare, Sheets
  <2>2. QED
    BY <2>1, <1>3, Page0Is DEF Sheets
<1>5. c \in Sheets /\ ~c.m.cheat /\ ~c.conn /\ ~InPlay(c) /\ c.scr = scr /\ Unplayed(c) /\ c.ph = "none"
  BY <1>4, Page0Is DEF Sheets, Unplayed, InPlay
<1> HIDE DEF c
<1>6. SheetSound(k, p, c)
  BY <1>5, BlankIs
<1>7. QED
  BY <1>5, <1>6 DEF c

LEMMA CloseConnIs ==
  ASSUME LiveSetting, NEW L, LiveInv(L), NEW p \in Pages, NEW scr \in {"off", "msg"}
  PROVE  LiveInv(CloseConn(L, p, scr))
<1> DEFINE M == CloseConn(L, p, scr)
           a == Bare(L.page[p], scr)
<1>1. L \in Duels /\ L.page[p] \in Sheets /\ ~L.page[p].m.cheat /\ SheetSound(L.kind, p, L.page[p])
  BY DEF LiveInv, SheetSound
<1>2. SheetSound(L.kind, p, a) /\ a \in Sheets /\ ~a.conn /\ a.ph = "none"
  BY <1>1, BareIs
<1>3. M = [L EXCEPT !.page = [L.page EXCEPT ![p] = a], !.broken = L.broken \/ L.page[p].conn \/ L.page[p].ph = "rtc"]
  BY <1>1 DEF CloseConn, Duels
<1> HIDE DEF a, M
<1>4. M \in Duels /\ M.kind = L.kind /\ M.to = L.to /\ M.page = [L.page EXCEPT ![p] = a]
      /\ M.broken = (L.broken \/ L.page[p].conn \/ L.page[p].ph = "rtc")
  BY <1>1, <1>2, <1>3 DEF Duels
<1>5. M.page[p] = a /\ M.page[Other(p)] = L.page[Other(p)]
  BY <1>1, <1>4, Two DEF Duels
<1>6. ASSUME L.broken \/ Near(L.page[p]) PROVE LiveInv(M)
  BY <1>2, <1>4, <1>5, <1>6, CloseKeeps DEF Near
<1>7. ASSUME ~(L.broken \/ Near(L.page[p])) PROVE LiveInv(M)
  <2>1. M.broken = L.broken /\ ~L.page[p].conn /\ L.page[p].ph # "rtc"
    BY <1>1, <1>4, <1>7 DEF Near, Duels
  <2>2. QED
    BY <1>2, <1>4, <1>5, <2>1, SetupKeeps
<1>8. QED
  BY <1>6, <1>7 DEF M

LEMMA TokenIs ==
  ASSUME NEW L, LiveInv(L), NEW t \in {"none", "open", "joined", "gone"}
  PROVE  LiveInv([L EXCEPT !.token = t])
<1> DEFINE M == [L EXCEPT !.token = t]
<1>1. M \in Duels /\ M.kind = L.kind /\ M.page = L.page /\ M.to = L.to /\ M.broken = L.broken
  BY DEF LiveInv, Duels
<1> HIDE DEF M
<1>2. LiveInv(M)
  BY <1>1 DEF LiveInv, Parted, Connected, Joint
<1>3. QED
  BY <1>2 DEF M

LEMMA InviteStep == ASSUME LiveSetting, LiveInv(live), Invite PROVE LiveInv(live')
<1> DEFINE a == [Page0 EXCEPT !.scr = "wait"]
<1>1. a \in Sheets /\ Unplayed(a) /\ a.scr = "wait" /\ a.ph = "none" /\ ~a.conn /\ ~a.m.cheat
  BY Page0Is DEF Sheets, Unplayed
<1> HIDE DEF a
<1>2. SheetSound(live.kind, 1, a) /\ 1 \in Pages /\ 2 \in Pages
  BY <1>1, BlankIs DEF InPlay, Pages
<1>3. live \in Duels /\ SheetSound(live.kind, 2, live.page[2]) /\ ~live.page[2].conn
  BY <1>2 DEF Invite, Pg, LiveInv, SheetSound, InPlay
<1>4. live' = [live EXCEPT !.token = "open", !.invites = @ + 1, !.broken = FALSE,
                           !.to = [q \in Pages |-> <<>>], !.page = [@ EXCEPT ![1] = a]]
  BY DEF Invite, a
<1>5. live' \in Duels /\ live'.kind = live.kind /\ live'.broken = FALSE /\ live'.to[1] = <<>> /\ live'.to[2] = <<>>
      /\ live'.page[1] = a /\ live'.page[2] = live.page[2]
  <2> DEFINE to == [q \in Pages |-> <<>>]
             page == [live.page EXCEPT ![1] = a]
  <2>1. to \in [Pages -> Seq(Messages)] /\ to[1] = <<>> /\ to[2] = <<>>
    BY <1>2
  <2>2. page \in [Pages -> Sheets] /\ page[1] = a /\ page[2] = live.page[2]
    BY <1>1, <1>2, <1>3 DEF Duels
  <2>3. live' = [live EXCEPT !.token = "open", !.invites = @ + 1, !.broken = FALSE, !.to = to, !.page = page]
    BY <1>4, <1>3 DEF Duels
  <2> HIDE DEF to, page
  <2>4. live.invites + 1 \in Nat
    BY <1>3 DEF Duels
  <2>5. live'.to = to /\ live'.page = page /\ live'.kind = live.kind /\ live'.broken = FALSE
    BY <1>3, <2>3 DEF Duels
  <2>6. live' \in Duels
    BY <1>3, <2>1, <2>2, <2>3, <2>4 DEF Duels
  <2>7. QED
    BY <2>1, <2>2, <2>5, <2>6
<1>6. Joint(live')
  BY <1>1, <1>2, <1>3, <1>5 DEF Joint, Heard, GameToCome, OneRally, InPlay, SheetSound
<1>7. \A q \in Pages : SheetSound(live'.kind, q, live'.page[q]) /\ ~live'.page[q].conn
  BY <1>1, <1>2, <1>3, <1>5, Two
<1>8. QED
  BY <1>5, <1>6, <1>7 DEF LiveInv, Connected

\* A page without a connection goes on setting it up.
LEMMA GoesOn ==
  ASSUME LiveSetting, LiveInv(live), NEW p \in Pages, ~Pg(p).conn, NEW a \in Sheets, live' = Set(p, a),
         a.scr \in {"wait", "connecting", "hidden"}, ~a.conn, a.games = 0, a.again = <<FALSE, FALSE>>,
         a.m = Match(0), a.b = Rally(FALSE), Pg(p).ph = "rtc" => a.ph = "rtc",
         a.ph = "rtc" /\ Pg(p).ph # "rtc" => live.broken \/ ~Pg(Other(p)).conn
  PROVE  LiveInv(live')
<1>1. SheetSound(live.kind, p, a)
  <2>1. ~a.m.cheat
    BY DEF Match
  <2>2. ~InPlay(a) /\ a.scr \notin {"here", "ready"} /\ Unplayed(a)
    BY DEF InPlay, Unplayed
  <2>3. QED
    BY <2>1, <2>2, BlankIs
<1>2. live \in Duels
  BY DEF LiveInv
<1>3. live' \in Duels /\ live'.kind = live.kind /\ live'.broken = live.broken /\ live'.to = live.to
            /\ live'.page[p] = a /\ live'.page[Other(p)] = live.page[Other(p)]
  BY <1>2, SetIs DEF Set
<1>4. QED
  BY <1>1, <1>3, SetupKeeps DEF Pg

\* What a page without a connection knows.
LEMMA Idle ==
  ASSUME LiveSetting, LiveInv(live), NEW p \in Pages, Pg(p).ph # "none" \/ Pg(p).scr \in {"off", "msg", "wait", "hidden"}
  PROVE  /\ Pg(p) \in Sheets /\ ~Pg(p).conn /\ Unplayed(Pg(p)) /\ ~InPlay(Pg(p))
         /\ Pg(p).scr \in {"off", "msg", "wait", "connecting", "hidden"}
         /\ Pg(p).scr \in {"off", "msg"} => Pg(p).ph = "none"
  BY DEF LiveInv, SheetSound, InPlay, Pg, Sheets

\* It stays alike but for its screen, phase and attempts.
LEMMA SameButFor ==
  ASSUME LiveSetting, LiveInv(live), NEW p \in Pages, NEW a, ~Pg(p).conn, Unplayed(Pg(p)), Pg(p) \in Sheets,
         NEW scr \in {"wait", "connecting", "hidden"}, NEW tries \in Nat,
         NEW ph \in {"none", "attest", "register", "join", "rtc"},
         a = [Pg(p) EXCEPT !.scr = scr, !.ph = ph, !.tries = tries],
         Pg(p).ph = "rtc" => ph = "rtc", ph = "rtc" /\ Pg(p).ph # "rtc" => live.broken \/ ~Pg(Other(p)).conn,
         live' = Set(p, a)
  PROVE  LiveInv(live')
<1>1. a \in Sheets /\ a.scr = scr /\ a.ph = ph /\ a.conn = Pg(p).conn /\ a.games = Pg(p).games /\ a.again = Pg(p).again
      /\ a.m = Pg(p).m /\ a.b = Pg(p).b
  BY DEF Sheets
<1>2. QED
  BY <1>1, GoesOn DEF Unplayed

LEMMA SameIs ==
  ASSUME NEW a \in Sheets
  PROVE  /\ \A s : [a EXCEPT !.scr = s] = [a EXCEPT !.scr = s, !.ph = a.ph, !.tries = a.tries]
         /\ \A s : [a EXCEPT !.ph = s] = [a EXCEPT !.scr = a.scr, !.ph = s, !.tries = a.tries]
         /\ \A s : [a EXCEPT !.tries = s] = [a EXCEPT !.scr = a.scr, !.ph = a.ph, !.tries = s]
         /\ a.ph \in {"none", "attest", "register", "join", "rtc"} /\ a.tries \in Nat
  BY DEF Sheets

LEMMA HideStep == ASSUME LiveSetting, LiveInv(live), NEW p \in Pages, Hide(p) PROVE LiveInv(live')
<1>1. Pg(p) \in Sheets /\ ~Pg(p).conn /\ Unplayed(Pg(p))
  BY DEF Hide, LiveInv, SheetSound, InPlay, Pg
<1>2. live' = Set(p, [Pg(p) EXCEPT !.scr = "hidden", !.ph = Pg(p).ph, !.tries = Pg(p).tries])
  BY <1>1, SameIs DEF Hide
<1>3. QED
  BY <1>1, <1>2, SameIs, SameButFor

LEMMA OwnLinkStep == ASSUME LiveSetting, LiveInv(live), OwnLink PROVE LiveInv(live')
<1>1. Pg(1) \in Sheets /\ ~Pg(1).conn /\ Unplayed(Pg(1)) /\ 1 \in Pages
  BY Idle DEF OwnLink, Pages
<1>2. live' = Set(1, [Pg(1) EXCEPT !.scr = "wait", !.ph = Pg(1).ph, !.tries = Pg(1).tries])
  BY <1>1, SameIs DEF OwnLink
<1>3. QED
  BY <1>1, <1>2, SameIs, SameButFor

LEMMA FoundStep == ASSUME LiveSetting, LiveInv(live), Found PROVE LiveInv(live')
<1>1. Pg(1) \in Sheets /\ ~Pg(1).conn /\ Unplayed(Pg(1)) /\ 1 \in Pages /\ Pg(1).ph = "none"
      /\ Pg(1).scr \in {"wait", "connecting", "hidden"}
  BY Idle DEF Found, Waiting, Pages
<1>2. live' = Set(1, [Pg(1) EXCEPT !.scr = Pg(1).scr, !.ph = "attest", !.tries = Pg(1).tries])
  BY <1>1, SameIs DEF Found
<1>3. QED
  BY <1>1, <1>2, SameIs, SameButFor

LEMMA AttestStep == ASSUME LiveSetting, LiveInv(live), NEW p \in Pages, Attest(p) PROVE LiveInv(live')
<1>1. Pg(p) \in Sheets /\ ~Pg(p).conn /\ Unplayed(Pg(p)) /\ Pg(p).ph = "attest"
      /\ Pg(p).scr \in {"wait", "connecting", "hidden"}
  BY Idle DEF Attest
<1>2. live' = Set(p, [Pg(p) EXCEPT !.scr = Pg(p).scr, !.ph = "register", !.tries = Pg(p).tries])
  BY <1>1, SameIs DEF Attest
<1>3. QED
  BY <1>1, <1>2, SameIs, SameButFor

LEMMA RegisterStep == ASSUME LiveSetting, LiveInv(live), NEW p \in Pages, Register(p) PROVE LiveInv(live')
<1>1. Pg(p) \in Sheets /\ ~Pg(p).conn /\ Unplayed(Pg(p)) /\ Pg(p).ph = "register"
      /\ Pg(p).scr \in {"wait", "connecting", "hidden"}
  BY Idle DEF Register
<1>2. live' = Set(p, [Pg(p) EXCEPT !.scr = Pg(p).scr, !.ph = "join", !.tries = Pg(p).tries])
  BY <1>1, SameIs DEF Register
<1>3. QED
  BY <1>1, <1>2, SameIs, SameButFor

LEMMA JoinFailsStep == ASSUME LiveSetting, LiveInv(live), NEW p \in Pages, JoinFails(p) PROVE LiveInv(live')
<1>1. Pg(p) \in Sheets /\ ~Pg(p).conn /\ Unplayed(Pg(p)) /\ Pg(p).ph = "join"
      /\ Pg(p).scr \in {"wait", "connecting", "hidden"}
  BY Idle DEF JoinFails
<1>a. Pg(p).tries + 1 \in Nat
  BY <1>1 DEF Sheets
<1>2. live' = Set(p, [Pg(p) EXCEPT !.scr = Pg(p).scr, !.ph = Pg(p).ph, !.tries = Pg(p).tries + 1])
  BY <1>1, SameIs DEF JoinFails
<1>3. QED
  BY <1>1, <1>a, <1>2, SameIs, SameButFor

LEMMA JoinStep == ASSUME LiveSetting, LiveInv(live), NEW p \in Pages, Join(p) PROVE LiveInv(live')
<1>1. Pg(p) \in Sheets /\ ~Pg(p).conn /\ Unplayed(Pg(p)) /\ Pg(p).ph = "join"
      /\ Pg(p).scr \in {"wait", "connecting", "hidden"}
  BY Idle DEF Join
<1>2. live' = Set(p, [Pg(p) EXCEPT !.scr = Pg(p).scr, !.ph = "rtc", !.tries = Pg(p).tries])
  BY <1>1, SameIs DEF Join
<1>3. live.broken \/ ~Pg(Other(p)).conn
  BY <1>1, Two DEF LiveInv, Connected, Near, Pg
<1>4. QED
  BY <1>1, <1>2, <1>3, SameIs, SameButFor

LEMMA ExpireStep == ASSUME LiveSetting, LiveInv(live), Expire PROVE LiveInv(live')
<1>1. 1 \in Pages /\ LiveInv(CloseConn(live, 1, "msg"))
  BY CloseConnIs DEF Pages
<1>2. QED
  BY <1>1, TokenIs DEF Expire

LEMMA AcceptStep == ASSUME LiveSetting, LiveInv(live), Accept PROVE LiveInv(live')
<1> DEFINE a == [Page0 EXCEPT !.scr = "connecting", !.ph = "attest"]
           M == Set(2, a)
<1>1. Pg(2).scr \in {"off", "msg"} /\ ~Pg(2).conn /\ Pg(2).ph = "none" /\ 2 \in Pages /\ live \in Duels
  BY Idle DEF Accept, Pages, LiveInv
<1>2. a \in Sheets /\ a.scr = "connecting" /\ a.ph = "attest" /\ ~a.conn /\ ~a.m.cheat /\ Unplayed(a)
  BY Page0Is DEF Sheets, Unplayed
<1> HIDE DEF a
<1>3. SheetSound(live.kind, 2, a)
  BY <1>1, <1>2, BlankIs DEF InPlay
<1>4. M \in Duels /\ M.kind = live.kind /\ M.broken = live.broken /\ M.to = live.to
            /\ M.page[2] = a /\ M.page[Other(2)] = live.page[Other(2)]
  BY <1>1, <1>2, SetIs DEF Set
<1>5. live' = [M EXCEPT !.token = "joined"]
  BY DEF Accept, a
<1> HIDE DEF M
<1>6. LiveInv(M)
  BY <1>1, <1>2, <1>3, <1>4, SetupKeeps DEF Pg
<1>7. QED
  BY <1>5, <1>6, TokenIs

LEMMA ConnectFailsStep == ASSUME LiveSetting, LiveInv(live), NEW p \in Pages, ConnectFails(p) PROVE LiveInv(live')
  BY CloseConnIs DEF ConnectFails

LEMMA LeaveGameStep == ASSUME LiveSetting, LiveInv(live), NEW p \in Pages, LeaveGame(p) PROVE LiveInv(live')
  BY CloseConnIs DEF LeaveGame

LEMMA StallStep == ASSUME LiveSetting, LiveInv(live), NEW p \in Pages, Stall(p) PROVE LiveInv(live')
  BY CloseConnIs DEF Stall

LEMMA BreakStep == ASSUME LiveSetting, LiveInv(live), Break PROVE LiveInv(live')
<1> DEFINE to == [q \in Pages |-> <<>>]
<1>1. to \in [Pages -> Seq(Messages)] /\ \A q \in Pages : to[q] = <<>>
  OBVIOUS
<1>2. live' = [live EXCEPT !.broken = TRUE, !.to = to] /\ live \in Duels
  BY DEF Break, LiveInv
<1> HIDE DEF to
<1>3. live' \in Duels /\ live'.to = to /\ live'.page = live.page /\ live'.kind = live.kind /\ live'.broken = TRUE
  BY <1>1, <1>2 DEF Duels
<1>4. QED
  BY <1>1, <1>3 DEF LiveInv, Parted, LastWords

LEMMA LostStep == ASSUME LiveSetting, LiveInv(live), NEW p \in Pages, Lost(p) PROVE LiveInv(live')
<1> DEFINE a == Bare(Pg(p), "msg")
<1>1. live \in Duels /\ Pg(p) \in Sheets /\ ~Pg(p).m.cheat
  BY DEF LiveInv, SheetSound, Pg
<1>2. SheetSound(live.kind, p, a) /\ a \in Sheets /\ ~a.conn
  BY <1>1, BareIs
<1>3. live' = Set(p, a) /\ live.broken
  BY DEF Lost
<1> HIDE DEF a
<1>4. live' \in Duels /\ live'.kind = live.kind /\ live'.broken = live.broken /\ live'.to = live.to
            /\ live'.page[p] = a /\ live'.page[Other(p)] = live.page[Other(p)]
  BY <1>1, <1>2, <1>3, SetIs DEF Set
<1>5. QED
  BY <1>2, <1>3, <1>4, CloseKeeps

LEMMA ChannelOpensStep == ASSUME LiveSetting, LiveInv(live), NEW p \in Pages, ChannelOpens(p) PROVE LiveInv(live')
<1> DEFINE o == Other(p)
           c == Pg(p)
           b == Pg(o)
           scr == IF p = 1 THEN "here" ELSE "ready"
           a == [c EXCEPT !.ph = "none", !.conn = TRUE, !.scr = scr]
<1>1. o \in Pages /\ o # p /\ Other(o) = p /\ \A q \in Pages : q = p \/ q = o
  BY Two
<1>2. c \in Sheets /\ ~c.conn /\ Unplayed(c) /\ ~InPlay(c) /\ ~c.m.cheat /\ c.ph = "rtc" /\ ~live.broken /\ live \in Duels
  BY Idle DEF ChannelOpens, LiveInv, SheetSound, Pg
<1>3. Near(b)
  BY DEF ChannelOpens, Past, Near
<1>4. a \in Sheets /\ a.scr = scr /\ a.ph = "none" /\ a.conn /\ Unplayed(a) /\ ~a.m.cheat /\ ~InPlay(a) /\ ~a.again[1]
  <2>1. scr \in {"here", "ready"}
    OBVIOUS
  <2> HIDE DEF scr, c
  <2>2. a \in Sheets /\ a.scr = scr /\ a.ph = "none" /\ a.conn = TRUE /\ a.m = c.m /\ a.b = c.b /\ a.games = c.games
        /\ a.again = c.again
    BY <1>2, <2>1 DEF Sheets
  <2>3. c.again = <<FALSE, FALSE>>
    BY <1>2 DEF Unplayed
  <2> HIDE DEF a
  <2>4. QED
    BY <1>2, <2>1, <2>2, <2>3 DEF Unplayed, InPlay
<1>5. live' = Set(p, a)
  BY DEF ChannelOpens
<1>6. live' \in Duels /\ live'.kind = live.kind /\ live'.broken = live.broken /\ live'.to = live.to
      /\ live'.page[p] = a /\ live'.page[o] = b
  BY <1>2, <1>4, <1>5, SetIs DEF Set, Pg
<1>7. SheetSound(live.kind, p, a)
  <2> HIDE DEF a
  <2>1. QED
    BY <1>4 DEF SheetSound
<1>8. Joint(live)
  BY <1>1, <1>2, <1>3 DEF LiveInv, Connected, Near, Pg
<1> HIDE DEF o, a, b, c
<1>9. c = live.page[p] /\ b = live.page[o] /\ live.kind \in {"rps", "ball"}
  BY <1>2 DEF c, b, Pg, Duels
<1>10. Joint(live')
  <2>1. CASE live.kind = "rps"
    <3>1. Heard(p, c, b, live.to[p]) /\ Heard(o, b, c, live.to[o])
      BY <1>8, <1>9, <2>1, JointIs DEF o
    <3>2. Heard(p, a, b, live.to[p]) /\ Heard(o, b, a, live.to[o])
      BY <3>1, <1>1, <1>2, <1>4, OutOfPlay
    <3>3. QED
      BY <3>2, <1>6, <2>1, JointIs DEF o
  <2>2. CASE live.kind = "ball"
    <3>1. OneRally(p, c, b, live.to[p], live.to[o])
      BY <1>8, <1>9, <2>2, JointIs DEF o
    <3>2. OneRally(p, a, b, live.to[p], live.to[o])
      BY <3>1, <1>2, <1>4, OutOfPlay
    <3>3. QED
      BY <3>2, <1>6, <2>2, JointIs DEF o
  <2>3. QED
    BY <2>1, <2>2, <1>9
<1>11. Connected(live')
  BY <1>1, <1>3, <1>4, <1>6, <1>10 DEF Connected, Near, o
<1>12. QED
  BY <1>1, <1>2, <1>6, <1>7, <1>9, <1>11 DEF LiveInv

-----------------------------------------------------------------------------
(* A game begins. *)

LEMMA FreshIs ==
  ASSUME LiveSetting, NEW k \in {"rps", "ball"}, NEW p \in Pages, NEW c \in Sheets, c.conn, c.ph = "none",
         NEW serving \in BOOLEAN, NEW a, a = Fresh(c, k, serving)
  PROVE  /\ a \in Sheets /\ SheetSound(k, p, a) /\ a.conn /\ a.games = c.games /\ InPlay(a) /\ a.scr = "play"
         /\ Starts(a) /\ a.m = Match(c.games) /\ a.b = Rally(serving) /\ Opens(a)
         /\ ~a.again[1] /\ ~a.again[2]
<1>1. Match(c.games) \in Matches /\ Rally(serving) \in Rallies
  BY DEF Match, Rally, Matches, Rallies, NoHand, Scores, Sheets
<1>2. a \in Sheets /\ a.scr = "play" /\ a.again = <<FALSE, FALSE>> /\ a.m = Match(c.games) /\ a.b = Rally(serving)
      /\ a.conn /\ a.games = c.games /\ a.ph = "none"
  BY <1>1 DEF Fresh, Sheets
<1>3. Starts(a) /\ Opens(a) /\ InPlay(a) /\ ~a.again[1] /\ ~a.again[2]
  BY <1>2 DEF Starts, Opens, InPlay, Match, Rally
<1>4. ~IsOver(<<0, 0>>)
  BY DEF IsOver, LiveSetting
<1>5. MatchSound(a)
  BY <1>2, <1>4 DEF MatchSound, Match, NoHand
<1>6. RallySound(a)
  BY <1>2, <1>4 DEF RallySound, Rally
<1>7. ~a.m.cheat
  BY <1>2 DEF Match
<1>8. QED
  BY <1>2, <1>3, <1>5, <1>6, <1>7 DEF SheetSound

\* What is said in a game is one of the messages.
LEMMA MessagesAre ==
  /\ GO \in Messages /\ AG \in Messages /\ AGAIN \in Messages /\ MISS \in Messages /\ HIT \in Messages
  /\ \A n \in Nat : SERVE(n) \in Messages /\ \A h \in Hands : HAND(n, h) \in Messages
  /\ \A m \in Matches : m.mine # NoHand => SEAL(m) \in Messages
<1>1. ASSUME NEW m \in Matches, m.mine # NoHand PROVE SEAL(m) \in Messages
  <2>1. m.round \in Nat /\ m.game \in Nat /\ m.mine \in Hands
    BY <1>1 DEF Matches
  <2>2. Seal(m.game, m.round, m.mine) \in SealSet
    BY <2>1 DEF Seal, SealSet
  <2>3. QED
    BY <2>1, <2>2 DEF SEAL, Messages
<1>2. QED
  BY <1>1 DEF GO, AG, AGAIN, MISS, HIT, SERVE, HAND, Messages

LEMMA GreetingIs == \A k : Greeting(k) = (IF k = "rps" THEN <<AG>> ELSE <<>>) /\ Greeting(k) \in Seq(Messages)
  BY MessagesAre DEF Greeting, AG

LEMMA BeginIs ==
  ASSUME LiveSetting, NEW L \in Duels, NEW p \in Pages, NEW c \in Sheets, c.conn, c.ph = "none", NEW x, NEW out \in Seq(Messages),
         NEW M, Acted(L, M, p, c, x, out), NEW serving \in BOOLEAN, NEW a, a = Fresh(c, L.kind, serving)
  PROVE  /\ Acted(L, BeginGame(M, p, serving), p, a, x, out \o Greeting(L.kind))
         /\ a \in Sheets /\ SheetSound(L.kind, p, a) /\ a.conn /\ a.games = c.games /\ InPlay(a) /\ a.scr = "play"
         /\ Starts(a) /\ a.m = Match(c.games) /\ a.b = Rally(serving) /\ Opens(a)
         /\ ~a.again[1] /\ ~a.again[2]
<1>1. L.kind \in {"rps", "ball"} /\ M \in Duels /\ M.kind = L.kind /\ M.page[p] = c
  BY DEF Duels, Acted
<1>2. /\ a \in Sheets /\ SheetSound(L.kind, p, a) /\ a.conn /\ a.games = c.games /\ InPlay(a) /\ a.scr = "play"
      /\ Starts(a) /\ a.m = Match(c.games) /\ a.b = Rally(serving) /\ Opens(a)
      /\ ~a.again[1] /\ ~a.again[2]
  BY <1>1, FreshIs
<1>3. [M EXCEPT !.page[p] = Fresh(@, M.kind, serving)] = [M EXCEPT !.page[p] = a]
  BY <1>1 DEF Duels
<1>4. BeginGame(M, p, serving) = Sent([M EXCEPT !.page[p] = a], p, Greeting(L.kind))
  BY <1>1, <1>3 DEF BeginGame
<1>5. Acted(L, BeginGame(M, p, serving), p, a, x, out \o Greeting(L.kind))
  BY <1>2, <1>4, GreetingIs, SentOn
<1>6. QED
  BY <1>2, <1>5

LEMMA Plays == ASSUME NEW a PROVE (Opens(a) => InPlay(a)) /\ (Starts(a) => InPlay(a))
  BY DEF Opens, Starts, InPlay

LEMMA SameSet == ASSUME NEW L \in Duels, NEW p \in Pages PROVE [L EXCEPT !.page[p] = L.page[p]] = L
  BY DEF Duels

LEMMA HeedsHands ==
  ASSUME NEW p, NEW o, o = Other(p), NEW c, NEW a, NEW z, NEW x, NEW out,
         \A b : SheetSound("rps", o, b) /\ Heard(p, c, b, z) =>
           Heard(p, a, b, x) /\ \A y \in Seq(Messages) : Heard(o, b, c, y) => Heard(o, b, a, y \o out)
  PROVE  Heeded("rps", p, c, a, z, x, out)
  BY Zenon DEF Heeded

LEMMA HeedsBalls ==
  ASSUME NEW p, NEW o, o = Other(p), NEW c, NEW a, NEW z, NEW x, NEW out,
         \A b, y : SheetSound("ball", o, b) /\ y \in Seq(Messages) /\ OneRally(p, c, b, z, y) => OneRally(p, a, b, x, y \o out)
  PROVE  Heeded("ball", p, c, a, z, x, out)
<1>1. "ball" # "rps"
  OBVIOUS
<1>2. QED
  BY <1>1, Zenon DEF Heeded

\* The inviter starts the game.
LEMMA StartHeeded ==
  ASSUME NEW k \in {"rps", "ball"}, NEW c, ~InPlay(c), NEW a \in Sheets, Starts(a), Opens(a), InPlay(a), a.games = 0,
         a.m = Match(0), NEW serving, serving = TRUE, a.b = Rally(serving), NEW z
  PROVE  Heeded(k, 1, c, a, z, z, <<GO>> \o Greeting(k))
<1>1. CASE k = "rps"
  <2>1. ASSUME NEW b, Heard(1, c, b, z)
        PROVE  Heard(1, a, b, z) /\ \A y \in Seq(Messages) : Heard(2, b, c, y) => Heard(2, b, a, y \o <<GO, AG>>)
    <3>1. ~InPlay(b) /\ z = <<>>
      BY <2>1 DEF Heard, GameToCome
    <3>2. Heard(1, a, b, z)
      BY <3>1 DEF Heard, GameToCome
    <3>3. ASSUME NEW y \in Seq(Messages), Heard(2, b, c, y) PROVE Heard(2, b, a, y \o <<GO, AG>>)
      <4>1. y = <<>>
        BY <3>1, <3>3 DEF Heard, GameToCome, Starts, InPlay
      <4>2. y \o <<GO, AG>> = <<GO, AG>>
        BY <4>1, Joining, MessagesAre
      <4>3. a.m.mine = NoHand
        BY DEF Match
      <4>4. QED
        BY <3>1, <4>2, <4>3 DEF Heard, GameToCome
    <3>4. QED
      BY <3>2, <3>3
  <2>2. <<GO>> \o Greeting(k) = <<GO, AG>>
    BY <1>1, GreetingIs, Joining, MessagesAre
  <2>3. QED
    BY <1>1, <2>1, <2>2, Two, HeedsHands
<1>2. CASE k = "ball"
  <2>1. ASSUME NEW b, NEW y \in Seq(Messages), OneRally(1, c, b, z, y) PROVE OneRally(1, a, b, z, y \o <<GO>>)
    <3>1. ~InPlay(b) /\ z = <<>> /\ y = <<>>
      <4>1. ~Opens(c) /\ 1 # 2
        BY Plays
      <4>2. QED
        BY <2>1, <4>1 DEF OneRally, OpensFirst, OpensNext, SameBall, Paired
    <3>2. y \o <<GO>> = <<GO>>
      BY <3>1, Joining, MessagesAre
    <3>3. a.b.serving /\ a.b.ball = "none"
      BY DEF Rally
    <3>4. OpensFirst(b, a, <<GO>>, z)
      BY <3>1, <3>3 DEF OpensFirst
    <3>5. QED
      BY <3>2, <3>4 DEF OneRally
  <2>2. <<GO>> \o Greeting(k) = <<GO>>
    <3>1. Greeting(k) = <<>>
      BY <1>2, GreetingIs
    <3>2. QED
      BY <3>1, Nothing, MessagesAre
  <2>3. QED
    BY <1>2, <2>1, <2>2, Two, HeedsBalls
<1>3. QED
  BY <1>1, <1>2

LEMMA StartStep == ASSUME LiveSetting, LiveInv(live), Start PROVE LiveInv(live')
<1>0. PICK serving \in BOOLEAN : serving = TRUE
  OBVIOUS
<1> DEFINE c == Pg(1)
           a == Fresh(c, live.kind, serving)
           M == Sent(live, 1, <<GO>>)
           out == <<GO>> \o Greeting(live.kind)
<1>1. live \in Duels /\ 1 \in Pages /\ live.kind \in {"rps", "ball"} /\ c \in Sheets /\ c = live.page[1]
  BY DEF LiveInv, Duels, Pages, Pg
<1>2. c.conn /\ c.ph = "none" /\ ~InPlay(c) /\ c.games = 0
  BY <1>1 DEF LiveInv, SheetSound, Start, Pg, InPlay, Unplayed
<1> HIDE DEF c
<1>3. Acted(live, M, 1, c, live.to[1], <<GO>>)
  <2>1. <<GO>> \in Seq(Messages) /\ [live EXCEPT !.page[1] = c] = live
    BY <1>1, SameSet, MessagesAre
  <2>2. Acted(live, Sent([live EXCEPT !.page[1] = c], 1, <<GO>>), 1, c, live.to[1], <<GO>>)
    BY <1>1, <2>1, SentIs
  <2>3. QED
    BY <2>1, <2>2
<1>4. live' = BeginGame(M, 1, serving)
  <2>1. live' = BeginGame(M, 1, TRUE)
    BY DEF Start, GO
  <2>2. QED
    BY <2>1, <1>0
<1>5. /\ Acted(live, live', 1, a, live.to[1], out)
      /\ a \in Sheets /\ SheetSound(live.kind, 1, a) /\ a.conn /\ a.games = 0 /\ InPlay(a) /\ Starts(a) /\ Opens(a)
      /\ a.m = Match(0) /\ a.b = Rally(serving)
  <2>1. <<GO>> \in Seq(Messages)
    BY MessagesAre
  <2> HIDE DEF a, M
  <2>2. a = Fresh(c, live.kind, serving)
    BY DEF a
  <2>3. /\ Acted(live, BeginGame(M, 1, serving), 1, a, live.to[1], out)
        /\ a \in Sheets /\ SheetSound(live.kind, 1, a) /\ a.conn /\ a.games = c.games /\ InPlay(a) /\ Starts(a) /\ Opens(a)
        /\ a.m = Match(c.games) /\ a.b = Rally(serving)
    <3>1. live.kind \in {"rps", "ball"} /\ 1 \in Pages /\ c \in Sheets /\ c.conn /\ c.ph = "none" /\ serving \in BOOLEAN
      BY <1>0, <1>1, <1>2
    <3>2. /\ a \in Sheets /\ SheetSound(live.kind, 1, a) /\ a.conn /\ a.games = c.games /\ InPlay(a) /\ Starts(a) /\ Opens(a)
          /\ a.m = Match(c.games) /\ a.b = Rally(serving)
      BY <3>1, <2>2, FreshIs
    <3>3. Acted(live, BeginGame(M, 1, serving), 1, a, live.to[1], <<GO>> \o Greeting(live.kind))
      BY <3>1, <1>1, <1>3, <2>1, <2>2, BeginIs
    <3>4. QED
      BY <3>2, <3>3
  <2>4. QED
    BY <1>2, <1>4, <2>3
<1> HIDE DEF a, out
<1>6. Heeded(live.kind, 1, c, a, live.to[1], live.to[1], out)
  BY <1>0, <1>1, <1>2, <1>5, StartHeeded DEF out
<1>7. QED
  BY <1>1, <1>2, <1>5, <1>6, PlayKeeps

-----------------------------------------------------------------------------
(* What comes next, when there is something on the way. *)

LEMMA Short ==
  ASSUME NEW u, NEW v, NEW w
  PROVE  /\ Head(<<u>>) = u /\ Head(<<u, v>>) = u /\ Head(<<u, v, w>>) = u
         /\ Tail(<<u>>) = <<>> /\ Tail(<<u, v>>) = <<v>> /\ Tail(<<u, v, w>>) = <<v, w>>
         /\ <<u>> # <<>> /\ <<u, v>> # <<>> /\ <<u, v, w>> # <<>>
         /\ <<>> \o <<u>> = <<u>> /\ <<>> \o <<u, v>> = <<u, v>>
         /\ <<u>> \o <<v>> = <<u, v>> /\ <<u>> \o <<v, w>> = <<u, v, w>> /\ <<u, v>> \o <<w>> = <<u, v, w>>
         /\ <<>> \o <<>> = <<>> /\ <<u>> \o <<>> = <<u>> /\ <<u, v>> \o <<>> = <<u, v>> /\ <<u, v, w>> \o <<>> = <<u, v, w>>
<1> DEFINE S == {u, v, w}
<1>1. u \in S /\ v \in S /\ w \in S
  OBVIOUS
<1> HIDE DEF S
<1>2. QED
  BY <1>1, Joining, Taking, Nothing

LEMMA Tags ==
  /\ GO.t = "go" /\ AG.t = "ag" /\ AGAIN.t = "again" /\ MISS.t = "miss" /\ HIT.t = "hit"
  /\ \A n : SERVE(n).t = "serve" /\ SERVE(n).n = n
  /\ \A m : SEAL(m).t = "c" /\ SEAL(m).n = m.round /\ SEAL(m).h = Seal(m.game, m.round, m.mine)
  /\ \A n, h : HAND(n, h).t = "r" /\ HAND(n, h).n = n /\ HAND(n, h).h = h
  BY DEF GO, AG, AGAIN, MISS, HIT, SERVE, SEAL, HAND

\* a and b are in one game.
OneGame(a, b) == InPlay(a) /\ InPlay(b) /\ a.games = b.games
\* What next message x says to a, and what comes after it.
SaysGo(p, a, b, rest) ==
  /\ p = 2 /\ ~InPlay(a) /\ Starts(b) /\ b.games = 0
  /\ \/ b.m.mine = NoHand /\ rest = <<AG>>
     \/ b.m.mine # NoHand /\ rest = <<AG, SEAL(b.m)>>
SaysAgain(a, b, rest) ==
  \/ /\ OneGame(a, b) /\ SameRound(a, b, <<AGAIN>>) /\ a.m.theirs = <<>> /\ b.m.mine = NoHand
     /\ b.again[1] /\ ~a.again[2] /\ rest = <<>>
  \/ /\ InPlay(a) /\ InPlay(b) /\ b.games = a.games + 1 /\ a.again[1] /\ ~a.again[2] /\ Starts(b)
     /\ \/ b.m.mine = NoHand /\ rest = <<AG>>
        \/ b.m.mine # NoHand /\ rest = <<AG, SEAL(b.m)>>
SaysSeal(a, b, rest) ==
  /\ OneGame(a, b) /\ a.m.theirs = <<>> /\ b.m.mine # NoHand
  /\ \/ ~b.m.sent /\ rest = <<>> /\ SameRound(a, b, <<SEAL(b.m)>>)
     \/ b.m.sent /\ rest = <<HAND(b.m.round, b.m.mine)>> /\ SameRound(a, b, <<SEAL(b.m), HAND(b.m.round, b.m.mine)>>)
SaysHand(a, b, rest) ==
  /\ OneGame(a, b) /\ SameRound(a, b, <<HAND(b.m.round, b.m.mine)>>)
  /\ a.m.theirs = Seal(a.m.game, a.m.round, b.m.mine) /\ b.m.mine # NoHand /\ b.m.sent /\ rest = <<>>
SaysHandBefore(a, b, rest) ==
  /\ OneGame(a, b) /\ b.m.round = a.m.round + 1 /\ a.m.sent /\ b.m.theirs = <<>> /\ ~a.again[2]
  /\ Mirrored(RoundOver(a.m, a.m.theirs[3]).score, b.m.score)
  /\ \/ b.m.mine = NoHand /\ ~b.again[1] /\ rest = <<>>
     \/ b.m.mine = NoHand /\ b.again[1] /\ rest = <<AGAIN>>
     \/ b.m.mine # NoHand /\ rest = <<SEAL(b.m)>>

\* What a page of the hand game knows by itself.
LEMMA Plain ==
  ASSUME LiveSetting, NEW q, NEW b, SheetSound("rps", q, b)
  PROVE  /\ b \in Sheets /\ b.m \in Matches /\ b.games \in Nat
         /\ b.m.sent => b.m.mine # NoHand /\ b.m.theirs # <<>>
         /\ b.m.round = 0 => ~b.again[1]
         /\ b.again[1] => InPlay(b) /\ ~b.again[2] /\ b.m.mine = NoHand /\ b.m.theirs = <<>> /\ ~b.m.sent /\ b.m.done
         /\ InPlay(b) => MatchSound(b)
         /\ b.m.done => b.m.mine = NoHand /\ b.m.theirs = <<>>
         /\ ~InPlay(b) => Unplayed(b)
<1>1. b \in Sheets /\ b.m \in Matches /\ b.games \in Nat
  BY DEF SheetSound, Sheets
<1>2. ~IsOver(<<0, 0>>)
  BY DEF LiveSetting, IsOver
<1>3. CASE InPlay(b)
  <2>1. MatchSound(b)
    BY <1>3 DEF SheetSound
  <2>2. b.again[1] => b.scr = "end" /\ ~b.again[2]
    BY DEF SheetSound
  <2>3. QED
    BY <1>1, <1>2, <1>3, <2>1, <2>2 DEF MatchSound
<1>4. CASE ~InPlay(b)
  <2>1. Unplayed(b)
    BY <1>4 DEF SheetSound, InPlay
  <2>2. QED
    BY <1>1, <1>4, <2>1 DEF Unplayed, Match
<1>5. QED
  BY <1>3, <1>4

NextWord(p, a, b, x, rest) ==
  \/ x = GO /\ SaysGo(p, a, b, rest)
  \/ x = AG /\ OneGame(a, b) /\ SameRound(a, b, rest)
  \/ x = AGAIN /\ SaysAgain(a, b, rest)
  \/ x = SEAL(b.m) /\ SaysSeal(a, b, rest)
  \/ x = HAND(b.m.round, b.m.mine) /\ SaysHand(a, b, rest)
  \/ x = HAND(a.m.round, a.m.theirs[3]) /\ SaysHandBefore(a, b, rest)

LEMMA HeadIs ==
  ASSUME LiveSetting, NEW p, NEW q, NEW a, NEW b, SheetSound("rps", q, b), NEW z, z # <<>>, Heard(p, a, b, z),
         NEW x, NEW rest, x = Head(z), rest = Tail(z)
  PROVE  NextWord(p, a, b, x, rest)
<1> USE DEF NextWord
<1>a. (b.m.sent => b.m.mine # NoHand) /\ (b.m.round = 0 => ~b.again[1])
  BY Plain
<1>1. CASE GameToCome(p, a, b, z)
  <2>1. /\ p = 2 /\ ~InPlay(a) /\ Starts(b) /\ b.games = 0
        /\ \/ b.m.mine = NoHand /\ z = <<GO, AG>>
           \/ b.m.mine # NoHand /\ z = <<GO, AG, SEAL(b.m)>>
    BY <1>1 DEF GameToCome
  <2>2. CASE z = <<GO, AG>>
    <3>1. x = GO /\ rest = <<AG>>
      BY <2>2, Short
    <3>2. CASE b.m.mine = NoHand
      BY <2>1, <3>1, <3>2 DEF SaysGo
    <3>3. CASE b.m.mine # NoHand
      <4>1. z = <<GO, AG, SEAL(b.m)>>
        BY <2>1, <3>3
      <4>2. rest = <<AG, SEAL(b.m)>>
        BY <4>1, Short
      <4>3. QED
        BY <2>1, <3>1, <3>3, <4>2 DEF SaysGo
    <3>4. QED
      BY <3>2, <3>3
  <2>3. CASE z = <<GO, AG, SEAL(b.m)>> /\ b.m.mine # NoHand
    <3>1. x = GO /\ rest = <<AG, SEAL(b.m)>>
      BY <2>3, Short
    <3>2. QED
      BY <2>1, <2>3, <3>1 DEF SaysGo
  <2>4. QED
    BY <2>1, <2>2, <2>3
<1>2. CASE OneGame(a, b) /\ SameRound(a, b, z)
  <2> DEFINE c == SEAL(b.m)
             r == HAND(b.m.round, b.m.mine)
             alike == /\ b.m.round = a.m.round /\ Mirrored(a.m.score, b.m.score)
                      /\ a.again[2] => b.again[1]
                      /\ b.m.sent => a.m.mine # NoHand /\ b.m.theirs = Seal(b.m.game, b.m.round, a.m.mine)
             sealed == a.m.theirs = Seal(a.m.game, a.m.round, b.m.mine)
  <2>a. alike
    BY <1>a, <1>2 DEF SameRound
  <2> HIDE DEF alike
  <2>1. /\ alike
        /\ \/ a.m.theirs = <<>> /\ b.m.mine = NoHand /\ AsksFor(a, b) /\ z = <<AGAIN>>
           \/ a.m.theirs = <<>> /\ b.m.mine # NoHand /\ ~b.m.sent /\ z = <<c>>
           \/ a.m.theirs = <<>> /\ b.m.sent /\ z = <<c, r>>
           \/ a.m.theirs = <<>> /\ a.m.round = 0 /\ b.m.mine = NoHand /\ z = <<AG>>
           \/ a.m.theirs = <<>> /\ a.m.round = 0 /\ b.m.mine # NoHand /\ ~b.m.sent /\ z = <<AG, c>>
           \/ a.m.theirs = <<>> /\ a.m.round = 0 /\ b.m.sent /\ z = <<AG, c, r>>
           \/ b.m.mine # NoHand /\ sealed /\ b.m.sent /\ z = <<r>>
    BY <1>a, <1>2, <2>a DEF SameRound
  <2> USE DEF alike
  <2>2. CASE a.m.theirs = <<>> /\ b.m.mine = NoHand /\ AsksFor(a, b) /\ z = <<AGAIN>>
    <3>1. x = AGAIN /\ rest = <<>>
      BY <2>2, Short
    <3>2. QED
      BY <1>2, <2>2, <3>1 DEF SaysAgain, AsksFor
  <2>3. CASE a.m.theirs = <<>> /\ b.m.mine # NoHand /\ ~b.m.sent /\ z = <<c>>
    <3>1. x = c /\ rest = <<>>
      BY <2>3, Short
    <3>2. QED
      BY <1>2, <2>3, <3>1 DEF SaysSeal
  <2>4. CASE a.m.theirs = <<>> /\ b.m.sent /\ z = <<c, r>>
    <3>1. x = c /\ rest = <<r>>
      BY <2>4, Short
    <3>2. QED
      BY <1>a, <1>2, <2>4, <3>1 DEF SaysSeal
  <2>5. CASE a.m.theirs = <<>> /\ a.m.round = 0 /\ b.m.mine = NoHand /\ z = <<AG>>
    <3>1. x = AG /\ rest = <<>>
      BY <2>5, Short
    <3>2. SameRound(a, b, <<>>)
      BY <1>a, <2>1, <2>5 DEF SameRound, AsksFor
    <3>3. QED
      BY <1>2, <3>1, <3>2
  <2>6. CASE a.m.theirs = <<>> /\ a.m.round = 0 /\ b.m.mine # NoHand /\ ~b.m.sent /\ z = <<AG, c>>
    <3>1. x = AG /\ rest = <<c>>
      BY <2>6, Short
    <3>2. SameRound(a, b, <<c>>)
      BY <2>1, <2>6 DEF SameRound
    <3>3. QED
      BY <1>2, <3>1, <3>2
  <2>7. CASE a.m.theirs = <<>> /\ a.m.round = 0 /\ b.m.sent /\ z = <<AG, c, r>>
    <3>1. x = AG /\ rest = <<c, r>>
      BY <2>7, Short
    <3>2. SameRound(a, b, <<c, r>>)
      BY <2>1, <2>7 DEF SameRound
    <3>3. QED
      BY <1>2, <3>1, <3>2
  <2>8. CASE b.m.mine # NoHand /\ sealed /\ b.m.sent /\ z = <<r>>
    <3>1. x = r /\ rest = <<>>
      BY <2>8, Short
    <3>2. QED
      BY <1>2, <2>8, <3>1 DEF SaysHand
  <2>9. QED
    BY <2>1, <2>2, <2>3, <2>4, <2>5, <2>6, <2>7, <2>8
<1>3. CASE OneGame(a, b) /\ RoundAfter(a, b, z)
  <2> DEFINE f == HAND(a.m.round, a.m.theirs[3])
  <2>1. /\ b.m.round = a.m.round + 1 /\ a.m.sent /\ b.m.theirs = <<>> /\ ~a.again[2]
        /\ Mirrored(RoundOver(a.m, a.m.theirs[3]).score, b.m.score)
        /\ \/ b.m.mine = NoHand /\ ~b.again[1] /\ z = <<f>>
           \/ b.m.mine = NoHand /\ b.again[1] /\ z = <<f, AGAIN>>
           \/ b.m.mine # NoHand /\ z = <<f, SEAL(b.m)>>
    BY <1>3 DEF RoundAfter
  <2>2. CASE b.m.mine = NoHand /\ ~b.again[1] /\ z = <<f>>
    <3>1. x = f /\ rest = <<>>
      BY <2>2, Short
    <3>2. QED
      BY <1>3, <2>1, <2>2, <3>1 DEF SaysHandBefore
  <2>3. CASE b.m.mine = NoHand /\ b.again[1] /\ z = <<f, AGAIN>>
    <3>1. x = f /\ rest = <<AGAIN>>
      BY <2>3, Short
    <3>2. QED
      BY <1>3, <2>1, <2>3, <3>1 DEF SaysHandBefore
  <2>4. CASE b.m.mine # NoHand /\ z = <<f, SEAL(b.m)>>
    <3>1. x = f /\ rest = <<SEAL(b.m)>>
      BY <2>4, Short
    <3>2. QED
      BY <1>3, <2>1, <2>4, <3>1 DEF SaysHandBefore
  <2>5. QED
    BY <2>1, <2>2, <2>3, <2>4
<1>4. CASE InPlay(a) /\ InPlay(b) /\ GameAfter(a, b, z)
  <2>1. /\ b.games = a.games + 1 /\ a.again[1] /\ ~a.again[2] /\ Starts(b)
        /\ \/ b.m.mine = NoHand /\ z = <<AGAIN, AG>>
           \/ b.m.mine # NoHand /\ z = <<AGAIN, AG, SEAL(b.m)>>
    BY <1>4 DEF GameAfter
  <2>2. CASE b.m.mine = NoHand /\ z = <<AGAIN, AG>>
    <3>1. x = AGAIN /\ rest = <<AG>>
      BY <2>2, Short
    <3>2. QED
      BY <1>4, <2>1, <2>2, <3>1 DEF SaysAgain
  <2>3. CASE b.m.mine # NoHand /\ z = <<AGAIN, AG, SEAL(b.m)>>
    <3>1. x = AGAIN /\ rest = <<AG, SEAL(b.m)>>
      BY <2>3, Short
    <3>2. QED
      BY <1>4, <2>1, <2>3, <3>1 DEF SaysAgain
  <2>4. QED
    BY <2>1, <2>2, <2>3
<1>5. QED
  BY <1>1, <1>2, <1>3, <1>4 DEF Heard, OneGame, RoundBefore, GameBefore

\* Each message says one thing.
LEMMA Means ==
  ASSUME LiveSetting, NEW p, NEW q, NEW a, NEW b, SheetSound("rps", q, b), NEW z, z # <<>>, Heard(p, a, b, z),
         NEW x, NEW rest, x = Head(z), rest = Tail(z)
  PROVE  /\ x.t \in {"go", "ag", "again", "c", "r"}
         /\ x.t = "go" => SaysGo(p, a, b, rest)
         /\ x.t # "go" => OneGame(a, b) \/ SaysAgain(a, b, rest)
         /\ x.t = "ag" => OneGame(a, b) /\ SameRound(a, b, rest)
         /\ x.t = "again" => SaysAgain(a, b, rest)
         /\ x.t = "c" => x = SEAL(b.m) /\ SaysSeal(a, b, rest)
         /\ x.t = "r" => \/ x = HAND(b.m.round, b.m.mine) /\ SaysHand(a, b, rest)
                         \/ x = HAND(a.m.round, a.m.theirs[3]) /\ SaysHandBefore(a, b, rest)
<1>1. NextWord(p, a, b, x, rest)
  BY HeadIs
<1>2. /\ SaysSeal(a, b, rest) => OneGame(a, b)
      /\ SaysHand(a, b, rest) => OneGame(a, b)
      /\ SaysHandBefore(a, b, rest) => OneGame(a, b)
  BY DEF SaysSeal, SaysHand, SaysHandBefore
<1>3. CASE x = GO /\ SaysGo(p, a, b, rest)
  BY <1>3, Tags
<1>4. CASE x = AG /\ OneGame(a, b) /\ SameRound(a, b, rest)
  BY <1>4, Tags
<1>5. CASE x = AGAIN /\ SaysAgain(a, b, rest)
  BY <1>5, Tags
<1>6. CASE x = SEAL(b.m) /\ SaysSeal(a, b, rest)
  <2>1. x.t = "c"
    BY <1>6, Tags
  <2>2. QED
    BY <1>2, <1>6, <2>1
<1>7. CASE x = HAND(b.m.round, b.m.mine) /\ SaysHand(a, b, rest)
  <2>1. x.t = "r"
    BY <1>7, Tags
  <2>2. QED
    BY <1>2, <1>7, <2>1
<1>8. CASE x = HAND(a.m.round, a.m.theirs[3]) /\ SaysHandBefore(a, b, rest)
  <2>1. x.t = "r"
    BY <1>8, Tags
  <2>2. QED
    BY <1>2, <1>8, <2>1
<1>9. QED
  BY <1>1, <1>3, <1>4, <1>5, <1>6, <1>7, <1>8 DEF NextWord

LEMMA Appended ==
  /\ \A u : <<>> \o <<u>> = <<u>>
  /\ \A u, v : <<u>> \o <<v>> = <<u, v>> /\ <<>> \o <<u, v>> = <<u, v>>
  /\ \A u, v, w : <<u, v>> \o <<w>> = <<u, v, w>> /\ <<u>> \o <<v, w>> = <<u, v, w>>
<1>1. ASSUME NEW u PROVE <<>> \o <<u>> = <<u>>
  BY Short
<1>2. ASSUME NEW u, NEW v PROVE <<u>> \o <<v>> = <<u, v>> /\ <<>> \o <<u, v>> = <<u, v>>
  BY Short
<1>3. ASSUME NEW u, NEW v, NEW w PROVE <<u, v>> \o <<w>> = <<u, v, w>> /\ <<u>> \o <<v, w>> = <<u, v, w>>
  <2> DEFINE S == {u, v, w}
  <2>1. u \in S /\ v \in S /\ w \in S
    OBVIOUS
  <2> HIDE DEF S
  <2>2. QED
    BY <2>1, Joining
<1>4. QED
  BY <1>1, <1>2, <1>3

\* Two pages of one game are in one round, or one round apart.
LEMMA OneGameIs ==
  ASSUME NEW p, NEW a, NEW b, NEW x, OneGame(a, b) \/ OneGame(b, a), a.games \in Nat, Heard(p, a, b, x)
  PROVE  SameRound(a, b, x) \/ RoundBefore(a, b, x) \/ RoundAfter(a, b, x)
<1>1. InPlay(a) /\ InPlay(b) /\ a.games = b.games /\ a.games # b.games + 1 /\ b.games # a.games + 1
  BY DEF OneGame
<1>2. QED
  BY <1>1 DEF Heard, GameToCome, GameAfter, GameBefore

\* The friend hears that the game starts.
LEMMA GoHeeded ==
  ASSUME LiveSetting, NEW c, ~InPlay(c), NEW z, z # <<>>, NEW x, x = Head(z), x.t = "go", NEW rest, rest = Tail(z),
         NEW a, Starts(a), InPlay(a), a.games = 0, a.m = Match(0), ~a.again[2]
  PROVE  Heeded("rps", 2, c, a, z, rest, <<AG>>)
<1>1. ASSUME NEW b, SheetSound("rps", 1, b), Heard(2, c, b, z)
      PROVE  Heard(2, a, b, rest) /\ \A y \in Seq(Messages) : Heard(1, b, c, y) => Heard(1, b, a, y \o <<AG>>)
  <2>1. SaysGo(2, c, b, rest)
    BY <1>1, Means
  <2>2. /\ Starts(b) /\ b.games = 0 /\ InPlay(b) /\ ~b.again[1] /\ ~b.again[2]
        /\ b.m.theirs = <<>> /\ b.m.round = 0 /\ b.m.score = <<0, 0>> /\ ~b.m.sent
    <3>1. Starts(b) /\ b.games = 0 /\ InPlay(b)
      BY <2>1, Plays DEF SaysGo
    <3>2. MatchSound(b)
      BY <1>1, <3>1, Plain
    <3>3. QED
      BY <3>1, <3>2 DEF Starts, MatchSound
  <2>3. a.m.mine = NoHand /\ ~a.m.sent /\ a.m.theirs = <<>> /\ a.m.round = 0 /\ a.m.score = <<0, 0>> /\ a.m.game = 0
    BY DEF Match
  <2>4. SameRound(a, b, rest)
    BY <2>1, <2>2, <2>3 DEF SameRound, SaysGo, Mirrored
  <2>5. SameRound(b, a, <<AG>>)
    BY <2>2, <2>3 DEF SameRound, Mirrored
  <2>6. ASSUME NEW y \in Seq(Messages), Heard(1, b, c, y) PROVE Heard(1, b, a, y \o <<AG>>)
    <3>1. y = <<>>
      BY <2>2, <2>6 DEF Heard, GameToCome
    <3>2. y \o <<AG>> = <<AG>>
      BY <3>1, Short
    <3>3. QED
      BY <2>2, <2>5, <3>2 DEF Heard
  <2>7. QED
    BY <2>2, <2>4, <2>6 DEF Heard
<1>2. Other(2) = 1
  BY Two
<1>3. QED
  BY <1>1, <1>2, HeedsHands

\* A greeting says nothing about the game.
LEMMA GreetingHeeded ==
  ASSUME LiveSetting, NEW p, NEW c, NEW z, z # <<>>, NEW x, x = Head(z), x.t = "ag", NEW rest, rest = Tail(z)
  PROVE  Heeded("rps", p, c, c, z, rest, <<>>)
<1> DEFINE o == Other(p)
<1> HIDE DEF o
<1>1. ASSUME NEW b, SheetSound("rps", o, b), Heard(p, c, b, z)
      PROVE  Heard(p, c, b, rest) /\ \A y \in Seq(Messages) : Heard(o, b, c, y) => Heard(o, b, c, y \o <<>>)
  <2>1. OneGame(c, b) /\ SameRound(c, b, rest)
    BY <1>1, Means
  <2>2. Heard(p, c, b, rest)
    BY <2>1 DEF Heard, OneGame
  <2>3. \A y \in Seq(Messages) : y \o <<>> = y
    BY Empty
  <2>4. QED
    BY <2>2, <2>3
<1>2. QED
  BY <1>1, HeedsHands DEF o

\* The other one wants to play again, and this page does not yet.
LEMMA AgainHeeded ==
  ASSUME LiveSetting, NEW p, NEW c, SheetSound("rps", p, c), NEW z, z # <<>>, NEW x, x = Head(z), x.t = "again", NEW rest, rest = Tail(z),
         ~c.again[1], NEW a, a.m = c.m, a.games = c.games, a.scr = c.scr, a.again[2], a.again[1] = c.again[1]
  PROVE  Heeded("rps", p, c, a, z, rest, <<>>)
<1> DEFINE o == Other(p)
<1> HIDE DEF o
<1>1. ASSUME NEW b, SheetSound("rps", o, b), Heard(p, c, b, z)
      PROVE  Heard(p, a, b, rest) /\ \A y \in Seq(Messages) : Heard(o, b, c, y) => Heard(o, b, a, y \o <<>>)
  <2>1. /\ OneGame(c, b) /\ SameRound(c, b, <<AGAIN>>) /\ c.m.theirs = <<>> /\ b.m.mine = NoHand
        /\ b.again[1] /\ ~c.again[2] /\ rest = <<>>
    <3>1. SaysAgain(c, b, rest)
      BY <1>1, Means
    <3>2. QED
      BY <3>1 DEF SaysAgain
  <2>2. InPlay(a) /\ InPlay(b) /\ a.games = b.games
    BY <2>1 DEF OneGame, InPlay
  <2>3. SameRound(a, b, rest)
    BY <2>1 DEF SameRound, AsksFor
  <2>4. ASSUME NEW y \in Seq(Messages), Heard(o, b, c, y) PROVE Heard(o, b, a, y)
    <3>1. SameRound(b, c, y) => SameRound(b, a, y)
      BY DEF SameRound, AsksFor
    <3>2. RoundBefore(b, c, y) => RoundBefore(b, a, y)
      BY DEF RoundBefore
    <3>3. RoundAfter(b, c, y) => RoundAfter(b, a, y)
      BY DEF RoundAfter
    <3>4. SameRound(b, c, y) \/ RoundBefore(b, c, y) \/ RoundAfter(b, c, y)
      <4>1. b.games \in Nat
        BY <1>1, Plain
      <4>2. QED
        BY <2>1, <2>4, <4>1, OneGameIs
    <3>5. QED
      BY <2>2, <3>1, <3>2, <3>3, <3>4 DEF Heard
  <2>5. \A y \in Seq(Messages) : y \o <<>> = y
    BY Empty
  <2>6. QED
    BY <2>2, <2>3, <2>4, <2>5 DEF Heard
<1>2. QED
  BY <1>1, HeedsHands DEF o

\* The other one wants to play again, as this page does.
LEMMA RematchHeeded ==
  ASSUME LiveSetting, NEW p, NEW c, SheetSound("rps", p, c), NEW z, z # <<>>, NEW x, x = Head(z), x.t = "again",
         NEW rest, rest = Tail(z), c.again[1], NEW a, Starts(a), InPlay(a), a.games = c.games + 1, a.m = Match(c.games + 1)
  PROVE  Heeded("rps", p, c, a, z, rest, <<AG>>)
<1> DEFINE o == Other(p)
<1> HIDE DEF o
<1>1. a.m.mine = NoHand /\ ~a.m.sent /\ a.m.theirs = <<>> /\ a.m.round = 0 /\ a.m.score = <<0, 0>> /\ a.m.game = a.games
      /\ ~a.again[1] /\ ~a.again[2]
  BY DEF Match, Starts
<1>2. /\ c.games \in Nat /\ InPlay(c) /\ c.m.mine = NoHand /\ c.m.theirs = <<>> /\ ~c.m.sent /\ c.m.round # 0
      /\ ~c.again[2]
  BY Plain
<1>3. ASSUME NEW b, SheetSound("rps", o, b), Heard(p, c, b, z)
      PROVE  Heard(p, a, b, rest) /\ \A y \in Seq(Messages) : Heard(o, b, c, y) => Heard(o, b, a, y \o <<AG>>)
  <2>1. SaysAgain(c, b, rest)
    BY <1>3, Means
  <2>2. CASE OneGame(c, b) /\ b.again[1] /\ rest = <<>>
    <3>1. /\ b.games = c.games /\ InPlay(b) /\ ~b.again[2] /\ b.m.mine = NoHand /\ b.m.theirs = <<>> /\ ~b.m.sent
          /\ b.m.round # 0
      BY <1>3, <2>2, Plain DEF OneGame
    <3>2. GameBefore(a, b, rest)
      BY <2>2, <3>1 DEF GameBefore
    <3>3. ASSUME NEW y \in Seq(Messages), Heard(o, b, c, y) PROVE Heard(o, b, a, y \o <<AG>>)
      <4>1. SameRound(b, c, y) \/ RoundBefore(b, c, y) \/ RoundAfter(b, c, y)
        BY <1>2, <2>2, <3>1, <3>3, OneGameIs
      <4>2. y = <<AGAIN>>
        BY <1>2, <3>1, <4>1 DEF SameRound, RoundBefore, RoundAfter, AsksFor, Seal
      <4>3. y \o <<AG>> = <<AGAIN, AG>>
        BY <4>2, Short
      <4>4. GameAfter(b, a, y \o <<AG>>)
        BY <1>1, <2>2, <3>1, <4>3 DEF GameAfter
      <4>5. QED
        BY <3>1, <4>4 DEF Heard
    <3>4. QED
      BY <3>1, <3>2, <3>3 DEF Heard
  <2>3. CASE /\ InPlay(b) /\ b.games = c.games + 1 /\ Starts(b)
             /\ \/ b.m.mine = NoHand /\ rest = <<AG>>
                \/ b.m.mine # NoHand /\ rest = <<AG, SEAL(b.m)>>
    <3>1. /\ b.m.theirs = <<>> /\ ~b.m.sent /\ b.m.round = 0 /\ b.m.score = <<0, 0>> /\ ~b.again[1] /\ ~b.again[2]
      <4>1. MatchSound(b)
        BY <1>3, <2>3, Plain
      <4>2. QED
        BY <2>3, <4>1 DEF MatchSound, Starts
    <3>2. SameRound(a, b, rest)
      BY <1>1, <2>3, <3>1 DEF SameRound, Mirrored
    <3>3. SameRound(b, a, <<AG>>)
      BY <1>1, <2>3, <3>1 DEF SameRound, Mirrored
    <3>4. ASSUME NEW y \in Seq(Messages), Heard(o, b, c, y) PROVE Heard(o, b, a, y \o <<AG>>)
      <4>1. y = <<>>
        BY <1>2, <2>3, <3>4 DEF Heard, GameToCome, GameBefore, GameAfter
      <4>2. y \o <<AG>> = <<AG>>
        BY <4>1, Short
      <4>3. QED
        BY <2>3, <3>3, <4>2 DEF Heard
    <3>5. QED
      BY <2>3, <3>2, <3>4 DEF Heard
  <2>4. QED
    BY <2>1, <2>2, <2>3 DEF SaysAgain
<1>4. QED
  BY <1>3, HeedsHands DEF o

\* The seal of the other one comes.
LEMMA SealHeeded ==
  ASSUME LiveSetting, NEW p, NEW c, SheetSound("rps", p, c), NEW z, z # <<>>, NEW x, x = Head(z), x.t = "c", NEW rest, rest = Tail(z),
         NEW a, a.games = c.games, a.again = c.again, a.scr = c.scr, a.m.game = c.m.game, a.m.round = c.m.round,
         a.m.score = c.m.score, a.m.mine = c.m.mine, a.m.theirs = x.h, a.m.sent <=> c.m.mine # NoHand,
         NEW out, out = IF c.m.mine # NoHand THEN <<HAND(c.m.round, c.m.mine)>> ELSE <<>>
  PROVE  Heeded("rps", p, c, a, z, rest, out)
<1> DEFINE o == Other(p)
<1> HIDE DEF o
<1>1. c.games \in Nat /\ (InPlay(c) => c.m.game = c.games) /\ (c.m.sent => c.m.theirs # <<>>)
  BY Plain DEF MatchSound
<1>2. ASSUME NEW b, SheetSound("rps", o, b), Heard(p, c, b, z)
      PROVE  Heard(p, a, b, rest) /\ \A y \in Seq(Messages) : Heard(o, b, c, y) => Heard(o, b, a, y \o out)
  <2>1. x = SEAL(b.m) /\ SaysSeal(c, b, rest)
    BY <1>2, Means
  <2>2. /\ OneGame(c, b) /\ InPlay(a) /\ InPlay(b) /\ a.games = b.games /\ c.m.theirs = <<>> /\ ~c.m.sent /\ b.m.mine # NoHand
        /\ b.m.round = c.m.round /\ Mirrored(c.m.score, b.m.score) /\ (c.again[2] => b.again[1])
        /\ (b.m.sent => c.m.mine # NoHand /\ b.m.theirs = Seal(b.m.game, b.m.round, c.m.mine))
        /\ \/ ~b.m.sent /\ rest = <<>>
           \/ b.m.sent /\ rest = <<HAND(b.m.round, b.m.mine)>>
    BY <1>1, <2>1 DEF SaysSeal, OneGame, InPlay, SameRound
  <2>3. b.m.game = b.games /\ c.m.game = c.games /\ b.games = c.games
    BY <1>1, <1>2, <2>2, Plain DEF MatchSound, OneGame
  <2>4. a.m.theirs = Seal(a.m.game, a.m.round, b.m.mine)
    BY <2>1, <2>2, <2>3, Tags
  <2>5. SameRound(a, b, rest)
    BY <2>2, <2>4 DEF SameRound
  <2>6. ASSUME NEW y \in Seq(Messages), Heard(o, b, c, y) PROVE Heard(o, b, a, y \o out)
    <3>1. b.m.round \in Nat
      BY <1>2, Plain DEF Matches
    <3>2. SameRound(b, c, y)
      <4>1. SameRound(b, c, y) \/ RoundBefore(b, c, y) \/ RoundAfter(b, c, y)
        BY <1>1, <2>2, <2>3, <2>6, OneGameIs
      <4>2. QED
        BY <2>2, <3>1, <4>1 DEF RoundBefore, RoundAfter
    <3>3. CASE c.m.mine = NoHand
      <4>1. y \o out = y
        BY <3>3, Empty
      <4>2. SameRound(b, a, y)
        BY <2>2, <3>2, <3>3 DEF SameRound, AsksFor
      <4>3. QED
        BY <2>2, <4>1, <4>2 DEF Heard
    <3>4. CASE c.m.mine # NoHand
      <4> DEFINE r == HAND(a.m.round, a.m.mine)
                 s == SEAL(a.m)
      <4>1. out = <<r>> /\ s = SEAL(c.m)
        BY <3>4 DEF SEAL
      <4> HIDE DEF r
      <4>2. \/ b.m.theirs = <<>> /\ y = <<s>>
            \/ b.m.theirs = <<>> /\ b.m.round = 0 /\ y = <<AG, s>>
            \/ b.m.theirs = Seal(b.m.game, b.m.round, c.m.mine) /\ y = <<>>
        BY <2>2, <3>2, <3>4, <4>1 DEF SameRound
      <4> HIDE DEF s
      <4>3. \/ b.m.theirs = <<>> /\ y \o out = <<s, r>>
            \/ b.m.theirs = <<>> /\ b.m.round = 0 /\ y \o out = <<AG, s, r>>
            \/ b.m.theirs = Seal(b.m.game, b.m.round, c.m.mine) /\ y \o out = <<r>>
        <5>1. <<AG, s>> \o <<r>> = <<AG, s, r>>
          BY Appended
        <5>2. CASE b.m.theirs = <<>> /\ y = <<s>>
          <6>1. <<s>> \o <<r>> = <<s, r>>
            BY Short
          <6>2. QED
            BY <4>1, <5>2, <6>1
        <5>3. CASE b.m.theirs = <<>> /\ b.m.round = 0 /\ y = <<AG, s>>
          BY <4>1, <5>1, <5>3
        <5>4. CASE b.m.theirs = Seal(b.m.game, b.m.round, c.m.mine) /\ y = <<>>
          <6>1. <<>> \o <<r>> = <<r>>
            BY Short
          <6>2. QED
            BY <4>1, <5>4, <6>1
        <5>5. QED
          BY <4>2, <5>2, <5>3, <5>4
      <4>4. /\ a.m.round = b.m.round /\ Mirrored(b.m.score, a.m.score) /\ (b.again[2] => a.again[1]) /\ a.m.sent
            /\ a.m.mine # NoHand
        BY <2>2, <3>2, <3>4 DEF SameRound
      <4>5. SameRound(b, a, y \o out)
        BY <2>2, <2>4, <3>4, <4>3, <4>4 DEF SameRound, r, s
      <4>6. QED
        BY <2>2, <4>5 DEF Heard
    <3>5. QED
      BY <3>3, <3>4
  <2>7. QED
    BY <2>2, <2>5, <2>6 DEF Heard
<1>3. QED
  BY <1>2, HeedsHands DEF o

-----------------------------------------------------------------------------
(* The round is over. *)

LEMMA OutcomeIs ==
  ASSUME NEW h \in Hands, NEW g \in Hands
  PROVE  Outcome(h, g) \in {-1, 0, 1} /\ Outcome(h, g) = 0 - Outcome(g, h)
  BY DEF Outcome, Hands

LEMMA RoundOverIs ==
  ASSUME NEW m \in Matches, NEW g \in Hands, m.mine \in Hands, NEW n, n = RoundOver(m, g)
  PROVE  /\ n \in Matches /\ n.game = m.game /\ n.round = m.round + 1 /\ n.mine = NoHand /\ n.theirs = <<>> /\ ~n.sent
         /\ n.done <=> IsOver(n.score)
         /\ n.cheat = m.cheat
         /\ n.score \in Scores
         /\ n.score = (IF Outcome(m.mine, g) = 1 THEN <<m.score[1] + 1, m.score[2]>>
                       ELSE IF Outcome(m.mine, g) = -1 THEN <<m.score[1], m.score[2] + 1>> ELSE m.score)
<1> DEFINE o == Outcome(m.mine, g)
           score == IF o > 0 THEN <<m.score[1] + 1, m.score[2]>>
                    ELSE IF o < 0 THEN <<m.score[1], m.score[2] + 1>> ELSE m.score
<1>1. o \in {-1, 0, 1}
  BY OutcomeIs
<1>2. m.score \in Scores /\ m.score[1] \in Nat /\ m.score[2] \in Nat
  BY DEF Matches, Scores
<1>3. score \in Scores
  <2> HIDE DEF o
  <2>1. QED
    BY <1>1, <1>2 DEF Scores
<1>4. n = [m EXCEPT !.score = score, !.round = @ + 1, !.mine = NoHand, !.theirs = <<>>, !.sent = FALSE,
                    !.done = IsOver(score)]
  BY DEF RoundOver
<1>5. score = (IF o = 1 THEN <<m.score[1] + 1, m.score[2]>>
               ELSE IF o = -1 THEN <<m.score[1], m.score[2] + 1>> ELSE m.score)
  BY <1>1
<1> HIDE DEF score
<1>6. IsOver(score) \in BOOLEAN /\ m.round + 1 \in Nat
  BY DEF IsOver, Matches
<1>7. n \in Matches /\ n.game = m.game /\ n.round = m.round + 1 /\ n.mine = NoHand /\ n.theirs = <<>> /\ n.sent = FALSE
      /\ n.score = score /\ n.done = IsOver(score) /\ n.cheat = m.cheat
  BY <1>3, <1>4, <1>6 DEF Matches
<1>8. QED
  BY <1>3, <1>5, <1>7

LEMMA RoundEnds ==
  ASSUME NEW m, m \in Matches, NEW g
  PROVE  /\ RoundOver(m, g).round = m.round + 1 /\ RoundOver(m, g).mine = NoHand /\ RoundOver(m, g).theirs = <<>>
         /\ ~RoundOver(m, g).sent /\ RoundOver(m, g).game = m.game /\ RoundOver(m, g).cheat = m.cheat
  BY DEF RoundOver, Matches

\* Both pages give the round to the same player.
LEMMA ScoresMirror ==
  ASSUME NEW m \in Matches, NEW w \in Matches, m.mine \in Hands, w.mine \in Hands, Mirrored(m.score, w.score)
  PROVE  Mirrored(RoundOver(m, w.mine).score, RoundOver(w, m.mine).score)
<1> DEFINE s == RoundOver(m, w.mine).score
           t == RoundOver(w, m.mine).score
           o == Outcome(m.mine, w.mine)
           u == Outcome(w.mine, m.mine)
<1>1. s = (IF o = 1 THEN <<m.score[1] + 1, m.score[2]>> ELSE IF o = -1 THEN <<m.score[1], m.score[2] + 1>> ELSE m.score)
  BY RoundOverIs
<1>2. t = (IF u = 1 THEN <<w.score[1] + 1, w.score[2]>> ELSE IF u = -1 THEN <<w.score[1], w.score[2] + 1>> ELSE w.score)
  BY RoundOverIs
<1>3. o \in {-1, 0, 1} /\ u = 0 - o
  BY OutcomeIs
<1> HIDE DEF s, t, o, u
<1>4. Mirrored(s, t)
  BY <1>1, <1>2, <1>3 DEF Mirrored
<1>5. QED
  BY <1>4 DEF s, t

\* A page that is given a hand has shown its own.
LEMMA HandComes ==
  ASSUME LiveSetting, NEW p, NEW q, NEW c, NEW b, SheetSound("rps", p, c), SheetSound("rps", q, b), OneGame(c, b), NEW x, NEW rest,
         \/ x = HAND(b.m.round, b.m.mine) /\ SaysHand(c, b, rest)
         \/ x = HAND(c.m.round, c.m.theirs[3]) /\ SaysHandBefore(c, b, rest)
  PROVE  /\ InPlay(c) /\ InPlay(b) /\ c.games = b.games /\ c.games \in Nat /\ c.m \in Matches /\ b.m \in Matches
         /\ c.m.game = c.games /\ b.m.game = c.games /\ c.m.sent /\ ~c.m.done /\ ~c.again[1]
         /\ c.m.mine \in Hands /\ c.m.theirs # <<>> /\ x.n = c.m.round /\ x.h = c.m.theirs[3] /\ x.h \in Hands
         /\ c.m.theirs = Seal(c.m.game, c.m.round, x.h)
<1>1. /\ InPlay(c) /\ InPlay(b) /\ c.games = b.games /\ c.games \in Nat /\ c.m \in Matches /\ b.m \in Matches
      /\ MatchSound(c) /\ MatchSound(b)
  BY Plain DEF OneGame
<1>2. c.m.game = c.games /\ b.m.game = c.games
  BY <1>1 DEF MatchSound
<1>3. c.m.sent /\ x.n = c.m.round /\ x.h = c.m.theirs[3]
  <2>1. CASE x = HAND(b.m.round, b.m.mine) /\ SaysHand(c, b, rest)
    <3>1. c.m.theirs = Seal(c.m.game, c.m.round, b.m.mine) /\ b.m.sent /\ b.m.round = c.m.round /\ c.m.mine # NoHand
      BY <2>1 DEF SaysHand, SameRound
    <3>2. c.m.theirs[3] = b.m.mine /\ c.m.theirs # <<>>
      BY <3>1 DEF Seal
    <3>3. QED
      BY <1>1, <2>1, <3>1, <3>2, Tags DEF MatchSound
  <2>2. CASE x = HAND(c.m.round, c.m.theirs[3]) /\ SaysHandBefore(c, b, rest)
    BY <2>2, Tags DEF SaysHandBefore
  <2>3. QED
    BY <2>1, <2>2
<1>4. c.m.mine # NoHand /\ c.m.theirs # <<>>
  BY <1>1, <1>3 DEF MatchSound
<1>5. ~c.m.done /\ c.m.theirs[3] \in Hands /\ c.m.theirs = Seal(c.m.game, c.m.round, c.m.theirs[3])
  BY <1>1, <1>4 DEF MatchSound
<1>6. ~c.again[1]
  BY <1>5, Plain
<1>7. c.m.mine \in Hands
  BY <1>1, <1>4 DEF Matches
<1>8. QED
  BY <1>1, <1>2, <1>3, <1>4, <1>5, <1>6, <1>7

LEMMA HandHeeded ==
  ASSUME LiveSetting, NEW p, NEW c, SheetSound("rps", p, c), NEW z, z # <<>>, NEW x, x = Head(z), x.t = "r", NEW rest, rest = Tail(z),
         NEW a, a.games = c.games, a.again = c.again, InPlay(a), a.m = RoundOver(c.m, x.h)
  PROVE  Heeded("rps", p, c, a, z, rest, <<>>)
<1> DEFINE o == Other(p)
<1> HIDE DEF o
<1>1. \A y \in Seq(Messages) : y \o <<>> = y
  BY Empty
<1>2. ASSUME NEW b, SheetSound("rps", o, b), Heard(p, c, b, z)
      PROVE  Heard(p, a, b, rest) /\ \A y \in Seq(Messages) : Heard(o, b, c, y) => Heard(o, b, a, y \o <<>>)
  <2>1. /\ OneGame(c, b)
        /\ \/ x = HAND(b.m.round, b.m.mine) /\ SaysHand(c, b, rest)
           \/ x = HAND(c.m.round, c.m.theirs[3]) /\ SaysHandBefore(c, b, rest)
    <3>1. \/ x = HAND(b.m.round, b.m.mine) /\ SaysHand(c, b, rest)
          \/ x = HAND(c.m.round, c.m.theirs[3]) /\ SaysHandBefore(c, b, rest)
      <4>1. NextWord(p, c, b, x, rest)
        BY <1>2, HeadIs
      <4>2. QED
        BY <4>1, Tags DEF NextWord
    <3>2. QED
      BY <3>1 DEF SaysHand, SaysHandBefore
  <2>2. /\ InPlay(c) /\ InPlay(b) /\ c.games = b.games /\ c.games \in Nat /\ c.m \in Matches /\ b.m \in Matches
        /\ c.m.game = c.games /\ b.m.game = c.games /\ c.m.sent /\ ~c.m.done /\ ~c.again[1]
        /\ c.m.mine \in Hands /\ c.m.theirs # <<>> /\ x.n = c.m.round /\ x.h = c.m.theirs[3] /\ x.h \in Hands
        /\ c.m.theirs = Seal(c.m.game, c.m.round, x.h)
    BY <1>2, <2>1, HandComes
  <2>3. a.m.round = c.m.round + 1 /\ a.m.mine = NoHand /\ a.m.theirs = <<>> /\ ~a.m.sent
    BY <2>2, RoundEnds
  <2>4. c.m.round \in Nat /\ b.m.round \in Nat /\ c.m.mine # NoHand
    BY <2>2 DEF Matches, Hands, NoHand
  <2>5. CASE x = HAND(b.m.round, b.m.mine) /\ SaysHand(c, b, rest)
    <3>1. /\ b.m.round = c.m.round /\ b.m.mine # NoHand /\ b.m.sent /\ rest = <<>> /\ Mirrored(c.m.score, b.m.score)
          /\ b.m.theirs = Seal(b.m.game, b.m.round, c.m.mine) /\ (c.again[2] => b.again[1]) /\ x.h = b.m.mine
      BY <2>5, Tags DEF SaysHand, SameRound
    <3>2. b.m.theirs[3] = c.m.mine /\ b.m.theirs # <<>> /\ b.m.mine \in Hands
      BY <2>2, <3>1 DEF Seal
    <3>3. ~c.again[2]
      BY <1>2, <3>1, Plain
    <3>4. Mirrored(a.m.score, RoundOver(b.m, b.m.theirs[3]).score) /\ Mirrored(RoundOver(b.m, b.m.theirs[3]).score, a.m.score)
      BY <2>2, <3>1, <3>2, ScoresMirror DEF Mirrored
    <3>5. RoundBefore(a, b, rest)
      BY <2>3, <3>1, <3>3, <3>4 DEF RoundBefore
    <3>6. ASSUME NEW y \in Seq(Messages), Heard(o, b, c, y) PROVE Heard(o, b, a, y)
      <4>1. SameRound(b, c, y)
        <5>1. SameRound(b, c, y) \/ RoundBefore(b, c, y) \/ RoundAfter(b, c, y)
          BY <2>1, <2>2, <3>6, OneGameIs
        <5>2. QED
          BY <2>4, <3>1, <5>1 DEF RoundBefore, RoundAfter
      <4>2. y = <<HAND(c.m.round, c.m.mine)>> /\ ~b.again[2]
        BY <2>2, <2>4, <3>2, <4>1 DEF SameRound
      <4>3. y = <<HAND(b.m.round, b.m.theirs[3])>>
        BY <3>1, <3>2, <4>2
      <4>4. RoundAfter(b, a, y)
        BY <2>2, <2>3, <3>1, <3>4, <4>2, <4>3 DEF RoundAfter
      <4>5. QED
        BY <2>2, <4>4 DEF Heard
    <3>7. QED
      BY <1>1, <2>2, <3>5, <3>6 DEF Heard
  <2>6. CASE x = HAND(c.m.round, c.m.theirs[3]) /\ SaysHandBefore(c, b, rest)
    <3>1. /\ b.m.round = c.m.round + 1 /\ b.m.theirs = <<>> /\ ~c.again[2] /\ Mirrored(a.m.score, b.m.score)
          /\ \/ b.m.mine = NoHand /\ ~b.again[1] /\ rest = <<>>
             \/ b.m.mine = NoHand /\ b.again[1] /\ rest = <<AGAIN>>
             \/ b.m.mine # NoHand /\ rest = <<SEAL(b.m)>>
      BY <2>2, <2>6 DEF SaysHandBefore
    <3>2. ~b.m.sent
      BY <1>2, <3>1, Plain
    <3>3. SameRound(a, b, rest)
      BY <2>3, <3>1, <3>2 DEF SameRound, AsksFor
    <3>4. ASSUME NEW y \in Seq(Messages), Heard(o, b, c, y) PROVE Heard(o, b, a, y)
      <4>1. RoundBefore(b, c, y)
        <5>1. SameRound(b, c, y) \/ RoundBefore(b, c, y) \/ RoundAfter(b, c, y)
          BY <2>1, <2>2, <3>4, OneGameIs
        <5>2. QED
          BY <2>4, <3>1, <5>1 DEF SameRound, RoundAfter
      <4>2. SameRound(b, a, y)
        BY <2>2, <2>3, <3>1, <4>1 DEF SameRound, RoundBefore, AsksFor, Mirrored
      <4>3. QED
        BY <2>2, <4>2 DEF Heard
    <3>5. QED
      BY <1>1, <2>2, <3>3, <3>4 DEF Heard
  <2>7. QED
    BY <2>1, <2>5, <2>6
<1>3. QED
  BY <1>2, HeedsHands DEF o

-----------------------------------------------------------------------------
(* What a player says. *)

LEMMA PickHeeded ==
  ASSUME LiveSetting, NEW p \in Pages, NEW c, SheetSound("rps", p, c), c.scr = "play", c.m.mine = NoHand, NEW z,
         NEW a, a.games = c.games, a.again = c.again, a.scr = c.scr, a.m.game = c.m.game, a.m.round = c.m.round,
         a.m.score = c.m.score, a.m.theirs = c.m.theirs, a.m.mine # NoHand, a.m.sent <=> c.m.theirs # <<>>,
         NEW out, out = IF c.m.theirs # <<>> THEN <<SEAL(a.m), HAND(a.m.round, a.m.mine)>> ELSE <<SEAL(a.m)>>
  PROVE  Heeded("rps", p, c, a, z, z, out)
<1> DEFINE o == Other(p)
           s == SEAL(a.m)
           r == HAND(a.m.round, a.m.mine)
<1>o. o = Other(p) /\ (p = 1 <=> o = 2) /\ (p = 2 <=> o = 1)
  BY Two
<1> HIDE DEF o
<1>1. InPlay(c) /\ InPlay(a) /\ c.games \in Nat /\ c.m \in Matches /\ c.m.game = c.games /\ ~c.m.sent /\ ~c.again[1]
  BY Plain DEF InPlay, MatchSound
<1>2. ASSUME NEW b, SheetSound("rps", o, b), Heard(p, c, b, z)
      PROVE  Heard(p, a, b, z) /\ \A y \in Seq(Messages) : Heard(o, b, c, y) => Heard(o, b, a, y \o out)
  <2>1. Heard(p, a, b, z)
    <3>1. SameRound(c, b, z) => SameRound(a, b, z)
      BY DEF SameRound, AsksFor
    <3>2. RoundBefore(c, b, z) => RoundBefore(a, b, z)
      BY DEF RoundBefore
    <3>3. ~RoundAfter(c, b, z)
      BY <1>1 DEF RoundAfter
    <3>4. ~GameAfter(c, b, z)
      BY <1>1 DEF GameAfter
    <3>5. GameBefore(c, b, z) => GameBefore(a, b, z)
      BY DEF GameBefore, Starts
    <3>6. GameToCome(p, c, b, z) => GameToCome(p, a, b, z)
      BY <1>1 DEF GameToCome, Starts
    <3>7. QED
      BY <1>1, <1>2, <3>1, <3>2, <3>3, <3>4, <3>5, <3>6 DEF Heard
  <2>2. ASSUME NEW y \in Seq(Messages), Heard(o, b, c, y) PROVE Heard(o, b, a, y \o out)
    <3>1. CASE GameToCome(o, b, c, y)
      <4>1. o = 2 /\ ~InPlay(b) /\ Starts(c) /\ c.games = 0 /\ y = <<GO, AG>>
        BY <1>1, <3>1 DEF GameToCome
      <4>2. Starts(a) /\ out = <<s>>
        BY <4>1 DEF Starts
      <4> HIDE DEF s
      <4>3. y \o out = <<GO, AG, s>>
        BY <4>1, <4>2, Appended
      <4>4. GameToCome(o, b, a, y \o out)
        BY <4>1, <4>2, <4>3 DEF GameToCome, s
      <4>5. QED
        BY <4>4 DEF Heard
    <3>2. CASE InPlay(b) /\ b.games = c.games /\ SameRound(b, c, y)
      <4>1. b.m.round = c.m.round /\ Mirrored(b.m.score, c.m.score) /\ (b.again[2] => a.again[1]) /\ b.m.theirs = <<>>
            /\ (y = <<>> \/ (y = <<AG>> /\ b.m.round = 0))
        <5>1. b.m.round = c.m.round /\ Mirrored(b.m.score, c.m.score) /\ (b.again[2] => c.again[1])
          BY <3>2 DEF SameRound
        <5>2. b.m.theirs = <<>> /\ (y = <<>> \/ (y = <<AG>> /\ b.m.round = 0))
          BY <1>1, <3>2 DEF SameRound, AsksFor
        <5>3. QED
          BY <5>1, <5>2
      <4>2. CASE c.m.theirs = <<>>
        <5>1. out = <<s>>
          BY <4>2
        <5> HIDE DEF s
        <5>2. \/ y \o out = <<s>>
              \/ y \o out = <<AG, s>> /\ b.m.round = 0
          BY <4>1, <5>1, Appended
        <5>3. SameRound(b, a, y \o out)
          BY <4>1, <4>2, <5>2 DEF SameRound, s
        <5>4. QED
          BY <1>1, <3>2, <5>3 DEF Heard
      <4>3. CASE c.m.theirs # <<>>
        <5>1. out = <<s, r>>
          BY <4>3
        <5>2. b.m.mine # NoHand /\ c.m.theirs = Seal(c.m.game, c.m.round, b.m.mine)
          <6>1. SameRound(c, b, z) \/ RoundBefore(c, b, z) \/ RoundAfter(c, b, z)
            <7>1. OneGame(c, b)
              BY <1>1, <3>2 DEF OneGame
            <7>2. QED
              BY <1>1, <1>2, <7>1, OneGameIs
          <6>2. c.m.round \in Nat
            BY <1>1 DEF Matches
          <6>3. SameRound(c, b, z)
            BY <4>1, <6>1, <6>2 DEF RoundBefore, RoundAfter
          <6>4. QED
            BY <4>3, <6>3 DEF SameRound
        <5> HIDE DEF s, r
        <5>3. \/ y \o out = <<s, r>>
              \/ y \o out = <<AG, s, r>> /\ b.m.round = 0
          <6>1. CASE y = <<>>
            BY <5>1, <6>1, Appended
          <6>2. CASE y = <<AG>> /\ b.m.round = 0
            BY <5>1, <6>2, Appended
          <6>3. QED
            BY <4>1, <6>1, <6>2
        <5>4. SameRound(b, a, y \o out)
          BY <4>1, <4>3, <5>2, <5>3 DEF SameRound, s, r
        <5>5. QED
          BY <1>1, <3>2, <5>4 DEF Heard
      <4>4. QED
        BY <4>2, <4>3
    <3>3. CASE InPlay(b) /\ b.games = c.games /\ RoundAfter(b, c, y)
      <4> DEFINE f == HAND(b.m.round, b.m.theirs[3])
      <4>1. y = <<f>> /\ out = <<s>>
        BY <1>1, <3>3 DEF RoundAfter
      <4> HIDE DEF s, f
      <4>2. y \o out = <<f, s>>
        BY <4>1, Appended
      <4>3. RoundAfter(b, a, y \o out)
        BY <3>3, <4>2 DEF RoundAfter, s, f
      <4>4. QED
        BY <1>1, <3>3, <4>3 DEF Heard
    <3>4. CASE InPlay(b) /\ GameAfter(b, c, y)
      <4>1. y = <<AGAIN, AG>> /\ out = <<s>> /\ Starts(a)
        BY <3>4 DEF GameAfter, Starts
      <4> HIDE DEF s
      <4>2. y \o out = <<AGAIN, AG, s>>
        BY <4>1, Appended
      <4>3. GameAfter(b, a, y \o out)
        BY <3>4, <4>1, <4>2 DEF GameAfter, s
      <4>4. QED
        BY <1>1, <3>4, <4>3 DEF Heard
    <3>5. QED
      BY <1>1, <2>2, <3>1, <3>2, <3>3, <3>4 DEF Heard, RoundBefore, GameBefore
  <2>3. QED
    BY <2>1, <2>2
<1>3. QED
  BY <1>2, HeedsHands DEF o

\* A player wants to play again, and the other one does not yet.
LEMMA AskHeeded ==
  ASSUME LiveSetting, NEW p, NEW c, SheetSound("rps", p, c), c.scr = "end", ~c.again[1], ~c.again[2], NEW z,
         NEW a, a.games = c.games, a.again[1], ~a.again[2], a.scr = c.scr, a.m = c.m
  PROVE  Heeded("rps", p, c, a, z, z, <<AGAIN>>)
<1> DEFINE o == Other(p)
<1> HIDE DEF o
<1>1. /\ InPlay(c) /\ InPlay(a) /\ c.games \in Nat /\ c.m.round # 0 /\ ~c.m.sent /\ c.m.mine = NoHand /\ c.m.theirs = <<>>
      /\ ~Starts(c)
  <2>1. InPlay(c) /\ InPlay(a) /\ ~Starts(c)
    BY DEF InPlay, Starts
  <2>2. MatchSound(c)
    BY <2>1, Plain
  <2>3. ~IsOver(<<0, 0>>)
    BY DEF IsOver, LiveSetting
  <2>4. QED
    BY <2>1, <2>2, <2>3, Plain DEF MatchSound
<1>2. ASSUME NEW b, SheetSound("rps", o, b), Heard(p, c, b, z)
      PROVE  Heard(p, a, b, z) /\ \A y \in Seq(Messages) : Heard(o, b, c, y) => Heard(o, b, a, y \o <<AGAIN>>)
  <2>1. InPlay(b) /\ b.games = c.games /\ (SameRound(c, b, z) \/ RoundBefore(c, b, z))
    BY <1>1, <1>2 DEF Heard, GameToCome, GameAfter, GameBefore, RoundAfter
  <2>2. Heard(p, a, b, z)
    <3>1. SameRound(c, b, z) => SameRound(a, b, z)
      BY DEF SameRound, AsksFor
    <3>2. RoundBefore(c, b, z) => RoundBefore(a, b, z)
      BY DEF RoundBefore
    <3>3. QED
      BY <1>1, <2>1, <3>1, <3>2 DEF Heard
  <2>3. ASSUME NEW y \in Seq(Messages), Heard(o, b, c, y) PROVE Heard(o, b, a, y \o <<AGAIN>>)
    <3>1. SameRound(b, c, y) \/ RoundBefore(b, c, y) \/ RoundAfter(b, c, y)
      <4>1. OneGame(c, b) /\ b.games \in Nat
        BY <1>1, <2>1 DEF OneGame
      <4>2. QED
        BY <2>3, <4>1, OneGameIs
    <3>2. CASE SameRound(b, c, y)
      <4>1. y = <<>> /\ ~b.again[2] /\ b.m.theirs = <<>>
        BY <1>1, <3>2 DEF SameRound, AsksFor
      <4>2. y \o <<AGAIN>> = <<AGAIN>>
        BY <4>1, Appended
      <4>3. SameRound(b, a, <<AGAIN>>)
        BY <1>1, <3>2, <4>1 DEF SameRound, AsksFor
      <4>4. QED
        BY <1>1, <2>1, <4>2, <4>3 DEF Heard
    <3>3. CASE RoundAfter(b, c, y)
      <4> DEFINE f == HAND(b.m.round, b.m.theirs[3])
      <4>1. y = <<f>>
        BY <1>1, <3>3 DEF RoundAfter
      <4> HIDE DEF f
      <4>2. y \o <<AGAIN>> = <<f, AGAIN>>
        BY <4>1, Appended
      <4>3. RoundAfter(b, a, y \o <<AGAIN>>)
        BY <1>1, <3>3, <4>2 DEF RoundAfter, f
      <4>4. QED
        BY <1>1, <2>1, <4>3 DEF Heard
    <3>4. QED
      BY <1>1, <3>1, <3>2, <3>3 DEF RoundBefore
  <2>4. QED
    BY <2>2, <2>3
<1>3. QED
  BY <1>2, HeedsHands DEF o

\* A player wants to play again, as the other one does.
LEMMA AnewHeeded ==
  ASSUME LiveSetting, NEW p, NEW c, SheetSound("rps", p, c), c.scr = "end", ~c.again[1], c.again[2], NEW z,
         NEW a, Starts(a), InPlay(a), a.games = c.games + 1, a.m = Match(c.games + 1)
  PROVE  Heeded("rps", p, c, a, z, z, <<AGAIN, AG>>)
<1> DEFINE o == Other(p)
<1> HIDE DEF o
<1>1. /\ InPlay(c) /\ c.games \in Nat /\ c.m.round # 0 /\ ~c.m.sent /\ c.m.mine = NoHand /\ c.m.theirs = <<>>
      /\ ~Starts(c)
  <2>1. InPlay(c) /\ ~Starts(c)
    BY DEF InPlay, Starts
  <2>2. MatchSound(c)
    BY <2>1, Plain
  <2>3. ~IsOver(<<0, 0>>)
    BY DEF IsOver, LiveSetting
  <2>4. QED
    BY <2>1, <2>2, <2>3, Plain DEF MatchSound
<1>2. a.m.mine = NoHand
  BY DEF Match
<1>3. ASSUME NEW b, SheetSound("rps", o, b), Heard(p, c, b, z)
      PROVE  Heard(p, a, b, z) /\ \A y \in Seq(Messages) : Heard(o, b, c, y) => Heard(o, b, a, y \o <<AGAIN, AG>>)
  <2>1. InPlay(b) /\ b.games = c.games /\ SameRound(c, b, z)
    BY <1>1, <1>3 DEF Heard, GameToCome, GameAfter, GameBefore, RoundAfter, RoundBefore
  <2>2. b.again[1] /\ ~b.again[2] /\ b.m.mine = NoHand /\ b.m.theirs = <<>> /\ ~b.m.sent /\ b.m.round # 0
    BY <1>3, <2>1, Plain DEF SameRound
  <2>3. z = <<>>
    BY <1>1, <2>1, <2>2 DEF SameRound, AsksFor
  <2>4. Heard(p, a, b, z)
    BY <2>1, <2>2, <2>3 DEF Heard, GameBefore
  <2>5. ASSUME NEW y \in Seq(Messages), Heard(o, b, c, y) PROVE Heard(o, b, a, y \o <<AGAIN, AG>>)
    <3>1. SameRound(b, c, y) \/ RoundBefore(b, c, y) \/ RoundAfter(b, c, y)
      <4>1. OneGame(c, b) /\ b.games \in Nat
        BY <1>1, <2>1 DEF OneGame
      <4>2. QED
        BY <2>5, <4>1, OneGameIs
    <3>2. y = <<>>
      BY <1>1, <2>2, <3>1 DEF SameRound, RoundBefore, RoundAfter, AsksFor
    <3>3. y \o <<AGAIN, AG>> = <<AGAIN, AG>>
      BY <3>2, Appended
    <3>4. GameAfter(b, a, y \o <<AGAIN, AG>>)
      BY <1>2, <2>1, <2>2, <3>3 DEF GameAfter
    <3>5. QED
      BY <2>1, <3>4 DEF Heard
  <2>6. QED
    BY <2>4, <2>5
<1>4. QED
  BY <1>3, HeedsHands DEF o

-----------------------------------------------------------------------------
(* A message is taken. *)

LEMMA StayIs ==
  ASSUME NEW L \in Duels, NEW p \in Pages
  PROVE  Acted(L, L, p, L.page[p], L.to[p], <<>>)
<1>1. L.to[Other(p)] \in Seq(Messages)
  BY Two DEF Duels
<1>2. L.to[Other(p)] \o <<>> = L.to[Other(p)]
  BY <1>1, Empty
<1>3. QED
  BY <1>2 DEF Acted

LEMMA TwoFlags ==
  ASSUME NEW s \in BOOLEAN \X BOOLEAN
  PROVE  /\ \A f \in BOOLEAN : /\ [s EXCEPT ![1] = f] = <<f, s[2]>> /\ [s EXCEPT ![2] = f] = <<s[1], f>>
                               /\ [s EXCEPT ![1] = f] \in BOOLEAN \X BOOLEAN /\ [s EXCEPT ![2] = f] \in BOOLEAN \X BOOLEAN
         /\ s = <<s[1], s[2]>> /\ s[1] \in BOOLEAN /\ s[2] \in BOOLEAN
         /\ s = <<TRUE, TRUE>> <=> s[1] /\ s[2]
<1>1. PICK u \in BOOLEAN, v \in BOOLEAN : s = <<u, v>>
  OBVIOUS
<1>2. ASSUME NEW f \in BOOLEAN
      PROVE  /\ [<<u, v>> EXCEPT ![1] = f] = <<f, v>>
             /\ [<<u, v>> EXCEPT ![2] = f] = <<u, f>>
  OBVIOUS
<1>3. ASSUME NEW f \in BOOLEAN PROVE <<f, v>> \in BOOLEAN \X BOOLEAN /\ <<u, f>> \in BOOLEAN \X BOOLEAN
  OBVIOUS
<1>4. <<u, v>>[1] = u /\ <<u, v>>[2] = v
  OBVIOUS
<1>5. <<u, v>> = <<TRUE, TRUE>> <=> u /\ v
  OBVIOUS
<1>6. QED
  BY <1>1, <1>2, <1>3, <1>4, <1>5

LEMMA SetOn ==
  ASSUME NEW L \in Duels, NEW p \in Pages, NEW c, NEW x, NEW out, NEW M, Acted(L, M, p, c, x, out), NEW a \in Sheets
  PROVE  Acted(L, [M EXCEPT !.page[p] = a], p, a, x, out)
<1>1. M \in Duels
  BY DEF Acted
<1> DEFINE N == [M EXCEPT !.page[p] = a]
<1>2. N \in Duels /\ N.kind = M.kind /\ N.broken = M.broken /\ N.to = M.to
      /\ N.page[p] = a /\ N.page[Other(p)] = M.page[Other(p)]
  BY <1>1, SetIs
<1> HIDE DEF N
<1>3. Acted(L, N, p, a, x, out)
  BY <1>2 DEF Acted
<1>4. QED
  BY <1>3 DEF N

\* Both want to play again: the next game begins.
LEMMA AgainIs ==
  ASSUME LiveSetting, NEW L \in Duels, NEW p \in Pages, NEW c \in Sheets, c.conn, c.ph = "none", NEW x,
         NEW out \in Seq(Messages), NEW M, Acted(L, M, p, c, x, out)
  PROVE  /\ ~(c.again[1] /\ c.again[2]) => Again(M, p) = M
         /\ c.again[1] /\ c.again[2] =>
              \E a, serving :
                /\ Acted(L, Again(M, p), p, a, x, out \o Greeting(L.kind))
                /\ a \in Sheets /\ SheetSound(L.kind, p, a) /\ a.conn /\ a.games = c.games + 1 /\ InPlay(a) /\ Starts(a)
                /\ a.m = Match(c.games + 1) /\ serving \in BOOLEAN /\ (serving <=> ~c.b.serving)
                /\ a.b = Rally(serving) /\ Opens(a) /\ ~a.again[1] /\ ~a.again[2]
<1>1. M \in Duels /\ M.page[p] = c /\ c.again \in BOOLEAN \X BOOLEAN
  BY DEF Acted, Sheets
<1>2. c.again = <<TRUE, TRUE>> <=> c.again[1] /\ c.again[2]
  BY <1>1, TwoFlags
<1>3. ASSUME ~(c.again[1] /\ c.again[2]) PROVE Again(M, p) = M
  BY <1>1, <1>2, <1>3 DEF Again
<1>4. ASSUME c.again[1], c.again[2]
      PROVE  \E a, serving :
                /\ Acted(L, Again(M, p), p, a, x, out \o Greeting(L.kind))
                /\ a \in Sheets /\ SheetSound(L.kind, p, a) /\ a.conn /\ a.games = c.games + 1 /\ InPlay(a) /\ Starts(a)
                /\ a.m = Match(c.games + 1) /\ serving \in BOOLEAN /\ (serving <=> ~c.b.serving)
                /\ a.b = Rally(serving) /\ Opens(a) /\ ~a.again[1] /\ ~a.again[2]
  <2>1. PICK serving \in BOOLEAN : serving = ~c.b.serving
    OBVIOUS
  <2> DEFINE d == [c EXCEPT !.games = @ + 1]
             N == [M EXCEPT !.page[p] = d]
  <2>2. d \in Sheets /\ d.conn /\ d.ph = "none" /\ d.games = c.games + 1
    BY DEF Sheets
  <2>3. Acted(L, N, p, d, x, out)
    <3> HIDE DEF d
    <3>1. QED
      BY <2>2, SetOn
  <2>4. Again(M, p) = BeginGame(N, p, serving)
    <3>1. [M EXCEPT !.page[p].games = @ + 1] = N
      BY <1>1 DEF Duels
    <3> HIDE DEF N
    <3>2. Again(M, p) = BeginGame(N, p, ~M.page[p].b.serving)
      BY <1>1, <1>2, <1>4, <3>1 DEF Again
    <3>3. QED
      BY <1>1, <2>1, <3>2
  <2> DEFINE a == Fresh(d, L.kind, serving)
  <2> HIDE DEF d, N
  <2>5. a = Fresh(d, L.kind, serving) /\ serving \in BOOLEAN
    OBVIOUS
  <2> HIDE DEF a
  <2>6. /\ Acted(L, BeginGame(N, p, serving), p, a, x, out \o Greeting(L.kind))
        /\ a \in Sheets /\ SheetSound(L.kind, p, a) /\ a.conn /\ a.games = d.games /\ InPlay(a)
        /\ Starts(a) /\ a.m = Match(d.games) /\ a.b = Rally(serving) /\ Opens(a)
        /\ ~a.again[1] /\ ~a.again[2]
    BY <2>2, <2>3, <2>5, BeginIs
  <2>7. /\ Acted(L, Again(M, p), p, a, x, out \o Greeting(L.kind))
        /\ a \in Sheets /\ SheetSound(L.kind, p, a) /\ a.conn /\ a.games = c.games + 1 /\ InPlay(a) /\ Starts(a)
        /\ a.m = Match(c.games + 1) /\ serving \in BOOLEAN /\ (serving <=> ~c.b.serving)
        /\ a.b = Rally(serving) /\ Opens(a) /\ ~a.again[1] /\ ~a.again[2]
    BY <2>1, <2>2, <2>4, <2>6
  <2>8. QED
    BY <2>7
<1>5. QED
  BY <1>3, <1>4

\* A message whose answer is known keeps the invariant.
LEMMA DeliverKeeps ==
  ASSUME LiveInv(live), NEW p \in Pages, Deliver(p), NEW a, NEW out,
         Acted(live, Taken(p, Head(live.to[p])), p, a, live.to[p], out), a.conn, SheetSound(live.kind, p, a),
         Heeded(live.kind, p, Pg(p), a, live.to[p], Tail(live.to[p]), out)
  PROVE  LiveInv(live')
<1> DEFINE M == Taken(p, Head(live.to[p]))
           x == Tail(live.to[p])
<1>1. live' = [M EXCEPT !.to[p] = Tail(@)] /\ live.to[p] # <<>> /\ live.page[p].conn
  BY DEF Deliver, Pg
<1>2. live \in Duels
  BY DEF LiveInv
<1> HIDE DEF M
<1>3. Acted(live, live', p, a, x, out)
  BY <1>1, <1>2, TakenOn DEF M
<1>4. Heeded(live.kind, p, live.page[p], a, live.to[p], x, out)
  BY DEF Pg
<1> HIDE DEF x
<1>5. QED
  BY <1>1, <1>3, <1>4, PlayKeeps

\* Whatever is on the way, somebody said it.
LEMMA SomeoneSaid ==
  ASSUME LiveInv(live), live.kind = "rps", NEW p \in Pages, Pg(p).conn, live.to[p] # <<>>
  PROVE  \E b : SheetSound("rps", Other(p), b) /\ Heard(p, Pg(p), b, live.to[p])
<1> DEFINE o == Other(p)
<1>1. o \in Pages /\ o # p /\ Other(o) = p /\ \A q \in Pages : q = p \/ q = o
  BY Two
<1> HIDE DEF o
<1>2. CASE live.broken
  BY <1>2 DEF LiveInv, Parted, LastWords, Pg
<1>3. CASE ~live.broken
  <2>1. Joint(live)
    BY <1>1, <1>3 DEF LiveInv, Connected, Near, Pg, o
  <2>2. Heard(p, Pg(p), live.page[o], live.to[p]) /\ SheetSound("rps", o, live.page[o])
    BY <1>1, <2>1, JointIs DEF LiveInv, Pg, o
  <2>3. QED
    BY <2>2 DEF o
<1>4. QED
  BY <1>2, <1>3

\* The setting of a message that is taken.
Comes(p, c, z, x, b) ==
  /\ live \in Duels /\ live.kind = "rps" /\ c = Pg(p) /\ c = live.page[p] /\ c \in Sheets /\ c.conn /\ c.ph = "none"
  /\ SheetSound("rps", p, c) /\ z = live.to[p] /\ z # <<>> /\ x = Head(z) /\ x \in Messages
  /\ SheetSound("rps", Other(p), b) /\ Heard(p, c, b, z)

LEMMA SomethingComes ==
  ASSUME LiveInv(live), live.kind = "rps", NEW p \in Pages, Deliver(p)
  PROVE  \E b : Comes(p, Pg(p), live.to[p], Head(live.to[p]), b)
<1> DEFINE c == Pg(p)
           z == live.to[p]
           x == Head(z)
<1>1. live \in Duels /\ z \in Seq(Messages) /\ z # <<>> /\ c.conn /\ c = live.page[p] /\ SheetSound("rps", p, c)
  BY DEF LiveInv, Deliver, Pg, Duels
<1>2. c \in Sheets /\ c.ph = "none"
  BY <1>1 DEF SheetSound
<1>3. PICK b : SheetSound("rps", Other(p), b) /\ Heard(p, c, b, z)
  BY <1>1, SomeoneSaid
<1>4. x \in Messages
  BY <1>1, TakingTyped
<1>5. Comes(p, c, z, x, b)
  BY <1>1, <1>2, <1>3, <1>4 DEF Comes
<1>6. QED
  BY <1>5

LEMMA GoComes ==
  ASSUME LiveSetting, LiveInv(live), NEW p \in Pages, NEW c, NEW z, NEW x, NEW b, Comes(p, c, z, x, b), Deliver(p), x.t = "go"
  PROVE  LiveInv(live')
<1>1. /\ live \in Duels /\ live.kind = "rps" /\ c = Pg(p) /\ c = live.page[p] /\ c \in Sheets /\ c.conn /\ c.ph = "none"
      /\ SheetSound("rps", p, c) /\ z = live.to[p] /\ z # <<>> /\ x = Head(z)
      /\ SheetSound("rps", Other(p), b) /\ Heard(p, c, b, z)
  BY DEF Comes
<1>2. SaysGo(p, c, b, Tail(z))
  BY <1>1, Means
<1>3. p = 2 /\ ~InPlay(c)
  BY <1>2 DEF SaysGo
<1>4. c.scr = "ready" /\ c.games = 0
  <2>1. c.scr = (IF p = 1 THEN "here" ELSE "ready") /\ Unplayed(c)
    BY <1>1, <1>3 DEF SheetSound
  <2>2. QED
    BY <1>3, <2>1 DEF Unplayed
<1>5. PICK serving \in BOOLEAN : serving = FALSE
  OBVIOUS
<1>6. Taken(p, x) = BeginGame(live, p, serving)
  BY <1>1, <1>4, <1>5 DEF Taken
<1> DEFINE a == Fresh(c, live.kind, serving)
<1>7. a = Fresh(c, live.kind, serving)
  OBVIOUS
<1> HIDE DEF a
<1>8. /\ Acted(live, BeginGame(live, p, serving), p, a, z, <<>> \o Greeting(live.kind))
      /\ SheetSound(live.kind, p, a) /\ a.conn /\ a.games = c.games /\ InPlay(a) /\ Starts(a)
      /\ a.m = Match(c.games) /\ ~a.again[2]
  <2>1. Acted(live, live, p, c, z, <<>>) /\ <<>> \in Seq(Messages) /\ live.kind \in {"rps", "ball"}
    BY <1>1, StayIs
  <2>2. /\ SheetSound(live.kind, p, a) /\ a.conn /\ a.games = c.games /\ InPlay(a) /\ Starts(a)
        /\ a.m = Match(c.games) /\ ~a.again[2]
    BY <1>1, <1>5, <1>7, <2>1, FreshIs
  <2>3. Acted(live, BeginGame(live, p, serving), p, a, z, <<>> \o Greeting(live.kind))
    <3> DEFINE out == <<>>
    <3>1. Acted(live, live, p, c, z, out) /\ out \in Seq(Messages)
      BY <2>1
    <3> HIDE DEF out
    <3>2. Acted(live, BeginGame(live, p, serving), p, a, z, out \o Greeting(live.kind))
      BY <1>1, <1>5, <1>7, <2>1, <3>1, BeginIs
    <3>3. QED
      BY <3>2 DEF out
  <2>4. QED
    BY <2>2, <2>3
<1>9. <<>> \o Greeting(live.kind) = <<AG>>
  BY <1>1, GreetingIs, Appended
<1>10. Heeded("rps", p, c, a, z, Tail(z), <<AG>>)
  BY <1>1, <1>3, <1>4, <1>8, GoHeeded
<1>11. QED
  BY <1>1, <1>6, <1>8, <1>9, <1>10, DeliverKeeps

LEMMA GreetingComes ==
  ASSUME LiveSetting, LiveInv(live), NEW p \in Pages, NEW c, NEW z, NEW x, NEW b, Comes(p, c, z, x, b), Deliver(p), x.t = "ag"
  PROVE  LiveInv(live')
<1>1. /\ live \in Duels /\ live.kind = "rps" /\ c = Pg(p) /\ c = live.page[p] /\ c \in Sheets /\ c.conn /\ c.ph = "none"
      /\ SheetSound("rps", p, c) /\ z = live.to[p] /\ z # <<>> /\ x = Head(z)
      /\ SheetSound("rps", Other(p), b) /\ Heard(p, c, b, z)
  BY DEF Comes
<1>2. OneGame(c, b)
  BY <1>1, Means
<1>3. c.scr # "ready"
  BY <1>2 DEF OneGame, InPlay
<1>4. Taken(p, x) = live
  BY <1>1, <1>3 DEF Taken
<1>5. Acted(live, live, p, c, z, <<>>)
  BY <1>1, StayIs
<1>6. Heeded("rps", p, c, c, z, Tail(z), <<>>)
  BY <1>1, GreetingHeeded
<1>7. QED
  BY <1>1, <1>4, <1>5, <1>6, DeliverKeeps

LEMMA AgainComes ==
  ASSUME LiveSetting, LiveInv(live), NEW p \in Pages, NEW c, NEW z, NEW x, NEW b, Comes(p, c, z, x, b), Deliver(p), x.t = "again"
  PROVE  LiveInv(live')
<1>1. /\ live \in Duels /\ live.kind = "rps" /\ c = Pg(p) /\ c = live.page[p] /\ c \in Sheets /\ c.conn /\ c.ph = "none"
      /\ SheetSound("rps", p, c) /\ z = live.to[p] /\ z # <<>> /\ x = Head(z)
      /\ SheetSound("rps", Other(p), b) /\ Heard(p, c, b, z)
  BY DEF Comes
<1>2. InPlay(c) /\ ~c.again[2]
  <2>1. SaysAgain(c, b, Tail(z))
    BY <1>1, Means
  <2>2. QED
    BY <2>1 DEF SaysAgain, OneGame
<1>3. PICK f \in BOOLEAN : f = TRUE
  OBVIOUS
<1> DEFINE g == [c.again EXCEPT ![2] = f]
           a == [c EXCEPT !.again = g]
           M == [live EXCEPT !.page[p] = a]
<1>4. c.again \in BOOLEAN \X BOOLEAN
  BY <1>1 DEF Sheets
<1>5. /\ a \in Sheets /\ a.m = c.m /\ a.games = c.games /\ a.scr = c.scr /\ a.conn /\ a.ph = "none" /\ a.b = c.b
      /\ a.again[2] /\ a.again[1] = c.again[1]
  <2>1. [c.again EXCEPT ![2] = f] = <<c.again[1], f>> /\ [c.again EXCEPT ![2] = f] \in BOOLEAN \X BOOLEAN
    BY <1>4, TwoFlags
  <2>2. g \in BOOLEAN \X BOOLEAN /\ g[1] = c.again[1] /\ g[2] = f
    BY <2>1
  <2> HIDE DEF g
  <2>3. a \in Sheets /\ a.m = c.m /\ a.games = c.games /\ a.scr = c.scr /\ a.conn = c.conn /\ a.ph = c.ph /\ a.b = c.b
        /\ a.again = g
    BY <1>1, <2>2 DEF Sheets
  <2> HIDE DEF a
  <2>4. QED
    BY <1>1, <1>3, <2>2, <2>3
<1>6. Taken(p, x) = Again(M, p)
  <2>1. Taken(p, x) = Again(Set(p, [Pg(p) EXCEPT !.again[2] = TRUE]), p)
    BY <1>1, <1>2 DEF Taken, InPlay
  <2>2. [Pg(p) EXCEPT !.again[2] = TRUE] = a
    BY <1>1, <1>3 DEF Sheets
  <2>3. QED
    BY <2>1, <2>2 DEF Set
<1>7. Acted(live, M, p, a, z, <<>>)
  <2> HIDE DEF a
  <2>1. Acted(live, live, p, c, z, <<>>)
    BY <1>1, StayIs
  <2>2. QED
    BY <1>1, <1>5, <2>1, SetOn
<1> HIDE DEF a, M
<1>8. CASE ~c.again[1]
  <2>1. Taken(p, x) = M
    <3> DEFINE out == <<>>
    <3>1. out \in Seq(Messages) /\ ~(a.again[1] /\ a.again[2]) /\ Acted(live, M, p, a, z, out)
      BY <1>5, <1>7, <1>8
    <3> HIDE DEF out
    <3>2. Again(M, p) = M
      BY <1>1, <1>5, <3>1, AgainIs
    <3>3. QED
      BY <1>6, <3>2
  <2>2. SheetSound("rps", p, a)
    BY <1>1, <1>2, <1>5, <1>8 DEF SheetSound, InPlay, MatchSound
  <2>3. Heeded("rps", p, c, a, z, Tail(z), <<>>)
    BY <1>1, <1>5, <1>8, AgainHeeded
  <2>4. QED
    BY <1>1, <1>5, <1>7, <2>1, <2>2, <2>3, DeliverKeeps
<1>9. CASE c.again[1]
  <2> DEFINE out == <<>>
  <2>1. out \in Seq(Messages) /\ a.again[1] /\ a.again[2] /\ Acted(live, M, p, a, z, out)
    BY <1>5, <1>7, <1>9
  <2> HIDE DEF out
  <2>2. PICK d, serving :
           /\ Acted(live, Again(M, p), p, d, z, out \o Greeting(live.kind))
           /\ d \in Sheets /\ SheetSound(live.kind, p, d) /\ d.conn /\ d.games = a.games + 1 /\ InPlay(d) /\ Starts(d)
           /\ d.m = Match(a.games + 1) /\ serving \in BOOLEAN /\ (serving <=> ~a.b.serving)
           /\ d.b = Rally(serving) /\ Opens(d) /\ ~d.again[1] /\ ~d.again[2]
    BY <1>1, <1>5, <2>1, AgainIs
  <2>3. out \o Greeting(live.kind) = <<AG>>
    BY <1>1, GreetingIs, Appended DEF out
  <2>4. Heeded("rps", p, c, d, z, Tail(z), <<AG>>)
    BY <1>1, <1>5, <1>9, <2>2, RematchHeeded
  <2>5. QED
    BY <1>1, <1>6, <2>2, <2>3, <2>4, DeliverKeeps
<1>10. QED
  BY <1>8, <1>9

LEMMA RevealIs ==
  ASSUME NEW m \in Matches, ~m.sent
  PROVE  /\ RevealOf(m) = (IF m.mine # NoHand /\ m.theirs # <<>> THEN <<HAND(m.round, m.mine)>> ELSE <<>>)
         /\ RevealOf(m) \in Seq(Messages) /\ Revealed(m) \in Matches
         /\ Revealed(m).game = m.game /\ Revealed(m).round = m.round /\ Revealed(m).score = m.score
         /\ Revealed(m).mine = m.mine /\ Revealed(m).theirs = m.theirs /\ Revealed(m).done = m.done
         /\ Revealed(m).cheat = m.cheat
         /\ Revealed(m).sent <=> m.mine # NoHand /\ m.theirs # <<>>
<1>1. RevealOf(m) = (IF m.mine # NoHand /\ m.theirs # <<>> THEN <<HAND(m.round, m.mine)>> ELSE <<>>)
  BY DEF RevealOf, HAND
<1>2. CASE m.mine # NoHand /\ m.theirs # <<>>
  <2>1. m.mine \in Hands /\ m.round \in Nat
    BY <1>2 DEF Matches
  <2>2. RevealOf(m) = <<HAND(m.round, m.mine)>> /\ HAND(m.round, m.mine) \in Messages
    BY <1>1, <1>2, <2>1, MessagesAre
  <2>3. RevealOf(m) # <<>> /\ RevealOf(m) \in Seq(Messages)
    <3> DEFINE r == HAND(m.round, m.mine)
    <3>1. RevealOf(m) = <<r>> /\ r \in Messages
      BY <2>2
    <3> HIDE DEF r
    <3>2. QED
      BY <3>1
  <2>4. Revealed(m) = [m EXCEPT !.sent = TRUE]
    BY <2>3 DEF Revealed
  <2>5. QED
    BY <1>1, <1>2, <2>3, <2>4 DEF Matches
<1>3. CASE ~(m.mine # NoHand /\ m.theirs # <<>>)
  <2>1. RevealOf(m) = <<>> /\ RevealOf(m) \in Seq(Messages)
    BY <1>1, <1>3
  <2>2. Revealed(m) = m
    BY <2>1 DEF Revealed
  <2>3. QED
    BY <1>1, <1>3, <2>1, <2>2
<1>4. QED
  BY <1>2, <1>3

LEMMA SealComes ==
  ASSUME LiveSetting, LiveInv(live), NEW p \in Pages, NEW c, NEW z, NEW x, NEW b, Comes(p, c, z, x, b), Deliver(p), x.t = "c"
  PROVE  LiveInv(live')
<1>1. /\ live \in Duels /\ live.kind = "rps" /\ c = Pg(p) /\ c = live.page[p] /\ c \in Sheets /\ c.conn /\ c.ph = "none"
      /\ SheetSound("rps", p, c) /\ z = live.to[p] /\ z # <<>> /\ x = Head(z)
      /\ SheetSound("rps", Other(p), b) /\ Heard(p, c, b, z)
  BY DEF Comes
<1>2. x = SEAL(b.m) /\ SaysSeal(c, b, Tail(z))
  BY <1>1, Means
<1>3. /\ InPlay(c) /\ InPlay(b) /\ b.games = c.games /\ c.m.theirs = <<>> /\ b.m.mine # NoHand /\ b.m.round = c.m.round
      /\ Mirrored(c.m.score, b.m.score)
  BY <1>2 DEF SaysSeal, OneGame, SameRound
<1>4. /\ c.m \in Matches /\ b.m \in Matches /\ MatchSound(c) /\ MatchSound(b) /\ ~c.m.sent
  BY <1>1, <1>3, Plain
<1>5. b.m.mine \in Hands /\ c.m.game = c.games /\ b.m.game = c.games
  BY <1>3, <1>4 DEF Matches, MatchSound
<1>6. x.h = Seal(c.m.game, c.m.round, b.m.mine) /\ x.n = c.m.round
  BY <1>2, <1>3, <1>5, Tags
<1>7. x.h \in SealSet /\ x.h[3] = b.m.mine /\ x.h # <<>>
  BY <1>4, <1>5, <1>6 DEF Seal, SealSet, Matches
<1>8. ~c.m.done
  BY <1>3, <1>4 DEF MatchSound, Mirrored, IsOver
<1> DEFINE m == [c.m EXCEPT !.theirs = x.h]
           w == c.watch \/ RevealOf(m) # <<>>
           a == [c EXCEPT !.m = Revealed(m), !.watch = w]
           out == RevealOf(m)
<1>9. m \in Matches /\ ~m.sent /\ m.theirs = x.h /\ m.game = c.m.game /\ m.round = c.m.round /\ m.score = c.m.score
      /\ m.mine = c.m.mine /\ m.done = c.m.done /\ m.cheat = c.m.cheat
  BY <1>4, <1>7 DEF Matches
<1>10. Taken(p, x) = Sent([live EXCEPT !.page[p] = a], p, out)
  <2>1. c.scr \notin {"ready", "here"}
    BY <1>3 DEF InPlay
  <2>2. Taken(p, x) = TakeRps(p, x)
    BY <1>1, <2>1 DEF Taken
  <2>3. TakeRps(p, x) = TakeSeal(p, x)
    BY <1>1, <1>6, <1>8 DEF TakeRps
  <2>4. TakeSeal(p, x) = Sent([live EXCEPT !.page[p] = a], p, out)
    BY <1>1, <1>3, <1>4 DEF TakeSeal, Set
  <2>5. QED
    BY <2>2, <2>3, <2>4
<1> DEFINE r == Revealed(m)
<1> HIDE DEF m
<1>11. /\ out = (IF c.m.mine # NoHand THEN <<HAND(c.m.round, c.m.mine)>> ELSE <<>>)
       /\ out \in Seq(Messages) /\ r \in Matches
       /\ r.game = c.m.game /\ r.round = c.m.round /\ r.score = c.m.score
       /\ r.mine = c.m.mine /\ r.theirs = x.h /\ r.done = c.m.done /\ r.cheat = c.m.cheat
       /\ r.sent <=> c.m.mine # NoHand
  BY <1>7, <1>9, RevealIs
<1> HIDE DEF out
<1>12. w \in BOOLEAN /\ a = [c EXCEPT !.m = r, !.watch = w]
  BY <1>1 DEF Sheets, out
<1> HIDE DEF r, w, a
<1>13. /\ a \in Sheets /\ a.m = r /\ a.games = c.games /\ a.again = c.again /\ a.scr = c.scr /\ a.conn = c.conn
       /\ a.ph = c.ph
  BY <1>1, <1>11, <1>12 DEF Sheets
<1>14. SheetSound("rps", p, a)
  <2>1. MatchSound(a)
    BY <1>3, <1>4, <1>5, <1>6, <1>7, <1>8, <1>11, <1>13 DEF MatchSound
  <2>2. ~a.m.cheat
    BY <1>1, <1>11, <1>13 DEF SheetSound
  <2>3. QED
    BY <1>1, <1>3, <1>13, <2>1, <2>2 DEF SheetSound, InPlay
<1>15. Heeded("rps", p, c, a, z, Tail(z), out)
  BY <1>1, <1>11, <1>13, SealHeeded
<1>16. Acted(live, Taken(p, x), p, a, z, out)
  BY <1>1, <1>10, <1>11, <1>13, SentIs
<1>17. QED
  BY <1>1, <1>13, <1>14, <1>15, <1>16, DeliverKeeps

LEMMA HandIsTaken ==
  ASSUME LiveSetting, LiveInv(live), NEW p \in Pages, NEW c, NEW z, NEW x, NEW b, Comes(p, c, z, x, b), Deliver(p), x.t = "r"
  PROVE  LiveInv(live')
<1>1. /\ live \in Duels /\ live.kind = "rps" /\ c = Pg(p) /\ c = live.page[p] /\ c \in Sheets /\ c.conn /\ c.ph = "none"
      /\ SheetSound("rps", p, c) /\ z = live.to[p] /\ z # <<>> /\ x = Head(z)
      /\ SheetSound("rps", Other(p), b) /\ Heard(p, c, b, z)
  BY DEF Comes
<1>2. NextWord(p, c, b, x, Tail(z))
  BY <1>1, HeadIs
<1>3. \/ x = HAND(b.m.round, b.m.mine) /\ SaysHand(c, b, Tail(z))
      \/ x = HAND(c.m.round, c.m.theirs[3]) /\ SaysHandBefore(c, b, Tail(z))
  BY <1>2, Tags DEF NextWord
<1>4. OneGame(c, b)
  BY <1>3 DEF SaysHand, SaysHandBefore
<1>5. /\ InPlay(c) /\ c.m \in Matches
      /\ c.m.game = c.games /\ c.m.sent /\ ~c.m.done /\ ~c.again[1]
      /\ c.m.mine \in Hands /\ c.m.theirs # <<>> /\ x.n = c.m.round /\ x.h \in Hands
      /\ c.m.theirs = Seal(c.m.game, c.m.round, x.h)
  BY <1>1, <1>3, <1>4, HandComes
<1> DEFINE m == RoundOver(c.m, x.h)
           scr == IF m.done THEN "end" ELSE c.scr
           f == FALSE
           a == [c EXCEPT !.m = m, !.watch = f, !.scr = scr]
<1>6. Taken(p, x) = [live EXCEPT !.page[p] = a]
  <2>1. c.scr \notin {"ready", "here"}
    BY <1>5 DEF InPlay
  <2>2. Taken(p, x) = TakeRps(p, x)
    BY <1>1, <2>1 DEF Taken
  <2>3. TakeRps(p, x) = TakeReveal(p, x)
    BY <1>1, <1>5 DEF TakeRps
  <2>4. TakeReveal(p, x) = [live EXCEPT !.page[p] = a]
    BY <1>1, <1>5 DEF TakeReveal, Set
  <2>5. QED
    BY <2>2, <2>3, <2>4
<1>7. /\ m \in Matches /\ m.game = c.m.game /\ m.round = c.m.round + 1 /\ m.mine = NoHand /\ m.theirs = <<>> /\ ~m.sent
      /\ m.done <=> IsOver(m.score)
      /\ m.cheat = c.m.cheat
  <2> DEFINE w == c.m
             g == x.h
             n == m
  <2>1. w \in Matches /\ g \in Hands /\ w.mine \in Hands /\ n = RoundOver(w, g)
    BY <1>5
  <2> HIDE DEF w, g, n
  <2>a. /\ n.round = w.round + 1 /\ n.mine = NoHand /\ n.theirs = <<>> /\ ~n.sent /\ n.game = w.game /\ n.cheat = w.cheat
    BY <2>1, RoundEnds
  <2>b. RoundOver(w, g) \in Matches /\ (RoundOver(w, g).done <=> IsOver(RoundOver(w, g).score))
    BY <2>1, RoundOverIs
  <2>2. /\ n \in Matches /\ n.game = w.game /\ n.round = w.round + 1 /\ n.mine = NoHand /\ n.theirs = <<>> /\ ~n.sent
        /\ n.done <=> IsOver(n.score)
        /\ n.cheat = w.cheat
    BY <2>1, <2>a, <2>b
  <2>3. QED
    BY <2>2 DEF w, n
<1>8. m = RoundOver(c.m, x.h) /\ f \in BOOLEAN
  OBVIOUS
<1> HIDE DEF m, f
<1>9. scr \in {"play", "end"} /\ (m.done <=> scr = "end")
  <2>1. c.scr = "play"
    <3>1. MatchSound(c)
      BY <1>1, <1>5, Plain
    <3>2. QED
      BY <1>5, <3>1 DEF MatchSound, InPlay
  <2>2. QED
    BY <2>1
<1> HIDE DEF scr
<1>10. /\ a \in Sheets /\ a.m = m /\ a.games = c.games /\ a.again = c.again /\ a.scr = scr /\ a.conn = c.conn
       /\ a.ph = c.ph
  BY <1>1, <1>7, <1>8, <1>9 DEF Sheets
<1> HIDE DEF a
<1>11. InPlay(a)
  BY <1>9, <1>10 DEF InPlay
<1>12. SheetSound("rps", p, a)
  <2>1. MatchSound(a)
    <3>1. m.round # 0
      BY <1>5, <1>7 DEF Matches
    <3>2. QED
      BY <1>5, <1>7, <1>9, <1>10, <3>1 DEF MatchSound
  <2>2. ~a.m.cheat
    BY <1>1, <1>7, <1>10 DEF SheetSound
  <2>3. QED
    BY <1>1, <1>5, <1>9, <1>10, <1>11, <2>1, <2>2 DEF SheetSound
<1>13. Heeded("rps", p, c, a, z, Tail(z), <<>>)
  BY <1>1, <1>8, <1>10, <1>11, HandHeeded
<1>14. Acted(live, Taken(p, x), p, a, z, <<>>)
  BY <1>1, <1>6, <1>10, StayIs, SetOn
<1>15. QED
  BY <1>1, <1>10, <1>12, <1>13, <1>14, DeliverKeeps

LEMMA HandGameDeliverStep ==
  ASSUME LiveSetting, LiveInv(live), NEW p \in Pages, Deliver(p), live.kind = "rps" PROVE LiveInv(live')
<1> DEFINE c == Pg(p)
           z == live.to[p]
           x == Head(live.to[p])
<1>1. PICK b : Comes(p, c, z, x, b)
  BY SomethingComes
<1>2. x.t \in {"go", "ag", "again", "c", "r"}
  <2> HIDE DEF c, z
  <2>1. SheetSound("rps", Other(p), b) /\ Heard(p, c, b, z) /\ z # <<>> /\ x = Head(z)
    BY <1>1 DEF Comes
  <2> HIDE DEF x
  <2>2. QED
    BY <2>1, Means
<1> HIDE DEF c, z, x
<1>3. QED
  BY <1>1, <1>2, GoComes, GreetingComes, AgainComes, SealComes, HandIsTaken

-----------------------------------------------------------------------------
(* A player acts. *)

LEMMA PickStep ==
  ASSUME LiveSetting, LiveInv(live), NEW p \in Pages, NEW h \in 0 .. 2, Pick(p, h) PROVE LiveInv(live')
<1> DEFINE c == Pg(p)
           m == [c.m EXCEPT !.mine = h]
           f == TRUE
           a == [c EXCEPT !.m = Revealed(m), !.watch = f]
           out == <<SEAL(m)>> \o RevealOf(m)
<1>1. /\ live \in Duels /\ live.kind = "rps" /\ c = live.page[p] /\ c \in Sheets /\ c.conn /\ c.scr = "play" /\ InPlay(c)
      /\ SheetSound("rps", p, c) /\ c.m.mine = NoHand /\ ~c.m.done
  BY DEF Pick, LiveInv, SheetSound, Pg, InPlay
<1>2. c.m \in Matches /\ MatchSound(c) /\ ~c.m.sent
  BY <1>1, Plain
<1>3. h \in Hands /\ h # NoHand
  BY DEF Hands, NoHand
<1>4. /\ m \in Matches /\ ~m.sent /\ m.mine = h /\ m.theirs = c.m.theirs /\ m.game = c.m.game /\ m.round = c.m.round
      /\ m.score = c.m.score /\ m.done = c.m.done /\ m.cheat = c.m.cheat
  BY <1>2, <1>3 DEF Matches
<1>5. live' = Sent([live EXCEPT !.page[p] = a], p, out)
  BY <1>1, <1>4 DEF Pick, Set, SEAL
<1> DEFINE r == Revealed(m)
           s == SEAL(m)
           g == HAND(c.m.round, h)
<1>6. s \in Messages /\ g \in Messages
  BY <1>2, <1>3, <1>4, MessagesAre DEF Matches
<1> HIDE DEF m
<1>7. /\ RevealOf(m) = (IF c.m.theirs # <<>> THEN <<g>> ELSE <<>>)
      /\ r \in Matches
      /\ r.game = c.m.game /\ r.round = c.m.round /\ r.score = c.m.score
      /\ r.mine = h /\ r.theirs = c.m.theirs /\ r.done = c.m.done /\ r.cheat = c.m.cheat
      /\ r.sent <=> c.m.theirs # <<>>
  BY <1>3, <1>4, RevealIs
<1>8. s = SEAL(r) /\ g = HAND(r.round, r.mine)
  BY <1>4, <1>7 DEF SEAL
<1> HIDE DEF r, s, g
<1>9. out = (IF c.m.theirs # <<>> THEN <<s, g>> ELSE <<s>>)
  <2>1. out = <<s>> \o RevealOf(m)
    BY DEF s
  <2> HIDE DEF out
  <2>2. CASE c.m.theirs # <<>>
    <3>1. RevealOf(m) = <<g>>
      BY <1>7, <2>2
    <3>2. <<s>> \o <<g>> = <<s, g>>
      BY Appended
    <3>3. QED
      BY <2>1, <2>2, <3>1, <3>2
  <2>3. CASE c.m.theirs = <<>>
    <3>1. RevealOf(m) = <<>>
      BY <1>7, <2>3
    <3>2. <<s>> \o <<>> = <<s>>
      BY Short
    <3>3. QED
      BY <2>1, <2>3, <3>1, <3>2
  <2>4. QED
    BY <2>2, <2>3
<1> HIDE DEF out
<1>10. out \in Seq(Messages)
  BY <1>6, <1>9
<1>11. a = [c EXCEPT !.m = r, !.watch = f] /\ f \in BOOLEAN
  BY DEF r
<1> HIDE DEF a, f, c
<1>12. /\ a \in Sheets /\ a.m = r /\ a.games = c.games /\ a.again = c.again /\ a.scr = c.scr /\ a.conn = c.conn
       /\ a.ph = c.ph
  BY <1>1, <1>7, <1>11 DEF Sheets
<1>13. SheetSound("rps", p, a)
  <2>1. MatchSound(a)
    BY <1>1, <1>2, <1>3, <1>7, <1>12 DEF MatchSound
  <2>2. ~a.m.cheat
    BY <1>1, <1>7, <1>12 DEF SheetSound
  <2>3. QED
    BY <1>1, <1>12, <2>1, <2>2 DEF SheetSound, InPlay
<1>14. out = (IF c.m.theirs # <<>> THEN <<SEAL(a.m), HAND(a.m.round, a.m.mine)>> ELSE <<SEAL(a.m)>>)
  BY <1>8, <1>9, <1>12
<1>15. Heeded("rps", p, c, a, live.to[p], live.to[p], out)
  BY <1>1, <1>3, <1>7, <1>12, <1>14, PickHeeded
<1>16. Acted(live, live', p, a, live.to[p], out)
  BY <1>1, <1>5, <1>10, <1>12, SentIs
<1>17. QED
  BY <1>1, <1>12, <1>13, <1>15, <1>16, PlayKeeps

\* A player asks for the next game.
LEMMA AskIs ==
  ASSUME LiveSetting, LiveInv(live), NEW p \in Pages, AskAgain(p), NEW c, c = Pg(p)
  PROVE  /\ live \in Duels /\ live.kind \in {"rps", "ball"} /\ c = live.page[p] /\ c.conn /\ SheetSound(live.kind, p, c)
         /\ c.scr = "end" /\ ~c.again[1]
         /\ \/ /\ ~c.again[2]
               /\ \E a : /\ Acted(live, live', p, a, live.to[p], <<AGAIN>>) /\ SheetSound(live.kind, p, a) /\ a.conn
                         /\ a.games = c.games /\ a.scr = c.scr /\ a.m = c.m /\ a.b = c.b /\ a.again[1] /\ ~a.again[2]
            \/ /\ c.again[2]
               /\ \E a, serving :
                    /\ Acted(live, live', p, a, live.to[p], <<AGAIN>> \o Greeting(live.kind))
                    /\ a \in Sheets /\ SheetSound(live.kind, p, a) /\ a.conn /\ a.games = c.games + 1 /\ InPlay(a) /\ Starts(a)
                    /\ a.m = Match(c.games + 1) /\ serving \in BOOLEAN /\ (serving <=> ~c.b.serving)
                    /\ a.b = Rally(serving) /\ Opens(a) /\ ~a.again[1] /\ ~a.again[2]
<1>1. /\ live \in Duels /\ live.kind \in {"rps", "ball"} /\ c = live.page[p] /\ c \in Sheets /\ c.conn /\ c.scr = "end"
      /\ SheetSound(live.kind, p, c) /\ ~c.again[1] /\ c.ph = "none"
  BY DEF AskAgain, LiveInv, SheetSound, Pg, Duels
<1>2. PICK f \in BOOLEAN : f = TRUE
  OBVIOUS
<1> DEFINE g == [c.again EXCEPT ![1] = f]
           d == [c EXCEPT !.again = g]
           out == <<AGAIN>>
           M == Sent([live EXCEPT !.page[p] = d], p, out)
           z == live.to[p]
<1>3. c.again \in BOOLEAN \X BOOLEAN
  BY <1>1 DEF Sheets
<1>4. /\ d \in Sheets /\ d.m = c.m /\ d.games = c.games /\ d.scr = c.scr /\ d.conn /\ d.ph = "none" /\ d.b = c.b
      /\ d.again[1] /\ d.again[2] = c.again[2]
  <2>1. [c.again EXCEPT ![1] = f] = <<f, c.again[2]>> /\ [c.again EXCEPT ![1] = f] \in BOOLEAN \X BOOLEAN
    BY <1>3, TwoFlags
  <2>2. g \in BOOLEAN \X BOOLEAN /\ g[2] = c.again[2] /\ g[1] = f
    BY <2>1
  <2> HIDE DEF g
  <2>3. d \in Sheets /\ d.m = c.m /\ d.games = c.games /\ d.scr = c.scr /\ d.conn = c.conn /\ d.ph = c.ph /\ d.b = c.b
        /\ d.again = g
    BY <1>1, <2>2 DEF Sheets
  <2> HIDE DEF d
  <2>4. QED
    BY <1>1, <1>2, <2>2, <2>3
<1>5. live' = Again(M, p)
  <2>1. live' = Again(Sent(Set(p, [Pg(p) EXCEPT !.again[1] = TRUE]), p, <<[t |-> "again"]>>), p)
    BY DEF AskAgain
  <2>2. [Pg(p) EXCEPT !.again[1] = TRUE] = d
    BY <1>1, <1>2 DEF Sheets
  <2>3. QED
    BY <2>1, <2>2 DEF Set, AGAIN
<1> HIDE DEF d
<1>6. out \in Seq(Messages) /\ Acted(live, M, p, d, z, out)
  <2>1. out \in Seq(Messages)
    BY MessagesAre
  <2> HIDE DEF out
  <2>2. QED
    BY <1>1, <1>4, <2>1, SentIs
<1> HIDE DEF M, out, z
<1>7. CASE ~c.again[2]
  <2>1. live' = M
    <3>1. ~(d.again[1] /\ d.again[2])
      BY <1>4, <1>7
    <3>2. QED
      BY <1>1, <1>4, <1>5, <1>6, <3>1, AgainIs
  <2>2. SheetSound(live.kind, p, d)
    BY <1>1, <1>4, <1>7 DEF SheetSound, InPlay, MatchSound, RallySound
  <2>3. Acted(live, live', p, d, live.to[p], <<AGAIN>>)
    BY <1>6, <2>1 DEF z, out
  <2>4. QED
    BY <1>1, <1>4, <1>7, <2>2, <2>3
<1>8. CASE c.again[2]
  <2>1. d.again[1] /\ d.again[2]
    BY <1>4, <1>8
  <2>2. PICK a, serving :
           /\ Acted(live, Again(M, p), p, a, z, out \o Greeting(live.kind))
           /\ a \in Sheets /\ SheetSound(live.kind, p, a) /\ a.conn /\ a.games = d.games + 1 /\ InPlay(a) /\ Starts(a)
           /\ a.m = Match(d.games + 1) /\ serving \in BOOLEAN /\ (serving <=> ~d.b.serving)
           /\ a.b = Rally(serving) /\ Opens(a) /\ ~a.again[1] /\ ~a.again[2]
    BY <1>1, <1>4, <1>6, <2>1, AgainIs
  <2>3. /\ Acted(live, live', p, a, live.to[p], <<AGAIN>> \o Greeting(live.kind))
        /\ a \in Sheets /\ SheetSound(live.kind, p, a) /\ a.conn /\ a.games = c.games + 1 /\ InPlay(a) /\ Starts(a)
        /\ a.m = Match(c.games + 1) /\ serving \in BOOLEAN /\ (serving <=> ~c.b.serving)
        /\ a.b = Rally(serving) /\ Opens(a) /\ ~a.again[1] /\ ~a.again[2]
    BY <1>4, <1>5, <2>2 DEF z, out
  <2>4. QED
    BY <1>1, <1>8, <2>3
<1>9. QED
  BY <1>7, <1>8

LEMMA HandGameAskStep ==
  ASSUME LiveSetting, LiveInv(live), NEW p \in Pages, AskAgain(p), live.kind = "rps" PROVE LiveInv(live')
<1> DEFINE c == Pg(p)
<1>1. c = Pg(p)
  OBVIOUS
<1> HIDE DEF c
<1>2. /\ live \in Duels /\ c = live.page[p] /\ c.conn /\ SheetSound("rps", p, c) /\ c.scr = "end" /\ ~c.again[1]
  BY <1>1, AskIs
<1>3. CASE ~c.again[2]
  <2>1. PICK a : /\ Acted(live, live', p, a, live.to[p], <<AGAIN>>) /\ SheetSound(live.kind, p, a) /\ a.conn
                 /\ a.games = c.games /\ a.scr = c.scr /\ a.m = c.m /\ a.b = c.b /\ a.again[1] /\ ~a.again[2]
    BY <1>1, <1>3, AskIs
  <2>2. Heeded("rps", p, c, a, live.to[p], live.to[p], <<AGAIN>>)
    BY <1>2, <1>3, <2>1, AskHeeded
  <2>3. QED
    BY <1>2, <2>1, <2>2, PlayKeeps
<1>4. CASE c.again[2]
  <2>1. PICK a, serving :
          /\ Acted(live, live', p, a, live.to[p], <<AGAIN>> \o Greeting(live.kind))
          /\ a \in Sheets /\ SheetSound(live.kind, p, a) /\ a.conn /\ a.games = c.games + 1 /\ InPlay(a) /\ Starts(a)
          /\ a.m = Match(c.games + 1) /\ serving \in BOOLEAN /\ (serving <=> ~c.b.serving)
          /\ a.b = Rally(serving) /\ Opens(a) /\ ~a.again[1] /\ ~a.again[2]
    BY <1>1, <1>4, AskIs
  <2>2. <<AGAIN>> \o Greeting(live.kind) = <<AGAIN, AG>>
    BY GreetingIs, Appended
  <2>3. Heeded("rps", p, c, a, live.to[p], live.to[p], <<AGAIN, AG>>)
    BY <1>2, <1>4, <2>1, AnewHeeded
  <2>4. QED
    BY <1>2, <2>1, <2>2, <2>3, PlayKeeps
<1>5. QED
  BY <1>3, <1>4

-----------------------------------------------------------------------------
(* The ball duel: what comes next. *)

\* What a page of the ball duel knows by itself.
LEMMA PlainBall ==
  ASSUME NEW q, NEW b, SheetSound("ball", q, b)
  PROVE  /\ b \in Sheets /\ b.b \in Rallies /\ b.games \in Nat /\ b.again \in BOOLEAN \X BOOLEAN
         /\ b.again[1] => b.scr = "end" /\ ~b.again[2]
         /\ InPlay(b) => RallySound(b)
  BY DEF SheetSound, Sheets

BallSays(p, a, b, x, y) ==
  \/ p = 2 /\ OpensFirst(a, b, x, y)
  \/ OpensNext(a, b, x, y)
  \/ /\ Paired(a, b)
     /\ \/ Flying(a, b, x, y) /\ x = <<HIT>>
        \/ Flying(a, b, x, y) /\ x = <<SERVE(b.b.n - 1)>>
        \/ Flying(a, b, x, y) /\ x = <<MISS, SERVE(b.b.n - 1)>>
        \/ ToServe(b, a, y, x) /\ x = <<MISS>>
        \/ LastPoint(b, a, y, x) /\ ~b.again[1] /\ x = <<MISS>>
        \/ LastPoint(b, a, y, x) /\ b.again[1] /\ x = <<MISS, AGAIN>>
        \/ BothDone(a, b, x, y) /\ AsksFor(a, b) /\ x = <<AGAIN>>

LEMMA BallComes ==
  ASSUME NEW p, NEW a, NEW b, NEW x, NEW y, x # <<>>, OneRally(p, a, b, x, y)
  PROVE  BallSays(p, a, b, x, y)
<1> USE DEF BallSays
<1>1. CASE p = 2 /\ OpensFirst(a, b, x, y)
  BY <1>1
<1>2. CASE OpensNext(a, b, x, y)
  BY <1>2
<1>3. CASE Paired(a, b) /\ Turn(a, b, x, y)
  <2>1. Flying(a, b, x, y)
    BY <1>3 DEF Turn, ToOpen, ToServe, LastPoint
  <2>2. x = <<HIT>> \/ x = <<SERVE(b.b.n - 1)>> \/ x = <<MISS, SERVE(b.b.n - 1)>>
    BY <2>1 DEF Flying
  <2>3. QED
    BY <1>3, <2>1, <2>2
<1>4. CASE Paired(a, b) /\ Turn(b, a, y, x)
  <2>1. ToServe(b, a, y, x) \/ LastPoint(b, a, y, x)
    BY <1>4 DEF Turn, ToOpen, Flying
  <2>2. ToServe(b, a, y, x) => x = <<MISS>>
    BY DEF ToServe
  <2>3. LastPoint(b, a, y, x) => (~b.again[1] /\ x = <<MISS>>) \/ (b.again[1] /\ x = <<MISS, AGAIN>>)
    BY DEF LastPoint
  <2>4. QED
    BY <1>4, <2>1, <2>2, <2>3
<1>5. CASE Paired(a, b) /\ BothDone(a, b, x, y)
  BY <1>5 DEF BothDone
<1>6. QED
  BY <1>1, <1>2, <1>3, <1>4, <1>5 DEF OneRally, SameBall, OpensFirst, OpensNext

\* What next message "miss" and "again" say, what comes after them, and the start.
Served0(b, rest) == rest = IF b.b.ball = "away" THEN <<SERVE(0)>> ELSE <<>>
StartsBall(p, a, b, x, y, rest) == p = 2 /\ OpensFirst(a, b, x, y) /\ Served0(b, rest)
SaysMiss(a, b, x, y, rest) ==
  /\ Paired(a, b)
  /\ \/ Flying(a, b, x, y) /\ x = <<MISS, SERVE(b.b.n - 1)>> /\ rest = <<SERVE(b.b.n - 1)>>
     \/ ToServe(b, a, y, x) /\ x = <<MISS>> /\ rest = <<>>
     \/ LastPoint(b, a, y, x) /\ rest = IF b.again[1] THEN <<AGAIN>> ELSE <<>>
SaysMore(a, b, x, y, rest) ==
  \/ OpensNext(a, b, x, y) /\ Served0(b, rest)
  \/ Paired(a, b) /\ BothDone(a, b, x, y) /\ AsksFor(a, b) /\ rest = <<>>

\* Each message says one thing.
LEMMA BallMeans ==
  ASSUME NEW p, NEW a, NEW b, NEW x, NEW y, x # <<>>, OneRally(p, a, b, x, y), NEW w, w = Head(x), NEW rest, rest = Tail(x)
  PROVE  /\ w.t \in {"go", "again", "hit", "serve", "miss"}
         /\ w.t = "go" => StartsBall(p, a, b, x, y, rest)
         /\ w.t # "go" => InPlay(a)
         /\ w.t = "hit" => Paired(a, b) /\ Flying(a, b, x, y) /\ x = <<HIT>> /\ rest = <<>>
         /\ w.t = "serve" => /\ Paired(a, b) /\ Flying(a, b, x, y) /\ x = <<SERVE(b.b.n - 1)>> /\ rest = <<>>
                             /\ w.n = b.b.n - 1
         /\ w.t = "miss" => SaysMiss(a, b, x, y, rest)
         /\ w.t = "again" => SaysMore(a, b, x, y, rest)
<1> USE DEF StartsBall, SaysMiss, SaysMore, Served0
<1>1. BallSays(p, a, b, x, y)
  BY BallComes
<1>2. CASE p = 2 /\ OpensFirst(a, b, x, y)
  <2>1. CASE x = <<GO>> /\ b.b.ball # "away"
    <3>1. w = GO /\ rest = <<>>
      BY <2>1, Short
    <3>2. QED
      BY <1>2, <2>1, <3>1, Tags
  <2>2. CASE x = <<GO, SERVE(0)>> /\ b.b.ball = "away"
    <3>1. w = GO /\ rest = <<SERVE(0)>>
      BY <2>2, Short
    <3>2. QED
      BY <1>2, <2>2, <3>1, Tags
  <2>3. QED
    BY <1>2, <2>1, <2>2 DEF OpensFirst
<1>3. CASE OpensNext(a, b, x, y)
  <2>0. InPlay(a)
    BY <1>3 DEF OpensNext
  <2>1. CASE x = <<AGAIN>> /\ b.b.ball # "away"
    <3>1. w = AGAIN /\ rest = <<>>
      BY <2>1, Short
    <3>2. QED
      BY <1>3, <2>0, <2>1, <3>1, Tags
  <2>2. CASE x = <<AGAIN, SERVE(0)>> /\ b.b.ball = "away"
    <3>1. w = AGAIN /\ rest = <<SERVE(0)>>
      BY <2>2, Short
    <3>2. QED
      BY <1>3, <2>0, <2>2, <3>1, Tags
  <2>3. QED
    BY <1>3, <2>1, <2>2 DEF OpensNext
<1> DEFINE s == SERVE(b.b.n - 1)
<1>a. s.t = "serve" /\ s.n = b.b.n - 1
  BY Tags
<1>b. Paired(a, b) => InPlay(a)
  BY DEF Paired
<1> HIDE DEF s
<1>4. CASE Paired(a, b) /\ Flying(a, b, x, y) /\ x = <<HIT>>
  <2>1. w = HIT /\ rest = <<>>
    BY <1>4, Short
  <2>2. QED
    BY <1>b, <1>4, <2>1, Tags
<1>5. CASE Paired(a, b) /\ Flying(a, b, x, y) /\ x = <<s>>
  <2>1. w = s /\ rest = <<>>
    BY <1>5, Short
  <2>2. QED
    BY <1>a, <1>b, <1>5, <2>1 DEF s
<1>6. CASE Paired(a, b) /\ Flying(a, b, x, y) /\ x = <<MISS, s>>
  <2>1. w = MISS /\ rest = <<s>>
    BY <1>6, Short
  <2>2. QED
    BY <1>b, <1>6, <2>1, Tags DEF s
<1>7. CASE Paired(a, b) /\ ToServe(b, a, y, x) /\ x = <<MISS>>
  <2>1. w = MISS /\ rest = <<>>
    BY <1>7, Short
  <2>2. QED
    BY <1>b, <1>7, <2>1, Tags
<1>8. CASE Paired(a, b) /\ LastPoint(b, a, y, x) /\ ~b.again[1] /\ x = <<MISS>>
  <2>1. w = MISS /\ rest = <<>>
    BY <1>8, Short
  <2>2. QED
    BY <1>b, <1>8, <2>1, Tags
<1>9. CASE Paired(a, b) /\ LastPoint(b, a, y, x) /\ b.again[1] /\ x = <<MISS, AGAIN>>
  <2>1. w = MISS /\ rest = <<AGAIN>>
    BY <1>9, Short
  <2>2. QED
    BY <1>b, <1>9, <2>1, Tags
<1>10. CASE Paired(a, b) /\ BothDone(a, b, x, y) /\ AsksFor(a, b) /\ x = <<AGAIN>>
  <2>1. w = AGAIN /\ rest = <<>>
    BY <1>10, Short
  <2>2. QED
    BY <1>b, <1>10, <2>1, Tags
<1>11. QED
  BY <1>1, <1>2, <1>3, <1>4, <1>5, <1>6, <1>7, <1>8, <1>9, <1>10 DEF BallSays, s

-----------------------------------------------------------------------------
(* The ball duel: what is said is heeded. *)

\* A page begins a game the other one has opened, and may have served in.
LEMMA Joins ==
  ASSUME NEW a, NEW b, NEW rest, InPlay(a), a.games = b.games, NEW serving \in BOOLEAN, a.b = Rally(serving),
         ~a.again[1], ~a.again[2], Opens(b), b.b \in Rallies, serving <=> ~b.b.serving,
         Served0(b, rest)
  PROVE  SameBall(a, b, rest, <<>>)
<1>1. a.b.serving = serving /\ a.b.ball = "none" /\ a.b.n = 0 /\ a.b.score = <<0, 0>> /\ ~a.b.due /\ ~a.b.done
  BY DEF Rally
<1>2. InPlay(b) /\ ~b.again[1] /\ ~b.again[2] /\ ~b.b.due /\ ~b.b.done /\ b.b.score = <<0, 0>> /\ b.b.serving \in BOOLEAN
  <2>1. InPlay(b) /\ b.again = <<FALSE, FALSE>> /\ ~b.b.due /\ ~b.b.done /\ b.b.score = <<0, 0>>
    BY Plays DEF Opens
  <2>2. b.b.serving \in BOOLEAN
    BY DEF Rallies
  <2>3. QED
    BY <2>1, <2>2
<1>3. Paired(a, b)
  BY <1>1, <1>2 DEF Paired
<1>4. CASE b.b.ball = "none" /\ b.b.n = 0 /\ rest = <<>>
  <2>1. ToOpen(a, b, <<>>, <<>>) \/ ToOpen(b, a, <<>>, <<>>)
    BY <1>1, <1>2, <1>4 DEF ToOpen, FirstServe
  <2>2. QED
    BY <1>3, <1>4, <2>1 DEF SameBall, Turn
<1>5. CASE b.b.ball = "away" /\ b.b.serving /\ b.b.n = 1 /\ rest = <<SERVE(0)>>
  <2>1. Begun(a.b) /\ Begun(b.b) /\ Mirrored(a.b.score, b.b.score)
    BY <1>1, <1>2, <1>5 DEF Begun, Mirrored
  <2>2. rest = <<SERVE(b.b.n - 1)>>
    BY <1>5
  <2>3. Flying(a, b, rest, <<>>)
    BY <1>1, <1>2, <1>5, <2>1, <2>2 DEF Flying
  <2>4. QED
    BY <1>3, <2>3 DEF SameBall, Turn
<1>6. QED
  BY <1>4, <1>5 DEF Opens, Served0

LEMMA BallGoHeeded ==
  ASSUME NEW c, NEW z, z # <<>>, NEW x, x = Head(z), x.t = "go", NEW rest, rest = Tail(z),
         NEW a, InPlay(a), a.games = 0, NEW serving, serving = FALSE, a.b = Rally(serving), ~a.again[1], ~a.again[2]
  PROVE  Heeded("ball", 2, c, a, z, rest, <<>>)
<1>1. Other(2) = 1
  BY Two
<1>2. ASSUME NEW b, NEW y, SheetSound("ball", 1, b), y \in Seq(Messages), OneRally(2, c, b, z, y)
      PROVE  OneRally(2, a, b, rest, y \o <<>>)
  <2>1. OpensFirst(c, b, z, y) /\ Served0(b, rest)
    BY <1>2, BallMeans DEF StartsBall
  <2>2. Opens(b) /\ b.b.serving /\ b.games = 0 /\ y = <<>>
    BY <2>1 DEF OpensFirst
  <2>3. SameBall(a, b, rest, <<>>)
    BY <1>2, <2>1, <2>2, Joins, PlainBall
  <2>4. y \o <<>> = <<>>
    BY <2>2, Short
  <2>5. QED
    BY <2>3, <2>4 DEF OneRally
<1>3. QED
  BY <1>1, <1>2, HeedsBalls

\* The ball comes back, or is served.
LEMMA BallFliesHeeded ==
  ASSUME NEW p, NEW c, NEW z, z # <<>>, NEW x, x = Head(z), x.t \in {"hit", "serve"}, NEW rest, rest = Tail(z),
         NEW a, a.games = c.games, a.scr = c.scr, a.again = c.again, a.b.ball = "toward", a.b.serving = c.b.serving,
         a.b.score = c.b.score, a.b.due = c.b.due, a.b.done = c.b.done,
         a.b.n = IF x.t = "serve" THEN x.n + 1 ELSE c.b.n
  PROVE  Heeded("ball", p, c, a, z, rest, <<>>)
<1> DEFINE o == Other(p)
<1> HIDE DEF o
<1>1. ASSUME NEW b, NEW y, SheetSound("ball", o, b), y \in Seq(Messages), OneRally(p, c, b, z, y)
      PROVE  OneRally(p, a, b, rest, y \o <<>>)
  <2>1. /\ Paired(c, b) /\ Flying(c, b, z, y) /\ rest = <<>>
        /\ x.t = "hit" => z = <<HIT>>
        /\ x.t = "serve" => z = <<SERVE(b.b.n - 1)>> /\ x.n = b.b.n - 1
    BY <1>1, BallMeans
  <2>2. b.b.n \in Nat
    BY <1>1, PlainBall DEF Rallies
  <2>3. Paired(a, b)
    BY <2>1 DEF Paired, InPlay
  <2>4. y = <<>> /\ y \o <<>> = <<>>
    BY <2>1, Short DEF Flying
  <2>5. /\ ~c.b.due /\ ~b.b.due /\ ~c.b.done /\ ~b.b.done /\ Begun(c.b) /\ Begun(b.b) /\ b.b.ball = "away"
        /\ z = <<HIT>> => Mirrored(c.b.score, b.b.score)
        /\ z = <<SERVE(b.b.n - 1)>> => Mirrored(c.b.score, b.b.score) /\ b.b.n > 0
    <3> DEFINE s == SERVE(b.b.n - 1)
    <3> HIDE DEF s
    <3>1. <<HIT>> # <<MISS, s>> /\ <<s>> # <<MISS, s>> /\ <<HIT>> # <<>> /\ <<s>> # <<>>
      OBVIOUS
    <3>2. HIT # s
      BY Tags DEF s
    <3>3. <<HIT>> # <<s>>
      BY <3>2
    <3>4. QED
      BY <2>1, <3>1, <3>3 DEF Flying, s
  <2>6. Mirrored(a.b.score, b.b.score)
    BY <2>1, <2>5
  <2>7. Begun(a.b)
    BY <2>1, <2>2, <2>5 DEF Begun
  <2>8. Flying(a, b, <<>>, <<>>)
    BY <2>5, <2>6, <2>7 DEF Flying
  <2>9. QED
    BY <2>1, <2>3, <2>4, <2>8 DEF OneRally, SameBall, Turn
<1>2. QED
  BY <1>1, HeedsBalls DEF o

\* The other one has missed: the point is this page's.
LEMMA MissHeeded ==
  ASSUME LiveSetting, NEW p, NEW c, SheetSound("ball", p, c), NEW z, z # <<>>, NEW x, x = Head(z), x.t = "miss", NEW rest, rest = Tail(z),
         NEW a, a.games = c.games, InPlay(a), a.again = c.again, a.b.ball = "none", a.b.serving = c.b.serving,
         a.b.n = c.b.n, a.b.due = c.b.due, a.b.score = <<c.b.score[1] + 1, c.b.score[2]>>, a.b.done <=> IsOver(a.b.score)
  PROVE  Heeded("ball", p, c, a, z, rest, <<>>)
<1> DEFINE o == Other(p)
<1> HIDE DEF o
<1>1. ASSUME NEW b, NEW y, SheetSound("ball", o, b), y \in Seq(Messages), OneRally(p, c, b, z, y)
      PROVE  OneRally(p, a, b, rest, y \o <<>>)
  <2>0. SaysMiss(c, b, z, y, rest)
    BY <1>1, BallMeans
  <2>1. SaysMiss(c, b, z, y, rest) /\ Paired(c, b)
    BY <2>0 DEF SaysMiss
  <2>2. /\ c.b \in Rallies /\ b.b \in Rallies /\ RallySound(c) /\ RallySound(b) /\ InPlay(c) /\ InPlay(b)
        /\ c.again[1] => c.b.done /\ ~c.again[2]
    BY <1>1, <2>1, PlainBall DEF Paired, RallySound
  <2>3. Paired(a, b)
    BY <2>1 DEF Paired
  <2>4. y = <<>> /\ y \o <<>> = <<>>
    BY <2>1, Short DEF SaysMiss, Flying, ToServe, LastPoint
  <2>5. a.b.score = Won(c.b.score)
    BY DEF Won
  <2>6. Begun(c.b) <=> Begun(a.b)
    BY DEF Begun
  <2>7. Mirrored(a.b.score, b.b.score) => (a.b.done <=> b.b.done)
    BY <2>2 DEF Mirrored, IsOver, RallySound
  <2>8. CASE Flying(c, b, z, y) /\ z = <<MISS, SERVE(b.b.n - 1)>> /\ rest = <<SERVE(b.b.n - 1)>>
    <3> DEFINE s == SERVE(b.b.n - 1)
    <3> HIDE DEF s
    <3>1. <<HIT>> # <<MISS, s>> /\ <<s>> # <<MISS, s>> /\ <<MISS, s>> # <<>>
      OBVIOUS
    <3>2. /\ ~c.b.due /\ ~b.b.due /\ ~c.b.done /\ ~b.b.done /\ Begun(c.b) /\ Begun(b.b) /\ b.b.ball = "away"
          /\ b.b.n > 0 /\ Mirrored(Won(c.b.score), b.b.score)
      BY <2>8, <3>1 DEF Flying, s
    <3>3. Flying(a, b, rest, <<>>)
      BY <2>5, <2>6, <2>7, <2>8, <3>2 DEF Flying
    <3>4. QED
      BY <2>3, <2>4, <3>3 DEF OneRally, SameBall, Turn
  <2>9. CASE ToServe(b, c, y, z) /\ z = <<MISS>> /\ rest = <<>>
    <3>1. <<MISS>> # <<>>
      OBVIOUS
    <3>2. b.b.due /\ ~c.b.due /\ ~b.b.done /\ ~c.b.done /\ Begun(b.b) /\ Begun(c.b) /\ b.b.ball = "none"
          /\ Mirrored(b.b.score, Won(c.b.score))
      BY <2>9, <3>1 DEF ToServe
    <3>3. Mirrored(a.b.score, b.b.score)
      BY <2>5, <3>2 DEF Mirrored
    <3>4. ToServe(b, a, <<>>, <<>>)
      BY <2>5, <2>6, <2>7, <3>2, <3>3 DEF ToServe
    <3>5. QED
      BY <2>3, <2>4, <2>9, <3>4 DEF OneRally, SameBall, Turn
  <2>10. CASE LastPoint(b, c, y, z) /\ rest = IF b.again[1] THEN <<AGAIN>> ELSE <<>>
    <3>1. b.b.done /\ ~b.b.due /\ ~c.b.due /\ ~c.b.done /\ Begun(b.b) /\ Begun(c.b) /\ b.b.ball = "none"
          /\ Mirrored(b.b.score, Won(c.b.score)) /\ ~b.again[2] /\ ~c.again[2]
      BY <2>10 DEF LastPoint
    <3>2. Mirrored(a.b.score, b.b.score)
      BY <2>5, <3>1 DEF Mirrored
    <3>3. ~a.again[1] /\ ~a.again[2]
      BY <2>2, <3>1
    <3>4. BothDone(a, b, rest, <<>>)
      BY <2>6, <2>7, <2>10, <3>1, <3>2, <3>3 DEF BothDone, AsksFor
    <3>5. QED
      BY <2>3, <2>4, <3>4 DEF OneRally, SameBall
  <2>11. QED
    BY <2>1, <2>8, <2>9, <2>10 DEF SaysMiss
<1>2. QED
  BY <1>1, HeedsBalls DEF o

\* The other one wants to play again, and this page does not yet.
LEMMA BallAgainHeeded ==
  ASSUME NEW p, NEW c, NEW z, z # <<>>, NEW x, x = Head(z), x.t = "again", NEW rest, rest = Tail(z),
         ~c.again[1], NEW a, a.b = c.b, a.games = c.games, a.scr = c.scr, a.again[2], ~a.again[1]
  PROVE  Heeded("ball", p, c, a, z, rest, <<>>)
<1> DEFINE o == Other(p)
<1> HIDE DEF o
<1>1. ASSUME NEW b, NEW y, SheetSound("ball", o, b), y \in Seq(Messages), OneRally(p, c, b, z, y)
      PROVE  OneRally(p, a, b, rest, y \o <<>>)
  <2>1. Paired(c, b) /\ BothDone(c, b, z, y) /\ AsksFor(c, b) /\ rest = <<>>
    BY <1>1, BallMeans DEF SaysMore, OpensNext
  <2>2. y = <<>> /\ y \o <<>> = <<>>
    BY <2>1, Short DEF BothDone, AsksFor
  <2>3. Paired(a, b)
    BY <2>1 DEF Paired, InPlay, AsksFor
  <2>4. BothDone(a, b, <<>>, <<>>)
    BY <2>1 DEF BothDone, AsksFor
  <2>5. QED
    BY <2>1, <2>2, <2>3, <2>4 DEF OneRally, SameBall
<1>2. QED
  BY <1>1, HeedsBalls DEF o

\* The other one wants to play again, as this page does.
LEMMA BallRematchHeeded ==
  ASSUME NEW p, NEW c, SheetSound("ball", p, c), NEW z, z # <<>>, NEW x, x = Head(z), x.t = "again", NEW rest, rest = Tail(z),
         c.again[1], NEW a, InPlay(a), a.games = c.games + 1, NEW serving \in BOOLEAN, serving <=> ~c.b.serving,
         a.b = Rally(serving), Opens(a), ~a.again[1], ~a.again[2]
  PROVE  Heeded("ball", p, c, a, z, rest, <<>>)
<1> DEFINE o == Other(p)
<1> HIDE DEF o
<1>1. ASSUME NEW b, NEW y, SheetSound("ball", o, b), y \in Seq(Messages), OneRally(p, c, b, z, y)
      PROVE  OneRally(p, a, b, rest, y \o <<>>)
  <2>0. c.b \in Rallies /\ b.b \in Rallies /\ ~c.again[2] /\ (b.again[1] => ~b.again[2])
    BY <1>1, PlainBall
  <2>1. CASE OpensNext(c, b, z, y) /\ Served0(b, rest)
    <3>1. Opens(b) /\ b.games = c.games + 1 /\ (b.b.serving <=> c.b.serving) /\ y = <<>>
      BY <2>1 DEF OpensNext
    <3>2. SameBall(a, b, rest, <<>>)
      BY <2>0, <2>1, <3>1, Joins
    <3>3. y \o <<>> = <<>>
      BY <3>1, Short
    <3>4. QED
      BY <3>2, <3>3 DEF OneRally
  <2>2. CASE Paired(c, b) /\ BothDone(c, b, z, y) /\ AsksFor(c, b) /\ rest = <<>>
    <3>1. b.again[1] /\ ~b.again[2] /\ InPlay(b) /\ b.games = c.games /\ (c.b.serving <=> ~b.b.serving)
      BY <2>0, <2>2 DEF AsksFor, Paired
    <3>2. y = <<AGAIN>>
      BY <2>2, <3>1 DEF BothDone, AsksFor
    <3>3. y \o <<>> = <<AGAIN>>
      BY <3>2, Short
    <3>4. a.b.serving = serving /\ a.b.ball = "none"
      BY DEF Rally
    <3>5. OpensNext(b, a, <<AGAIN>>, <<>>)
      BY <2>0, <3>1, <3>4 DEF OpensNext, Rallies
    <3>6. QED
      BY <2>2, <3>3, <3>5 DEF OneRally
  <2>3. SaysMore(c, b, z, y, rest)
    BY <1>1, BallMeans
  <2>4. QED
    BY <2>1, <2>2, <2>3 DEF SaysMore
<1>2. QED
  BY <1>1, HeedsBalls DEF o

-----------------------------------------------------------------------------
(* The ball duel: steps. *)

\* A page of the ball duel whose rally goes on.
GoesOnAs(c, r, scr) ==
  /\ r \in Rallies /\ scr \in {"play", "end"} /\ (r.done <=> IsOver(r.score)) /\ (r.done <=> scr = "end")
  /\ c.again[1] => scr = "end"
Turned(c, r, scr) == [c EXCEPT !.b = r, !.scr = scr]

LEMMA RallyIs ==
  ASSUME NEW p \in Pages, NEW c, SheetSound("ball", p, c), c.conn, InPlay(c), NEW r, NEW scr, GoesOnAs(c, r, scr),
         NEW a, a = Turned(c, r, scr)
  PROVE  /\ a \in Sheets /\ SheetSound("ball", p, a) /\ a.conn /\ InPlay(a) /\ a.b = r /\ a.scr = scr
         /\ a.games = c.games /\ a.again = c.again
<1> USE DEF GoesOnAs
<1>1. c \in Sheets
  BY DEF SheetSound
<1>2. a \in Sheets /\ a.b = r /\ a.scr = scr /\ a.games = c.games /\ a.again = c.again /\ a.conn = c.conn /\ a.ph = c.ph
      /\ a.m = c.m
  BY <1>1 DEF Sheets, Turned
<1>3. InPlay(a) /\ RallySound(a)
  BY <1>2 DEF InPlay, RallySound
<1>4. SheetSound("ball", p, a)
  BY <1>2, <1>3 DEF SheetSound
<1>5. QED
  BY <1>2, <1>3, <1>4

\* The setting of a ball duel step of page p.
Ball(p, c, z) ==
  /\ live \in Duels /\ live.kind = "ball" /\ c = Pg(p) /\ c = live.page[p] /\ c \in Sheets /\ c.conn /\ c.ph = "none"
  /\ SheetSound("ball", p, c) /\ z = live.to[p] /\ z \in Seq(Messages)

LEMMA BallIs ==
  ASSUME LiveInv(live), live.kind = "ball", NEW p \in Pages, Pg(p).conn PROVE Ball(p, Pg(p), live.to[p])
<1>1. live \in Duels /\ SheetSound("ball", p, Pg(p)) /\ Pg(p) = live.page[p]
  BY DEF LiveInv, Pg
<1>2. Pg(p) \in Sheets /\ Pg(p).ph = "none" /\ live.to[p] \in Seq(Messages)
  BY <1>1 DEF SheetSound, Duels
<1>3. QED
  BY <1>1, <1>2 DEF Ball

\* A page in play turns its rally to r, and says out.
LEMMA RallyStep ==
  ASSUME LiveInv(live), NEW p \in Pages, NEW c, NEW z, Ball(p, c, z), InPlay(c), NEW r, NEW scr, GoesOnAs(c, r, scr),
         NEW a, a = Turned(c, r, scr), NEW out \in Seq(Messages),
         live' = Sent([live EXCEPT !.page[p] = a], p, out), Heeded("ball", p, c, a, z, z, out)
  PROVE  LiveInv(live')
<1>1. live \in Duels /\ c = live.page[p] /\ c.conn /\ SheetSound("ball", p, c) /\ z = live.to[p] /\ live.kind = "ball"
  BY DEF Ball
<1>2. a \in Sheets /\ SheetSound("ball", p, a) /\ a.conn
  BY <1>1, RallyIs
<1>3. Acted(live, live', p, a, z, out)
  BY <1>1, <1>2, SentIs
<1>4. QED
  BY <1>1, <1>2, <1>3, PlayKeeps

\* A page in play turns its rally to r on a message.
LEMMA RallyTaken ==
  ASSUME LiveInv(live), NEW p \in Pages, NEW c, NEW z, Ball(p, c, z), InPlay(c), Deliver(p), NEW r, NEW scr, GoesOnAs(c, r, scr),
         NEW a, a = Turned(c, r, scr),
         Taken(p, Head(z)) = [live EXCEPT !.page[p] = a], Heeded("ball", p, c, a, z, Tail(z), <<>>)
  PROVE  LiveInv(live')
<1>1. live \in Duels /\ c = live.page[p] /\ c = Pg(p) /\ c.conn /\ SheetSound("ball", p, c) /\ z = live.to[p] /\ live.kind = "ball"
  BY DEF Ball
<1>2. a \in Sheets /\ SheetSound("ball", p, a) /\ a.conn
  <2>1. SheetSound("ball", p, c) /\ c.conn /\ InPlay(c) /\ GoesOnAs(c, r, scr) /\ a = Turned(c, r, scr)
    BY <1>1
  <2>2. QED
    BY <2>1, RallyIs
<1>3. Acted(live, live, p, c, z, <<>>)
  BY <1>1, StayIs
<1>4. Acted(live, Taken(p, Head(z)), p, a, z, <<>>)
  BY <1>1, <1>2, <1>3, SetOn
<1>5. QED
  BY <1>1, <1>2, <1>4, DeliverKeeps

LEMMA BallGoComes ==
  ASSUME LiveSetting, LiveInv(live), NEW p \in Pages, NEW c, NEW z, Ball(p, c, z), Deliver(p), NEW x, x = Head(z), x.t = "go",
         c.scr = "ready"
  PROVE  LiveInv(live')
<1>1. /\ live \in Duels /\ live.kind = "ball" /\ c = Pg(p) /\ c = live.page[p] /\ c \in Sheets /\ c.conn /\ c.ph = "none"
      /\ SheetSound("ball", p, c) /\ z = live.to[p] /\ z # <<>>
  BY DEF Ball, Deliver
<1>2. p = 2 /\ c.games = 0
  <2>1. ~InPlay(c)
    BY DEF InPlay
  <2>2. c.scr = (IF p = 1 THEN "here" ELSE "ready") /\ Unplayed(c)
    BY <1>1, <2>1 DEF SheetSound
  <2>3. QED
    BY <2>2, Two DEF Unplayed
<1>5. PICK serving \in BOOLEAN : serving = FALSE
  OBVIOUS
<1>6. Taken(p, x) = BeginGame(live, p, serving)
  BY <1>1, <1>5 DEF Taken
<1> DEFINE a == Fresh(c, live.kind, serving)
<1>7. a = Fresh(c, live.kind, serving)
  OBVIOUS
<1> HIDE DEF a
<1>8. /\ Acted(live, BeginGame(live, p, serving), p, a, z, <<>> \o Greeting(live.kind))
      /\ SheetSound(live.kind, p, a) /\ a.conn /\ a.games = c.games /\ InPlay(a) /\ a.b = Rally(serving)
      /\ ~a.again[1] /\ ~a.again[2]
  <2>1. Acted(live, live, p, c, z, <<>>) /\ <<>> \in Seq(Messages) /\ live.kind \in {"rps", "ball"}
    BY <1>1, StayIs
  <2>2. /\ SheetSound(live.kind, p, a) /\ a.conn /\ a.games = c.games /\ InPlay(a) /\ a.b = Rally(serving)
        /\ ~a.again[1] /\ ~a.again[2]
    BY <1>1, <1>5, <1>7, <2>1, FreshIs
  <2>3. Acted(live, BeginGame(live, p, serving), p, a, z, <<>> \o Greeting(live.kind))
    <3> DEFINE out == <<>>
    <3>1. Acted(live, live, p, c, z, out) /\ out \in Seq(Messages)
      BY <2>1
    <3> HIDE DEF out
    <3>2. Acted(live, BeginGame(live, p, serving), p, a, z, out \o Greeting(live.kind))
      BY <1>1, <1>5, <1>7, <2>1, <3>1, BeginIs
    <3>3. QED
      BY <3>2 DEF out
  <2>4. QED
    BY <2>2, <2>3
<1>9. <<>> \o Greeting(live.kind) = <<>>
  <2>1. Greeting(live.kind) = <<>>
    BY <1>1, GreetingIs
  <2>2. QED
    BY <2>1, Short
<1>10. Heeded("ball", p, c, a, z, Tail(z), <<>>)
  BY <1>1, <1>2, <1>5, <1>8, BallGoHeeded
<1>11. QED
  BY <1>1, <1>6, <1>8, <1>9, <1>10, DeliverKeeps

\* What nobody listens to.
LEMMA BallDropped ==
  ASSUME LiveInv(live), NEW p \in Pages, NEW c, NEW z, Ball(p, c, z), Deliver(p), NEW x, x = Head(z), c.scr = "ready" => x.t # "go",
         c.scr \in {"ready", "here"} \/ x.t \in {"ag", "go"}
  PROVE  LiveInv(live')
<1>1. /\ live \in Duels /\ live.kind = "ball" /\ c = Pg(p) /\ c = live.page[p] /\ c \in Sheets /\ c.conn /\ c.ph = "none"
      /\ SheetSound("ball", p, c) /\ z = live.to[p] /\ z # <<>>
  BY DEF Ball, Deliver
<1>2. Taken(p, x) = live
  BY <1>1 DEF Taken
<1>3. Acted(live, live, p, c, z, <<>>)
  BY <1>1, StayIs
<1> DEFINE o == Other(p)
<1> HIDE DEF o
<1>4. ASSUME NEW b, NEW y, OneRally(p, c, b, z, y) PROVE FALSE
  <2> DEFINE rest == Tail(z)
  <2>1. rest = Tail(z)
    OBVIOUS
  <2> HIDE DEF rest
  <2>2. /\ x.t \in {"go", "again", "hit", "serve", "miss"}
        /\ x.t # "go" => InPlay(c)
        /\ x.t = "go" => StartsBall(p, c, b, z, y, rest)
    <3>1. z # <<>> /\ OneRally(p, c, b, z, y) /\ x = Head(z)
      BY <1>1, <1>4
    <3>2. x.t \in {"go", "again", "hit", "serve", "miss"}
      BY <2>1, <3>1, BallMeans
    <3>3. x.t # "go" => InPlay(c)
      BY <2>1, <3>1, BallMeans
    <3>4. x.t = "go" => StartsBall(p, c, b, z, y, rest)
      BY <2>1, <3>1, BallMeans
    <3>5. QED
      BY <3>2, <3>3, <3>4
  <2>3. CASE x.t = "go"
    <3>1. p = 2 /\ ~InPlay(c)
      BY <2>2, <2>3 DEF StartsBall, OpensFirst
    <3>2. c.scr = "ready"
      BY <1>1, <3>1 DEF SheetSound
    <3>3. QED
      BY <2>3, <3>2
  <2>4. CASE x.t # "go"
    BY <2>2, <2>4 DEF InPlay
  <2>5. QED
    BY <2>3, <2>4
<1>5. Heeded("ball", p, c, c, z, Tail(z), <<>>)
  BY <1>4, HeedsBalls DEF o
<1>6. QED
  BY <1>1, <1>2, <1>3, <1>5, DeliverKeeps

LEMMA BallAgainComes ==
  ASSUME LiveSetting, LiveInv(live), NEW p \in Pages, NEW c, NEW z, Ball(p, c, z), Deliver(p), NEW x, x = Head(z), x.t = "again",
         InPlay(c)
  PROVE  LiveInv(live')
<1>1. /\ live \in Duels /\ live.kind = "ball" /\ c = Pg(p) /\ c = live.page[p] /\ c \in Sheets /\ c.conn /\ c.ph = "none"
      /\ SheetSound("ball", p, c) /\ z = live.to[p] /\ z # <<>>
  BY DEF Ball, Deliver
<1>3. PICK f \in BOOLEAN : f = TRUE
  OBVIOUS
<1> DEFINE g == [c.again EXCEPT ![2] = f]
           a == [c EXCEPT !.again = g]
           M == [live EXCEPT !.page[p] = a]
<1>4. c.again \in BOOLEAN \X BOOLEAN
  BY <1>1 DEF Sheets
<1>5. /\ a \in Sheets /\ a.m = c.m /\ a.games = c.games /\ a.scr = c.scr /\ a.conn /\ a.ph = "none" /\ a.b = c.b
      /\ a.again[2] /\ a.again[1] = c.again[1]
  <2>1. [c.again EXCEPT ![2] = f] = <<c.again[1], f>> /\ [c.again EXCEPT ![2] = f] \in BOOLEAN \X BOOLEAN
    BY <1>4, TwoFlags
  <2>2. g \in BOOLEAN \X BOOLEAN /\ g[1] = c.again[1] /\ g[2] = f
    BY <2>1
  <2> HIDE DEF g
  <2>3. a \in Sheets /\ a.m = c.m /\ a.games = c.games /\ a.scr = c.scr /\ a.conn = c.conn /\ a.ph = c.ph /\ a.b = c.b
        /\ a.again = g
    BY <1>1, <2>2 DEF Sheets
  <2> HIDE DEF a
  <2>4. QED
    BY <1>1, <1>3, <2>2, <2>3
<1>6. Taken(p, x) = Again(M, p)
  <2>1. Taken(p, x) = Again(Set(p, [Pg(p) EXCEPT !.again[2] = TRUE]), p)
    BY <1>1 DEF Taken, InPlay
  <2>2. [Pg(p) EXCEPT !.again[2] = TRUE] = a
    BY <1>1, <1>3 DEF Sheets
  <2>3. QED
    BY <2>1, <2>2 DEF Set
<1>7. Acted(live, M, p, a, z, <<>>)
  <2> HIDE DEF a
  <2>1. Acted(live, live, p, c, z, <<>>)
    BY <1>1, StayIs
  <2>2. QED
    BY <1>1, <1>5, <2>1, SetOn
<1> HIDE DEF a, M
<1>8. CASE ~c.again[1]
  <2>1. Taken(p, x) = M
    <3> DEFINE out == <<>>
    <3>1. out \in Seq(Messages) /\ ~(a.again[1] /\ a.again[2]) /\ Acted(live, M, p, a, z, out)
      BY <1>5, <1>7, <1>8
    <3> HIDE DEF out
    <3>2. Again(M, p) = M
      BY <1>1, <1>5, <3>1, AgainIs
    <3>3. QED
      BY <1>6, <3>2
  <2>2. SheetSound("ball", p, a)
    BY <1>1, <1>5, <1>8 DEF SheetSound, InPlay, RallySound
  <2>3. Heeded("ball", p, c, a, z, Tail(z), <<>>)
    BY <1>1, <1>5, <1>8, BallAgainHeeded
  <2>4. QED
    BY <1>1, <1>5, <1>7, <2>1, <2>2, <2>3, DeliverKeeps
<1>9. CASE c.again[1]
  <2> DEFINE out == <<>>
  <2>1. out \in Seq(Messages) /\ a.again[1] /\ a.again[2] /\ Acted(live, M, p, a, z, out)
    BY <1>5, <1>7, <1>9
  <2> HIDE DEF out
  <2>2. PICK d, serving :
           /\ Acted(live, Again(M, p), p, d, z, out \o Greeting(live.kind))
           /\ d \in Sheets /\ SheetSound(live.kind, p, d) /\ d.conn /\ d.games = a.games + 1 /\ InPlay(d) /\ Starts(d)
           /\ d.m = Match(a.games + 1) /\ serving \in BOOLEAN /\ (serving <=> ~a.b.serving)
           /\ d.b = Rally(serving) /\ Opens(d) /\ ~d.again[1] /\ ~d.again[2]
    BY <1>1, <1>5, <2>1, AgainIs
  <2>3. out \o Greeting(live.kind) = <<>>
    <3>1. Greeting(live.kind) = <<>>
      BY <1>1, GreetingIs
    <3>2. QED
      BY <3>1, Short DEF out
  <2>4. Heeded("ball", p, c, d, z, Tail(z), <<>>)
    BY <1>1, <1>5, <1>9, <2>2, BallRematchHeeded
  <2>5. QED
    BY <1>1, <1>6, <2>2, <2>3, <2>4, DeliverKeeps
<1>10. QED
  BY <1>8, <1>9

LEMMA InBall ==
  ASSUME NEW p \in Pages, NEW c, NEW z, Ball(p, c, z), InPlay(c)
  PROVE  /\ c.b \in Rallies /\ RallySound(c) /\ (c.again[1] => c.scr = "end") /\ c.scr \in {"play", "end"}
         /\ c.b.score \in Scores /\ c.b.score[1] \in Nat /\ c.b.score[2] \in Nat /\ c.b.n \in Nat /\ c.b.hits \in Nat
<1>1. SheetSound("ball", p, c)
  BY DEF Ball
<1>2. c.b \in Rallies /\ RallySound(c) /\ (c.again[1] => c.scr = "end")
  BY <1>1, PlainBall
<1>3. QED
  BY <1>2 DEF InPlay, Rallies, Scores

\* A point for side i.
LEMMA PointIs ==
  ASSUME NEW b \in Rallies
  PROVE  /\ Point(b, 1) \in Rallies /\ Point(b, 1).score = <<b.score[1] + 1, b.score[2]>>
         /\ Point(b, 2) \in Rallies /\ Point(b, 2).score = <<b.score[1], b.score[2] + 1>>
         /\ \A i \in {1, 2} : /\ Point(b, i).ball = "none" /\ Point(b, i).serving = b.serving /\ Point(b, i).n = b.n
                              /\ Point(b, i).due = b.due /\ Point(b, i).done = b.done
<1>1. PICK s \in Nat, t \in Nat : b.score = <<s, t>>
  BY DEF Rallies, Scores
<1> DEFINE u == <<s + 1, t>>
           v == <<s, t + 1>>
<1>2. [b.score EXCEPT ![1] = @ + 1] = u /\ [b.score EXCEPT ![2] = @ + 1] = v /\ u \in Scores /\ v \in Scores
      /\ u = <<b.score[1] + 1, b.score[2]>> /\ v = <<b.score[1], b.score[2] + 1>>
  BY <1>1 DEF Scores
<1> HIDE DEF u, v
<1>3. Point(b, 1) = [b EXCEPT !.score = u, !.ball = "none"] /\ Point(b, 2) = [b EXCEPT !.score = v, !.ball = "none"]
  BY <1>2 DEF Point, Rallies
<1>4. ASSUME NEW z, NEW q, z \in Scores, q = [b EXCEPT !.score = z, !.ball = "none"]
      PROVE  /\ q \in Rallies /\ q.score = z /\ q.ball = "none" /\ q.serving = b.serving /\ q.n = b.n
             /\ q.due = b.due /\ q.done = b.done
  BY <1>4 DEF Rallies
<1> DEFINE q == Point(b, 1)
           w == Point(b, 2)
<1>5. q = [b EXCEPT !.score = u, !.ball = "none"] /\ w = [b EXCEPT !.score = v, !.ball = "none"]
  BY <1>3
<1> HIDE DEF q, w
<1>6. /\ q \in Rallies /\ q.score = u /\ q.ball = "none" /\ q.serving = b.serving /\ q.n = b.n
      /\ q.due = b.due /\ q.done = b.done
  BY <1>2, <1>4, <1>5
<1>7. /\ w \in Rallies /\ w.score = v /\ w.ball = "none" /\ w.serving = b.serving /\ w.n = b.n
      /\ w.due = b.due /\ w.done = b.done
  BY <1>2, <1>4, <1>5
<1>8. QED
  BY <1>2, <1>6, <1>7 DEF q, w

\* Rally b with the end of the game checked.
OverOf(b) == IsOver(b.score)
Ends(c, b) == IF OverOf(b) THEN "end" ELSE c.scr
Closed(b) == [b EXCEPT !.done = OverOf(b)]

LEMMA CheckedIs ==
  ASSUME NEW c \in Sheets, NEW b PROVE Checked(c, b) = Turned(c, Closed(b), Ends(c, b))
  BY DEF Checked, Turned, Closed, Ends, OverOf

\* The score of page c's rally has grown, to that of b.
LEMMA GrownIs ==
  ASSUME LiveSetting, NEW p \in Pages, NEW c, NEW z, Ball(p, c, z), InPlay(c), NEW b \in Rallies,
         \/ b.score = <<c.b.score[1] + 1, c.b.score[2]>>
         \/ b.score = <<c.b.score[1], c.b.score[2] + 1>>
  PROVE  /\ GoesOnAs(c, Closed(b), Ends(c, b)) /\ Closed(b) \in Rallies
         /\ Closed(b).score = b.score /\ Closed(b).ball = b.ball /\ Closed(b).serving = b.serving /\ Closed(b).n = b.n
         /\ Closed(b).due = b.due /\ (Closed(b).done <=> IsOver(b.score))
<1>1. PICK f \in BOOLEAN : f = OverOf(b)
  BY DEF OverOf, IsOver
<1> DEFINE r == Closed(b)
<1>2. r = [b EXCEPT !.done = f]
  BY <1>1 DEF Closed
<1>3. /\ r \in Rallies /\ r.score = b.score /\ r.ball = b.ball /\ r.serving = b.serving /\ r.n = b.n /\ r.due = b.due
      /\ r.done = f
  BY <1>2 DEF Rallies
<1> HIDE DEF r
<1>4. /\ c.b \in Rallies /\ RallySound(c) /\ (c.again[1] => c.scr = "end") /\ c.scr \in {"play", "end"}
      /\ c.b.score \in Scores /\ c.b.score[1] \in Nat /\ c.b.score[2] \in Nat
  BY InBall
<1>5. IsOver(c.b.score) => IsOver(b.score)
  BY <1>4 DEF IsOver, LiveSetting
<1>6. c.scr = "end" => IsOver(c.b.score)
  BY <1>4 DEF RallySound
<1>7. f <=> IsOver(b.score)
  BY <1>1 DEF OverOf
<1>8. Ends(c, b) \in {"play", "end"} /\ (f <=> Ends(c, b) = "end") /\ (c.again[1] => Ends(c, b) = "end")
  BY <1>1, <1>4, <1>5, <1>6, <1>7 DEF Ends
<1>9. GoesOnAs(c, r, Ends(c, b))
  BY <1>3, <1>7, <1>8 DEF GoesOnAs
<1>10. QED
  BY <1>3, <1>7, <1>9 DEF r

LEMMA MissComes ==
  ASSUME LiveSetting, LiveInv(live), NEW p \in Pages, NEW c, NEW z, Ball(p, c, z), InPlay(c), Deliver(p),
         NEW x, x = Head(z), x.t = "miss"
  PROVE  LiveInv(live')
<1>1. /\ live \in Duels /\ live.kind = "ball" /\ c = Pg(p) /\ c \in Sheets /\ SheetSound("ball", p, c) /\ z # <<>>
      /\ z = live.to[p] /\ c.b \in Rallies
  BY InBall DEF Ball, Deliver
<1> DEFINE b == Point(c.b, 1)
           a == Turned(c, Closed(b), Ends(c, b))
<1>2. /\ b \in Rallies /\ b.score = <<c.b.score[1] + 1, c.b.score[2]>> /\ b.ball = "none" /\ b.serving = c.b.serving
      /\ b.n = c.b.n /\ b.due = c.b.due
  BY <1>1, PointIs
<1>3. Taken(p, x) = [live EXCEPT !.page[p] = a]
  <2>1. Taken(p, x) = TakeBall(p, x)
    BY <1>1 DEF Taken, InPlay
  <2>2. TakeBall(p, x) = Set(p, Checked(c, b))
    BY <1>1 DEF TakeBall
  <2>3. Checked(c, b) = a
    BY <1>1, CheckedIs
  <2>4. QED
    BY <2>1, <2>2, <2>3 DEF Set
<1> HIDE DEF b
<1>4. /\ GoesOnAs(c, Closed(b), Ends(c, b)) /\ Closed(b) \in Rallies
      /\ Closed(b).score = b.score /\ Closed(b).ball = b.ball /\ Closed(b).serving = b.serving /\ Closed(b).n = b.n
      /\ Closed(b).due = b.due /\ (Closed(b).done <=> IsOver(b.score))
  BY <1>2, GrownIs
<1> DEFINE r == Closed(b)
           scr == Ends(c, b)
<1>5. a = Turned(c, r, scr) /\ GoesOnAs(c, r, scr)
  BY <1>4
<1>6. /\ r.score = b.score /\ r.ball = b.ball /\ r.serving = b.serving /\ r.n = b.n
      /\ r.due = b.due /\ (r.done <=> IsOver(b.score))
  BY <1>4
<1> HIDE DEF r, scr, a
<1>7. InPlay(a) /\ a.b = r /\ a.games = c.games /\ a.again = c.again
  <2>1. SheetSound("ball", p, c) /\ c.conn /\ InPlay(c)
    BY DEF Ball
  <2>2. QED
    BY <1>5, <2>1, RallyIs
<1> DEFINE rest == Tail(z)
<1>8. rest = Tail(z)
  OBVIOUS
<1> HIDE DEF rest
<1>9. Heeded("ball", p, c, a, z, rest, <<>>)
  <2>1. /\ a.b.ball = "none" /\ a.b.serving = c.b.serving /\ a.b.n = c.b.n /\ a.b.due = c.b.due
        /\ a.b.score = <<c.b.score[1] + 1, c.b.score[2]>> /\ (a.b.done <=> IsOver(a.b.score))
    BY <1>2, <1>6, <1>7
  <2>2. QED
    BY <1>1, <1>7, <1>8, <2>1, MissHeeded
<1>10. QED
  BY <1>3, <1>5, <1>8, <1>9, RallyTaken

LEMMA BallFlies ==
  ASSUME LiveSetting, LiveInv(live), NEW p \in Pages, NEW c, NEW z, Ball(p, c, z), InPlay(c), Deliver(p),
         NEW x, x = Head(z), x.t \notin {"miss", "again", "go", "ag"}
  PROVE  LiveInv(live')
<1>1. /\ live \in Duels /\ live.kind = "ball" /\ c = Pg(p) /\ c \in Sheets /\ SheetSound("ball", p, c) /\ z # <<>>
      /\ z = live.to[p] /\ c.b \in Rallies /\ c.b.n \in Nat /\ c.b.hits \in Nat /\ RallySound(c) /\ c.scr \in {"play", "end"}
      /\ c.again[1] => c.scr = "end"
  BY InBall DEF Ball, Deliver
<1>2. x \in Messages
  BY <1>1, TakingTyped DEF Ball
<1>3. x.t = "serve" => x.n \in Nat
  BY <1>2 DEF Messages, GO, AG, AGAIN, MISS, HIT
<1> DEFINE n == IF x.t = "serve" THEN x.n + 1 ELSE c.b.n
           hits == IF x.t = "serve" THEN 0 ELSE c.b.hits
           r == [c.b EXCEPT !.ball = "toward", !.n = n, !.hits = hits]
           scr == c.scr
           a == Turned(c, r, scr)
<1>4. n \in Nat /\ hits \in Nat /\ (x.t = "serve" => n = x.n + 1) /\ (x.t # "serve" => n = c.b.n)
  BY <1>1, <1>3
<1>5. Taken(p, x) = [live EXCEPT !.page[p] = a]
  <2>1. Taken(p, x) = TakeBall(p, x)
    BY <1>1 DEF Taken, InPlay
  <2>2. TakeBall(p, x) = Set(p, [c EXCEPT !.b = r])
    BY <1>1 DEF TakeBall
  <2> HIDE DEF r
  <2>3. [c EXCEPT !.b = r] = a
    BY <1>1 DEF Turned, Sheets
  <2>4. QED
    BY <2>1, <2>2, <2>3 DEF Set
<1> HIDE DEF n, hits
<1>6. /\ r \in Rallies /\ r.ball = "toward" /\ r.n = n /\ r.serving = c.b.serving /\ r.score = c.b.score /\ r.due = c.b.due
      /\ r.done = c.b.done
  BY <1>1, <1>4 DEF Rallies
<1> HIDE DEF r
<1>7. a = Turned(c, r, scr) /\ GoesOnAs(c, r, scr) /\ scr = c.scr
  BY <1>1, <1>6 DEF GoesOnAs, RallySound
<1> HIDE DEF scr, a
<1>8. a.b = r /\ a.games = c.games /\ a.again = c.again /\ a.scr = c.scr
  <2>1. SheetSound("ball", p, c) /\ c.conn /\ InPlay(c)
    BY DEF Ball
  <2>2. QED
    BY <1>7, <2>1, RallyIs
<1> DEFINE rest == Tail(z)
<1>9. rest = Tail(z)
  OBVIOUS
<1> HIDE DEF rest
<1>10. Heeded("ball", p, c, a, z, rest, <<>>)
  <2>1. CASE x.t \in {"hit", "serve"}
    <3>1. /\ a.b.ball = "toward" /\ a.b.serving = c.b.serving /\ a.b.score = c.b.score /\ a.b.due = c.b.due
          /\ a.b.done = c.b.done /\ a.b.n = IF x.t = "serve" THEN x.n + 1 ELSE c.b.n
      BY <1>4, <1>6, <1>8
    <3>2. QED
      BY <1>1, <1>8, <1>9, <2>1, <3>1, BallFliesHeeded
  <2>2. CASE x.t \notin {"hit", "serve"}
    <3> DEFINE o == Other(p)
    <3> HIDE DEF o
    <3>1. ASSUME NEW b, NEW y, OneRally(p, c, b, z, y) PROVE FALSE
      <4>1. z # <<>> /\ OneRally(p, c, b, z, y) /\ x = Head(z)
        BY <1>1, <3>1
      <4>2. x.t \in {"go", "again", "hit", "serve", "miss"}
        BY <1>9, <4>1, BallMeans
      <4>3. QED
        BY <2>2, <4>2
    <3>2. QED
      BY <3>1, HeedsBalls DEF o
  <2>3. QED
    BY <2>1, <2>2
<1>11. QED
  BY <1>5, <1>7, <1>9, <1>10, RallyTaken

LEMMA BallDeliverStep ==
  ASSUME LiveSetting, LiveInv(live), NEW p \in Pages, Deliver(p), live.kind = "ball" PROVE LiveInv(live')
<1> DEFINE c == Pg(p)
           z == live.to[p]
           x == Head(z)
<1>1. Ball(p, c, z)
  BY BallIs DEF Deliver
<1>2. InPlay(c) \/ c.scr \in {"ready", "here"}
  <2>1. SheetSound("ball", p, c) /\ c.conn
    BY <1>1 DEF Ball
  <2>2. QED
    BY <2>1 DEF SheetSound
<1>3. x = Head(z)
  OBVIOUS
<1> HIDE DEF c, z, x
<1>4. CASE c.scr = "ready" /\ x.t = "go"
  BY <1>1, <1>3, <1>4, BallGoComes
<1>5. CASE (c.scr = "ready" => x.t # "go") /\ (c.scr \in {"ready", "here"} \/ x.t \in {"ag", "go"})
  BY <1>1, <1>3, <1>5, BallDropped
<1>6. CASE InPlay(c) /\ x.t = "again"
  BY <1>1, <1>3, <1>6, BallAgainComes
<1>7. CASE InPlay(c) /\ x.t = "miss"
  BY <1>1, <1>3, <1>7, MissComes
<1>8. CASE InPlay(c) /\ x.t \notin {"miss", "again", "go", "ag"}
  BY <1>1, <1>3, <1>8, BallFlies
<1>9. QED
  BY <1>2, <1>4, <1>5, <1>6, <1>7, <1>8

-----------------------------------------------------------------------------
(* The ball duel: a player acts. *)

\* Who may serve.
LEMMA ServerIs ==
  ASSUME NEW p, NEW c, NEW b, NEW z, NEW y, c.scr = "play", ~c.again[1], FirstServe(c.b) \/ c.b.due, c.b.n \in Nat, OneRally(p, c, b, z, y)
  PROVE  \/ p = 1 /\ OpensFirst(b, c, y, z) /\ y = <<GO>> /\ FirstServe(c.b)
         \/ OpensNext(b, c, y, z) /\ y = <<AGAIN>> /\ FirstServe(c.b)
         \/ Paired(c, b) /\ ToOpen(c, b, z, y)
         \/ Paired(c, b) /\ ToServe(c, b, z, y)
<1>1. InPlay(c)
  BY DEF InPlay
<1>2. Opens(c) => FirstServe(c.b) /\ c.b.ball = "none"
  BY DEF Opens, FirstServe
<1>3. OpensFirst(b, c, y, z) => y = <<GO>> /\ FirstServe(c.b)
  BY <1>2 DEF OpensFirst
<1>4. OpensNext(b, c, y, z) => y = <<AGAIN>> /\ FirstServe(c.b)
  BY <1>2 DEF OpensNext
<1>5. ~OpensFirst(c, b, z, y) /\ ~OpensNext(c, b, z, y)
  BY <1>1 DEF OpensFirst, OpensNext
<1>6. ~Flying(c, b, z, y) /\ ~Flying(b, c, y, z)
  BY DEF Flying, Begun, FirstServe
<1>7. ~LastPoint(c, b, z, y) /\ ~LastPoint(b, c, y, z) /\ ~BothDone(c, b, z, y)
  BY DEF LastPoint, BothDone, Begun, FirstServe
<1>8. ~ToOpen(b, c, y, z) /\ ~ToServe(b, c, y, z)
  BY DEF ToOpen, ToServe, Begun, FirstServe
<1>9. QED
  BY <1>1, <1>3, <1>4, <1>5, <1>6, <1>7, <1>8 DEF OneRally, SameBall, Turn

LEMMA ServeHeeded ==
  ASSUME NEW p, NEW c, NEW z, c.scr = "play", ~c.again[1], FirstServe(c.b) \/ c.b.due, c.b \in Rallies,
         NEW a, a.games = c.games, a.scr = c.scr, a.again = c.again, a.b.ball = "away", a.b.n = c.b.n + 1, ~a.b.due,
         a.b.serving = c.b.serving, a.b.score = c.b.score, a.b.done = c.b.done, NEW out, out = <<SERVE(c.b.n)>>
  PROVE  Heeded("ball", p, c, a, z, z, out)
<1> DEFINE o == Other(p)
<1> HIDE DEF o
<1>0. c.b.n \in Nat
  BY DEF Rallies
<1>1. ASSUME NEW b, NEW y, SheetSound("ball", o, b), y \in Seq(Messages), OneRally(p, c, b, z, y)
      PROVE  OneRally(p, a, b, z, y \o out)
  <2>1. InPlay(a) /\ InPlay(c)
    BY DEF InPlay
  <2> DEFINE s == SERVE(c.b.n)
  <2>2. out = <<s>> /\ s = SERVE(a.b.n - 1) /\ (FirstServe(c.b) => s = SERVE(0) /\ a.b.n = 1)
    BY <1>0 DEF FirstServe
  <2> HIDE DEF s
  <2>3. CASE OpensFirst(b, c, y, z) /\ y = <<GO>> /\ FirstServe(c.b) /\ p = 1
    <3>1. y \o out = <<GO, s>>
      BY <2>2, <2>3, Appended
    <3>2. Opens(a)
      BY <1>0, <2>2, <2>3 DEF OpensFirst, Opens, FirstServe
    <3>3. OpensFirst(b, a, y \o out, z)
      BY <2>2, <2>3, <3>1, <3>2 DEF OpensFirst
    <3>4. QED
      BY <2>3, <3>3 DEF OneRally
  <2>4. CASE OpensNext(b, c, y, z) /\ y = <<AGAIN>> /\ FirstServe(c.b)
    <3>1. y \o out = <<AGAIN, s>>
      BY <2>2, <2>4, Appended
    <3>2. Opens(a)
      BY <1>0, <2>2, <2>4 DEF OpensNext, Opens, FirstServe
    <3>3. OpensNext(b, a, y \o out, z)
      BY <2>2, <2>4, <3>1, <3>2 DEF OpensNext
    <3>4. QED
      BY <3>3 DEF OneRally
  <2>5. ASSUME Paired(c, b), Flying(b, a, y \o out, z) PROVE OneRally(p, a, b, z, y \o out)
    <3>1. Paired(a, b)
      BY <2>1, <2>5 DEF Paired
    <3>2. QED
      BY <2>5, <3>1 DEF OneRally, SameBall, Turn
  <2>6. CASE Paired(c, b) /\ ToOpen(c, b, z, y)
    <3>1. y \o out = <<s>>
      <4>1. y = <<>> /\ out = <<s>>
        BY <2>2, <2>6 DEF ToOpen
      <4>2. QED
        BY <4>1, Short
    <3>2. Begun(a.b) /\ Begun(b.b)
      BY <1>0, <2>6 DEF Begun, ToOpen
    <3>3. Flying(b, a, y \o out, z)
      BY <1>0, <2>2, <2>6, <3>1, <3>2 DEF Flying, ToOpen, Mirrored
    <3>4. QED
      BY <2>5, <2>6, <3>3
  <2>7. CASE Paired(c, b) /\ ToServe(c, b, z, y)
    <3>2. Begun(a.b) /\ Begun(b.b)
      BY <1>0, <2>7 DEF Begun, ToServe
    <3>3. CASE y = <<>> /\ b.b.ball = "none" /\ Mirrored(c.b.score, b.b.score)
      <4>1. y \o out = <<s>>
        BY <2>2, <3>3, Short
      <4>2. Mirrored(b.b.score, a.b.score)
        BY <3>3 DEF Mirrored
      <4>3. Flying(b, a, y \o out, z)
        BY <1>0, <2>2, <2>7, <3>2, <3>3, <4>1, <4>2 DEF Flying, ToServe
      <4>4. QED
        BY <2>5, <2>7, <4>3
    <3>4. CASE y = <<MISS>> /\ b.b.ball = "away" /\ Mirrored(c.b.score, Won(b.b.score))
      <4>1. y \o out = <<MISS, s>>
        BY <2>2, <3>4, Appended
      <4>2. Mirrored(Won(b.b.score), a.b.score)
        BY <3>4 DEF Mirrored
      <4>3. Flying(b, a, y \o out, z)
        BY <1>0, <2>2, <2>7, <3>2, <3>4, <4>1, <4>2 DEF Flying, ToServe
      <4>4. QED
        BY <2>5, <2>7, <4>3
    <3>5. QED
      BY <2>7, <3>3, <3>4 DEF ToServe
  <2>8. QED
    BY <1>0, <1>1, <2>3, <2>4, <2>6, <2>7, ServerIs
<1>2. QED
  BY <1>1, HeedsBalls DEF o

LEMMA ServeStep == ASSUME LiveSetting, LiveInv(live), NEW p \in Pages, Serve(p) PROVE LiveInv(live')
<1> DEFINE c == Pg(p)
           z == live.to[p]
<1>1. Ball(p, c, z)
  BY BallIs DEF Serve, Playing
<1>2. live \in Duels /\ c = Pg(p) /\ c \in Sheets /\ c.scr = "play" /\ InPlay(c) /\ (FirstServe(c.b) \/ c.b.due)
  BY <1>1 DEF Serve, Playing, InPlay, Ball, FirstServe
<1> DEFINE r == Served(c.b)
           scr == c.scr
           a == Turned(c, r, scr)
           out == <<SERVE(c.b.n)>>
<1>3. live' = Sent([live EXCEPT !.page[p] = a], p, out)
  <2>1. live' = Sent(Set(p, [c EXCEPT !.b = r]), p, <<SERVE(c.b.n)>>)
    BY DEF Serve, SERVE
  <2> HIDE DEF r, c
  <2>2. [c EXCEPT !.b = r] = a
    BY <1>2 DEF Turned, Sheets
  <2>3. QED
    BY <2>1, <2>2 DEF Set
<1> HIDE DEF c, z
<1>4. /\ c.b \in Rallies /\ RallySound(c) /\ (c.again[1] => c.scr = "end") /\ c.b.n \in Nat
  BY <1>1, <1>2, InBall
<1>5. PICK f \in BOOLEAN : f = FALSE
  OBVIOUS
<1>6. /\ r \in Rallies /\ r.ball = "away" /\ r.n = c.b.n + 1 /\ r.due = f /\ r.serving = c.b.serving
      /\ r.score = c.b.score /\ r.done = c.b.done
  <2> DEFINE d == c.b
             n == d.n + 1
  <2>1. d \in Rallies /\ n \in Nat /\ r = [d EXCEPT !.ball = "away", !.n = n, !.due = f, !.hits = 0]
    <3>1. d \in Rallies /\ n \in Nat
      BY <1>4
    <3>2. r = [d EXCEPT !.ball = "away", !.n = @ + 1, !.due = FALSE, !.hits = 0]
      BY DEF Served
    <3>3. [d EXCEPT !.ball = "away", !.n = @ + 1, !.due = FALSE, !.hits = 0]
            = [d EXCEPT !.ball = "away", !.n = n, !.due = f, !.hits = 0]
      BY <1>5, <3>1 DEF Rallies
    <3>4. QED
      BY <3>1, <3>2, <3>3
  <2>2. n = c.b.n + 1 /\ d = c.b
    OBVIOUS
  <2> HIDE DEF d, n, r
  <2>3. /\ r \in Rallies /\ r.ball = "away" /\ r.n = n /\ r.due = f /\ r.serving = d.serving
        /\ r.score = d.score /\ r.done = d.done
    BY <2>1 DEF Rallies
  <2>4. QED
    BY <2>2, <2>3
<1> HIDE DEF r
<1>7. a = Turned(c, r, scr) /\ GoesOnAs(c, r, scr) /\ scr = c.scr
  BY <1>2, <1>4, <1>6 DEF GoesOnAs, RallySound
<1>8. out \in Seq(Messages) /\ out = <<SERVE(c.b.n)>>
  BY <1>4, MessagesAre
<1> HIDE DEF scr, a, out
<1>9. a.b = r /\ a.games = c.games /\ a.again = c.again /\ a.scr = c.scr
  <2>1. SheetSound("ball", p, c) /\ c.conn /\ InPlay(c)
    BY <1>1, <1>2 DEF Ball
  <2>2. QED
    BY <1>7, <2>1, RallyIs
<1>10. Heeded("ball", p, c, a, z, z, out)
  <2>1. /\ a.b.ball = "away" /\ a.b.n = c.b.n + 1 /\ ~a.b.due
        /\ a.b.serving = c.b.serving /\ a.b.score = c.b.score /\ a.b.done = c.b.done
    BY <1>5, <1>6, <1>9
  <2>2. ~c.again[1]
    BY <1>2, <1>4
  <2>3. QED
    BY <1>2, <1>4, <1>8, <1>9, <2>1, <2>2, ServeHeeded
<1>11. QED
  BY <1>1, <1>2, <1>3, <1>7, <1>8, <1>10, RallyStep

\* Whose ball flies towards it.
LEMMA ReceiverIs ==
  ASSUME NEW p, NEW c, NEW b, NEW z, NEW y, c.scr = "play", ~c.again[1], c.b.ball = "toward", OneRally(p, c, b, z, y)
  PROVE  /\ Paired(c, b) /\ Flying(c, b, z, y) /\ z = <<>> /\ y = <<>> /\ Mirrored(c.b.score, b.b.score)
<1>1. InPlay(c) /\ ~Opens(c)
  BY DEF InPlay, Opens
<1>2. ~OpensFirst(c, b, z, y) /\ ~OpensNext(c, b, z, y) /\ ~OpensFirst(b, c, y, z) /\ ~OpensNext(b, c, y, z)
  BY <1>1 DEF OpensFirst, OpensNext
<1>3. ~ToOpen(c, b, z, y) /\ ~ToServe(c, b, z, y) /\ ~LastPoint(c, b, z, y) /\ ~BothDone(c, b, z, y)
  BY DEF ToOpen, ToServe, LastPoint, BothDone, FirstServe
<1>4. ~ToOpen(b, c, y, z) /\ ~ToServe(b, c, y, z) /\ ~LastPoint(b, c, y, z) /\ ~Flying(b, c, y, z)
  BY DEF ToOpen, ToServe, LastPoint, Flying
<1>5. Paired(c, b) /\ Flying(c, b, z, y)
  BY <1>1, <1>2, <1>3, <1>4 DEF OneRally, SameBall, Turn
<1>6. QED
  BY <1>5 DEF Flying

LEMMA HitStep == ASSUME LiveSetting, LiveInv(live), NEW p \in Pages, Hit(p) PROVE LiveInv(live')
<1> DEFINE c == Pg(p)
           z == live.to[p]
<1>1. Ball(p, c, z)
  BY BallIs DEF Hit, Playing
<1>2. live \in Duels /\ c = Pg(p) /\ c \in Sheets /\ c.scr = "play" /\ InPlay(c) /\ c.b.ball = "toward"
  BY <1>1 DEF Hit, Playing, InPlay, Ball
<1> DEFINE r == [c.b EXCEPT !.ball = "away", !.hits = @ + 1]
           scr == c.scr
           a == Turned(c, r, scr)
           out == <<HIT>>
<1>4. /\ c.b \in Rallies /\ RallySound(c) /\ (c.again[1] => c.scr = "end") /\ c.b.hits \in Nat
  BY <1>1, <1>2, InBall
<1>3. live' = Sent([live EXCEPT !.page[p] = a], p, out)
  <2>1. live' = Sent(Set(p, [c EXCEPT !.b.ball = "away", !.b.hits = @ + 1]), p, <<HIT>>)
    BY DEF Hit, HIT
  <2> HIDE DEF c
  <2>2. [c EXCEPT !.b.ball = "away", !.b.hits = @ + 1] = a
    BY <1>2, <1>4 DEF Turned, Sheets, Rallies
  <2>3. QED
    BY <2>1, <2>2 DEF Set
<1> HIDE DEF c, z
<1>6. /\ r \in Rallies /\ r.ball = "away" /\ r.n = c.b.n /\ r.due = c.b.due /\ r.serving = c.b.serving
      /\ r.score = c.b.score /\ r.done = c.b.done
  <2> DEFINE d == c.b
             n == d.hits + 1
  <2>1. d \in Rallies /\ n \in Nat /\ r = [d EXCEPT !.ball = "away", !.hits = n]
    BY <1>4 DEF Rallies
  <2>2. d = c.b
    OBVIOUS
  <2> HIDE DEF d, n, r
  <2>3. /\ r \in Rallies /\ r.ball = "away" /\ r.n = d.n /\ r.due = d.due /\ r.serving = d.serving
        /\ r.score = d.score /\ r.done = d.done
    BY <2>1 DEF Rallies
  <2>4. QED
    BY <2>2, <2>3
<1> HIDE DEF r
<1>7. a = Turned(c, r, scr) /\ GoesOnAs(c, r, scr) /\ scr = c.scr
  BY <1>2, <1>4, <1>6 DEF GoesOnAs, RallySound
<1>8. out \in Seq(Messages) /\ out = <<HIT>>
  BY MessagesAre
<1> HIDE DEF scr, a, out
<1>9. a.b = r /\ a.games = c.games /\ a.again = c.again /\ a.scr = c.scr /\ InPlay(a)
  <2>1. SheetSound("ball", p, c) /\ c.conn /\ InPlay(c)
    BY <1>1, <1>2 DEF Ball
  <2>2. QED
    BY <1>7, <2>1, RallyIs
<1> DEFINE o == Other(p)
<1> HIDE DEF o
<1>10. ASSUME NEW b, NEW y, SheetSound("ball", o, b), y \in Seq(Messages), OneRally(p, c, b, z, y)
       PROVE  OneRally(p, a, b, z, y \o out)
  <2>1. Paired(c, b) /\ Flying(c, b, z, y) /\ z = <<>> /\ y = <<>> /\ Mirrored(c.b.score, b.b.score)
    <3>1. ~c.again[1]
      BY <1>2, <1>4
    <3>2. QED
      BY <1>2, <1>10, <3>1, ReceiverIs
  <2>2. y \o out = <<HIT>>
    BY <1>8, <2>1, Short
  <2>3. Paired(a, b)
    BY <1>6, <1>9, <2>1 DEF Paired
  <2>4. /\ ~a.b.due /\ ~b.b.due /\ ~a.b.done /\ ~b.b.done /\ Begun(a.b) /\ Begun(b.b) /\ b.b.ball = "away" /\ a.b.ball = "away"
    BY <1>6, <1>9, <2>1 DEF Flying, Begun
  <2>5. Mirrored(b.b.score, a.b.score)
    BY <1>6, <1>9, <2>1 DEF Mirrored
  <2>6. Flying(b, a, <<HIT>>, <<>>)
    BY <2>4, <2>5 DEF Flying
  <2>7. QED
    BY <2>1, <2>2, <2>3, <2>6 DEF OneRally, SameBall, Turn
<1>11. Heeded("ball", p, c, a, z, z, out)
  BY <1>10, HeedsBalls DEF o
<1>12. QED
  BY <1>1, <1>2, <1>3, <1>7, <1>8, <1>11, RallyStep

LEMMA MissStep == ASSUME LiveSetting, LiveInv(live), NEW p \in Pages, Miss(p) PROVE LiveInv(live')
<1> DEFINE c == Pg(p)
           z == live.to[p]
           d == Point(c.b, 2)
           due == ~IsOver(d.score)
           b0 == [d EXCEPT !.due = due]
           out == <<MISS>>
<1>1. Ball(p, c, z)
  BY BallIs DEF Miss, Playing
<1>2. live \in Duels /\ c = Pg(p) /\ c \in Sheets /\ c.scr = "play" /\ InPlay(c) /\ c.b.ball = "toward"
  BY <1>1 DEF Miss, Playing, InPlay, Ball
<1>3. live' = Sent([live EXCEPT !.page[p] = Turned(c, Closed(b0), Ends(c, b0))], p, out)
  <2>1. live' = Sent(Set(p, Checked(c, b0)), p, out)
    BY DEF Miss, MISS
  <2>2. Checked(c, b0) = Turned(c, Closed(b0), Ends(c, b0))
    BY <1>2, CheckedIs
  <2>3. QED
    BY <2>1, <2>2 DEF Set
<1> HIDE DEF c, z
<1>4. /\ c.b \in Rallies /\ RallySound(c) /\ (c.again[1] => c.scr = "end")
  BY <1>1, <1>2, InBall
<1>5. /\ d \in Rallies /\ d.score = <<c.b.score[1], c.b.score[2] + 1>> /\ d.ball = "none" /\ d.serving = c.b.serving
      /\ d.n = c.b.n
  BY <1>4, PointIs
<1>6. due \in BOOLEAN /\ (due <=> ~IsOver(d.score))
  BY DEF IsOver
<1> HIDE DEF d, due
<1>7. /\ b0 \in Rallies /\ b0.score = d.score /\ b0.ball = "none" /\ b0.serving = c.b.serving /\ b0.n = c.b.n /\ b0.due = due
  BY <1>5, <1>6 DEF Rallies
<1> HIDE DEF b0
<1>8. /\ GoesOnAs(c, Closed(b0), Ends(c, b0)) /\ Closed(b0) \in Rallies
      /\ Closed(b0).score = b0.score /\ Closed(b0).ball = b0.ball /\ Closed(b0).serving = b0.serving /\ Closed(b0).n = b0.n
      /\ Closed(b0).due = b0.due /\ (Closed(b0).done <=> IsOver(b0.score))
  BY <1>1, <1>2, <1>5, <1>7, GrownIs
<1> DEFINE r == Closed(b0)
           scr == Ends(c, b0)
           a == Turned(c, r, scr)
<1>9. a = Turned(c, r, scr) /\ GoesOnAs(c, r, scr)
  BY <1>8
<1>10. /\ r.score = d.score /\ r.ball = "none" /\ r.serving = c.b.serving /\ r.n = c.b.n
       /\ (r.due <=> ~IsOver(d.score)) /\ (r.done <=> IsOver(d.score))
  BY <1>6, <1>7, <1>8
<1>11. live' = Sent([live EXCEPT !.page[p] = a], p, out)
  BY <1>3
<1>12. out \in Seq(Messages) /\ out = <<MISS>>
  BY MessagesAre
<1> HIDE DEF r, scr, a, out
<1>13. a.b = r /\ a.games = c.games /\ a.again = c.again /\ InPlay(a)
  <2>1. SheetSound("ball", p, c) /\ c.conn /\ InPlay(c)
    BY <1>1, <1>2 DEF Ball
  <2>2. QED
    BY <1>9, <2>1, RallyIs
<1> DEFINE o == Other(p)
<1> HIDE DEF o
<1>14. ASSUME NEW b, NEW y, SheetSound("ball", o, b), y \in Seq(Messages), OneRally(p, c, b, z, y)
       PROVE  OneRally(p, a, b, z, y \o out)
  <2>0. ~c.again[1]
    BY <1>2, <1>4
  <2>1. Paired(c, b) /\ Flying(c, b, z, y) /\ z = <<>> /\ y = <<>> /\ Mirrored(c.b.score, b.b.score)
    BY <1>2, <1>14, <2>0, ReceiverIs
  <2>2. y \o out = <<MISS>>
    BY <1>12, <2>1, Short
  <2>3. Paired(a, b)
    BY <1>10, <1>13, <2>1 DEF Paired
  <2>4. ~b.b.due /\ ~b.b.done /\ Begun(a.b) /\ Begun(b.b) /\ b.b.ball = "away" /\ a.b.ball = "none"
    BY <1>10, <1>13, <2>1 DEF Flying, Begun
  <2>5. Mirrored(a.b.score, Won(b.b.score))
    BY <1>5, <1>10, <1>13, <2>1 DEF Mirrored, Won
  <2>6. ~a.again[1] /\ ~a.again[2] /\ ~b.again[2]
    <3>1. b.again[1] => b.scr = "end"
      BY <1>14, PlainBall
    <3>2. RallySound(b)
      BY <1>14, <2>1, PlainBall DEF Paired
    <3>3. ~b.again[1]
      BY <2>4, <3>1, <3>2 DEF RallySound
    <3>4. QED
      BY <1>13, <2>0, <2>1, <3>3 DEF Paired
  <2>7. CASE ~IsOver(d.score)
    <3>1. a.b.due /\ ~a.b.done
      BY <1>10, <1>13, <2>7
    <3>2. ToServe(a, b, <<>>, <<MISS>>)
      BY <2>4, <2>5, <3>1 DEF ToServe
    <3>3. QED
      BY <2>1, <2>2, <2>3, <3>2 DEF OneRally, SameBall, Turn
  <2>8. CASE IsOver(d.score)
    <3>1. ~a.b.due /\ a.b.done
      BY <1>10, <1>13, <2>8
    <3>2. LastPoint(a, b, <<>>, <<MISS>>)
      BY <2>4, <2>5, <2>6, <3>1 DEF LastPoint
    <3>3. QED
      BY <2>1, <2>2, <2>3, <3>2 DEF OneRally, SameBall, Turn
  <2>9. QED
    BY <2>7, <2>8
<1>15. Heeded("ball", p, c, a, z, z, out)
  BY <1>14, HeedsBalls DEF o
<1>16. QED
  BY <1>1, <1>2, <1>9, <1>11, <1>12, <1>15, RallyStep

\* What page c has when it may ask for the next game.
LEMMA AskerIs ==
  ASSUME NEW p, NEW c, NEW b, NEW z, NEW y, InPlay(c), ~c.again[1], c.b.done, OneRally(p, c, b, z, y)
  PROVE  Paired(c, b) /\ (LastPoint(c, b, z, y) \/ BothDone(c, b, z, y))
<1>1. ~Opens(c)
  BY DEF Opens
<1>2. ~OpensFirst(c, b, z, y) /\ ~OpensNext(c, b, z, y) /\ ~OpensFirst(b, c, y, z) /\ ~OpensNext(b, c, y, z)
  BY <1>1 DEF OpensFirst, OpensNext
<1>3. ~ToOpen(c, b, z, y) /\ ~ToServe(c, b, z, y) /\ ~Flying(c, b, z, y)
  BY DEF ToOpen, ToServe, Flying
<1>4. ~ToOpen(b, c, y, z) /\ ~ToServe(b, c, y, z) /\ ~LastPoint(b, c, y, z) /\ ~Flying(b, c, y, z)
  BY DEF ToOpen, ToServe, LastPoint, Flying
<1>5. QED
  BY <1>2, <1>3, <1>4 DEF OneRally, SameBall, Turn

LEMMA BallAskHeeded ==
  ASSUME NEW p, NEW c, NEW z, InPlay(c), ~c.again[1], ~c.again[2], c.b.done,
         NEW a, a.games = c.games, a.scr = c.scr, a.b = c.b, a.again[1], ~a.again[2]
  PROVE  Heeded("ball", p, c, a, z, z, <<AGAIN>>)
<1> DEFINE o == Other(p)
<1> HIDE DEF o
<1>1. ASSUME NEW b, NEW y, SheetSound("ball", o, b), y \in Seq(Messages), OneRally(p, c, b, z, y)
      PROVE  OneRally(p, a, b, z, y \o <<AGAIN>>)
  <2>1. Paired(c, b) /\ (LastPoint(c, b, z, y) \/ BothDone(c, b, z, y))
    BY <1>1, AskerIs
  <2>2. Paired(a, b) /\ ~b.again[2]
    BY <2>1 DEF Paired, InPlay
  <2>3. CASE LastPoint(c, b, z, y)
    <3>1. y = <<MISS>>
      BY <2>3 DEF LastPoint
    <3>2. y \o <<AGAIN>> = <<MISS, AGAIN>>
      BY <3>1, Appended
    <3>3. LastPoint(a, b, z, <<MISS, AGAIN>>)
      BY <2>3 DEF LastPoint
    <3>4. QED
      BY <2>2, <3>2, <3>3 DEF OneRally, SameBall, Turn
  <2>4. CASE BothDone(c, b, z, y)
    <3>1. y = <<>>
      BY <2>4 DEF BothDone, AsksFor
    <3>2. y \o <<AGAIN>> = <<AGAIN>>
      BY <3>1, Short
    <3>3. BothDone(a, b, z, <<AGAIN>>)
      BY <2>2, <2>4 DEF BothDone, AsksFor
    <3>4. QED
      BY <2>2, <3>2, <3>3 DEF OneRally, SameBall
  <2>5. QED
    BY <2>1, <2>3, <2>4
<1>2. QED
  BY <1>1, HeedsBalls DEF o

LEMMA BallAnewHeeded ==
  ASSUME NEW p, NEW c, NEW z, InPlay(c), ~c.again[1], c.again[2], c.b.done, c.b \in Rallies,
         NEW a, InPlay(a), a.games = c.games + 1, NEW serving \in BOOLEAN, serving <=> ~c.b.serving,
         a.b = Rally(serving), Opens(a)
  PROVE  Heeded("ball", p, c, a, z, z, <<AGAIN>>)
<1> DEFINE o == Other(p)
<1> HIDE DEF o
<1>1. ASSUME NEW b, NEW y, SheetSound("ball", o, b), y \in Seq(Messages), OneRally(p, c, b, z, y)
      PROVE  OneRally(p, a, b, z, y \o <<AGAIN>>)
  <2>0. b.b \in Rallies /\ (b.again[1] => ~b.again[2])
    BY <1>1, PlainBall
  <2>1. Paired(c, b) /\ (LastPoint(c, b, z, y) \/ BothDone(c, b, z, y))
    BY <1>1, AskerIs
  <2>2. BothDone(c, b, z, y)
    BY <2>1 DEF LastPoint
  <2>3. y = <<>> /\ z = <<>>
    BY <2>2 DEF BothDone, AsksFor
  <2>4. y \o <<AGAIN>> = <<AGAIN>>
    BY <2>3, Short
  <2>5. InPlay(b) /\ a.games = b.games + 1 /\ b.again[1] /\ ~b.again[2] /\ (c.b.serving <=> ~b.b.serving)
    BY <2>0, <2>1 DEF Paired
  <2>6. a.b.serving = serving /\ a.b.ball = "none"
    BY DEF Rally
  <2>7. OpensNext(b, a, <<AGAIN>>, <<>>)
    BY <2>0, <2>5, <2>6 DEF OpensNext, Rallies
  <2>8. QED
    BY <2>3, <2>4, <2>7 DEF OneRally
<1>2. QED
  BY <1>1, HeedsBalls DEF o

LEMMA BallAskStep ==
  ASSUME LiveSetting, LiveInv(live), NEW p \in Pages, AskAgain(p), live.kind = "ball" PROVE LiveInv(live')
<1> DEFINE c == Pg(p)
<1>1. c = Pg(p)
  OBVIOUS
<1> HIDE DEF c
<1>2. /\ live \in Duels /\ c = live.page[p] /\ c.conn /\ SheetSound("ball", p, c) /\ c.scr = "end" /\ ~c.again[1]
  BY <1>1, AskIs
<1>a. c.b \in Rallies /\ InPlay(c) /\ c.b.done
  <2>1. InPlay(c)
    BY <1>2 DEF InPlay
  <2>2. c.b \in Rallies /\ RallySound(c)
    BY <1>2, <2>1, PlainBall
  <2>3. QED
    BY <1>2, <2>1, <2>2 DEF RallySound
<1>3. CASE ~c.again[2]
  <2>1. PICK a : /\ Acted(live, live', p, a, live.to[p], <<AGAIN>>) /\ SheetSound(live.kind, p, a) /\ a.conn
                 /\ a.games = c.games /\ a.scr = c.scr /\ a.m = c.m /\ a.b = c.b /\ a.again[1] /\ ~a.again[2]
    BY <1>1, <1>3, AskIs
  <2>2. Heeded("ball", p, c, a, live.to[p], live.to[p], <<AGAIN>>)
    BY <1>2, <1>a, <1>3, <2>1, BallAskHeeded
  <2>3. QED
    BY <1>2, <2>1, <2>2, PlayKeeps
<1>4. CASE c.again[2]
  <2>1. PICK a, serving :
          /\ Acted(live, live', p, a, live.to[p], <<AGAIN>> \o Greeting(live.kind))
          /\ a \in Sheets /\ SheetSound(live.kind, p, a) /\ a.conn /\ a.games = c.games + 1 /\ InPlay(a) /\ Starts(a)
          /\ a.m = Match(c.games + 1) /\ serving \in BOOLEAN /\ (serving <=> ~c.b.serving)
          /\ a.b = Rally(serving) /\ Opens(a) /\ ~a.again[1] /\ ~a.again[2]
    BY <1>1, <1>4, AskIs
  <2>2. <<AGAIN>> \o Greeting(live.kind) = <<AGAIN>>
    <3>1. Greeting(live.kind) = <<>>
      BY GreetingIs
    <3>2. QED
      BY <3>1, Short
  <2>3. Heeded("ball", p, c, a, live.to[p], live.to[p], <<AGAIN>>)
    BY <1>2, <1>a, <1>4, <2>1, BallAnewHeeded
  <2>4. QED
    BY <1>2, <2>1, <2>2, <2>3, PlayKeeps
<1>5. QED
  BY <1>3, <1>4

-----------------------------------------------------------------------------
(* Every step keeps the invariant. *)

LEMMA LiveStarts == ASSUME LiveSetting, LiveInit PROVE LiveInv(live)
<1> DEFINE page == [p \in Pages |-> Page0]
           to == [p \in Pages |-> <<>>]
<1>1. PICK k \in LiveKinds : live = [kind |-> k, token |-> "none", invites |-> 0, broken |-> FALSE, page |-> page, to |-> to]
  BY DEF LiveInit
<1>2. k \in {"rps", "ball"}
  BY DEF LiveSetting
<1>3. page \in [Pages -> Sheets] /\ to \in [Pages -> Seq(Messages)]
  BY Page0Is
<1>4. \A p \in Pages : page[p] = Page0 /\ to[p] = <<>>
  OBVIOUS
<1> HIDE DEF page, to
<1>5. live \in Duels /\ live.kind = k /\ live.broken = FALSE /\ live.page = page /\ live.to = to
  BY <1>1, <1>2, <1>3 DEF Duels
<1>6. ASSUME NEW p \in Pages PROVE SheetSound(k, p, live.page[p]) /\ ~Near(live.page[p]) /\ live.to[p] = <<>> /\ ~live.page[p].conn
  <2>1. SheetSound(k, p, Page0)
    BY Page0Is, BlankIs DEF InPlay
  <2>2. QED
    BY <1>4, <1>5, <2>1, Page0Is DEF Near
<1>7. 1 \in Pages /\ 2 \in Pages
  BY DEF Pages
<1>8. Connected(live)
  BY <1>6, <1>7 DEF Connected
<1>9. QED
  BY <1>5, <1>6, <1>8 DEF LiveInv

LEMMA LiveGoesOn == ASSUME LiveSetting, LiveInv(live), [LiveNext]_live PROVE LiveInv(live')
<1>1. CASE UNCHANGED live
  BY <1>1
<1>2. CASE Invite \/ OwnLink \/ Expire \/ Accept \/ Found \/ Start \/ Break
  BY <1>2, InviteStep, OwnLinkStep, ExpireStep, AcceptStep, FoundStep, StartStep, BreakStep
<1>3. ASSUME NEW p \in Pages,
             \/ Attest(p) \/ Register(p) \/ JoinFails(p) \/ Join(p) \/ ChannelOpens(p) \/ ConnectFails(p)
             \/ Hide(p) \/ Lost(p) \/ LeaveGame(p) \/ Stall(p)
      PROVE  LiveInv(live')
  BY <1>3, AttestStep, RegisterStep, JoinFailsStep, JoinStep, ChannelOpensStep, ConnectFailsStep, HideStep, LostStep,
     LeaveGameStep, StallStep
<1>4. ASSUME NEW p \in Pages, Deliver(p) \/ AskAgain(p) PROVE LiveInv(live')
  <2>1. live.kind \in {"rps", "ball"}
    BY DEF LiveInv, Duels
  <2>2. QED
    BY <1>4, <2>1, HandGameDeliverStep, BallDeliverStep, HandGameAskStep, BallAskStep
<1>5. ASSUME NEW p \in Pages, (\E h \in 0 .. 2 : Pick(p, h)) \/ Serve(p) \/ Hit(p) \/ Miss(p) PROVE LiveInv(live')
  BY <1>5, PickStep, ServeStep, HitStep, MissStep
<1>6. QED
  BY <1>1, <1>2, <1>3, <1>4, <1>5 DEF LiveNext

-----------------------------------------------------------------------------
(* What the invariant says of two pages in one game. *)

HowMany(s, t) == Cardinality({i \in 1 .. Len(s) : s[i].t = t})

LEMMA CountIs ==
  ASSUME NEW t
  PROVE  /\ HowMany(<<>>, t) = 0
         /\ \A u : HowMany(<<u>>, t) = IF u.t = t THEN 1 ELSE 0
         /\ \A u, v : v.t # t => HowMany(<<u, v>>, t) = IF u.t = t THEN 1 ELSE 0
         /\ \A u, v : u.t # t => HowMany(<<u, v>>, t) = IF v.t = t THEN 1 ELSE 0
         /\ \A u, v, w : v.t # t /\ w.t # t => HowMany(<<u, v, w>>, t) = IF u.t = t THEN 1 ELSE 0
<1>1. ASSUME NEW s, Len(s) \in 0 .. 3, \A i \in 1 .. Len(s) : s[i].t # t PROVE HowMany(s, t) = 0
  <2>1. {i \in 1 .. Len(s) : s[i].t = t} = {}
    BY <1>1
  <2>2. QED
    BY <2>1, FS_EmptySet DEF HowMany
<1>2. ASSUME NEW s, NEW k \in 1 .. Len(s), Len(s) \in 1 .. 3, s[k].t = t, \A i \in 1 .. Len(s) : i # k => s[i].t # t
      PROVE  HowMany(s, t) = 1
  <2>1. {i \in 1 .. Len(s) : s[i].t = t} = {k}
    BY <1>2
  <2>2. Cardinality({k}) = 1
    BY FS_Singleton
  <2>3. QED
    BY <2>1, <2>2 DEF HowMany
<1>3. HowMany(<<>>, t) = 0
  <2>1. Len(<<>>) = 0
    OBVIOUS
  <2>2. QED
    BY <1>1, <2>1
<1>4. ASSUME NEW u PROVE HowMany(<<u>>, t) = IF u.t = t THEN 1 ELSE 0
  <2> DEFINE s == <<u>>
  <2>1. Len(s) = 1 /\ s[1] = u
    OBVIOUS
  <2> HIDE DEF s
  <2>2. HowMany(s, t) = IF u.t = t THEN 1 ELSE 0
    <3>1. CASE u.t = t
      BY <1>2, <2>1, <3>1
    <3>2. CASE u.t # t
      BY <1>1, <2>1, <3>2
    <3>3. QED
      BY <3>1, <3>2
  <2>3. QED
    BY <2>2 DEF s
<1>5. ASSUME NEW u, NEW v
      PROVE  /\ v.t # t => HowMany(<<u, v>>, t) = IF u.t = t THEN 1 ELSE 0
             /\ u.t # t => HowMany(<<u, v>>, t) = IF v.t = t THEN 1 ELSE 0
  <2> DEFINE s == <<u, v>>
  <2>1. Len(s) = 2 /\ s[1] = u /\ s[2] = v
    OBVIOUS
  <2> HIDE DEF s
  <2>2. ASSUME u.t = t, v.t # t PROVE HowMany(s, t) = 1
    <3>1. 1 \in 1 .. Len(s) /\ Len(s) \in 1 .. 3 /\ s[1].t = t /\ \A i \in 1 .. Len(s) : i # 1 => s[i].t # t
      BY <2>1, <2>2
    <3>2. QED
      BY <1>2, <3>1
  <2>3. ASSUME u.t # t, v.t = t PROVE HowMany(s, t) = 1
    <3>1. 2 \in 1 .. Len(s) /\ Len(s) \in 1 .. 3 /\ s[2].t = t /\ \A i \in 1 .. Len(s) : i # 2 => s[i].t # t
      BY <2>1, <2>3
    <3>2. QED
      BY <1>2, <3>1
  <2>4. u.t # t /\ v.t # t => HowMany(s, t) = 0
    BY <1>1, <2>1
  <2>5. QED
    BY <2>2, <2>3, <2>4 DEF s
<1>6. ASSUME NEW u, NEW v, NEW w, v.t # t, w.t # t PROVE HowMany(<<u, v, w>>, t) = IF u.t = t THEN 1 ELSE 0
  <2> DEFINE s == <<u, v, w>>
  <2>1. Len(s) = 3 /\ s[1] = u /\ s[2] = v /\ s[3] = w
    OBVIOUS
  <2> HIDE DEF s
  <2>2. u.t = t => HowMany(s, t) = 1
    BY <1>2, <1>6, <2>1
  <2>3. u.t # t => HowMany(s, t) = 0
    BY <1>1, <1>6, <2>1
  <2>4. QED
    BY <2>2, <2>3 DEF s
<1>7. QED
  BY <1>3, <1>4, <1>5, <1>6

LEMMA UnderwayIs == \A p, t : Underway(p, t) = HowMany(live.to[p], t)
  BY DEF Underway, HowMany

\* While the link holds, the two pages and what is on the way fit.
LEMMA LinkedIs ==
  ASSUME LiveInv(live), Linked
  PROVE  /\ live \in Duels /\ live.kind \in {"rps", "ball"} /\ 1 \in Pages /\ 2 \in Pages
         /\ \A p \in Pages : /\ SheetSound(live.kind, p, Pg(p)) /\ Pg(p) \in Sheets /\ Pg(p).conn
                             /\ ~InPlay(Pg(p)) => Unplayed(Pg(p))
                             /\ live.kind = "rps" => Heard(p, Pg(p), Pg(Other(p)), live.to[p])
                             /\ live.kind = "ball" => OneRally(p, Pg(p), Pg(Other(p)), live.to[p], live.to[Other(p)])
<1>1. 1 \in Pages /\ 2 \in Pages /\ live \in Duels /\ live.kind \in {"rps", "ball"}
  BY DEF Pages, LiveInv, Duels
<1>2. ~live.broken /\ \A p \in Pages : Pg(p).conn
  BY <1>1 DEF Linked
<1>3. Joint(live)
  BY <1>2 DEF LiveInv, Connected, Near, Pg
<1>4. ASSUME NEW p \in Pages
      PROVE  /\ SheetSound(live.kind, p, Pg(p)) /\ Pg(p) \in Sheets /\ Pg(p).conn
             /\ ~InPlay(Pg(p)) => Unplayed(Pg(p))
  BY <1>2 DEF LiveInv, SheetSound, Pg
<1>5. ASSUME NEW p \in Pages
      PROVE  /\ live.kind = "rps" => Heard(p, Pg(p), Pg(Other(p)), live.to[p])
             /\ live.kind = "ball" => OneRally(p, Pg(p), Pg(Other(p)), live.to[p], live.to[Other(p)])
  BY <1>3, JointIs DEF Pg
<1>6. QED
  BY <1>1, <1>4, <1>5

\* What is said in a round of the hand game.
LEMMA RoundSays ==
  ASSUME LiveSetting, NEW q, NEW b, SheetSound("rps", q, b), NEW p, NEW a, NEW x, SheetSound("rps", p, a), OneGame(a, b), Heard(p, a, b, x),
         NEW i \in 1 .. Len(x), x[i].t = "r", x[i].n = a.m.round
  PROVE  a.m.mine # NoHand
<1>1. SameRound(a, b, x) \/ RoundBefore(a, b, x) \/ RoundAfter(a, b, x)
  BY OneGameIs, Plain
<1>2. CASE RoundBefore(a, b, x)
  BY <1>2 DEF RoundBefore
<1>3. CASE RoundAfter(a, b, x)
  BY <1>3, Plain DEF RoundAfter
<1>4. CASE SameRound(a, b, x)
  <2>1. CASE b.m.sent
    BY <1>4, <2>1 DEF SameRound
  <2>2. CASE ~b.m.sent
    <3> DEFINE s == SEAL(b.m)
    <3>1. s.t = "c"
      BY Tags
    <3>2. x = <<>> \/ x = <<AGAIN>> \/ x = <<s>> \/ x = <<AG>> \/ x = <<AG, s>>
      BY <1>4, <2>2 DEF SameRound
    <3> HIDE DEF s
    <3>3. x[i] \in {AGAIN, s, AG}
      BY <3>2
    <3>4. QED
      BY <3>1, <3>3, Tags
  <2>3. QED
    BY <2>1, <2>2
<1>5. QED
  BY <1>1, <1>2, <1>3, <1>4

\* Two players who have both picked have not both taken everything.
LEMMA SomethingOnTheWay ==
  ASSUME LiveSetting, NEW q, NEW b, SheetSound("rps", q, b), NEW p, NEW a, NEW x, NEW y, SheetSound("rps", p, a), OneGame(a, b),
         SameRound(a, b, x), SameRound(b, a, y), a.m.mine # NoHand, b.m.mine # NoHand
  PROVE  x # <<>> \/ y # <<>>
<1>1. MatchSound(a) /\ MatchSound(b)
  BY Plain DEF OneGame
<1> DEFINE s == SEAL(b.m)
           r == HAND(b.m.round, b.m.mine)
<1>2. x = <<>> => ~b.m.sent /\ a.m.theirs = Seal(a.m.game, a.m.round, b.m.mine)
  <2>1. \/ x = <<s>> \/ x = <<s, r>> \/ x = <<AG, s>> \/ x = <<AG, s, r>> \/ x = <<r>>
        \/ ~b.m.sent /\ a.m.theirs = Seal(a.m.game, a.m.round, b.m.mine)
    BY DEF SameRound
  <2> HIDE DEF s, r
  <2>2. QED
    BY <2>1, Short
<1>3. y = <<>> => ~a.m.sent
  <2> DEFINE v == SEAL(a.m)
             w == HAND(a.m.round, a.m.mine)
  <2>1. \/ y = <<v>> \/ y = <<v, w>> \/ y = <<AG, v>> \/ y = <<AG, v, w>> \/ y = <<w>>
        \/ ~a.m.sent
    BY DEF SameRound
  <2> HIDE DEF v, w
  <2>2. QED
    BY <2>1, Short
<1>4. Seal(a.m.game, a.m.round, b.m.mine) # <<>>
  BY DEF Seal
<1>5. QED
  BY <1>1, <1>2, <1>3, <1>4 DEF MatchSound

LEMMA HandsHold == ASSUME LiveSetting, LiveInv(live) PROVE HandsStaySealed
<1>1. SUFFICES ASSUME live.kind = "rps"
               PROVE  /\ \A p \in Pages : ~Pg(p).m.cheat
                      /\ SameGame /\ Pg(1).m.round = Pg(2).m.round =>
                           /\ Pg(1).m.score[1] = Pg(2).m.score[2] /\ Pg(1).m.score[2] = Pg(2).m.score[1]
                           /\ Pg(1).m.mine # NoHand /\ Pg(2).m.mine # NoHand => live.to[1] # <<>> \/ live.to[2] # <<>>
                      /\ \A p \in Pages : \A i \in 1..Len(live.to[p]) :
                           live.to[p][i].t = "r" /\ live.to[p][i].n = Pg(p).m.round /\ SameGame => Pg(p).m.mine # NoHand
  BY DEF HandsStaySealed
<1>2. \A p \in Pages : ~Pg(p).m.cheat
  BY DEF LiveInv, SheetSound, Pg
<1>3. ASSUME SameGame, NEW p \in Pages
      PROVE  /\ OneGame(Pg(p), Pg(Other(p))) /\ SheetSound("rps", p, Pg(p)) /\ SheetSound("rps", Other(p), Pg(Other(p)))
             /\ Heard(p, Pg(p), Pg(Other(p)), live.to[p]) /\ Pg(p) \in Sheets
  <2>1. Linked /\ Other(p) \in Pages /\ Other(1) = 2 /\ Other(2) = 1 /\ (p = 1 \/ p = 2)
    BY <1>3, Two DEF SameGame
  <2>2. OneGame(Pg(p), Pg(Other(p)))
    BY <1>3, <2>1 DEF SameGame, OneGame, InGame, InPlay
  <2>3. QED
    BY <1>1, <2>1, <2>2, LinkedIs
<1>4. ASSUME SameGame, Pg(1).m.round = Pg(2).m.round
      PROVE  /\ Pg(1).m.score[1] = Pg(2).m.score[2] /\ Pg(1).m.score[2] = Pg(2).m.score[1]
             /\ Pg(1).m.mine # NoHand /\ Pg(2).m.mine # NoHand => live.to[1] # <<>> \/ live.to[2] # <<>>
  <2>1. 1 \in Pages /\ 2 \in Pages /\ Other(1) = 2 /\ Other(2) = 1
    BY DEF Pages, Other
  <2> DEFINE a == Pg(1)
             b == Pg(2)
             x == live.to[1]
             y == live.to[2]
  <2>2. /\ OneGame(a, b) /\ OneGame(b, a) /\ SheetSound("rps", 1, a) /\ SheetSound("rps", 2, b)
        /\ Heard(1, a, b, x) /\ Heard(2, b, a, y) /\ a.m.round = b.m.round
    BY <1>3, <1>4, <2>1
  <2> HIDE DEF a, b, x, y
  <2>3. /\ a.m.round \in Nat /\ b.m.round \in Nat /\ a.games \in Nat /\ b.games \in Nat
    BY <2>2, Plain DEF Matches
  <2>4. SameRound(a, b, x) /\ SameRound(b, a, y)
    <3>1. SameRound(a, b, x) \/ RoundBefore(a, b, x) \/ RoundAfter(a, b, x)
      BY <2>2, <2>3, OneGameIs
    <3>2. SameRound(b, a, y) \/ RoundBefore(b, a, y) \/ RoundAfter(b, a, y)
      BY <2>2, <2>3, OneGameIs
    <3>3. QED
      BY <2>2, <2>3, <3>1, <3>2 DEF RoundBefore, RoundAfter
  <2>5. Mirrored(a.m.score, b.m.score)
    BY <2>4 DEF SameRound
  <2>6. a.m.mine # NoHand /\ b.m.mine # NoHand => x # <<>> \/ y # <<>>
    BY <2>2, <2>4, SomethingOnTheWay
  <2>7. QED
    BY <2>5, <2>6 DEF a, b, x, y, Mirrored
<1>5. ASSUME NEW p \in Pages, NEW i \in 1..Len(live.to[p]), live.to[p][i].t = "r", live.to[p][i].n = Pg(p).m.round, SameGame
      PROVE  Pg(p).m.mine # NoHand
  BY <1>3, <1>5, RoundSays
<1>6. QED
  BY <1>2, <1>4, <1>5

-----------------------------------------------------------------------------
(* What the invariant says of the one ball. *)

\* How often each word is said in a short message queue of the ball duel.
LEMMA Counted ==
  /\ \A t : HowMany(<<>>, t) = 0
  /\ HowMany(<<MISS>>, "miss") = 1 /\ HowMany(<<MISS>>, "serve") = 0 /\ HowMany(<<MISS>>, "hit") = 0
  /\ HowMany(<<AGAIN>>, "miss") = 0 /\ HowMany(<<AGAIN>>, "serve") = 0 /\ HowMany(<<AGAIN>>, "hit") = 0
  /\ HowMany(<<HIT>>, "miss") = 0 /\ HowMany(<<HIT>>, "serve") = 0 /\ HowMany(<<HIT>>, "hit") = 1
  /\ HowMany(<<MISS, AGAIN>>, "miss") = 1 /\ HowMany(<<MISS, AGAIN>>, "serve") = 0 /\ HowMany(<<MISS, AGAIN>>, "hit") = 0
  /\ \A n : /\ HowMany(<<SERVE(n)>>, "miss") = 0 /\ HowMany(<<SERVE(n)>>, "serve") = 1 /\ HowMany(<<SERVE(n)>>, "hit") = 0
            /\ HowMany(<<MISS, SERVE(n)>>, "miss") = 1 /\ HowMany(<<MISS, SERVE(n)>>, "serve") = 1
            /\ HowMany(<<MISS, SERVE(n)>>, "hit") = 0
<1>1. \A t : HowMany(<<>>, t) = 0
  BY CountIs
<1>2. /\ HowMany(<<MISS>>, "miss") = 1 /\ HowMany(<<MISS>>, "serve") = 0 /\ HowMany(<<MISS>>, "hit") = 0
      /\ HowMany(<<AGAIN>>, "miss") = 0 /\ HowMany(<<AGAIN>>, "serve") = 0 /\ HowMany(<<AGAIN>>, "hit") = 0
      /\ HowMany(<<HIT>>, "miss") = 0 /\ HowMany(<<HIT>>, "serve") = 0 /\ HowMany(<<HIT>>, "hit") = 1
  <2>1. \A t, u : HowMany(<<u>>, t) = IF u.t = t THEN 1 ELSE 0
    BY CountIs
  <2>2. QED
    BY <2>1, Tags
<1>3. /\ HowMany(<<MISS, AGAIN>>, "miss") = 1 /\ HowMany(<<MISS, AGAIN>>, "serve") = 0
      /\ HowMany(<<MISS, AGAIN>>, "hit") = 0
  <2>1. \A t, u, v : v.t # t => HowMany(<<u, v>>, t) = IF u.t = t THEN 1 ELSE 0
    BY CountIs
  <2>2. QED
    BY <2>1, Tags
<1>4. ASSUME NEW n
      PROVE  /\ HowMany(<<SERVE(n)>>, "miss") = 0 /\ HowMany(<<SERVE(n)>>, "serve") = 1 /\ HowMany(<<SERVE(n)>>, "hit") = 0
             /\ HowMany(<<MISS, SERVE(n)>>, "miss") = 1 /\ HowMany(<<MISS, SERVE(n)>>, "serve") = 1
             /\ HowMany(<<MISS, SERVE(n)>>, "hit") = 0
  <2> DEFINE s == SERVE(n)
  <2>1. s.t = "serve" /\ MISS.t = "miss"
    BY Tags
  <2> HIDE DEF s
  <2>2. \A t, u : HowMany(<<u>>, t) = IF u.t = t THEN 1 ELSE 0
    BY CountIs
  <2>3. \A t, u, v : v.t # t => HowMany(<<u, v>>, t) = IF u.t = t THEN 1 ELSE 0
    BY CountIs
  <2>4. \A t, u, v : u.t # t => HowMany(<<u, v>>, t) = IF v.t = t THEN 1 ELSE 0
    BY CountIs
  <2>5. HowMany(<<s>>, "miss") = 0 /\ HowMany(<<s>>, "serve") = 1 /\ HowMany(<<s>>, "hit") = 0
    BY <2>1, <2>2
  <2>6. HowMany(<<MISS, s>>, "miss") = 1 /\ HowMany(<<MISS, s>>, "serve") = 1 /\ HowMany(<<MISS, s>>, "hit") = 0
    BY <2>1, <2>3, <2>4
  <2>7. QED
    BY <2>5, <2>6 DEF s
<1>5. QED
  BY <1>1, <1>2, <1>3, <1>4

\* The ball is with nobody as far as r knows.
Empties(r) == r.ball # "toward" /\ ~r.due /\ ~FirstServe(r)
OneOf(r) ==
  \/ r.ball = "toward" /\ ~r.due /\ ~FirstServe(r)
  \/ r.ball # "toward" /\ r.due /\ ~FirstServe(r)
  \/ r.ball # "toward" /\ ~r.due /\ FirstServe(r)
Silent(x) == HowMany(x, "serve") = 0 /\ HowMany(x, "hit") = 0
ScoresFit(a, b, x, y) ==
  /\ a.b.score[1] + HowMany(x, "miss") = b.b.score[2]
  /\ b.b.score[1] + HowMany(y, "miss") = a.b.score[2]
OneFor(a, b, x, y) ==
  /\ ScoresFit(a, b, x, y) /\ Empties(b.b) /\ Silent(y)
  /\ \/ ~a.b.done /\ ~b.b.done /\ OneOf(a.b) /\ Silent(x)
     \/ ~a.b.done /\ ~b.b.done /\ Empties(a.b) /\ HowMany(x, "serve") = 1 /\ HowMany(x, "hit") = 0
     \/ ~a.b.done /\ ~b.b.done /\ Empties(a.b) /\ HowMany(x, "serve") = 0 /\ HowMany(x, "hit") = 1
     \/ (a.b.done \/ b.b.done) /\ Empties(a.b) /\ Silent(x)

LEMMA BallIsWhere ==
  ASSUME NEW a, NEW b, NEW x, NEW y, a.b \in Rallies, b.b \in Rallies, Paired(a, b),
         Turn(a, b, x, y) \/ BothDone(a, b, x, y)
  PROVE  OneFor(a, b, x, y)
<1>1. /\ a.b.score[1] \in Nat /\ a.b.score[2] \in Nat /\ b.b.score[1] \in Nat /\ b.b.score[2] \in Nat
  BY DEF Rallies, Scores
<1>2. CASE ToOpen(a, b, x, y)
  <2>1. x = <<>> /\ y = <<>> /\ Silent(x) /\ Silent(y) /\ HowMany(x, "miss") = 0 /\ HowMany(y, "miss") = 0
    BY <1>2, Counted DEF ToOpen, Silent
  <2>2. ScoresFit(a, b, x, y)
    BY <1>2, <2>1 DEF ToOpen, ScoresFit
  <2>3. OneOf(a.b) /\ Empties(b.b) /\ ~a.b.done /\ ~b.b.done
    BY <1>2 DEF ToOpen, OneOf, Empties, FirstServe
  <2>4. QED
    BY <2>1, <2>2, <2>3 DEF OneFor
<1>3. CASE ToServe(a, b, x, y)
  <2>1. x = <<>> /\ Silent(x) /\ HowMany(x, "miss") = 0
    BY <1>3, Counted DEF ToServe, Silent
  <2>2. OneOf(a.b) /\ Empties(b.b) /\ ~a.b.done /\ ~b.b.done
    BY <1>3 DEF ToServe, OneOf, Empties, FirstServe, Begun
  <2>3. CASE y = <<>> /\ Mirrored(a.b.score, b.b.score)
    <3>1. Silent(y) /\ HowMany(y, "miss") = 0
      BY <2>3, Counted DEF Silent
    <3>2. ScoresFit(a, b, x, y)
      BY <1>1, <2>1, <2>3, <3>1 DEF ScoresFit, Mirrored
    <3>3. QED
      BY <2>1, <2>2, <3>1, <3>2 DEF OneFor
  <2>4. CASE y = <<MISS>> /\ Mirrored(a.b.score, Won(b.b.score))
    <3>1. Silent(y) /\ HowMany(y, "miss") = 1
      BY <2>4, Counted DEF Silent
    <3>2. ScoresFit(a, b, x, y)
      BY <1>1, <2>1, <2>4, <3>1 DEF ScoresFit, Mirrored, Won
    <3>3. QED
      BY <2>1, <2>2, <3>1, <3>2 DEF OneFor
  <2>5. QED
    BY <1>3, <2>3, <2>4 DEF ToServe
<1>4. CASE Flying(a, b, x, y)
  <2>1. y = <<>> /\ Silent(y) /\ HowMany(y, "miss") = 0
    BY <1>4, Counted DEF Flying, Silent
  <2>2. Empties(b.b) /\ ~a.b.done /\ ~b.b.done /\ ~a.b.due /\ ~FirstServe(a.b)
    BY <1>4 DEF Flying, Empties, FirstServe, Begun
  <2>3. CASE a.b.ball = "toward" /\ x = <<>> /\ Mirrored(a.b.score, b.b.score)
    <3>1. Silent(x) /\ HowMany(x, "miss") = 0 /\ OneOf(a.b)
      BY <2>2, <2>3, Counted DEF Silent, OneOf
    <3>2. ScoresFit(a, b, x, y)
      BY <1>1, <2>1, <2>3, <3>1 DEF ScoresFit, Mirrored
    <3>3. QED
      BY <2>1, <2>2, <3>1, <3>2 DEF OneFor
  <2>4. CASE a.b.ball = "away" /\ x = <<HIT>> /\ Mirrored(a.b.score, b.b.score)
    <3>1. HowMany(x, "serve") = 0 /\ HowMany(x, "hit") = 1 /\ HowMany(x, "miss") = 0 /\ Empties(a.b)
      BY <2>2, <2>4, Counted DEF Empties
    <3>2. ScoresFit(a, b, x, y)
      BY <1>1, <2>1, <2>4, <3>1 DEF ScoresFit, Mirrored
    <3>3. QED
      BY <2>1, <2>2, <3>1, <3>2 DEF OneFor
  <2>5. CASE a.b.ball = "none" /\ x = <<SERVE(b.b.n - 1)>> /\ Mirrored(a.b.score, b.b.score)
    <3>1. HowMany(x, "serve") = 1 /\ HowMany(x, "hit") = 0 /\ HowMany(x, "miss") = 0 /\ Empties(a.b)
      BY <2>2, <2>5, Counted DEF Empties
    <3>2. ScoresFit(a, b, x, y)
      BY <1>1, <2>1, <2>5, <3>1 DEF ScoresFit, Mirrored
    <3>3. QED
      BY <2>1, <2>2, <3>1, <3>2 DEF OneFor
  <2>6. CASE a.b.ball = "away" /\ x = <<MISS, SERVE(b.b.n - 1)>> /\ Mirrored(Won(a.b.score), b.b.score)
    <3>1. HowMany(x, "serve") = 1 /\ HowMany(x, "hit") = 0 /\ HowMany(x, "miss") = 1 /\ Empties(a.b)
      BY <2>2, <2>6, Counted DEF Empties
    <3>2. ScoresFit(a, b, x, y)
      BY <1>1, <2>1, <2>6, <3>1 DEF ScoresFit, Mirrored, Won
    <3>3. QED
      BY <2>1, <2>2, <3>1, <3>2 DEF OneFor
  <2>7. QED
    BY <1>4, <2>3, <2>4, <2>5, <2>6 DEF Flying
<1>5. CASE LastPoint(a, b, x, y)
  <2>1. x = <<>> /\ Silent(x) /\ HowMany(x, "miss") = 0
    BY <1>5, Counted DEF LastPoint, Silent
  <2>2. Silent(y) /\ HowMany(y, "miss") = 1
    <3>1. y = <<MISS>> \/ y = <<MISS, AGAIN>>
      BY <1>5 DEF LastPoint
    <3>2. QED
      BY <3>1, Counted DEF Silent
  <2>3. ScoresFit(a, b, x, y)
    BY <1>1, <1>5, <2>1, <2>2 DEF LastPoint, ScoresFit, Mirrored, Won
  <2>4. Empties(a.b) /\ Empties(b.b) /\ a.b.done
    BY <1>5 DEF LastPoint, Empties, FirstServe, Begun
  <2>5. QED
    BY <2>1, <2>2, <2>3, <2>4 DEF OneFor
<1>6. CASE BothDone(a, b, x, y)
  <2>1. ASSUME NEW s, s = <<>> \/ s = <<AGAIN>> PROVE Silent(s) /\ HowMany(s, "miss") = 0
    BY <2>1, Counted DEF Silent
  <2>2. Silent(x) /\ Silent(y) /\ HowMany(x, "miss") = 0 /\ HowMany(y, "miss") = 0
    BY <1>6, <2>1 DEF BothDone
  <2>3. ScoresFit(a, b, x, y)
    BY <1>1, <1>6, <2>2 DEF BothDone, ScoresFit, Mirrored
  <2>4. Empties(a.b) /\ Empties(b.b) /\ a.b.done
    BY <1>6 DEF BothDone, Empties, FirstServe, Begun
  <2>5. QED
    BY <2>2, <2>3, <2>4 DEF OneFor
<1>7. QED
  BY <1>2, <1>3, <1>4, <1>5, <1>6 DEF Turn

\* Whoever has the ball or is about to serve it, in one set.
Holders ==
  {p \in Pages : Pg(p).b.ball = "toward"} \cup {p + 2 : p \in {q \in Pages : Pg(q).b.due}}
  \cup {p + 4 : p \in {q \in Pages : Pg(q).b.serving /\ Pg(q).b.n = 0 /\ Pg(q).b.ball = "none"}}

LEMMA HoldersAre ==
  ASSUME NEW p \in Pages, Empties(Pg(Other(p)).b)
  PROVE  /\ Empties(Pg(p).b) => Cardinality(Holders) = 0
         /\ OneOf(Pg(p).b) => Cardinality(Holders) = 1
<1> DEFINE A == {q \in Pages : Pg(q).b.ball = "toward"}
           D == {q \in Pages : Pg(q).b.due}
           F == {q \in Pages : Pg(q).b.serving /\ Pg(q).b.n = 0 /\ Pg(q).b.ball = "none"}
           D2 == {q + 2 : q \in D}
           F4 == {q + 4 : q \in F}
<1>1. Pages = {p, Other(p)} /\ p \in {1, 2}
  BY Two
<1>2. A = {q \in {p} : Pg(q).b.ball = "toward"}
  BY <1>1 DEF Empties
<1>3. D = {q \in {p} : Pg(q).b.due}
  BY <1>1 DEF Empties
<1>4. F = {q \in {p} : FirstServe(Pg(q).b)}
  BY <1>1 DEF Empties, FirstServe
<1>5. Holders = A \cup D2 \cup F4
  BY DEF Holders
<1> HIDE DEF A, D, F
<1>6. ASSUME Empties(Pg(p).b) PROVE Cardinality(Holders) = 0
  <2>1. A = {} /\ D = {} /\ F = {}
    BY <1>2, <1>3, <1>4, <1>6 DEF Empties
  <2>2. Holders = {}
    BY <1>5, <2>1
  <2>3. QED
    BY <2>2, FS_EmptySet
<1>7. ASSUME OneOf(Pg(p).b) PROVE Cardinality(Holders) = 1
  <2>1. \/ A = {p} /\ D = {} /\ F = {}
        \/ A = {} /\ D = {p} /\ F = {}
        \/ A = {} /\ D = {} /\ F = {p}
    BY <1>2, <1>3, <1>4, <1>7 DEF OneOf
  <2>2. Holders = {p} \/ Holders = {p + 2} \/ Holders = {p + 4}
    BY <1>5, <2>1
  <2>3. QED
    BY <2>2, FS_Singleton
<1>8. QED
  BY <1>6, <1>7

LEMMA BallIsOne ==
  ASSUME LiveInv(live), live.kind = "ball", SameGame
  PROVE  /\ \A p \in Pages : Pg(p).b.score[1] + Underway(p, "miss") = Pg(Other(p)).b.score[2]
         /\ Cardinality(Holders) + Underway(1, "serve") + Underway(2, "serve") + Underway(1, "hit") + Underway(2, "hit")
            = IF \E p \in Pages : Pg(p).b.done THEN 0 ELSE 1
<1>1. Linked /\ Pg(1).games = Pg(2).games /\ InPlay(Pg(1)) /\ InPlay(Pg(2))
  BY DEF SameGame, InGame, InPlay
<1>2. PICK p \in Pages : OneFor(Pg(p), Pg(Other(p)), live.to[p], live.to[Other(p)])
  <2>1. 1 \in Pages /\ 2 \in Pages /\ Other(1) = 2 /\ Other(2) = 1
    BY DEF Pages, Other
  <2> DEFINE a == Pg(1)
             b == Pg(2)
             x == live.to[1]
             y == live.to[2]
  <2>2. OneRally(1, a, b, x, y) /\ a.b \in Rallies /\ b.b \in Rallies /\ a.games \in Nat /\ b.games \in Nat
    <3>1. OneRally(1, a, b, x, y) /\ SheetSound("ball", 1, a) /\ SheetSound("ball", 2, b)
      BY <1>1, <2>1, LinkedIs
    <3>2. QED
      BY <3>1, PlainBall
  <2>3. a.games = b.games /\ InPlay(a) /\ InPlay(b)
    BY <1>1
  <2>4. OneFor(a, b, x, y) \/ OneFor(b, a, y, x)
    <3> HIDE DEF a, b, x, y
    <3>1. ~OpensNext(a, b, x, y) /\ ~OpensNext(b, a, y, x) /\ ~OpensFirst(a, b, x, y) /\ ~OpensFirst(b, a, y, x)
      BY <2>2, <2>3 DEF OpensNext, OpensFirst
    <3>2. Paired(a, b) /\ (Turn(a, b, x, y) \/ Turn(b, a, y, x) \/ BothDone(a, b, x, y))
      BY <2>2, <2>3, <3>1 DEF OneRally, SameBall
    <3>3. Paired(b, a)
      BY <2>2, <3>2 DEF Paired, Rallies
    <3>4. QED
      BY <2>2, <3>2, <3>3, BallIsWhere
  <2>5. CASE OneFor(a, b, x, y)
    BY <2>1, <2>5
  <2>6. CASE OneFor(b, a, y, x)
    BY <2>1, <2>6
  <2>7. QED
    BY <2>4, <2>5, <2>6
<1> DEFINE o == Other(p)
<1>3. /\ o \in Pages /\ Other(o) = p /\ Pages = {p, o}
      /\ \/ p = 1 /\ o = 2
         \/ p = 2 /\ o = 1
  BY Two
<1>4. OneFor(Pg(p), Pg(o), live.to[p], live.to[o])
  BY <1>2
<1>5. Empties(Pg(Other(p)).b)
  BY <1>4 DEF OneFor
<1> DEFINE s == Underway(p, "serve")
           u == Underway(o, "serve")
           h == Underway(p, "hit")
           k == Underway(o, "hit")
<1>6. s = HowMany(live.to[p], "serve") /\ u = 0 /\ h = HowMany(live.to[p], "hit") /\ k = 0
  BY <1>4, UnderwayIs DEF OneFor, Silent
<1>7. (\E q \in Pages : Pg(q).b.done) <=> Pg(p).b.done \/ Pg(o).b.done
  BY <1>3
<1>8. Cardinality(Holders) + s + h = IF \E q \in Pages : Pg(q).b.done THEN 0 ELSE 1
  <2>1. \/ ~Pg(p).b.done /\ ~Pg(o).b.done /\ Cardinality(Holders) = 1 /\ s = 0 /\ h = 0
        \/ ~Pg(p).b.done /\ ~Pg(o).b.done /\ Cardinality(Holders) = 0 /\ s = 1 /\ h = 0
        \/ ~Pg(p).b.done /\ ~Pg(o).b.done /\ Cardinality(Holders) = 0 /\ s = 0 /\ h = 1
        \/ (Pg(p).b.done \/ Pg(o).b.done) /\ Cardinality(Holders) = 0 /\ s = 0 /\ h = 0
    BY <1>4, <1>5, <1>6, HoldersAre DEF OneFor, Silent
  <2>2. QED
    BY <1>7, <2>1
<1>9. /\ s \in {0, 1} /\ h \in {0, 1} /\ Cardinality(Holders) \in {0, 1}
      /\ \/ Underway(1, "serve") = s /\ Underway(2, "serve") = 0 /\ Underway(1, "hit") = h /\ Underway(2, "hit") = 0
         \/ Underway(2, "serve") = s /\ Underway(1, "serve") = 0 /\ Underway(2, "hit") = h /\ Underway(1, "hit") = 0
  <2>1. s \in {0, 1} /\ h \in {0, 1} /\ Cardinality(Holders) \in {0, 1}
    BY <1>4, <1>5, <1>6, HoldersAre DEF OneFor, Silent
  <2>2. QED
    BY <1>3, <1>6, <2>1
<1>10. \A q \in Pages : Pg(q).b.score[1] + Underway(q, "miss") = Pg(Other(q)).b.score[2]
  <2>1. Pg(p).b.score[1] + Underway(p, "miss") = Pg(o).b.score[2]
    BY <1>4, UnderwayIs DEF OneFor, ScoresFit
  <2>2. Pg(o).b.score[1] + Underway(o, "miss") = Pg(p).b.score[2]
    BY <1>4, UnderwayIs DEF OneFor, ScoresFit
  <2>3. QED
    BY <1>3, <2>1, <2>2
<1>11. Cardinality(Holders) + Underway(1, "serve") + Underway(2, "serve") + Underway(1, "hit") + Underway(2, "hit")
       = Cardinality(Holders) + s + h
  <2> HIDE DEF s, u, h, k
  <2>1. QED
    BY <1>9
<1>12. QED
  BY <1>8, <1>10, <1>11

\* A message that comes first and only once.
LEMMA FirstOnly ==
  ASSUME NEW t, NEW u, u.t = t
  PROVE  /\ HowMany(<<u>>, t) = 1
         /\ \A v : v.t # t => HowMany(<<u, v>>, t) = 1
         /\ \A v, w : v.t # t /\ w.t # t => HowMany(<<u, v, w>>, t) = 1
<1>1. HowMany(<<u>>, t) = IF u.t = t THEN 1 ELSE 0
  BY CountIs
<1>2. \A v : v.t # t => HowMany(<<u, v>>, t) = IF u.t = t THEN 1 ELSE 0
  BY CountIs
<1>3. \A v, w : v.t # t /\ w.t # t => HowMany(<<u, v, w>>, t) = IF u.t = t THEN 1 ELSE 0
  BY CountIs
<1>4. QED
  BY <1>1, <1>2, <1>3

LEMMA StartIsOnItsWay ==
  ASSUME LiveInv(live), Linked, Pg(1).scr = "play", Pg(2).scr = "ready" PROVE Underway(2, "go") = 1
<1> DEFINE a == Pg(2)
           b == Pg(1)
           x == live.to[2]
           y == live.to[1]
<1>1. 1 \in Pages /\ 2 \in Pages /\ Other(2) = 1 /\ Other(1) = 2
  BY DEF Pages, Other
<1>2. ~InPlay(a) /\ InPlay(b)
  BY DEF InPlay
<1>3. live.kind \in {"rps", "ball"}
  BY LinkedIs
<1>4. /\ live.kind = "rps" => Heard(2, a, b, x)
      /\ live.kind = "ball" => OneRally(2, a, b, x, y)
  BY <1>1, LinkedIs
<1>5. Underway(2, "go") = HowMany(x, "go")
  BY UnderwayIs
<1> DEFINE s == SEAL(b.m)
           v == SERVE(0)
<1>6. s.t = "c" /\ v.t = "serve"
  BY Tags
<1>7. CASE live.kind = "rps"
  <2>1. x = <<GO, AG>> \/ x = <<GO, AG, s>>
    <3> HIDE DEF a, b, x, y, s
    <3>1. GameToCome(2, a, b, x)
      BY <1>2, <1>4, <1>7 DEF Heard
    <3>2. QED
      BY <1>2, <3>1 DEF GameToCome, s
  <2> HIDE DEF a, b, x, y, s
  <2>2. HowMany(x, "go") = 1
    <3>1. GO.t = "go" /\ AG.t # "go" /\ s.t # "go"
      BY <1>6, Tags
    <3>2. HowMany(<<GO, AG>>, "go") = 1 /\ HowMany(<<GO, AG, s>>, "go") = 1
      BY <3>1, FirstOnly, Zenon
    <3>3. QED
      BY <2>1, <3>2
  <2>3. QED
    BY <1>5, <2>2
<1>8. CASE live.kind = "ball"
  <2>1. x = <<GO>> \/ x = <<GO, v>>
    <3> HIDE DEF a, b, x, y
    <3>1. OpensFirst(a, b, x, y)
      BY <1>2, <1>4, <1>8, Plays DEF OneRally, OpensNext, SameBall, Paired
    <3>2. QED
      BY <3>1 DEF OpensFirst
  <2> HIDE DEF a, b, x, y, v
  <2>2. HowMany(x, "go") = 1
    <3>1. GO.t = "go" /\ v.t # "go"
      BY <1>6, Tags
    <3>2. HowMany(<<GO>>, "go") = 1 /\ HowMany(<<GO, v>>, "go") = 1
      BY <3>1, FirstOnly, Zenon
    <3>3. QED
      BY <2>1, <3>2
  <2>3. QED
    BY <1>5, <2>2
<1>9. QED
  BY <1>3, <1>7, <1>8

LEMMA RematchIsOnItsWay ==
  ASSUME LiveInv(live), Linked, NEW p \in Pages, Pg(p).games > Pg(Other(p)).games PROVE Underway(Other(p), "again") = 1
<1> DEFINE o == Other(p)
           a == Pg(o)
           b == Pg(p)
           x == live.to[o]
           y == live.to[p]
<1>1. o \in Pages /\ Other(o) = p
  BY Two
<1>2. live.kind \in {"rps", "ball"} /\ a.games \in Nat /\ b.games \in Nat /\ b.games > a.games
  BY <1>1, LinkedIs DEF Sheets
<1>3. (~InPlay(a) => a.games = 0) /\ (~InPlay(b) => b.games = 0)
  BY <1>1, LinkedIs DEF Unplayed
<1>4. /\ live.kind = "rps" => Heard(o, a, b, x)
      /\ live.kind = "ball" => OneRally(o, a, b, x, y)
  BY <1>1, LinkedIs
<1>5. Underway(o, "again") = HowMany(x, "again")
  BY UnderwayIs
<1> DEFINE s == SEAL(b.m)
           v == SERVE(0)
<1>6. s.t = "c" /\ v.t = "serve"
  BY Tags
<1>7. CASE live.kind = "rps"
  <2>1. x = <<AGAIN, AG>> \/ x = <<AGAIN, AG, s>>
    <3> HIDE DEF o, a, b, x, y, s
    <3>1. ~GameToCome(o, a, b, x)
      BY <1>2, <1>3 DEF GameToCome
    <3>2. a.games # b.games /\ ~GameBefore(a, b, x)
      BY <1>2 DEF GameBefore
    <3>3. GameAfter(a, b, x)
      BY <1>4, <1>7, <3>1, <3>2 DEF Heard
    <3>4. QED
      BY <3>3 DEF GameAfter, s
  <2> HIDE DEF o, a, b, x, y, s
  <2>2. HowMany(x, "again") = 1
    <3>1. AGAIN.t = "again" /\ AG.t # "again" /\ s.t # "again"
      BY <1>6, Tags
    <3>2. HowMany(<<AGAIN, AG>>, "again") = 1 /\ HowMany(<<AGAIN, AG, s>>, "again") = 1
      BY <3>1, FirstOnly, Zenon
    <3>3. QED
      BY <2>1, <3>2
  <2>3. QED
    BY <1>5, <2>2 DEF o
<1>8. CASE live.kind = "ball"
  <2>1. x = <<AGAIN>> \/ x = <<AGAIN, v>>
    <3> HIDE DEF o, a, b, x, y
    <3>1. ~OpensFirst(a, b, x, y) /\ ~OpensFirst(b, a, y, x)
      BY <1>2, <1>3 DEF OpensFirst
    <3>2. ~SameBall(a, b, x, y) /\ ~OpensNext(b, a, y, x)
      BY <1>2 DEF SameBall, Paired, OpensNext
    <3>3. OpensNext(a, b, x, y)
      BY <1>2, <1>3, <1>4, <1>8, <3>1, <3>2 DEF OneRally
    <3>4. QED
      BY <3>3 DEF OpensNext
  <2> HIDE DEF o, a, b, x, y, v
  <2>2. HowMany(x, "again") = 1
    <3>1. AGAIN.t = "again" /\ v.t # "again"
      BY <1>6, Tags
    <3>2. HowMany(<<AGAIN>>, "again") = 1 /\ HowMany(<<AGAIN, v>>, "again") = 1
      BY <3>1, FirstOnly, Zenon
    <3>3. QED
      BY <2>1, <3>2
  <2>3. QED
    BY <1>5, <2>2 DEF o
<1>9. QED
  BY <1>2, <1>7, <1>8

LEMMA BallHolds == ASSUME LiveInv(live) PROVE OneBall
<1>1. ASSUME live.kind = "ball", SameGame
      PROVE  /\ \A p \in Pages : Pg(p).b.score[1] + Underway(p, "miss") = Pg(Other(p)).b.score[2]
             /\ Cardinality({p \in Pages : Pg(p).b.ball = "toward"} \cup {p + 2 : p \in {q \in Pages : Pg(q).b.due}}
                            \cup {p + 4 : p \in {q \in Pages : Pg(q).b.serving /\ Pg(q).b.n = 0 /\ Pg(q).b.ball = "none"}})
                  + Underway(1, "serve") + Underway(2, "serve") + Underway(1, "hit") + Underway(2, "hit")
                = IF \E p \in Pages : Pg(p).b.done THEN 0 ELSE 1
  BY <1>1, BallIsOne DEF Holders
<1>2. Linked /\ Pg(1).scr = "play" /\ Pg(2).scr = "ready" => Underway(2, "go") = 1
  BY StartIsOnItsWay
<1>3. Linked => \A p \in Pages : Pg(p).games > Pg(Other(p)).games => Underway(Other(p), "again") = 1
  BY RematchIsOnItsWay
<1>4. QED
  BY <1>1, <1>2, <1>3 DEF OneBall

(* No honest player is called a cheat, no hand is known before both are     *)
(* sealed, and the two pages count the same rounds (rpslive.js); there is   *)
(* one ball and one score, and neither page waits for a start or a rematch  *)
(* the other one already plays (ballduell.js, live-ui.js).                  *)
THEOREM LiveStaysFair == ASSUME LiveSetting PROVE LiveSpec => [](HandsStaySealed /\ OneBall)
<1>1. LiveInit => LiveInv(live)
  BY LiveStarts
<1>2. LiveInv(live) /\ [LiveNext]_live => LiveInv(live)'
  <2>1. ASSUME LiveInv(live), [LiveNext]_live PROVE LiveInv(live')
    BY <2>1, LiveGoesOn
  <2>2. QED
    BY <2>1
<1>3. LiveInv(live) => HandsStaySealed /\ OneBall
  BY HandsHold, BallHolds
<1>4. QED
  BY <1>1, <1>2, <1>3, PTL DEF LiveSpec
=============================================================================
