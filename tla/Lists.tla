------------------------------- MODULE Lists -------------------------------
(***************************************************************************)
(* The shared lists of the turn cards: the shopping list, the task list    *)
(* and the wish list (turns.js, turn-ui.js, turn2.js).  A list travels in  *)
(* links through a chat: every phone opens links in any order and any      *)
(* number of times, merges each with what it kept, and sends its own       *)
(* changes on top in a new link.                                           *)
(*                                                                         *)
(* A list is a function from item keys to [t, qty, marks]; marks holds one *)
(* number per person, version * 3 + state, 0 for none.  Texts, faces and   *)
(* the order in which a list is written into a link follow from the keys.  *)
(* Every phone has one person's name.                                      *)
(***************************************************************************)
EXTENDS Integers, Sequences, FiniteSets, FiniteSetsExt

CONSTANTS
  Phones,       \* the phones that follow one list, named like their person
  Starter,      \* the phone the list is written on
  Hers,         \* wish list: the wisher's phones
  Scenes,       \* what is explored: [kind, goods, items, links, forget]:
                \* the kind of list, the keys of its items (numbers), how many
                \* items fit a link (20, 12 and 10 in the code), how many links
                \* are sent (a bound), and whether other lists may push this
                \* one out of a phone's store
  VER,          \* the last version of a mark (999 in the code)
  MaxTaps,      \* bound: taps in one editor before it sends
  MayReturn     \* whether a person goes back to the editor after sending

VARIABLE lists

Off == [scene |-> "off"]
Empty == [g \in {} |-> 0]
Closed == [open |-> FALSE, base |-> Empty, adds |-> <<>>, marks |-> Empty, o |-> 0, taps |-> 0, sent |-> FALSE]

ListInit == \E s \in Scenes :
  lists = [scene |-> s, chat |-> {}, n |-> 0,
           phone |-> [p \in Phones |-> [kept |-> Empty, own |-> -1, ed |-> Closed, seen |-> {}, unsent |-> FALSE, forgot |-> FALSE]]]

NoMarks == [p \in Phones |-> 0]
Later(a, b) == IF a > b THEN a ELSE b
Sooner(a, b) == IF a < b THEN a ELSE b

(* shopOpen of a second list into a first: one entry per key, smaller t,   *)
(* larger quantity, per person the larger mark.                            *)
Open(a, b) ==
  [g \in DOMAIN a \cup DOMAIN b |->
     IF g \notin DOMAIN b THEN a[g]
     ELSE IF g \notin DOMAIN a THEN b[g]
     ELSE [t |-> Sooner(a[g].t, b[g].t), qty |-> Later(a[g].qty, b[g].qty),
           marks |-> [p \in Phones |-> Later(a[g].marks[p], b[g].marks[p])]]]

(* shopClose: as many items as fit, in the one order every phone builds.   *)
Before(l, g, h) == l[g].t < l[h].t \/ (l[g].t = l[h].t /\ g < h)
Close(l) ==
  LET kept == {g \in DOMAIN l : Cardinality({h \in DOMAIN l : Before(l, h, g)}) < lists.scene.items}
  IN [g \in kept |-> l[g]]

Merge(a, b) == Close(Open(a, b))

NextT(l) == IF DOMAIN l = {} THEN 0 ELSE 1 + Max({l[g].t : g \in DOMAIN l})

(* shopApply: new items after everything the base shows, then the person's *)
(* own marks, each one version above the mark of the base.                 *)
Added(base, adds) ==
  LET t0 == NextT(base)
      new[i \in 0..Len(adds)] ==
        IF i = 0 THEN base
        ELSE Open(new[i - 1], [g \in {adds[i][1]} |-> [t |-> t0 + i - 1, qty |-> adds[i][2], marks |-> NoMarks]])
  IN new[Len(adds)]

MarkOf(l, p, g) == IF g \in DOMAIN l THEN l[g].marks[p] ELSE 0

Stamp(had, s) == Sooner(VER, had \div 3 + 1) * 3 + s

Apply(base, p, adds, marks) ==
  LET o == Added(base, adds)
      had(g) == MarkOf(base, p, g)
      moves(g) == g \in DOMAIN marks /\ (IF had(g) > 0 THEN had(g) % 3 # marks[g] ELSE marks[g] # 0)
  IN Close([g \in DOMAIN o |-> IF moves(g) THEN [o[g] EXCEPT !.marks[p] = Stamp(had(g), marks[g])] ELSE o[g]])

Holders(l, g, s) == {p \in Phones : l[g].marks[p] % 3 = s /\ l[g].marks[p] > 0}
Done(l) == DOMAIN l # {} /\ \A g \in DOMAIN l : Holders(l, g, 2) # {}

(* GAMES.einkauf.ends, GAMES.todo.ends, GAMES.wunsch.ends *)
IsOver(kind, l, o) == DOMAIN l # {} /\ (IF kind = "wunsch" THEN o = 2 ELSE Done(l))

Bare(l) == [g \in DOMAIN l |-> [l[g] EXCEPT !.marks = NoMarks, !.qty = 1]]

-----------------------------------------------------------------------------
Phone(p) == lists.phone[p]
Ed(p) == lists.phone[p].ed
Wish == lists.scene.kind = "wunsch"
Now(p) == Apply(Ed(p).base, p, Ed(p).adds, Ed(p).marks)
Over(p) == IsOver(lists.scene.kind, Ed(p).base, Ed(p).o)

SetPhone(p, r) == [lists EXCEPT !.phone[p] = r]
SetEd(p, e) == [lists EXCEPT !.phone[p].ed = e]

(* wishWho: a phone that writes the list or opens her own link is hers.    *)
Who(ph, base, o) ==
  IF ph.own = 1 \/ base = Empty \/ o = 1 THEN 1 ELSE ph.own

Opened(base, o) == [Closed EXCEPT !.open = TRUE, !.base = base, !.o = o]

(* A new list: the editor opens without a move. *)
Begin(p) ==
  /\ p = Starter /\ lists.n = 0 /\ ~Ed(p).open
  /\ lists' = SetPhone(p, [Phone(p) EXCEPT !.ed = Opened(Empty, 0),
                                           !.own = IF Wish THEN 1 ELSE -1])

(* shopSync: the link merged with what the phone kept is the base and is   *)
(* kept; an editor that was open is left.  Then the widget asks whose      *)
(* phone it is.  The wisher's own link stays on her phones.                *)
OpenLink(p, k) ==
  /\ k \in lists.chat /\ (k.private => p \in Hers)
  /\ LET base == Merge(k.items, Phone(p).kept)
     IN lists' = SetPhone(p, [Phone(p) EXCEPT
          !.kept = base, !.seen = @ \cup {k}, !.ed = Opened(base, k.o),
          !.own = IF Wish /\ ~IsOver("wunsch", base, k.o) THEN Who(Phone(p), base, k.o) ELSE @])

(* A phone that does not know asks, and the person answers truthfully. *)
Answer(p) ==
  /\ Wish /\ Ed(p).open /\ ~Over(p) /\ Phone(p).own = -1
  /\ lists' = [lists EXCEPT !.phone[p].own = IF p \in Hers THEN 1 ELSE 0]

Editing(p) ==
  Ed(p).open /\ ~Over(p) /\ ~Ed(p).sent /\ Ed(p).taps < MaxTaps /\ (Wish => Phone(p).own # -1)

(* The field: refused when the list has it already, or has no room.        *)
AddItem(p, g, q) ==
  LET e == Ed(p)
      adds == Append(e.adds, <<g, q>>)
  IN /\ Editing(p) /\ (Wish => Phone(p).own = 1 /\ q = 1)
     /\ ~(g \in DOMAIN Now(p) /\ Now(p)[g].qty >= q)
     /\ g \in DOMAIN Apply(e.base, p, adds, e.marks)
     /\ lists' = SetEd(p, [e EXCEPT !.adds = adds, !.taps = @ + 1])

(* The cross of an item that was not in the list this editor opened. *)
DropItem(p, g) ==
  LET e == Ed(p)
      left(a) == a[1] # g
  IN /\ Editing(p) /\ g \in DOMAIN Now(p) \ DOMAIN e.base
     /\ lists' = SetEd(p, [e EXCEPT !.adds = SelectSeq(@, left), !.taps = @ + 1,
                                    !.marks = [h \in DOMAIN @ \ {g} |-> @[h]]])

(* "I'll bring it" (1) and "bought" (2); a second tap takes the mark back. *)
(* On a wish list only a giver marks, and not what another one gives.      *)
Mark(p, g, s) ==
  LET e == Ed(p)
      me == MarkOf(Now(p), p, g) % 3
  IN /\ Editing(p) /\ g \in DOMAIN Now(p)
     /\ Wish => /\ Phone(p).own = 0 /\ s = 1
                /\ me = 1 \/ Holders(Now(p), g, 1) \ {p} = {}
     /\ lists' = SetEd(p, [e EXCEPT !.taps = @ + 1,
          !.marks = [h \in DOMAIN @ \cup {g} |-> IF h = g THEN (IF me = s THEN 0 ELSE s) ELSE @[h]]])

LinkOf(l, o, p, private) == [items |-> l, o |-> o, by |-> p, n |-> lists.n + 1, private |-> private]

(* Mutant of PlayedO: the mark of her own link goes on. *)
PlayedOKept(o) == o

(* play drops the wisher's o, so that her own link never goes on as the    *)
(* family's.                                                               *)
PlayedO(o) == 0

(* main: the list on screen is kept on the phone, not merged with what is  *)
(* kept, and goes out; a list that is over goes out as it is.              *)
Send(p) ==
  LET e == Ed(p)
      l == IF Over(p) THEN e.base ELSE Now(p)
      k == LinkOf(l, IF Over(p) THEN e.o ELSE IF Wish THEN PlayedO(e.o) ELSE e.o, p, FALSE)
  IN /\ e.open /\ ~e.sent /\ lists.n < lists.scene.links /\ l # Empty
     /\ Wish => Over(p) \/ Phone(p).own # -1
     /\ lists' = [lists EXCEPT
          !.chat = @ \cup {k}, !.n = @ + 1,
          !.phone[p] = [@ EXCEPT !.kept = IF Over(p) THEN @ ELSE l, !.seen = @ \cup {k}, !.unsent = FALSE,
                                 !.ed = IF MayReturn THEN [e EXCEPT !.sent = TRUE] ELSE Closed]]

(* backToEditor: the same editor with the same base and the same changes.  *)
BackToEditor(p) ==
  /\ MayReturn /\ Ed(p).open /\ Ed(p).sent
  /\ lists' = SetEd(p, [Ed(p) EXCEPT !.sent = FALSE, !.taps = 0])

(* The wisher's own link: her wishes without a mark. *)
OwnLink(p) ==
  /\ Wish /\ Ed(p).open /\ ~Over(p) /\ Phone(p).own = 1 /\ Now(p) # Empty /\ lists.n < lists.scene.links
  /\ lists' = [lists EXCEPT !.chat = @ \cup {LinkOf(Bare(Now(p)), 1, p, TRUE)}, !.n = @ + 1]

(* Only her phone closes the wish list: the list as it is, o = 2. *)
CloseWishes(p) ==
  /\ Wish /\ Ed(p).open /\ ~Over(p) /\ Phone(p).own = 1 /\ Ed(p).base # Empty
  /\ lists' = SetPhone(p, [Phone(p) EXCEPT !.kept = Now(p), !.unsent = TRUE, !.ed = Opened(Now(p), 2)])

(* shopKeep and wishMark keep twelve lists, the oldest goes. *)
Forget(p) ==
  /\ lists.scene.forget /\ ~Phone(p).forgot /\ ~Ed(p).open /\ Phone(p).kept # Empty
  /\ lists' = SetPhone(p, [Phone(p) EXCEPT !.kept = Empty, !.own = -1, !.seen = {}, !.unsent = FALSE, !.forgot = TRUE])

ListStep(p) ==
  \/ Begin(p) \/ Answer(p) \/ Send(p) \/ BackToEditor(p)
  \/ OwnLink(p) \/ CloseWishes(p) \/ Forget(p)
  \/ \E k \in lists.chat : OpenLink(p, k)
  \/ \E g \in lists.scene.goods : DropItem(p, g) \/ (\E q \in 1..2 : AddItem(p, g, q)) \/ (\E s \in 1..2 : Mark(p, g, s))

ListNext == lists # Off /\ \E p \in Phones : ListStep(p)

ListSpec == ListInit /\ [][ListNext]_lists

-----------------------------------------------------------------------------
(* Two phones that saw the same links (and closed no list without sending  *)
(* it) show the same list, in whatever order and however often the links   *)
(* came, and whoever saw the last link of a phone that forgot nothing      *)
(* shows that person's marks as that phone does: taking a mark back is     *)
(* never lost to an older link.                                            *)
RepliesMerge ==
  \A p, q \in Phones :
    /\ Phone(p).seen = Phone(q).seen /\ ~Phone(p).unsent /\ ~Phone(q).unsent => Phone(p).kept = Phone(q).kept
    /\ LET mine == {k \in lists.chat : k.by = q /\ ~k.private}
           last == CHOOSE k \in mine : \A j \in mine : j.n <= k.n
       IN mine # {} /\ ~Phone(q).forgot /\ last \in Phone(p).seen =>
            \A g \in DOMAIN Phone(p).kept \cap DOMAIN Phone(q).kept :
              Phone(p).kept[g].marks[q] = Phone(q).kept[g].marks[q]

(* Nobody but the wisher is taken for the wisher, so every giver can       *)
(* reserve and close is hers alone, whatever links were opened and sent on *)
(* from her second phone; and her own link never carries a reservation.    *)
WisherStaysHerself ==
  Wish => /\ \A p \in Phones : Phone(p).own = 1 => p \in Hers
          /\ \A k \in lists.chat : k.o = 1 => k.private /\ \A g \in DOMAIN k.items : k.items[g].marks = NoMarks

(* "Nothing is ever deleted once it went out, so nothing comes back from   *)
(* the dead either" (turns.js, above SHOP): what a phone keeps of a list   *)
(* never loses an item or an older version of a mark.                      *)
NothingComesBack ==
  [][\A p \in Phones : \A g \in DOMAIN Phone(p).kept :
       /\ g \in DOMAIN Phone(p)'.kept
       /\ \A q \in Phones : Phone(p)'.kept[g].marks[q] >= Phone(p).kept[g].marks[q]]_lists
=============================================================================
