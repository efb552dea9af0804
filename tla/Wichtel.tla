------------------------------ MODULE Wichtel ------------------------------
(***************************************************************************)
(* Secret Santa by link (turn2.js widget bw, flavors/business/games.js,    *)
(* siegel.js).  Each phone signs up with a name and a key made on it and   *)
(* sends the list on; the phone that set the group up merges the sign-ups  *)
(* it is sent and draws one circle; each phone opens the box sealed to its *)
(* key.  Links are opened late, repeatedly and in any order.               *)
(* Making a key and sealing a draw are awaited; meanwhile the same phone   *)
(* opens other links, and what comes back belongs to a screen it has left. *)
(*                                                                         *)
(* A key is the number of the phone that made it; a sealed box is the pair *)
(* of the key it is sealed to and what is inside, and only that phone      *)
(* opens it (WebCrypto, external).                                         *)
(***************************************************************************)
EXTENDS Integers, Sequences, FiniteSets

CONSTANTS
  Organiser,    \* the phone that set the group up
  NamesOf,      \* phone -> the names its person may type
  LEAST,        \* a draw needs at least three (3 in the code)
  MAX,          \* sign-ups of one group (12 in the code)
  FIT,          \* sign-ups that fit one link
  MaxPosts      \* bound: lists of sign-ups sent into the chat

VARIABLE santa

Group == DOMAIN NamesOf
Off == [on |-> FALSE]

(* A link holds the sign-ups [name, key] or, once drawn, the names and the *)
(* boxes.                                                                  *)
SignUps(l) == [drawn |-> FALSE, list |-> l, boxes |-> <<>>]
Draw(names, boxes) == [drawn |-> TRUE, list |-> names, boxes |-> boxes]
Nothing == SignUps(<<>>)

NoRec == [o |-> FALSE, key |-> FALSE, r |-> <<>>, z |-> FALSE, zd |-> Nothing]
(* A screen of the widget: what it shows, what would be sent from it, and  *)
(* what it waits for: a key to sign up with, or the circle being sealed to *)
(* the people who were on the list (of) when it was asked for.             *)
NoName == ""
NoPage == [shows |-> "no", list |-> <<>>, next |-> Nothing,
           joins |-> NoName, seals |-> <<>>, of |-> <<>>]
Waits(w) == w.joins # NoName \/ w.seals # <<>>

SantaInit ==
  santa = [on |-> TRUE, chat |-> {Nothing}, posts |-> 0,
           rec |-> [p \in Group |-> [NoRec EXCEPT !.o = p = Organiser]],
           page |-> [p \in Group |-> NoPage], left |-> [p \in Group |-> NoPage],
           twice |-> FALSE]

Places(l) == 1..Len(l)
NamesIn(l) == {l[i][1] : i \in Places(l)}
KeysIn(l) == {l[i][2] : i \in Places(l)}

(* roster: names apart, keys apart, not too many. *)
Roster(l) ==
  /\ Len(l) \in 1..MAX
  /\ Cardinality(NamesIn(l)) = Len(l) /\ Cardinality(KeysIn(l)) = Len(l)

(* bwUnion: the sign-ups of b that still fit go behind those of a. *)
Union2(a, b) ==
  LET out[i \in 0..Len(b)] ==
        IF i = 0 THEN a
        ELSE IF Len(out[i - 1]) < MAX /\ Roster(Append(out[i - 1], b[i])) THEN Append(out[i - 1], b[i])
        ELSE out[i - 1]
  IN out[Len(b)]

Mine(p, l) == {i \in Places(l) : santa.rec[p].key /\ l[i][2] = p}

-----------------------------------------------------------------------------
Screens == {"page", "left"}

(* draw() on a link that is not drawn: on a phone that knows of the draw,  *)
(* only the drawing phone has something to send, the draw once more.       *)
Show(w, rec) ==
  [w EXCEPT !.shows = IF rec.z THEN "again" ELSE "signing",
            !.next = IF rec.z THEN rec.zd ELSE Nothing]

(* The widget opens on a link: sign-ups are merged with what the phone     *)
(* knows and kept, a draw marks the group as drawn; on a phone that knows  *)
(* of the draw an older link takes no sign-ups.  A screen that still waits *)
(* for something goes on out of sight.                                     *)
OpenWidget(p, k) ==
  LET rec == santa.rec[p]
      list == IF k.drawn THEN <<>> ELSE IF rec.z THEN k.list ELSE Union2(k.list, rec.r)
      now == IF k.drawn THEN [rec EXCEPT !.z = TRUE]
             ELSE IF rec.z THEN rec ELSE [rec EXCEPT !.r = list]
      fresh == [NoPage EXCEPT !.list = list]
  IN /\ k \in santa.chat
     /\ santa' = [santa EXCEPT
          !.page[p] = IF k.drawn THEN [fresh EXCEPT !.shows = "drawn"] ELSE Show(fresh, now),
          !.left[p] = IF Waits(santa.page[p]) THEN santa.page[p] ELSE @,
          !.rec[p] = now]

Signing(p) == santa.page[p].shows = "signing"

(* A screen that was left counts as long as it waits.                      *)
Tidy(s, p) == [s EXCEPT !.left[p] = IF Waits(@) THEN @ ELSE NoPage]

(* The name joins the list of its screen, which is drawn anew.             *)
Joined(s, p, at, n) ==
  LET list == Append(s[at][p].list, <<n, p>>)
      rec == [s.rec[p] EXCEPT !.key = TRUE, !.r = list]
  IN [s EXCEPT !.rec[p] = rec,
               ![at][p] = Show([@ EXCEPT !.list = list, !.joins = NoName], rec)]

(* "Join": the name is new in the list, there is room; a phone without a   *)
(* key makes one first.                                                    *)
SignUp(p, n) ==
  /\ Signing(p) /\ Mine(p, santa.page[p].list) = {} /\ santa.page[p].joins = NoName
  /\ n \notin NamesIn(santa.page[p].list) /\ Len(santa.page[p].list) < MAX
  /\ santa' = IF santa.rec[p].key THEN Joined(santa, p, "page", n)
              ELSE [santa EXCEPT !.page[p].joins = n,
                                 !.twice = @ \/ santa.left[p].joins # NoName]

(* The key is there (or WebCrypto fails), on whatever screen asked for it. *)
KeyMade(p, at, ok) ==
  LET n == santa[at][p].joins
  IN /\ n # NoName
     /\ santa' = Tidy(IF ok THEN Joined(santa, p, at, n)
                      ELSE [santa EXCEPT ![at][p].joins = NoName], p)

(* out: this phone's sign-up first, then the others, as many as fit. *)
Out(p) ==
  LET l == santa.page[p].list
      me == Mine(p, l)
      others(e) == e[2] # p
      v == IF me = {} THEN l ELSE <<l[CHOOSE i \in me : TRUE]>> \o SelectSeq(l, others)
  IN SubSeq(v, 1, IF Len(v) > FIT THEN FIT ELSE Len(v))

Post(k) == [santa EXCEPT !.chat = @ \cup {k}, !.posts = IF k.drawn THEN @ ELSE @ + 1]

SendSignUps(p) ==
  /\ Signing(p) /\ santa.posts < MaxPosts
  /\ santa.page[p].list # <<>> /\ (Mine(p, santa.page[p].list) # {} \/ santa.rec[p].o)
  /\ santa' = Post(SignUps(Out(p)))

(* Fisher-Yates, then each gives to the next and the last to the first. *)
Orders(n) == {a \in [1..n -> 1..n] : \A i, j \in 1..n : a[i] = a[j] => i = j}
Circle(a, n) == [v \in 1..n |-> LET at == CHOOSE i \in 1..n : a[i] = v IN a[(at % n) + 1]]

(* "Draw": the circle is drawn at once, sealing it takes a while; only     *)
(* signing up gives the screen a new button meanwhile.  `twice' is         *)
(* history: asked for on a screen that was opened before another draw was  *)
(* ready (or before another key was).                                      *)
DrawNow(p, a) ==
  LET w == santa.page[p]
  IN /\ Signing(p) /\ santa.rec[p].o /\ Len(w.list) >= LEAST
     /\ w.seals = <<>> \/ w.of # w.list
     /\ santa' = [santa EXCEPT
          !.page[p].seals = Circle(a, Len(w.list)), !.page[p].of = w.list,
          !.twice = @ \/ santa.rec[p].z \/ santa.left[p].seals # <<>>]

(* Sealed: every recipient to the key of the one who gives, in the order   *)
(* of the list; the names are those on the list by now, and a draw whose   *)
(* names and boxes differ in number is refused.  The drawing phone notes   *)
(* that it drew, even on a screen it has left, and keeps the draw.         *)
DrawSealed(p, at, ok) ==
  LET w == santa[at][p]
      k == Draw([i \in Places(w.list) |-> w.list[i][1]],
                [i \in Places(w.of) |-> [key |-> w.of[i][2], to |-> w.seals[i]]])
      over == [w EXCEPT !.seals = <<>>, !.of = <<>>]
  IN /\ w.seals # <<>>
     /\ santa' = Tidy(IF ~ok \/ Len(w.list) # Len(w.of) THEN [santa EXCEPT ![at][p] = over]
                      ELSE [santa EXCEPT !.rec[p].z = TRUE, !.rec[p].zd = k,
                              ![at][p] = [over EXCEPT !.shows = "again", !.next = k]], p)

(* What the drawing phone has to send: the draw it made or, on an older    *)
(* link, the draw once more.                                               *)
SendDraw(p) ==
  /\ santa.page[p].shows = "again" /\ santa.page[p].next.drawn
  /\ santa' = Post(santa.page[p].next)

SantaNext ==
  /\ santa.on
  /\ \E p \in Group :
       \/ \E k \in santa.chat : OpenWidget(p, k)
       \/ \E n \in NamesOf[p] : SignUp(p, n)
       \/ \E at \in Screens, ok \in BOOLEAN : KeyMade(p, at, ok) \/ DrawSealed(p, at, ok)
       \/ SendSignUps(p)
       \/ \E a \in Orders(Len(santa.page[p].list)) : DrawNow(p, a)
       \/ SendDraw(p)

SantaSpec == SantaInit /\ [][SantaNext]_santa

-----------------------------------------------------------------------------
(* slipOf: the place whose box this phone's key opens. *)
Slips(p, k) == {i \in Places(k.list) : santa.rec[p].key /\ k.boxes[i].key = p}

(* There is one draw, however often and from whichever old link it is      *)
(* asked for again, and whatever other links are opened while it is being  *)
(* sealed; in it everybody who is named opens exactly one box with the own *)
(* phone, at the own name, gives to somebody else, and all together are    *)
(* one circle; and a name in the draw is a name that phone signed up with. *)
(* Not promised to somebody who asks twice: a screen opened before the     *)
(* first draw was ready still draws a second one.                          *)
OneFairDraw ==
  santa.twice \/
  \A k \in santa.chat : k.drawn =>
    LET n == Len(k.list)
        to[i \in 0..n] == [v \in 1..n |-> IF i = 0 THEN v ELSE k.boxes[to[i - 1][v]].to]
    IN /\ \A j \in santa.chat : j.drawn => j = k
       /\ n >= LEAST
       /\ \A i \in 1..n : /\ Slips(k.boxes[i].key, k) = {i}
                          /\ k.list[i] \in NamesOf[k.boxes[i].key]
                          /\ {to[s][i] : s \in 1..n} = 1..n
=============================================================================
