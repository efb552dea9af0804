------------------------------- MODULE Feier -------------------------------
(***************************************************************************)
(* Planning a party with sealed answers in one link (feier.js, its screens *)
(* feier-ui.js).  Everybody who answers adds a sealed box to the link and  *)
(* passes it on, so the poll forks; only the organiser's device opens      *)
(* boxes, and only it can sign the end with the totals.                    *)
(*                                                                         *)
(* An answer (dates, place and food) is one value, a box a number whose    *)
(* content only `seal' knows.  Keys, sealing and signing are WebCrypto:    *)
(* they take a while, and a box or an end made with the poll's keys is     *)
(* told from any other.  Bounds: every link comes from a screen of the     *)
(* poll, so no box is a foreign one and every end is signed; nobody goes   *)
(* back to the screen a link was sent from.                                *)
(***************************************************************************)
EXTENDS Naturals, Sequences, FiniteSets

CONSTANTS
    Org,         \* the organiser's device
    Guests,
    K,           \* totals are shown from K answers on
    FIT,         \* boxes a link has room for
    MAXN,        \* answers a link can count
    MaxLinks,    \* bound: links of any party
    Parties      \* bounds: links, boxes, answers, taps on one, phones that pass the
                 \* question on, and whether the last date passes

VARIABLE feier

NONE == 0
Phones == {Org} \cup Guests
NoEnd == {NONE}

\* History: of, the link before; from, every box of the chain so far.
Blank == [n |-> 0, boxes |-> <<>>, end |-> NoEnd, of |-> NONE, from |-> {}]
Left == [at |-> "no", link |-> 1, other |-> FALSE, want |-> NONE, seq |-> 0,
         seals |-> {}, box |-> NONE]

Off == [party |-> "off", links |-> <<>>, phone |-> [d \in Phones |-> Left], answered |-> {},
        box |-> <<>>, sent |-> {},
        seen |-> {}, draws |-> {}, shown |-> NoEnd, missing |-> FALSE,
        closing |-> {}, next |-> NoEnd, late |-> FALSE]

\* start(): keys made once, the blank poll goes out.
FeierInit == \E p \in Parties : feier = [Off EXCEPT !.party = p, !.links = <<Blank>>]

Link(d) == feier.links[feier.phone[d].link]
Chunks(l) == {l.boxes[i] : i \in DOMAIN l.boxes}
Ended(l) == l.end # NoEnd
Over(l) == Ended(l) \/ feier.late

----------------------------------------------------------------------------
(* The link after one more answer, and what a link may hold.               *)

\* The oldest boxes give way.
Vote(l, b, of) ==
    LET all == Append(l.boxes, b)
        n == IF Len(all) < FIT THEN Len(all) ELSE FIT
    IN [n |-> l.n + 1, boxes |-> SubSeq(all, Len(all) - n + 1, Len(all)),
        end |-> NoEnd, of |-> of, from |-> l.from \cup {b}]

\* checkC() and cOk(): one more box at the end of the ones before, or the end.
CheckC(v, p) ==
    /\ v.n <= MAXN /\ Len(v.boxes) <= v.n /\ ~Ended(p)
    /\ IF Ended(v) THEN v.boxes = <<>> /\ Cardinality(v.end) >= K
                          /\ Cardinality(v.end) = v.n
       ELSE /\ v.n = p.n + 1 /\ Len(v.boxes) \in 1..FIT
            /\ LET new == v.boxes[Len(v.boxes)]
                   all == Append(p.boxes, new)
               IN new \notin Chunks(p)
                    /\ v.boxes = SubSeq(all, Len(all) - Len(v.boxes) + 1, Len(all))

----------------------------------------------------------------------------
(* Answering.                                                              *)

\* The boxes of the link join the ones seen before; they are opened in a while.
Dash(s, boxes) == [s EXCEPT !.seen = @ \cup boxes,
                            !.draws = @ \cup {s.seen \cup boxes}]

\* A link is opened: the organiser's totals, "answered already" or the
\* questions.  Once it is over only the result shows, and nothing changes.
Open(d, i) ==
    LET l == feier.links[i]
        at == IF d = Org THEN "dash"
              ELSE IF d \in feier.answered THEN "asked" ELSE "answer"
        s == [feier EXCEPT !.phone[d] = [Left EXCEPT !.at = at, !.link = i]]
    IN /\ feier.phone[d].at = "no" /\ i \in DOMAIN feier.links /\ ~Over(l)
       /\ feier' = IF at = "dash" THEN Dash(s, Chunks(l)) ELSE s

\* A screen drawn anew: what is still being opened is not shown any more, but
\* an end that is being signed is.
Anew(s, d) == IF d # Org THEN s
              ELSE [s EXCEPT !.draws = {}, !.shown = NoEnd,
                      !.closing = {[c EXCEPT !.here = FALSE] : c \in @}]

\* The editor is left: what comes later comes to an editor nobody sees.
Gone(s, d) == IF d # Org THEN [s EXCEPT !.phone[d] = Left]
              ELSE [Anew(s, d) EXCEPT !.phone[d] = Left, !.closing = {}, !.next = NoEnd]

Leave(d) ==
    /\ feier.phone[d].at # "no"
    /\ feier' = Gone(feier, d)

\* Somebody else on this phone; the organiser answering for herself, unless an
\* end has come in meanwhile.
Other(d) ==
    /\ feier.phone[d].at \in {"dash", "asked"} /\ d \in feier.party.others
    /\ feier' = [Anew(feier, d) EXCEPT !.phone[d].other = TRUE,
                   !.phone[d].at = IF d = Org /\ feier.next # NoEnd THEN "ended" ELSE "answer"]

\* With an end ready to be sent, no step leads on.
LeadsOn(d) == d = Org => feier.next = NoEnd

\* Every tap on the last question seals the whole answer again.
Tap(d, v) ==
    /\ \/ feier.phone[d].at = "answer" /\ LeadsOn(d)
       \/ feier.phone[d].at \in {"sealing", "ready"}
    /\ feier.phone[d].seq < feier.party.taps /\ v # feier.phone[d].want
    /\ feier' = [feier EXCEPT !.phone[d] =
         [@ EXCEPT !.at = "sealing", !.want = v, !.seq = @ + 1, !.box = NONE,
                   !.seals = @ \cup {[seq |-> feier.phone[d].seq + 1, val |-> v]}]]

\* seal(): a box with the answer of that tap.
Seal(d, x) == [by |-> d, val |-> x.val, other |-> feier.phone[d].other]

SealedAny(d, x) ==
    LET b == Len(feier.box) + 1
    IN /\ feier.phone[d].at \in {"sealing", "ready"}
       /\ x \in feier.phone[d].seals /\ Len(feier.box) < feier.party.boxes
       /\ feier' = [feier EXCEPT
            !.phone[d].seals = @ \ {x},
            !.box = Append(@, Seal(d, x)),
            !.phone[d].at = "ready", !.phone[d].box = b]

\* A box is there; only the one of the last tap counts, and only if the link
\* takes it.
Sealed(d, x) ==
    LET b == Len(feier.box) + 1
        ok == CheckC(Vote(Link(d), b, NONE), Link(d)) /\ ~feier.late
        s == [feier EXCEPT !.phone[d].seals = @ \ {x}]
    IN /\ feier.phone[d].at \in {"sealing", "ready"}
       /\ x \in feier.phone[d].seals /\ Len(feier.box) < feier.party.boxes
       /\ feier' = IF x.seq # feier.phone[d].seq THEN s
                   ELSE [s EXCEPT
                     !.box = Append(@, Seal(d, x)),
                     !.phone[d].at = IF ok THEN "ready" ELSE "sealing",
                     !.phone[d].box = IF ok THEN b ELSE NONE]

\* The answer is sent, unless the last date has passed; this phone remembers
\* that it answered.
Send(d) ==
    LET b == feier.phone[d].box
    IN /\ feier.phone[d].at = "ready" /\ LeadsOn(d) /\ ~feier.late
       /\ Len(feier.links) < feier.party.links
       /\ feier' = Gone([feier EXCEPT
            !.links = Append(@, Vote(Link(d), b, feier.phone[d].link)),
            !.sent = @ \cup {[box |-> b, want |-> feier.phone[d].want]},
            !.answered = @ \cup {d}], d)

----------------------------------------------------------------------------
(* The organiser.                                                          *)

\* Other links of the poll, pasted in.
Paste(i) ==
    /\ feier.phone[Org].at = "dash" /\ i \in DOMAIN feier.links
    /\ ~Chunks(feier.links[i]) \subseteq feier.seen
    /\ feier' = Dash(feier, Chunks(feier.links[i]))

\* tally(): the boxes opened, each counted once.
Tally(boxes) == Cardinality(boxes)

\* The totals on screen are those of the boxes it began with.  The count of the opened link tells of boxes that gave way unseen.
Drawn(x) ==
    /\ feier.phone[Org].at = "dash" /\ x \in feier.draws
    /\ feier' = [feier EXCEPT !.draws = @ \ {x}, !.shown = x,
                   !.missing = Link(Org).n > Tally(x)]

\* Another part of the editor and back.
Redraw ==
    /\ feier.phone[Org].at = "dash" /\ feier.next = NoEnd
    /\ feier' = Dash(Anew(feier, Org), {})

\* Ending, with the totals on screen: boxes still being opened are not in them.
\* A screen drawn anew, or new totals, bring a button of their own.
Close ==
    /\ feier.phone[Org].at = "dash"
    /\ feier.shown # NoEnd /\ Tally(feier.shown) >= K
    /\ [end |-> feier.shown, here |-> TRUE] \notin feier.closing
    /\ feier' = [feier EXCEPT !.closing = @ \cup {[end |-> feier.shown, here |-> TRUE]}]

\* The signed end with the totals it was asked for.
End(totals) ==
    [n |-> Tally(totals), boxes |-> <<>>, end |-> totals,
     of |-> feier.phone[Org].link, from |-> Link(Org).from]

\* Signed: the end is what this phone will send next, whatever it shows by now,
\* unless the last date has passed.
Closed(c) ==
    LET s == [feier EXCEPT !.closing = @ \ {c}]
        ready == [s EXCEPT !.next = c.end]
    IN feier' = IF feier.late \/ ~CheckC(End(c.end), Link(Org)) THEN s
                ELSE IF c.here THEN [ready EXCEPT !.phone[Org].at = "ended",
                                       !.draws = {}, !.shown = NoEnd]
                ELSE ready

\* The end is taken back: the first step again.
Redo ==
    /\ feier.next # NoEnd
    /\ LET s == [Anew(feier, Org) EXCEPT !.next = NoEnd]
           fresh == [Left EXCEPT !.link = s.phone[Org].link, !.other = s.phone[Org].other]
       IN feier' = IF fresh.other THEN [s EXCEPT !.phone[Org] = [fresh EXCEPT !.at = "answer"]]
                   ELSE Dash([s EXCEPT !.phone[Org] = [fresh EXCEPT !.at = "dash"]], {})

SendEnd ==
    /\ feier.next # NoEnd /\ ~feier.late /\ Len(feier.links) < feier.party.links
    /\ feier' = Gone([feier EXCEPT !.links = Append(@, End(feier.next))], Org)

\* The last date passes.
Lapse ==
    /\ feier.party.lapse /\ ~feier.late
    /\ feier' = [feier EXCEPT !.late = TRUE]

FeierNext ==
    \/ \E d \in Phones :
         \/ \E i \in 1..MaxLinks : Open(d, i)
         \/ Leave(d) \/ Other(d) \/ Send(d)
         \/ \E v \in 1..feier.party.vals : Tap(d, v)
         \/ \E x \in feier.phone[d].seals : Sealed(d, x)
    \/ \E i \in 1..MaxLinks : Paste(i)
    \/ \E x \in feier.draws : Drawn(x)
    \/ \E c \in feier.closing : Closed(c)
    \/ Redraw \/ Close \/ Redo \/ SendEnd \/ Lapse

FeierSpec == FeierInit /\ [][FeierNext]_feier

----------------------------------------------------------------------------

\* Every answer counts once: a box holds the answer its sender saw on screen;
\* a link holds the latest boxes of its chain and counts all of them, and an
\* honest answer is refused only when the count is full; the end is published
\* from K answers on, counts every box of the link it was made from and none
\* the organiser's device has not seen, and nobody twice who did not ask for
\* another turn; as long as only boxes of the opened link's own chain are
\* shown, the organiser is told whenever one of them is missing.
EveryAnswerCountsOnce ==
    /\ \A x \in feier.sent : feier.box[x.box].val = x.want
    /\ \A i \in DOMAIN feier.links :
         LET l == feier.links[i]
         IN IF Ended(l)
            THEN /\ l.n = Cardinality(l.end) /\ l.n >= K
                 /\ l.end \subseteq feier.seen
                 /\ Chunks(feier.links[l.of]) \subseteq l.end
                 /\ \A b, c \in l.end :
                      b # c /\ feier.box[b].by = feier.box[c].by
                        => feier.box[b].other \/ feier.box[c].other
            ELSE /\ l.n = Cardinality(l.from) /\ Chunks(l) \subseteq l.from
                 /\ Len(l.boxes) = Cardinality(Chunks(l))
                 /\ Len(l.boxes) = IF l.n < FIT THEN l.n ELSE FIT
    /\ \A d \in Phones :
         feier.phone[d].at = "sealing" /\ feier.phone[d].seals = {}
           => feier.late \/ Link(d).n = MAXN \/ Len(feier.box) = feier.party.boxes
    /\ feier.phone[Org].at = "dash" /\ feier.shown # NoEnd /\ ~feier.missing
         /\ feier.shown \subseteq Link(Org).from
       => feier.shown = Link(Org).from
=============================================================================
