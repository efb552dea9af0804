------------------------------- MODULE Malrat -------------------------------
(***************************************************************************)
(* Mal & Rat: one person draws a word, the next guesses it and draws back  *)
(* (malrat.js, the move and its check value; malrat-ui.js, the step in the *)
(* turn editor and the two layers over the screen).                        *)
(*                                                                         *)
(* The word itself never stands in the link, only a check value, and that  *)
(* takes a while to compute: meanwhile the person picks another word,      *)
(* types, draws or closes the layer.  Guesses are checked the same way.    *)
(*                                                                         *)
(* A word is a number, 0 is none; a check value is the word it was         *)
(* computed for, a hint the word it was taken from; a picture is its       *)
(* number of lines, and Room says how many fit into the link beside a      *)
(* word.  Not told apart: points, colours, hints on demand, tiles.         *)
(***************************************************************************)
EXTENDS Naturals, FiniteSets

CONSTANTS
    Offered,     \* the words on offer
    Own,         \* words somebody types
    Room,        \* how many lines fit, for each word
    MAX_ROUND,   \* rounds (999 in the code)
    MaxLines     \* bound: lines tried

VARIABLE mal

WordSet == Offered \cup Own
TYPED == 0
NoPic == [chk |-> 0, hint |-> 0, lines |-> 0, secs |-> 0, round |-> 0]

\* The step's own state (ed.malrat), fresh for every link that is opened.
Step(pic) ==
    [pic |-> pic, mode |-> IF pic = NoPic THEN "draw" ELSE "guess",
     layer |-> "none", pick |-> CHOOSE w \in Offered : TRUE, own |-> 0,
     chk |-> 0, wait |-> 0, pend |-> {}, lines |-> 0, packed |-> 0,
     next |-> NoPic, sent |-> NoPic, tries |-> {}, locked |-> FALSE,
     solved |-> FALSE, gave |-> FALSE, secs |-> 0, stale |-> FALSE]

Off == [Step(NoPic) EXCEPT !.layer = "off"]

Round(s) == s.pic.round + 1
Word(s) == IF s.pick = TYPED THEN s.own ELSE s.pick

----------------------------------------------------------------------------
(* The move.                                                               *)

\* Does the picture fit beside this word (a stand-in while there is none)?
Fits(s, n) == Word(s) = 0 \/ n <= Room[Word(s)]

\* The finest packing that fits; the last one stays when none does.
Repack(s) == IF Fits(s, s.lines) THEN [s EXCEPT !.packed = s.lines] ELSE s

\* What the footer would send: only with lines that fit and the check value of
\* the word chosen now.
Emit(s) ==
    LET w == Word(s)
        r == Repack(s)
        ok == s.lines > 0 /\ w # 0 /\ s.chk = w /\ Fits(s, s.lines)
                /\ Round(s) <= MAX_ROUND
    IN IF ok THEN [r EXCEPT !.stale = FALSE,
                            !.next = [chk |-> s.chk, hint |-> w,
                                      lines |-> r.packed, secs |-> s.secs,
                                      round |-> Round(s)]]
       ELSE [s EXCEPT !.next = NoPic, !.stale = FALSE]

\* The check value for the word chosen now, unless it is there or under way.
Hash(s) ==
    LET e == Emit(s)
        w == Word(s)
    IN IF w = 0 \/ s.chk = w \/ s.wait = w THEN e
       ELSE [e EXCEPT !.wait = w, !.pend = @ \cup {w}]

CheckedLate(w) ==
    /\ w \in mal.pend
    /\ mal' = Emit([mal EXCEPT !.pend = @ \ {w},
                               !.wait = IF @ = w THEN 0 ELSE @, !.chk = w])

\* A check value is there; it counts only for the word still chosen.
Checked(w) ==
    /\ w \in mal.pend
    /\ LET s == [mal EXCEPT !.pend = @ \ {w}, !.wait = IF @ = w THEN 0 ELSE @]
       IN mal' = IF Word(s) = w THEN Emit([s EXCEPT !.chk = w]) ELSE s

----------------------------------------------------------------------------
(* Choosing a word and drawing.                                            *)

Choosing == mal.mode = "draw" /\ mal.layer = "none"

\* Two calls: the tap draws the step anew (which hashes) and hashes.
Pick(w) == Choosing /\ mal' = Hash([mal EXCEPT !.pick = w])

TypeOwn(w) ==
    /\ Choosing /\ mal.pick = TYPED
    /\ mal' = Hash([mal EXCEPT !.own = w, !.chk = 0])

OpenDraw ==
    /\ Choosing /\ Word(mal) # 0
    /\ mal' = [mal EXCEPT !.layer = "draw"]

\* A line that does not fit is not taken, and nothing is cut.
Line ==
    /\ mal.layer = "draw" /\ mal.lines < MaxLines
    /\ mal' = LET s == [mal EXCEPT !.lines = @ + 1]
              IN IF Fits(s, s.lines) THEN Repack(s) ELSE Repack(mal)

Undo ==
    /\ mal.layer = "draw" /\ mal.lines > 0
    /\ mal' = LET s == [mal EXCEPT !.lines = @ - 1] IN Repack(s)

\* Closing draws the step anew and emits; a new address (hashchange) closes the
\* layer without either.
CloseDraw ==
    /\ mal.layer = "draw"
    /\ mal' = Emit(Hash([mal EXCEPT !.layer = "none"]))

CloseByHash ==
    /\ mal.layer # "none" /\ mal.layer # "off"
    /\ mal' = [mal EXCEPT !.layer = "none", !.stale = TRUE]

----------------------------------------------------------------------------
(* Guessing.                                                               *)

OpenGuess ==
    /\ mal.mode = "guess" /\ mal.layer = "none"
    /\ mal' = [mal EXCEPT !.layer = "guess", !.locked = FALSE]

\* The button is locked while a guess is checked, in this layer.
Guess(w) ==
    /\ mal.layer = "guess" /\ ~mal.locked /\ ~mal.solved /\ ~mal.gave
    /\ mal' = [mal EXCEPT !.tries = @ \cup {w}, !.locked = TRUE]

\* Only the check value decides; it may come after the layer was closed or the
\* person gave up.
Guessed(w) ==
    /\ w \in mal.tries
    /\ LET s == [mal EXCEPT !.tries = @ \ {w}, !.locked = FALSE]
       IN mal' = IF w = mal.pic.chk THEN [s EXCEPT !.solved = TRUE, !.secs = 1]
                 ELSE s

GiveUp ==
    /\ mal.layer = "guess" /\ ~mal.solved /\ ~mal.gave
    /\ mal' = [mal EXCEPT !.gave = TRUE, !.secs = 0]

CloseGuess ==
    /\ mal.layer = "guess"
    /\ mal' = [mal EXCEPT !.layer = "none", !.next = NoPic]

\* "Draw back": the layer closes and the step is drawn anew.
DrawBack ==
    /\ mal.layer = "guess" /\ (mal.solved \/ mal.gave)
    /\ mal' = Hash([mal EXCEPT !.mode = "draw", !.layer = "none"])

----------------------------------------------------------------------------
(* The link.                                                               *)

\* The sender may come back to the editor and send another picture.
Send ==
    /\ mal.layer = "none" /\ mal.next # NoPic
    /\ mal' = [mal EXCEPT !.sent = mal.next]

\* The next person opens the link; ok() takes only what a screen can send.
Receive ==
    /\ mal.sent # NoPic
    /\ mal.sent.round = Round(mal) /\ mal.sent.round <= MAX_ROUND
    /\ mal' = Step(mal.sent)

\* The first screen has drawn the step once.
MalInit == mal = Hash(Step(NoPic))

MalNext ==
    \/ \E w \in Offered \cup {TYPED} : Pick(w)
    \/ \E w \in Own \cup {0} : TypeOwn(w)
    \/ \E w \in WordSet : Checked(w) \/ Guess(w) \/ Guessed(w)
    \/ OpenDraw \/ Line \/ Undo \/ CloseDraw \/ CloseByHash
    \/ OpenGuess \/ GiveUp \/ CloseGuess \/ DrawBack
    \/ Send \/ Receive

MalSpec == MalInit /\ [][MalNext]_mal

----------------------------------------------------------------------------

\* A picture that can be sent is of one word: its check value and its hint are
\* of the same word, it fits, it follows the picture it answers and claims a
\* guess only when there was one.  And nothing keeps it back: once every check
\* value has arrived, a drawing that fits its word can be sent, whole, unless
\* the layer was closed by a new address and the step not touched since.
PictureOfItsWord ==
    /\ \A p \in {mal.next, mal.sent} \ {NoPic} :
         /\ p.chk = p.hint /\ p.lines \in 1..Room[p.hint]
         /\ p.round = Round(mal) /\ (p.secs > 0 => mal.solved)
    /\ (/\ mal.mode = "draw" /\ mal.layer = "none" /\ mal.pend = {} /\ ~mal.stale
        /\ Word(mal) # 0 /\ mal.lines > 0 /\ Fits(mal, mal.lines)
        /\ Round(mal) <= MAX_ROUND)
       => mal.next.lines = mal.lines /\ mal.next.hint = Word(mal)
=============================================================================
