------------------------------ MODULE AiAction ------------------------------
(***************************************************************************)
(* One AI action in a panel of the editor: ai.js (the client adapter that  *)
(* waits for the server's queue, the list of answers not settled yet, and  *)
(* block(), the panel itself) with the check list of a question pack       *)
(* (quiz-ui.js) and the places where app.js opens and leaves a sheet.      *)
(*                                                                         *)
(* An answer is handed out together with a receipt: it is paid for until   *)
(* the page gives the receipt back ("discard"), and paid for good once the *)
(* person took it ("accept").  Receipt n belongs to the n-th question.     *)
(* The person goes on tapping while an answer is under way, so it may find *)
(* another sheet, another panel or another pack sheet than it left.        *)
(*                                                                         *)
(* Not told apart: the texts, seals and hashes of an option, the proof of  *)
(* work, the meter and a server without receipts (then there is nothing to *)
(* settle).  Whether the server hears a settling call is not part of this  *)
(* model: the page calls once and never repeats it.                        *)
(***************************************************************************)
EXTENDS Naturals

CONSTANTS
    Kinds,       \* what a sheet's panel does with an answer: "options",
                 \* "auto", "quiz"
    MaxSheets,   \* bound: sheets opened
    MaxAsks,     \* bound: questions asked
    MaxPanels,   \* bound: times a panel or the pack sheet is drawn anew
    PackSize,    \* questions in a pack
    MIN_Q        \* questions a pack needs

VARIABLE ai

Asks == 1..MaxAsks
\* The check list of a ready pack: nothing to settle.
NIGHT == MaxAsks + 1
NoAsk == [n |-> 0, sheet |-> 0, panel |-> 0, shelf |-> 0, phase |-> "none"]

Off == [ed |-> 0, kind |-> "off", screen |-> "off", sheets |-> 0, panel |-> 0,
        shelf |-> 0, asks |-> 0, ask |-> NoAsk, mine |-> 0, shows |-> 0,
        done |-> 0, list |-> 0, open |-> {},
        said |-> [r \in Asks |-> ""], of |-> [r \in Asks |-> 0],
        took |-> {}, kept |-> 0, early |-> FALSE]

AiInit == ai = [Off EXCEPT !.screen = "home"]

----------------------------------------------------------------------------
(* Receipts.                                                               *)

\* A receipt is settled once: it leaves the list of open ones.
Settle(s, r, took) ==
    IF r \in s.open
    THEN [s EXCEPT !.open = @ \ {r},
                   !.said[r] = IF took THEN "accept" ELSE "discard"]
    ELSE s

\* Everything open goes back: asked when a sheet is left or another opened.
Drop(s) ==
    [s EXCEPT !.open = {},
              !.said = [r \in Asks |-> IF r \in s.open THEN "discard" ELSE @[r]]]

\* The open check list is decided; block()'s promise settles its receipt.
Close(s, took) ==
    IF s.done = 0 THEN s
    ELSE Settle([s EXCEPT !.done = 0, !.mine = IF @ = s.done THEN 0 ELSE @],
                s.done, took)

\* The options of the panel's last answer were left untouched.
Untouched(s) == [Settle(s, s.mine, FALSE) EXCEPT !.mine = 0, !.shows = 0]

\* The sheet the question was asked from is still the one being edited.
Alive(s) == s.ask.sheet # 0 /\ s.ask.sheet = s.ed
SamePanel(s) == s.ask.panel = s.panel /\ s.ask.shelf = s.shelf

----------------------------------------------------------------------------
(* Sheets, panels and the pack sheet.                                      *)

\* openEditor(): from home, or from a sheet (a rematch, a card to go on with).
OpenEditor ==
    /\ ai.screen \in {"home", "editor"} /\ ai.sheets < MaxSheets
    /\ \E k \in Kinds :
         ai' = [Drop(ai) EXCEPT !.sheets = @ + 1, !.ed = ai.sheets + 1,
                                !.kind = k, !.screen = "editor",
                                !.panel = @ + 1, !.mine = 0, !.shows = 0]

\* goHome() and goHomeKeep(), from every screen (a link opened from outside).
Leave ==
    /\ ai.screen \in {"editor", "shelf"}
    /\ ai' = [Drop(ai) EXCEPT !.ed = 0, !.kind = "off", !.screen = "home",
                              !.mine = 0, !.shows = 0, !.list = 0]

\* tab(): the panel is drawn anew; what the old one showed is out of reach.
Tab ==
    /\ ai.screen = "editor" /\ ai.panel < MaxPanels
    /\ ai' = [ai EXCEPT !.panel = @ + 1, !.mine = 0, !.shows = 0]

\* QuizUI.open(): a new pack sheet with an empty check list.  `early' is
\* history: it was opened again while an answer was still under way.
OpenPacks ==
    /\ ai.screen = "editor" /\ ai.kind = "quiz" /\ ai.shelf < MaxPanels
    /\ ai' = [Close(ai, FALSE) EXCEPT !.screen = "shelf", !.shelf = @ + 1,
                                      !.list = 0, !.mine = 0,
                                      !.early = @ \/ ai.ask # NoAsk]

\* The shelf's back button or the phone's.
BackFromPacks ==
    /\ ai.screen = "shelf"
    /\ ai' = [Close(ai, FALSE) EXCEPT !.screen = "editor", !.list = 0]

----------------------------------------------------------------------------
(* Asking.                                                                 *)

\* A tap on the panel's button.  A quiz closes its check list before it looks
\* at the text; a crisis shows help, a filtered text nothing; neither is sent.
Act(how) ==
    /\ ai.ask = NoAsk /\ ai.ed # 0 /\ ai.asks < MaxAsks
    /\ ai.screen = IF ai.kind = "quiz" THEN "shelf" ELSE "editor"
    /\ LET s == IF ai.kind = "quiz" THEN [Close(ai, FALSE) EXCEPT !.list = 0]
                ELSE ai
       IN ai' = CASE how = "crisis"   -> Untouched(s)
                  [] how = "filtered" -> s
                  [] how = "send"     ->
                       [Untouched(s) EXCEPT
                          !.asks = @ + 1, !.of[s.asks + 1] = s.ed,
                          !.ask = [n |-> s.asks + 1, sheet |-> s.ed,
                                   panel |-> s.panel, shelf |-> s.shelf,
                                   phase |-> "out"]]

\* 202: a place in the queue; the page sleeps before it asks again.
Queued ==
    /\ ai.ask.phase = "out"
    /\ ai' = [ai EXCEPT !.ask.phase = "sleeps"]

\* After the pause: left meanwhile, waited too long, or asked again.
Wake ==
    /\ ai.ask.phase = "sleeps"
    /\ \/ ai' = [ai EXCEPT !.ask = NoAsk]
       \/ Alive(ai) /\ ai' = [ai EXCEPT !.ask.phase = "out"]

\* No answer: full, used up, blocked, unreachable.  Asking already gave back
\* what the panel showed.
Refused ==
    /\ ai.ask.phase = "out"
    /\ ai' = [ai EXCEPT !.ask = NoAsk]

\* 200: the button stays locked until the options are hashed.
Result ==
    /\ ai.ask.phase = "out"
    /\ ai' = [ai EXCEPT !.ask.phase = "hash"]

\* The check list of an answer: the one still open is decided first.  It is
\* seen only when its pack sheet is still the one on screen.
Review(s, r) ==
    LET c == Close(s, FALSE)
    IN [c EXCEPT !.done = r, !.mine = IF SamePanel(s) THEN r ELSE @,
                 !.list = IF s.ask.shelf = s.shelf /\ s.screen = "shelf"
                          THEN r ELSE @,
                 !.kept = PackSize]

\* What the panel does with the first (or every) option of the answer.
Present(s, r, can) ==
    CASE ~can -> Settle(s, r, FALSE)
      [] can /\ s.kind = "options" ->
           IF SamePanel(s) THEN [s EXCEPT !.mine = r, !.shows = r] ELSE s
      [] can /\ s.kind = "auto" ->
           Settle([s EXCEPT !.took = @ \cup {r}], r, TRUE)
      [] can /\ s.kind = "quiz" -> Review(s, r)

HandOutLate(can) ==
    /\ ai.ask.phase = "hash"
    /\ LET r == ai.ask.n
           s == [ai EXCEPT !.open = @ \cup {r}]
       IN ai' = [IF ai.ed = 0 THEN Settle(s, r, FALSE) ELSE Present(s, r, can)
                   EXCEPT !.ask = NoAsk]

\* The answer with its receipt; one whose sheet was left goes back unseen.
HandOut(can) ==
    /\ ai.ask.phase = "hash"
    /\ LET r == ai.ask.n
           s == [ai EXCEPT !.open = @ \cup {r}]
       IN ai' = [IF Alive(ai) THEN Present(s, r, can) ELSE Settle(s, r, FALSE)
                   EXCEPT !.ask = NoAsk]

----------------------------------------------------------------------------
(* Taking.                                                                 *)

\* A tap on an option; its siblings stay on screen.
PickOption ==
    /\ ai.screen = "editor" /\ ai.shows # 0
    /\ ai' = Settle([ai EXCEPT !.took = @ \cup {ai.shows},
                               !.mine = IF @ = ai.shows THEN 0 ELSE @],
                    ai.shows, TRUE)

\* A ready pack's check list.
NightPack ==
    /\ ai.screen = "shelf"
    /\ ai' = [Close(ai, FALSE) EXCEPT !.list = NIGHT, !.done = NIGHT,
                                      !.kept = PackSize]

\* A question struck from the list, or brought back.
Strike ==
    /\ ai.screen = "shelf" /\ ai.list # 0
    /\ \E n \in 0..PackSize : /\ n \in {ai.kept - 1, ai.kept + 1}
                              /\ ai' = [ai EXCEPT !.kept = n]

\* "Uebernehmen", unless too few questions are left: the pack goes into the
\* sheet, the list is decided, and the click on the shelf's back button finds
\* nothing open.
TakePack ==
    /\ ai.screen = "shelf" /\ ai.list # 0 /\ ai.done # 0 /\ ai.kept >= MIN_Q
    /\ ai' = [Close(ai, TRUE) EXCEPT
                !.took = @ \cup ({ai.list} \ {NIGHT}), !.list = 0,
                !.screen = "editor", !.panel = @ + 1, !.shows = 0]

\* "Verwerfen".
DropPack ==
    /\ ai.screen = "shelf" /\ ai.list # 0 /\ ai.done # 0
    /\ ai' = [Close(ai, FALSE) EXCEPT !.list = 0]

AiNext ==
    \/ OpenEditor \/ Leave \/ Tab \/ OpenPacks \/ BackFromPacks
    \/ \E how \in {"crisis", "filtered", "send"} : Act(how)
    \/ Queued \/ Wake \/ Refused \/ Result
    \/ \E can \in BOOLEAN : HandOut(can)
    \/ PickOption \/ NightPack \/ Strike \/ TakePack \/ DropPack

AiSpec == AiInit /\ [][AiNext]_ai

----------------------------------------------------------------------------

\* Nobody pays for what was not taken, and what was taken is paid for: a
\* receipt is accepted exactly when its answer went into the sheet it was
\* asked for, what is still open belongs to the sheet on screen, and once the
\* person is home every answer has been settled.  Not promised once the pack
\* sheet was opened again while an answer was under way: the late answer then
\* replaces the decision behind the list on screen.
PaidForWhatWasTaken ==
    ai.early \/
    /\ \A r \in Asks : ai.said[r] = "accept" <=> r \in ai.took
    /\ \A r \in ai.open : ai.of[r] = ai.ed
    /\ ai.ed = 0 => ai.open = {}
=============================================================================
