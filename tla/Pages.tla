------------------------------- MODULE Pages -------------------------------
(***************************************************************************)
(* The shell of the app (app.js) around one work: the sheet on the home    *)
(* page, the editor with its side trips (My style, trying the game), the   *)
(* finished card and its link, the invitations; with the short links of    *)
(* shortlink.js and the router.                                            *)
(*                                                                         *)
(* `ed' (the work) and `result' (the finished card) are variables of the   *)
(* page, and everything slow goes on with what they are THEN: drawing the  *)
(* picture, making a short link, uploading the chat picture, loading the   *)
(* part for the status card, looking a short link up, deleting one.        *)
(*                                                                         *)
(* A work is a number: its content, its fragment and its picture.  Not     *)
(* told apart: the wall of finished works, the texts that go along, the    *)
(* day of the calendar, expiry.  The server is modelled from its answers:  *)
(* it keeps fragment and picture under an id.  Bounds: one drawing, one    *)
(* status card, one deletion and one look-up at a time.                    *)
(***************************************************************************)
EXTENDS Naturals, Sequences

CONSTANTS
    Works,       \* contents
    Photos,      \* the ones that hold a photo
    Idea,        \* what an "i=" link names: a sheet that is not a work
    Posted,      \* posted[i]: the work behind short link i made by others
    MAX_KEPT,    \* short links remembered here
    MaxLinks,    \* bound: short links made here
    Visits       \* bounds of one visit to the page: cards finished, links
                 \* opened from outside, and what the person does

VARIABLE page

NONE == 0
Ids == 1..(Len(Posted) + MaxLinks)
NoLink == [id |-> NONE, f |-> NONE]
NoTask == [at |-> "no", res |-> 0, id |-> NONE, pic |-> NONE, link |-> NoLink]
Day == [doc |-> NONE, link |-> NONE]
Slots == {"share", "story"}

NoVisit == [visit |-> "off", screen |-> "off", home |-> Day, ed |-> NONE, styling |-> FALSE,
        played |-> NONE, fin |-> NONE, quick |-> FALSE,
        res |-> <<>>, task |-> [t \in Slots |-> NoTask],
        links |-> <<>>, out |-> {}, made |-> 0,
        server |-> [i \in Ids |-> [f |-> IF i <= Len(Posted) THEN Posted[i]
                                         ELSE NONE,
                                   pic |-> NONE, heard |-> FALSE]],
        del |-> NONE, hash |-> NONE, routes |-> 0, look |-> NONE,
        shortId |-> NONE, trips |-> 0, shared |-> [link |-> NoLink, pic |-> NONE],
        hasty |-> FALSE, strayed |-> FALSE]

PageInit == \E v \in Visits : page = [NoVisit EXCEPT !.visit = v, !.screen = "home"]

\* The finished card on screen is the last one made.
Result(s) == s.res[Len(s.res)]
\* History: the person went on while the picture was drawn.
GoesOn(s) == [s EXCEPT !.hasty = @ \/ s.fin # NONE]

----------------------------------------------------------------------------
(* The sheet and the editor.                                               *)

GoHomeKeep(s) == [s EXCEPT !.ed = NONE, !.styling = FALSE, !.screen = "home"]
GoHome(s) == [GoHomeKeep(s) EXCEPT !.played = NONE, !.hash = NONE]

\* start(), again(), openOwn(): a work from the sheet, the wall or blank.
OpenEditor(d) ==
    /\ "edit" \in page.visit.does /\ page.screen \in {"home", "shelf"}
    /\ page' = [GoesOn(page) EXCEPT !.ed = d, !.styling = FALSE,
                                    !.screen = "editor"]

Edit(d) ==
    /\ "edit" \in page.visit.does /\ page.screen = "editor" /\ d # page.ed
    /\ page' = [GoesOn(page) EXCEPT !.ed = d]

\* My style; openWall from the home page opens the same shelf.
OpenStyle ==
    /\ "side" \in page.visit.does /\ page.screen = "editor"
    /\ page' = [page EXCEPT !.styling = TRUE, !.screen = "shelf"]

OpenWall ==
    /\ "delete" \in page.visit.does /\ page.screen = "home"
    /\ page' = [page EXCEPT !.screen = "shelf"]

MakePlayable ==
    /\ "side" \in page.visit.does /\ page.screen = "editor"
    /\ page' = [page EXCEPT !.played = page.ed, !.screen = "game"]

\* From trying the game, and from My style, back to the work.
BackFromPlay(s) == [s EXCEPT !.ed = s.played, !.played = NONE, !.screen = "editor"]
BackFromStyle(s) == [s EXCEPT !.styling = FALSE, !.screen = "editor"]

\* gback, edback, dback, shback and Escape.
Back ==
    /\ page.screen # "home"
    /\ page' = CASE page.screen = "game" /\ page.played # NONE -> BackFromPlay(page)
                 [] page.screen = "shelf" /\ page.ed # NONE /\ page.styling ->
                      BackFromStyle(page)
                 [] OTHER -> GoesOn(GoHome(page))

\* The phone's back button asks for a side trip on every screen; it leads to
\* an address without a fragment.
PhoneBack ==
    /\ page.screen # "home"
    /\ LET s == [GoesOn(page) EXCEPT
                   !.hash = NONE, !.routes = IF page.hash = NONE THEN @ ELSE @ + 1]
       IN page' = IF page.played # NONE THEN BackFromPlay(s)
                  ELSE IF page.ed # NONE /\ page.styling THEN BackFromStyle(s)
                  ELSE GoHome(s)

----------------------------------------------------------------------------
(* Finishing.                                                              *)

\* The picture is drawn now; the file comes later.
Finish ==
    /\ page.screen = "editor" /\ page.fin = NONE /\ Len(page.res) < page.visit.done
    /\ page' = [page EXCEPT !.fin = page.ed, !.quick = FALSE]

\* quick(): finished straight from the sheet, without the editor.
Quick(d) ==
    /\ "quick" \in page.visit.does /\ page.screen = "home" /\ page.fin = NONE /\ Len(page.res) < page.visit.done
    /\ page' = [page EXCEPT !.ed = d, !.styling = FALSE, !.fin = d,
                            !.quick = TRUE]

----------------------------------------------------------------------------
(* The short link of the finished card.                                    *)

LinkIds(links) == {links[i].id : i \in DOMAIN links}

\* A link made here before for the same fragment.
Hits(s, f) == {i \in DOMAIN s.links : s.links[i].f = f}

\* shortLink() after its link is there.  It goes on with the card that is the
\* result now; one without a link ends it with an error.
Linked(s, t) ==
    LET r == Result(s)
    IN IF r.link = NoLink THEN [s EXCEPT !.task[t] = NoTask]
       ELSE IF r.link.id = NONE \/ r.doc \in Photos
       THEN [s EXCEPT !.task[t].at = "linked",
               !.links = [i \in DOMAIN @ |-> IF @[i].id = r.link.id
                                             THEN [@[i] EXCEPT !.th = r.doc]
                                             ELSE @[i]]]
       ELSE [s EXCEPT !.task[t].at = "picture", !.task[t].id = r.link.id,
               !.task[t].pic = r.doc,
               !.links = [i \in DOMAIN @ |-> IF @[i].id = r.link.id
                                             THEN [@[i] EXCEPT !.th = r.doc]
                                             ELSE @[i]]]

\* shorten(): the link goes to the card it was asked for.
Got(s, t, link) == Linked([s EXCEPT !.res[s.task[t].res].link = link], t)

ShortLink(s, t) ==
    LET n == Len(s.res)
        r == s.res[n]
        a == [s EXCEPT !.task[t] = [NoTask EXCEPT !.at = "post", !.res = n]]
    IN IF r.link # NoLink THEN [a EXCEPT !.task[t].at = "linked"]
       ELSE IF Hits(s, r.doc) = {} THEN a
       ELSE Got(a, t, [id |-> s.links[CHOOSE i \in Hits(s, r.doc) :
                                        \A j \in Hits(s, r.doc) : i <= j].id,
                       f |-> r.doc])

\* The first tap makes the link, the next one shares it.
Tap(s) ==
    IF s.task["share"] # NoTask THEN s
    ELSE IF Result(s).link = NoLink THEN ShortLink(s, "share")
    ELSE [s EXCEPT !.shared = [link |-> Result(s).link, pic |-> Result(s).doc]]

TapShare ==
    /\ "share" \in page.visit.does /\ page.screen = "done"
    /\ page' = Tap(page)

\* The file is there: whatever work is open now is the one Edit returns to.
\* A card finished from the sheet makes its link at once.
Finished ==
    /\ page.fin # NONE
    /\ LET s == [page EXCEPT
                   !.res = Append(@, [doc |-> page.fin, keep |-> page.ed,
                                      link |-> NoLink]),
                   !.fin = NONE, !.screen = "done",
                   !.hasty = @ \/ page.task["story"].at = "part"]
       IN page' = IF page.quick THEN Tap(s) ELSE s

\* The server's answer: made (heard or not), or none.  Any failure keeps the
\* long link; the oldest of the links kept here falls out.
PostAnswer(t, how) ==
    /\ page.task[t].at = "post"
    /\ how # "none" => page.made < MaxLinks
    /\ LET f == page.res[page.task[t].res].doc
           id == Len(Posted) + page.made + 1
           s == IF how = "none" THEN page
                ELSE [page EXCEPT !.made = @ + 1,
                        !.server[id] = [f |-> f, pic |-> NONE,
                                        heard |-> how = "heard"]]
           all == <<[id |-> id, f |-> f, th |-> NONE]>> \o page.links
           n == IF Len(all) < MAX_KEPT THEN Len(all) ELSE MAX_KEPT
       IN page' = IF how = "heard"
                  THEN Got([s EXCEPT !.links = SubSeq(all, 1, n),
                              !.out = @ \cup {all[i].id : i \in n+1..Len(all)}],
                           t, [id |-> id, f |-> f])
                  ELSE Got(s, t, [id |-> NONE, f |-> f])

\* The chat picture of a link, with its token; failing changes nothing.
PictureSent(t, arrives) ==
    /\ page.task[t].at = "picture"
    /\ LET k == page.task[t]
           can == arrives /\ k.id \in LinkIds(page.links)
                    /\ page.server[k.id].f # NONE
       IN page' = [page EXCEPT !.task[t].at = "linked",
                               !.server[k.id].pic = IF can THEN k.pic ELSE @]

\* Back in the share button: it is free again.
ShareReady ==
    /\ page.task["share"].at = "linked"
    /\ page' = [page EXCEPT !.task["share"] = NoTask]

TapStory ==
    /\ "story" \in page.visit.does /\ page.screen = "done" /\ page.task["story"] = NoTask
    /\ page' = ShortLink(page, "story")

\* exportStory() has the link of the card that is the result now, and loads
\* the part that draws the status card.
StoryLinked ==
    /\ page.task["story"].at = "linked"
    /\ page' = IF Result(page).link = NoLink
               THEN [page EXCEPT !.task["story"] = NoTask]
               ELSE [page EXCEPT !.task["story"] =
                       [NoTask EXCEPT !.at = "part",
                                      !.link = Result(page).link]]

\* The card of the result now, with the link found before.
StoryDrawn ==
    /\ page.task["story"].at = "part"
    /\ page' = [page EXCEPT !.task["story"] = NoTask,
                  !.shared = [link |-> page.task["story"].link,
                              pic |-> Result(page).doc]]

PartMissing ==
    /\ page.task["story"].at = "part"
    /\ page' = [page EXCEPT !.task["story"] = NoTask]

\* Edit on the finished card; without a work it fails.
BackToEditor ==
    /\ page.screen = "done" /\ Result(page).keep # NONE
    /\ page' = [page EXCEPT !.ed = Result(page).keep, !.screen = "editor"]

----------------------------------------------------------------------------
(* Invitations.                                                            *)

RemoveLink(i) ==
    /\ page.screen = "shelf" /\ ~page.styling /\ page.del = NONE
    /\ i \in DOMAIN page.links
    /\ page' = [page EXCEPT !.del = page.links[i].id]

\* filter(): without the entry of this id; ids are the server's and differ.
Without(links, id) ==
    IF id \notin LinkIds(links) THEN links
    ELSE LET i == CHOOSE i \in DOMAIN links : links[i].id = id
         IN SubSeq(links, 1, i - 1) \o SubSeq(links, i + 1, Len(links))

RemoveAnswerForgets(how) ==
    /\ page.del # NONE
    /\ page' = [page EXCEPT
         !.server[page.del].f = IF how = "offline" THEN @ ELSE NONE,
         !.links = Without(@, page.del),
         !.del = NONE, !.screen = "shelf"]

\* Gone there (now or before): forgotten here.  Offline, or an answer that got
\* lost: the token stays.  Then the list is shown, whatever is open.
RemoveAnswer(how) ==
    /\ page.del # NONE
    /\ page' = [page EXCEPT
         !.server[page.del].f = IF how = "offline" THEN @ ELSE NONE,
         !.links = IF how = "gone" THEN Without(@, page.del) ELSE @,
         !.del = NONE, !.screen = "shelf"]

----------------------------------------------------------------------------
(* Links from outside.                                                     *)

\* A new address; the router runs later, after a part when the card needs one.
\* History: another address came between a short link and its own.
OpenHash(h) ==
    /\ page.trips < page.visit.trips /\ page.hash # h
    /\ page' = [page EXCEPT !.hash = h, !.routes = @ + 1, !.trips = @ + 1,
                            !.strayed = @ \/ page.shortId # NONE]

\* route() reads the address as it is then.
Route ==
    /\ page.routes > 0
    /\ LET s == [GoesOn(page) EXCEPT !.routes = @ - 1]
       IN page' =
            CASE page.hash = NONE -> [page EXCEPT !.routes = @ - 1]
              [] page.hash \in Works ->
                   [GoHomeKeep(s) EXCEPT !.shortId = NONE,
                      !.home = [doc |-> page.hash, link |-> page.shortId]]
              [] page.hash = Idea ->
                   [GoHomeKeep(s) EXCEPT !.home = [Day EXCEPT !.doc = Idea],
                      !.strayed = @ \/ page.shortId # NONE]
              [] OTHER -> [GoHome(s) EXCEPT !.look = page.hash - 100]

\* resolve(): the fragment becomes the address, or the link is gone.
Resolved(found) ==
    /\ page.look # NONE
    /\ LET f == page.server[page.look].f
       IN page' = IF found /\ f # NONE
                  THEN [page EXCEPT !.shortId = page.look, !.look = NONE,
                          !.hash = f, !.routes = IF page.hash = f THEN @
                                                 ELSE @ + 1,
                          !.strayed = @ \/ page.hash \notin {NONE, f}]
                  ELSE [page EXCEPT !.look = NONE]

\* A short link is written 100 + id.
Hashes == Works \cup {Idea} \cup {100 + i : i \in 1..Len(Posted)}

PageNext ==
    \/ \E d \in Works : OpenEditor(d) \/ Edit(d) \/ Quick(d)
    \/ OpenStyle \/ OpenWall \/ MakePlayable \/ Back \/ PhoneBack
    \/ Finish \/ Finished \/ TapShare \/ ShareReady \/ TapStory \/ StoryLinked \/ StoryDrawn
    \/ PartMissing \/ BackToEditor
    \/ \E t \in Slots : \/ \E how \in {"heard", "lost", "none"} : PostAnswer(t, how)
                        \/ \E arrives \in BOOLEAN : PictureSent(t, arrives)
    \/ \E i \in 1..MAX_KEPT : RemoveLink(i)
    \/ \E how \in {"gone", "lost", "offline"} : RemoveAnswer(how)
    \/ \E h \in Hashes : OpenHash(h)
    \/ Route \/ \E found \in BOOLEAN : Resolved(found)

PageSpec == PageInit /\ [][PageNext]_page

----------------------------------------------------------------------------

\* One card, one link: a link kept here leads to the work its thumbnail and
\* its chat picture show, and never carries a photo's picture; what is shared
\* shows the work its link leads to; a link that still works can be deleted by
\* whoever made it, unless its token fell out of the list or never arrived;
\* a sheet names the short link it really came through; Edit returns to the
\* work in the picture, and the editor never opens without one.  Not promised:
\* to somebody who goes on while a picture is being made, and after an address
\* that came in between.
OneCardOneLink ==
    /\ \A i \in DOMAIN page.links :
         LET e == page.links[i]
         IN page.server[e.id].f \in {NONE, e.f} /\ e.th \in {NONE, e.f}
    /\ \A i \in Ids : page.server[i].pic \notin Photos
                        /\ (page.server[i].f # NONE
                              => page.server[i].pic \in {NONE, page.server[i].f})
    /\ \A i \in Ids : page.server[i].heard /\ page.server[i].f # NONE
                        => i \in LinkIds(page.links) \cup page.out
    /\ page.hasty \/ page.shared.pic = page.shared.link.f
    /\ page.strayed \/ page.home.link = NONE
         \/ page.server[page.home.link].f \in {NONE, page.home.doc}
    /\ page.screen = "editor" => page.ed # NONE
    /\ page.screen = "done" => page.hasty \/ Result(page).keep = Result(page).doc
=============================================================================
