----------------------------- MODULE Protokoll -----------------------------
(***************************************************************************)
(* Fast Easy Protokoll: a meeting is recorded, recognised piece by piece   *)
(* while it goes on, summarised and kept (protokoll-page.js, with the      *)
(* Chunker, the list of kept protocols and the AI verdicts of              *)
(* protokoll.js).                                                          *)
(*                                                                         *)
(* Loading the recogniser, the microphone, the wake lock, every recognised *)
(* piece, closing the audio, the end of the queue and the AI's answer each *)
(* come back later, and every one of them goes on with the meeting that is *)
(* the current one THEN: `rec' is one variable of the page.                *)
(*                                                                         *)
(* A unit of sound is loud (a word, numbered within its meeting) or quiet; *)
(* a text is a sequence of words.  Not told apart: sample rates, names,    *)
(* time stamps, wording and layout of a protocol.  Bounds: the person does *)
(* not edit the transcript, and taps Stop once.                            *)
(***************************************************************************)
EXTENDS Naturals, Sequences, SequencesExt

CONSTANTS
    Meetings,    \* 1..n, in the order they are held
    MaxWords,    \* bound: words said in a meeting
    MIN_LEN,     \* units after which a pause cuts a piece
    MAX_LEN,     \* units after which a piece is cut in any case
    CARRY,       \* units a piece may have for each word and still be loud enough
    MAX_KEEP     \* protocols kept on the device

VARIABLE meet

NoRec == [id |-> 0, segs |-> <<>>, prot |-> <<>>]
QUIET == 0

Off == [screen |-> "off", load |-> "no", n |-> 0, rec |-> NoRec, store |-> <<>>,
        live |-> 0, paused |-> FALSE, mics |-> {}, waking |-> {},
        buf |-> [m \in Meetings |-> <<>>], queue |-> [m \in Meetings |-> <<>>],
        bad |-> [m \in Meetings |-> FALSE],
        stops |-> [m \in Meetings |-> "none"],
        words |-> [m \in Meetings |-> 0],
        said |-> [m \in Meetings |-> <<>>],
        text |-> <<>>, textOf |-> 0, aiask |-> FALSE, aiok |-> FALSE, preview |-> <<>>,
        ai |-> [on |-> FALSE, segs |-> <<>>, of |-> 0, seen |-> <<>>],
        hasty |-> FALSE, mixed |-> {}]

MeetInit == meet = [Off EXCEPT !.screen = "intro"]

(* History.  hasty: the person went on while a recording was about to show, *)
(* or asked the AI before the transcript was there.  mixed: meetings of     *)
(* which something came when another one was the current one, with that     *)
(* other one.                                                               *)
Hurries(s, early) == [s EXCEPT !.hasty = @ \/ early]
Lands(s, m) == IF s.rec.id \in {0, m} THEN s
               ELSE [s EXCEPT !.mixed = @ \cup {m, s.rec.id}]

Opening == meet.waking # {}
Draining == meet.rec # NoRec /\ meet.stops[meet.rec.id] \in {"closing", "draining"}

----------------------------------------------------------------------------
(* Starting: consent, the recogniser, the microphone.                      *)

Start ==
    /\ meet.screen = "intro" /\ meet.load = "no" /\ meet.n + 1 \in Meetings
    /\ meet' = Hurries([meet EXCEPT !.load = "model"], Opening)

\* Offline, a stalled download and a wrong digest all give up here.
Loaded ==
    /\ meet.load = "model"
    /\ \E next \in {"mic", "no"} : meet' = [meet EXCEPT !.load = next]

MicDenied == meet.load = "mic" /\ meet' = [meet EXCEPT !.load = "no"]

\* Whatever is on screen, the new meeting takes over and is recorded; "Start"
\* may be tapped again.
MicGranted ==
    /\ meet.load = "mic"
    /\ LET m == meet.n + 1
       IN meet' = [meet EXCEPT !.load = "no", !.n = m, !.live = m,
                               !.paused = FALSE, !.mics = @ \cup {m},
                               !.waking = @ \cup {m},
                               !.rec = [NoRec EXCEPT !.id = m]]

\* The wake lock is there, or refused: the recording shows, unless it was
\* stopped from the screen of another one.
Awake(m) ==
    /\ m \in meet.waking
    /\ meet' = [meet EXCEPT !.waking = @ \ {m},
                            !.screen = IF meet.live = 0 THEN @ ELSE "rec"]

----------------------------------------------------------------------------
(* Listening.                                                              *)

Words(units) == SelectSeq(units, LAMBDA u : u # QUIET)

\* Chunker.push: at a pause once there is enough, at the latest at MAX_LEN.
CutsNow(units) ==
    \/ Len(units) >= MAX_LEN
    \/ Len(units) >= MIN_LEN /\ units[Len(units)] = QUIET

Without(words, piece) == SelectSeq(words, LAMBDA w : ~Contains(piece, w))

\* Chunker.cut: a piece that is quiet on the whole is dropped, with the words
\* in it (said forgets them).
Feed(s, m, units) ==
    LET words == Words(units)
    IN IF units = <<>> THEN s
       ELSE IF Len(words) * CARRY < Len(units)
       THEN [s EXCEPT !.said[m] = Without(@, words)]
       ELSE [s EXCEPT !.queue[m] = Append(@, words)]

\* onaudioprocess: every open microphone, while some meeting is live and not
\* paused.
Hear(m, u) ==
    /\ m \in meet.mics /\ meet.live # 0 /\ ~meet.paused
    /\ LET units == Append(meet.buf[m], u)
           s == [meet EXCEPT !.words[m] = IF u = QUIET THEN @ ELSE u,
                             !.said[m] = IF u = QUIET THEN @ ELSE Append(@, u),
                             !.buf[m] = IF CutsNow(units) THEN <<>> ELSE units]
       IN meet' = IF CutsNow(units) THEN Feed(s, m, units) ELSE s

Pause ==
    /\ meet.screen = "rec" /\ meet.live # 0 /\ meet.stops[meet.live] = "none"
    /\ meet' = [meet EXCEPT !.paused = ~@]

\* The next piece comes back from the recogniser.  One it cannot read is
\* dropped (said forgets those words); its text goes to the current meeting.
\* With no current meeting the step fails, and the piece after it is skipped.
Recognised(m, readable) ==
    /\ meet.queue[m] # <<>>
    /\ LET piece == Head(meet.queue[m])
           lost == [meet EXCEPT !.queue[m] = Tail(@), !.bad[m] = FALSE,
                                !.said[m] = Without(@, piece)]
       IN meet' = IF meet.bad[m] \/ ~readable THEN lost
                  ELSE IF meet.rec = NoRec THEN [lost EXCEPT !.bad[m] = TRUE]
                  ELSE Lands([meet EXCEPT !.queue[m] = Tail(@),
                                          !.rec.segs = @ \o piece], m)

----------------------------------------------------------------------------
(* Stopping.                                                               *)

\* The microphone is released at once; closing the audio is awaited.  With no
\* current meeting it fails before that.
Stop ==
    /\ meet.screen = "rec" /\ meet.live # 0 /\ meet.stops[meet.live] = "none"
    /\ meet.rec # NoRec
    /\ meet' = [meet EXCEPT !.mics = @ \ {meet.live},
                            !.stops[meet.live] = "closing"]

ClosedKeepsRest(m) ==
    /\ meet.stops[m] = "closing"
    /\ meet' = [meet EXCEPT !.buf[m] = <<>>, !.live = 0, !.text = <<>>, !.textOf = m,
                            !.screen = "review", !.stops[m] = "draining"]

\* What is still buffered becomes the last piece; the review is shown, its
\* transcript empty and locked until the queue has ended.
Closed(m) ==
    /\ meet.stops[m] = "closing"
    /\ meet' = [Feed(meet, m, meet.buf[m]) EXCEPT
                            !.buf[m] = <<>>, !.live = 0, !.text = <<>>, !.textOf = m,
                            !.screen = "review", !.stops[m] = "draining"]

\* The queue has ended: the transcript is filled and the AI question hidden.
\* After a failed step, or with no current meeting, stop() ends with an error.
Drained(m) ==
    /\ meet.stops[m] = "draining" /\ meet.queue[m] = <<>>
    /\ meet' = IF meet.bad[m] \/ meet.rec = NoRec
               THEN [meet EXCEPT !.stops[m] = "failed"]
               ELSE Lands([meet EXCEPT !.stops[m] = "done",
                                       !.text = meet.rec.segs, !.textOf = meet.rec.id,
                                       !.aiask = FALSE, !.aiok = FALSE], m)

----------------------------------------------------------------------------
(* The protocol.                                                           *)

TakeEdits(s) == Lands([s EXCEPT !.rec.segs = s.text], s.textOf)

\* keep(): newest first, one per meeting, the oldest falls out.
Save(s) ==
    LET others == SelectSeq(s.store, LAMBDA r : r.id # s.rec.id)
        all == <<s.rec>> \o others
    IN [s EXCEPT !.store = SubSeq(all, 1, IF Len(all) < MAX_KEEP THEN Len(all)
                                          ELSE MAX_KEEP)]

\* A summary by rules on the device, from the text as it stands.
Local(s) ==
    LET e == TakeEdits(s)
    IN [Save([e EXCEPT !.rec.prot = <<"local", s.rec.id>>])
          EXCEPT !.screen = "result"]

\* "Make the protocol here"; an empty transcript only gets a word on screen.
MkLocal ==
    /\ meet.screen = "review" /\ meet.text # <<>> /\ meet.rec # NoRec
    /\ meet' = Local(meet)

\* The text that would go out is shown; the edits are taken even before it is
\* known whether there are any.
AskAi ==
    /\ meet.screen = "review" /\ meet.rec # NoRec
    /\ LET e == TakeEdits(meet)
           h == Hurries(e, Draining)
       IN meet' = IF e.rec.segs = <<>> THEN h
                  ELSE [h EXCEPT !.preview = e.rec.segs, !.aiask = TRUE]

Consent ==
    /\ meet.screen = "review" /\ meet.aiask
    /\ meet' = [meet EXCEPT !.aiok = ~@]

\* Only after the yes: the text of the current meeting leaves the device.
SendAi ==
    /\ meet.screen = "review" /\ meet.aiask /\ meet.aiok /\ ~meet.ai.on
    /\ meet.rec # NoRec
    /\ meet' = Hurries([meet EXCEPT !.ai = [on |-> TRUE, segs |-> meet.rec.segs,
                                            of |-> meet.rec.id, seen |-> meet.preview]],
                       Draining)

\* A usable answer becomes the protocol of the current meeting; any other
\* verdict, a timeout or no network is the summary on the device.  Without a
\* current meeting either one fails.
AiAnswer(usable) ==
    /\ meet.ai.on
    /\ LET s == Lands([meet EXCEPT !.ai.on = FALSE], meet.ai.of)
       IN meet' = CASE meet.rec = NoRec -> s
                    [] meet.rec # NoRec /\ usable ->
                         [Save([s EXCEPT !.rec.prot = <<"ai", s.ai.of>>])
                            EXCEPT !.screen = "result"]
                    [] meet.rec # NoRec /\ ~usable -> Local(s)

----------------------------------------------------------------------------
(* Going on, whatever is still to come.                                    *)

Home(s) == Hurries([s EXCEPT !.rec = NoRec, !.screen = "intro"], Opening)

Discard == meet.screen = "review" /\ meet' = Home(meet)

Again == meet.screen = "result" /\ meet' = Home(meet)

OpenSaved(i) ==
    /\ meet.screen = "intro" /\ i \in DOMAIN meet.store
    /\ meet' = Hurries([meet EXCEPT !.rec = meet.store[i], !.screen = "result"], Opening)

\* drop(): from the list, or what is on screen.
Delete(id) ==
    /\ \/ meet.screen = "intro" /\ \E i \in DOMAIN meet.store : meet.store[i].id = id
       \/ meet.screen = "result" /\ meet.rec.id = id
    /\ meet' = Hurries([meet EXCEPT
                     !.store = SelectSeq(@, LAMBDA r : r.id # id),
                     !.rec = IF @.id = id THEN NoRec ELSE @,
                     !.screen = "intro"], Opening)

\* removeAll(): the list and the current meeting; the screen stays.
DeleteAll ==
    /\ meet.screen = "intro" /\ meet.store # <<>>
    /\ meet' = Hurries([meet EXCEPT !.store = <<>>, !.rec = NoRec], Opening)

MeetNext ==
    \/ Start \/ Loaded \/ MicDenied \/ MicGranted \/ Pause \/ Stop
    \/ \E m \in Meetings :
         \/ Hear(m, QUIET)
         \/ meet.words[m] < MaxWords /\ Hear(m, meet.words[m] + 1)
         \/ \E readable \in BOOLEAN : Recognised(m, readable)
         \/ Awake(m) \/ Closed(m) \/ Drained(m) \/ Delete(m)
    \/ MkLocal \/ AskAi \/ Consent \/ SendAi
    \/ \E usable \in BOOLEAN : AiAnswer(usable)
    \/ Discard \/ Again \/ DeleteAll
    \/ \E i \in 1..MAX_KEEP : OpenSaved(i)

MeetSpec == MeetInit /\ [][MeetNext]_meet

----------------------------------------------------------------------------

\* What was said, in pieces that were loud enough and could be read, stands in
\* the protocol of its own meeting, whole and in order, once the queue has
\* ended; a kept protocol was made from its own meeting's text; the microphone
\* is open only for the current meeting and only while the recording screen
\* with its Stop button is on or about to come; and what went to the AI is the
\* text that was shown before the yes.  A person may go on while pieces or the
\* AI's answer are still to come: minutes go wrong only where these come when
\* another meeting is the current one (mixed).  Not promised to somebody who
\* goes on before the recording shows or asks the AI before the transcript is
\* there (hasty).
MinutesAreTrue ==
    meet.hasty \/
    /\ \A m \in Meetings \ meet.mixed :
         meet.stops[m] = "done" /\ meet.rec.id = m => meet.rec.segs = meet.said[m]
    /\ \A i \in DOMAIN meet.store :
         LET r == meet.store[i]
         IN r.id \notin meet.mixed => r.prot[2] = r.id /\ r.segs = meet.said[r.id]
    /\ meet.mics # {} => \/ meet.live \in meet.mixed
                         \/ /\ meet.mics = {meet.live} /\ meet.rec.id = meet.live
                            /\ meet.screen = "rec" \/ Opening
    /\ meet.ai.of \notin meet.mixed => meet.ai.segs = meet.ai.seen
=============================================================================
