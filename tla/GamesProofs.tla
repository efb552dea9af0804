---------------------------- MODULE GamesProofs ----------------------------
(***************************************************************************)
(* What the theorems about the components say of the behaviours of the run *)
(* `games': an activity starts and goes on as its component does, so the   *)
(* component's invariant holds as long as the activity is on.              *)
(***************************************************************************)
EXTENDS MCGames, TLAPS

(* The instances of MCGames, with the theorems about them. *)
FpP == INSTANCE FairPlayProofs WITH ai <- act, Kinds <- {"options", "auto", "quiz"},
  MaxSheets <- 2, MaxAsks <- 2, MaxPanels <- 3, PackSize <- 2, MIN_Q <- 2,
  live <- act, LiveKinds <- {"rps", "ball"}, WIN <- 2, MaxRounds <- 2, MaxGames <- 1, MaxInvites <- LiveInvites, MaxHits <- 1
LkP == INSTANCE LinkProofs WITH mal <- act, Offered <- {1}, Own <- {2}, Room <- MalRoom,
  MAX_ROUND <- 2, MaxLines <- 1, page <- act, Works <- {1, 2}, Photos <- {2}, Idea <- 9,
  Posted <- <<1>>, MAX_KEPT <- 1, MaxLinks <- 2, Visits <- PageVisits
PrP == INSTANCE ProfileProofs WITH prof <- act, Devices <- {1, 2}, Codes <- {1}, Entries <- 1..4,
  Photos <- {2}, Saved <- {4}, Nicks <- {0, 1}, FIT <- 1, MAX_WALL <- 2, Lives <- ProfileLives

(* The activity that is on stays on, and nothing but it changes act. *)
LEMMA OneActivity ==
  ASSUME [GamesNext]_<<on, act, turn, vars>>
  PROVE  /\ on' = on
         /\ on = "live" => Lv!LiveNext \/ UNCHANGED act
         /\ on = "ai" => Ai!AiNext \/ UNCHANGED act
         /\ on = "malrat" => Ma!MalNext \/ UNCHANGED act
         /\ on = "pages" => Pg!PageNext \/ UNCHANGED act
         /\ on = "profile" => Pr!ProfileNext \/ UNCHANGED act
  BY DEF GamesNext, Activity

-----------------------------------------------------------------------------
(* The AI actions. *)

LEMMA AiSetting == FpP!Setting
  BY DEF FpP!Setting

LEMMA AiStarts == Ai!AiInit => FpP!AiInit
  BY Zenon DEF Ai!AiInit, FpP!AiInit, Ai!Off, FpP!Off, Ai!NoAsk, FpP!NoAsk, Ai!Asks, FpP!Asks

LEMMA AiGoesOn == Ai!AiNext => FpP!AiNext
  BY Zenon DEF Ai!Asks, FpP!Asks, Ai!NIGHT, FpP!NIGHT, Ai!NoAsk, FpP!NoAsk,
         Ai!Off, FpP!Off, Ai!AiInit, FpP!AiInit, Ai!Settle, FpP!Settle,
         Ai!Drop, FpP!Drop, Ai!Close, FpP!Close, Ai!Untouched,
         FpP!Untouched, Ai!Alive, FpP!Alive, Ai!SamePanel, FpP!SamePanel,
         Ai!OpenEditor, FpP!OpenEditor, Ai!Leave, FpP!Leave, Ai!Tab,
         FpP!Tab, Ai!OpenPacks, FpP!OpenPacks, Ai!BackFromPacks,
         FpP!BackFromPacks, Ai!Act, FpP!Act, Ai!Queued, FpP!Queued, Ai!Wake,
         FpP!Wake, Ai!Refused, FpP!Refused, Ai!Result, FpP!Result,
         Ai!Review, FpP!Review, Ai!Present, FpP!Present, Ai!HandOut,
         FpP!HandOut, Ai!PickOption, FpP!PickOption, Ai!NightPack,
         FpP!NightPack, Ai!Strike, FpP!Strike, Ai!TakePack, FpP!TakePack,
         Ai!DropPack, FpP!DropPack, Ai!AiNext, FpP!AiNext

LEMMA AiSays == FpP!PaidForWhatWasTaken => Ai!PaidForWhatWasTaken
  BY DEF Ai!PaidForWhatWasTaken, FpP!PaidForWhatWasTaken, Ai!Asks, FpP!Asks

(* An AI answer is paid for once, by the one who took it, and settled as    *)
(* what was done with it (ai.js, quiz-ui.js).                               *)
THEOREM PaidForTaken == GamesSpec => []PaidForWhatWasTaken
<1> DEFINE Inv == on = "ai" => FpP!IInv
<1>1. GamesInit => Inv
  BY AiSetting, AiStarts, FpP!InitKeeps DEF GamesInit
<1>2. Inv /\ [GamesNext]_<<on, act, turn, vars>> => Inv'
  <2> SUFFICES ASSUME Inv, [GamesNext]_<<on, act, turn, vars>>, on = "ai" PROVE FpP!IInv'
    BY OneActivity
  <2>1. [FpP!AiNext]_act
    BY OneActivity, AiGoesOn
  <2>2. QED
    BY <2>1, AiSetting, FpP!NextKeeps
<1>3. Inv => PaidForWhatWasTaken
  BY AiSetting, AiSays, FpP!InvSays DEF PaidForWhatWasTaken
<1>4. QED
  BY <1>1, <1>2, <1>3, PTL DEF GamesSpec

-----------------------------------------------------------------------------
(* Mal & Rat. *)

LEMMA MalSetting == LkP!Setting
  BY DEF LkP!Setting, LkP!WordSet, MalRoom

(* Both instances of Malrat have the same helpers, so they take the same steps. *)
LEMMA SameWords == Ma!WordSet = LkP!WordSet /\ Ma!TYPED = LkP!TYPED /\ Ma!NoPic = LkP!NoPic
  BY DEF Ma!WordSet, LkP!WordSet, Ma!TYPED, LkP!TYPED, Ma!NoPic, LkP!NoPic

LEMMA SameHelpers ==
  ASSUME NEW s
  PROVE  /\ Ma!Round(s) = LkP!Round(s) /\ Ma!Step(s) = LkP!Step(s) /\ Ma!Word(s) = LkP!Word(s)
         /\ Ma!Emit(s) = LkP!Emit(s) /\ Ma!Hash(s) = LkP!Hash(s) /\ Ma!Repack(s) = LkP!Repack(s)
         /\ \A n : Ma!Fits(s, n) = LkP!Fits(s, n)
<1>1. Ma!Round(s) = LkP!Round(s) /\ Ma!Step(s) = LkP!Step(s) /\ Ma!Word(s) = LkP!Word(s)
  BY Zenon DEF Ma!Round, LkP!Round, Ma!Step, LkP!Step, Ma!Word, LkP!Word, Ma!TYPED, LkP!TYPED,
     Ma!NoPic, LkP!NoPic
<1>2. \A n : Ma!Fits(s, n) = LkP!Fits(s, n)
  BY Zenon DEF Ma!Fits, LkP!Fits, Ma!Word, LkP!Word, Ma!TYPED, LkP!TYPED
<1>3. Ma!Repack(s) = LkP!Repack(s)
  BY Zenon DEF Ma!Repack, LkP!Repack, Ma!Fits, LkP!Fits, Ma!Word, LkP!Word, Ma!TYPED, LkP!TYPED
<1>4. Ma!Emit(s) = LkP!Emit(s)
  BY <1>1, <1>2, <1>3, SameWords, Zenon DEF Ma!Emit, LkP!Emit, Ma!Fits, LkP!Fits, Ma!Word,
     LkP!Word, Ma!TYPED, LkP!TYPED, Ma!Round, LkP!Round, Ma!NoPic, LkP!NoPic, Ma!Repack,
     LkP!Repack
<1>5. Ma!Hash(s) = LkP!Hash(s)
  BY <1>1, <1>4 DEF Ma!Hash, LkP!Hash
<1>6. QED
  BY <1>1, <1>2, <1>3, <1>4, <1>5

LEMMA MalStarts == Ma!MalInit => LkP!MalInit
  BY SameWords, SameHelpers DEF Ma!MalInit, LkP!MalInit

LEMMA MalGoesOn == Ma!MalNext => LkP!MalNext
<1>1. ASSUME NEW w
      PROVE  /\ Ma!Pick(w) => LkP!Pick(w)
             /\ Ma!TypeOwn(w) => LkP!TypeOwn(w)
             /\ Ma!Checked(w) => LkP!Checked(w)
  BY SameWords, SameHelpers DEF Ma!Pick, LkP!Pick, Ma!TypeOwn, LkP!TypeOwn, Ma!Checked, LkP!Checked,
     Ma!Choosing, LkP!Choosing
<1>2. ASSUME NEW w
      PROVE  (Ma!Guess(w) => LkP!Guess(w)) /\ (Ma!Guessed(w) => LkP!Guessed(w))
  BY Zenon DEF Ma!Guess, LkP!Guess, Ma!Guessed, LkP!Guessed
<1>3. /\ Ma!OpenDraw => LkP!OpenDraw
      /\ Ma!Line => LkP!Line
      /\ Ma!Undo => LkP!Undo
      /\ Ma!CloseDraw => LkP!CloseDraw
      /\ Ma!DrawBack => LkP!DrawBack
      /\ Ma!Send => LkP!Send
      /\ Ma!Receive => LkP!Receive
  BY SameWords, SameHelpers DEF Ma!OpenDraw, LkP!OpenDraw, Ma!Line, LkP!Line, Ma!Undo, LkP!Undo,
     Ma!CloseDraw, LkP!CloseDraw, Ma!DrawBack, LkP!DrawBack, Ma!Send, LkP!Send, Ma!Receive, LkP!Receive,
     Ma!Choosing, LkP!Choosing
<1>4. /\ Ma!CloseByHash => LkP!CloseByHash
      /\ Ma!OpenGuess => LkP!OpenGuess
      /\ Ma!GiveUp => LkP!GiveUp
      /\ Ma!CloseGuess => LkP!CloseGuess
  BY SameWords, Zenon DEF Ma!CloseByHash, LkP!CloseByHash, Ma!OpenGuess, LkP!OpenGuess,
     Ma!GiveUp, LkP!GiveUp,
     Ma!CloseGuess, LkP!CloseGuess, Ma!NoPic, LkP!NoPic
<1>5. QED
  BY <1>1, <1>2, <1>3, <1>4, SameWords DEF Ma!MalNext, LkP!MalNext

LEMMA MalSays == LkP!PictureOfItsWord => Ma!PictureOfItsWord
  BY SameWords, SameHelpers DEF Ma!PictureOfItsWord, LkP!PictureOfItsWord

(* A guess is judged by the word the picture was drawn for, and a picture   *)
(* is shown with its own word (malrat.js, malrat-ui.js).                    *)
THEOREM PictureGoesWithItsWord == GamesSpec => []PictureOfItsWord
<1> DEFINE Inv == on = "malrat" => LkP!IInv
<1>1. GamesInit => Inv
  BY MalSetting, MalStarts, LkP!InitKeeps DEF GamesInit
<1>2. Inv /\ [GamesNext]_<<on, act, turn, vars>> => Inv'
  <2> SUFFICES ASSUME Inv, [GamesNext]_<<on, act, turn, vars>>, on = "malrat" PROVE LkP!IInv'
    BY OneActivity
  <2>1. [LkP!MalNext]_act
    BY OneActivity, MalGoesOn
  <2>2. QED
    BY <2>1, MalSetting, LkP!NextKeeps
<1>3. Inv => PictureOfItsWord
  BY MalSetting, MalSays, LkP!InvSays DEF PictureOfItsWord
<1>4. QED
  BY <1>1, <1>2, <1>3, PTL DEF GamesSpec

-----------------------------------------------------------------------------
(* The pages. *)

LEMMA PageSetting == LkP!PageSetting
  BY DEF LkP!PageSetting, LkP!ShortHashes, LkP!NONE

LEMMA SamePages ==
  /\ Pg!NONE = LkP!NONE /\ Pg!Ids = LkP!Ids /\ Pg!NoLink = LkP!NoLink /\ Pg!NoTask = LkP!NoTask
  /\ Pg!Day = LkP!Day /\ Pg!Slots = LkP!Slots /\ Pg!Hashes = LkP!Hashes
  /\ \A s : Pg!Result(s) = LkP!Result(s) /\ Pg!GoesOn(s) = LkP!GoesOn(s)
  /\ \A q : Pg!LinkIds(q) = LkP!LinkIds(q)
  BY Zenon DEF Pg!NONE, LkP!NONE, Pg!Ids, LkP!Ids, Pg!NoLink, LkP!NoLink, Pg!NoTask, LkP!NoTask,
     Pg!Day, LkP!Day, Pg!Slots, LkP!Slots, Pg!Hashes, LkP!Hashes, Pg!Result, LkP!Result,
     Pg!GoesOn, LkP!GoesOn, Pg!LinkIds, LkP!LinkIds

LEMMA PagesStart == Pg!PageInit => LkP!PageInit
  BY Zenon DEF Pg!PageInit, LkP!PageInit, Pg!NoVisit, LkP!NoVisit, Pg!NONE, LkP!NONE, Pg!Ids,
     LkP!Ids, Pg!NoLink, LkP!NoLink, Pg!NoTask, LkP!NoTask, Pg!Day, LkP!Day, Pg!Slots, LkP!Slots

LEMMA SameHomes ==
  ASSUME NEW s
  PROVE  /\ Pg!GoHomeKeep(s) = LkP!GoHomeKeep(s) /\ Pg!GoHome(s) = LkP!GoHome(s)
         /\ Pg!BackFromPlay(s) = LkP!BackFromPlay(s) /\ Pg!BackFromStyle(s) = LkP!BackFromStyle(s)
  BY SamePages, Zenon DEF Pg!GoHomeKeep, LkP!GoHomeKeep, Pg!GoHome, LkP!GoHome, Pg!BackFromPlay,
     LkP!BackFromPlay, Pg!BackFromStyle, LkP!BackFromStyle, Pg!NONE, LkP!NONE

LEMMA SameLinking ==
  /\ \A s, f : Pg!Hits(s, f) = LkP!Hits(s, f)
  /\ \A s, t : Pg!Linked(s, t) = LkP!Linked(s, t)
  /\ \A s, t, l : Pg!Got(s, t, l) = LkP!Got(s, t, l)
  /\ \A s, t : Pg!ShortLink(s, t) = LkP!ShortLink(s, t)
  /\ \A s : Pg!Tap(s) = LkP!Tap(s)
  /\ \A q, id : Pg!Without(q, id) = LkP!Without(q, id)
<1>1. \A s, f : Pg!Hits(s, f) = LkP!Hits(s, f)
  BY Zenon DEF Pg!Hits, LkP!Hits
<1>2. \A s, t : Pg!Linked(s, t) = LkP!Linked(s, t)
  BY Zenon DEF Pg!Linked, LkP!Linked, Pg!Result, LkP!Result, Pg!NoLink, LkP!NoLink, Pg!NoTask,
     LkP!NoTask, Pg!NONE, LkP!NONE
<1>3. \A s, t, l : Pg!Got(s, t, l) = LkP!Got(s, t, l)
  BY <1>2, Zenon DEF Pg!Got, LkP!Got
<1>4. \A s, t : Pg!ShortLink(s, t) = LkP!ShortLink(s, t)
  <2> SUFFICES ASSUME NEW s, NEW t PROVE Pg!ShortLink(s, t) = LkP!ShortLink(s, t)
    OBVIOUS
  <2> DEFINE n == Len(s.res)
             r == s.res[n]
             a == [s EXCEPT !.task[t] = [LkP!NoTask EXCEPT !.at = "post", !.res = n]]
             H == LkP!Hits(s, r.doc)
             e == [id |-> s.links[CHOOSE i \in H : \A j \in H : i <= j].id, f |-> r.doc]
  <2>1. Pg!ShortLink(s, t) = IF r.link # Pg!NoLink THEN [a EXCEPT !.task[t].at = "linked"]
                             ELSE IF H = {} THEN a ELSE Pg!Got(a, t, e)
    BY Zenon DEF Pg!ShortLink, Pg!Hits, LkP!Hits, Pg!NoTask, LkP!NoTask, Pg!NoLink, LkP!NoLink,
       Pg!NONE, LkP!NONE
  <2>2. LkP!ShortLink(s, t) = IF r.link # LkP!NoLink THEN [a EXCEPT !.task[t].at = "linked"]
                              ELSE IF H = {} THEN a ELSE LkP!Got(a, t, e)
    BY Zenon DEF LkP!ShortLink
  <2> HIDE DEF n, r, a, e, H
  <2>3. Pg!Got(a, t, e) = LkP!Got(a, t, e) /\ Pg!NoLink = LkP!NoLink
    BY <1>3, SamePages, Zenon
  <2>4. QED
    BY <2>1, <2>2, <2>3, SMT
<1>5. \A s : Pg!Tap(s) = LkP!Tap(s)
  BY <1>4, SamePages, Zenon DEF Pg!Tap, LkP!Tap
<1>6. \A q, id : Pg!Without(q, id) = LkP!Without(q, id)
  BY Zenon DEF Pg!Without, LkP!Without, Pg!LinkIds, LkP!LinkIds
<1>7. QED
  BY <1>1, <1>2, <1>3, <1>4, <1>5, <1>6, Zenon

LEMMA SameOpenEditor == ASSUME NEW d PROVE Pg!OpenEditor(d) => LkP!OpenEditor(d)
  BY SamePages, Zenon DEF Pg!OpenEditor, LkP!OpenEditor

LEMMA SameEdit == ASSUME NEW d PROVE Pg!Edit(d) => LkP!Edit(d)
  BY SamePages, Zenon DEF Pg!Edit, LkP!Edit

LEMMA SameQuick == ASSUME NEW d PROVE Pg!Quick(d) => LkP!Quick(d)
  BY SamePages, Zenon DEF Pg!Quick, LkP!Quick

LEMMA SameOpenStyle == Pg!OpenStyle => LkP!OpenStyle
  BY Zenon DEF Pg!OpenStyle, LkP!OpenStyle

LEMMA SameOpenWall == Pg!OpenWall => LkP!OpenWall
  BY Zenon DEF Pg!OpenWall, LkP!OpenWall

LEMMA SameMakePlayable == Pg!MakePlayable => LkP!MakePlayable
  BY Zenon DEF Pg!MakePlayable, LkP!MakePlayable

LEMMA SameBack == Pg!Back => LkP!Back
  BY Zenon DEF Pg!Back, LkP!Back, Pg!GoesOn, LkP!GoesOn, Pg!GoHome, LkP!GoHome, Pg!GoHomeKeep,
     LkP!GoHomeKeep, Pg!BackFromPlay, LkP!BackFromPlay, Pg!BackFromStyle, LkP!BackFromStyle,
     Pg!NONE, LkP!NONE

LEMMA SamePhoneBack == Pg!PhoneBack => LkP!PhoneBack
  BY Zenon DEF Pg!PhoneBack, LkP!PhoneBack, Pg!GoesOn, LkP!GoesOn, Pg!GoHome, LkP!GoHome,
     Pg!GoHomeKeep, LkP!GoHomeKeep, Pg!BackFromPlay, LkP!BackFromPlay, Pg!BackFromStyle,
     LkP!BackFromStyle, Pg!NONE, LkP!NONE

LEMMA SameFinish == Pg!Finish => LkP!Finish
  BY SamePages, Zenon DEF Pg!Finish, LkP!Finish

LEMMA SameFinished == Pg!Finished => LkP!Finished
  BY SamePages, SameLinking, Zenon DEF Pg!Finished, LkP!Finished

LEMMA SameTapShare == Pg!TapShare => LkP!TapShare
  BY SameLinking, Zenon DEF Pg!TapShare, LkP!TapShare

LEMMA SameShareReady == Pg!ShareReady => LkP!ShareReady
  BY SamePages, Zenon DEF Pg!ShareReady, LkP!ShareReady

LEMMA SameTapStory == Pg!TapStory => LkP!TapStory
  BY SamePages, SameLinking, Zenon DEF Pg!TapStory, LkP!TapStory

LEMMA SameStoryLinked == Pg!StoryLinked => LkP!StoryLinked
  BY SamePages, Zenon DEF Pg!StoryLinked, LkP!StoryLinked

LEMMA SameStoryDrawn == Pg!StoryDrawn => LkP!StoryDrawn
  BY SamePages, Zenon DEF Pg!StoryDrawn, LkP!StoryDrawn

LEMMA SamePartMissing == Pg!PartMissing => LkP!PartMissing
  BY SamePages, Zenon DEF Pg!PartMissing, LkP!PartMissing

LEMMA SameBackToEditor == Pg!BackToEditor => LkP!BackToEditor
  BY SamePages, Zenon DEF Pg!BackToEditor, LkP!BackToEditor

LEMMA SamePostAnswer == ASSUME NEW t, NEW how PROVE Pg!PostAnswer(t, how) => LkP!PostAnswer(t, how)
  BY SameLinking, Zenon DEF Pg!PostAnswer, LkP!PostAnswer, Pg!NONE, LkP!NONE

LEMMA SamePictureSent == ASSUME NEW t, NEW arrives PROVE Pg!PictureSent(t, arrives) => LkP!PictureSent(t, arrives)
  BY SamePages, Zenon DEF Pg!PictureSent, LkP!PictureSent

LEMMA SameRemoveLink == ASSUME NEW i PROVE Pg!RemoveLink(i) => LkP!RemoveLink(i)
  BY SamePages, Zenon DEF Pg!RemoveLink, LkP!RemoveLink

LEMMA SameRemoveAnswer == ASSUME NEW how PROVE Pg!RemoveAnswer(how) => LkP!RemoveAnswer(how)
  BY SamePages, SameLinking, Zenon DEF Pg!RemoveAnswer, LkP!RemoveAnswer

LEMMA SameOpenHash == ASSUME NEW h PROVE Pg!OpenHash(h) => LkP!OpenHash(h)
  BY SamePages, Zenon DEF Pg!OpenHash, LkP!OpenHash

LEMMA SameRoute == Pg!Route => LkP!Route
  BY Zenon DEF Pg!Route, LkP!Route, Pg!GoesOn, LkP!GoesOn, Pg!GoHome, LkP!GoHome, Pg!GoHomeKeep,
     LkP!GoHomeKeep, Pg!Day, LkP!Day, Pg!NONE, LkP!NONE

LEMMA SameResolved == ASSUME NEW found PROVE Pg!Resolved(found) => LkP!Resolved(found)
  BY SamePages, Zenon DEF Pg!Resolved, LkP!Resolved

LEMMA PagesGoOn == Pg!PageNext => LkP!PageNext
  BY Zenon, SamePages, SameOpenEditor, SameEdit, SameQuick, SameOpenStyle, SameOpenWall,
     SameMakePlayable, SameBack, SamePhoneBack, SameFinish, SameFinished, SameTapShare,
     SameShareReady, SameTapStory, SameStoryLinked, SameStoryDrawn, SamePartMissing,
     SameBackToEditor, SamePostAnswer, SamePictureSent, SameRemoveLink, SameRemoveAnswer,
     SameOpenHash, SameRoute, SameResolved
     DEF Pg!PageNext, LkP!PageNext

LEMMA PagesSay == LkP!OneCardOneLink => Pg!OneCardOneLink
  BY SamePages, Zenon DEF Pg!OneCardOneLink, LkP!OneCardOneLink

(* The short link a person is shown opens the card that was on the screen,  *)
(* and the shelf knows how to delete it (app.js, shortlink.js).             *)
THEOREM LinksStayHonest == GamesSpec => []OneCardOneLink
<1> DEFINE Inv == on = "pages" => LkP!PageInv(act)
<1>1. GamesInit => Inv
  BY PageSetting, PagesStart, LkP!PageStarts DEF GamesInit
<1>2. Inv /\ [GamesNext]_<<on, act, turn, vars>> => Inv'
  <2> SUFFICES ASSUME Inv, [GamesNext]_<<on, act, turn, vars>>, on = "pages" PROVE LkP!PageInv(act')
    BY OneActivity
  <2>1. [LkP!PageNext]_act
    BY OneActivity, PagesGoOn
  <2>2. QED
    BY <2>1, PageSetting, LkP!PageGoesOn
<1>3. Inv => OneCardOneLink
  BY PagesSay, LkP!PageSays DEF OneCardOneLink
<1>4. QED
  BY <1>1, <1>2, <1>3, PTL DEF GamesSpec

-----------------------------------------------------------------------------
(* The profile.  Both instances of Profile take the same steps: action by  *)
(* action, from the helpers the two share.                                 *)

LEMMA ProfileSetting == PrP!Setting
  BY DEF PrP!Setting, ProfileLives, Life

LEMMA ProfileStarts == Pr!ProfileInit => PrP!ProfileInit
  BY Zenon DEF Pr!ProfileInit, PrP!ProfileInit, Pr!NoBase, PrP!NoBase, Pr!NoLink, PrP!NoLink,
     Pr!NoProfile, PrP!NoProfile, Pr!Idle, PrP!Idle, Pr!Off, PrP!Off

LEMMA SameProfiles ==
  /\ \A S, n : Pr!Newest(S, n) = PrP!Newest(S, n)
  /\ \A S : Pr!Cut(S) = PrP!Cut(S)
  /\ \A t : Pr!Pack(t) = PrP!Pack(t)
  /\ \A t, p, b : Pr!Merge(t, p, b) = PrP!Merge(t, p, b)
<1>1. \A S, n : Pr!Newest(S, n) = PrP!Newest(S, n)
  BY Zenon DEF Pr!Newest, PrP!Newest, Pr!Cardinality, PrP!Cardinality
<1>2. \A S : Pr!Cut(S) = PrP!Cut(S)
  BY <1>1, Zenon DEF Pr!Cut, PrP!Cut
<1>3. \A t : Pr!Pack(t) = PrP!Pack(t)
  BY <1>1, Zenon DEF Pr!Pack, PrP!Pack, Pr!Walls, PrP!Walls
<1>4. \A t, p, b : Pr!Merge(t, p, b) = PrP!Merge(t, p, b)
  BY <1>2, Zenon DEF Pr!Merge, PrP!Merge, Pr!Merge3, PrP!Merge3
<1>5. QED
  BY <1>1, <1>2, <1>3, <1>4, Zenon

LEMMA SameReceived ==
  ASSUME NEW d
  PROVE  Pr!Merged(d) = PrP!Merged(d) /\ Pr!Received(d) = PrP!Received(d)
<1>1. Pr!Merged(d) = PrP!Merged(d)
  BY SameProfiles, Zenon DEF Pr!Merged, PrP!Merged
<1>2. Pr!Received(d) = PrP!Received(d)
  BY <1>1, SameProfiles, Zenon DEF Pr!Received, PrP!Received, Pr!Walls, PrP!Walls, Pr!Merge3,
     PrP!Merge3
<1>3. QED
  BY <1>1, <1>2

LEMMA SameAdd == ASSUME NEW d PROVE Pr!Add(d) => PrP!Add(d)
  BY SameProfiles, Zenon DEF Pr!Add, PrP!Add, Pr!Store, PrP!Store

LEMMA SameEnds ==
  /\ \A p, d, x : Pr!Ended(p, d, x) = PrP!Ended(p, d, x)
  /\ \A p, d : Pr!Unlinked(p, d) = PrP!Unlinked(p, d)
  /\ \A p, d, o, r : Pr!Agreed(p, d, o, r) = PrP!Agreed(p, d, o, r)
  /\ \A p, d, o : Pr!Puts(p, d, o) = PrP!Puts(p, d, o)
<1>1. Pr!NoLink = PrP!NoLink /\ Pr!Idle = PrP!Idle
  BY Zenon DEF Pr!NoBase, PrP!NoBase, Pr!NoLink, PrP!NoLink, Pr!NoProfile, PrP!NoProfile,
     Pr!Idle, PrP!Idle
<1>2. \A p, d : Pr!Unlinked(p, d) = PrP!Unlinked(p, d)
  BY <1>1, Zenon DEF Pr!Unlinked, PrP!Unlinked
<1>3. \A p, d, x : Pr!Ended(p, d, x) = PrP!Ended(p, d, x)
  BY <1>1, <1>2, Zenon DEF Pr!Ended, PrP!Ended
<1>4. \A p, d, o, r : Pr!Agreed(p, d, o, r) = PrP!Agreed(p, d, o, r)
  BY <1>3, Zenon DEF Pr!Agreed, PrP!Agreed, Pr!Snapshot, PrP!Snapshot
<1>5. \A p, d, o : Pr!Puts(p, d, o) = PrP!Puts(p, d, o)
  BY Zenon DEF Pr!Puts, PrP!Puts
<1>6. QED
  BY <1>2, <1>3, <1>4, <1>5, Zenon

LEMMA SameGot == ASSUME NEW d PROVE Pr!Got(d) => PrP!Got(d)
<1>1. Pr!Pack(Pr!Merged(d)) = PrP!Pack(PrP!Merged(d))
  BY SameProfiles, SameReceived, Zenon
<1>2. QED
  BY <1>1, SameReceived, SameEnds, Zenon DEF Pr!Got, PrP!Got

LEMMA SameUnlink == ASSUME NEW d PROVE Pr!Unlink(d) => PrP!Unlink(d)
  BY Zenon DEF Pr!Unlink, PrP!Unlink, Pr!Does, PrP!Does, Pr!NoBase, PrP!NoBase, Pr!NoLink,
     PrP!NoLink, Pr!Unlinked, PrP!Unlinked

LEMMA SameSync == ASSUME NEW d PROVE Pr!Sync(d) => PrP!Sync(d)
  BY Zenon DEF Pr!Sync, PrP!Sync, Pr!NoBase, PrP!NoBase, Pr!NoLink, PrP!NoLink, Pr!NoProfile,
     PrP!NoProfile, Pr!Idle, PrP!Idle, Pr!Asking, PrP!Asking

LEMMA SameDelete == ASSUME NEW d PROVE Pr!Delete(d) => PrP!Delete(d)
  BY Zenon DEF Pr!Delete, PrP!Delete, Pr!Does, PrP!Does

LEMMA SameErase == ASSUME NEW d, NEW e PROVE Pr!Erase(d, e) => PrP!Erase(d, e)
  BY Zenon DEF Pr!Erase, PrP!Erase, Pr!Does, PrP!Does, Pr!Store, PrP!Store

LEMMA SameRename == ASSUME NEW d, NEW n PROVE Pr!Rename(d, n) => PrP!Rename(d, n)
  BY Zenon DEF Pr!Rename, PrP!Rename, Pr!Store, PrP!Store

LEMMA SameStartCode == ASSUME NEW d, NEW c, NEW make PROVE Pr!StartCode(d, c, make) => PrP!StartCode(d, c, make)
  BY Zenon DEF Pr!StartCode, PrP!StartCode, Pr!NoBase, PrP!NoBase, Pr!NoLink, PrP!NoLink,
     Pr!NoProfile, PrP!NoProfile, Pr!Idle, PrP!Idle, Pr!Asking, PrP!Asking

LEMMA SameServerGet == ASSUME NEW d PROVE Pr!ServerGet(d) => PrP!ServerGet(d)
  BY Zenon DEF Pr!ServerGet, PrP!ServerGet

LEMMA SameGetFails == ASSUME NEW d PROVE Pr!GetFails(d) => PrP!GetFails(d)
  BY Zenon DEF Pr!GetFails, PrP!GetFails, Pr!Does, PrP!Does, Pr!NoBase, PrP!NoBase, Pr!NoLink,
     PrP!NoLink, Pr!NoProfile, PrP!NoProfile, Pr!Idle, PrP!Idle, Pr!Unlinked, PrP!Unlinked,
     Pr!Ended, PrP!Ended

LEMMA SameServerPut == ASSUME NEW d PROVE Pr!ServerPut(d) => PrP!ServerPut(d)
  BY Zenon DEF Pr!ServerPut, PrP!ServerPut

LEMMA SamePutFails == ASSUME NEW d PROVE Pr!PutFails(d) => PrP!PutFails(d)
  BY Zenon DEF Pr!PutFails, PrP!PutFails, Pr!Does, PrP!Does, Pr!NoBase, PrP!NoBase, Pr!NoLink,
     PrP!NoLink, Pr!NoProfile, PrP!NoProfile, Pr!Idle, PrP!Idle, Pr!Unlinked, PrP!Unlinked,
     Pr!Ended, PrP!Ended, Pr!Unsettled, PrP!Unsettled, Pr!Failed, PrP!Failed

LEMMA SamePutAnswered == ASSUME NEW d PROVE Pr!PutAnswered(d) => PrP!PutAnswered(d)
  BY Zenon DEF Pr!PutAnswered, PrP!PutAnswered, Pr!NoBase, PrP!NoBase, Pr!NoLink, PrP!NoLink,
     Pr!NoProfile, PrP!NoProfile, Pr!Idle, PrP!Idle, Pr!Unlinked, PrP!Unlinked, Pr!Ended,
     PrP!Ended, Pr!Again, PrP!Again, Pr!Unsettled, PrP!Unsettled, Pr!Failed, PrP!Failed,
     Pr!Snapshot, PrP!Snapshot, Pr!Agreed, PrP!Agreed

LEMMA SameDeleted == ASSUME NEW d, NEW heard PROVE Pr!Deleted(d, heard) => PrP!Deleted(d, heard)
  BY Zenon DEF Pr!Deleted, PrP!Deleted, Pr!NoProfile, PrP!NoProfile, Pr!NoBase, PrP!NoBase,
     Pr!NoLink, PrP!NoLink, Pr!Unlinked, PrP!Unlinked

LEMMA ProfileGoesOn == Pr!ProfileNext => PrP!ProfileNext
  BY Zenon, SameAdd, SameUnlink, SameSync, SameDelete, SameErase, SameRename, SameStartCode,
     SameServerGet, SameGetFails, SameGot, SameServerPut, SamePutFails, SamePutAnswered, SameDeleted
     DEF Pr!ProfileNext, PrP!ProfileNext

LEMMA ProfileSays == PrP!OneProfile => Pr!OneProfile
  BY SameProfiles, Zenon DEF Pr!OneProfile, PrP!OneProfile, Pr!NoLink, PrP!NoLink, Pr!NoBase,
     PrP!NoBase,
     Pr!Idle, PrP!Idle, Pr!NoProfile, PrP!NoProfile

(* Devices that share a profile come to the same one, with nothing lost     *)
(* that nobody deleted (profile.js).                                        *)
THEOREM ProfileStaysOne == GamesSpec => []OneProfile
<1> DEFINE Inv == on = "profile" => PrP!IInv
<1>1. GamesInit => Inv
  BY ProfileSetting, ProfileStarts, PrP!InitInv DEF GamesInit
<1>2. Inv /\ [GamesNext]_<<on, act, turn, vars>> => Inv'
  <2> SUFFICES ASSUME Inv, [GamesNext]_<<on, act, turn, vars>>, on = "profile" PROVE PrP!IInv'
    BY OneActivity
  <2>1. [PrP!ProfileNext]_act
    BY OneActivity, ProfileGoesOn
  <2>2. QED
    BY <2>1, ProfileSetting, PrP!StepInv
<1>3. Inv => OneProfile
  BY ProfileSetting, ProfileSays, PrP!InvIsOne DEF OneProfile
<1>4. QED
  BY <1>1, <1>2, <1>3, PTL DEF GamesSpec

-----------------------------------------------------------------------------
(* Live duels.  Both instances of Live take the same steps: action by      *)
(* action, from the helpers the two share.                                 *)

LEMMA DuelSetting == FpP!LiveSetting
  BY DEF FpP!LiveSetting

LEMMA SamePage ==
  /\ Lv!Pages = FpP!Pages /\ Lv!NoHand = FpP!NoHand /\ Lv!Page0 = FpP!Page0
  /\ \A p : Lv!Other(p) = FpP!Other(p)
  /\ \A p : Lv!Pg(p) = FpP!Pg(p)
  /\ \A p, r : Lv!Set(p, r) = FpP!Set(p, r)
  BY Zenon DEF
     Lv!Pages, FpP!Pages, Lv!NoHand, FpP!NoHand, Lv!Page0, FpP!Page0, Lv!Match, FpP!Match,
     Lv!Rally, FpP!Rally, Lv!Other, FpP!Other, Lv!Pg, FpP!Pg, Lv!Set, FpP!Set

LEMMA SameWays ==
  /\ \A z, p, out : Lv!Sent(z, p, out) = FpP!Sent(z, p, out)
  /\ \A c, scr : Lv!Bare(c, scr) = FpP!Bare(c, scr)
  /\ \A z, p, scr : Lv!CloseConn(z, p, scr) = FpP!CloseConn(z, p, scr)
  /\ \A p, phs : Lv!Past(p, phs) = FpP!Past(p, phs)
  /\ \A z, p, f : Lv!BeginGame(z, p, f) = FpP!BeginGame(z, p, f)
<1>1. \A z, p, out : Lv!Sent(z, p, out) = FpP!Sent(z, p, out)
  BY SamePage, Zenon DEF Lv!Sent, FpP!Sent
<1>2. \A c, scr : Lv!Bare(c, scr) = FpP!Bare(c, scr)
  BY SamePage, Zenon DEF Lv!Bare, FpP!Bare
<1>3. \A z, p, scr : Lv!CloseConn(z, p, scr) = FpP!CloseConn(z, p, scr)
  BY <1>2, Zenon DEF Lv!CloseConn, FpP!CloseConn
<1>4. \A p, phs : Lv!Past(p, phs) = FpP!Past(p, phs)
  BY SamePage, Zenon DEF Lv!Past, FpP!Past
<1>5. \A c, k, f : Lv!Fresh(c, k, f) = FpP!Fresh(c, k, f)
  BY Zenon DEF
     Lv!Fresh, FpP!Fresh, Lv!Match, FpP!Match, Lv!Rally, FpP!Rally, Lv!NoHand, FpP!NoHand
<1>6. \A z, p, f : Lv!BeginGame(z, p, f) = FpP!BeginGame(z, p, f)
  BY <1>1, <1>5, Zenon DEF Lv!BeginGame, FpP!BeginGame, Lv!Greeting, FpP!Greeting
<1>7. QED
  BY <1>1, <1>2, <1>3, <1>4, <1>6, Zenon

LEMMA SameInvitations ==
  /\ Lv!Invite => FpP!Invite
  /\ Lv!OwnLink => FpP!OwnLink
  /\ Lv!Expire => FpP!Expire
  /\ Lv!Accept => FpP!Accept
  /\ Lv!Found => FpP!Found
  /\ Lv!Start => FpP!Start
  /\ Lv!Break => FpP!Break
<1>1. Lv!Invite => FpP!Invite
  BY SamePage, Zenon DEF Lv!Invite, FpP!Invite
<1>2. Lv!OwnLink => FpP!OwnLink
  BY SamePage, Zenon DEF Lv!OwnLink, FpP!OwnLink
<1>3. Lv!Expire => FpP!Expire
  BY SamePage, SameWays, Zenon DEF Lv!Expire, FpP!Expire, Lv!Waiting, FpP!Waiting
<1>4. Lv!Accept => FpP!Accept
  BY SamePage, Zenon DEF Lv!Accept, FpP!Accept
<1>5. Lv!Found => FpP!Found
  BY SamePage, Zenon DEF Lv!Found, FpP!Found, Lv!Waiting, FpP!Waiting
<1>6. Lv!Start => FpP!Start
  BY SamePage, SameWays, Zenon DEF Lv!Start, FpP!Start
<1>7. Lv!Break => FpP!Break
  BY SamePage, Zenon DEF Lv!Break, FpP!Break
<1>8. QED
  BY <1>1, <1>2, <1>3, <1>4, <1>5, <1>6, <1>7, Zenon

LEMMA SameConnections ==
  ASSUME NEW p
  PROVE  /\ Lv!Attest(p) => FpP!Attest(p)
         /\ Lv!Register(p) => FpP!Register(p)
         /\ Lv!JoinFails(p) => FpP!JoinFails(p)
         /\ Lv!Join(p) => FpP!Join(p)
         /\ Lv!ChannelOpens(p) => FpP!ChannelOpens(p)
         /\ Lv!ConnectFails(p) => FpP!ConnectFails(p)
         /\ Lv!Hide(p) => FpP!Hide(p)
         /\ Lv!Lost(p) => FpP!Lost(p)
         /\ Lv!LeaveGame(p) => FpP!LeaveGame(p)
<1>1. Lv!Attest(p) => FpP!Attest(p)
  BY SamePage, Zenon DEF Lv!Attest, FpP!Attest
<1>2. Lv!Register(p) => FpP!Register(p)
  BY SamePage, SameWays, Zenon DEF Lv!Register, FpP!Register
<1>3. Lv!JoinFails(p) => FpP!JoinFails(p)
  BY SamePage, Zenon DEF Lv!JoinFails, FpP!JoinFails
<1>4. Lv!Join(p) => FpP!Join(p)
  BY SamePage, SameWays, Zenon DEF Lv!Join, FpP!Join
<1>5. Lv!ChannelOpens(p) => FpP!ChannelOpens(p)
  BY SamePage, SameWays, Zenon DEF Lv!ChannelOpens, FpP!ChannelOpens
<1>6. Lv!ConnectFails(p) => FpP!ConnectFails(p)
  BY SamePage, SameWays, Zenon DEF Lv!ConnectFails, FpP!ConnectFails
<1>7. Lv!Hide(p) => FpP!Hide(p)
  BY SamePage, Zenon DEF Lv!Hide, FpP!Hide
<1>8. Lv!Lost(p) => FpP!Lost(p)
  BY SamePage, SameWays, Zenon DEF Lv!Lost, FpP!Lost
<1>9. Lv!LeaveGame(p) => FpP!LeaveGame(p)
  BY SamePage, SameWays, Zenon DEF Lv!LeaveGame, FpP!LeaveGame
<1>10. QED
  BY <1>1, <1>2, <1>3, <1>4, <1>5, <1>6, <1>7, <1>8, <1>9, Zenon

LEMMA SameRounds ==
  /\ \A m : Lv!RevealOf(m) = FpP!RevealOf(m)
  /\ \A m : Lv!Revealed(m) = FpP!Revealed(m)
  /\ \A m, y : Lv!RoundOver(m, y) = FpP!RoundOver(m, y)
  /\ \A p, x : Lv!TakeRps(p, x) = FpP!TakeRps(p, x)
<1>1. \A m : Lv!RevealOf(m) = FpP!RevealOf(m)
  BY SamePage, Zenon DEF Lv!RevealOf, FpP!RevealOf
<1>2. \A m : Lv!Revealed(m) = FpP!Revealed(m)
  BY <1>1, Zenon DEF Lv!Revealed, FpP!Revealed
<1>3. \A m, y : Lv!RoundOver(m, y) = FpP!RoundOver(m, y)
  BY Zenon DEF
     Lv!RoundOver, FpP!RoundOver, Lv!Outcome, FpP!Outcome, Lv!IsOver, FpP!IsOver, Lv!NoHand,
     FpP!NoHand
<1>4. \A p, x : Lv!TakeSeal(p, x) = FpP!TakeSeal(p, x)
  BY SamePage, SameWays, <1>1, <1>2, Zenon DEF Lv!TakeSeal, FpP!TakeSeal
<1>5. \A p, x : Lv!TakeReveal(p, x) = FpP!TakeReveal(p, x)
  <2> SUFFICES ASSUME NEW p, NEW x PROVE Lv!TakeReveal(p, x) = FpP!TakeReveal(p, x)
    OBVIOUS
  <2> DEFINE c == Lv!Pg(p)
             over == Lv!RoundOver(c.m, x.h)
             d == FpP!Pg(p)
             past == FpP!RoundOver(d.m, x.h)
  <2>1. d = c /\ past = over
    BY SamePage, <1>3, Zenon
  <2>2. Lv!Set(p, [c EXCEPT !.m = over, !.watch = FALSE, !.scr = IF over.done THEN "end" ELSE @])
        = FpP!Set(p, [c EXCEPT !.m = over, !.watch = FALSE, !.scr = IF over.done THEN "end" ELSE @])
    BY SamePage, Zenon
  <2>3. Lv!CloseConn(Lv!Set(p, [c EXCEPT !.m.done = TRUE, !.m.cheat = TRUE]), p, "msg")
        = FpP!CloseConn(FpP!Set(p, [c EXCEPT !.m.done = TRUE, !.m.cheat = TRUE]), p, "msg")
    BY SamePage, SameWays, Zenon
  <2> HIDE DEF c, over, d, past
  <2>4. Lv!TakeReveal(p, x) =
          IF c.m.theirs = <<>> \/ ~c.m.sent THEN act
          ELSE IF <<c.m.game, c.m.round, x.h>> # c.m.theirs
          THEN Lv!CloseConn(Lv!Set(p, [c EXCEPT !.m.done = TRUE, !.m.cheat = TRUE]), p, "msg")
          ELSE Lv!Set(p, [c EXCEPT !.m = over, !.watch = FALSE, !.scr = IF over.done THEN "end" ELSE @])
    BY Zenon DEF Lv!TakeReveal, Lv!Seal, c, over
  <2>5. FpP!TakeReveal(p, x) =
          IF d.m.theirs = <<>> \/ ~d.m.sent THEN act
          ELSE IF <<d.m.game, d.m.round, x.h>> # d.m.theirs
          THEN FpP!CloseConn(FpP!Set(p, [d EXCEPT !.m.done = TRUE, !.m.cheat = TRUE]), p, "msg")
          ELSE FpP!Set(p, [d EXCEPT !.m = past, !.watch = FALSE, !.scr = IF past.done THEN "end" ELSE @])
    BY Zenon DEF FpP!TakeReveal, FpP!Seal, d, past
  <2>6. QED
    BY <2>1, <2>2, <2>3, <2>4, <2>5
<1>6. \A p, x : Lv!TakeRps(p, x) = FpP!TakeRps(p, x)
  BY SamePage, <1>4, <1>5, Zenon DEF Lv!TakeRps, FpP!TakeRps
<1>7. QED
  BY <1>1, <1>2, <1>3, <1>6, Zenon

LEMMA SameBalls ==
  /\ \A b : Lv!Served(b) = FpP!Served(b)
  /\ \A b, i : Lv!Point(b, i) = FpP!Point(b, i)
  /\ \A c, b : Lv!Checked(c, b) = FpP!Checked(c, b)
  /\ \A p, x : Lv!TakeBall(p, x) = FpP!TakeBall(p, x)
  /\ \A p : Lv!Playing(p) = FpP!Playing(p)
<1>1. \A b : Lv!Served(b) = FpP!Served(b)
  BY Zenon DEF Lv!Served, FpP!Served
<1>2. \A b, i : Lv!Point(b, i) = FpP!Point(b, i)
  BY Zenon DEF Lv!Point, FpP!Point
<1>3. \A c, b : Lv!Checked(c, b) = FpP!Checked(c, b)
  BY Zenon DEF Lv!Checked, FpP!Checked, Lv!IsOver, FpP!IsOver
<1>4. \A p, x : Lv!TakeBall(p, x) = FpP!TakeBall(p, x)
  BY SamePage, <1>2, <1>3, Zenon DEF Lv!TakeBall, FpP!TakeBall
<1>5. \A p : Lv!Playing(p) = FpP!Playing(p)
  BY SamePage, Zenon DEF Lv!Playing, FpP!Playing
<1>6. QED
  BY <1>1, <1>2, <1>3, <1>4, <1>5, Zenon

LEMMA SameMessages ==
  /\ \A z, p : Lv!Again(z, p) = FpP!Again(z, p)
  /\ \A p, x : Lv!Taken(p, x) = FpP!Taken(p, x)
<1>1. \A z, p : Lv!Again(z, p) = FpP!Again(z, p)
  BY SameWays, Zenon DEF Lv!Again, FpP!Again
<1>2. \A p, x : Lv!Taken(p, x) = FpP!Taken(p, x)
  BY SamePage, SameWays, SameRounds, SameBalls, <1>1, Zenon DEF Lv!Taken, FpP!Taken
<1>3. QED
  BY <1>1, <1>2, Zenon

LEMMA SamePlays ==
  ASSUME NEW p
  PROVE  /\ Lv!Deliver(p) => FpP!Deliver(p)
         /\ Lv!AskAgain(p) => FpP!AskAgain(p)
         /\ Lv!Stall(p) => FpP!Stall(p)
         /\ Lv!Serve(p) => FpP!Serve(p)
         /\ Lv!Hit(p) => FpP!Hit(p)
         /\ Lv!Miss(p) => FpP!Miss(p)
<1>1. Lv!Deliver(p) => FpP!Deliver(p)
  BY SamePage, SameMessages, Zenon DEF Lv!Deliver, FpP!Deliver
<1>2. Lv!AskAgain(p) => FpP!AskAgain(p)
  BY SamePage, SameWays, SameMessages, Zenon DEF Lv!AskAgain, FpP!AskAgain
<1>3. Lv!Stall(p) => FpP!Stall(p)
  BY SamePage, SameWays, Zenon DEF Lv!Stall, FpP!Stall
<1>4. Lv!Serve(p) => FpP!Serve(p)
  BY SamePage, SameWays, SameBalls, Zenon DEF Lv!Serve, FpP!Serve
<1>5. Lv!Hit(p) => FpP!Hit(p)
  BY SamePage, SameWays, SameBalls, Zenon DEF Lv!Hit, FpP!Hit
<1>6. Lv!Miss(p) => FpP!Miss(p)
  BY SamePage, SameWays, SameBalls, Zenon DEF Lv!Miss, FpP!Miss, Lv!IsOver, FpP!IsOver
<1>7. QED
  BY <1>1, <1>2, <1>3, <1>4, <1>5, <1>6, Zenon

LEMMA SamePick == ASSUME NEW p, NEW h PROVE Lv!Pick(p, h) => FpP!Pick(p, h)
  BY SamePage, SameWays, SameRounds, Zenon DEF Lv!Pick, FpP!Pick, Lv!Seal, FpP!Seal

LEMMA DuelStarts == Lv!LiveInit => FpP!LiveInit
  BY SamePage, Zenon DEF Lv!LiveInit, FpP!LiveInit

LEMMA DuelGoesOn == Lv!LiveNext => FpP!LiveNext
  BY Zenon, SamePage, SameInvitations, SameConnections, SamePlays, SamePick DEF Lv!LiveNext, FpP!LiveNext

LEMMA DuelSays ==
  /\ FpP!HandsStaySealed => Lv!HandsStaySealed
  /\ FpP!OneBall => Lv!OneBall
<1>1. (Lv!SameGame <=> FpP!SameGame) /\ (Lv!Linked <=> FpP!Linked)
  BY SamePage, Zenon DEF Lv!SameGame, FpP!SameGame, Lv!Linked, FpP!Linked, Lv!InGame, FpP!InGame
<1>2. \A p, t : Lv!Underway(p, t) = FpP!Underway(p, t)
  BY SamePage, Zenon DEF Lv!Underway, FpP!Underway, Lv!Cardinality, FpP!Cardinality
<1>3. FpP!HandsStaySealed => Lv!HandsStaySealed
  BY SamePage, <1>1, Zenon DEF Lv!HandsStaySealed, FpP!HandsStaySealed
<1>4. FpP!OneBall => Lv!OneBall
  BY Zenon DEF
     Lv!OneBall, FpP!OneBall, Lv!Cardinality, FpP!Cardinality, Lv!SameGame, FpP!SameGame,
     Lv!Linked, FpP!Linked, Lv!InGame, FpP!InGame, Lv!Underway, FpP!Underway, Lv!Pg, FpP!Pg,
     Lv!Pages, FpP!Pages, Lv!Other, FpP!Other
<1>5. QED
  BY <1>3, <1>4, Zenon

(* No hand is shown before both are sealed, and there is one ball, whoever  *)
(* invites whom and whatever is late (live.js, rpslive.js, ballduell.js).   *)
THEOREM HandsStayFair == GamesSpec => []HandsStaySealed
<1> DEFINE Inv == on = "live" => FpP!LiveInv(act)
<1>1. GamesInit => Inv
  BY DuelSetting, DuelStarts, FpP!LiveStarts DEF GamesInit
<1>2. Inv /\ [GamesNext]_<<on, act, turn, vars>> => Inv'
  <2> SUFFICES ASSUME Inv, [GamesNext]_<<on, act, turn, vars>>, on = "live" PROVE FpP!LiveInv(act')
    BY OneActivity
  <2>1. [FpP!LiveNext]_act
    BY OneActivity, DuelGoesOn
  <2>2. QED
    BY <2>1, DuelSetting, FpP!LiveGoesOn
<1>3. Inv => HandsStaySealed
  BY DuelSetting, DuelSays, FpP!HandsHold, FpP!BallHolds DEF HandsStaySealed
<1>4. QED
  BY <1>1, <1>2, <1>3, PTL DEF GamesSpec
=============================================================================
