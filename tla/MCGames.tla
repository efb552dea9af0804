------------------------------ MODULE MCGames ------------------------------
(***************************************************************************)
(* The activities of the app on small instances, one behaviour per         *)
(* activity: `on` names it and `act` is its state.  The card table's own   *)
(* variables are those of module Table and the turn games' is turn; where  *)
(* something else is played, one player sits at a table alone and nothing  *)
(* happens there.                                                          *)
(***************************************************************************)
EXTENDS Table, TurnScreen

CONSTANT WAIT   \* a message that has to wait

VARIABLES on, act

-----------------------------------------------------------------------------
(* The card table.  Skat: a third player comes and someone leaves or a     *)
(* connection fails; a third comes while a player changes the rules; two   *)
(* come by one group link; two inviters want the same last seat.           *)
(* Bauernskat: a second player comes, both change the rules, and one       *)
(* stands up in the middle of a hand.                                      *)
E(s, c, h, i, f) ==
  [seats |-> 3, reveals |-> FALSE, seated |-> s, coming |-> c, choosers |-> {},
   hands |-> h, rules |-> 0, invites |-> i, faults |-> f]
Choosing(e, ps, n) == [e EXCEPT !.choosers = ps, !.rules = n]
Alone == E({1}, {}, 0, 0, 0)
MCEvenings ==
  {E({1, 2}, {3}, 1, 1, 1), E({1}, {2, 3}, 0, 2, 0), E({1, 2}, {3}, 0, 2, 0),
   Choosing(E({1, 2}, {3}, 0, 1, 0), {2}, 1), Choosing(E({1, 2}, {3}, 0, 1, 0), {3}, 1),
   [Choosing(E({1}, {2}, 2, 1, 1), {1, 2}, 2) EXCEPT !.seats = 2, !.reveals = TRUE], Alone}

(* Eight cards: two for each of three players, and two more. *)
Eight == << <<"C", "J">>, <<"H", "A">>, <<"H", "T">>, <<"S", "A">>,
            <<"D", "A">>, <<"H", "K">>, <<"S", "J">>, <<"C", "T">> >>
Contract(g, o) == [game |-> g, ouvert |-> o, schneider |-> o, schwarz |-> o]
SkatDeals == {[hands |-> [s \in 0..2 |-> {Eight[2 * s + 1], Eight[2 * s + 2]}], skat |-> {Eight[7], Eight[8]}]}
SkatContracts == {Contract("G", FALSE), Contract("N", FALSE), Contract("H", TRUE)}
Sk == INSTANCE Skat WITH skat <- act, HAND <- 2, Dealers <- {0}, Deals <- SkatDeals,
  HouseRules <- {{}, {"ramsch", "kontra"}}, Values <- {18, 24, 48}, Contracts <- SkatContracts

(* The hand on three devices: a game with Kontra and Re, a Ramsch somebody *)
(* leaves, a Null Ouvert with the Skat taken up.                           *)
HandDeck == [p \in 0..7 |-> Eight[p + 1]]
HandTables ==
  {[rules |-> {"kontra"}, moves |-> {"bid", "declare", "kontra", "re"}, games |-> {"G"}, ouvert |-> FALSE, leavers |-> {}],
   [rules |-> {"ramsch"}, moves |-> {}, games |-> {}, ouvert |-> FALSE, leavers |-> {1}],
   [rules |-> {}, moves |-> {"bid", "pickup", "declare"}, games |-> {"N"}, ouvert |-> TRUE, leavers |-> {}]}
Ha == INSTANCE Hand WITH hand <- act, HAND <- 2, Deck <- HandDeck, Tables <- HandTables

DokoHands ==
  {[s \in 0..3 |-> << {<<"C", "Q", 1>>, <<"D", "A", 1>>}, {<<"C", "Q", 2>>, <<"S", "A", 1>>},
                      {<<"H", "T", 1>>, <<"S", "K", 1>>}, {<<"H", "T", 2>>, <<"C", "J", 1>>} >>[s + 1]],
   [s \in 0..3 |-> << {<<"C", "Q", 1>>, <<"C", "Q", 2>>, <<"H", "T", 1>>}, {<<"C", "A", 2>>, <<"C", "A", 1>>, <<"D", "A", 1>>},
                      {<<"H", "T", 2>>, <<"S", "K", 1>>, <<"S", "K", 2>>}, {<<"D", "K", 2>>, <<"C", "K", 1>>, <<"C", "K", 2>>} >>[s + 1]]}
Do == INSTANCE Doko WITH doko <- act, DokoDeals <- DokoHands, DokoRules <- {{"dulle"}},
  Solos <- {"herz"}, Reservers <- {0, 3}, MaxLevel <- 0

BauerPositions == (0..1) \X (1..2) \X {"up", "down"}
BauerDeck == [x \in BauerPositions |-> Eight[x[1] * 4 + (x[2] - 1) * 2 + IF x[3] = "up" THEN 1 ELSE 2]]
Ba == INSTANCE Bauernskat WITH bauer <- act, StackDeck <- BauerDeck, STACKS <- 2, StackRules <- {{"null"}, {"kontra"}}

Po == INSTANCE Poker WITH poker <- act, L <- 7, NCARDS <- 2, SEATS <- 2, PokerKeys <- {2, 3}

-----------------------------------------------------------------------------
(* Games and lists by link *)

Start0(g, q) == [g |-> g, seed |-> 1, q |-> q, o |-> 0]
Circle == Start0("kreis", Seal(<< << <<"tea", "oat", "nut", "fig", "rye">>, <<0, 1, 2, 3, 4>> >> >>, 1))
TurnStarts == {Circle} \union {Start0(g, NULL) : g \in DOMAIN GAMES \ {"kreis"}}
(* any generator will do, as long as it is a function of seed, tag and place *)
MCRnd(seed, tag, k, n) == (seed * (2 * k + 3 * tag[2] + 1) + k) % n
TurnWhims(g) ==
  IF g = "pommes" THEN 4
  ELSE IF g \in {"deal", "auktion", "teilen", "reaktion", "pokal", "recht", "sammeln", "gutschein", "rad", "wette", "kapsel"} THEN 3
  ELSE IF g \in {"socken", "steine", "maschine", "woerter", "regel", "wort", "schmuggel", "kreis", "reihum", "kennst", "rangliste",
                 "streichen", "tuer", "abfragen", "termin", "lob", "einig", "snack", "unlesbar", "fallpreis"} THEN 1
  ELSE 2

Scene(k, g, i, l, f) == [kind |-> k, goods |-> g, items |-> i, links |-> l, forget |-> f]
ListScenes ==
  {Scene("wunsch", {1, 2}, 2, 2, FALSE), Scene("wunsch", {1, 2}, 1, 3, FALSE), Scene("wunsch", {1}, 1, 2, TRUE),
   Scene("einkauf", {1, 2}, 1, 2, TRUE), Scene("einkauf", {1}, 1, 3, FALSE)}
Li == INSTANCE Lists WITH lists <- act, Phones <- {1, 2}, Starter <- 1, Hers <- {1},
  Scenes <- ListScenes, VER <- 999, MaxTaps <- 1, MayReturn <- FALSE

SantaNames == <<{"Ana"}, {"Ben"}, {"Ben", "Cem"}>>
Sa == INSTANCE Wichtel WITH santa <- act, Organiser <- 1, NamesOf <- SantaNames, LEAST <- 3, MAX <- 3, FIT <- 2, MaxPosts <- 2

Party(n, b, t, o, l) == [links |-> n, boxes |-> b, taps |-> t, vals |-> t, others |-> o, lapse |-> l]
FeierParties ==
  {Party(4, 2, 1, {1}, FALSE), Party(4, 2, 1, {2}, FALSE), Party(2, 2, 2, {}, FALSE),
   Party(4, 2, 1, {}, TRUE)}
Fe == INSTANCE Feier WITH feier <- act, Org <- 1, Guests <- {2, 3}, K <- 2, FIT <- 1, MAXN <- 2, MaxLinks <- 4, Parties <- FeierParties

-----------------------------------------------------------------------------
(* Live duels *)

LiveInvites == [rps |-> 1, ball |-> 2]
Lv == INSTANCE Live WITH live <- act, LiveKinds <- {"rps", "ball"}, WIN <- 2, MaxRounds <- 2, MaxGames <- 1,
  MaxInvites <- LiveInvites, MaxHits <- 1

DuelAgents == <<[r |-> 100, c |-> 0, p |-> 50], [r |-> 0, c |-> 90, p |-> 100], [r |-> 50, c |-> 70, p |-> 20]>>
DuelDraws == {<<0, 95, 40>>, <<60, 10, 85>>, <<90, 50, 0>>}
Du == INSTANCE Duel WITH duel <- act, Agents <- DuelAgents, Draws <- DuelDraws, Modes <- {"rps", "rap", "auction"}, DuelRounds <- 3

Match(k, s, r, h) == [kind |-> k, sent |-> s, rematches |-> r, hides |-> h]
ArcadeMatches ==
  {Match("half", 2, 1, 0), Match("half", 2, 0, 1), Match("ziegel", 2, 1, 0), Match("shells", 2, 1, 0),
   Match("elfer", 5, 1, 0), Match("elfer", 4, 0, 1), Match("stock", 5, 0, 1), Match("stock", 6, 1, 0), Match("murmel", 5, 1, 0)}
Ar == INSTANCE Arcade WITH arc <- act, Matches <- ArcadeMatches, GoalsToWin <- 2, Kicks <- 2, PerRound <- 1, Marbles <- 3, Bricks <- 1

-----------------------------------------------------------------------------
(* The pages.  A behaviour ends where the person does what the properties  *)
(* leave out (twice, hasty, early, strayed).                               *)

Ai == INSTANCE AiAction WITH ai <- act, Kinds <- {"options", "auto", "quiz"}, MaxSheets <- 2, MaxAsks <- 2, MaxPanels <- 3,
  PackSize <- 2, MIN_Q <- 2
Me == INSTANCE Protokoll WITH meet <- act, Meetings <- {1, 2}, MaxWords <- 2, MIN_LEN <- 2, MAX_LEN <- 3, CARRY <- 2, MAX_KEEP <- 1
MalRoom == <<2, 1>>
Ma == INSTANCE Malrat WITH mal <- act, Offered <- {1}, Own <- {2}, Room <- MalRoom, MAX_ROUND <- 2, MaxLines <- 1

Visit(done, trips, does) == [done |-> done, trips |-> trips, does |-> does]
PageVisits ==
  {Visit(2, 0, {"edit", "story"}), Visit(1, 0, {"quick", "story"}), Visit(2, 0, {"edit", "share", "delete"}),
   Visit(2, 0, {"quick", "delete"}), Visit(1, 2, {"edit", "side"})}
Pg == INSTANCE Pages WITH page <- act, Works <- {1, 2}, Photos <- {2}, Idea <- 9, Posted <- <<1>>, MAX_KEPT <- 1, MaxLinks <- 2, Visits <- PageVisits

Life(does, e, n, s) == [does |-> does, entries |-> e, names |-> n, syncs |-> s]
ProfileLives ==
  {Life({"erase"}, 1, 0, 4), Life({"fail", "erase"}, 1, 0, 3), Life({"delete"}, 0, 0, 4), Life({"unlink"}, 0, 1, 3), Life({}, 4, 0, 2)}
Pr == INSTANCE Profile WITH prof <- act, Devices <- {1, 2}, Codes <- {1}, Entries <- 1..4, Photos <- {2}, Saved <- {4}, Nicks <- {0, 1},
  FIT <- 1, MAX_WALL <- 2, Lives <- ProfileLives

-----------------------------------------------------------------------------
Elsewhere == Init /\ evening = Alone
GamesInit ==
  \/ on = "table" /\ act = NULL /\ turn = NULL /\ Init
  \/ on = "turn" /\ act = NULL /\ TurnInit /\ Elsewhere
  \/ /\ Elsewhere /\ turn = NULL
     /\ \/ on = "skat" /\ Sk!Init
        \/ on = "hand" /\ Ha!Init
        \/ on = "doko" /\ Do!Init
        \/ on = "bauernskat" /\ Ba!Init
        \/ on = "poker" /\ Po!PokerInit
        \/ on = "lists" /\ Li!ListInit
        \/ on = "wichteln" /\ Sa!SantaInit
        \/ on = "feier" /\ Fe!FeierInit
        \/ on = "live" /\ Lv!LiveInit
        \/ on = "duel" /\ Du!DuelInit
        \/ on = "arcade" /\ Ar!ArcadeInit
        \/ on = "ai" /\ Ai!AiInit
        \/ on = "protokoll" /\ Me!MeetInit
        \/ on = "malrat" /\ Ma!MalInit
        \/ on = "pages" /\ Pg!PageInit
        \/ on = "profile" /\ Pr!ProfileInit

Activity ==
  \/ on = "skat" /\ Sk!Next
  \/ on = "hand" /\ Ha!Next
  \/ on = "doko" /\ Do!Next
  \/ on = "bauernskat" /\ Ba!Next
  \/ on = "poker" /\ Po!PokerNext
  \/ on = "lists" /\ Li!ListNext
  \/ on = "wichteln" /\ ~act.twice /\ Sa!SantaNext
  \/ on = "feier" /\ Fe!FeierNext
  \/ on = "live" /\ Lv!LiveNext
  \/ on = "duel" /\ Du!DuelNext
  \/ on = "arcade" /\ Ar!ArcadeNext
  \/ on = "ai" /\ ~act.early /\ Ai!AiNext
  \/ on = "protokoll" /\ ~act.hasty /\ Me!MeetNext
  \/ on = "malrat" /\ Ma!MalNext
  \/ on = "pages" /\ ~act.hasty /\ ~act.strayed /\ Pg!PageNext
  \/ on = "profile" /\ Pr!ProfileNext

GamesNext ==
  \/ on = "table" /\ Next /\ UNCHANGED <<on, act, turn>>
  \/ on = "turn" /\ TurnNext /\ UNCHANGED <<on, act, vars>>
  \/ Activity /\ UNCHANGED <<on, turn, vars>>

GamesSpec == GamesInit /\ [][GamesNext]_<<on, act, turn, vars>>

-----------------------------------------------------------------------------
(* The rules of the card games: a Skat hand can always go on and is settled *)
(* by what was played (skat.js), a Doppelkopf player is held to the party   *)
(* its cards say (doko.js), both phones see the same open stacks of         *)
(* Bauernskat and never one too early (bauernskat.js), and the replayed     *)
(* deal is the one that was played or names the seat that played foul       *)
(* (mpoker.js).                                                             *)
CardsAreHonest ==
  /\ on = "skat" => Sk!NeverStuck /\ Sk!FairSettlement
  /\ on = "doko" => Do!HonestHand
  /\ on = "bauernskat" => Ba!SameCards /\ Ba!NoPeeking
  /\ on = "poker" => Po!TheDealIsProved

(* The three devices of a Skat hand come to the same hand, result and audit *)
(* whatever order the messages of different players arrive in, and no       *)
(* message waits for good (game, settle and finish of table.js).            *)
HandsAgree == on = "hand" => Ha!HandsAgree /\ Ha!NothingWaitsForGood

(* The game by link: what the next player sees is what the last one sent,   *)
(* and every game keeps to its own rule of ending (turns.js, turn-ui.js).   *)
LinksAndGamesAgree == on = "turn" => ScreensAndLinksAgree /\ GamesKeepTheirPromise

(* Replies to a link count once: lists that went apart come together again  *)
(* whichever reply is opened last, and the wisher never sees who gives what *)
(* (turns.js, turn-ui.js); a draw of lots is made once, for everybody who   *)
(* is in it (turn2.js); an answer to a party's poll counts once, in the     *)
(* published total and for the one who gave it (feier.js).                  *)
RepliesCountOnce ==
  /\ on = "lists" => Li!RepliesMerge /\ Li!WisherStaysHerself
  /\ on = "wichteln" => Sa!OneFairDraw
  /\ on = "feier" => Fe!EveryAnswerCountsOnce

(* No hand is shown before both are sealed, and there is one ball, whoever  *)
(* invites whom and whatever is late (live.js, rpslive.js, ballduell.js).   *)
HandsStaySealed == on = "live" => Lv!HandsStaySealed /\ Lv!OneBall

(* The two phones of an arcade match play one match (arcade.js,             *)
(* arcade2.js), and which seat an agent has in a duel decides nothing       *)
(* (duel.js).                                                               *)
BothPhonesPlayOneMatch ==
  /\ on = "arcade" => Ar!BothPhonesPlayOneMatch
  /\ on = "duel" => Du!SeatsDoNotMatter

(* An AI answer is paid for once, by the one who took it, and settled as    *)
(* what was done with it (ai.js, quiz-ui.js).                               *)
PaidForWhatWasTaken == on = "ai" => Ai!PaidForWhatWasTaken

(* A guess is judged by the word the picture was drawn for, and a picture   *)
(* is shown with its own word (malrat.js, malrat-ui.js).                    *)
PictureOfItsWord == on = "malrat" => Ma!PictureOfItsWord

(* The minutes of a meeting hold what was said in it, once and in order,    *)
(* unless something of one meeting came while another one was on the page   *)
(* (protokoll.js, protokoll-page.js).                                       *)
MinutesAreTrue == on = "protokoll" => Me!MinutesAreTrue

(* The short link a person is shown opens the card that was on the screen,  *)
(* and the shelf knows how to delete it (app.js, shortlink.js).             *)
OneCardOneLink == on = "pages" => Pg!OneCardOneLink

(* Devices that share a profile come to the same one, with nothing lost     *)
(* that nobody deleted (profile.js).                                        *)
OneProfile == on = "profile" => Pr!OneProfile
=============================================================================
