------------------------------ MODULE MCGames ------------------------------
(* The instances TLC checks of the two games of the object-oriented course, *)
(* GwentStone and POO TV: each behaviour is of one of them.                 *)
EXTENDS Integers, Sequences, FiniteSets

CONSTANTS Setups, MaxHealth, MaxCol, MaxMana, MaxTurns, MaxGames,
          Accounts, Registered, Films, Listed, Rates, TokenPrice, PremiumPrice, FreeFilms,
          MaxRating, MaxStack, MaxUses

ASSUME TVConstants ==
  /\ IsFiniteSet(DOMAIN Accounts) /\ Registered \subseteq DOMAIN Accounts
  /\ {"anonymous", "null"} \cap DOMAIN Accounts = {}
  /\ \A n \in DOMAIN Accounts : Accounts[n].premium \in BOOLEAN
  /\ Listed \subseteq DOMAIN Films /\ Rates \subseteq Int
  /\ \A n \in {TokenPrice, PremiumPrice, FreeFilms} : n \in Int

VARIABLES on, deck, hand, mana, hero, wins, table, turn, endTurn, start, games, out,
          users, movies, stats, page, crtUser, crtMovies, stack, coming, uses, said

Gwent == INSTANCE GwentStone
TV == INSTANCE PooTV WITH out <- said

\* The decks of a game: none is empty, the cards are different ones, and only
\* environment cards have no health.  A hero is one of the four.
ASSUME GwentConstants ==
  /\ MaxHealth \in Int /\ MaxCol \in Nat
  /\ \A g \in Setups :
      /\ g.deck \in [{1, 2} -> Seq(Gwent!Card) \ {<<>>}]
      /\ \A p, q \in {1, 2} : \A i \in DOMAIN g.deck[p], j \in DOMAIN g.deck[q] :
           g.deck[p][i].id = g.deck[q][j].id => p = q /\ i = j
      /\ \A p \in {1, 2} : \A i \in DOMAIN g.deck[p] :
           g.deck[p][i].name \notin Gwent!Environment => g.deck[p][i].health > 0
      /\ \A p \in {1, 2} :
           g.hero[p] \in Gwent!AttackingHeroes \cup {"King Mudface", "General Kocioraw"}

vars == <<deck, hand, mana, hero, wins, table, turn, endTurn, start, games, out>>
tvVars == <<users, movies, stats, page, crtUser, crtMovies, stack, coming, uses, said>>

GamesInit ==
  /\ on \in {"GwentStone", "POO TV"}
  /\ Gwent!Init /\ TV!Init

GamesNext ==
  /\ UNCHANGED on
  /\ \/ on = "GwentStone" /\ Gwent!Next /\ UNCHANGED tvVars
     \/ on = "POO TV" /\ TV!Next /\ UNCHANGED vars

GamesSpec == GamesInit /\ [][GamesNext]_<<on, vars, tvVars>>
---------------------------------------------------------------------------
CardOf(i, n, m, h, d) == [id |-> i, name |-> n, mana |-> m, health |-> h, damage |-> d,
                         frozen |-> FALSE, attacked |-> FALSE]
Env(i, n) == CardOf(i, n, 1, 0, 0)
Setup(d1, h1, d2, h2) == [deck |-> <<d1, d2>>, hero |-> <<h1, h2>>]
MCSetups == {
  Setup(<<CardOf(1, "Miraj", 1, 1, 1), Env(2, "Heart Hound")>>, "Empress Thorina",
        <<CardOf(3, "The Cursed One", 1, 2, 0)>>, "General Kocioraw"),
  Setup(<<CardOf(1, "Disciple", 0, 1, 1)>>, "Lord Royce",
        <<CardOf(3, "The Ripper", 1, 1, 2), Env(4, "Firestorm")>>, "King Mudface"),
  Setup(<<CardOf(1, "Goliath", 1, 1, 1), CardOf(2, "Miraj", 1, 1, 1)>>, "General Kocioraw",
        <<Env(4, "Heart Hound")>>, "Empress Thorina"),
  Setup(<<CardOf(1, "Warden", 1, 1, 2), Env(2, "Winterfell")>>, "Lord Royce",
        <<CardOf(3, "Berserker", 1, 2, 1)>>, "Empress Thorina") }

MCAccounts == [ana |-> [country |-> "ro", premium |-> FALSE],
               bob |-> [country |-> "us", premium |-> TRUE]]
MCFilms == [ice |-> [name |-> "Ice", genres |-> {"comedy"}, banned |-> {}],
            ice2 |-> [name |-> "Ice", genres |-> {"comedy"}, banned |-> {"ro"}]]
---------------------------------------------------------------------------
(* GwentStone.  Every card on the table is alive, and no card is in two     *)
(* places, whatever commands moved, stole or exchanged it.                  *)
CardsSound == on = "GwentStone" => Gwent!NoDeadCard /\ Gwent!OnePlaceEach
(* A frozen card neither acts nor thaws until its side ends a turn.         *)
FrozenWaits == [][on = "GwentStone" => Gwent!FrozenStays]_vars
(* A game is won once (CardInput.java).                                     *)
WonOnce == Gwent!WonOnce
(* Heart Hound steals the card it copies (CardInput.java).                  *)
HoundSteals == Gwent!HoundSteals
(* POO TV.  The films shown are films of the database that the account may  *)
(* see.                                                                     *)
CrtMoviesFresh == on = "POO TV" => TV!CrtMoviesFresh
(* A film counts one rating for each account that rated it, and an account  *)
(* watches, likes and rates only what it bought, whatever is deleted.       *)
AccountsAgree == on = "POO TV" => TV!RatingsCounted /\ TV!WatchedBought
(* Liking takes watching (Movies.java).                                     *)
LikedWatched == TV!LikedWatched
(* The rating is an average (README.md of the program).                     *)
RatingIsAverage == TV!RatingIsAverage
(* Deleting a film gives something back to its buyers (Database.java).      *)
BuyersRefunded == TV!BuyersRefunded
=============================================================================
