----------------------------- MODULE GamesProofs -----------------------------
(***************************************************************************)
(* What MCGames checks of its two games, for any input.  POO TV: the films *)
(* shown are those the account may see, ratings are counted once for each  *)
(* account, and nothing is watched that was not bought.  GwentStone: no    *)
(* card is dead on the table or in two places, and ice stays on a card.    *)
(***************************************************************************)
EXTENDS MCGames, InductionLemmas

(* A behaviour of the instance is one of the film service.                 *)
LEMMA TVAlone == GamesSpec => TV!Init /\ [][TV!Next]_tvVars
<1>1. GamesInit => TV!Init
  BY DEF GamesInit
<1>2. [GamesNext]_<<on, vars, tvVars>> => [TV!Next]_tvVars
  BY DEF GamesNext
<1> QED BY <1>1, <1>2, PTL DEF GamesSpec
---------------------------------------------------------------------------
(* The invariant, in parts.                                                *)

FilmIds == DOMAIN Films
Countries == {Accounts[n].country : n \in DOMAIN Accounts}
Notes == {"ADD", "DELETE", "Recommendation"} \X
         ({"none"} \cup {Films[f].name : f \in FilmIds})
Account ==
  [premium : BOOLEAN, country : Countries, tokens : Int, free : Int,
   purchased : SUBSET FilmIds, watched : SUBSET FilmIds, liked : SUBSET FilmIds,
   rated : SUBSET FilmIds, current : FilmIds \cup {"none"},
   notifications : Seq(Notes), genres : SUBSET TV!Genres]
Counters == [likes : Int, ratings : Int, sum : Int, watched : BOOLEAN]
Outside == {TV!Home, "login", "register"}
Remembered == {"movies", "upgrades", "see details"}

TVTypes ==
  /\ DOMAIN users \subseteq DOMAIN Accounts /\ users \in [DOMAIN users -> Account]
  /\ movies \subseteq FilmIds /\ crtMovies \subseteq FilmIds /\ coming \subseteq FilmIds
  /\ stats \in [FilmIds -> Counters]
  /\ page \in Outside \cup Remembered \cup {TV!Welcome} /\ stack \in Seq(Remembered)

(* Outside nobody is logged in and nothing is left of a session.  A page   *)
(* that was entered, and may be gone back to, was entered by the account   *)
(* that is logged in, and the page of a film has a film.                   *)
Entered(p) == page = p \/ \E i \in 1 .. Len(stack) : stack[i] = p
InSession ==
  /\ page \in Outside => crtUser \in {"anonymous", "null"} /\ crtMovies = {} /\ stack = <<>>
  /\ Entered("movies") => TV!Logged
  /\ Entered("see details") => TV!Logged /\ TV!Me.current \in FilmIds \ coming

(* Of a film that is still to be added no account and no counter knows.    *)
Unseen ==
  /\ coming \cap movies = {}
  /\ \A f \in coming : stats[f].ratings = 0 /\ \A u \in DOMAIN users : f \notin users[u].purchased

TVInv ==
  TVTypes /\ InSession /\ Unseen /\ TV!CrtMoviesFresh /\ TV!RatingsCounted /\ TV!WatchedBought
---------------------------------------------------------------------------
(* The module of the film service counts as this one does.                 *)
LEMMA CountIs == \A S : TV!Cardinality(S) = Cardinality(S)
BY DEF Cardinality, TV!Cardinality

LEMMA NewAccountIs ==
  ASSUME NEW n \in DOMAIN Accounts
  PROVE  /\ TV!NewAccount(n) \in Account
         /\ TV!NewAccount(n).purchased = {} /\ TV!NewAccount(n).watched = {}
         /\ TV!NewAccount(n).liked = {} /\ TV!NewAccount(n).rated = {}
<1>1. /\ Accounts[n].premium \in BOOLEAN /\ Accounts[n].country \in Countries
      /\ 0 \in Int /\ FreeFilms \in Int /\ <<>> \in Seq(Notes)
  BY TVConstants DEF Countries
<1> QED BY <1>1 DEF TV!NewAccount, Account

LEMMA TVInit == TV!Init => TVInv
<1> SUFFICES ASSUME TV!Init PROVE TVInv
  OBVIOUS
<1>1. /\ DOMAIN users = Registered /\ Registered \subseteq DOMAIN Accounts
      /\ \A u \in Registered : users[u] = TV!NewAccount(u)
  BY TVConstants DEF TV!Init
<1>2. /\ stats \in [FilmIds -> Counters] /\ \A f \in FilmIds : stats[f].ratings = 0
  BY DEF TV!Init, Counters, FilmIds
<1>3. \A u \in Registered :
        /\ users[u] \in Account /\ users[u].purchased = {} /\ users[u].watched = {}
        /\ users[u].liked = {} /\ users[u].rated = {}
  BY <1>1, NewAccountIs
<1>4. users \in [DOMAIN users -> Account]
  BY <1>1, <1>3 DEF TV!Init
<1>5. /\ movies = Listed /\ Listed \subseteq FilmIds /\ coming = FilmIds \ Listed
      /\ crtMovies = {} /\ stack = <<>> /\ page = TV!Home /\ crtUser = "anonymous"
  BY TVConstants DEF TV!Init, FilmIds
<1>6. TVTypes
  BY <1>1, <1>2, <1>4, <1>5 DEF TVTypes, Outside
<1>7. InSession
  <2>1. TV!Home \notin Remembered
    BY DEF TV!Home, Remembered
  <2>2. ~Entered("movies") /\ ~Entered("see details")
    <3>1. page # "movies" /\ page # "see details"
      BY <1>5, <2>1 DEF Remembered
    <3>2. 1 .. Len(stack) = {}
      BY <1>5
    <3> QED BY <3>1, <3>2 DEF Entered
  <2> QED BY <1>5, <2>2 DEF InSession
<1>8. Unseen
  BY <1>1, <1>2, <1>3, <1>5 DEF Unseen
<1>9. TV!CrtMoviesFresh /\ TV!WatchedBought
  BY <1>1, <1>3, <1>5 DEF TV!CrtMoviesFresh, TV!WatchedBought
<1>10. TV!RatingsCounted
  <2>1. \A m \in movies : {u \in DOMAIN users : m \in users[u].rated} = {}
    BY <1>1, <1>3
  <2> QED BY <1>2, <1>5, <2>1, FS_EmptySet, CountIs DEF TV!RatingsCounted
<1> QED BY <1>6, <1>7, <1>8, <1>9, <1>10 DEF TVInv
---------------------------------------------------------------------------
(* Requests that leave accounts, films and counters alone.                 *)

LEMMA Moved ==
  ASSUME TVInv, UNCHANGED <<users, movies, stats, coming>>,
         page' \in Outside \cup Remembered \cup {TV!Welcome}, stack' \in Seq(Remembered),
         crtMovies' \subseteq FilmIds, InSession', TV!CrtMoviesFresh'
  PROVE  TVInv'
<1>1. TVTypes' /\ Unseen' /\ TV!RatingsCounted' /\ TV!WatchedBought'
  BY DEF TVInv, TVTypes, Unseen, TV!RatingsCounted, TV!WatchedBought
<1> QED BY <1>1 DEF TVInv

(* Refused: films to come may have been dropped with the request.          *)
LEMMA Refused ==
  ASSUME TVInv, UNCHANGED <<users, movies, stats, page, crtUser, crtMovies, stack>>,
         coming' \subseteq coming
  PROVE  TVInv'
<1>1. TVTypes' /\ Unseen'
  BY DEF TVInv, TVTypes, Unseen
<1>2. InSession'
  BY DEF TVInv, InSession, Entered, TV!Logged, TV!Me
<1>3. TV!CrtMoviesFresh' /\ TV!RatingsCounted' /\ TV!WatchedBought'
  BY DEF TVInv, TV!CrtMoviesFresh, TV!Available, TV!Logged, TV!RatingsCounted, TV!WatchedBought
<1> QED BY <1>1, <1>2, <1>3 DEF TVInv

LEMMA SaysSo ==
  ASSUME TVInv, TV!Error \/ TV!Crash, coming' \subseteq coming
  PROVE  TVInv'
BY Refused DEF TV!Error, TV!Crash, TV!session

LEMMA SessionBegins ==
  ASSUME TVInv, UNCHANGED <<users, movies, stats, coming, stack, crtMovies>>,
         page \in Outside, page' \in Outside, crtUser' \in {"anonymous", "null"}
  PROVE  TVInv'
<1>1. crtMovies = {} /\ stack = <<>>
  BY DEF TVInv, InSession
<1>2. page' \notin Remembered
  BY DEF Outside, Remembered, TV!Home
<1>3. 1 .. Len(stack) = {}
  BY <1>1
<1>4. InSession'
  BY <1>1, <1>2, <1>3 DEF InSession, Entered, Remembered
<1>5. TV!CrtMoviesFresh'
  BY <1>1 DEF TV!CrtMoviesFresh
<1>6. crtMovies' \subseteq FilmIds /\ stack' \in Seq(Remembered)
  BY DEF TVInv, TVTypes
<1> QED BY <1>4, <1>5, <1>6, Moved

(* Errors.checkErrorChangePage: login and register are pages of the        *)
(* outside only.                                                           *)
LEMMA FromOutside ==
  ASSUME TVInv, NEW to \in {"login", "register"}, TV!MayChange(page, to)
  PROVE  page \in Outside
BY DEF TVInv, TVTypes, TV!MayChange, Outside, Remembered, TV!Welcome, TV!Home

LEMMA LoginPage ==
  ASSUME TVInv, TV!ToLoginOrRegister, UNCHANGED coming
  PROVE  TVInv'
<1>1. PICK to \in {"login", "register"} :
        TV!ChangePage(to) /\ UNCHANGED <<crtUser, crtMovies, stack>>
  BY DEF TV!ToLoginOrRegister
<1>2. page \in Outside
  BY <1>1, FromOutside DEF TV!ChangePage
<1>3. crtUser' \in {"anonymous", "null"} /\ page' \in Outside
  BY <1>1, <1>2 DEF TV!ChangePage, TVInv, InSession, Outside
<1> QED BY <1>1, <1>2, <1>3, SessionBegins DEF TV!ChangePage

LEMMA LoggedOut ==
  ASSUME TVInv, TV!Logout, UNCHANGED coming
  PROVE  TVInv'
<1>1. /\ page' = TV!Home /\ crtUser' = "anonymous" /\ crtMovies' = {} /\ stack' = <<>>
      /\ UNCHANGED <<users, movies, stats>>
  BY DEF TV!Logout
<1>2. page' \in Outside /\ page' \notin Remembered
  BY <1>1 DEF Outside, Remembered, TV!Home
<1>3. 1 .. Len(stack') = {} /\ stack' \in Seq(Remembered)
  BY <1>1
<1>4. InSession'
  BY <1>1, <1>2, <1>3 DEF InSession, Entered, Remembered
<1>5. TV!CrtMoviesFresh'
  BY <1>1 DEF TV!CrtMoviesFresh
<1> QED BY <1>1, <1>2, <1>3, <1>4, <1>5, Moved

LEMMA Pushed ==
  ASSUME stack \in Seq(Remembered), NEW p \in Remembered, stack' = <<p>> \o stack, page' = p,
         NEW x, x # p
  PROVE  stack' \in Seq(Remembered) /\ (Entered(x)' => Entered(x))
<1>1. stack' \in Seq(Remembered) /\ Len(stack') = Len(stack) + 1 /\ Len(stack) \in Nat
  OBVIOUS
<1>2. \A i \in 1 .. Len(stack') : stack'[i] = IF i = 1 THEN p ELSE stack[i - 1]
  OBVIOUS
<1>3. ASSUME NEW i \in 1 .. Len(stack'), stack'[i] = x
      PROVE  i - 1 \in 1 .. Len(stack) /\ stack[i - 1] = x
  BY <1>1, <1>2, <1>3
<1> QED BY <1>1, <1>3 DEF Entered

LEMMA ShowsMovies ==
  ASSUME TVInv, TV!ToMovies, UNCHANGED coming
  PROVE  TVInv'
<1>1. /\ TV!Logged /\ page' = "movies" /\ stack' = <<"movies">> \o stack
      /\ crtMovies' = TV!Available /\ UNCHANGED <<users, movies, stats, crtUser>>
  BY DEF TV!ToMovies, TV!ChangePage
<1>2. "movies" \in Remembered /\ "movies" # "see details" /\ page' \notin Outside
  BY <1>1 DEF Remembered, Outside, TV!Home
<1>3. stack' \in Seq(Remembered) /\ (Entered("see details")' => Entered("see details"))
  BY <1>1, <1>2, Pushed DEF TVInv, TVTypes
<1>4. InSession'
  BY <1>1, <1>2, <1>3 DEF TVInv, InSession, TV!Logged, TV!Me
<1>5. TV!CrtMoviesFresh' /\ crtMovies' \subseteq FilmIds
  BY <1>1 DEF TV!CrtMoviesFresh, TV!Available, TV!Logged, TVInv, TVTypes
<1> QED BY <1>1, <1>2, <1>3, <1>4, <1>5, Moved

LEMMA ShowsUpgrades ==
  ASSUME TVInv, TV!ToUpgrades, UNCHANGED coming
  PROVE  TVInv'
<1>1. /\ page' = "upgrades" /\ stack' = <<"upgrades">> \o stack
      /\ UNCHANGED <<users, movies, stats, crtUser, crtMovies>>
  BY DEF TV!ToUpgrades, TV!ChangePage
<1>2. /\ "upgrades" \in Remembered /\ "upgrades" # "see details" /\ "upgrades" # "movies"
      /\ page' \notin Outside
  BY <1>1 DEF Remembered, Outside, TV!Home
<1>3. stack \in Seq(Remembered)
  BY DEF TVInv, TVTypes
<1>4. /\ stack' \in Seq(Remembered) /\ (Entered("see details")' => Entered("see details"))
      /\ Entered("movies")' => Entered("movies")
  BY <1>1, <1>2, <1>3, Pushed
<1>5. InSession'
  BY <1>1, <1>2, <1>4 DEF TVInv, InSession, TV!Logged, TV!Me
<1>6. TV!CrtMoviesFresh' /\ crtMovies' \subseteq FilmIds
  BY <1>1 DEF TV!CrtMoviesFresh, TV!Available, TV!Logged, TVInv, TVTypes
<1> QED BY <1>1, <1>2, <1>4, <1>5, <1>6, Moved

LEMMA GoesBack ==
  ASSUME TVInv, TV!Back, UNCHANGED coming
  PROVE  TVInv'
<1>1. CASE TV!Error
  BY <1>1, SaysSo
<1>2. CASE /\ page = "see details" /\ TV!Logged /\ page' = "movies" /\ crtMovies' = TV!Available
           /\ UNCHANGED <<users, movies, stats, crtUser, stack>>
  <2>1. page' \notin Outside /\ page' \in Remembered
    BY <1>2 DEF Remembered, Outside, TV!Home
  <2>2. Entered("see details")
    BY <1>2 DEF Entered
  <2>3. InSession'
    BY <1>2, <2>1, <2>2 DEF TVInv, InSession, TV!Logged, TV!Me
  <2>4. TV!CrtMoviesFresh' /\ crtMovies' \subseteq FilmIds /\ stack' \in Seq(Remembered)
    BY <1>2 DEF TV!CrtMoviesFresh, TV!Available, TV!Logged, TVInv, TVTypes
  <2> QED BY <1>2, <2>1, <2>3, <2>4, Moved
<1>3. CASE /\ stack # <<>> /\ page' = Head(stack) /\ stack' = Tail(stack)
           /\ UNCHANGED <<users, movies, stats, crtUser, crtMovies>>
  <2>1. stack \in Seq(Remembered)
    BY DEF TVInv, TVTypes
  <2>2. /\ stack' \in Seq(Remembered) /\ page' \in Remembered /\ page' = stack[1]
        /\ \A i \in 1 .. Len(stack') : i + 1 \in 1 .. Len(stack) /\ stack'[i] = stack[i + 1]
        /\ 1 \in 1 .. Len(stack)
    BY <1>3, <2>1
  <2>3. ASSUME NEW x PROVE Entered(x)' => Entered(x)
    BY <2>2 DEF Entered
  <2>4. page' \notin Outside
    BY <2>2 DEF Remembered, Outside, TV!Home
  <2>5. InSession'
    BY <1>3, <2>3, <2>4 DEF TVInv, InSession, TV!Logged, TV!Me
  <2>6. TV!CrtMoviesFresh' /\ crtMovies' \subseteq FilmIds
    BY <1>3 DEF TV!CrtMoviesFresh, TV!Available, TV!Logged, TVInv, TVTypes
  <2> QED BY <1>3, <2>2, <2>5, <2>6, Moved
<1> QED BY <1>1, <1>2, <1>3 DEF TV!Back

LEMMA FiltersFilms ==
  ASSUME TVInv, NEW wanted, TV!Filter(wanted), UNCHANGED coming
  PROVE  TVInv'
<1>1. /\ page = "movies" /\ crtMovies' \subseteq TV!Available
      /\ UNCHANGED <<users, movies, stats, page, crtUser, stack>>
  BY DEF TV!Filter
<1>2. TV!Logged /\ page \notin Outside
  BY <1>1 DEF TVInv, InSession, Entered, Outside, TV!Home
<1>3. InSession'
  BY <1>1, <1>2 DEF TVInv, InSession, Entered, TV!Logged, TV!Me
<1>4. TV!CrtMoviesFresh' /\ crtMovies' \subseteq FilmIds
  BY <1>1, <1>2 DEF TV!CrtMoviesFresh, TV!Available, TV!Logged, TVInv, TVTypes
<1>5. page' \in Outside \cup Remembered \cup {TV!Welcome} /\ stack' \in Seq(Remembered)
  BY <1>1 DEF TVInv, TVTypes
<1> QED BY <1>1, <1>3, <1>4, <1>5, Moved
---------------------------------------------------------------------------
(* Requests that change the account that is logged in.                     *)

(* The account may keep a, and the counters follow its grades.             *)
Fits(a) ==
  /\ a \in Account /\ a.country = TV!Me.country /\ a.purchased \cap coming = {}
  /\ a.watched \cup a.liked \subseteq a.purchased /\ a.rated \subseteq a.watched
Follows(a) ==
  /\ stats' \in [FilmIds -> Counters] /\ \A f \in coming : stats'[f].ratings = 0
  /\ \A m \in movies :
       stats'[m].ratings = IF m \in a.rated \ TV!Me.rated THEN stats[m].ratings + 1
                                                           ELSE stats[m].ratings

LEMMA Becomes ==
  ASSUME TVInv, TV!Logged, NEW a, Fits(a), Follows(a), TV!Me.rated \subseteq a.rated,
         users' = [users EXCEPT ![crtUser] = a], UNCHANGED <<movies, crtUser, crtMovies, coming>>,
         page' \in Outside \cup Remembered \cup {TV!Welcome}, stack' \in Seq(Remembered),
         InSession'
  PROVE  TVInv'
<1>1. /\ DOMAIN users' = DOMAIN users /\ crtUser \in DOMAIN users /\ users'[crtUser] = a
      /\ \A u \in DOMAIN users : u # crtUser => users'[u] = users[u]
  BY DEF TV!Logged, TVInv, TVTypes
<1>2. users' \in [DOMAIN users' -> Account] /\ DOMAIN users' \subseteq DOMAIN Accounts
  BY <1>1 DEF Fits, TVInv, TVTypes
<1>3. TVTypes'
  BY <1>2 DEF TVInv, TVTypes, Follows
<1>4. Unseen'
  BY <1>1 DEF TVInv, Unseen, Fits, Follows
<1>5. TV!WatchedBought'
  BY <1>1 DEF TVInv, TV!WatchedBought, Fits
<1>6. TV!CrtMoviesFresh'
  BY <1>1 DEF TVInv, TV!CrtMoviesFresh, TV!Available, TV!Logged, Fits, TV!Me
<1>7. TV!RatingsCounted'
  <2> SUFFICES ASSUME NEW m \in movies
               PROVE  stats'[m].ratings = Cardinality({u \in DOMAIN users : m \in users'[u].rated})
    BY <1>1, CountIs DEF TV!RatingsCounted
  <2> DEFINE R == {u \in DOMAIN users : m \in users[u].rated}
             S == {u \in DOMAIN users : m \in users'[u].rated}
  <2>1. IsFiniteSet(DOMAIN users)
    BY TVConstants, FS_Subset DEF TVInv, TVTypes
  <2>2. IsFiniteSet(R)
    BY <2>1, FS_Subset
  <2>3. stats[m].ratings = Cardinality(R)
    BY CountIs DEF TVInv, TV!RatingsCounted
  <2>5. CASE m \in a.rated \ TV!Me.rated
    <3>1. S = R \cup {crtUser} /\ crtUser \notin R
      BY <1>1, <2>5 DEF TV!Me
    <3>2. Cardinality(S) = Cardinality(R) + 1
      BY <2>2, <3>1, FS_AddElement
    <3> QED BY <2>3, <2>5, <3>2 DEF Follows
  <2>6. CASE m \notin a.rated \ TV!Me.rated
    <3>1. S = R
      BY <1>1, <2>6 DEF TV!Me
    <3>2. stats'[m].ratings = Cardinality(R)
      BY <2>3, <2>6 DEF Follows
    <3> QED BY <3>1, <3>2
  <2> QED BY <2>5, <2>6
<1> QED BY <1>3, <1>4, <1>5, <1>6, <1>7 DEF TVInv

(* In particular when the page stays.                                      *)
LEMMA BecomesHere ==
  ASSUME TVInv, TV!Logged, NEW a, Fits(a), Follows(a), TV!Me.rated \subseteq a.rated,
         a.current = TV!Me.current,
         users' = [users EXCEPT ![crtUser] = a],
         UNCHANGED <<movies, coming, page, crtUser, crtMovies, stack>>
  PROVE  TVInv'
<1>1. /\ DOMAIN users' = DOMAIN users /\ crtUser \in DOMAIN users /\ users'[crtUser] = a
  BY DEF TV!Logged, TVInv, TVTypes
<1>2. InSession'
  BY <1>1 DEF TVInv, InSession, Entered, TV!Logged, TV!Me
<1>3. page' \in Outside \cup Remembered \cup {TV!Welcome} /\ stack' \in Seq(Remembered)
  BY DEF TVInv, TVTypes
<1> QED BY <1>2, <1>3, Becomes

(* The account as it is.                                                   *)
LEMMA MeIs ==
  ASSUME TVInv, TV!Logged
  PROVE  TV!Me \in Account /\ Fits(TV!Me) /\ (UNCHANGED stats => Follows(TV!Me))
<1>1. crtUser \in DOMAIN users /\ TV!Me = users[crtUser] /\ TV!Me \in Account
  BY DEF TVInv, TVTypes, TV!Logged, TV!Me
<1>2. TV!Me.purchased \cap coming = {}
  BY <1>1 DEF TVInv, Unseen
<1>3. TV!Me.watched \cup TV!Me.liked \subseteq TV!Me.purchased /\ TV!Me.rated \subseteq TV!Me.watched
  BY <1>1 DEF TVInv, TV!WatchedBought
<1>4. stats \in [FilmIds -> Counters] /\ \A f \in coming : stats[f].ratings = 0
  BY DEF TVInv, TVTypes, Unseen
<1> QED BY <1>1, <1>2, <1>3, <1>4 DEF Fits, Follows

LEMMA SeesDetails ==
  ASSUME TVInv, NEW m \in crtMovies, TV!SeeDetails(m), UNCHANGED coming
  PROVE  TVInv'
<1> DEFINE a == [TV!Me EXCEPT !.current = m]
<1>1. /\ page' = "see details" /\ stack' = <<"see details">> \o stack
      /\ users' = [users EXCEPT ![crtUser] = a]
      /\ UNCHANGED <<movies, stats, crtUser, crtMovies>>
  BY DEF TV!SeeDetails, TV!Me
<1>2. TV!Logged /\ m \in FilmIds \ coming
  BY DEF TVInv, TV!CrtMoviesFresh, TVTypes, Unseen
<1>3. Fits(a) /\ Follows(a) /\ TV!Me.rated \subseteq a.rated /\ a.current = m
  BY <1>1, <1>2, MeIs DEF Fits, Follows, Account
<1> HIDE DEF a
<1>4. /\ "see details" \in Remembered /\ "movies" # "see details" /\ page' \notin Outside
  BY <1>1 DEF Remembered, Outside, TV!Home
<1>5. stack' \in Seq(Remembered) /\ (Entered("movies")' => Entered("movies"))
  BY <1>1, <1>4, Pushed DEF TVInv, TVTypes
<1>6. DOMAIN users' = DOMAIN users /\ users'[crtUser] = a
  BY <1>1, <1>2 DEF TV!Logged, TVInv, TVTypes
<1>7. InSession'
  BY <1>1, <1>2, <1>3, <1>4, <1>5, <1>6 DEF TVInv, InSession, TV!Logged, TV!Me
<1> QED BY <1>1, <1>2, <1>3, <1>4, <1>5, <1>7, Becomes

(* The features of the page of a film: Update replaces the account.        *)
LEMMA Updates ==
  ASSUME TVInv, page = "see details", NEW a, NEW c,
         Fits(a), TV!Me.rated \subseteq a.rated, a.current = TV!Me.current, c \in Counters,
         a.rated \subseteq TV!Me.rated \cup {TV!Me.current},
         c.ratings = IF TV!Me.current \in a.rated \ TV!Me.rated
                     THEN stats[TV!Me.current].ratings + 1 ELSE stats[TV!Me.current].ratings,
         TV!Update(a, c), UNCHANGED coming
  PROVE  TVInv'
<1>1. /\ users' = [users EXCEPT ![crtUser] = a]
      /\ stats' = [stats EXCEPT ![TV!Me.current] = c]
      /\ UNCHANGED <<movies, page, crtUser, crtMovies, stack>>
  BY DEF TV!Update, TV!session
<1>2. TV!Logged /\ TV!Me.current \in FilmIds \ coming
  BY DEF TVInv, InSession, Entered
<1>3. /\ stats \in [FilmIds -> Counters] /\ \A f \in coming : stats[f].ratings = 0
      /\ movies \subseteq FilmIds
  BY DEF TVInv, TVTypes, Unseen
<1> DEFINE k == TV!Me.current
<1> HIDE DEF k
<1>5. /\ stats' \in [FilmIds -> Counters] /\ stats'[k] = c
      /\ \A f \in FilmIds : f # k => stats'[f] = stats[f]
  BY <1>1, <1>2, <1>3 DEF k
<1>6. \A f \in coming : stats'[f].ratings = 0
  BY <1>2, <1>3, <1>5 DEF k, TVInv, TVTypes
<1>7. ASSUME NEW m \in movies
      PROVE  stats'[m].ratings = IF m \in a.rated \ TV!Me.rated THEN stats[m].ratings + 1
                                                                 ELSE stats[m].ratings
  <2>1. CASE m = k
    BY <1>5, <2>1 DEF k
  <2>2. CASE m # k
    <3>1. stats'[m] = stats[m] /\ m \notin a.rated \ TV!Me.rated
      BY <1>3, <1>5, <2>2 DEF k
    <3> QED BY <3>1
  <2> QED BY <2>1, <2>2
<1>8. Follows(a)
  BY <1>5, <1>6, <1>7 DEF Follows
<1> QED BY <1>1, <1>2, <1>8, BecomesHere

LEMMA OnFilmPage ==
  ASSUME TVInv, page = "see details"
  PROVE  /\ TV!Logged /\ TV!Me \in Account /\ Fits(TV!Me)
         /\ TV!Me.current \in FilmIds \ coming
         /\ stats[TV!Me.current] \in Counters
<1>1. TV!Logged /\ TV!Me.current \in FilmIds \ coming
  BY DEF TVInv, InSession, Entered
<1>2. stats[TV!Me.current] \in Counters
  BY <1>1 DEF TVInv, TVTypes
<1> QED BY <1>1, <1>2, MeIs

LEMMA Purchases ==
  ASSUME TVInv, TV!Purchase, UNCHANGED coming
  PROVE  TVInv'
<1>1. CASE TV!Error
  BY <1>1, SaysSo
<1>2. CASE ~TV!Error
  <2> DEFINE paid == IF TV!Me.premium /\ TV!Me.free > 0
                     THEN [TV!Me EXCEPT !.free = @ - 1]
                     ELSE [TV!Me EXCEPT !.tokens = @ - TokenPrice]
             a == [paid EXCEPT !.purchased = @ \cup {TV!Me.current}]
  <2>1. page = "see details" /\ TV!Update(a, stats[TV!Me.current])
    BY <1>2 DEF TV!Purchase
  <2>2. /\ TV!Me \in Account /\ Fits(TV!Me) /\ TV!Me.current \in FilmIds \ coming
        /\ stats[TV!Me.current] \in Counters
    BY <2>1, OnFilmPage
  <2>3. paid \in Account /\ paid.purchased = TV!Me.purchased /\ paid.watched = TV!Me.watched
        /\ paid.liked = TV!Me.liked /\ paid.rated = TV!Me.rated
        /\ paid.current = TV!Me.current /\ paid.country = TV!Me.country
    <3>1. TV!Me.free - 1 \in Int /\ TV!Me.tokens - TokenPrice \in Int
      BY <2>2, TVConstants DEF Account
    <3>2. CASE TV!Me.premium /\ TV!Me.free > 0
      BY <2>2, <3>1, <3>2 DEF Account
    <3>3. CASE ~(TV!Me.premium /\ TV!Me.free > 0)
      BY <2>2, <3>1, <3>3 DEF Account
    <3> QED BY <3>2, <3>3
  <2> HIDE DEF paid
  <2>4. a \in Account /\ a.purchased = TV!Me.purchased \cup {TV!Me.current}
        /\ a.watched = TV!Me.watched /\ a.liked = TV!Me.liked /\ a.rated = TV!Me.rated
        /\ a.current = TV!Me.current /\ a.country = TV!Me.country
    BY <2>2, <2>3 DEF Account
  <2> HIDE DEF a
  <2>5. Fits(a)
    BY <2>2, <2>4 DEF Fits
  <2> QED BY <2>1, <2>2, <2>4, <2>5, Updates
<1> QED BY <1>1, <1>2

LEMMA Watches ==
  ASSUME TVInv, TV!Watch, UNCHANGED coming
  PROVE  TVInv'
<1>1. CASE TV!Error
  BY <1>1, SaysSo
<1>2. CASE ~TV!Error
  <2> DEFINE a == [TV!Me EXCEPT !.watched = @ \cup {TV!Me.current}]
             c == [stats[TV!Me.current] EXCEPT !.watched = @ \/ TV!Me.current \notin TV!Me.watched]
  <2>1. page = "see details" /\ TV!Update(a, c) /\ TV!Me.current \in TV!Me.purchased
    BY <1>2 DEF TV!Watch
  <2>2. /\ TV!Me \in Account /\ Fits(TV!Me) /\ TV!Me.current \in FilmIds \ coming
        /\ stats[TV!Me.current] \in Counters
    BY <2>1, OnFilmPage
  <2>3. a \in Account /\ a.purchased = TV!Me.purchased
        /\ a.watched = TV!Me.watched \cup {TV!Me.current}
        /\ a.liked = TV!Me.liked /\ a.rated = TV!Me.rated
        /\ a.current = TV!Me.current /\ a.country = TV!Me.country
    BY <2>2 DEF Account
  <2>4. c \in Counters /\ c.ratings = stats[TV!Me.current].ratings /\ c.ratings \in Int
    BY <2>2 DEF Counters
  <2> HIDE DEF a, c
  <2>5. Fits(a)
    BY <2>1, <2>2, <2>3 DEF Fits
  <2> QED BY <2>1, <2>3, <2>4, <2>5, Updates
<1> QED BY <1>1, <1>2

LEMMA Likes ==
  ASSUME TVInv, TV!Like, UNCHANGED coming
  PROVE  TVInv'
<1>1. CASE TV!Error
  BY <1>1, SaysSo
<1>2. CASE ~TV!Error
  <2> DEFINE a == [TV!Me EXCEPT !.liked = @ \cup {TV!Me.current}]
             c == [stats[TV!Me.current] EXCEPT !.likes = @ + 1]
  <2>1. page = "see details" /\ TV!Update(a, c) /\ TV!Me.current \in TV!Me.purchased
    BY <1>2 DEF TV!Like, TV!MayLike
  <2>2. /\ TV!Me \in Account /\ Fits(TV!Me) /\ TV!Me.current \in FilmIds \ coming
        /\ stats[TV!Me.current] \in Counters
    BY <2>1, OnFilmPage
  <2>3. a \in Account /\ a.purchased = TV!Me.purchased
        /\ a.liked = TV!Me.liked \cup {TV!Me.current}
        /\ a.watched = TV!Me.watched /\ a.rated = TV!Me.rated
        /\ a.current = TV!Me.current /\ a.country = TV!Me.country
    BY <2>2 DEF Account
  <2>4. c \in Counters /\ c.ratings = stats[TV!Me.current].ratings /\ c.ratings \in Int
    BY <2>2 DEF Counters
  <2> HIDE DEF a, c
  <2>5. Fits(a)
    BY <2>1, <2>2, <2>3 DEF Fits
  <2> QED BY <2>1, <2>3, <2>4, <2>5, Updates
<1> QED BY <1>1, <1>2

LEMMA RatesFilm ==
  ASSUME TVInv, NEW grade \in Rates, TV!Rate(grade), UNCHANGED coming
  PROVE  TVInv'
<1>1. CASE TV!Error
  BY <1>1, SaysSo
<1>2. CASE ~TV!Error
  <2> DEFINE k == TV!Me.current
             a == [TV!Me EXCEPT !.rated = @ \cup {k}]
             c == TV!Graded(stats[k], k \in TV!Me.rated, grade)
  <2>1. page = "see details" /\ TV!Update(a, c) /\ k \in TV!Me.watched
    BY <1>2 DEF TV!Rate
  <2>2. /\ TV!Me \in Account /\ Fits(TV!Me) /\ k \in FilmIds \ coming /\ stats[k] \in Counters
    BY <2>1, OnFilmPage
  <2>3. a \in Account /\ a.purchased = TV!Me.purchased
        /\ a.rated = TV!Me.rated \cup {k}
        /\ a.watched = TV!Me.watched /\ a.liked = TV!Me.liked
        /\ a.current = k /\ a.country = TV!Me.country
    BY <2>2 DEF Account
  <2>4. /\ c \in Counters
        /\ c.ratings = IF k \in TV!Me.rated THEN stats[k].ratings ELSE stats[k].ratings + 1
    <3>1. grade \in Int
      BY TVConstants
    <3> DEFINE b == [stats[k] EXCEPT !.sum = @ + grade]
               more == IF k \in TV!Me.rated THEN stats[k].ratings ELSE stats[k].ratings + 1
    <3>2. b \in Counters /\ b.ratings = stats[k].ratings
      BY <2>2, <3>1 DEF Counters
    <3>3. c = [b EXCEPT !.ratings = more]
      BY <2>2 DEF TV!Graded, Counters
    <3>4. more \in Int
      BY <2>2 DEF Counters
    <3> HIDE DEF b, c, more
    <3>5. c \in Counters /\ c.ratings = more
      BY <3>2, <3>3, <3>4 DEF Counters
    <3> QED BY <3>5 DEF more
  <2> HIDE DEF a, c
  <2>5. Fits(a)
    BY <2>1, <2>2, <2>3 DEF Fits
  <2>6. c.ratings = IF k \in a.rated \ TV!Me.rated THEN stats[k].ratings + 1
                                                  ELSE stats[k].ratings
    BY <2>3, <2>4
  <2> QED BY <2>1, <2>3, <2>4, <2>5, <2>6, Updates
<1> QED BY <1>1, <1>2

LEMMA Subscribes ==
  ASSUME TVInv, NEW genre \in TV!Genres, TV!Subscribe(genre), UNCHANGED coming
  PROVE  TVInv'
<1>1. CASE TV!Error
  BY <1>1, SaysSo
<1>2. CASE ~TV!Error
  <2> DEFINE a == [TV!Me EXCEPT !.genres = @ \cup {genre}]
  <2>1. page = "see details" /\ TV!Update(a, stats[TV!Me.current])
    BY <1>2 DEF TV!Subscribe
  <2>2. /\ TV!Me \in Account /\ Fits(TV!Me) /\ stats[TV!Me.current] \in Counters
    BY <2>1, OnFilmPage
  <2>3. a \in Account /\ a.purchased = TV!Me.purchased /\ a.watched = TV!Me.watched
        /\ a.liked = TV!Me.liked /\ a.rated = TV!Me.rated
        /\ a.current = TV!Me.current /\ a.country = TV!Me.country
    BY <2>2 DEF Account
  <2> HIDE DEF a
  <2>4. Fits(a)
    BY <2>2, <2>3 DEF Fits
  <2> QED BY <2>1, <2>2, <2>3, <2>4, Updates
<1> QED BY <1>1, <1>2

(* What the page of upgrades does to an account.                           *)
LEMMA Pays ==
  ASSUME TVInv, TV!Logged, NEW a \in Account,
         a.country = TV!Me.country, a.current = TV!Me.current,
         a.purchased = TV!Me.purchased, a.watched = TV!Me.watched, a.liked = TV!Me.liked,
         a.rated = TV!Me.rated,
         users' = [users EXCEPT ![crtUser] = a],
         UNCHANGED <<movies, stats, coming, page, crtUser, crtMovies, stack>>
  PROVE  TVInv'
<1>1. TV!Me \in Account /\ Fits(TV!Me) /\ Follows(TV!Me)
  BY MeIs
<1>2. Fits(a) /\ Follows(a)
  BY <1>1 DEF Fits, Follows
<1> QED BY <1>2, BecomesHere

LEMMA BuysTokens ==
  ASSUME TVInv, TV!BuyTokens(TokenPrice), UNCHANGED coming
  PROVE  TVInv'
<1>1. CASE TV!Crash
  BY <1>1, SaysSo
<1>2. CASE ~TV!Crash
  <2> DEFINE a == [TV!Me EXCEPT !.tokens = @ + TokenPrice]
  <2>1. TV!Logged /\ users' = [users EXCEPT ![crtUser] = a]
        /\ UNCHANGED <<movies, stats, page, crtUser, crtMovies, stack>>
    <3>1. /\ TV!Logged /\ users' = [users EXCEPT ![crtUser].tokens = @ + TokenPrice]
          /\ UNCHANGED <<movies, stats, page, crtUser, crtMovies, stack>>
      BY <1>2 DEF TV!BuyTokens, TV!session
    <3> QED BY <3>1 DEF TV!Me
  <2>2. TV!Me \in Account
    BY <2>1, MeIs
  <2>3. a \in Account /\ a.purchased = TV!Me.purchased /\ a.watched = TV!Me.watched
        /\ a.liked = TV!Me.liked /\ a.rated = TV!Me.rated
        /\ a.current = TV!Me.current /\ a.country = TV!Me.country
    BY <2>2, TVConstants DEF Account
  <2> HIDE DEF a
  <2> QED BY <2>1, <2>3, Pays
<1> QED BY <1>1, <1>2

LEMMA BuysPremium ==
  ASSUME TVInv, TV!BuyPremium, UNCHANGED coming
  PROVE  TVInv'
<1>1. CASE TV!Crash \/ TV!Error
  BY <1>1, SaysSo
<1>2. CASE ~(TV!Crash \/ TV!Error)
  <2> DEFINE a == [TV!Me EXCEPT !.tokens = @ - PremiumPrice, !.premium = TRUE, !.free = FreeFilms]
  <2>1. TV!Logged /\ users' = [users EXCEPT ![crtUser] = a]
        /\ UNCHANGED <<movies, stats, page, crtUser, crtMovies, stack>>
    BY <1>2 DEF TV!BuyPremium, TV!session
  <2>2. TV!Me \in Account
    BY <2>1, MeIs
  <2>3. a \in Account /\ a.purchased = TV!Me.purchased /\ a.watched = TV!Me.watched
        /\ a.liked = TV!Me.liked /\ a.rated = TV!Me.rated
        /\ a.current = TV!Me.current /\ a.country = TV!Me.country
    <3> DEFINE b == [TV!Me EXCEPT !.tokens = @ - PremiumPrice]
               d == [b EXCEPT !.premium = TRUE]
    <3>1. TV!Me.tokens - PremiumPrice \in Int /\ FreeFilms \in Int
      BY <2>2, TVConstants DEF Account
    <3>2. b \in Account /\ b = [TV!Me EXCEPT !.tokens = b.tokens]
      BY <2>2, <3>1 DEF Account
    <3>3. d \in Account /\ d.purchased = TV!Me.purchased /\ d.watched = TV!Me.watched
          /\ d.liked = TV!Me.liked /\ d.rated = TV!Me.rated
          /\ d.current = TV!Me.current /\ d.country = TV!Me.country
      BY <2>2, <3>2 DEF Account
    <3>4. a = [d EXCEPT !.free = FreeFilms]
      BY <2>2 DEF Account
    <3> HIDE DEF a, b, d
    <3> QED BY <3>1, <3>3, <3>4 DEF Account
  <2> HIDE DEF a
  <2> QED BY <2>1, <2>3, Pays
<1> QED BY <1>1, <1>2

LEMMA Finishes ==
  ASSUME TVInv, TV!Finish, UNCHANGED coming
  PROVE  TVInv'
<1>1. UNCHANGED <<movies, stats, page, crtUser, crtMovies, stack>>
  BY DEF TV!Finish, TV!session
<1>2. CASE UNCHANGED users
  BY <1>1, <1>2, Refused
<1>3. CASE users' # users
  <2> DEFINE a == TV!Notify(TV!Me, "Recommendation", "none")
  <2>1. TV!Logged /\ users' = [users EXCEPT ![crtUser] = a]
    BY <1>3 DEF TV!Finish, TV!Me
  <2>2. TV!Me \in Account
    BY <2>1, MeIs
  <2>3. a \in Account /\ a.purchased = TV!Me.purchased /\ a.watched = TV!Me.watched
        /\ a.liked = TV!Me.liked /\ a.rated = TV!Me.rated
        /\ a.current = TV!Me.current /\ a.country = TV!Me.country
    <3>1. <<"Recommendation", "none">> \in Notes
      BY DEF Notes
    <3>2. Append(TV!Me.notifications, <<"Recommendation", "none">>) \in Seq(Notes)
      BY <2>2, <3>1 DEF Account
    <3> QED BY <2>2, <3>2 DEF Account, TV!Notify
  <2> HIDE DEF a
  <2> QED BY <1>1, <2>1, <2>3, Pays
<1> QED BY <1>2, <1>3

LEMMA LogsIn ==
  ASSUME TVInv, NEW n \in DOMAIN Accounts, NEW right \in BOOLEAN, TV!LoginWith(n, right),
         UNCHANGED coming
  PROVE  TVInv'
<1>1. page = "login" /\ page \in Outside /\ UNCHANGED <<users, movies, stats, crtMovies, stack>>
  BY DEF TV!LoginWith, Outside
<1>2. crtMovies = {} /\ stack = <<>>
  BY <1>1 DEF TVInv, InSession
<1>5. 1 .. Len(stack) = {}
  BY <1>2
<1>3. CASE page' = TV!Home /\ crtUser' = "null"
  BY <1>1, <1>3, SessionBegins DEF Outside
<1>4. CASE page' = TV!Welcome
  <2>1. page' \notin Outside /\ page' \notin Remembered
    BY <1>4 DEF TV!Welcome, TV!Home, Outside, Remembered
  <2>2. InSession'
    BY <1>1, <1>2, <1>5, <2>1 DEF InSession, Entered, Remembered
  <2>3. TV!CrtMoviesFresh'
    BY <1>1, <1>2 DEF TV!CrtMoviesFresh
  <2>4. stack' \in Seq(Remembered) /\ crtMovies' \subseteq FilmIds
    BY <1>1 DEF TVInv, TVTypes
  <2> QED BY <1>1, <1>4, <2>2, <2>3, <2>4, Moved
<1> QED BY <1>3, <1>4 DEF TV!LoginWith

LEMMA Registers ==
  ASSUME TVInv, NEW n \in DOMAIN Accounts, TV!RegisterAs(n), UNCHANGED coming
  PROVE  TVInv'
<1>1. /\ page = "register" /\ page \in Outside
      /\ UNCHANGED <<movies, stats, crtMovies, stack>>
  BY DEF TV!RegisterAs, Outside
<1>2. crtMovies = {} /\ stack = <<>> /\ crtUser \in {"anonymous", "null"}
  BY <1>1 DEF TVInv, InSession
<1>3. CASE page' = TV!Home /\ UNCHANGED <<users, crtUser>>
  BY <1>1, <1>2, <1>3, SessionBegins DEF Outside
<1>4. CASE /\ n \notin DOMAIN users /\ crtUser' = n /\ page' = TV!Welcome
           /\ users' = [u \in DOMAIN users \cup {n} |->
                          IF u = n THEN TV!NewAccount(n) ELSE users[u]]
  <2>1. /\ DOMAIN users' = DOMAIN users \cup {n} /\ users'[n] = TV!NewAccount(n)
        /\ \A u \in DOMAIN users : users'[u] = users[u]
    BY <1>4
  <2>2. /\ users'[n] \in Account /\ users'[n].purchased = {} /\ users'[n].watched = {}
        /\ users'[n].liked = {} /\ users'[n].rated = {}
    BY <2>1, NewAccountIs
  <2>3. /\ DOMAIN users \subseteq DOMAIN Accounts /\ \A u \in DOMAIN users : users[u] \in Account
    BY DEF TVInv, TVTypes
  <2>4. users' \in [DOMAIN users' -> Account] /\ DOMAIN users' \subseteq DOMAIN Accounts
    <3>1. \A u \in DOMAIN users' : users'[u] \in Account
      BY <2>1, <2>2, <2>3
    <3>2. users' = [u \in DOMAIN users' |-> users'[u]]
      BY <1>4
    <3> QED BY <2>1, <2>3, <3>1, <3>2
  <2>5. TVTypes'
    BY <1>1, <1>4, <2>4 DEF TVInv, TVTypes
  <2>6. InSession'
    <3>1. page' \notin Outside /\ page' \notin Remembered
      BY <1>4 DEF TV!Welcome, TV!Home, Outside, Remembered
    <3>2. 1 .. Len(stack) = {}
      BY <1>2
    <3> QED BY <1>1, <3>1, <3>2 DEF InSession, Entered, Remembered
  <2>7. Unseen'
    BY <1>1, <2>1, <2>2 DEF TVInv, Unseen
  <2>8. TV!CrtMoviesFresh'
    BY <1>1, <1>2 DEF TV!CrtMoviesFresh
  <2>9. TV!WatchedBought'
    BY <2>1, <2>2 DEF TVInv, TV!WatchedBought
  <2>10. TV!RatingsCounted'
    <3>1. \A m \in movies : {u \in DOMAIN users' : m \in users'[u].rated} =
                            {u \in DOMAIN users : m \in users[u].rated}
      BY <2>1, <2>2
    <3> QED BY <1>1, <3>1 DEF TVInv, TV!RatingsCounted
  <2> QED BY <2>5, <2>6, <2>7, <2>8, <2>9, <2>10 DEF TVInv
<1> QED BY <1>3, <1>4 DEF TV!RegisterAs
---------------------------------------------------------------------------
(* The database.                                                           *)

(* Every account may be told, and those of the account that is logged in   *)
(* may lose films; no account's country, grades of other films or film at  *)
(* hand change.                                                            *)
Keeps(a, b, S) ==
  /\ b \in Account /\ b.country = a.country /\ b.current = a.current
  /\ b.purchased \subseteq a.purchased /\ \A m \in S : m \in b.rated <=> m \in a.rated
  /\ b.watched \cup b.liked \subseteq b.purchased /\ b.rated \subseteq b.watched

LEMMA DatabaseChanges ==
  ASSUME TVInv, DOMAIN users' = DOMAIN users, users' = [u \in DOMAIN users |-> users'[u]],
         \A u \in DOMAIN users : Keeps(users[u], users'[u], movies'),
         UNCHANGED <<stats, page, crtUser, stack>>, coming' \subseteq coming,
         movies' \subseteq FilmIds, coming' \cap movies' = {},
         movies' \subseteq movies \cup coming,
         crtMovies' \subseteq FilmIds, crtMovies' \subseteq movies',
         page \in Outside => crtMovies' = {},
         crtMovies' # {} => TV!Logged /\ \A m \in crtMovies' : TV!Me.country \notin Films[m].banned
  PROVE  TVInv'
<1>1. TVTypes'
  <2>1. users' \in [DOMAIN users' -> Account]
    BY DEF Keeps
  <2> QED BY <2>1 DEF TVInv, TVTypes
<1>2. InSession'
  <2>1. TV!Logged => TV!Logged' /\ (TV!Me.current)' = TV!Me.current
    BY DEF TV!Logged, TV!Me, Keeps
  <2>2. ASSUME NEW x PROVE Entered(x)' <=> Entered(x)
    BY DEF Entered
  <2> QED BY <2>1, <2>2 DEF TVInv, InSession
<1>3. Unseen'
  BY DEF TVInv, Unseen, Keeps
<1>4. TV!CrtMoviesFresh'
  BY DEF TV!CrtMoviesFresh, TV!Logged, TV!Me, TV!Available, Keeps
<1>5. TV!WatchedBought'
  BY DEF TV!WatchedBought, Keeps
<1>6. TV!RatingsCounted'
  <2> SUFFICES ASSUME NEW m \in movies'
               PROVE  stats[m].ratings = Cardinality({u \in DOMAIN users : m \in users'[u].rated})
    BY CountIs DEF TV!RatingsCounted
  <2>1. {u \in DOMAIN users : m \in users'[u].rated} = {u \in DOMAIN users : m \in users[u].rated}
    BY DEF Keeps
  <2>2. CASE m \in movies
    BY <2>1, <2>2, CountIs DEF TVInv, TV!RatingsCounted
  <2>3. CASE m \in coming
    <3>1. \A u \in DOMAIN users : m \notin users[u].rated
      BY <2>3 DEF TVInv, Unseen, TV!WatchedBought
    <3>2. {u \in DOMAIN users : m \in users[u].rated} = {}
      BY <3>1
    <3> QED BY <2>1, <2>3, <3>2, FS_EmptySet DEF TVInv, Unseen
  <2> QED BY <2>2, <2>3
<1> QED BY <1>1, <1>2, <1>3, <1>4, <1>5, <1>6 DEF TVInv

LEMMA AccountIs ==
  ASSUME TVInv, NEW u \in DOMAIN users
  PROVE  /\ users[u] \in Account /\ users[u].rated \subseteq users[u].watched
         /\ users[u].watched \cup users[u].liked \subseteq users[u].purchased
BY DEF TVInv, TVTypes, TV!WatchedBought

(* A notification adds to the account's messages, and no more.             *)
LEMMA Notified ==
  ASSUME NEW a \in Account, NEW w \in {"ADD", "DELETE"}, NEW f \in FilmIds
  PROVE  /\ TV!Notify(a, w, Films[f].name) \in Account
         /\ TV!Notify(a, w, Films[f].name) =
              [a EXCEPT !.notifications = Append(@, <<w, Films[f].name>>)]
<1>1. <<w, Films[f].name>> \in Notes
  BY DEF Notes
<1>2. Append(a.notifications, <<w, Films[f].name>>) \in Seq(Notes)
  BY <1>1 DEF Account
<1> QED BY <1>2 DEF Account, TV!Notify

LEMMA Adds ==
  ASSUME TVInv, NEW f \in coming, TV!AddMovie(f), coming' = coming \ {f}
  PROVE  TVInv'
<1>1. CASE TV!Error \/ TV!Crash
  BY <1>1, SaysSo
<1>2. CASE ~(TV!Error \/ TV!Crash)
  <2>1. /\ TV!Logged /\ movies' = movies \cup {f}
        /\ users' = [u \in DOMAIN users |-> TV!NotifyAdd(users[u], f)]
        /\ crtMovies' = IF TV!Me.country \in Films[f].banned THEN crtMovies
                                                            ELSE crtMovies \cup {f}
        /\ UNCHANGED <<stats, page, crtUser, stack>>
    BY <1>2 DEF TV!AddMovie
  <2>2. f \in FilmIds /\ movies \subseteq FilmIds /\ crtMovies \subseteq FilmIds
        /\ coming \cap movies = {}
    BY DEF TVInv, TVTypes, Unseen
  <2>3. ASSUME NEW u \in DOMAIN users
        PROVE  Keeps(users[u], users'[u], movies')
    <3>1. users[u] \in Account
      BY AccountIs
    <3>2. users'[u] = users[u] \/ users'[u] = TV!Notify(users[u], "ADD", Films[f].name)
      BY <2>1 DEF TV!NotifyAdd
    <3>3. CASE users'[u] = users[u]
      BY <3>1, <3>3, AccountIs DEF Keeps
    <3>4. CASE users'[u] = TV!Notify(users[u], "ADD", Films[f].name)
      <4> DEFINE a == users[u]
                 b == users'[u]
      <4>1. b \in Account /\ b = [a EXCEPT !.notifications = Append(@, <<"ADD", Films[f].name>>)]
        BY <2>2, <3>1, <3>4, Notified
      <4>2. /\ b.country = a.country /\ b.current = a.current /\ b.purchased = a.purchased
            /\ b.watched = a.watched /\ b.liked = a.liked /\ b.rated = a.rated
        BY <3>1, <4>1 DEF Account
      <4> QED BY <4>1, <4>2, AccountIs DEF Keeps
    <3> QED BY <3>2, <3>3, <3>4
  <2>4. page \notin Outside
    BY <2>1, TVConstants DEF TVInv, InSession, TVTypes, TV!Logged
  <2>5. \A m \in crtMovies' : TV!Me.country \notin Films[m].banned
    BY <2>1 DEF TVInv, TV!CrtMoviesFresh, TV!Available, TV!Me
  <2>6. crtMovies' \subseteq movies' /\ crtMovies' \subseteq FilmIds
    BY <2>1, <2>2 DEF TVInv, TV!CrtMoviesFresh
  <2>7. /\ DOMAIN users' = DOMAIN users /\ users' = [u \in DOMAIN users |-> users'[u]]
        /\ coming' \subseteq coming /\ coming' \cap movies' = {}
        /\ movies' \subseteq FilmIds /\ movies' \subseteq movies \cup coming
    BY <2>1, <2>2
  <2> QED BY <2>1, <2>3, <2>4, <2>5, <2>6, <2>7, DatabaseChanges
<1> QED BY <1>1, <1>2

(* DeleteMovieFromUser takes every film of the name out of every list.     *)
LEMMA Withdrawn ==
  ASSUME NEW a \in Account, NEW n
  PROVE  LET b == TV!DeleteMovieFromUser(a, n)
         IN  /\ b \in Account /\ b.country = a.country /\ b.current = a.current
             /\ b.purchased = TV!Without(a.purchased, n) /\ b.watched = TV!Without(a.watched, n)
             /\ b.liked = TV!Without(a.liked, n) /\ b.rated = TV!Without(a.rated, n)
<1> DEFINE b1 == [a EXCEPT !.purchased = TV!Without(@, n)]
           b2 == [b1 EXCEPT !.watched = TV!Without(a.watched, n)]
           b3 == [b2 EXCEPT !.liked = TV!Without(a.liked, n)]
           b4 == [b3 EXCEPT !.rated = TV!Without(a.rated, n)]
           b == TV!DeleteMovieFromUser(a, n)
<1>1. \A S \in SUBSET FilmIds : TV!Without(S, n) \in SUBSET FilmIds
  BY DEF TV!Without
<1>2. /\ b1 \in Account /\ b1.country = a.country /\ b1.current = a.current
      /\ b1.purchased = TV!Without(a.purchased, n)
  BY <1>1 DEF Account
<1>3. /\ b2 \in Account /\ b2.country = a.country /\ b2.current = a.current
      /\ b2.purchased = TV!Without(a.purchased, n) /\ b2.watched = TV!Without(a.watched, n)
  <2> HIDE DEF b1
  <2> QED BY <1>1, <1>2 DEF Account
<1>4. /\ b3 \in Account /\ b3.country = a.country /\ b3.current = a.current
      /\ b3.purchased = TV!Without(a.purchased, n) /\ b3.watched = TV!Without(a.watched, n)
      /\ b3.liked = TV!Without(a.liked, n)
  <2> HIDE DEF b2
  <2> QED BY <1>1, <1>3 DEF Account
<1>5. /\ b4 \in Account /\ b4.country = a.country /\ b4.current = a.current
      /\ b4.purchased = TV!Without(a.purchased, n) /\ b4.watched = TV!Without(a.watched, n)
      /\ b4.liked = TV!Without(a.liked, n) /\ b4.rated = TV!Without(a.rated, n)
  <2> HIDE DEF b3
  <2> QED BY <1>1, <1>4 DEF Account
<1>6. b = b4
  BY DEF TV!DeleteMovieFromUser, Account
<1> QED BY <1>5, <1>6

(* NotifyDelete leaves the lists as they are.                              *)
LEMMA Told ==
  ASSUME NEW a \in Account, NEW f \in FilmIds
  PROVE  LET b == TV!NotifyDelete(a, Films[f].name)
         IN  /\ b \in Account /\ b.country = a.country /\ b.current = a.current
             /\ b.purchased = a.purchased /\ b.watched = a.watched
             /\ b.liked = a.liked /\ b.rated = a.rated
<1> DEFINE paid == IF a.premium THEN [a EXCEPT !.free = @ + 1]
                                ELSE [a EXCEPT !.tokens = @ + TokenPrice]
           b == TV!NotifyDelete(a, Films[f].name)
<1>1. /\ paid \in Account /\ paid.country = a.country /\ paid.current = a.current
      /\ paid.purchased = a.purchased /\ paid.watched = a.watched
      /\ paid.liked = a.liked /\ paid.rated = a.rated
  <2>1. a.free + 1 \in Int /\ a.tokens + TokenPrice \in Int
    BY TVConstants DEF Account
  <2>2. CASE a.premium
    BY <2>1, <2>2 DEF Account
  <2>3. CASE ~a.premium
    BY <2>1, <2>3 DEF Account
  <2> QED BY <2>2, <2>3
<1>2. b = a \/ b = TV!Notify(paid, "DELETE", Films[f].name)
  BY DEF TV!NotifyDelete
<1> HIDE DEF paid
<1>3. CASE b = a
  BY <1>3
<1>4. CASE b = TV!Notify(paid, "DELETE", Films[f].name)
  <2> DEFINE c == TV!Notify(paid, "DELETE", Films[f].name)
  <2>1. c \in Account /\ c = [paid EXCEPT !.notifications = Append(@, <<"DELETE", Films[f].name>>)]
    BY <1>1, Notified
  <2> HIDE DEF c
  <2>2. /\ c \in Account /\ c.country = a.country /\ c.current = a.current
        /\ c.purchased = a.purchased /\ c.watched = a.watched
        /\ c.liked = a.liked /\ c.rated = a.rated
    BY <1>1, <2>1 DEF Account
  <2>3. b = c
    BY <1>4 DEF c
  <2> QED BY <2>2, <2>3
<1> QED BY <1>2, <1>3, <1>4

LEMMA Deletes ==
  ASSUME TVInv, NEW f \in FilmIds, TV!DeleteMovie(Films[f].name), UNCHANGED coming
  PROVE  TVInv'
<1>1. CASE TV!Error \/ TV!Crash
  BY <1>1, SaysSo
<1>2. CASE ~(TV!Error \/ TV!Crash)
  <2> DEFINE n == Films[f].name
             kept(u) == IF u = crtUser THEN TV!DeleteMovieFromUser(users[u], n) ELSE users[u]
  <2>1. /\ movies' = TV!Without(movies, n) /\ crtMovies' = TV!Without(crtMovies, n)
        /\ users' = [u \in DOMAIN users |-> TV!NotifyDelete(kept(u), n)]
        /\ UNCHANGED <<stats, page, crtUser, stack>>
    BY <1>2 DEF TV!DeleteMovie
  <2>2. ASSUME NEW u \in DOMAIN users
        PROVE  Keeps(users[u], users'[u], movies')
    <3> DEFINE a == users[u]
               k == kept(u)
               b == users'[u]
    <3>1. a \in Account /\ a.rated \subseteq a.watched /\ a.watched \cup a.liked \subseteq a.purchased
      BY AccountIs
    <3>2. /\ k \in Account /\ k.country = a.country /\ k.current = a.current
          /\ k.purchased \subseteq a.purchased /\ k.rated \subseteq k.watched
          /\ k.watched \cup k.liked \subseteq k.purchased
          /\ \A m \in movies' : m \in k.rated <=> m \in a.rated
      <4>1. CASE u = crtUser
        <5> DEFINE d == TV!DeleteMovieFromUser(a, n)
        <5>1. k = d
          BY <4>1
        <5>2. /\ d \in Account /\ d.country = a.country /\ d.current = a.current
              /\ d.purchased = TV!Without(a.purchased, n) /\ d.watched = TV!Without(a.watched, n)
              /\ d.liked = TV!Without(a.liked, n) /\ d.rated = TV!Without(a.rated, n)
          BY <3>1, Withdrawn
        <5> HIDE DEF d, k
        <5> QED BY <2>1, <3>1, <5>1, <5>2 DEF TV!Without
      <4>2. CASE u # crtUser
        BY <3>1, <4>2
      <4> QED BY <4>1, <4>2
    <3>3. b = TV!NotifyDelete(k, n)
      BY <2>1
    <3> HIDE DEF k, b
    <3>4. /\ b \in Account /\ b.country = k.country /\ b.current = k.current
          /\ b.purchased = k.purchased /\ b.watched = k.watched
          /\ b.liked = k.liked /\ b.rated = k.rated
      BY <3>2, <3>3, Told
    <3>5. Keeps(a, b, movies')
      BY <3>1, <3>2, <3>4 DEF Keeps
    <3> QED BY <3>5 DEF b
  <2> HIDE DEF kept
  <2>3. /\ movies' \subseteq movies /\ crtMovies' \subseteq crtMovies /\ crtMovies' \subseteq movies'
    BY <2>1 DEF TVInv, TV!CrtMoviesFresh, TV!Without
  <2>4. crtMovies' # {} => TV!Logged /\ \A m \in crtMovies' : TV!Me.country \notin Films[m].banned
    BY <2>3 DEF TVInv, TV!CrtMoviesFresh, TV!Available, TV!Me
  <2>5. page \in Outside => crtMovies' = {}
    BY <2>3 DEF TVInv, InSession
  <2>6. /\ DOMAIN users' = DOMAIN users /\ users' = [u \in DOMAIN users |-> users'[u]]
        /\ coming' \subseteq coming /\ coming' \cap movies' = {}
        /\ movies' \subseteq FilmIds /\ crtMovies' \subseteq FilmIds
        /\ movies' \subseteq movies \cup coming
    BY <2>1, <2>3 DEF TVInv, TVTypes, Unseen
  <2> QED BY <2>1, <2>2, <2>3, <2>4, <2>5, <2>6, DatabaseChanges
<1> QED BY <1>1, <1>2
---------------------------------------------------------------------------
LEMMA TVStep == TVInv /\ [TV!Next]_tvVars => TVInv'
<1> SUFFICES ASSUME TVInv, [TV!Next]_tvVars PROVE TVInv'
  OBVIOUS
<1>1. CASE UNCHANGED tvVars
  BY <1>1, Refused DEF tvVars
<1>2. CASE TV!Pages /\ UNCHANGED coming
  <2>1. CASE TV!ChangeRefused
    BY <1>2, <2>1, SaysSo DEF TV!ChangeRefused
  <2> QED BY <1>2, <2>1, LoginPage, LoggedOut, ShowsMovies, ShowsUpgrades, GoesBack, SeesDetails
           DEF TV!Pages
<1>3. CASE TV!Features /\ UNCHANGED coming
  <2>1. CASE TV!FeatureRefused
    BY <1>3, <2>1, SaysSo DEF TV!FeatureRefused
  <2> QED BY <1>3, <2>1, LogsIn, Registers, FiltersFilms, BuysTokens, BuysPremium, Purchases,
             Watches, Likes, RatesFilm, Subscribes
           DEF TV!Features
<1>4. CASE (\E f \in DOMAIN Films : TV!DeleteMovie(Films[f].name)) /\ UNCHANGED coming
  BY <1>4, Deletes DEF FilmIds
<1>5. CASE TV!Finish /\ UNCHANGED coming
  BY <1>5, Finishes
<1>6. CASE \E f \in coming : TV!AddMovie(f) /\ coming' = coming \ {f}
  BY <1>6, Adds
<1> QED BY <1>1, <1>2, <1>3, <1>4, <1>5, <1>6 DEF TV!Next

LEMMA TVHolds == GamesSpec => []TVInv
BY TVAlone, TVInit, TVStep, PTL

(* Actions.action: the films shown are films of the database that the      *)
(* country of the account may see, whatever was added, deleted or gone     *)
(* back to.                                                                *)
THEOREM ShownIsFresh == GamesSpec => []CrtMoviesFresh
<1>1. TVInv => CrtMoviesFresh
  BY DEF TVInv, CrtMoviesFresh
<1> QED BY <1>1, TVHolds, PTL

(* Movies.java: a film counts one rating for each account that rated it,   *)
(* and an account watches, likes and rates only what it bought.            *)
THEOREM AccountsStayRight == GamesSpec => []AccountsAgree
<1>1. TVInv => AccountsAgree
  BY DEF TVInv, AccountsAgree
<1> QED BY <1>1, TVHolds, PTL
---------------------------------------------------------------------------
(* GwentStone.  A behaviour of the instance is one of the card game.        *)
LEMMA GwentAlone == GamesSpec => Gwent!Init /\ [][Gwent!Next]_vars
<1>1. GamesInit => Gwent!Init
  BY DEF GamesInit
<1>2. [GamesNext]_<<on, vars, tvVars>> => [Gwent!Next]_vars
  BY DEF GamesNext
<1> QED BY <1>1, <1>2, PTL DEF GamesSpec
---------------------------------------------------------------------------
(* The places a card can be in, and what it means that no card is in two.  *)
GCard == Gwent!Card
Players == {1, 2}
Rows == 0..3
PlaceNames == (Players \X {"deck", "hand"}) \cup {<<r, "row">> : r \in Rows}
Cards(d, h, t) ==
  [x \in PlaceNames |-> IF x[2] = "row" THEN t[x[1]]
                        ELSE IF x[2] = "hand" THEN h[x[1]] ELSE d[x[1]]]
Different(C) ==
  \A x, y \in PlaceNames : \A i \in DOMAIN C[x], j \in DOMAIN C[y] :
    C[x][i].id = C[y][j].id => x = y /\ i = j

LEMMA CardsAre ==
  ASSUME NEW d, NEW h, NEW t
  PROVE  /\ \A p \in Players :
              <<p, "deck">> \in PlaceNames /\ Cards(d, h, t)[<<p, "deck">>] = d[p]
         /\ \A p \in Players :
              <<p, "hand">> \in PlaceNames /\ Cards(d, h, t)[<<p, "hand">>] = h[p]
         /\ \A r \in Rows :
              <<r, "row">> \in PlaceNames /\ Cards(d, h, t)[<<r, "row">>] = t[r]
         /\ \A x \in PlaceNames :
              \/ \E p \in Players : x = <<p, "deck">> \/ x = <<p, "hand">>
              \/ \E r \in Rows : x = <<r, "row">>
BY DEF Cards, PlaceNames

(* s holds cards of the sequence c, none twice and not the one at place n, *)
(* perhaps changed but under their ids.                                    *)
Thinner(s, c, n) ==
  \E o \in [DOMAIN s -> DOMAIN c] :
    /\ \A i \in DOMAIN s : o[i] # n /\ s[i].id = c[o[i]].id
    /\ \A i, j \in DOMAIN s : o[i] = o[j] => i = j

LEMMA ThinnerSame ==
  ASSUME NEW s, NEW c, DOMAIN s = DOMAIN c, 0 \notin DOMAIN s, \A i \in DOMAIN s : s[i].id = c[i].id
  PROVE  Thinner(s, c, 0)
<1> DEFINE o == [i \in DOMAIN s |-> i]
<1>1. o \in [DOMAIN s -> DOMAIN c]
  OBVIOUS
<1> QED BY <1>1 DEF Thinner

LEMMA ThinnedDiffer ==
  ASSUME NEW C, Different(C), NEW E, \A x \in PlaceNames : Thinner(E[x], C[x], 0)
  PROVE  Different(E)
<1> SUFFICES ASSUME NEW x \in PlaceNames, NEW y \in PlaceNames,
                    NEW i \in DOMAIN E[x], NEW j \in DOMAIN E[y], E[x][i].id = E[y][j].id
             PROVE  x = y /\ i = j
  BY DEF Different
<1>1. PICK o \in [DOMAIN E[x] -> DOMAIN C[x]] :
        /\ \A k \in DOMAIN E[x] : E[x][k].id = C[x][o[k]].id
        /\ \A k, l \in DOMAIN E[x] : o[k] = o[l] => k = l
  BY DEF Thinner
<1>2. PICK q \in [DOMAIN E[y] -> DOMAIN C[y]] :
        /\ \A k \in DOMAIN E[y] : E[y][k].id = C[y][q[k]].id
        /\ \A k, l \in DOMAIN E[y] : q[k] = q[l] => k = l
  BY DEF Thinner
<1>3. C[x][o[i]].id = C[y][q[j]].id
  BY <1>1, <1>2
<1>4. x = y /\ o[i] = q[j]
  BY <1>3, <1>1, <1>2 DEF Different
<1>5. E[x][j].id = C[x][o[j]].id /\ o[j] \in DOMAIN C[x]
  BY <1>1, <1>4
<1>6. o[i] = o[j]
  BY <1>1, <1>4, <1>5 DEF Different
<1> QED BY <1>1, <1>4, <1>6

LEMMA AppendedIs ==
  ASSUME NEW S, NEW s \in Seq(S), NEW c \in S
  PROVE  /\ Append(s, c) \in Seq(S) /\ Len(s) \in Nat /\ DOMAIN s = 1..Len(s)
         /\ DOMAIN Append(s, c) = 1..(Len(s) + 1) /\ Append(s, c)[Len(s) + 1] = c
         /\ \A i \in 1..Len(s) : Append(s, c)[i] = s[i]
OBVIOUS

(* A card leaves one place, perhaps changed, for the end of another.       *)
LEMMA MovedDiffer ==
  ASSUME NEW C, Different(C), NEW E, NEW x \in PlaceNames, NEW y \in PlaceNames, x # y,
         NEW n \in DOMAIN C[x], NEW S, NEW c \in S, c.id = C[x][n].id,
         Thinner(E[x], C[x], n), C[y] \in Seq(S), E[y] = Append(C[y], c),
         \A z \in PlaceNames \ {x, y} : E[z] = C[z]
  PROVE  Different(E)
<1>1. PICK o \in [DOMAIN E[x] -> DOMAIN C[x]] :
        /\ \A k \in DOMAIN E[x] : o[k] # n /\ E[x][k].id = C[x][o[k]].id
        /\ \A k, l \in DOMAIN E[x] : o[k] = o[l] => k = l
  BY DEF Thinner
<1> DEFINE m == Len(C[y])
<1>0. /\ m \in Nat /\ DOMAIN C[y] = 1..m /\ DOMAIN E[y] = 1..(m+1) /\ E[y][m+1] = c
      /\ \A i \in 1..m : E[y][i] = C[y][i]
  BY AppendedIs
<1> HIDE DEF m
<1> DEFINE Place(z, i) == IF z = y /\ i = m+1 THEN x ELSE z
           At(z, i) == IF z = y /\ i = m+1 THEN n ELSE IF z = x THEN o[i] ELSE i
<1>2. ASSUME NEW z \in PlaceNames, NEW i \in DOMAIN E[z]
      PROVE  /\ Place(z, i) \in PlaceNames /\ At(z, i) \in DOMAIN C[Place(z, i)]
             /\ E[z][i].id = C[Place(z, i)][At(z, i)].id
  <2>1. CASE z = x
    BY <1>0, <1>1, <2>1
  <2>2. CASE z = y /\ i = m+1
    BY <1>0, <2>2
  <2>3. CASE z = y /\ i # m+1
    BY <1>0, <2>3
  <2>4. CASE z # x /\ z # y
    BY <2>4
  <2> QED BY <2>1, <2>2, <2>3, <2>4
<1> SUFFICES ASSUME NEW z \in PlaceNames, NEW w \in PlaceNames,
                    NEW i \in DOMAIN E[z], NEW j \in DOMAIN E[w], E[z][i].id = E[w][j].id
             PROVE  z = w /\ i = j
  BY DEF Different
<1>3. Place(z, i) = Place(w, j) /\ At(z, i) = At(w, j)
  <2> HIDE DEF Place, At
  <2> QED BY <1>2 DEF Different
<1> QED BY <1>0, <1>1, <1>3
---------------------------------------------------------------------------
(* What the operators on sequences of cards do.                            *)

LEMMA JoinedIs ==
  ASSUME NEW S, NEW a \in Seq(S), NEW b \in Seq(S)
  PROVE  /\ a \o b \in Seq(S) /\ Len(a \o b) = Len(a) + Len(b)
         /\ \A i \in 1..(Len(a) + Len(b)) :
              (a \o b)[i] = IF i <= Len(a) THEN a[i] ELSE b[i - Len(a)]
OBVIOUS

LEMMA RemovedIs ==
  ASSUME NEW S, NEW s \in Seq(S), NEW n \in 1..Len(s)
  PROVE  LET u == Gwent!RemoveAt(s, n)
         IN  /\ u \in Seq(S) /\ Len(u) = Len(s) - 1 /\ DOMAIN u = 1..(Len(s) - 1)
             /\ \A i \in 1..(Len(s) - 1) : u[i] = s[IF i < n THEN i ELSE i + 1]
<1> DEFINE a == SubSeq(s, 1, n-1)
           b == SubSeq(s, n+1, Len(s))
<1>1. a \in Seq(S) /\ Len(a) = n - 1 /\ \A i \in 1..(n-1) : a[i] = s[i]
  OBVIOUS
<1>2. b \in Seq(S) /\ Len(b) = Len(s) - n /\ \A i \in 1..(Len(s)-n) : b[i] = s[n+i]
  OBVIOUS
<1>3. Gwent!RemoveAt(s, n) = a \o b
  BY DEF Gwent!RemoveAt
<1> HIDE DEF a, b
<1>4. a \o b \in Seq(S) /\ Len(a \o b) = Len(s) - 1
  <2>1. a \o b \in Seq(S) /\ Len(a \o b) = Len(a) + Len(b)
    BY <1>1, <1>2, JoinedIs
  <2>2. Len(s) \in Nat /\ n \in Int
    OBVIOUS
  <2> QED BY <1>1, <1>2, <2>1, <2>2
<1>5. ASSUME NEW i \in 1..(Len(s) - 1) PROVE (a \o b)[i] = s[IF i < n THEN i ELSE i + 1]
  <2>1. CASE i < n
    BY <1>1, <1>2, <2>1
  <2>2. CASE i >= n
    <3> DEFINE k == i - (n - 1)
    <3>1. k \in 1..(Len(s) - n) /\ i \in 1..(Len(a) + Len(b)) /\ ~(i <= Len(a)) /\ i - Len(a) = k
      BY <1>1, <1>2, <2>2
    <3>2. n + k = i + 1 /\ ~(i < n)
      BY <2>2
    <3> HIDE DEF k
    <3>3. (a \o b)[i] = b[k]
      BY <1>1, <1>2, <3>1, JoinedIs
    <3>4. b[k] = s[i + 1]
      BY <1>2, <3>1, <3>2
    <3>5. (IF i < n THEN i ELSE i + 1) = i + 1
      BY <3>2
    <3> QED BY <3>3, <3>4, <3>5
  <2>3. i < n \/ i >= n
    OBVIOUS
  <2> QED BY <2>1, <2>2, <2>3, Zenon
<1> QED BY <1>3, <1>4, <1>5

LEMMA RemovedThinner ==
  ASSUME NEW S, NEW s \in Seq(S), NEW n \in 1..Len(s)
  PROVE  Thinner(Gwent!RemoveAt(s, n), s, n) /\ Thinner(Gwent!RemoveAt(s, n), s, 0)
<1> DEFINE u == Gwent!RemoveAt(s, n)
           o == [i \in 1..(Len(s) - 1) |-> IF i < n THEN i ELSE i + 1]
<1>1. /\ DOMAIN u = 1..(Len(s) - 1)
      /\ \A i \in 1..(Len(s) - 1) : u[i] = s[IF i < n THEN i ELSE i + 1]
  BY RemovedIs
<1> HIDE DEF u
<1>2. o \in [DOMAIN u -> DOMAIN s] /\ \A i, j \in DOMAIN u : o[i] = o[j] => i = j
  BY <1>1
<1>3. \A i \in DOMAIN u : o[i] # n /\ o[i] # 0 /\ u[i].id = s[o[i]].id
  BY <1>1
<1> HIDE DEF o
<1>4. Thinner(u, s, n) /\ Thinner(u, s, 0)
  BY <1>2, <1>3 DEF Thinner
<1> QED BY <1>4 DEF u

(* Firestorm's loop: the cards with health left, in their order.           *)
Steps(g, row) ==
  g = [k \in 0..Len(row) |->
         IF k = 0 THEN <<>>
         ELSE IF row[k].health = 0 THEN g[k-1] ELSE Append(g[k-1], row[k])]

LEMMA StepsExist == ASSUME NEW row, Len(row) \in Nat PROVE \E g : Steps(g, row)
<1> DEFINE V(g, k) == IF k = 0 THEN <<>>
                      ELSE IF row[k].health = 0 THEN g[k-1] ELSE Append(g[k-1], row[k])
           Upto(g, n) == \A k \in 0..Len(row) : k <= n => g[k] = V(g, k)
           T == {n \in Nat : \E g : DOMAIN g = 0..Len(row) /\ Upto(g, n)}
<1>1. 0 \in T
  <2> DEFINE g == [k \in 0..Len(row) |-> <<>>]
  <2>1. DOMAIN g = 0..Len(row) /\ Upto(g, 0)
    OBVIOUS
  <2> QED BY <2>1
<1>2. ASSUME NEW n \in Nat, n \in T PROVE n + 1 \in T
  <2>1. PICK g : DOMAIN g = 0..Len(row) /\ Upto(g, n)
    BY <1>2
  <2> DEFINE h == [k \in 0..Len(row) |-> IF k = n + 1 THEN V(g, k) ELSE g[k]]
  <2>2. ASSUME NEW k \in 0..Len(row), k <= n + 1 PROVE h[k] = V(h, k)
    <3>1. V(h, k) = V(g, k)
      <4>1. CASE k = 0
        BY <4>1
      <4>2. CASE k # 0
        <5>1. h[k-1] = g[k-1]
          BY <2>2, <4>2
        <5> QED BY <4>2, <5>1
      <4> QED BY <4>1, <4>2
    <3>2. h[k] = V(g, k)
      <4>1. CASE k = n + 1
        BY <4>1
      <4>2. CASE k # n + 1
        <5>1. k <= n /\ h[k] = g[k]
          BY <2>2, <4>2
        <5> QED BY <2>1, <5>1
      <4> QED BY <4>1, <4>2
    <3> QED BY <3>1, <3>2
  <2>3. DOMAIN h = 0..Len(row) /\ Upto(h, n + 1)
    BY <2>2
  <2> HIDE DEF h, Upto
  <2> QED BY <2>3
<1>3. Len(row) \in T
  <2> HIDE DEF T
  <2> QED BY <1>1, <1>2, SetInduction
<1>4. PICK g : DOMAIN g = 0..Len(row) /\ Upto(g, Len(row))
  BY <1>3
<1> DEFINE h == [k \in 0..Len(row) |-> g[k]]
<1>5. \A k \in 0..Len(row) : h[k] = V(h, k)
  <2> SUFFICES ASSUME NEW k \in 0..Len(row) PROVE h[k] = V(h, k)
    OBVIOUS
  <2>1. h[k] = V(g, k)
    BY <1>4
  <2>2. V(h, k) = V(g, k)
    <3>1. CASE k = 0
      BY <3>1
    <3>2. CASE k # 0
      <4>1. h[k-1] = g[k-1]
        BY <3>2
      <4> QED BY <3>2, <4>1
    <3> QED BY <3>1, <3>2
  <2> QED BY <2>1, <2>2
<1>6. Steps(h, row)
  <2>1. h = [k \in 0..Len(row) |-> h[k]]
    OBVIOUS
  <2> HIDE DEF h
  <2> QED BY <1>5, <2>1 DEF Steps
<1> QED BY <1>6

LEMMA LivingIs ==
  ASSUME NEW S, NEW row \in Seq(S)
  PROVE  /\ Gwent!Living(row) \in Seq(S)
         /\ \A i \in DOMAIN Gwent!Living(row) : \E j \in DOMAIN row :
              Gwent!Living(row)[i] = row[j] /\ row[j].health # 0
         /\ Thinner(Gwent!Living(row), row, 0)
<1> DEFINE g == CHOOSE g : Steps(g, row)
<1>1. Steps(g, row)
  BY StepsExist
<1>2. Gwent!Living(row) = g[Len(row)]
  BY DEF Gwent!Living, Steps
<1> HIDE DEF g
<1>3. \A k \in 0..Len(row) :
        g[k] = IF k = 0 THEN <<>>
               ELSE IF row[k].health = 0 THEN g[k-1] ELSE Append(g[k-1], row[k])
  BY <1>1 DEF Steps
<1> DEFINE From(k, o) ==
             /\ o \in [DOMAIN g[k] -> 1..k]
             /\ \A i \in DOMAIN g[k] : g[k][i] = row[o[i]] /\ row[o[i]].health # 0
             /\ \A i, j \in DOMAIN g[k] : o[i] = o[j] => i = j
           T == {k \in Nat : k <= Len(row) => g[k] \in Seq(S) /\ \E o : From(k, o)}
<1>4. 0 \in T
  <2>1. g[0] = <<>>
    BY <1>3
  <2>2. <<>> \in [DOMAIN g[0] -> 1..0] /\ DOMAIN g[0] = {}
    BY <2>1
  <2>3. From(0, <<>>)
    BY <2>2
  <2>4. g[0] \in Seq(S)
    BY <2>1
  <2> HIDE DEF From
  <2> QED BY <2>3, <2>4
<1>5. ASSUME NEW n \in Nat, n \in T, n + 1 <= Len(row)
      PROVE  g[n+1] \in Seq(S) /\ \E o : From(n+1, o)
  <2>1. PICK o : From(n, o)
    BY <1>5
  <2>2. g[n] \in Seq(S)
    BY <1>5
  <2>3. CASE row[n+1].health = 0
    <3>1. g[n+1] = g[n]
      BY <1>3, <1>5, <2>3
    <3>2. From(n+1, o)
      BY <2>1, <3>1
    <3> QED BY <2>2, <3>1, <3>2
  <2>4. CASE row[n+1].health # 0
    <3> DEFINE m == Len(g[n])
               q == [i \in 1..(m+1) |-> IF i = m+1 THEN n+1 ELSE o[i]]
    <3>1. g[n+1] = Append(g[n], row[n+1]) /\ row[n+1] \in S
      <4>1. n + 1 \in 0..Len(row) /\ n + 1 \in 1..Len(row) /\ n + 1 # 0 /\ (n + 1) - 1 = n
        BY <1>5
      <4>2. g[n+1] = Append(g[(n+1)-1], row[n+1])
        BY <1>3, <2>4, <4>1
      <4> QED BY <4>1, <4>2
    <3>2. /\ g[n+1] \in Seq(S) /\ DOMAIN g[n+1] = 1..(m+1) /\ g[n+1][m+1] = row[n+1]
          /\ \A i \in 1..m : g[n+1][i] = g[n][i]
          /\ DOMAIN g[n] = 1..m /\ m \in Nat
      BY <2>2, <3>1
    <3> HIDE DEF m
    <3>3. q \in [DOMAIN g[n+1] -> 1..(n+1)]
      BY <2>1, <3>2
    <3>4. ASSUME NEW i \in DOMAIN g[n+1] PROVE g[n+1][i] = row[q[i]] /\ row[q[i]].health # 0
      <4>1. CASE i = m + 1
        BY <2>4, <3>2, <4>1
      <4>2. CASE i # m + 1
        <5>1. i \in 1..m /\ q[i] = o[i]
          BY <3>2, <4>2
        <5> QED BY <2>1, <3>2, <5>1
      <4> QED BY <4>1, <4>2
    <3>5. \A i, j \in DOMAIN g[n+1] : q[i] = q[j] => i = j
      BY <2>1, <3>2
    <3> HIDE DEF q
    <3> QED BY <3>2, <3>3, <3>4, <3>5
  <2> QED BY <2>3, <2>4
<1>6. Len(row) \in T
  <2>1. ASSUME NEW n \in Nat, n \in T PROVE n + 1 \in T
    <3>1. n + 1 <= Len(row) => g[n+1] \in Seq(S) /\ \E o : From(n+1, o)
      BY <1>5, <2>1
    <3> HIDE DEF From
    <3> QED BY <3>1
  <2> HIDE DEF T
  <2> QED BY <1>4, <2>1, SetInduction
<1>7. PICK o : From(Len(row), o)
  BY <1>6
<1>8. Thinner(g[Len(row)], row, 0)
  BY <1>7 DEF Thinner
<1>9. \A i \in DOMAIN g[Len(row)] : \E j \in DOMAIN row :
        g[Len(row)][i] = row[j] /\ row[j].health # 0
  BY <1>7
<1> QED BY <1>2, <1>6, <1>8, <1>9
---------------------------------------------------------------------------
(* The invariant, in parts.                                                *)

Heroes == Gwent!AttackingHeroes \cup {"King Mudface", "General Kocioraw"}
Hero == [name : Heroes \cup {"none"}, mana : Nat, health : Int, attacked : BOOLEAN]
Lists == [Players -> Seq(GCard)]
Tables == [Rows -> Seq(GCard)]
GwentTypes ==
  /\ deck \in Lists /\ hand \in Lists /\ table \in [Rows -> Seq(GCard)]
  /\ turn \in Players /\ start \in Players /\ games \in Nat
  /\ hero \in [Players -> Hero] /\ \A p \in Players : games > 0 => hero[p].name \in Heroes

(* A card that is not yet on the table comes there alive.                  *)
Sturdy(c) == c.name \notin Gwent!Environment => c.health > 0
AllSturdy(d) == \A p \in Players : \A i \in DOMAIN d[p] : Sturdy(d[p][i])

GwentInv ==
  /\ GwentTypes /\ AllSturdy(deck) /\ AllSturdy(hand)
  /\ Gwent!NoDeadCard /\ Different(Cards(deck, hand, table))

LEMMA FreshIs ==
  ASSUME NEW c \in GCard
  PROVE  /\ Gwent!Fresh(c) \in GCard /\ Gwent!Fresh(c).id = c.id
         /\ Gwent!Fresh(c).name = c.name /\ Gwent!Fresh(c).health = c.health
         /\ ~Gwent!Fresh(c).frozen
BY DEF Gwent!Fresh, GCard, Gwent!Card

LEMMA TailIs ==
  ASSUME NEW S, NEW s \in Seq(S), s # <<>>
  PROVE  /\ Tail(s) \in Seq(S) /\ Head(s) = s[1] /\ s[1] \in S /\ 1 \in DOMAIN s
         /\ \A i \in DOMAIN Tail(s) : i + 1 \in DOMAIN s /\ Tail(s)[i] = s[i+1]
         /\ Thinner(Tail(s), s, 1)
<1>1. /\ Tail(s) \in Seq(S) /\ Head(s) = s[1] /\ s[1] \in S /\ 1 \in DOMAIN s
      /\ \A i \in DOMAIN Tail(s) : i \in Nat \ {0} /\ i + 1 \in DOMAIN s /\ Tail(s)[i] = s[i+1]
  OBVIOUS
<1> DEFINE o == [i \in DOMAIN Tail(s) |-> i + 1]
<1>2. o \in [DOMAIN Tail(s) -> DOMAIN s]
  BY <1>1
<1>3. \A i \in DOMAIN Tail(s) : o[i] # 1 /\ Tail(s)[i].id = s[o[i]].id
  BY <1>1
<1>4. \A i, j \in DOMAIN Tail(s) : o[i] = o[j] => i = j
  BY <1>1
<1> HIDE DEF o
<1> QED BY <1>1, <1>2, <1>3, <1>4 DEF Thinner

(* takeCard: the first card of a deck goes to the end of the hand.         *)
LEMMA OneDraws ==
  ASSUME NEW d \in Lists, NEW h \in Lists, NEW t, Different(Cards(d, h, t)),
         AllSturdy(d), AllSturdy(h), NEW p \in Players, NEW d2, NEW h2,
         d2 = [d EXCEPT ![p] = Gwent!TakeCard(d[p], h[p])[1]],
         h2 = [h EXCEPT ![p] = Gwent!TakeCard(d[p], h[p])[2]]
  PROVE  d2 \in Lists /\ h2 \in Lists /\ AllSturdy(d2) /\ AllSturdy(h2)
         /\ Different(Cards(d2, h2, t))
<1>1. CASE d[p] = <<>>
  <2>1. d2 = d /\ h2 = h
    BY <1>1 DEF Gwent!TakeCard, Lists
  <2> QED BY <2>1
<1>2. CASE d[p] # <<>>
  <2> DEFINE c == Gwent!Fresh(Head(d[p]))
             n == Len(h[p])
  <2>1. d[p] \in Seq(GCard) /\ h[p] \in Seq(GCard)
    BY DEF Lists
  <2>2. /\ d2 = [d EXCEPT ![p] = Tail(d[p])] /\ h2 = [h EXCEPT ![p] = Append(h[p], c)]
        /\ d2[p] = Tail(d[p]) /\ h2[p] = Append(h[p], c)
        /\ \A q \in Players \ {p} : d2[q] = d[q] /\ h2[q] = h[q]
    BY <1>2 DEF Gwent!TakeCard, Lists
  <2>3. /\ Head(d[p]) = d[p][1] /\ d[p][1] \in GCard /\ 1 \in DOMAIN d[p]
        /\ Tail(d[p]) \in Seq(GCard) /\ Thinner(Tail(d[p]), d[p], 1)
        /\ \A i \in DOMAIN Tail(d[p]) : i + 1 \in DOMAIN d[p] /\ Tail(d[p])[i] = d[p][i+1]
    BY <1>2, <2>1, TailIs
  <2>4. c \in GCard /\ c.id = d[p][1].id /\ c.name = d[p][1].name /\ c.health = d[p][1].health
    BY <2>3, FreshIs
  <2>5. Sturdy(c)
    BY <2>3, <2>4 DEF AllSturdy, Sturdy
  <2> HIDE DEF c
  <2>6. /\ Append(h[p], c) \in Seq(GCard) /\ n \in Nat /\ DOMAIN h[p] = 1..n
        /\ DOMAIN Append(h[p], c) = 1..(n + 1) /\ Append(h[p], c)[n + 1] = c
        /\ \A i \in 1..n : Append(h[p], c)[i] = h[p][i]
    BY <2>1, <2>4, AppendedIs
  <2> HIDE DEF n
  <2>7. d2 \in Lists /\ h2 \in Lists
    <3>1. d2 \in Lists
      BY <2>2, <2>3 DEF Lists
    <3>2. h2 \in Lists
      BY <2>2, <2>6 DEF Lists
    <3> QED BY <3>1, <3>2
  <2>8. AllSturdy(d2)
    <3>1. ASSUME NEW i \in DOMAIN Tail(d[p]) PROVE Sturdy(Tail(d[p])[i])
      <4>1. i + 1 \in DOMAIN d[p] /\ Tail(d[p])[i] = d[p][i+1]
        BY <2>3
      <4> QED BY <4>1 DEF AllSturdy
    <3>2. \A q \in Players \ {p} : \A i \in DOMAIN d2[q] : Sturdy(d2[q][i])
      BY <2>2 DEF AllSturdy
    <3> QED BY <2>2, <3>1, <3>2 DEF AllSturdy
  <2>9. AllSturdy(h2)
    <3>1. \A i \in DOMAIN h2[p] : i \in 1..n \/ i = n + 1
      BY <2>2, <2>6
    <3>2. \A i \in DOMAIN h2[p] : Sturdy(h2[p][i])
      BY <2>2, <2>5, <2>6, <3>1 DEF AllSturdy
    <3> QED BY <2>2, <3>2 DEF AllSturdy
  <2>10. Different(Cards(d2, h2, t))
    <3> DEFINE C == Cards(d, h, t)
               E == Cards(d2, h2, t)
               x == <<p, "deck">>
               y == <<p, "hand">>
    <3>a. /\ \A q \in Players : /\ C[<<q, "deck">>] = d[q] /\ C[<<q, "hand">>] = h[q]
                                /\ E[<<q, "deck">>] = d2[q] /\ E[<<q, "hand">>] = h2[q]
          /\ \A r \in Rows : C[<<r, "row">>] = t[r] /\ E[<<r, "row">>] = t[r]
      <4>1. \A q \in Players : C[<<q, "deck">>] = d[q] /\ C[<<q, "hand">>] = h[q]
        BY DEF Cards, PlaceNames
      <4>2. \A q \in Players : E[<<q, "deck">>] = d2[q] /\ E[<<q, "hand">>] = h2[q]
        BY DEF Cards, PlaceNames
      <4>3. \A r \in Rows : C[<<r, "row">>] = t[r] /\ E[<<r, "row">>] = t[r]
        BY DEF Cards, PlaceNames
      <4> HIDE DEF C, E
      <4> QED BY <4>1, <4>2, <4>3
    <3>b. x \in PlaceNames /\ y \in PlaceNames /\ x # y
      BY CardsAre
    <3>5. Different(C)
      OBVIOUS
    <3> HIDE DEF C, E
    <3>1. C[x] = d[p] /\ C[y] = h[p] /\ E[x] = Tail(d[p]) /\ E[y] = Append(h[p], c)
      BY <2>2, <3>a
    <3>2. ASSUME NEW z \in PlaceNames \ {x, y} PROVE E[z] = C[z]
      <4>1. CASE \E r \in Rows : z = <<r, "row">>
        BY <4>1, <3>a
      <4>2. CASE \E q \in Players : z = <<q, "deck">> \/ z = <<q, "hand">>
        <5>1. PICK q \in Players : z = <<q, "deck">> \/ z = <<q, "hand">>
          BY <4>2
        <5>2. q # p
          BY <3>2, <5>1
        <5>3. d2[q] = d[q] /\ h2[q] = h[q]
          BY <2>2, <5>2
        <5> QED BY <3>a, <5>1, <5>3
      <4> QED BY <4>1, <4>2, CardsAre
    <3>3. 1 \in DOMAIN C[x] /\ c.id = C[x][1].id /\ Thinner(E[x], C[x], 1)
      BY <2>3, <2>4, <3>1
    <3>4. C[y] \in Seq(GCard) /\ E[y] = Append(C[y], c)
      BY <2>1, <3>1
    <3> HIDE DEF x, y
    <3>6. Different(E)
      BY <2>4, <3>b, <3>2, <3>3, <3>4, <3>5, MovedDiffer
    <3> QED BY <3>6 DEF E
  <2> QED BY <2>7, <2>8, <2>9, <2>10
<1> QED BY <1>1, <1>2

(* Both players draw, at the end of a round and at the start of a game.    *)
LEMMA BothDraw ==
  ASSUME NEW d \in Lists, NEW h \in Lists, NEW t, Different(Cards(d, h, t)),
         AllSturdy(d), AllSturdy(h), NEW d3, NEW h3,
         d3 = [p \in Players |-> Gwent!TakeCard(d[p], h[p])[1]],
         h3 = [p \in Players |-> Gwent!TakeCard(d[p], h[p])[2]]
  PROVE  d3 \in Lists /\ h3 \in Lists /\ AllSturdy(d3) /\ AllSturdy(h3)
         /\ Different(Cards(d3, h3, t))
<1> DEFINE d2 == [d EXCEPT ![1] = Gwent!TakeCard(d[1], h[1])[1]]
           h2 == [h EXCEPT ![1] = Gwent!TakeCard(d[1], h[1])[2]]
<1>1. d2 \in Lists /\ h2 \in Lists /\ AllSturdy(d2) /\ AllSturdy(h2)
      /\ Different(Cards(d2, h2, t))
  <2> HIDE DEF Lists
  <2> QED BY OneDraws DEF Players
<1>2. d2[2] = d[2] /\ h2[2] = h[2]
  BY DEF Lists, Players
<1>3. d3 = [d2 EXCEPT ![2] = Gwent!TakeCard(d[2], h[2])[1]]
  BY DEF Lists, Players
<1>4. h3 = [h2 EXCEPT ![2] = Gwent!TakeCard(d[2], h[2])[2]]
  BY DEF Lists, Players
<1> HIDE DEF d2, h2
<1>5. 2 \in Players
  BY DEF Players
<1>6. /\ d3 = [d2 EXCEPT ![2] = Gwent!TakeCard(d2[2], h2[2])[1]]
      /\ h3 = [h2 EXCEPT ![2] = Gwent!TakeCard(d2[2], h2[2])[2]]
  BY <1>2, <1>3, <1>4
<1>7. ASSUME NEW q \in Players,
             d3 = [d2 EXCEPT ![q] = Gwent!TakeCard(d2[q], h2[q])[1]],
             h3 = [h2 EXCEPT ![q] = Gwent!TakeCard(d2[q], h2[q])[2]]
      PROVE  d3 \in Lists /\ h3 \in Lists /\ AllSturdy(d3) /\ AllSturdy(h3)
             /\ Different(Cards(d3, h3, t))
  BY <1>1, <1>7, OneDraws
<1> QED BY <1>5, <1>6, <1>7
---------------------------------------------------------------------------
(* Changes of rows and hands.                                              *)

LEMMA RowsDiffer ==
  ASSUME NEW d, NEW h, NEW t, Different(Cards(d, h, t))
  PROVE  /\ \A r, q \in Rows : \A i \in DOMAIN t[r], j \in DOMAIN t[q] :
              t[r][i].id = t[q][j].id => r = q /\ i = j
         /\ \A r \in Rows, p \in Players : \A i \in DOMAIN t[r], j \in DOMAIN h[p] :
              t[r][i].id # h[p][j].id
<1> DEFINE C == Cards(d, h, t)
<1>1. /\ \A r \in Rows : C[<<r, "row">>] = t[r] /\ <<r, "row">> \in PlaceNames
      /\ \A p \in Players : C[<<p, "hand">>] = h[p] /\ <<p, "hand">> \in PlaceNames
  BY DEF Cards, PlaceNames
<1>2. Different(C)
  OBVIOUS
<1> HIDE DEF C
<1>3. ASSUME NEW r \in Rows, NEW q \in Rows, NEW i \in DOMAIN t[r], NEW j \in DOMAIN t[q],
             t[r][i].id = t[q][j].id
      PROVE  r = q /\ i = j
  <2> DEFINE x == <<r, "row">>
             y == <<q, "row">>
  <2>1. x \in PlaceNames /\ y \in PlaceNames /\ C[x] = t[r] /\ C[y] = t[q]
    BY <1>1
  <2>2. x = y => r = q
    OBVIOUS
  <2> HIDE DEF x, y
  <2> QED BY <1>2, <1>3, <2>1, <2>2 DEF Different
<1>4. ASSUME NEW r \in Rows, NEW p \in Players, NEW i \in DOMAIN t[r], NEW j \in DOMAIN h[p],
             t[r][i].id = h[p][j].id
      PROVE  FALSE
  <2> DEFINE x == <<r, "row">>
             y == <<p, "hand">>
  <2>1. x \in PlaceNames /\ y \in PlaceNames /\ C[x] = t[r] /\ C[y] = h[p]
    BY <1>1
  <2>2. x # y
    OBVIOUS
  <2> HIDE DEF x, y
  <2> QED BY <1>2, <1>4, <2>1, <2>2 DEF Different
<1> QED BY <1>3, <1>4

LEMMA ListsThinned ==
  ASSUME NEW d \in Lists, NEW h, NEW t, NEW h2, NEW t2, Different(Cards(d, h, t)),
         \A p \in Players : Thinner(h2[p], h[p], 0), \A r \in Rows : Thinner(t2[r], t[r], 0)
  PROVE  Different(Cards(d, h2, t2))
<1> DEFINE C == Cards(d, h, t)
           E == Cards(d, h2, t2)
<1>1. \A p \in Players : Thinner(d[p], d[p], 0)
  <2> SUFFICES ASSUME NEW p \in Players PROVE Thinner(d[p], d[p], 0)
    OBVIOUS
  <2>1. 0 \notin DOMAIN d[p]
    BY DEF Lists
  <2> QED BY <2>1, ThinnerSame
<1>2. ASSUME NEW x \in PlaceNames PROVE Thinner(E[x], C[x], 0)
  <2>1. CASE \E r \in Rows : x = <<r, "row">>
    BY <2>1 DEF Cards, PlaceNames
  <2>2. CASE \E p \in Players : x = <<p, "deck">>
    BY <1>1, <2>2 DEF Cards, PlaceNames
  <2>3. CASE \E p \in Players : x = <<p, "hand">>
    BY <2>3 DEF Cards, PlaceNames
  <2> QED BY <2>1, <2>2, <2>3 DEF PlaceNames
<1>3. Different(C)
  OBVIOUS
<1> HIDE DEF C, E
<1>4. Different(E)
  BY <1>2, <1>3, ThinnedDiffer
<1> QED BY <1>4 DEF E

LEMMA SameRow == ASSUME NEW S, NEW s \in Seq(S) PROVE Thinner(s, s, 0)
<1>1. 0 \notin DOMAIN s
  OBVIOUS
<1> QED BY <1>1, ThinnerSame

(* A card of a row goes to the end of this row or of another.              *)
RowMoved(t, r, i, q) ==
  LET left == [t EXCEPT ![r] = Gwent!RemoveAt(t[r], i)]
  IN  [left EXCEPT ![q] = Append(left[q], t[r][i])]
SameCards(t2, t) ==
  \A w \in Rows : \A j \in DOMAIN t2[w] :
    \E v \in Rows : \E k \in DOMAIN t[v] : t2[w][j] = t[v][k]
LEMMA RowToRow ==
  ASSUME NEW d \in Lists, NEW h \in Lists, NEW t \in Tables,
         Different(Cards(d, h, t)), NEW r \in Rows, NEW q \in Rows, NEW i \in DOMAIN t[r],
         NEW t2, t2 = RowMoved(t, r, i, q)
  PROVE  t2 \in Tables /\ Different(Cards(d, h, t2)) /\ SameCards(t2, t)
<1> DEFINE u == Gwent!RemoveAt(t[r], i)
           c == t[r][i]
           left == [t EXCEPT ![r] = u]
<1>0. t2 = [left EXCEPT ![q] = Append(left[q], c)]
  BY DEF RowMoved
<1>1. t[r] \in Seq(GCard) /\ t[q] \in Seq(GCard) /\ i \in 1..Len(t[r]) /\ c \in GCard
  BY DEF Tables
<1>2. /\ u \in Seq(GCard) /\ Thinner(u, t[r], i)
      /\ \A j \in DOMAIN u : \E k \in DOMAIN t[r] : u[j] = t[r][k]
  <2>1. /\ DOMAIN u = 1..(Len(t[r]) - 1) /\ u \in Seq(GCard)
        /\ \A j \in 1..(Len(t[r]) - 1) : u[j] = t[r][IF j < i THEN j ELSE j + 1]
    BY <1>1, RemovedIs
  <2>2. ASSUME NEW j \in DOMAIN u PROVE \E k \in DOMAIN t[r] : u[j] = t[r][k]
    <3> DEFINE k == IF j < i THEN j ELSE j + 1
    <3>1. k \in DOMAIN t[r]
      BY <1>1, <2>1
    <3>2. u[j] = t[r][k]
      BY <2>1
    <3> HIDE DEF k, u
    <3> QED BY <3>1, <3>2
  <2> QED BY <1>1, <2>1, <2>2, RemovedThinner
<1>3. left \in [Rows -> Seq(GCard)] /\ left[r] = u /\ \A w \in Rows \ {r} : left[w] = t[w]
  BY <1>2 DEF Tables
<1> HIDE DEF u, left
<1>4. t2 \in [Rows -> Seq(GCard)] /\ t2[q] = Append(left[q], c)
      /\ \A w \in Rows \ {q} : t2[w] = left[w]
  <2>1. Append(left[q], c) \in Seq(GCard)
    BY <1>1, <1>3
  <2> QED BY <1>0, <1>3, <2>1
<1>5. \A w \in Rows : \A j \in DOMAIN left[w] :
        \E v \in Rows : \E k \in DOMAIN t[v] : left[w][j] = t[v][k]
  BY <1>2, <1>3
<1>6. ASSUME NEW w \in Rows, NEW j \in DOMAIN t2[w]
      PROVE  \E v \in Rows : \E k \in DOMAIN t[v] : t2[w][j] = t[v][k]
  <2>1. CASE w # q
    <3>1. t2[w] = left[w]
      BY <1>4, <2>1
    <3> QED BY <1>5, <3>1
  <2>2. CASE w = q
    <3>1. left[q] \in Seq(GCard)
      BY <1>3
    <3>2. j \in 1..Len(left[q]) \/ j = Len(left[q]) + 1
      BY <1>1, <1>4, <2>2, <3>1, AppendedIs
    <3>3. CASE j \in 1..Len(left[q])
      <4>1. t2[w][j] = left[q][j] /\ j \in DOMAIN left[q]
        BY <1>1, <1>4, <2>2, <3>1, <3>3, AppendedIs
      <4> QED BY <1>5, <4>1
    <3>4. CASE j = Len(left[q]) + 1
      <4>1. t2[w][j] = t[r][i]
        BY <1>1, <1>4, <2>2, <3>1, <3>4, AppendedIs
      <4> QED BY <4>1
    <3> QED BY <3>2, <3>3, <3>4
  <2> QED BY <2>1, <2>2
<1>7. CASE q = r
  <2>1. t2[r] = Append(u, c)
    BY <1>3, <1>4, <1>7
  <2>2. Thinner(t2[r], t[r], 0)
    <3>1. PICK o \in [DOMAIN u -> DOMAIN t[r]] :
            /\ \A k \in DOMAIN u : o[k] # i /\ u[k].id = t[r][o[k]].id
            /\ \A k, l \in DOMAIN u : o[k] = o[l] => k = l
      BY <1>2 DEF Thinner
    <3> DEFINE m == Len(u)
               p == [k \in 1..(m+1) |-> IF k = m+1 THEN i ELSE o[k]]
    <3> HIDE DEF c
    <3>2. /\ m \in Nat /\ DOMAIN u = 1..m /\ DOMAIN t2[r] = 1..(m+1) /\ t2[r][m+1] = c
          /\ \A k \in 1..m : t2[r][k] = u[k]
      <4>1. u \in Seq(GCard) /\ c \in GCard
        BY <1>1, <1>2
      <4>2. /\ Len(u) \in Nat /\ DOMAIN u = 1..Len(u)
            /\ DOMAIN Append(u, c) = 1..(Len(u) + 1) /\ Append(u, c)[Len(u) + 1] = c
            /\ \A k \in 1..Len(u) : Append(u, c)[k] = u[k]
        BY <4>1, AppendedIs
      <4> QED BY <2>1, <4>2
    <3> HIDE DEF m, u
    <3>3. p \in [DOMAIN t2[r] -> DOMAIN t[r]]
      BY <3>1, <3>2
    <3>4. \A k, l \in DOMAIN t2[r] : p[k] = p[l] => k = l
      BY <3>1, <3>2
    <3>5. ASSUME NEW k \in DOMAIN t2[r] PROVE p[k] # 0 /\ t2[r][k].id = t[r][p[k]].id
      <4>1. p[k] # 0
        <5> HIDE DEF p
        <5>1. p[k] \in DOMAIN t[r]
          BY <3>3
        <5>2. 0 \notin DOMAIN t[r]
          BY <1>1
        <5> QED BY <5>1, <5>2
      <4>2. CASE k = m + 1
        BY <3>2, <4>1, <4>2 DEF c
      <4>3. CASE k # m + 1
        <5>1. k \in 1..m /\ p[k] = o[k] /\ t2[r][k] = u[k]
          BY <3>2, <4>3
        <5> QED BY <3>1, <3>2, <4>1, <5>1
      <4> QED BY <4>1, <4>2, <4>3
    <3> HIDE DEF p
    <3> QED BY <3>3, <3>4, <3>5 DEF Thinner
  <2>3. ASSUME NEW w \in Rows PROVE Thinner(t2[w], t[w], 0)
    <3>1. CASE w = r
      BY <2>2, <3>1
    <3>2. CASE w # r
      BY <1>3, <1>4, <1>7, <3>2, SameRow DEF Tables
    <3> QED BY <3>1, <3>2
  <2>4. \A p \in Players : Thinner(h[p], h[p], 0)
    BY SameRow DEF Lists
  <2>5. Different(Cards(d, h, t2))
    BY <2>3, <2>4, ListsThinned
  <2> QED BY <1>4, <1>6, <2>5 DEF Tables, SameCards
<1>8. CASE q # r
  <2> DEFINE C == Cards(d, h, t)
             E == Cards(d, h, t2)
             x == <<r, "row">>
             y == <<q, "row">>
  <2>1. x \in PlaceNames /\ y \in PlaceNames /\ x # y
    BY <1>8 DEF PlaceNames
  <2>2. C[x] = t[r] /\ C[y] = t[q] /\ E[x] = t2[r] /\ E[y] = t2[q]
    BY DEF Cards, PlaceNames
  <2>3. t2[r] = u /\ t2[q] = Append(t[q], c)
    BY <1>3, <1>4, <1>8
  <2>4. ASSUME NEW z \in PlaceNames \ {x, y} PROVE E[z] = C[z]
    <3>1. CASE \E w \in Rows : z = <<w, "row">>
      <4>1. PICK w \in Rows : z = <<w, "row">>
        BY <3>1
      <4>2. w # r /\ w # q
        BY <2>4, <4>1
      <4>3. t2[w] = t[w]
        BY <1>3, <1>4, <4>2
      <4>4. E[z] = t2[w] /\ C[z] = t[w]
        BY <4>1 DEF Cards, PlaceNames
      <4> QED BY <4>3, <4>4
    <3>2. CASE \E p \in Players : z = <<p, "deck">> \/ z = <<p, "hand">>
      BY <3>2 DEF Cards, PlaceNames
    <3> QED BY <3>1, <3>2 DEF PlaceNames
  <2>5. Different(C)
    OBVIOUS
  <2>7. /\ i \in DOMAIN C[x] /\ c.id = C[x][i].id /\ Thinner(E[x], C[x], i)
        /\ C[y] \in Seq(GCard) /\ E[y] = Append(C[y], c)
    <3> HIDE DEF C, E, x, y
    <3> QED BY <1>1, <1>2, <2>2, <2>3
  <2> HIDE DEF C, E, x, y, c
  <2>6. Different(E)
    BY <1>1, <2>1, <2>4, <2>5, <2>7, MovedDiffer
  <2> QED BY <1>4, <1>6, <2>6 DEF E, Tables, SameCards
<1> QED BY <1>7, <1>8

(* A card goes from a hand to the end of a row.                            *)
LEMMA HandToRow ==
  ASSUME NEW d \in Lists, NEW h \in Lists, NEW t \in [Rows -> Seq(GCard)],
         Different(Cards(d, h, t)), NEW p \in Players, NEW r \in Rows, NEW i \in DOMAIN h[p],
         NEW c \in GCard, c.id = h[p][i].id, NEW h2, NEW t2,
         h2 = [h EXCEPT ![p] = Gwent!RemoveAt(h[p], i)], t2 = [t EXCEPT ![r] = Append(t[r], c)]
  PROVE  Different(Cards(d, h2, t2))
<1>1. h[p] \in Seq(GCard) /\ t[r] \in Seq(GCard) /\ i \in 1..Len(h[p])
  BY DEF Lists
<1>2. Thinner(Gwent!RemoveAt(h[p], i), h[p], i)
  BY <1>1, RemovedThinner
<1> DEFINE C == Cards(d, h, t)
           E == Cards(d, h2, t2)
           x == <<p, "hand">>
           y == <<r, "row">>
<1>3. x \in PlaceNames /\ y \in PlaceNames /\ x # y
  BY DEF PlaceNames
<1>4. C[x] = h[p] /\ C[y] = t[r] /\ E[x] = h2[p] /\ E[y] = t2[r]
  BY DEF Cards, PlaceNames
<1>5. h2[p] = Gwent!RemoveAt(h[p], i) /\ t2[r] = Append(t[r], c)
      /\ (\A q \in Players \ {p} : h2[q] = h[q]) /\ (\A w \in Rows \ {r} : t2[w] = t[w])
  BY DEF Lists
<1>6. ASSUME NEW z \in PlaceNames \ {x, y} PROVE E[z] = C[z]
  <2>1. CASE \E w \in Rows : z = <<w, "row">>
    <3>1. PICK w \in Rows : z = <<w, "row">>
      BY <2>1
    <3>2. w # r
      BY <1>6, <3>1
    <3>3. E[z] = t2[w] /\ C[z] = t[w]
      BY <3>1 DEF Cards, PlaceNames
    <3> QED BY <1>5, <3>2, <3>3
  <2>2. CASE \E q \in Players : z = <<q, "hand">>
    <3>1. PICK q \in Players : z = <<q, "hand">>
      BY <2>2
    <3>2. q # p
      BY <1>6, <3>1
    <3>3. E[z] = h2[q] /\ C[z] = h[q]
      BY <3>1 DEF Cards, PlaceNames
    <3> QED BY <1>5, <3>2, <3>3
  <2>3. CASE \E q \in Players : z = <<q, "deck">>
    BY <2>3 DEF Cards, PlaceNames
  <2> QED BY <2>1, <2>2, <2>3 DEF PlaceNames
<1>7. Different(C)
  OBVIOUS
<1> HIDE DEF C, E, x, y
<1>9. /\ i \in DOMAIN C[x] /\ c.id = C[x][i].id /\ Thinner(E[x], C[x], i)
      /\ C[y] \in Seq(GCard) /\ E[y] = Append(C[y], c)
  BY <1>1, <1>2, <1>4, <1>5
<1>8. Different(E)
  BY <1>3, <1>6, <1>7, <1>9, MovedDiffer
<1> QED BY <1>8 DEF E
---------------------------------------------------------------------------
(* The checks, and the choice of a card.                                   *)

(* When no error is printed, none of the checks held.                      *)
LEMMA NoError ==
  ASSUME NEW checks, Len(checks) \in Nat, Gwent!FirstError(checks) = "none",
         \A i \in 1..Len(checks) : checks[i][2] # "none"
  PROVE  \A i \in 1..Len(checks) : ~checks[i][1]
<1> DEFINE I == {i \in 1..Len(checks) : checks[i][1]}
<1>1. Gwent!SelectInSeq(checks, LAMBDA c : c[1]) = IF I # {} THEN Gwent!Min(I) ELSE 0
  BY DEF Gwent!SelectInSeq
<1>2. CASE I # {}
  <2>0. I \subseteq Nat
    OBVIOUS
  <2>1. \E x \in I : \A y \in I : x <= y
    <3> HIDE DEF I
    <3> QED BY <1>2, <2>0, LeastElement
  <2>2. Gwent!Min(I) \in I
    BY <2>1 DEF Gwent!Min
  <2>3. Gwent!Min(I) # 0 /\ checks[Gwent!Min(I)][2] # "none"
    BY <2>2
  <2> QED BY <1>1, <1>2, <2>3 DEF Gwent!FirstError
<1> QED BY <1>2

LEMMA FirstMostIs ==
  ASSUME NEW row, Len(row) \in Nat, DOMAIN row = 1..Len(row), row # <<>>, Len(row) # 0,
         NEW field, \A j \in DOMAIN row : row[j][field] \in Int
  PROVE  Gwent!FirstMost(row, field) \in DOMAIN row
<1> DEFINE Beats(i, j) == \/ row[j][field] < row[i][field]
                          \/ row[j][field] = row[i][field] /\ i <= j
           T == {n \in Nat : n <= Len(row) =>
                   n = 0 \/ \E i \in 1..n : \A j \in 1..n : Beats(i, j)}
<1>1. 0 \in T
  OBVIOUS
<1>2. ASSUME NEW n \in Nat, n \in T, n + 1 <= Len(row)
      PROVE  \E i \in 1..(n+1) : \A j \in 1..(n+1) : Beats(i, j)
  <2>1. \A j \in 1..(n+1) : j \in DOMAIN row /\ row[j][field] \in Int /\ j \in Int
    BY <1>2
  <2>2. CASE n = 0
    <3>1. \A j \in 1..(n+1) : j = n + 1
      BY <2>2
    <3>2. Beats(n+1, n+1) /\ n + 1 \in 1..(n+1)
      BY <2>1
    <3> HIDE DEF Beats
    <3> QED BY <3>1, <3>2
  <2>3. CASE n # 0
    <3>1. PICK i \in 1..n : \A j \in 1..n : Beats(i, j)
      BY <1>2, <2>3
    <3>2. \A j \in 1..(n+1) : j \in 1..n \/ j = n + 1
      OBVIOUS
    <3>3. CASE row[i][field] < row[n+1][field]
      <4>1. \A j \in 1..n : Beats(n+1, j)
        BY <2>1, <3>1, <3>3
      <4>2. Beats(n+1, n+1) /\ n + 1 \in 1..(n+1)
        BY <2>1
      <4> HIDE DEF Beats
      <4> QED BY <3>2, <4>1, <4>2
    <3>4. CASE ~(row[i][field] < row[n+1][field])
      <4>1. Beats(i, n+1) /\ i \in 1..(n+1)
        BY <2>1, <3>4
      <4> HIDE DEF Beats
      <4> QED BY <3>1, <3>2, <4>1
    <3> QED BY <3>3, <3>4
  <2> QED BY <2>2, <2>3
<1>3. Len(row) \in T
  <2>1. ASSUME NEW n \in Nat, n \in T PROVE n + 1 \in T
    <3>1. n + 1 <= Len(row) => \E i \in 1..(n+1) : \A j \in 1..(n+1) : Beats(i, j)
      BY <1>2, <2>1
    <3> HIDE DEF Beats
    <3> QED BY <3>1
  <2> HIDE DEF T
  <2> QED BY <1>1, <2>1, SetInduction
<1>4. \E i \in DOMAIN row : \A j \in DOMAIN row : Beats(i, j)
  BY <1>3
<1> QED BY <1>4 DEF Gwent!FirstMost

LEMMA RemovedFrom ==
  ASSUME NEW S, NEW s \in Seq(S), NEW n \in 1..Len(s)
  PROVE  \A j \in DOMAIN Gwent!RemoveAt(s, n) :
           \E k \in DOMAIN s : k # n /\ Gwent!RemoveAt(s, n)[j] = s[k]
<1> DEFINE u == Gwent!RemoveAt(s, n)
<1>1. /\ DOMAIN u = 1..(Len(s) - 1)
      /\ \A j \in 1..(Len(s) - 1) : u[j] = s[IF j < n THEN j ELSE j + 1]
  BY RemovedIs
<1> HIDE DEF u
<1>2. ASSUME NEW j \in DOMAIN u PROVE \E k \in DOMAIN s : k # n /\ u[j] = s[k]
  <2> DEFINE k == IF j < n THEN j ELSE j + 1
  <2>1. k \in DOMAIN s /\ k # n
    BY <1>1
  <2>2. u[j] = s[k]
    BY <1>1
  <2> HIDE DEF k
  <2> QED BY <2>1, <2>2
<1> QED BY <1>2 DEF u

LEMMA ThinnerTwice ==
  ASSUME NEW s, NEW u, NEW c, Thinner(u, s, 0), DOMAIN s = DOMAIN c,
         0 \notin DOMAIN c, \A i \in DOMAIN s : s[i].id = c[i].id
  PROVE  Thinner(u, c, 0)
BY DEF Thinner
---------------------------------------------------------------------------
(* Steps that leave decks and hands in order: what is on the table stays   *)
(* under its id, lives, and keeps its ice.                                 *)

Gentle(c, e) == c.id = e.id /\ (c.frozen => e.frozen /\ e.attacked = c.attacked)

(* FrozenStays, position by position.                                      *)
LEMMA IceStays ==
  ASSUME \A r, q \in Rows : \A i \in DOMAIN table[r], j \in DOMAIN table'[q] :
           table[r][i].frozen /\ table'[q][j].id = table[r][i].id =>
             \/ table'[q][j].frozen /\ table'[q][j].attacked = table[r][i].attacked
             \/ endTurn' # endTurn /\ r \in Gwent!OwnRows(turn) /\ q = r
  PROVE  Gwent!FrozenStays
<1> SUFFICES ASSUME NEW r \in Rows, NEW c \in Gwent!CardsNow(r), c.frozen,
                    NEW q \in Rows, NEW e \in Gwent!Range(table'[q]), e.id = c.id
             PROVE  \/ e.frozen /\ e.attacked = c.attacked
                    \/ endTurn' # endTurn /\ r \in Gwent!OwnRows(turn) /\ q = r
  BY DEF Gwent!FrozenStays, Gwent!Rows, Rows
<1>1. PICK i \in DOMAIN table[r] : c = table[r][i]
  BY DEF Gwent!CardsNow, Gwent!Range
<1>2. PICK j \in DOMAIN table'[q] : e = table'[q][j]
  BY DEF Gwent!Range
<1> QED BY <1>1, <1>2

LEMMA StaysFrozen ==
  ASSUME GwentInv, table' \in [Rows -> Seq(GCard)],
         \A q \in Rows : \A j \in DOMAIN table'[q] :
           \/ \E r \in Rows : \E i \in DOMAIN table[r] : Gentle(table[r][i], table'[q][j])
           \/ \E p \in Players : \E k \in DOMAIN hand[p] : hand[p][k].id = table'[q][j].id
  PROVE  Gwent!FrozenStays
<1> SUFFICES ASSUME NEW r \in Rows, NEW i \in DOMAIN table[r], table[r][i].frozen,
                    NEW q \in Rows, NEW j \in DOMAIN table'[q], table'[q][j].id = table[r][i].id
             PROVE  table'[q][j].frozen /\ table'[q][j].attacked = table[r][i].attacked
  BY IceStays
<1>1. /\ \A w, v \in Rows : \A k \in DOMAIN table[w], l \in DOMAIN table[v] :
           table[w][k].id = table[v][l].id => w = v /\ k = l
      /\ \A w \in Rows, p \in Players : \A k \in DOMAIN table[w], l \in DOMAIN hand[p] :
           table[w][k].id # hand[p][l].id
  BY RowsDiffer DEF GwentInv
<1>2. PICK w \in Rows : \E k \in DOMAIN table[w] : Gentle(table[w][k], table'[q][j])
  BY <1>1
<1>3. PICK k \in DOMAIN table[w] : Gentle(table[w][k], table'[q][j])
  BY <1>2
<1>4. w = r /\ k = i
  BY <1>1, <1>3 DEF Gentle
<1> QED BY <1>3, <1>4 DEF Gentle

HeroesKept == hero' \in [Players -> Hero] /\ \A p \in Players : hero'[p].name = hero[p].name
HandsKept ==
  /\ hand' \in Lists /\ AllSturdy(hand') /\ \A p \in Players : Thinner(hand'[p], hand[p], 0)

LEMMA RowsChange ==
  ASSUME GwentInv, table' \in [Rows -> Seq(GCard)],
         \A r \in Rows : Thinner(table'[r], table[r], 0),
         \A r \in Rows : \A j \in DOMAIN table'[r] :
           /\ table'[r][j].health > 0
           /\ \E i \in DOMAIN table[r] : Gentle(table[r][i], table'[r][j]),
         deck' = deck, HandsKept, HeroesKept, turn' \in Players, start' = start, games' = games
  PROVE  GwentInv' /\ Gwent!FrozenStays
<1>1. Gwent!FrozenStays
  BY StaysFrozen
<1>2. Different(Cards(deck, hand', table'))
  BY ListsThinned DEF GwentInv, GwentTypes, HandsKept
<1>3. GwentTypes'
  BY DEF GwentInv, GwentTypes, HandsKept, HeroesKept
<1>4. AllSturdy(deck)' /\ AllSturdy(hand)' /\ Gwent!NoDeadCard'
  BY DEF GwentInv, HandsKept, Gwent!NoDeadCard, Gwent!Rows, Rows, AllSturdy
<1> QED BY <1>1, <1>2, <1>3, <1>4 DEF GwentInv
---------------------------------------------------------------------------
(* The commands.                                                           *)

LEMMA HandsSame == GwentInv /\ hand' = hand => HandsKept
<1> SUFFICES ASSUME GwentInv, hand' = hand PROVE HandsKept
  OBVIOUS
<1>1. \A p \in Players : Thinner(hand[p], hand[p], 0)
  BY SameRow DEF GwentInv, GwentTypes, Lists
<1> QED BY <1>1 DEF GwentInv, GwentTypes, HandsKept, AllSturdy

LEMMA HeroesSame == GwentInv /\ hero' = hero => HeroesKept
BY DEF GwentInv, GwentTypes, HeroesKept

LEMMA HandLess ==
  ASSUME GwentInv, NEW p \in Players, NEW i \in DOMAIN hand[p],
         hand' = [hand EXCEPT ![p] = Gwent!RemoveAt(hand[p], i)]
  PROVE  HandsKept
<1>1. hand[p] \in Seq(GCard) /\ i \in 1..Len(hand[p]) /\ hand \in Lists
  BY DEF GwentInv, GwentTypes, Lists
<1> DEFINE u == Gwent!RemoveAt(hand[p], i)
<1>2. /\ u \in Seq(GCard) /\ Thinner(u, hand[p], 0)
      /\ \A j \in DOMAIN u : \E k \in DOMAIN hand[p] : u[j] = hand[p][k]
  <2>1. u \in Seq(GCard)
    BY <1>1, RemovedIs
  <2>2. Thinner(u, hand[p], 0)
    BY <1>1, RemovedThinner
  <2>3. \A j \in DOMAIN u : \E k \in DOMAIN hand[p] : u[j] = hand[p][k]
    BY <1>1, RemovedFrom
  <2> QED BY <2>1, <2>2, <2>3
<1> HIDE DEF u
<1>3. hand' = [hand EXCEPT ![p] = u]
  BY DEF u
<1>4. hand' \in Lists /\ hand'[p] = u /\ \A q \in Players \ {p} : hand'[q] = hand[q]
  BY <1>1, <1>2, <1>3 DEF Lists
<1>5. \A q \in Players : Thinner(hand[q], hand[q], 0)
  BY <1>1, SameRow DEF Lists
<1>6. \A q \in Players : Thinner(hand'[q], hand[q], 0)
  BY <1>2, <1>4, <1>5
<1>7. AllSturdy(hand')
  <2>1. AllSturdy(hand)
    BY DEF GwentInv
  <2> QED BY <1>2, <1>4, <2>1 DEF AllSturdy
<1> QED BY <1>4, <1>6, <1>7 DEF HandsKept

LEMMA Refuses ==
  ASSUME GwentInv, UNCHANGED Gwent!board
  PROVE  GwentInv' /\ Gwent!FrozenStays
<1>1. /\ deck' = deck /\ hand' = hand /\ hero' = hero /\ table' = table
      /\ turn' = turn /\ start' = start /\ games' = games
  BY DEF Gwent!board
<1>2. \A r \in Rows : Thinner(table'[r], table[r], 0)
  BY <1>1, SameRow DEF GwentInv, GwentTypes
<1>3. \A r \in Rows : \A j \in DOMAIN table'[r] :
        /\ table'[r][j].health > 0
        /\ \E i \in DOMAIN table[r] : Gentle(table[r][i], table'[r][j])
  BY <1>1 DEF GwentInv, Gwent!NoDeadCard, Gwent!Rows, Rows, Gentle
<1>4. HandsKept /\ HeroesKept
  BY <1>1, HandsSame, HeroesSame
<1>5. table' \in [Rows -> Seq(GCard)] /\ turn' \in Players
  BY <1>1 DEF GwentInv, GwentTypes
<1> QED BY <1>1, <1>2, <1>3, <1>4, <1>5, RowsChange

LEMMA Replaced ==
  ASSUME NEW t \in [Rows -> Seq(GCard)], NEW r \in Rows, NEW i \in DOMAIN t[r], NEW c \in GCard,
         NEW u, u = [t EXCEPT ![r][i] = c]
  PROVE  /\ u \in [Rows -> Seq(GCard)]
         /\ \A q \in Rows : DOMAIN u[q] = DOMAIN t[q]
         /\ \A q \in Rows : \A j \in DOMAIN t[q] :
              u[q][j] = IF q = r /\ j = i THEN c ELSE t[q][j]
<1>1. t[r] \in Seq(GCard)
  OBVIOUS
<1> DEFINE v == [t[r] EXCEPT ![i] = c]
<1>2. v \in Seq(GCard) /\ DOMAIN v = DOMAIN t[r]
      /\ \A j \in DOMAIN t[r] : v[j] = IF j = i THEN c ELSE t[r][j]
  BY <1>1
<1>3. u = [t EXCEPT ![r] = v]
  OBVIOUS
<1> HIDE DEF v
<1> QED BY <1>2, <1>3

LEMMA PositionsAre ==
  ASSUME GwentInv, NEW a \in Gwent!Positions
  PROVE  /\ a[1] \in Rows /\ a[2] \in DOMAIN table[a[1]] /\ Gwent!At(a) = table[a[1]][a[2]]
         /\ Gwent!At(a) \in GCard /\ Gwent!At(a).health > 0
<1>1. a[1] \in Rows /\ a[2] \in DOMAIN table[a[1]]
  BY DEF Gwent!Positions, Gwent!OnTable, Gwent!Rows, Rows
<1>2. table[a[1]][a[2]] \in GCard /\ table[a[1]][a[2]].health > 0
  BY <1>1 DEF GwentInv, GwentTypes, Gwent!NoDeadCard, Gwent!Rows, Rows
<1> QED BY <1>1, <1>2 DEF Gwent!At

(* testCardAttack, testUseAbility: a card that is not frozen strikes.      *)
LEMMA Strikes ==
  ASSUME GwentInv, NEW a \in Gwent!Positions, NEW t \in Gwent!Positions,
         NEW attacker \in GCard, attacker.id = Gwent!At(a).id, attacker.health > 0,
         ~Gwent!At(a).frozen, NEW target \in GCard, Gwent!Strike(a, t, attacker, target)
  PROVE  GwentInv' /\ Gwent!FrozenStays
<1>1. /\ a[1] \in Rows /\ a[2] \in DOMAIN table[a[1]] /\ Gwent!At(a) = table[a[1]][a[2]]
      /\ t[1] \in Rows /\ t[2] \in DOMAIN table[t[1]]
  BY PositionsAre
<1>2. table \in [Rows -> Seq(GCard)]
  BY DEF GwentInv, GwentTypes
<1> DEFINE tired == [attacker EXCEPT !.attacked = TRUE]
           marked == [table EXCEPT ![a[1]][a[2]] = tired]
<1>3. tired \in GCard /\ tired.id = attacker.id /\ tired.health = attacker.health
  BY DEF GCard, Gwent!Card
<1> HIDE DEF tired
<1>4. /\ marked \in [Rows -> Seq(GCard)]
      /\ \A q \in Rows : DOMAIN marked[q] = DOMAIN table[q]
      /\ \A q \in Rows : \A j \in DOMAIN table[q] :
           marked[q][j] = IF q = a[1] /\ j = a[2] THEN tired ELSE table[q][j]
  BY <1>1, <1>2, <1>3, Replaced
<1> DEFINE old == marked[t[1]][t[2]]
           hit == [old EXCEPT !.health = target.health, !.damage = target.damage]
           struck == [marked EXCEPT ![t[1]][t[2]] = hit]
<1> HIDE DEF marked
<1>5. old \in GCard
  BY <1>1, <1>4
<1>6. /\ hit \in GCard /\ hit.id = old.id /\ hit.health = target.health
      /\ hit.frozen = old.frozen /\ hit.attacked = old.attacked
  <2> HIDE DEF old
  <2> QED BY <1>5 DEF GCard, Gwent!Card
<1>7. table' = IF target.health <= 0 THEN [struck EXCEPT ![t[1]] = Gwent!RemoveAt(struck[t[1]], t[2])]
                                     ELSE struck
  BY DEF Gwent!Strike, tired, marked
<1>8. UNCHANGED <<deck, hand, mana, hero, wins, turn, endTurn, start, games>>
  BY DEF Gwent!Strike
<1> HIDE DEF hit
<1>9. /\ struck \in [Rows -> Seq(GCard)]
      /\ \A q \in Rows : DOMAIN struck[q] = DOMAIN table[q]
      /\ \A q \in Rows : \A j \in DOMAIN table[q] :
           struck[q][j] = IF q = t[1] /\ j = t[2] THEN hit ELSE marked[q][j]
  <2>1. t[2] \in DOMAIN marked[t[1]]
    BY <1>1, <1>4
  <2>2. /\ struck \in [Rows -> Seq(GCard)]
        /\ \A q \in Rows : DOMAIN struck[q] = DOMAIN marked[q]
        /\ \A q \in Rows : \A j \in DOMAIN marked[q] :
             struck[q][j] = IF q = t[1] /\ j = t[2] THEN hit ELSE marked[q][j]
    BY <1>1, <1>4, <1>6, <2>1, Replaced
  <2> HIDE DEF struck
  <2> QED BY <1>4, <2>2
<1> HIDE DEF struck
<1>10. ASSUME NEW q \in Rows, NEW j \in DOMAIN table[q]
       PROVE  /\ Gentle(table[q][j], marked[q][j]) /\ marked[q][j].health > 0
  <2>1. CASE q = a[1] /\ j = a[2]
    BY <1>1, <1>3, <1>4, <2>1 DEF Gentle
  <2>2. CASE ~(q = a[1] /\ j = a[2])
    <3>1. marked[q][j] = table[q][j]
      BY <1>4, <2>2
    <3> QED BY <3>1 DEF Gentle, GwentInv, Gwent!NoDeadCard, Gwent!Rows, Rows
  <2> QED BY <2>1, <2>2
<1>11. ASSUME NEW q \in Rows, NEW j \in DOMAIN table[q]
       PROVE  /\ Gentle(table[q][j], struck[q][j]) /\ struck[q][j].id = table[q][j].id
              /\ (q # t[1] \/ j # t[2] \/ target.health > 0) => struck[q][j].health > 0
  <2>1. CASE q = t[1] /\ j = t[2]
    <3>1. struck[q][j] = hit /\ Gentle(table[q][j], old)
      BY <1>9, <1>10, <2>1
    <3> HIDE DEF old
    <3> QED BY <1>6, <2>1, <3>1 DEF Gentle
  <2>2. CASE ~(q = t[1] /\ j = t[2])
    <3>1. struck[q][j] = marked[q][j]
      BY <1>9, <2>2
    <3> QED BY <1>10, <3>1 DEF Gentle
  <2> QED BY <2>1, <2>2
<1>12. \A q \in Rows : 0 \notin DOMAIN table[q] /\ table[q] \in Seq(GCard)
  BY <1>2
<1>13. ASSUME NEW q \in Rows PROVE Thinner(struck[q], table[q], 0)
  BY <1>9, <1>11, <1>12, ThinnerSame
<1>14. /\ table' \in [Rows -> Seq(GCard)]
       /\ \A r \in Rows : Thinner(table'[r], table[r], 0)
       /\ \A r \in Rows : \A j \in DOMAIN table'[r] :
            /\ table'[r][j].health > 0
            /\ \E i \in DOMAIN table[r] : Gentle(table[r][i], table'[r][j])
  <2>1. CASE target.health <= 0
    <3> DEFINE s == struck[t[1]]
               u == Gwent!RemoveAt(s, t[2])
    <3>1. s \in Seq(GCard) /\ t[2] \in 1..Len(s) /\ DOMAIN s = DOMAIN table[t[1]]
      BY <1>1, <1>9
    <3>2. /\ u \in Seq(GCard) /\ Thinner(u, s, 0)
          /\ \A j \in DOMAIN u : \E k \in DOMAIN s : k # t[2] /\ u[j] = s[k]
      <4> HIDE DEF s
      <4> QED BY <3>1, RemovedIs, RemovedThinner, RemovedFrom
    <3>3. Thinner(u, table[t[1]], 0)
      BY <1>1, <1>11, <1>12, <3>1, <3>2, ThinnerTwice
    <3>4. \A j \in DOMAIN u : /\ u[j].health > 0
                              /\ \E i \in DOMAIN table[t[1]] : Gentle(table[t[1]][i], u[j])
      BY <1>1, <1>11, <3>1, <3>2
    <3> HIDE DEF u
    <3>5. table' = [struck EXCEPT ![t[1]] = u]
      BY <1>7, <2>1 DEF u
    <3>6. table' \in [Rows -> Seq(GCard)] /\ table'[t[1]] = u
          /\ \A r \in Rows \ {t[1]} : table'[r] = struck[r]
      BY <1>1, <1>9, <3>2, <3>5
    <3>7. ASSUME NEW r \in Rows \ {t[1]}, NEW j \in DOMAIN table'[r]
          PROVE  /\ table'[r][j].health > 0
                 /\ \E i \in DOMAIN table[r] : Gentle(table[r][i], table'[r][j])
      <4>1. table'[r][j] = struck[r][j] /\ j \in DOMAIN table[r]
        BY <1>9, <3>6
      <4> QED BY <1>11, <4>1
    <3>8. \A r \in Rows : Thinner(table'[r], table[r], 0)
      BY <1>13, <3>3, <3>6
    <3> QED BY <3>4, <3>6, <3>7, <3>8
  <2>2. CASE ~(target.health <= 0)
    <3>1. table' = struck
      BY <1>7, <2>2
    <3>2. target.health > 0
      BY <2>2 DEF GCard, Gwent!Card
    <3>3. ASSUME NEW r \in Rows, NEW j \in DOMAIN struck[r]
          PROVE  /\ struck[r][j].health > 0
                 /\ \E i \in DOMAIN table[r] : Gentle(table[r][i], struck[r][j])
      BY <1>9, <1>11, <3>2
    <3> QED BY <1>9, <1>13, <3>1, <3>3
  <2> QED BY <2>1, <2>2
<1>15. HandsKept /\ HeroesKept /\ turn' \in Players
  BY <1>8, HandsSame, HeroesSame DEF GwentInv, GwentTypes
<1> QED BY <1>8, <1>14, <1>15, RowsChange

LEMMA Attacks ==
  ASSUME GwentInv, NEW a \in Gwent!Positions, NEW t \in Gwent!Positions,
         Gwent!CardUsesAttack(a, t)
  PROVE  GwentInv' /\ Gwent!FrozenStays
<1>1. CASE Gwent!AttackError(a, t) # "none"
  BY <1>1, Refuses DEF Gwent!CardUsesAttack, Gwent!Refuse
<1>2. CASE Gwent!AttackError(a, t) = "none"
  <2> DEFINE target == [Gwent!At(t) EXCEPT !.health = @ - Gwent!At(a).damage]
  <2>1. Gwent!Strike(a, t, Gwent!At(a), target)
    BY <1>2 DEF Gwent!CardUsesAttack
  <2>2. /\ Gwent!At(a) \in GCard /\ Gwent!At(a).health > 0 /\ Gwent!At(t) \in GCard
    BY PositionsAre
  <2>3. target \in GCard
    BY <2>2 DEF GCard, Gwent!Card
  <2> HIDE DEF target
  <2>4. ~Gwent!At(a).frozen
    <3> DEFINE checks == <<
           <<t[1] \in Gwent!OwnRows(turn), "enemy card">>,
           <<Gwent!At(a).attacked, "attacked">>,
           <<Gwent!At(a).frozen, "frozen">>,
           <<Gwent!At(t).name \notin Gwent!Tanks /\ Gwent!HasTank(Gwent!Other(turn)), "tank">> >>
    <3>1. Gwent!FirstError(checks) = "none"
      BY <1>2 DEF Gwent!AttackError
    <3>2. Len(checks) = 4 /\ \A i \in 1..4 : checks[i][2] # "none"
      OBVIOUS
    <3>5. Len(checks) \in Nat /\ \A i \in 1..Len(checks) : checks[i][2] # "none"
      BY <3>2
    <3>3. checks[3][1] = Gwent!At(a).frozen
      OBVIOUS
    <3> HIDE DEF checks
    <3>4. \A i \in 1..Len(checks) : ~checks[i][1]
      BY <3>1, <3>5, NoError
    <3> QED BY <3>2, <3>3, <3>4
  <2> QED BY <2>1, <2>2, <2>3, <2>4, Strikes
<1> QED BY <1>1, <1>2

LEMMA UsesAbility ==
  ASSUME GwentInv, NEW a \in Gwent!Positions, NEW t \in Gwent!Positions,
         Gwent!CardUsesAbility(a, t)
  PROVE  GwentInv' /\ Gwent!FrozenStays
<1>1. CASE Gwent!AbilityError(a, t) # "none"
  BY <1>1, Refuses DEF Gwent!CardUsesAbility, Gwent!Refuse
<1>2. CASE Gwent!AbilityError(a, t) = "none"
  <2> DEFINE user == IF Gwent!At(a).name = "Miraj"
                     THEN [Gwent!At(a) EXCEPT !.health = Gwent!At(t).health] ELSE Gwent!At(a)
             target == Gwent!Ability(Gwent!At(a), Gwent!At(t))
  <2>1. Gwent!Strike(a, t, user, target)
    BY <1>2 DEF Gwent!CardUsesAbility
  <2>2. /\ Gwent!At(a) \in GCard /\ Gwent!At(a).health > 0
        /\ Gwent!At(t) \in GCard /\ Gwent!At(t).health > 0
    BY PositionsAre
  <2>3. user \in GCard /\ user.id = Gwent!At(a).id /\ user.health > 0
    BY <2>2 DEF GCard, Gwent!Card
  <2> HIDE DEF user
  <2>4. target \in GCard
    <3> DEFINE c == Gwent!At(t)
    <3>1. c \in GCard /\ c.health > 0
      BY <2>2
    <3> HIDE DEF c
    <3>4. /\ c.health \in Nat /\ c.damage \in Nat /\ Gwent!At(a).health \in Int
          /\ (IF c.damage < 2 THEN 0 ELSE c.damage - 2) \in Nat /\ c.health + 2 \in Int
      BY <2>2, <3>1 DEF GCard, Gwent!Card
    <3>2. /\ [c EXCEPT !.damage = IF c.damage < 2 THEN 0 ELSE c.damage - 2] \in GCard
          /\ [c EXCEPT !.health = Gwent!At(a).health] \in GCard
          /\ [c EXCEPT !.health = c.damage, !.damage = c.health] \in GCard
          /\ [c EXCEPT !.health = c.health + 2] \in GCard
      <4> DEFINE weak == IF c.damage < 2 THEN 0 ELSE c.damage - 2
                 well == c.health + 2
                 same == Gwent!At(a).health
                 swapped == c.damage
                 given == c.health
      <4>1. weak \in Nat /\ well \in Int /\ same \in Int /\ swapped \in Int /\ given \in Nat
        BY <3>4
      <4> HIDE DEF weak, well, same, swapped, given
      <4>2. [c EXCEPT !.damage = weak] \in GCard
        BY <3>1, <4>1 DEF GCard, Gwent!Card
      <4>3. [c EXCEPT !.health = same] \in GCard
        BY <3>1, <4>1 DEF GCard, Gwent!Card
      <4>4. [c EXCEPT !.health = well] \in GCard
        BY <3>1, <4>1 DEF GCard, Gwent!Card
      <4>5. [c EXCEPT !.health = swapped, !.damage = given] \in GCard
        BY <3>1, <4>1 DEF GCard, Gwent!Card
      <4> QED BY <4>2, <4>3, <4>4, <4>5 DEF weak, well, same, swapped, given
    <3>3. Gwent!Ability(Gwent!At(a), c) \in GCard
      BY <3>1, <3>2 DEF Gwent!Ability
    <3> QED BY <3>3 DEF c
  <2> HIDE DEF target
  <2>5. ~Gwent!At(a).frozen
    <3> DEFINE disciple == Gwent!At(a).name = "Disciple"
               checks == <<
       <<Gwent!At(a).frozen, "frozen">>,
       <<Gwent!At(a).attacked, "attacked">>,
       <<disciple /\ t[1] \in Gwent!OwnRows(Gwent!Other(turn)), "own card">>,
       <<~disciple /\ t[1] \in Gwent!OwnRows(turn), "enemy card">>,
       <<~disciple /\ Gwent!At(t).name \notin Gwent!Tanks /\ Gwent!HasTank(Gwent!Other(turn)), "tank">> >>
    <3>1. Gwent!FirstError(checks) = "none"
      BY <1>2 DEF Gwent!AbilityError
    <3>2. Len(checks) = 5 /\ \A i \in 1..5 : checks[i][2] # "none"
      OBVIOUS
    <3>5. Len(checks) \in Nat /\ \A i \in 1..Len(checks) : checks[i][2] # "none"
      BY <3>2
    <3>3. checks[1][1] = Gwent!At(a).frozen
      OBVIOUS
    <3> HIDE DEF checks, disciple
    <3>4. \A i \in 1..Len(checks) : ~checks[i][1]
      BY <3>1, <3>5, NoError
    <3> QED BY <3>2, <3>3, <3>4
  <2> QED BY <2>1, <2>2, <2>3, <2>4, <2>5, Strikes
<1> QED BY <1>1, <1>2

(* testAttackHero: the attacker is marked and the hero loses health.       *)
LEMMA AttacksHero ==
  ASSUME GwentInv, NEW a \in Gwent!Positions, Gwent!UseAttackHero(a)
  PROVE  GwentInv' /\ Gwent!FrozenStays
<1>1. CASE Gwent!AttackHeroError(a) # "none"
  BY <1>1, Refuses DEF Gwent!UseAttackHero, Gwent!Refuse
<1>2. CASE Gwent!AttackHeroError(a) = "none"
  <2> DEFINE c == Gwent!At(a)
             p == Gwent!Other(turn)
             health == hero[p].health - c.damage
             tired == [c EXCEPT !.attacked = TRUE]
  <2>1. /\ a[1] \in Rows /\ a[2] \in DOMAIN table[a[1]] /\ c = table[a[1]][a[2]]
        /\ c \in GCard /\ c.health > 0
    BY PositionsAre
  <2>2. /\ table' = [table EXCEPT ![a[1]][a[2]] = tired]
        /\ hero' = [hero EXCEPT ![p].health = health]
        /\ UNCHANGED <<deck, hand, turn, start, games>>
    BY <1>2, <2>1 DEF Gwent!UseAttackHero
  <2>3. ~c.frozen
    <3> DEFINE checks == <<
           <<Gwent!At(a).frozen, "frozen">>,
           <<Gwent!At(a).attacked, "attacked">>,
           <<Gwent!HasTank(Gwent!Other(turn)), "tank">> >>
    <3>1. Gwent!FirstError(checks) = "none"
      BY <1>2 DEF Gwent!AttackHeroError
    <3>2. Len(checks) = 3 /\ \A i \in 1..3 : checks[i][2] # "none"
      OBVIOUS
    <3>5. Len(checks) \in Nat /\ \A i \in 1..Len(checks) : checks[i][2] # "none"
      BY <3>2
    <3>3. checks[1][1] = c.frozen
      OBVIOUS
    <3> HIDE DEF checks
    <3>4. \A i \in 1..Len(checks) : ~checks[i][1]
      BY <3>1, <3>5, NoError
    <3> QED BY <3>2, <3>3, <3>4
  <2> HIDE DEF c
  <2>4. tired \in GCard /\ tired.id = c.id /\ tired.health = c.health
    BY <2>1 DEF GCard, Gwent!Card
  <2> HIDE DEF tired
  <2>5. table \in [Rows -> Seq(GCard)]
    BY DEF GwentInv, GwentTypes
  <2>6. /\ table' \in [Rows -> Seq(GCard)]
        /\ \A q \in Rows : DOMAIN table'[q] = DOMAIN table[q]
        /\ \A q \in Rows : \A j \in DOMAIN table[q] :
             table'[q][j] = IF q = a[1] /\ j = a[2] THEN tired ELSE table[q][j]
    BY <2>1, <2>2, <2>4, <2>5, Replaced
  <2>7. ASSUME NEW q \in Rows, NEW j \in DOMAIN table[q]
        PROVE  /\ Gentle(table[q][j], table'[q][j]) /\ table'[q][j].health > 0
               /\ table'[q][j].id = table[q][j].id
    <3>1. CASE q = a[1] /\ j = a[2]
      BY <2>1, <2>3, <2>4, <2>6, <3>1 DEF Gentle
    <3>2. CASE ~(q = a[1] /\ j = a[2])
      <4>1. table'[q][j] = table[q][j]
        BY <2>6, <3>2
      <4> QED BY <4>1 DEF Gentle, GwentInv, Gwent!NoDeadCard, Gwent!Rows, Rows
    <3> QED BY <3>1, <3>2
  <2>8. ASSUME NEW q \in Rows PROVE Thinner(table'[q], table[q], 0)
    <3>1. 0 \notin DOMAIN table'[q] /\ DOMAIN table'[q] = DOMAIN table[q]
      BY <2>5, <2>6
    <3> QED BY <2>7, <3>1, ThinnerSame
  <2>9. HeroesKept
    <3>1. p \in Players /\ hero \in [Players -> Hero]
      BY DEF GwentInv, GwentTypes, Players, Gwent!Other
    <3>2. health \in Int
      BY <2>1, <3>1 DEF Hero, GCard, Gwent!Card
    <3> HIDE DEF p, health
    <3>3. [hero[p] EXCEPT !.health = health] \in Hero
          /\ [hero[p] EXCEPT !.health = health].name = hero[p].name
      BY <3>1, <3>2 DEF Hero
    <3> QED BY <2>2, <3>1, <3>3 DEF HeroesKept
  <2>10. HandsKept /\ turn' \in Players
    BY <2>2, HandsSame DEF GwentInv, GwentTypes
  <2> QED BY <2>2, <2>6, <2>7, <2>8, <2>9, <2>10, RowsChange
<1> QED BY <1>1, <1>2

(* placeCardOnRow: the card comes alive, as PlaceError refuses the others. *)
LEMMA Places ==
  ASSUME GwentInv, NEW i \in DOMAIN hand[turn], Gwent!PlaceCard(i)
  PROVE  GwentInv' /\ Gwent!FrozenStays
<1> DEFINE card == hand[turn][i]
           row == Gwent!RowOf(card)
           c == Gwent!Fresh(card)
<1>1. CASE Gwent!PlaceError(card) # "none"
  BY <1>1, Refuses DEF Gwent!PlaceCard, Gwent!Refuse
<1>2. CASE Gwent!PlaceError(card) = "none"
  <2>1. /\ table' = [table EXCEPT ![row] = Append(table[row], c)]
        /\ hand' = [hand EXCEPT ![turn] = Gwent!RemoveAt(hand[turn], i)]
        /\ UNCHANGED <<deck, hero, turn, start, games>>
    BY <1>2 DEF Gwent!PlaceCard
  <2>2. row \in Rows
    BY DEF GwentInv, GwentTypes, Players, Rows, Gwent!RowOf, Gwent!FrontRow, Gwent!BackRow
  <2>3. /\ turn \in Players /\ hand \in Lists /\ deck \in Lists
        /\ hand[turn] \in Seq(GCard) /\ table \in [Rows -> Seq(GCard)] /\ card \in GCard
    BY DEF GwentInv, GwentTypes, Lists
  <2>4. card.name \notin Gwent!Environment
    <3> DEFINE checks == <<
           <<card.name \in Gwent!Environment, "environment">>,
           <<card.mana > mana[turn], "mana">>,
           <<Len(table[row]) >= MaxCol, "full">> >>
    <3>1. Gwent!FirstError(checks) = "none"
      BY <1>2 DEF Gwent!PlaceError
    <3>2. Len(checks) = 3 /\ \A k \in 1..3 : checks[k][2] # "none"
      OBVIOUS
    <3>3. card.name \in Gwent!Environment => checks[1][1]
      OBVIOUS
    <3> HIDE DEF checks, card
    <3>4. \A k \in 1..Len(checks) : ~checks[k][1]
      BY <3>1, <3>2, NoError
    <3> QED BY <3>2, <3>3, <3>4
  <2>5. card.health > 0
    BY <2>3, <2>4 DEF GwentInv, AllSturdy, Sturdy
  <2>6. /\ c \in GCard /\ c.id = card.id /\ c.health > 0
    BY <2>3, <2>5, FreshIs
  <2> HIDE DEF row, c
  <2>7. HandsKept
    BY <2>1, <2>3, HandLess
  <2>8. Different(Cards(deck, hand', table'))
    BY <2>1, <2>2, <2>3, <2>6, HandToRow DEF GwentInv
  <2>9. /\ table' \in [Rows -> Seq(GCard)] /\ table'[row] = Append(table[row], c)
        /\ \A r \in Rows \ {row} : table'[r] = table[r]
    <3>1. Append(table[row], c) \in Seq(GCard)
      BY <2>2, <2>3, <2>6
    <3> QED BY <2>1, <2>2, <2>3, <3>1
  <2>10. ASSUME NEW r \in Rows, NEW j \in DOMAIN table'[r]
         PROVE  \/ j \in DOMAIN table[r] /\ table'[r][j] = table[r][j]
                \/ table'[r][j] = c
    <3>1. CASE r # row
      BY <2>9, <3>1
    <3>2. CASE r = row
      BY <2>2, <2>3, <2>6, <2>9, <3>2, AppendedIs
    <3> QED BY <3>1, <3>2
  <2>11. Gwent!NoDeadCard'
    <3>1. \A r \in Rows : \A j \in DOMAIN table[r] : table[r][j].health > 0
      BY DEF GwentInv, Gwent!NoDeadCard, Gwent!Rows, Rows
    <3>2. \A r \in Rows : \A j \in DOMAIN table'[r] : table'[r][j].health > 0
      BY <2>6, <2>10, <3>1
    <3> QED BY <3>2 DEF Gwent!NoDeadCard, Gwent!Rows, Rows
  <2>12. Gwent!FrozenStays
    <3>1. \A q \in Rows : \A j \in DOMAIN table'[q] :
            \/ \E r \in Rows : \E k \in DOMAIN table[r] : Gentle(table[r][k], table'[q][j])
            \/ \E p \in Players : \E k \in DOMAIN hand[p] : hand[p][k].id = table'[q][j].id
      BY <2>3, <2>6, <2>10 DEF Gentle
    <3> QED BY <2>9, <3>1, StaysFrozen
  <2>13. GwentTypes'
    BY <2>1, <2>7, <2>9 DEF GwentInv, GwentTypes, HandsKept
  <2> QED BY <2>1, <2>7, <2>8, <2>11, <2>12, <2>13 DEF GwentInv, HandsKept, AllSturdy
<1> QED BY <1>1, <1>2

(* firestorm, winterfell: the cards of a row that are left.                *)
LEMMA RowChanges ==
  ASSUME GwentInv, NEW r \in Rows, NEW u \in Seq(GCard), table' = [table EXCEPT ![r] = u],
         Thinner(u, table[r], 0),
         \A j \in DOMAIN u : /\ u[j].health > 0
                             /\ \E i \in DOMAIN table[r] : Gentle(table[r][i], u[j]),
         deck' = deck, HandsKept, HeroesKept, turn' = turn, start' = start, games' = games
  PROVE  GwentInv' /\ Gwent!FrozenStays
<1>1. table \in [Rows -> Seq(GCard)] /\ turn' \in Players
  BY DEF GwentInv, GwentTypes
<1>2. /\ table' \in [Rows -> Seq(GCard)] /\ table'[r] = u
      /\ \A q \in Rows \ {r} : table'[q] = table[q]
  BY <1>1
<1>3. \A q \in Rows : Thinner(table'[q], table[q], 0)
  BY <1>1, <1>2, SameRow
<1>4. \A q \in Rows : \A j \in DOMAIN table[q] :
        table[q][j].health > 0 /\ Gentle(table[q][j], table[q][j])
  BY DEF GwentInv, Gwent!NoDeadCard, Gwent!Rows, Rows, Gentle
<1>5. \A q \in Rows : \A j \in DOMAIN table'[q] :
        /\ table'[q][j].health > 0
        /\ \E i \in DOMAIN table[q] : Gentle(table[q][i], table'[q][j])
  BY <1>2, <1>4
<1> QED BY <1>1, <1>2, <1>3, <1>5, RowsChange

LEMMA Storms ==
  ASSUME GwentInv, NEW row \in Rows, Gwent!Firestorm(row),
         deck' = deck, HandsKept, HeroesKept, turn' = turn, start' = start, games' = games
  PROVE  GwentInv' /\ Gwent!FrozenStays
<1> DEFINE hit == [i \in DOMAIN table[row] |-> [table[row][i] EXCEPT !.health = @ - 1]]
           u == Gwent!Living(hit)
<1>1. table' = [table EXCEPT ![row] = u]
  BY DEF Gwent!Firestorm
<1>2. /\ table[row] \in Seq(GCard) /\ 0 \notin DOMAIN table[row]
      /\ \A i \in DOMAIN table[row] : table[row][i] \in GCard /\ table[row][i].health > 0
  BY DEF GwentInv, GwentTypes, Gwent!NoDeadCard, Gwent!Rows, Rows
<1>3. ASSUME NEW i \in DOMAIN table[row]
      PROVE  /\ hit[i] \in GCard /\ hit[i].id = table[row][i].id
             /\ Gentle(table[row][i], hit[i]) /\ (hit[i].health # 0 => hit[i].health > 0)
  <2> DEFINE c == table[row][i]
             n == c.health - 1
  <2>1. c \in GCard /\ c.health > 0 /\ n \in Int /\ n >= 0
    <3>1. c \in GCard /\ c.health > 0
      BY <1>2
    <3>2. c.health \in Int
      BY <3>1 DEF GCard, Gwent!Card
    <3> HIDE DEF c
    <3> QED BY <3>1, <3>2
  <2>2. hit[i] = [c EXCEPT !.health = n]
    OBVIOUS
  <2> HIDE DEF c, n, hit
  <2>3. /\ hit[i] \in GCard /\ hit[i].id = c.id /\ hit[i].health = n
        /\ hit[i].frozen = c.frozen /\ hit[i].attacked = c.attacked
    BY <2>1, <2>2 DEF GCard, Gwent!Card
  <2> QED BY <2>1, <2>3 DEF c, Gentle
<1>4. DOMAIN hit = DOMAIN table[row] /\ hit \in Seq(GCard)
  <2>1. /\ DOMAIN hit = 1..Len(table[row]) /\ Len(table[row]) \in Nat
        /\ DOMAIN table[row] = 1..Len(table[row])
    BY <1>2
  <2>2. \A i \in DOMAIN table[row] : hit[i] \in GCard
    BY <1>3
  <2>3. hit = [i \in 1..Len(table[row]) |-> hit[i]]
    BY <1>2
  <2> HIDE DEF hit
  <2>4. hit \in [1..Len(table[row]) -> GCard]
    BY <2>1, <2>2, <2>3
  <2> QED BY <1>2, <2>1, <2>4
<1> HIDE DEF hit
<1>5. /\ u \in Seq(GCard) /\ Thinner(u, hit, 0)
      /\ \A i \in DOMAIN u : \E j \in DOMAIN hit : u[i] = hit[j] /\ hit[j].health # 0
  BY <1>4, LivingIs
<1> HIDE DEF u
<1>6. Thinner(u, table[row], 0)
  BY <1>2, <1>3, <1>4, <1>5, ThinnerTwice
<1>7. \A j \in DOMAIN u : /\ u[j].health > 0
                          /\ \E i \in DOMAIN table[row] : Gentle(table[row][i], u[j])
  BY <1>3, <1>4, <1>5
<1> QED BY <1>1, <1>5, <1>6, <1>7, RowChanges

(* Changes of the cards of a row that keep their ids, ice and life.        *)
LEMMA EachChanges ==
  ASSUME GwentInv, NEW row \in Rows, NEW u, DOMAIN u = DOMAIN table[row],
         u = [i \in DOMAIN table[row] |-> u[i]],
         \A i \in DOMAIN table[row] :
           u[i] \in GCard /\ Gentle(table[row][i], u[i]) /\ u[i].health > 0,
         table' = [table EXCEPT ![row] = u],
         deck' = deck, HandsKept, HeroesKept, turn' = turn, start' = start, games' = games
  PROVE  GwentInv' /\ Gwent!FrozenStays
<1>1. table[row] \in Seq(GCard) /\ 0 \notin DOMAIN table[row]
  BY DEF GwentInv, GwentTypes
<1>2. u \in Seq(GCard)
  <2>1. DOMAIN table[row] = 1..Len(table[row]) /\ Len(table[row]) \in Nat
    BY <1>1
  <2>2. u \in [1..Len(table[row]) -> GCard]
    BY <2>1
  <2> QED BY <2>1, <2>2
<1>3. Thinner(u, table[row], 0)
  BY <1>1, ThinnerSame DEF Gentle
<1> QED BY <1>2, <1>3, RowChanges

LEMMA Freezes ==
  ASSUME GwentInv, NEW row \in Rows, Gwent!Winterfell(row),
         deck' = deck, HandsKept, HeroesKept, turn' = turn, start' = start, games' = games
  PROVE  GwentInv' /\ Gwent!FrozenStays
<1> DEFINE u == [i \in DOMAIN table[row] |-> [table[row][i] EXCEPT !.frozen = TRUE]]
<1>1. table' = [table EXCEPT ![row] = u]
  BY DEF Gwent!Winterfell
<1>2. ASSUME NEW i \in DOMAIN table[row]
      PROVE  u[i] \in GCard /\ Gentle(table[row][i], u[i]) /\ u[i].health > 0
  <2> DEFINE c == table[row][i]
  <2>1. c \in GCard /\ c.health > 0
    BY DEF GwentInv, GwentTypes, Gwent!NoDeadCard, Gwent!Rows, Rows
  <2>2. u[i] = [c EXCEPT !.frozen = TRUE]
    OBVIOUS
  <2> HIDE DEF c, u
  <2>3. /\ u[i] \in GCard /\ u[i].id = c.id /\ u[i].health = c.health
        /\ u[i].frozen = TRUE /\ u[i].attacked = c.attacked
    BY <2>1, <2>2 DEF GCard, Gwent!Card
  <2> QED BY <2>1, <2>3 DEF c, Gentle
<1>3. DOMAIN u = DOMAIN table[row] /\ u = [i \in DOMAIN table[row] |-> u[i]]
  OBVIOUS
<1> HIDE DEF u
<1> QED BY <1>1, <1>2, <1>3, EachChanges

(* heartHound: the stolen card changes its row and nothing else.           *)
LEMMA Steals ==
  ASSUME GwentInv, NEW row \in Rows, Gwent!HeartHound(row), table[row] # <<>>,
         Gwent!StealRow(row) \in Rows,
         deck' = deck, HandsKept, HeroesKept, turn' = turn, start' = start, games' = games
  PROVE  GwentInv' /\ Gwent!FrozenStays
<1> DEFINE i == Gwent!FirstMost(table[row], "health")
           q == Gwent!StealRow(row)
<1>1. /\ table[row] \in Seq(GCard) /\ table \in [Rows -> Seq(GCard)]
      /\ \A j \in DOMAIN table[row] : table[row][j] \in GCard
  BY DEF GwentInv, GwentTypes
<1>2. i \in DOMAIN table[row]
  <2>1. /\ Len(table[row]) \in Nat /\ Len(table[row]) # 0
        /\ DOMAIN table[row] = 1..Len(table[row])
    BY <1>1
  <2>2. \A j \in DOMAIN table[row] : table[row][j]["health"] \in Int
    BY <1>1 DEF GCard, Gwent!Card
  <2> QED BY <2>1, <2>2, FirstMostIs
<1>3. table' = RowMoved(table, row, i, q)
  BY DEF Gwent!HeartHound, RowMoved
<1>4. deck \in Lists /\ hand \in Lists /\ Different(Cards(deck, hand, table))
  BY DEF GwentInv, GwentTypes
<1>5. q \in Rows
  OBVIOUS
<1> HIDE DEF i, q
<1>6. /\ table' \in Tables /\ Different(Cards(deck, hand, table'))
      /\ SameCards(table', table)
  <2>1. table \in Tables
    BY <1>1 DEF Tables
  <2> QED BY <1>2, <1>3, <1>4, <1>5, <2>1, RowToRow
<1>7. Different(Cards(deck, hand', table'))
  <2>1. \A r \in Rows : Thinner(table'[r], table'[r], 0)
    BY <1>6, SameRow DEF Tables
  <2> QED BY <1>4, <1>6, <2>1, ListsThinned DEF HandsKept
<1>8. Gwent!NoDeadCard'
  BY <1>6 DEF GwentInv, Gwent!NoDeadCard, Gwent!Rows, Rows, SameCards
<1>9. Gwent!FrozenStays
  <2>1. \A w \in Rows : \A j \in DOMAIN table'[w] :
          \E v \in Rows : \E k \in DOMAIN table[v] : Gentle(table[v][k], table'[w][j])
    <3> SUFFICES ASSUME NEW w \in Rows, NEW j \in DOMAIN table'[w]
                 PROVE  \E v \in Rows : \E k \in DOMAIN table[v] :
                          Gentle(table[v][k], table'[w][j])
      OBVIOUS
    <3>1. PICK v \in Rows : \E k \in DOMAIN table[v] : table'[w][j] = table[v][k]
      BY <1>6 DEF SameCards
    <3>2. PICK k \in DOMAIN table[v] : table'[w][j] = table[v][k]
      BY <3>1
    <3> QED BY <3>2 DEF Gentle
  <2> QED BY <1>6, <2>1, StaysFrozen DEF Tables
<1>10. GwentTypes' /\ AllSturdy(deck)' /\ AllSturdy(hand)'
  BY <1>6 DEF GwentInv, GwentTypes, HandsKept, HeroesKept, AllSturdy, Tables
<1> QED BY <1>7, <1>8, <1>9, <1>10 DEF GwentInv

LEMMA UsesEnvironment ==
  ASSUME GwentInv, NEW i \in DOMAIN hand[turn], NEW row \in Rows,
         Gwent!UseEnvironmentCard(i, row)
  PROVE  GwentInv' /\ Gwent!FrozenStays
<1> DEFINE Stolen ==
             /\ ~Gwent!HoundThrows(row) /\ Gwent!HeartHound(row)
             /\ ~(Gwent!StealRow(row) \in Rows /\ Len(table[Gwent!StealRow(row)]) >= MaxCol)
           Used ==
             /\ Stolen \/ Gwent!Firestorm(row) \/ Gwent!Winterfell(row)
             /\ hand' = [hand EXCEPT ![turn] = Gwent!RemoveAt(hand[turn], i)]
             /\ UNCHANGED <<deck, hero, wins, turn, endTurn, start, games>>
<1>1. UNCHANGED Gwent!board \/ Used
  BY DEF Gwent!UseEnvironmentCard, Gwent!Refuse, Gwent!Throw, Gwent!Rows, Rows
<1>2. ASSUME Used PROVE GwentInv' /\ Gwent!FrozenStays
  <2>1. HandsKept
    BY <1>2, HandLess DEF GwentInv, GwentTypes
  <2>2. HeroesKept /\ deck' = deck /\ turn' = turn /\ start' = start /\ games' = games
    BY <1>2, HeroesSame
  <2>3. CASE Gwent!Firestorm(row)
    BY <2>1, <2>2, <2>3, Storms
  <2>4. CASE Gwent!Winterfell(row)
    BY <2>1, <2>2, <2>4, Freezes
  <2>5. CASE Stolen
    <3>1. Gwent!StealRow(row) \in Rows
      BY <2>5 DEF Gwent!HoundThrows, Gwent!Rows, Rows
    <3>2. Len(table[Gwent!StealRow(row)]) \in Nat
      BY <3>1 DEF GwentInv, GwentTypes
    <3>3. Len(table[Gwent!StealRow(row)]) < MaxCol
      <4>1. MaxCol \in Nat
        BY GwentConstants
      <4>2. ~(Len(table[Gwent!StealRow(row)]) >= MaxCol)
        BY <2>5, <3>1
      <4> QED BY <3>2, <4>1, <4>2
    <3>4. table[row] # <<>>
      BY <2>5, <3>1, <3>3 DEF Gwent!HoundThrows, Gwent!Rows, Rows
    <3> QED BY <2>1, <2>2, <2>5, <3>1, <3>4, Steals
  <2> QED BY <1>2, <2>3, <2>4, <2>5
<1> QED BY <1>1, <1>2, Refuses

(* endPlayerTurn: the cards of the player are fresh again and, at the end   *)
(* of a round, both players draw.                                           *)
LEMMA EndsTurn ==
  ASSUME GwentInv, endTurn \in Nat, Gwent!EndPlayerTurn
  PROVE  GwentInv' /\ Gwent!FrozenStays
<1> DEFINE own == Gwent!OwnRows(turn)
<1>1. /\ table' = [r \in Rows |-> IF r \in own
                     THEN [i \in DOMAIN table[r] |-> Gwent!Fresh(table[r][i])] ELSE table[r]]
      /\ hero' = [hero EXCEPT ![turn].attacked = FALSE]
      /\ start' = start /\ games' = games /\ endTurn' = endTurn + 1
      /\ turn' = start \/ turn' = Gwent!Other(turn)
  BY DEF Gwent!EndPlayerTurn, Gwent!ResetCards, Gwent!Rows, Rows
<1> HIDE DEF own
<1>2. /\ table \in [Rows -> Seq(GCard)] /\ deck \in Lists /\ hand \in Lists
      /\ turn \in Players /\ start \in Players /\ hero \in [Players -> Hero]
      /\ AllSturdy(deck) /\ AllSturdy(hand)
  BY DEF GwentInv, GwentTypes
<1>3. ASSUME NEW r \in Rows
      PROVE  /\ table'[r] \in Seq(GCard) /\ DOMAIN table'[r] = DOMAIN table[r]
             /\ \A i \in DOMAIN table[r] :
                  /\ table'[r][i].id = table[r][i].id /\ table'[r][i].health = table[r][i].health
                  /\ r \notin own => table'[r][i] = table[r][i]
  <2>1. table[r] \in Seq(GCard) /\ \A i \in DOMAIN table[r] : table[r][i] \in GCard
    BY <1>2
  <2>2. CASE r \notin own
    <3>1. table'[r] = table[r]
      BY <1>1, <2>2
    <3> QED BY <2>1, <3>1
  <2>3. CASE r \in own
    <3> DEFINE u == [i \in DOMAIN table[r] |-> Gwent!Fresh(table[r][i])]
    <3>1. table'[r] = u
      BY <1>1, <2>3
    <3>2. DOMAIN u = DOMAIN table[r] /\ \A i \in DOMAIN table[r] : u[i] = Gwent!Fresh(table[r][i])
      OBVIOUS
    <3>3. \A i \in DOMAIN table[r] :
            u[i] \in GCard /\ u[i].id = table[r][i].id /\ u[i].health = table[r][i].health
      BY <2>1, <3>2, FreshIs
    <3>4. u \in Seq(GCard)
      <4>1. DOMAIN table[r] = 1..Len(table[r]) /\ Len(table[r]) \in Nat
        BY <2>1
      <4>2. u = [i \in DOMAIN table[r] |-> u[i]]
        BY <3>2
      <4> HIDE DEF u
      <4>3. u \in [1..Len(table[r]) -> GCard]
        BY <3>3, <4>1, <4>2
      <4> QED BY <4>1, <4>3
    <3> HIDE DEF u
    <3> QED BY <2>3, <3>1, <3>2, <3>3, <3>4
  <2> QED BY <2>2, <2>3
<1>4. table' \in [Rows -> Seq(GCard)]
  <2>1. table' = [r \in Rows |-> table'[r]]
    BY <1>1
  <2> QED BY <1>3, <2>1
<1>5. Different(Cards(deck, hand, table'))
  <2>1. ASSUME NEW r \in Rows PROVE Thinner(table'[r], table[r], 0)
    <3>1. 0 \notin DOMAIN table'[r]
      BY <1>3
    <3> QED BY <1>3, <3>1, ThinnerSame
  <2>2. \A p \in Players : Thinner(hand[p], hand[p], 0)
    BY <1>2, SameRow DEF Lists
  <2> QED BY <1>2, <2>1, <2>2, ListsThinned DEF GwentInv
<1>6. deck' \in Lists /\ hand' \in Lists /\ AllSturdy(deck') /\ AllSturdy(hand')
      /\ Different(Cards(deck', hand', table'))
  <2>1. CASE /\ deck' = [p \in Players |-> Gwent!TakeCard(deck[p], hand[p])[1]]
             /\ hand' = [p \in Players |-> Gwent!TakeCard(deck[p], hand[p])[2]]
    BY <1>2, <1>5, <2>1, BothDraw
  <2>2. CASE deck' = deck /\ hand' = hand
    BY <1>2, <1>5, <2>2
  <2> QED BY <2>1, <2>2 DEF Gwent!EndPlayerTurn, Gwent!Players, Players
<1>7. Gwent!NoDeadCard'
  BY <1>3 DEF GwentInv, Gwent!NoDeadCard, Gwent!Rows, Rows
<1>8. HeroesKept
  BY <1>1, <1>2 DEF Hero, HeroesKept
<1>9. turn' \in Players
  BY <1>1, <1>2 DEF Gwent!Other, Players
<1>10. Gwent!FrozenStays
  <2> SUFFICES ASSUME NEW r \in Rows, NEW i \in DOMAIN table[r], table[r][i].frozen,
                      NEW q \in Rows, NEW j \in DOMAIN table'[q], table'[q][j].id = table[r][i].id
               PROVE  \/ table'[q][j].frozen /\ table'[q][j].attacked = table[r][i].attacked
                      \/ endTurn' # endTurn /\ r \in own /\ q = r
    BY IceStays DEF own
  <2>1. j \in DOMAIN table[q] /\ table[q][j].id = table[r][i].id
    BY <1>3
  <2>2. q = r /\ j = i
    BY <2>1, RowsDiffer DEF GwentInv
  <2>3. endTurn' # endTurn
    BY <1>1
  <2> QED BY <1>3, <2>2, <2>3
<1>11. GwentTypes'
  BY <1>1, <1>2, <1>4, <1>6, <1>8, <1>9 DEF GwentInv, GwentTypes, HeroesKept
<1> QED BY <1>6, <1>7, <1>10, <1>11 DEF GwentInv

(* Main: a new game of the input, with its own decks and an empty table.   *)
LEMMA Deals ==
  ASSUME games \in Nat, Gwent!NewGame
  PROVE  GwentInv' /\ Gwent!FrozenStays
<1>1. PICK g \in Setups :
        /\ deck' = [p \in Players |-> Tail(g.deck[p])]
        /\ hand' = [p \in Players |-> <<Gwent!Fresh(Head(g.deck[p]))>>]
        /\ hero' = [p \in Players |-> [name |-> g.hero[p], mana |-> 1,
                                       health |-> MaxHealth, attacked |-> FALSE]]
  BY DEF Gwent!NewGame, Gwent!Players, Players
<1>2. /\ table' = [r \in Rows |-> <<>>] /\ start' \in Players /\ turn' = start'
      /\ games' = games + 1 /\ out' = "new game"
  BY DEF Gwent!NewGame, Gwent!Players, Players, Gwent!Rows, Rows
<1> DEFINE d == g.deck
           h == [p \in Players |-> <<>>]
           t == [r \in Rows |-> <<>>]
<1>3. /\ d \in [Players -> Seq(GCard) \ {<<>>}]
      /\ \A p, q \in Players : \A i \in DOMAIN d[p], j \in DOMAIN d[q] :
           d[p][i].id = d[q][j].id => p = q /\ i = j
      /\ AllSturdy(d) /\ \A p \in Players : g.hero[p] \in Heroes
      /\ MaxHealth \in Int
  BY GwentConstants DEF GCard, Players, AllSturdy, Sturdy, Heroes
<1>4. d \in Lists /\ h \in Lists /\ AllSturdy(h)
  <2>1. d \in Lists
    BY <1>3 DEF Lists
  <2>2. <<>> \in Seq(GCard) /\ DOMAIN <<>> = {}
    OBVIOUS
  <2>3. h \in Lists /\ \A p \in Players : h[p] = <<>>
    BY <2>2 DEF Lists
  <2> HIDE DEF h
  <2> QED BY <2>1, <2>2, <2>3 DEF AllSturdy
<1> HIDE DEF d
<1>5. Different(Cards(d, h, t))
  <2> DEFINE C == Cards(d, h, t)
  <2>1. /\ \A p \in Players : C[<<p, "deck">>] = d[p] /\ C[<<p, "hand">>] = <<>>
        /\ \A r \in Rows : C[<<r, "row">>] = <<>>
    <3>1. \A p \in Players : C[<<p, "deck">>] = d[p] /\ C[<<p, "hand">>] = h[p]
      BY DEF Cards, PlaceNames
    <3>2. \A r \in Rows : C[<<r, "row">>] = t[r]
      BY DEF Cards, PlaceNames
    <3> HIDE DEF C
    <3> QED BY <3>1, <3>2
  <2> HIDE DEF C
  <2>2. DOMAIN <<>> = {}
    OBVIOUS
  <2>3. ASSUME NEW x \in PlaceNames, NEW i \in DOMAIN C[x]
        PROVE  \E p \in Players : x = <<p, "deck">>
    <3>1. C[x] # <<>>
      BY <2>2
    <3>2. CASE \E r \in Rows : x = <<r, "row">>
      BY <2>1, <3>1, <3>2
    <3>3. CASE \E p \in Players : x = <<p, "deck">> \/ x = <<p, "hand">>
      BY <2>1, <3>1, <3>3
    <3> QED BY <3>2, <3>3 DEF PlaceNames
  <2>4. SUFFICES ASSUME NEW x \in PlaceNames, NEW y \in PlaceNames,
                        NEW i \in DOMAIN C[x], NEW j \in DOMAIN C[y], C[x][i].id = C[y][j].id
                 PROVE  x = y /\ i = j
    BY DEF Different, C
  <2>5. PICK p \in Players : x = <<p, "deck">>
    BY <2>3
  <2>6. PICK q \in Players : y = <<q, "deck">>
    BY <2>3
  <2>7. C[x] = d[p] /\ C[y] = d[q]
    BY <2>1, <2>5, <2>6
  <2>8. p = q /\ i = j
    BY <1>3, <2>4, <2>7
  <2> QED BY <2>5, <2>6, <2>8
<1>6. /\ deck' = [p \in Players |-> Gwent!TakeCard(d[p], h[p])[1]]
      /\ hand' = [p \in Players |-> Gwent!TakeCard(d[p], h[p])[2]]
  <2>1. ASSUME NEW p \in Players
        PROVE  /\ Gwent!TakeCard(d[p], h[p])[1] = Tail(d[p])
               /\ Gwent!TakeCard(d[p], h[p])[2] = <<Gwent!Fresh(Head(d[p]))>>
    <3>1. d[p] # <<>> /\ h[p] = <<>>
      BY <1>3
    <3>2. Append(<<>>, Gwent!Fresh(Head(d[p]))) = <<Gwent!Fresh(Head(d[p]))>>
      OBVIOUS
    <3> QED BY <3>1, <3>2 DEF Gwent!TakeCard
  <2> HIDE DEF h
  <2> QED BY <1>1, <2>1 DEF d
<1> HIDE DEF h, t
<1>7. /\ deck' \in Lists /\ hand' \in Lists /\ AllSturdy(deck') /\ AllSturdy(hand')
      /\ Different(Cards(deck', hand', t))
  BY <1>3, <1>4, <1>5, <1>6, BothDraw
<1>8. table' = t /\ table' \in [Rows -> Seq(GCard)] /\ \A r \in Rows : DOMAIN table'[r] = {}
  <2>1. <<>> \in Seq(GCard) /\ DOMAIN <<>> = {}
    OBVIOUS
  <2>2. table' = t
    BY <1>2 DEF t
  <2>3. t \in [Rows -> Seq(GCard)] /\ \A r \in Rows : t[r] = <<>>
    BY <2>1 DEF t
  <2> QED BY <2>1, <2>2, <2>3
<1>9. Gwent!NoDeadCard'
  BY <1>8 DEF Gwent!NoDeadCard, Gwent!Rows, Rows
<1>10. hero' \in [Players -> Hero] /\ \A p \in Players : hero'[p].name \in Heroes
  BY <1>1, <1>3 DEF Hero
<1>11. Gwent!FrozenStays
  BY <1>2 DEF Gwent!FrozenStays
<1>12. GwentTypes'
  <2>1. games' \in Nat /\ turn' \in Players /\ start' \in Players
    <3>1. games \in Nat /\ games' = games + 1
      BY <1>2
    <3>2. games' \in Nat
      BY <3>1
    <3> QED BY <1>2, <3>2
  <2> QED BY <1>7, <1>8, <1>10, <2>1 DEF GwentTypes
<1> QED BY <1>7, <1>8, <1>9, <1>11, <1>12 DEF GwentInv

(* The abilities of the heroes.                                            *)
LEMMA OneFreezes ==
  ASSUME GwentInv, NEW row \in Rows, NEW i \in DOMAIN table[row],
         table' = [table EXCEPT ![row] = [table[row] EXCEPT ![i].frozen = TRUE]],
         deck' = deck, HandsKept, HeroesKept, turn' = turn, start' = start, games' = games
  PROVE  GwentInv' /\ Gwent!FrozenStays
<1> DEFINE u == [table[row] EXCEPT ![i].frozen = TRUE]
<1>1. /\ table[row] \in Seq(GCard)
      /\ \A j \in DOMAIN table[row] : table[row][j] \in GCard /\ table[row][j].health > 0
  BY DEF GwentInv, GwentTypes, Gwent!NoDeadCard, Gwent!Rows, Rows
<1>2. DOMAIN u = DOMAIN table[row] /\ u = [j \in DOMAIN table[row] |-> u[j]]
  OBVIOUS
<1>3. ASSUME NEW j \in DOMAIN table[row]
      PROVE  u[j] \in GCard /\ Gentle(table[row][j], u[j]) /\ u[j].health > 0
  <2> DEFINE c == table[row][j]
  <2>1. c \in GCard /\ c.health > 0
    BY <1>1
  <2>2. u[j] = IF j = i THEN [c EXCEPT !.frozen = TRUE] ELSE c
    OBVIOUS
  <2> HIDE DEF c, u
  <2>3. CASE j = i
    <3>1. /\ u[j] \in GCard /\ u[j].id = c.id /\ u[j].health = c.health
          /\ u[j].frozen = TRUE /\ u[j].attacked = c.attacked
      BY <2>1, <2>2, <2>3 DEF GCard, Gwent!Card
    <3> QED BY <2>1, <3>1 DEF c, Gentle
  <2>4. CASE j # i
    BY <2>1, <2>2, <2>4 DEF c, Gentle
  <2> QED BY <2>3, <2>4
<1>4. table' = [table EXCEPT ![row] = u]
  OBVIOUS
<1> HIDE DEF u
<1> QED BY <1>2, <1>3, <1>4, EachChanges

LEMMA OneLeaves ==
  ASSUME GwentInv, NEW row \in Rows, NEW i \in DOMAIN table[row],
         table' = [table EXCEPT ![row] = Gwent!RemoveAt(table[row], i)],
         deck' = deck, HandsKept, HeroesKept, turn' = turn, start' = start, games' = games
  PROVE  GwentInv' /\ Gwent!FrozenStays
<1> DEFINE s == table[row]
           u == Gwent!RemoveAt(s, i)
<1>1. /\ s \in Seq(GCard) /\ i \in 1..Len(s)
      /\ \A j \in DOMAIN s : s[j].health > 0
  BY DEF GwentInv, GwentTypes, Gwent!NoDeadCard, Gwent!Rows, Rows
<1>2. /\ u \in Seq(GCard) /\ Thinner(u, s, 0)
      /\ \A j \in DOMAIN u : \E k \in DOMAIN s : k # i /\ u[j] = s[k]
  <2> HIDE DEF s
  <2> QED BY <1>1, RemovedIs, RemovedThinner, RemovedFrom
<1>3. \A j \in DOMAIN u : u[j].health > 0 /\ \E k \in DOMAIN s : Gentle(s[k], u[j])
  BY <1>1, <1>2 DEF Gentle
<1>4. table' = [table EXCEPT ![row] = u]
  OBVIOUS
<1> HIDE DEF u
<1> QED BY <1>2, <1>3, <1>4, RowChanges

LEMMA UsesHero ==
  ASSUME GwentInv, games > 0, NEW row \in Rows, Gwent!UseHeroAbility(row)
  PROVE  GwentInv' /\ Gwent!FrozenStays
<1> DEFINE name == hero[turn].name
           s == table[row]
<1>1. CASE UNCHANGED Gwent!board
  BY <1>1, Refuses
<1>2. CASE ~(UNCHANGED Gwent!board)
  <2>1. /\ ~(name \in Gwent!AttackingHeroes /\ s = <<>>)
        /\ table' = [table EXCEPT ![row] = Gwent!HeroAbility(name, s)]
        /\ hero' = [hero EXCEPT ![turn].attacked = TRUE]
        /\ UNCHANGED <<deck, hand, wins, turn, endTurn, start, games>>
    BY <1>2 DEF Gwent!UseHeroAbility, Gwent!Refuse, Gwent!Throw
  <2>2. /\ turn \in Players /\ hero \in [Players -> Hero] /\ name \in Heroes
        /\ s \in Seq(GCard)
        /\ \A j \in DOMAIN s : s[j] \in GCard /\ s[j].health > 0
    BY DEF GwentInv, GwentTypes, Gwent!NoDeadCard, Gwent!Rows, Rows
  <2>3. HandsKept /\ HeroesKept
    <3>1. HeroesKept
      BY <2>1, <2>2 DEF Hero, HeroesKept
    <3> QED BY <2>1, <3>1, HandsSame
  <2>4. /\ s # <<>> => Gwent!FirstMost(s, "damage") \in DOMAIN s
        /\ s # <<>> => Gwent!FirstMost(s, "health") \in DOMAIN s
    <3>1. SUFFICES ASSUME s # <<>>
                   PROVE  /\ Gwent!FirstMost(s, "damage") \in DOMAIN s
                          /\ Gwent!FirstMost(s, "health") \in DOMAIN s
      OBVIOUS
    <3>2. Len(s) \in Nat /\ Len(s) # 0 /\ DOMAIN s = 1..Len(s)
      BY <2>2, <3>1
    <3>3. /\ \A j \in DOMAIN s : s[j]["damage"] \in Int
          /\ \A j \in DOMAIN s : s[j]["health"] \in Int
      BY <2>2 DEF GCard, Gwent!Card
    <3> HIDE DEF s
    <3> QED BY <3>1, <3>2, <3>3, FirstMostIs
  <2>5. CASE name = "Lord Royce"
    <3> DEFINE i == Gwent!FirstMost(s, "damage")
    <3>1. i \in DOMAIN s
      BY <2>1, <2>4, <2>5 DEF Gwent!AttackingHeroes
    <3>2. table' = [table EXCEPT ![row] = [s EXCEPT ![i].frozen = TRUE]]
      BY <2>1, <2>5 DEF Gwent!HeroAbility
    <3> HIDE DEF i
    <3> QED BY <2>1, <2>3, <3>1, <3>2, OneFreezes
  <2>6. CASE name = "Empress Thorina"
    <3> DEFINE i == Gwent!FirstMost(s, "health")
    <3>1. i \in DOMAIN s
      BY <2>1, <2>4, <2>6 DEF Gwent!AttackingHeroes
    <3>2. table' = [table EXCEPT ![row] = Gwent!RemoveAt(s, i)]
      BY <2>1, <2>6 DEF Gwent!HeroAbility
    <3> HIDE DEF i
    <3> QED BY <2>1, <2>3, <3>1, <3>2, OneLeaves
  <2>7. CASE name = "King Mudface"
    <3> DEFINE u == [j \in DOMAIN s |-> [s[j] EXCEPT !.health = s[j].health + 1]]
    <3>1. table' = [table EXCEPT ![row] = u]
      BY <2>1, <2>7 DEF Gwent!HeroAbility
    <3>2. ASSUME NEW j \in DOMAIN s
          PROVE  u[j] \in GCard /\ Gentle(s[j], u[j]) /\ u[j].health > 0
      <4> DEFINE c == s[j]
                 n == c.health + 1
      <4>1. c \in GCard /\ n \in Int /\ n > 0
        BY <2>2 DEF GCard, Gwent!Card
      <4>2. u[j] = [c EXCEPT !.health = n]
        OBVIOUS
      <4> HIDE DEF c, n, u
      <4>3. /\ u[j] \in GCard /\ u[j].id = c.id /\ u[j].health = n
            /\ u[j].frozen = c.frozen /\ u[j].attacked = c.attacked
        BY <4>1, <4>2 DEF GCard, Gwent!Card
      <4> QED BY <4>1, <4>3 DEF c, Gentle
    <3>3. DOMAIN u = DOMAIN s /\ u = [j \in DOMAIN s |-> u[j]]
      OBVIOUS
    <3> HIDE DEF u
    <3> QED BY <2>1, <2>3, <3>1, <3>2, <3>3, EachChanges
  <2>8. CASE name = "General Kocioraw"
    <3> DEFINE u == [j \in DOMAIN s |-> [s[j] EXCEPT !.damage = s[j].damage + 1]]
    <3>1. table' = [table EXCEPT ![row] = u]
      BY <2>1, <2>8 DEF Gwent!HeroAbility
    <3>2. ASSUME NEW j \in DOMAIN s
          PROVE  u[j] \in GCard /\ Gentle(s[j], u[j]) /\ u[j].health > 0
      <4> DEFINE c == s[j]
                 n == c.damage + 1
      <4>1. c \in GCard /\ n \in Nat /\ c.health > 0
        BY <2>2 DEF GCard, Gwent!Card
      <4>2. u[j] = [c EXCEPT !.damage = n]
        OBVIOUS
      <4> HIDE DEF c, n, u
      <4>3. /\ u[j] \in GCard /\ u[j].id = c.id /\ u[j].health = c.health
            /\ u[j].frozen = c.frozen /\ u[j].attacked = c.attacked
        BY <4>1, <4>2 DEF GCard, Gwent!Card
      <4> QED BY <4>1, <4>3 DEF c, Gentle
    <3>3. DOMAIN u = DOMAIN s /\ u = [j \in DOMAIN s |-> u[j]]
      OBVIOUS
    <3> HIDE DEF u
    <3> QED BY <2>1, <2>3, <3>1, <3>2, <3>3, EachChanges
  <2> QED BY <2>2, <2>5, <2>6, <2>7, <2>8 DEF Heroes, Gwent!AttackingHeroes
<1> QED BY <1>1, <1>2

(* The turns finished are a number.                                        *)
LEMMA TurnsCounted == endTurn \in Nat /\ [Gwent!Next]_vars => endTurn' \in Nat
<1> SUFFICES ASSUME endTurn \in Nat, [Gwent!Next]_vars PROVE endTurn' \in Nat
  OBVIOUS
<1>1. CASE Gwent!NewGame
  BY <1>1 DEF Gwent!NewGame
<1>2. CASE Gwent!EndPlayerTurn
  BY <1>2 DEF Gwent!EndPlayerTurn
<1>3. CASE UNCHANGED vars
  BY <1>3 DEF vars
<1>4. ASSUME NEW i, Gwent!PlaceCard(i) PROVE endTurn' \in Nat
  BY <1>4 DEF Gwent!PlaceCard, Gwent!Refuse, Gwent!board
<1>5. ASSUME NEW i, NEW row, Gwent!UseEnvironmentCard(i, row) PROVE endTurn' \in Nat
  BY <1>5 DEF Gwent!UseEnvironmentCard, Gwent!Refuse, Gwent!Throw, Gwent!board
<1>6. ASSUME NEW a, NEW t, Gwent!CardUsesAttack(a, t) PROVE endTurn' \in Nat
  BY <1>6 DEF Gwent!CardUsesAttack, Gwent!Strike, Gwent!Refuse, Gwent!board
<1>7. ASSUME NEW a, NEW t, Gwent!CardUsesAbility(a, t) PROVE endTurn' \in Nat
  BY <1>7 DEF Gwent!CardUsesAbility, Gwent!Strike, Gwent!Refuse, Gwent!board
<1>8. ASSUME NEW a, Gwent!UseAttackHero(a) PROVE endTurn' \in Nat
  BY <1>8 DEF Gwent!UseAttackHero, Gwent!Refuse, Gwent!board
<1>9. ASSUME NEW row, Gwent!UseHeroAbility(row) PROVE endTurn' \in Nat
  BY <1>9 DEF Gwent!UseHeroAbility, Gwent!Refuse, Gwent!Throw, Gwent!board
<1> QED BY <1>1, <1>2, <1>3, <1>4, <1>5, <1>6, <1>7, <1>8, <1>9 DEF Gwent!Next

LEMMA GwentStep ==
  GwentInv /\ endTurn \in Nat /\ [Gwent!Next]_vars => GwentInv' /\ Gwent!FrozenStays
<1> SUFFICES ASSUME GwentInv, endTurn \in Nat, [Gwent!Next]_vars
             PROVE  GwentInv' /\ Gwent!FrozenStays
  OBVIOUS
<1>1. CASE Gwent!NewGame
  <2>1. games \in Nat
    BY DEF GwentInv, GwentTypes
  <2> QED BY <1>1, <2>1, Deals
<1>2. CASE Gwent!EndPlayerTurn
  BY <1>2, EndsTurn
<1>3. ASSUME NEW i \in DOMAIN hand[turn], Gwent!PlaceCard(i)
      PROVE  GwentInv' /\ Gwent!FrozenStays
  BY <1>3, Places
<1>4. ASSUME NEW i \in DOMAIN hand[turn], NEW row \in Gwent!Rows, Gwent!UseEnvironmentCard(i, row)
      PROVE  GwentInv' /\ Gwent!FrozenStays
  BY <1>4, UsesEnvironment DEF Gwent!Rows, Rows
<1>5. ASSUME NEW a \in Gwent!Positions, NEW t \in Gwent!Positions, Gwent!CardUsesAttack(a, t)
      PROVE  GwentInv' /\ Gwent!FrozenStays
  BY <1>5, Attacks
<1>6. ASSUME NEW a \in Gwent!Positions, NEW t \in Gwent!Positions, Gwent!CardUsesAbility(a, t)
      PROVE  GwentInv' /\ Gwent!FrozenStays
  BY <1>6, UsesAbility
<1>7. ASSUME NEW a \in Gwent!Positions, Gwent!UseAttackHero(a)
      PROVE  GwentInv' /\ Gwent!FrozenStays
  BY <1>7, AttacksHero
<1>8. ASSUME Gwent!Playing, NEW row \in Gwent!Rows, Gwent!UseHeroAbility(row)
      PROVE  GwentInv' /\ Gwent!FrozenStays
  <2>1. games > 0 /\ row \in Rows
    BY <1>8 DEF Gwent!Playing, Gwent!Rows, Rows
  <2> QED BY <1>8, <2>1, UsesHero
<1>9. CASE UNCHANGED vars
  <2>1. UNCHANGED Gwent!board
    BY <1>9 DEF vars, Gwent!board
  <2> QED BY <2>1, Refuses
<1> QED BY <1>1, <1>2, <1>3, <1>4, <1>5, <1>6, <1>7, <1>8, <1>9 DEF Gwent!Next

LEMMA GwentBegins == Gwent!Init => GwentInv /\ endTurn \in Nat
<1> SUFFICES ASSUME Gwent!Init PROVE GwentInv /\ endTurn \in Nat
  OBVIOUS
<1>0. <<>> \in Seq(GCard) /\ DOMAIN <<>> = {}
  OBVIOUS
<1>1. /\ deck = [p \in Players |-> <<>>] /\ hand = [p \in Players |-> <<>>]
      /\ table = [r \in Rows |-> <<>>] /\ turn = 1 /\ start = 1 /\ games = 0 /\ endTurn = 0
      /\ hero = [p \in Players |-> [name |-> "none", mana |-> 0, health |-> 0, attacked |-> FALSE]]
  BY DEF Gwent!Init, Gwent!Players, Players, Gwent!Rows, Rows
<1>2. deck \in Lists /\ hand \in Lists /\ table \in [Rows -> Seq(GCard)]
  BY <1>0, <1>1 DEF Lists
<1>3. /\ \A p \in Players : DOMAIN deck[p] = {} /\ DOMAIN hand[p] = {}
      /\ \A r \in Rows : DOMAIN table[r] = {}
  BY <1>0, <1>1
<1>4. GwentTypes
  <2>1. turn \in Players /\ start \in Players /\ games \in Nat /\ ~(games > 0)
    BY <1>1 DEF Players
  <2>2. hero \in [Players -> Hero]
    BY <1>1 DEF Hero
  <2> QED BY <1>2, <2>1, <2>2 DEF GwentTypes
<1>5. AllSturdy(deck) /\ AllSturdy(hand) /\ Gwent!NoDeadCard
  BY <1>3 DEF AllSturdy, Gwent!NoDeadCard, Gwent!Rows, Rows
<1>6. Different(Cards(deck, hand, table))
  <2> DEFINE C == Cards(deck, hand, table)
  <2>1. /\ \A p \in Players : C[<<p, "deck">>] = deck[p] /\ C[<<p, "hand">>] = hand[p]
        /\ \A r \in Rows : C[<<r, "row">>] = table[r]
    <3>1. \A p \in Players : C[<<p, "deck">>] = deck[p] /\ C[<<p, "hand">>] = hand[p]
      BY DEF Cards, PlaceNames
    <3>2. \A r \in Rows : C[<<r, "row">>] = table[r]
      BY DEF Cards, PlaceNames
    <3> QED BY <3>1, <3>2
  <2> HIDE DEF C
  <2>2. ASSUME NEW x \in PlaceNames PROVE DOMAIN C[x] = {}
    <3>1. CASE \E r \in Rows : x = <<r, "row">>
      BY <1>3, <2>1, <3>1
    <3>2. CASE \E p \in Players : x = <<p, "deck">> \/ x = <<p, "hand">>
      BY <1>3, <2>1, <3>2
    <3> QED BY <3>1, <3>2 DEF PlaceNames
  <2> QED BY <2>2 DEF C, Different
<1> QED BY <1>1, <1>4, <1>5, <1>6 DEF GwentInv

LEMMA GwentHolds == GamesSpec => [](GwentInv /\ endTurn \in Nat)
<1>1. GwentInv /\ endTurn \in Nat /\ [Gwent!Next]_vars => (GwentInv /\ endTurn \in Nat)'
  BY GwentStep, TurnsCounted
<1> QED BY <1>1, GwentBegins, GwentAlone, PTL

LEMMA InOnePlace == Different(Cards(deck, hand, table)) => Gwent!OnePlaceEach
<1> SUFFICES ASSUME Different(Cards(deck, hand, table)) PROVE Gwent!OnePlaceEach
  OBVIOUS
<1> DEFINE C == Cards(deck, hand, table)
           P == Gwent!Places
<1>1. DOMAIN P = PlaceNames
  BY DEF Gwent!Places, PlaceNames, Gwent!Players, Players, Gwent!Rows, Rows
<1>2. ASSUME NEW x \in PlaceNames
      PROVE  DOMAIN P[x] = DOMAIN C[x] /\ \A i \in DOMAIN C[x] : P[x][i] = C[x][i].id
  <2>1. P[x] = Gwent!Ids(C[x])
    BY DEF Gwent!Places, Cards, PlaceNames, Gwent!Players, Players, Gwent!Rows, Rows
  <2> HIDE DEF C, P
  <2> QED BY <2>1 DEF Gwent!Ids
<1>3. Different(C)
  OBVIOUS
<1> HIDE DEF C, P
<1>4. ASSUME NEW x \in PlaceNames PROVE Gwent!IsInjective(P[x])
  BY <1>2, <1>3 DEF Different, Gwent!IsInjective
<1>5. ASSUME NEW x \in PlaceNames, NEW y \in PlaceNames, x # y
      PROVE  Gwent!Range(P[x]) \cap Gwent!Range(P[y]) = {}
  BY <1>2, <1>3, <1>5 DEF Different, Gwent!Range
<1> QED BY <1>1, <1>4, <1>5 DEF Gwent!OnePlaceEach, P

(* Every card on the table is alive and no card is in two places, for all  *)
(* decks of different cards: dealing, drawing, placing, striking, stealing *)
(* and the abilities move the cards of ForActions and SmallFunctions from  *)
(* list to list and leave no copy and no card without health behind.       *)
THEOREM CardsStaySound == GamesSpec => []CardsSound
<1>1. GwentInv => CardsSound
  BY InOnePlace DEF GwentInv, CardsSound
<1> QED BY <1>1, GwentHolds, PTL

(* A frozen card keeps its ice and does not act until the player on whose  *)
(* row it lies ends a turn: the checks "is frozen" of SmallFunctions guard *)
(* every use of a card, and no command but resetCards takes the ice away.  *)
THEOREM FrozenCardsWait == GamesSpec => FrozenWaits
<1>1. GwentInv /\ endTurn \in Nat /\ [Gwent!Next]_vars
        => [on = "GwentStone" => Gwent!FrozenStays]_vars
  BY GwentStep
<1> QED BY <1>1, GwentHolds, GwentAlone, PTL DEF FrozenWaits
==============================================================================
