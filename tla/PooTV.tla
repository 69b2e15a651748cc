-------------------------------- MODULE PooTV --------------------------------
(***************************************************************************)
(* POO TV, stage 2: one session of the movie platform.  Actions.action     *)
(* reads a list of requests; each one moves between pages, uses a feature  *)
(* of the page, goes back, or changes the movie database.  A request the   *)
(* code refuses prints an error; one that dereferences a missing account   *)
(* ends the program.  Lists whose order only the printing shows are sets.  *)
(***************************************************************************)
EXTENDS Integers, Sequences, FiniteSets

CONSTANTS
  Accounts,   \* name |-> [country, premium]: everyone who may log in or register
  Registered, \* the names in the input's list of users
  Films,      \* film |-> [name, genres, banned]: one per MovieInput object
  Listed,     \* the films in the input's list of movies
  Rates,      \* the grades that requests give
  TokenPrice, \* the tokens a film costs, 2
  PremiumPrice, \* the tokens a premium account costs, 10
  FreeFilms,  \* the free films of an account, 15
  MaxRating,  \* the highest grade, 5
  MaxStack, MaxUses \* bounds: pages remembered, features used on films and accounts

VARIABLES
  users,    \* inputData.getUsers(): name |-> account
  movies,   \* inputData.getMovies()
  stats,    \* film |-> the counters of its MovieInput
  page, crtUser, crtMovies, stack, \* the locals of Actions.action
  coming,   \* the films that requests have still to add, each an object of its own
  uses,     \* features used on films and accounts so far
  out       \* what the last request printed

vars == <<users, movies, stats, page, crtUser, crtMovies, stack, coming, uses, out>>
session == <<page, crtUser, crtMovies, stack>>

Home == "homepage neautentificat"
Welcome == "homepage autentificat"
Genres == UNION {Films[f].genres : f \in DOMAIN Films}
Logged == crtUser \in DOMAIN users
NewAccount(n) ==
  [premium |-> Accounts[n].premium, country |-> Accounts[n].country, tokens |-> 0,
   free |-> FreeFilms, purchased |-> {}, watched |-> {}, liked |-> {}, rated |-> {},
   current |-> "none", notifications |-> <<>>, genres |-> {}]
Available == {m \in movies : users[crtUser].country \notin Films[m].banned}
Me == users[crtUser]
Named(name) == {m \in movies : Films[m].name = name}
Notify(account, message, name) ==
  [account EXCEPT !.notifications = Append(@, <<message, name>>)]

Init ==
  /\ users = [n \in Registered |-> NewAccount(n)] /\ movies = Listed
  /\ stats = [f \in DOMAIN Films |->
                [likes |-> 0, ratings |-> 0, sum |-> 0, watched |-> FALSE]]
  /\ page = Home /\ crtUser = "anonymous" /\ crtMovies = {} /\ stack = <<>>
  /\ coming = DOMAIN Films \ Listed /\ uses = 0 /\ out = "ok"

Error == out' = "error" /\ UNCHANGED <<users, movies, stats, session, uses>>
Crash == out' = "crashed" /\ UNCHANGED <<users, movies, stats, session, uses>>

Use == uses < MaxUses /\ uses' = uses + 1

\* Which pages a request may ask for on a page (Errors.checkErrorChangePage).
MayChange(from, to) ==
  /\ from = Home => to \in {"login", "register"}
  /\ from = "movies" => to \notin {"upgrades", "login", "register"}
  /\ from \in {Welcome, "see details", "upgrades"} => to \notin {"login", "register"}

ChangePage(to) ==
  /\ MayChange(page, to) /\ page' = to
  /\ out' = "ok" /\ UNCHANGED <<users, movies, stats, uses>>
ToLoginOrRegister ==
  \E to \in {"login", "register"} : ChangePage(to) /\ UNCHANGED <<crtUser, crtMovies, stack>>
(* Mutant: the list of films of the account is not emptied.                *)
LogoutKeepsFilms ==
  /\ MayChange(page, "logout")
  /\ page' = Home /\ crtUser' = "anonymous" /\ stack' = <<>>
  /\ out' = "ok" /\ UNCHANGED <<users, movies, stats, crtMovies, uses>>
Logout ==
  /\ MayChange(page, "logout")
  /\ page' = Home /\ crtUser' = "anonymous" /\ crtMovies' = {} /\ stack' = <<>>
  /\ out' = "ok" /\ UNCHANGED <<users, movies, stats, uses>>
ToMovies ==
  /\ Len(stack) < MaxStack /\ Logged
  /\ ChangePage("movies") /\ stack' = <<"movies">> \o stack
  /\ crtMovies' = Available /\ UNCHANGED crtUser
ToUpgrades ==
  /\ Len(stack) < MaxStack
  /\ ChangePage("upgrades") /\ stack' = <<"upgrades">> \o stack
  /\ UNCHANGED <<crtUser, crtMovies>>
SeeDetails(m) ==
  /\ Len(stack) < MaxStack
  /\ MayChange(page, "see details") /\ m \in crtMovies
  /\ page' = "see details" /\ stack' = <<"see details">> \o stack
  /\ users' = [users EXCEPT ![crtUser].current = m]
  /\ out' = "ok" /\ UNCHANGED <<movies, stats, crtUser, crtMovies, uses>>
\* Pages refused, films not in the list; nobody logged in asks for the films.
ChangeRefused ==
  \/ /\ \E to \in {"login", "register", "logout", "movies", "upgrades"} : ~MayChange(page, to)
     /\ Error
  \/ (\E f \in DOMAIN Films : f \notin crtMovies) /\ Error
  \/ MayChange(page, "movies") /\ ~Logged /\ Crash

\* Going back: from the details the list of films is made again, and its page
\* pushed and popped; elsewhere the top of the stack is the page that was
\* entered last.
Back ==
  \/ (stack = <<>> \/ page = Home) /\ Error
  \/ /\ stack # <<>> /\ page = "see details" /\ Logged
     /\ page' = "movies" /\ crtMovies' = Available
     /\ out' = "ok" /\ UNCHANGED <<users, movies, stats, crtUser, stack, uses>>
  \/ /\ stack # <<>> /\ page \notin {Home, "see details"}
     /\ page' = Head(stack) /\ stack' = Tail(stack)
     /\ out' = "ok" /\ UNCHANGED <<users, movies, stats, crtUser, crtMovies, uses>>

LoginWith(n, right) ==
  /\ page = "login"
  /\ \/ /\ n \in DOMAIN users /\ right
        /\ crtUser' = n /\ page' = Welcome /\ out' = "ok"
     \/ /\ ~(n \in DOMAIN users /\ right)
        /\ crtUser' = "null" /\ page' = Home /\ out' = "error"
  /\ UNCHANGED <<users, movies, stats, crtMovies, stack, uses>>
RegisterAs(n) ==
  /\ page = "register"
  /\ \/ /\ n \notin DOMAIN users
        /\ users' = [u \in DOMAIN users \cup {n} |-> IF u = n THEN NewAccount(n) ELSE users[u]]
        /\ crtUser' = n /\ page' = Welcome /\ out' = "ok"
     \/ /\ n \in DOMAIN users
        /\ page' = Home /\ out' = "error" /\ UNCHANGED <<users, crtUser>>
  /\ UNCHANGED <<movies, stats, crtMovies, stack, uses>>

\* The features of the page of films: a search only prints, a filter makes the
\* list of films again and keeps those of the genres asked for.
Filter(wanted) ==
  /\ page = "movies"
  /\ crtMovies' = {m \in Available : wanted \subseteq Films[m].genres}
  /\ out' = "ok" /\ UNCHANGED <<users, movies, stats, page, crtUser, stack, uses>>

\* The features of the page of upgrades, which may be reached without an account.
BuyTokens(n) ==
  /\ page = "upgrades"
  /\ \/ ~Logged /\ Crash
     \/ /\ Logged /\ Use /\ users' = [users EXCEPT ![crtUser].tokens = @ + n]
        /\ out' = "ok" /\ UNCHANGED <<movies, stats, session>>
BuyPremium ==
  /\ page = "upgrades"
  /\ \/ ~Logged /\ Crash
     \/ Logged /\ Me.premium /\ Error
     \/ /\ Logged /\ ~Me.premium /\ Use
        /\ users' = [users EXCEPT ![crtUser] =
             [Me EXCEPT !.tokens = @ - PremiumPrice, !.premium = TRUE, !.free = FreeFilms]]
        /\ out' = "ok" /\ UNCHANGED <<movies, stats, session>>

\* The features of the page of one film.
Update(account, counters) ==
  /\ users' = [users EXCEPT ![crtUser] = account]
  /\ stats' = [stats EXCEPT ![Me.current] = counters]
  /\ Use /\ out' = "ok" /\ UNCHANGED <<movies, session>>
Purchase ==
  /\ page = "see details"
  /\ \/ Me.current \in Me.purchased /\ Error
     \/ /\ Me.current \notin Me.purchased
        /\ LET paid == IF Me.premium /\ Me.free > 0 THEN [Me EXCEPT !.free = @ - 1]
                                                     ELSE [Me EXCEPT !.tokens = @ - TokenPrice]
           IN  Update([paid EXCEPT !.purchased = @ \cup {Me.current}], stats[Me.current])
Watch ==
  /\ page = "see details"
  /\ \/ Me.current \notin Me.purchased /\ Error
     \/ /\ Me.current \in Me.purchased
        /\ Update([Me EXCEPT !.watched = @ \cup {Me.current}],
                  [stats[Me.current] EXCEPT !.watched = @ \/ Me.current \notin Me.watched])
\* What liking a film requires: the mark that it was watched is the film's.
MayLike == Me.current \in Me.purchased /\ stats[Me.current].watched
Like ==
  /\ page = "see details"
  /\ \/ ~MayLike /\ Error
     \/ /\ MayLike
        /\ Update([Me EXCEPT !.liked = @ \cup {Me.current}],
                  [stats[Me.current] EXCEPT !.likes = @ + 1])
\* A second grade of the same account adds to the sum and not to the count.
Graded(counters, again, grade) ==
  [counters EXCEPT !.sum = @ + grade, !.ratings = IF again THEN @ ELSE @ + 1]
Rate(grade) ==
  /\ page = "see details"
  /\ \/ Me.current \notin Me.purchased \cap Me.watched /\ Error
     \/ grade > MaxRating /\ Error
     \/ /\ Me.current \in Me.purchased \cap Me.watched /\ grade <= MaxRating
        /\ Update([Me EXCEPT !.rated = @ \cup {Me.current}],
                  Graded(stats[Me.current], Me.current \in Me.rated, grade))
Subscribe(genre) ==
  /\ page = "see details"
  /\ \/ genre \notin Films[Me.current].genres /\ Error
     \/ /\ genre \in Films[Me.current].genres
        /\ Update([Me EXCEPT !.genres = @ \cup {genre}], stats[Me.current])
FeatureRefused == page \in {Home, Welcome} /\ Error

\* The database.  Adding needs an account for the country of the list shown.
NotifyAdd(account, f) ==
  IF /\ account.genres \cap Films[f].genres # {}
     /\ account.country \notin Films[f].banned
  THEN Notify(account, "ADD", Films[f].name) ELSE account
AddMovie(f) ==
  \/ Named(Films[f].name) # {} /\ Error
  \/ Named(Films[f].name) = {} /\ ~Logged /\ Crash
  \/ /\ Named(Films[f].name) = {} /\ Logged
     /\ movies' = movies \cup {f}
     /\ users' = [u \in DOMAIN users |-> NotifyAdd(users[u], f)]
     /\ crtMovies' = IF Me.country \in Films[f].banned THEN crtMovies ELSE crtMovies \cup {f}
     /\ out' = "ok" /\ UNCHANGED <<stats, page, crtUser, stack, uses>>

Without(s, name) == {m \in s : Films[m].name # name}
(* Mutant: the film stays among the watched ones.                          *)
DeleteButWatched(account, name) ==
  [account EXCEPT !.purchased = Without(@, name),
                  !.liked = Without(@, name), !.rated = Without(@, name)]
\* The lists of the account that is logged in, and of no other one.
DeleteMovieFromUser(account, name) ==
  [account EXCEPT !.purchased = Without(@, name), !.watched = Without(@, name),
                  !.liked = Without(@, name), !.rated = Without(@, name)]
NotifyDelete(account, name) ==
  IF Without(account.purchased, name) = account.purchased THEN account
  ELSE Notify(IF account.premium THEN [account EXCEPT !.free = @ + 1]
                                 ELSE [account EXCEPT !.tokens = @ + TokenPrice],
              "DELETE", name)
DeleteMovie(name) ==
  \/ Named(name) = {} /\ Error
  \/ Named(name) # {} /\ crtUser = "null" /\ Crash
  \/ /\ Named(name) # {} /\ crtUser # "null"
     /\ movies' = Without(movies, name) /\ crtMovies' = Without(crtMovies, name)
     /\ users' = [u \in DOMAIN users |->
                    NotifyDelete(IF u = crtUser THEN DeleteMovieFromUser(users[u], name)
                                                ELSE users[u], name)]
     /\ out' = "ok" /\ UNCHANGED <<stats, page, crtUser, stack, uses>>

\* The end of the requests: a premium account that likes no film is told so.
Finish ==
  /\ UNCHANGED <<movies, stats, session, uses>>
  /\ \/ page = Home /\ out' = "ended" /\ UNCHANGED users
     \/ page # Home /\ ~Logged /\ out' = "crashed" /\ UNCHANGED users
     \/ /\ page # Home /\ Logged /\ out' = "ended"
        /\ users' = IF Me.premium /\ Me.liked = {}
                    THEN [users EXCEPT ![crtUser] = Notify(@, "Recommendation", "none")]
                    ELSE users

Pages ==
  \/ ToLoginOrRegister \/ Logout \/ ToMovies \/ ToUpgrades \/ ChangeRefused \/ Back
  \/ \E m \in crtMovies : SeeDetails(m)
Features ==
  \/ \E n \in DOMAIN Accounts, right \in BOOLEAN : LoginWith(n, right)
  \/ \E n \in DOMAIN Accounts : RegisterAs(n)
  \/ \E wanted \in SUBSET Genres : Filter(wanted)
  \/ BuyTokens(TokenPrice) \/ BuyPremium \/ Purchase \/ Watch \/ Like \/ FeatureRefused
  \/ \E grade \in Rates : Rate(grade)
  \/ \E genre \in Genres : Subscribe(genre)
Next ==
  /\ out \notin {"crashed", "ended"}
  /\ \/ /\ Pages \/ Features \/ (\E f \in DOMAIN Films : DeleteMovie(Films[f].name)) \/ Finish
        /\ UNCHANGED coming
     \/ \E f \in coming : AddMovie(f) /\ coming' = coming \ {f}
Spec == Init /\ [][Next]_vars

-----------------------------------------------------------------------------
\* The films shown are films of the database that the country of the account
\* may see, after every change of the database and of the account.
CrtMoviesFresh ==
  /\ crtMovies \subseteq movies
  /\ crtMovies # {} => Logged /\ crtMovies \subseteq Available

\* A film counts one rating for each account that rated it.
RatingsCounted ==
  \A m \in movies : stats[m].ratings = Cardinality({u \in DOMAIN users : m \in users[u].rated})

\* An account watches, likes and rates only what it bought, whatever is deleted.
WatchedBought ==
  \A u \in DOMAIN users :
    /\ users[u].watched \cup users[u].liked \subseteq users[u].purchased
    /\ users[u].rated \subseteq users[u].watched

\* "If the movie isn't purchased or watched, an error will be displayed"
\* (Movies.java, of liking): an account likes what it has watched.
LikedWatched == \A u \in DOMAIN users : users[u].liked \subseteq users[u].watched

\* "adding all the ratings and dividing it by the number of times it was rated"
\* (README.md): the rating does not pass the highest grade.
RatingIsAverage == \A m \in movies : stats[m].sum <= MaxRating * stats[m].ratings

\* "if the user bought the said movie, one free premium movie will be added to
\* their account. Otherwise, 2 tokens will be added" (Database.java).
BuyersRefunded ==
  [][\A f \in DOMAIN Films : f \in movies /\ f \notin movies' =>
       \A u \in DOMAIN users : f \in users[u].purchased =>
         \/ users'[u].tokens = users[u].tokens + TokenPrice
         \/ users'[u].free = users[u].free + 1]_vars
=============================================================================
