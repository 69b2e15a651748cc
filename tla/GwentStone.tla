----------------------------- MODULE GwentStone -----------------------------
(***************************************************************************)
(* The card game GwentStone: the table of four rows, the decks, hands,     *)
(* mana and heroes of two players, and one action per command that         *)
(* ForActions.forAc interprets.  A command that the code refuses leaves an *)
(* error in the output and nothing else; one that makes the code index     *)
(* outside a list ends the program.                                        *)
(***************************************************************************)
EXTENDS Integers, Sequences, SequencesExt

CONSTANTS
  Setups,   \* what a game may give the players: [deck, hero], each by player;
            \* the decks already shuffled
  MaxHealth,\* the health of a hero at the start, 30 in Main
  MaxCol,   \* the cards a row holds, 5 in SmallFunctions and CardInput
  MaxMana,  \* the most mana gained in a round, 10 in ForActions
  MaxTurns, \* bound: the turns of one game
  MaxGames  \* bound: the games of one input

VARIABLES
  deck, hand, mana, hero, wins, \* the two Player objects
  table,                        \* the cards on each of the four rows
  turn, endTurn,                \* GameInput: who plays, turns finished
  start, games,                 \* who starts this game, games begun
  out                           \* what the last command printed

vars == <<deck, hand, mana, hero, wins, table, turn, endTurn, start, games, out>>
board == <<deck, hand, mana, hero, wins, table, turn, endTurn, start, games>>

Players == {1, 2}
Rows == 0..3
Other(p) == 3 - p
FrontRow(p) == IF p = 1 THEN 2 ELSE 1
BackRow(p) == IF p = 1 THEN 3 ELSE 0
OwnRows(p) == {FrontRow(p), BackRow(p)}

Tanks == {"Goliath", "Warden"}
FrontCards == Tanks \cup {"The Ripper", "Miraj"}
Environment == {"Firestorm", "Winterfell", "Heart Hound"}
AttackingHeroes == {"Lord Royce", "Empress Thorina"}

OnTable(c) == c[1] \in Rows /\ c[2] \in DOMAIN table[c[1]]
At(c) == table[c[1]][c[2]]
HasTank(p) == \E r \in OwnRows(p) : \E i \in DOMAIN table[r] : table[r][i].name \in Tanks
Fresh(card) == [card EXCEPT !.frozen = FALSE, !.attacked = FALSE]

\* A command of a game that is under way; an exception ended the program.
Playing == games > 0 /\ out # "exception"

\* The first of the checks <<condition, message>> that fails, as the chains of
\* early returns in SmallFunctions print it.
FirstError(checks) ==
  LET i == SelectInSeq(checks, LAMBDA c : c[1])
  IN  IF i = 0 THEN "none" ELSE checks[i][2]
Refuse(message) == out' = message /\ UNCHANGED board
Throw == out' = "exception" /\ UNCHANGED board
Spend(m) == mana' = [mana EXCEPT ![turn] = @ - m]

\* The position of the first of the cards with the most health or damage.
FirstMost(row, field) ==
  CHOOSE i \in DOMAIN row : \A j \in DOMAIN row :
    \/ row[j][field] < row[i][field]
    \/ row[j][field] = row[i][field] /\ i <= j

TakeCard(d, h) == IF d = <<>> THEN <<d, h>> ELSE <<Tail(d), Append(h, Fresh(Head(d)))>>

\* A new game of the input: Main deals decks and heroes and clears the table.
NewGame ==
  /\ out # "exception" /\ games < MaxGames /\ games' = games + 1
  /\ \E g \in Setups :
       /\ deck' = [p \in Players |-> Tail(g.deck[p])]
       /\ hand' = [p \in Players |-> <<Fresh(Head(g.deck[p]))>>]
       /\ hero' = [p \in Players |-> [name |-> g.hero[p], mana |-> 1,
                                      health |-> MaxHealth, attacked |-> FALSE]]
  /\ mana' = [p \in Players |-> 1] /\ table' = [r \in Rows |-> <<>>]
  /\ start' \in Players /\ turn' = start' /\ endTurn' = 0
  /\ out' = "new game" /\ UNCHANGED wins

Init ==
  /\ deck = [p \in Players |-> <<>>] /\ hand = deck /\ mana = [p \in Players |-> 0]
  /\ hero = [p \in Players |-> [name |-> "none", mana |-> 0, health |-> 0, attacked |-> FALSE]]
  /\ wins = mana /\ table = [r \in Rows |-> <<>>]
  /\ turn = 1 /\ start = 1 /\ endTurn = 0 /\ games = 0 /\ out = "new game"

(* Mutant: the cards of the other player are reset.                        *)
ResetCardsOfOther(p) ==
  /\ table' = [r \in Rows |-> IF r \in OwnRows(Other(p))
                 THEN [i \in DOMAIN table[r] |-> Fresh(table[r][i])] ELSE table[r]]
  /\ hero' = [hero EXCEPT ![p].attacked = FALSE]
ResetCards(p) ==
  /\ table' = [r \in Rows |-> IF r \in OwnRows(p)
                 THEN [i \in DOMAIN table[r] |-> Fresh(table[r][i])] ELSE table[r]]
  /\ hero' = [hero EXCEPT ![p].attacked = FALSE]
IncMana(end) == IF end \div 2 + 1 < MaxMana THEN end \div 2 + 1 ELSE MaxMana
EndPlayerTurn ==
  /\ endTurn < MaxTurns
  /\ endTurn' = endTurn + 1 /\ out' = "done"
  /\ ResetCards(turn)
  /\ \/ /\ endTurn' % 2 = 0
        /\ deck' = [p \in Players |-> TakeCard(deck[p], hand[p])[1]]
        /\ hand' = [p \in Players |-> TakeCard(deck[p], hand[p])[2]]
        /\ mana' = [p \in Players |-> mana[p] + IncMana(endTurn')]
        /\ turn' = start
     \/ /\ endTurn' % 2 = 1
        /\ turn' = Other(turn) /\ UNCHANGED <<deck, hand, mana>>
  /\ UNCHANGED <<wins, start, games>>

RowOf(card) == IF card.name \in FrontCards THEN FrontRow(turn) ELSE BackRow(turn)
PlaceError(card) == FirstError(<<
  <<card.name \in Environment, "environment">>,
  <<card.mana > mana[turn], "mana">>,
  <<Len(table[RowOf(card)]) >= MaxCol, "full">> >>)
PlaceCard(i) ==
  LET card == hand[turn][i]
      e == PlaceError(card)
  IN  \/ e # "none" /\ Refuse(e)
      \/ /\ e = "none"
         /\ table' = [table EXCEPT ![RowOf(card)] = Append(@, Fresh(card))]
         /\ hand' = [hand EXCEPT ![turn] = RemoveAt(@, i)]
         /\ Spend(card.mana) /\ out' = "done"
         /\ UNCHANGED <<deck, hero, wins, turn, endTurn, start, games>>

\* The row a stolen card goes to: the code mirrors the rows as 4 - row.
StealRow(row) == 4 - row
HoundThrows(row) ==
  IF StealRow(row) \in Rows THEN Len(table[StealRow(row)]) < MaxCol /\ table[row] = <<>>
                            ELSE TRUE
EnvironmentError(card, row) == FirstError(<<
  <<card.name \notin Environment, "environment">>,
  <<card.mana > mana[turn], "mana">>,
  <<row \in OwnRows(turn), "enemy row">> >>)
\* The loop that takes the cards with no health left from a row.
Living(row) ==
  LET living[k \in 0..Len(row)] ==
        IF k = 0 THEN <<>>
        ELSE IF row[k].health = 0 THEN living[k-1] ELSE Append(living[k-1], row[k])
  IN  living[Len(row)]
Firestorm(row) ==
  LET hit == [i \in DOMAIN table[row] |-> [table[row][i] EXCEPT !.health = @ - 1]]
  IN  table' = [table EXCEPT ![row] = Living(hit)]
Winterfell(row) ==
  LET frozen == [i \in DOMAIN table[row] |-> [table[row][i] EXCEPT !.frozen = TRUE]]
  IN  table' = [table EXCEPT ![row] = frozen]
HeartHound(row) ==
  LET i == FirstMost(table[row], "health")
      left == [table EXCEPT ![row] = RemoveAt(@, i)]
  IN  table' = [left EXCEPT ![StealRow(row)] = Append(@, table[row][i])]
UseEnvironmentCard(i, row) ==
  LET card == hand[turn][i]
      e == EnvironmentError(card, row)
      hound == card.name = "Heart Hound"
      full == StealRow(row) \in Rows /\ Len(table[StealRow(row)]) >= MaxCol
  IN  \/ e # "none" /\ Refuse(e)
      \/ e = "none" /\ hound /\ HoundThrows(row) /\ Throw
      \/ e = "none" /\ hound /\ full /\ Refuse("full")
      \/ /\ e = "none"
         /\ \/ hound /\ ~HoundThrows(row) /\ ~full /\ HeartHound(row)
            \/ card.name = "Firestorm" /\ Firestorm(row)
            \/ card.name = "Winterfell" /\ Winterfell(row)
         /\ hand' = [hand EXCEPT ![turn] = RemoveAt(@, i)]
         /\ Spend(card.mana) /\ out' = "done"
         /\ UNCHANGED <<deck, hero, wins, turn, endTurn, start, games>>

(* Mutant: a card without health stays on the table.                       *)
StrikeKeepsDead(a, t, attacker, target) ==
  LET marked == [table EXCEPT ![a[1]][a[2]] = [attacker EXCEPT !.attacked = TRUE]]
      struck == [marked EXCEPT ![t[1]][t[2]] =
                   [@ EXCEPT !.health = target.health, !.damage = target.damage]]
  IN  /\ table' = IF target.health < 0 THEN [struck EXCEPT ![t[1]] = RemoveAt(@, t[2])]
                                       ELSE struck
      /\ out' = "done"
      /\ UNCHANGED <<deck, hand, mana, hero, wins, turn, endTurn, start, games>>
\* A card strikes or uses its ability: it is marked as having attacked, the
\* target takes its new value and leaves the table without health.  The two
\* positions may be the same card.
Strike(a, t, attacker, target) ==
  LET marked == [table EXCEPT ![a[1]][a[2]] = [attacker EXCEPT !.attacked = TRUE]]
      struck == [marked EXCEPT ![t[1]][t[2]] =
                   [@ EXCEPT !.health = target.health, !.damage = target.damage]]
  IN  /\ table' = IF target.health <= 0 THEN [struck EXCEPT ![t[1]] = RemoveAt(@, t[2])]
                                        ELSE struck
      /\ out' = "done"
      /\ UNCHANGED <<deck, hand, mana, hero, wins, turn, endTurn, start, games>>
AttackError(a, t) == FirstError(<<
  <<t[1] \in OwnRows(turn), "enemy card">>,
  <<At(a).attacked, "attacked">>,
  <<At(a).frozen, "frozen">>,
  <<At(t).name \notin Tanks /\ HasTank(Other(turn)), "tank">> >>)
CardUsesAttack(a, t) ==
  LET e == AttackError(a, t)
  IN  \/ e # "none" /\ Refuse(e)
      \/ /\ e = "none"
         /\ Strike(a, t, At(a), [At(t) EXCEPT !.health = @ - At(a).damage])

AbilityError(a, t) ==
  LET disciple == At(a).name = "Disciple"
  IN FirstError(<<
       <<At(a).frozen, "frozen">>,
       <<At(a).attacked, "attacked">>,
       <<disciple /\ t[1] \in OwnRows(Other(turn)), "own card">>,
       <<~disciple /\ t[1] \in OwnRows(turn), "enemy card">>,
       <<~disciple /\ At(t).name \notin Tanks /\ HasTank(Other(turn)), "tank">> >>)
Ability(user, target) ==
  CASE user.name = "The Ripper" ->
         [target EXCEPT !.damage = IF @ < 2 THEN 0 ELSE @ - 2]
    [] user.name = "Miraj" -> [target EXCEPT !.health = user.health]
    [] user.name = "The Cursed One" ->
         [target EXCEPT !.health = target.damage, !.damage = target.health]
    [] user.name = "Disciple" -> [target EXCEPT !.health = @ + 2]
    [] OTHER -> target
CardUsesAbility(a, t) ==
  LET e == AbilityError(a, t)
      user == IF At(a).name = "Miraj" THEN [At(a) EXCEPT !.health = At(t).health] ELSE At(a)
  IN  \/ e # "none" /\ Refuse(e)
      \/ e = "none" /\ Strike(a, t, user, Ability(At(a), At(t)))

AttackHeroError(a) == FirstError(<<
  <<At(a).frozen, "frozen">>,
  <<At(a).attacked, "attacked">>,
  <<HasTank(Other(turn)), "tank">> >>)
UseAttackHero(a) ==
  LET e == AttackHeroError(a)
      health == hero[Other(turn)].health - At(a).damage
  IN  \/ e # "none" /\ Refuse(e)
      \/ /\ e = "none"
         /\ table' = [table EXCEPT ![a[1]][a[2]].attacked = TRUE]
         /\ hero' = [hero EXCEPT ![Other(turn)].health = health]
         /\ wins' = IF health <= 0 THEN [wins EXCEPT ![turn] = @ + 1] ELSE wins
         /\ out' = IF health <= 0 THEN "hero killed" ELSE "done"
         /\ UNCHANGED <<deck, hand, mana, turn, endTurn, start, games>>

HeroError(row) ==
  LET h == hero[turn]
  IN FirstError(<<
       <<mana[turn] < h.mana, "mana">>,
       <<h.attacked, "attacked">>,
       <<h.name \in AttackingHeroes /\ row \in OwnRows(turn), "enemy row">>,
       <<h.name \notin AttackingHeroes /\ row \in OwnRows(Other(turn)), "own row">> >>)
HeroAbility(name, row) ==
  CASE name = "Lord Royce" ->
         [row EXCEPT ![FirstMost(row, "damage")].frozen = TRUE]
    [] name = "Empress Thorina" -> RemoveAt(row, FirstMost(row, "health"))
    [] name = "King Mudface" -> [i \in DOMAIN row |-> [row[i] EXCEPT !.health = @ + 1]]
    [] name = "General Kocioraw" -> [i \in DOMAIN row |-> [row[i] EXCEPT !.damage = @ + 1]]
UseHeroAbility(row) ==
  LET e == HeroError(row)
      throws == hero[turn].name \in AttackingHeroes /\ table[row] = <<>>
  IN  \/ e # "none" /\ Refuse(e)
      \/ e = "none" /\ throws /\ Throw
      \/ /\ e = "none" /\ ~throws
         /\ table' = [table EXCEPT ![row] = HeroAbility(hero[turn].name, @)]
         /\ hero' = [hero EXCEPT ![turn].attacked = TRUE]
         /\ Spend(hero[turn].mana) /\ out' = "done"
         /\ UNCHANGED <<deck, hand, wins, turn, endTurn, start, games>>

Positions == {c \in Rows \X (1..MaxCol) : OnTable(c)}
Next ==
  \/ NewGame
  \/ Playing /\ EndPlayerTurn
  \/ Playing /\ \E i \in DOMAIN hand[turn] : PlaceCard(i)
  \/ Playing /\ \E i \in DOMAIN hand[turn], row \in Rows : UseEnvironmentCard(i, row)
  \/ Playing /\ \E a, t \in Positions : CardUsesAttack(a, t)
  \/ Playing /\ \E a, t \in Positions : CardUsesAbility(a, t)
  \/ Playing /\ \E a \in Positions : UseAttackHero(a)
  \/ Playing /\ \E row \in Rows : UseHeroAbility(row)
Spec == Init /\ [][Next]_vars

-----------------------------------------------------------------------------
Card == [id : Nat, name : STRING, mana : Nat, health : Int, damage : Nat,
         frozen : BOOLEAN, attacked : BOOLEAN]
\* Rows keep within MaxCol, and nobody spends mana they do not have, although
\* the cost is subtracted by the caller of the code that tests it.
TypeOK ==
  /\ \A r \in Rows : table[r] \in Seq(Card) /\ Len(table[r]) <= MaxCol
  /\ \A p \in Players : deck[p] \in Seq(Card) /\ hand[p] \in Seq(Card) /\ mana[p] \in Nat
  /\ turn \in Players /\ start \in Players
  /\ \A p \in Players : hero[p].health <= MaxHealth /\ wins[p] \in Nat

\* A card on the table is alive: every command that lowers or exchanges health
\* takes the dead from the table, so Firestorm may compare with 0 exactly.
NoDeadCard == \A r \in Rows : \A i \in DOMAIN table[r] : table[r][i].health > 0

\* A card is in one place: dealing, drawing, placing, stealing and playing move
\* a copy of it and never leave the original behind.
Ids(s) == [i \in DOMAIN s |-> s[i].id]
Places == [x \in (Players \X {"deck", "hand"}) \cup {<<r, "row">> : r \in Rows} |->
             IF x[2] = "row" THEN Ids(table[x[1]])
             ELSE IF x[2] = "hand" THEN Ids(hand[x[1]]) ELSE Ids(deck[x[1]])]
OnePlaceEach ==
  /\ \A x \in DOMAIN Places : IsInjective(Places[x])
  /\ \A x, y \in DOMAIN Places : x # y =>
       Range(Places[x]) \cap Range(Places[y]) = {}

\* A frozen card neither acts nor thaws until its side ends a turn.
CardsNow(r) == Range(table[r])
FrozenStays ==
  \A r \in Rows : \A c \in CardsNow(r) : c.frozen =>
    \A q \in Rows : \A d \in Range(table'[q]) : d.id = c.id =>
      \/ d.frozen /\ d.attacked = c.attacked
      \/ out' = "new game"
      \/ endTurn' # endTurn /\ r \in OwnRows(turn) /\ q = r
FrozenWaits == [][FrozenStays]_vars

\* "the player will steal the opponent's card that has the most health and
\* place it on their row" (CardInput.java): the opponent loses a card.
CardsOf(p) == Len(table[FrontRow(p)]) + Len(table[BackRow(p)])
HoundSteals ==
  [][(\E i \in DOMAIN hand[turn] : /\ hand[turn][i].name = "Heart Hound"
                                  /\ hand'[turn] = RemoveAt(hand[turn], i)) =>
       CardsOf(Other(turn))' < CardsOf(Other(turn))]_vars

\* "the game ends and the player's amount of games won will be increased"
\* (CardInput.java): nobody wins a game twice.
WonOnce == wins[1] + wins[2] <= games
=============================================================================
