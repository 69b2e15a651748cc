CONSTANTS
  Setups <- MCSetups
  MaxHealth = 2
  MaxCol = 2
  MaxMana = 2
  MaxTurns = 3
  MaxGames = 1
  Accounts <- MCAccounts
  Registered = {"ana"}
  Films <- MCFilms
  Listed = {"ice"}
  Rates = {5, 6}
  TokenPrice = 2
  PremiumPrice = 10
  FreeFilms = 1
  MaxRating = 5
  MaxStack = 1
  MaxUses = 4
SPECIFICATION GamesSpec
INVARIANTS
  CardsSound
  CrtMoviesFresh
  AccountsAgree
PROPERTIES
  FrozenWaits
CHECK_DEADLOCK FALSE
