CONSTANTS
  Limit = 8
  Sizes = {1, 2, 8}
  MaxRoutes = 3
  platforms_no = 2
  Powers = {1, 3}
  Weights = {1, 2}
  MaxCars = 3
  SamePlatform = FALSE
  MaxKey = 4
  Copies = 2
  Deletions = 2
  MaxText = 5
  ALPHABET = 3
  Messages <- MCMessages
  DictKeys = {1, 2, 3, 4, 5}
  CAPACITY = 2
  Sensors <- MCSensors
  Indexes = {0, 1, 2, 3}
  MaxLen = 3
  Copy = "whole"
SPECIFICATION StructuresSpec
INVARIANTS
  FindsDisjoint
  HeaviestFound
  TreeSound
  CipherRight
  DictionariesAgree
  PackedIsList
PROPERTIES
  StationIsTrains
CHECK_DEADLOCK FALSE
