---------------------------- MODULE MCStructures ----------------------------
(* The instances TLC checks of the data structures: the search of the       *)
(* routing table (RouteLookup), the stations, the tree map with its cipher, *)
(* the two dictionaries and the array of sensors.  Each behaviour is of one *)
(* of them, and the state of the others does not change.                    *)
EXTENDS RouteLookup, Station, PackedArray

CONSTANTS MaxKey, Copies, Deletions, MaxText, ALPHABET, Messages,
          DictKeys, CAPACITY

VARIABLES on,
          t, nodes, size, freedUse, kept, deletions, cutOff, text, idx, info,
          keys, root, misled, items, chain, wild, count, undefined, revived

Map == INSTANCE Cipher WITH live <- nodes, undefined <- freedUse
Dict == INSTANCE Dictionaries WITH Keys <- DictKeys

mapVars == <<t, nodes, size, freedUse, kept, deletions, cutOff, text, idx, info>>
dictVars == <<keys, root, misled, items, chain, wild, count, undefined, revived>>

StructuresInit ==
  /\ on \in {"search", "station", "map", "cipher", "dictionaries", "array"}
  /\ Init /\ (on # "search" => rtable = <<>> /\ dest_ip = 0)
  /\ StationInit /\ Map!CipherInit /\ Dict!DictInit /\ PackedInit

Search == on = "search" /\ Next /\ UNCHANGED <<stationVars, mapVars, dictVars, packedVars>>
StationStep ==
  on = "station" /\ StationNext /\ UNCHANGED <<vars, mapVars, dictVars, packedVars>>
MapStep ==
  /\ on = "map" /\ Map!TreeNext
  /\ UNCHANGED <<text, idx, info, vars, stationVars, dictVars, packedVars>>
CipherStep ==
  on = "cipher" /\ Map!CipherNext /\ UNCHANGED <<vars, stationVars, dictVars, packedVars>>
DictStep ==
  on = "dictionaries" /\ Dict!DictNext /\ UNCHANGED <<vars, stationVars, mapVars, packedVars>>
ArrayStep ==
  on = "array" /\ PackedNext /\ UNCHANGED <<vars, stationVars, mapVars, dictVars>>

StructuresNext ==
  /\ UNCHANGED on
  /\ Search \/ StationStep \/ MapStep \/ CipherStep \/ DictStep \/ ArrayStep

StructuresSpec ==
  /\ StructuresInit
  /\ [][StructuresNext]_<<on, vars, stationVars, mapVars, dictVars, packedVars>>
---------------------------------------------------------------------------
MCMessages == {<<0, 1, -1, 2, 2, 0>>, <<-1, 2, 1, 0>>}
Sensor(type, a, b) == [type |-> type, nume1 |-> a, nume2 |-> b]
MCSensors == {Sensor(1, 1, 1), Sensor(2, 1, 2), Sensor(3, 2, 1)}
WithNegative == -1 .. 3
---------------------------------------------------------------------------
(* TreeMap.c: a search tree of live nodes with agreeing parent links,       *)
(* balanced until a node with two children goes, and threaded in order.     *)
TreeSound == on = "map" => Map!SearchTree /\ Map!Balanced /\ Map!ListInOrder
(* size counts the nodes (TreeMap.h).                                       *)
SizeIsNodes == on = "map" => Map!SizeIsNodes
(* No freed node is used.                                                   *)
NoFreedUse == on = "map" => Map!NoFreedUse
(* The list visits the duplicates too (TreeMap.c).                          *)
ListVisitsAll == on = "map" => Map!ListVisitsAll
(* Cipher.c: a range key has the positions of the words in the range, and   *)
(* decrypting gives back what was encrypted, whatever query made the key.   *)
CipherRight == on = "cipher" => Map!RangeExact /\ Map!DecryptUndoes
(* The query for a level key ends with a key (Cipher.c).                    *)
LevelQueryReturns == on = "cipher" => Map!LevelQueryReturns
(* The level key is of the level of the most frequent word (Cipher.c).      *)
LevelOfMostFrequent == on = "cipher" => Map!LevelOfMostFrequent
(* AVL.c and Hash.c, given the same commands, have the keys they leave.     *)
DictionariesAgree == on = "dictionaries" => Dict!TreeExact /\ Dict!SameAnswers
(* The table no longer finds a key it has deleted (Hash.c).                 *)
DeletedIsGone == on = "dictionaries" => Dict!DeletedIsGone
=============================================================================
