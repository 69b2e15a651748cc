--------------------------- MODULE MyHostProofs ---------------------------
(***************************************************************************)
(* Proofs about MyHost: what holds however the two threads interleave, and *)
(* what holds when addTask does not overlap the host's own accesses.       *)
(***************************************************************************)
EXTENDS MyHost, InductionLemmas, FiniteSetTheorems, SequenceTheorems

---------------------------------------------------------------------------
(* The inductive invariant, in parts.                                      *)

InList(t) == \E n \in 1 .. Cap : es[n] = t
Stored == {t \in Tasks : dpc[t] \notin {"new", "store"}}

(* The list is no longer than the tasks that were stored in it; neither is *)
(* the size that an add has read.                                          *)
SizeBound ==
  /\ size <= Cardinality(Stored)
  /\ \A t \in Tasks : dpc[t] = "store" => s <= Cardinality(Stored)

(* The dispatcher adds one task at a time, each once.                      *)
Adding ==
  \A t \in Tasks :
    /\ dpc[t] \in {"store", "time", "time2"} <=> adding = t
    /\ t \notin Stored => ~InList(t) /\ ~IsFinished(t)

(* An add that has read the size stores beyond the list, and beyond what a *)
(* remove is about to move.                                                *)
StoresBeyond ==
  \A t \in Tasks : dpc[t] = "store" =>
    size <= s /\ (hpc = "remove" => newSize < s)

(* Where the host's thread is in forEach and in remove.                    *)
HostLocals ==
  /\ hpc = "each" => /\ i \in 1 .. newSize + 1 /\ newSize \in 1 .. size
                     /\ i > 1 => taskCrt \in Tasks
  /\ hpc = "remove" => i \in 1 .. newSize + 1 /\ newSize < size /\ es[i] = taskCrt

(* A task is in the list once; the current task is in it.                  *)
ListedOnce ==
  /\ \A m, n \in 1 .. Cap : es[m] = es[n] /\ es[m] # Null => m = n
  /\ taskCrt # Null => Listed(taskCrt)

(* A finished task has nothing left and is out of the list, except while   *)
(* it is removed.                                                          *)
Over ==
  /\ \A t \in Tasks : IsFinished(t) =>
       left[t] <= 0 /\ (InList(t) => hpc = "remove" /\ t = taskCrt)
  /\ \A m, n \in 1 .. Len(finished) : finished[m] = finished[n] => m = n
  /\ hpc = "finish" => left[taskCrt] <= 0
  /\ hpc = "remove" => IsFinished(taskCrt)

IInv ==
  TypeOK /\ SizeBound /\ Adding /\ StoresBeyond /\ HostLocals /\ ListedOnce /\ Over
---------------------------------------------------------------------------
LEMMA CapIsNat == Cap \in Nat
  BY HostConstants, FS_CardinalityType DEF Cap

LEMMA NumbersAreInt ==
  /\ Durations \subseteq Int /\ Priorities \subseteq Int
  /\ Quantum \in Nat /\ Quantum > 0 /\ \A d \in Durations : d > 0
<1>1. Durations \subseteq Nat \ {0} /\ Quantum \in Nat \ {0} /\ Priorities \subseteq Int
  BY HostConstants
<1> QED BY <1>1

(* A task that is not stored yet leaves room in the list.                  *)
LEMMA StoredRoom ==
  ASSUME NEW t \in Tasks, t \notin Stored
  PROVE  /\ Cardinality(Stored) \in Nat
         /\ Cardinality(Stored) < Cap
         /\ Cardinality(Stored \cup {t}) = Cardinality(Stored) + 1
<1>1. IsFiniteSet(Stored) /\ Stored \cup {t} \subseteq Tasks
  BY HostConstants, FS_Subset DEF Stored
<1>2. Cardinality(Stored \cup {t}) = Cardinality(Stored) + 1
  BY <1>1, FS_AddElement
<1>3. Cardinality(Stored \cup {t}) <= Cap
  BY <1>1, HostConstants, FS_Subset DEF Cap
<1>4. Cardinality(Stored) \in Nat
  BY <1>1, FS_CardinalityType
<1> QED BY <1>2, <1>3, <1>4, CapIsNat

LEMMA StoredIsSmall == Cardinality(Stored) \in Nat /\ Cardinality(Stored) <= Cap
<1>1. Stored \subseteq Tasks
  BY DEF Stored
<1> QED BY <1>1, HostConstants, FS_Subset, FS_CardinalityType DEF Cap

LEMMA InitOK == Init => IInv
<1> SUFFICES ASSUME Init PROVE IInv
  OBVIOUS
<1> USE CapIsNat
<1>1. TypeOK
  <2>1. /\ duration \in [Tasks -> Durations] /\ priority \in [Tasks -> Priorities]
        /\ preemptible \in [Tasks -> BOOLEAN]
    BY DEF Init
  <2>4. left \in [Tasks -> Int]
    <3>1. \A t \in Tasks : duration[t] \in Int
      BY <2>1, NumbersAreInt
    <3> QED BY <2>1, <3>1 DEF Init
  <2>5. /\ es \in [1 .. Cap -> Tasks \cup {Null}] /\ size \in 0 .. Cap
        /\ i \in 0 .. Cap + 1 /\ newSize \in -1 .. Cap /\ s \in 0 .. Cap
    BY DEF Init
  <2>6. /\ dpc \in [Tasks -> {"new", "store", "time", "time2", "added"}]
        /\ \A t \in Tasks : dpc[t] # "store"
    BY DEF Init
  <2>2. finished \in Seq(Tasks)
    BY DEF Init
  <2>3. ~Executing
    BY DEF Init, Executing
  <2>7. /\ modified \in BOOLEAN /\ taskCrt \in Tasks \cup {Null} /\ running \in BOOLEAN
        /\ hpc = "loop" /\ adding \in Tasks \cup {Null}
        /\ totalTime = 0 /\ workRead = 0 /\ addRead = 0
    BY DEF Init
  <2> QED BY <2>1, <2>2, <2>3, <2>4, <2>5, <2>6, <2>7 DEF TypeOK
<1>2. SizeBound
  BY StoredIsSmall DEF Init, SizeBound
<1>3. Adding
  BY HostConstants DEF Init, Adding, Stored, InList, IsFinished
<1>4. StoresBeyond /\ HostLocals
  BY DEF Init, StoresBeyond, HostLocals
<1>5. ListedOnce /\ Over
  BY DEF Init, ListedOnce, Over, IsFinished
<1> QED BY <1>1, <1>2, <1>3, <1>4, <1>5 DEF IInv
---------------------------------------------------------------------------
(* The dispatcher's steps.                                                 *)

LEMMA AddBeginOK == ASSUME IInv, NEW t \in Tasks, AddBegin(t) PROVE IInv'
<1> USE CapIsNat
<1>1. /\ t \notin Stored /\ Stored' = Stored /\ dpc[t] = "new" /\ adding = Null
      /\ dpc' = [dpc EXCEPT ![t] = "store"] /\ adding' = t /\ s' = size /\ modified' = TRUE
      /\ UNCHANGED <<taskVars, left, es, size, taskCrt, running, totalTime, hpc, hostLocals,
                     addRead, finished>>
  BY DEF AddBegin, Dispatch, Stored, IInv, TypeOK
<1>2. size <= Cardinality(Stored) /\ size \in Nat
  BY DEF IInv, SizeBound, TypeOK
<1>3. \A u \in Tasks : dpc[u] \notin {"store", "time", "time2"}
  BY <1>1, HostConstants DEF IInv, Adding
<1>4. TypeOK'
  <2>1. s' \in 0 .. Cap /\ s' < Cap
    <3>1. Cardinality(Stored) \in Nat /\ Cardinality(Stored) < Cap
      BY <1>1, StoredRoom
    <3> QED BY <1>1, <1>2, <3>1
  <2>2. dpc' \in [Tasks -> {"new", "store", "time", "time2", "added"}]
    BY <1>1 DEF IInv, TypeOK
  <2> QED BY <1>1, <2>1, <2>2 DEF IInv, TypeOK, Executing, taskVars, hostLocals
<1>5. SizeBound'
  BY <1>1, <1>2 DEF SizeBound
<1>6. Adding'
  BY <1>1, <1>3, HostConstants DEF IInv, TypeOK, Adding, InList, IsFinished
<1>7. StoresBeyond'
  BY <1>1, <1>2, <1>3 DEF IInv, TypeOK, StoresBeyond, HostLocals, hostLocals
<1>8. HostLocals' /\ ListedOnce' /\ Over'
  BY <1>1 DEF IInv, HostLocals, ListedOnce, Over, Listed, InList, IsFinished, hostLocals
<1> QED BY <1>4, <1>5, <1>6, <1>7, <1>8 DEF IInv

LEMMA AddStoreOK == ASSUME IInv, NEW t \in Tasks, AddStore(t) PROVE IInv'
<1> USE CapIsNat
<1>1. /\ dpc[t] = "store" /\ adding = t
      /\ dpc' = [dpc EXCEPT ![t] = "time"]
      /\ es' = [es EXCEPT ![s + 1] = t] /\ size' = s + 1
      /\ UNCHANGED <<taskVars, left, modified, taskCrt, running, totalTime, hpc, hostLocals,
                     adding, s, addRead, finished>>
  BY DEF AddStore, Dispatch, IInv, Adding
<1>2. /\ s \in Nat /\ s < Cap /\ s + 1 \in 1 .. Cap /\ size <= s /\ size \in Nat
      /\ hpc = "remove" => newSize < s
      /\ s <= Cardinality(Stored)
  BY <1>1 DEF IInv, TypeOK, StoresBeyond, SizeBound
<1>3. t \notin Stored /\ Stored' = Stored \cup {t}
  BY <1>1 DEF Stored, IInv, TypeOK
<1>4. ~InList(t) /\ ~IsFinished(t)
  BY <1>3 DEF IInv, Adding
<1>5. \A u \in Tasks \ {t} : dpc[u] \notin {"store", "time", "time2"}
  BY <1>1 DEF IInv, Adding
<1>6. \A n \in 1 .. Cap : es'[n] = IF n = s + 1 THEN t ELSE es[n]
  BY <1>1, <1>2 DEF IInv, TypeOK
<1>7. TypeOK'
  BY <1>1, <1>2, <1>5 DEF IInv, TypeOK, Executing, taskVars, hostLocals
<1>8. SizeBound'
  <2>1. Cardinality(Stored') = Cardinality(Stored) + 1 /\ Cardinality(Stored) \in Nat
    BY <1>3, StoredRoom
  <2> QED BY <1>1, <1>2, <1>5, <2>1 DEF SizeBound, IInv, TypeOK
<1>9. Adding'
  BY <1>1, <1>3, <1>5, <1>6 DEF IInv, Adding, TypeOK, InList, IsFinished
<1>10. StoresBeyond'
  BY <1>1, <1>5 DEF StoresBeyond, IInv, TypeOK
<1>11. HostLocals'
  BY <1>1, <1>2, <1>6 DEF IInv, TypeOK, HostLocals, hostLocals
<1>12. ListedOnce'
  <2>1. \A m, n \in 1 .. Cap : es'[m] = es'[n] /\ es'[m] # Null => m = n
    BY <1>4, <1>6 DEF IInv, ListedOnce, InList
  <2>2. taskCrt # Null => Listed(taskCrt)'
    BY <1>1, <1>2, <1>6 DEF IInv, ListedOnce, Listed, TypeOK
  <2> QED BY <1>1, <2>1, <2>2 DEF ListedOnce
<1>13. Over'
  BY <1>1, <1>4, <1>6 DEF IInv, Over, IsFinished, InList
<1> QED BY <1>7, <1>8, <1>9, <1>10, <1>11, <1>12, <1>13 DEF IInv

LEMMA AddTimeOK ==
  ASSUME IInv, NEW t \in Tasks, AddTimeRead(t) \/ AddTimeWrite(t) PROVE IInv'
<1> USE CapIsNat
<1>1. /\ dpc[t] \in {"time", "time2"} /\ adding = t
      /\ \/ dpc' = [dpc EXCEPT ![t] = "time2"] /\ UNCHANGED <<adding, s>>
         \/ dpc' = [dpc EXCEPT ![t] = "added"] /\ adding' = Null /\ s' = 0
      /\ UNCHANGED <<taskVars, left, es, size, modified, taskCrt, running, hpc, hostLocals,
                     finished>>
  BY DEF AddTimeRead, AddTimeWrite, Dispatch, IInv, Adding, listVars
<1>2. /\ Stored' = Stored
      /\ \A u \in Tasks : dpc'[u] \in {"new", "store"} => dpc'[u] = dpc[u]
      /\ \A u \in Tasks : dpc'[u] # "store"
  BY <1>1 DEF Stored, IInv, TypeOK, Adding
<1>3. totalTime' \in Int /\ addRead' \in Int
  <2>1. duration[t] \in Int
    BY NumbersAreInt DEF IInv, TypeOK
  <2> QED BY <2>1 DEF AddTimeRead, AddTimeWrite, IInv, TypeOK
<1>4. TypeOK'
  <2>1. dpc' \in [Tasks -> {"new", "store", "time", "time2", "added"}]
    BY <1>1 DEF IInv, TypeOK
  <2>2. adding' \in Tasks \cup {Null} /\ s' \in 0 .. Cap
    BY <1>1 DEF IInv, TypeOK
  <2> QED BY <1>1, <1>2, <1>3, <2>1, <2>2 DEF IInv, TypeOK, Executing, taskVars, hostLocals
<1>5. SizeBound' /\ StoresBeyond'
  BY <1>1, <1>2 DEF IInv, SizeBound, StoresBeyond
<1>6. Adding'
  BY <1>1, <1>2, HostConstants DEF IInv, TypeOK, Adding, InList, IsFinished
<1>7. HostLocals' /\ ListedOnce' /\ Over'
  BY <1>1 DEF IInv, HostLocals, ListedOnce, Over, Listed, InList, IsFinished, hostLocals
<1> QED BY <1>4, <1>5, <1>6, <1>7 DEF IInv
---------------------------------------------------------------------------
(* The host's steps.                                                       *)

(* A step of the host leaves the dispatcher's part of the invariant alone. *)
LEMMA HostFrame ==
  ASSUME IInv, UNCHANGED <<taskVars, dispatcherVars>>
  PROVE  /\ Stored' = Stored
         /\ duration' \in [Tasks -> Durations] /\ priority' \in [Tasks -> Priorities]
         /\ preemptible' \in [Tasks -> BOOLEAN]
         /\ dpc' \in [Tasks -> {"new", "store", "time", "time2", "added"}]
         /\ adding' \in Tasks \cup {Null} /\ addRead' \in Int
         /\ s' \in 0 .. Cap /\ \A t \in Tasks : dpc'[t] = "store" => s' < Cap
         /\ size' \in Int /\ size' <= size => SizeBound'
         /\ UNCHANGED <<es, finished>> => Adding'
<1>1. UNCHANGED <<duration, priority, preemptible, dpc, adding, s, addRead>>
  BY DEF taskVars, dispatcherVars
<1>2. Stored' = Stored
  BY <1>1 DEF Stored
<1>3. size' \in Int /\ size' <= size => SizeBound'
  <2>1. size \in Int /\ size <= Cardinality(Stored) /\ Cardinality(Stored) \in Nat
    BY StoredIsSmall DEF IInv, TypeOK, SizeBound
  <2>2. size' \in Int /\ size' <= size => size' <= Cardinality(Stored)
    BY <2>1
  <2> QED BY <1>1, <1>2, <2>2 DEF IInv, SizeBound
<1>4. UNCHANGED <<es, finished>> => Adding'
  BY <1>1, <1>2 DEF IInv, Adding, InList, IsFinished
<1> QED BY <1>1, <1>2, <1>3, <1>4 DEF IInv, TypeOK

LEMMA QuietStepOK ==
  ASSUME IInv, Exit \/ KeepTask \/ Shutdown \/ UNCHANGED vars PROVE IInv'
<1>1. /\ UNCHANGED <<taskVars, left, es, size, modified, taskCrt, totalTime, i, newSize,
                     workRead, dispatcherVars, finished>>
      /\ \/ hpc' = hpc
         \/ hpc = "loop" /\ hpc' = "exited"
         \/ hpc = "loop" /\ hpc' = "sleep" /\ taskCrt # Null
      /\ running' \in BOOLEAN
  BY DEF Exit, KeepTask, Shutdown, HostGoto, vars, listVars, hostLocals, IInv, TypeOK
<1>2. TypeOK'
  <2>1. Executing' => taskCrt' \in Tasks
    BY <1>1 DEF IInv, TypeOK, Executing
  <2> QED BY <1>1, <2>1, HostFrame DEF IInv, TypeOK
<1>3. SizeBound' /\ Adding'
  <2>1. size' \in Int /\ size' <= size
    BY <1>1 DEF IInv, TypeOK
  <2> QED BY <1>1, <2>1, HostFrame
<1>4. StoresBeyond'
  BY <1>1 DEF IInv, StoresBeyond, dispatcherVars
<1>5. HostLocals' /\ ListedOnce' /\ Over'
  BY <1>1 DEF IInv, HostLocals, ListedOnce, Over, Listed, InList, IsFinished
<1> QED BY <1>2, <1>3, <1>4, <1>5 DEF IInv

LEMMA GetNextTaskOK == ASSUME IInv, GetNextTask PROVE IInv'
<1> USE CapIsNat
<1>1. /\ UNCHANGED <<taskVars, left, es, size, running, totalTime, workRead, dispatcherVars,
                     finished>>
      /\ hpc = "loop" /\ hpc' = "each" /\ size > 0
      /\ taskCrt' = es[1] /\ i' = 1 /\ newSize' = size /\ modified' = FALSE
  BY DEF GetNextTask, HostGoto
<1>2. es[1] \in Tasks \cup {Null} /\ size \in 1 .. Cap
  BY <1>1 DEF IInv, TypeOK
<1>3. TypeOK'
  <2>1. taskCrt' \in Tasks \cup {Null} /\ i' \in 0 .. Cap + 1 /\ newSize' \in -1 .. Cap
    BY <1>1, <1>2
  <2>2. ~Executing'
    BY <1>1 DEF Executing
  <2> QED BY <1>1, <2>1, <2>2, HostFrame DEF IInv, TypeOK
<1>4. SizeBound' /\ Adding'
  BY <1>1, <1>2, HostFrame
<1>5. StoresBeyond'
  BY <1>1 DEF IInv, StoresBeyond, dispatcherVars
<1>6. HostLocals'
  BY <1>1, <1>2 DEF HostLocals
<1>7. ListedOnce'
  BY <1>1, <1>2 DEF IInv, ListedOnce, Listed
<1>8. Over'
  BY <1>1 DEF IInv, Over, InList, IsFinished
<1> QED BY <1>3, <1>4, <1>5, <1>6, <1>7, <1>8 DEF IInv

LEMMA EachOK == ASSUME IInv, Each \/ EachEnd PROVE IInv'
<1> USE CapIsNat
<1>1. /\ UNCHANGED <<taskVars, left, es, size, modified, running, totalTime, workRead,
                     dispatcherVars, finished>>
      /\ hpc = "each" /\ i \in 1 .. newSize + 1 /\ newSize \in 1 .. size /\ size \in 0 .. Cap
  BY DEF Each, EachEnd, HostGoto, listVars, IInv, HostLocals, TypeOK
<1>2. \/ /\ hpc' \in {"dead", "sleep"} /\ taskCrt' = taskCrt
         /\ i' \in 0 .. Cap + 1 /\ newSize' \in -1 .. Cap
         /\ hpc' = "sleep" => taskCrt \in Tasks
      \/ /\ hpc' = "each" /\ newSize' = newSize /\ i <= newSize /\ i' = i + 1
         /\ taskCrt' \in {es[i], taskCrt} /\ taskCrt' \in Tasks
  <2>1. CASE EachEnd
    BY <1>1, <2>1 DEF EachEnd, HostGoto, IInv, HostLocals
  <2>2. CASE Each
    <3>1. i <= newSize /\ i \in 1 .. Cap /\ es[i] \in Tasks \cup {Null}
      BY <1>1, <2>2 DEF Each, IInv, TypeOK
    <3>2. taskCrt \in Tasks \cup {Null} /\ newSize \in -1 .. Cap
      BY DEF IInv, TypeOK
    <3> QED BY <1>1, <2>2, <3>1, <3>2 DEF Each
  <2> QED BY <2>1, <2>2
<1>3. TypeOK'
  <2>1. Executing' => taskCrt' \in Tasks
    BY <1>2 DEF Executing
  <2>2. /\ taskCrt' \in Tasks \cup {Null} /\ i' \in 0 .. Cap + 1 /\ newSize' \in -1 .. Cap
        /\ hpc' \in {"each", "dead", "sleep"}
    BY <1>1, <1>2 DEF IInv, TypeOK
  <2> QED BY <1>1, <2>1, <2>2, HostFrame DEF IInv, TypeOK
<1>4. SizeBound' /\ Adding'
  BY <1>1, HostFrame
<1>5. StoresBeyond'
  BY <1>1, <1>2 DEF IInv, StoresBeyond, dispatcherVars
<1>6. HostLocals'
  BY <1>1, <1>2 DEF HostLocals
<1>7. ListedOnce'
  BY <1>1, <1>2 DEF IInv, ListedOnce, Listed
<1>8. Over'
  BY <1>1, <1>2 DEF IInv, Over, InList, IsFinished
<1> QED BY <1>3, <1>4, <1>5, <1>6, <1>7, <1>8 DEF IInv

LEMMA WorkOK == ASSUME IInv, Work \/ WorkEnd PROVE IInv'
<1>1. /\ UNCHANGED <<taskVars, es, size, modified, taskCrt, running, i, newSize,
                     dispatcherVars, finished>>
      /\ hpc \in {"sleep", "time"} /\ hpc' \in {"time", "finish", "loop"}
      /\ taskCrt \in Tasks
  BY DEF Work, WorkEnd, HostGoto, listVars, IInv, TypeOK, Executing
<1>2. /\ left' \in [Tasks -> Int] /\ \A t \in Tasks : left'[t] <= left[t]
      /\ workRead' \in Int /\ totalTime' \in Int
      /\ hpc' = "finish" => left'[taskCrt] <= 0
  <2>1. left \in [Tasks -> Int] /\ totalTime \in Int /\ workRead \in Int
    BY DEF IInv, TypeOK
  <2>2. CASE Work
    BY <1>1, <2>1, <2>2, NumbersAreInt DEF Work, HostGoto
  <2>3. CASE WorkEnd
    BY <1>1, <2>1, <2>3, NumbersAreInt DEF WorkEnd, HostGoto
  <2> QED BY <2>2, <2>3
<1>3. TypeOK'
  BY <1>1, <1>2, HostFrame DEF IInv, TypeOK, Executing
<1>4. SizeBound' /\ Adding'
  <2>1. size' \in Int /\ size' <= size
    BY <1>1 DEF IInv, TypeOK
  <2> QED BY <1>1, <2>1, HostFrame
<1>5. StoresBeyond' /\ HostLocals'
  BY <1>1 DEF IInv, StoresBeyond, HostLocals, dispatcherVars
<1>6. ListedOnce'
  BY <1>1 DEF IInv, ListedOnce, Listed
<1>7. Over'
  <2>1. ASSUME NEW t \in Tasks, IsFinished(t) PROVE left'[t] <= 0
    <3>1. left[t] <= 0 /\ left[t] \in Int /\ left'[t] \in Int
      BY <1>2, <2>1 DEF IInv, Over, TypeOK
    <3> QED BY <1>2, <3>1
  <2> QED BY <1>1, <1>2, <2>1 DEF IInv, Over, InList, IsFinished
<1> QED BY <1>3, <1>4, <1>5, <1>6, <1>7 DEF IInv

(* remove's search finds the current task.                                 *)
LEMMA SearchFinds ==
  ASSUME IInv, hpc = "finish"
  PROVE  LET k == CHOOSE n \in 1 .. Cap + 1 :
                    /\ n > size \/ es[n] = taskCrt
                    /\ \A m \in 1 .. n - 1 : m <= size /\ es[m] # taskCrt
         IN  k \in 1 .. size /\ es[k] = taskCrt
<1> DEFINE P(n) == /\ n > size \/ es[n] = taskCrt
                   /\ \A m \in 1 .. n - 1 : m <= size /\ es[m] # taskCrt
           T == {n \in 1 .. size : es[n] = taskCrt}
<1>1. size \in 0 .. Cap /\ Cap \in Nat /\ taskCrt \in Tasks
  BY CapIsNat DEF IInv, TypeOK, Executing
<1>2. PICK x \in 1 .. size : es[x] = taskCrt
  BY <1>1, HostConstants DEF IInv, ListedOnce, Listed
<1>3. PICK y \in T : \A z \in T : y <= z
  <2>1. T \subseteq Nat /\ T # {}
    BY <1>1, <1>2
  <2> HIDE DEF T
  <2> QED BY <2>1, LeastElement
<1>4. y \in 1 .. Cap + 1 /\ P(y)
  BY <1>1, <1>3
<1>5. \A n \in 1 .. Cap + 1 : P(n) => n \in 1 .. size /\ es[n] = taskCrt
  BY <1>1, <1>2
<1> QED BY <1>4, <1>5

LEMMA FinishOK == ASSUME IInv, Finish PROVE IInv'
<1> USE CapIsNat
<1>1. /\ UNCHANGED <<taskVars, left, es, size, taskCrt, running, totalTime, workRead,
                     dispatcherVars>>
      /\ hpc = "finish" /\ hpc' = "remove" /\ taskCrt \in Tasks
      /\ newSize' = size - 1 /\ modified' = TRUE /\ size \in 0 .. Cap
      /\ finished \in Seq(Tasks) /\ finished' = Append(finished, taskCrt)
  BY DEF Finish, HostGoto, IInv, TypeOK, Executing
<1>2. i' \in 1 .. size /\ es[i'] = taskCrt
  BY <1>1, SearchFinds DEF Finish
<1>3. /\ finished' \in Seq(Tasks) /\ Len(finished') = Len(finished) + 1 /\ Len(finished) \in Nat
      /\ \A n \in 1 .. Len(finished) : finished'[n] = finished[n]
      /\ finished'[Len(finished) + 1] = taskCrt
  BY <1>1
<1>4. \A t : IsFinished(t)' <=> IsFinished(t) \/ t = taskCrt
  BY <1>3 DEF IsFinished
<1>5. InList(taskCrt) /\ ~IsFinished(taskCrt) /\ taskCrt \in Stored
  <2>1. InList(taskCrt)
    BY <1>1, <1>2 DEF InList
  <2> QED BY <1>1, <2>1 DEF IInv, Over, Adding
<1>6. TypeOK'
  BY <1>1, <1>2, <1>3, HostFrame DEF IInv, TypeOK, Executing
<1>7. SizeBound'
  BY <1>1, HostFrame
<1>8. Adding'
  BY <1>1, <1>4, <1>5, HostFrame DEF IInv, Adding, InList, dispatcherVars
<1>9. StoresBeyond'
  BY <1>1 DEF IInv, TypeOK, StoresBeyond, dispatcherVars
<1>10. HostLocals' /\ ListedOnce'
  BY <1>1, <1>2 DEF IInv, HostLocals, ListedOnce, Listed
<1>11. Over'
  <2>1. \A m, n \in 1 .. Len(finished') : finished'[m] = finished'[n] => m = n
    BY <1>3, <1>5 DEF IInv, Over, IsFinished
  <2>2. \A t \in Tasks : IsFinished(t)' => left'[t] <= 0 /\ (InList(t)' => hpc' = "remove" /\ t = taskCrt')
    BY <1>1, <1>4 DEF IInv, Over, InList
  <2> QED BY <1>1, <1>4, <2>1, <2>2 DEF Over
<1> QED BY <1>6, <1>7, <1>8, <1>9, <1>10, <1>11 DEF IInv

LEMMA RemoveOK == ASSUME IInv, Remove PROVE IInv'
<1> USE CapIsNat
<1>1. /\ UNCHANGED <<taskVars, left, modified, running, totalTime, workRead, dispatcherVars,
                     finished>>
      /\ hpc = "remove" /\ hpc' = "loop" /\ taskCrt \in Tasks /\ taskCrt' = Null
      /\ i' = 0 /\ newSize' = 0 /\ size \in 0 .. Cap /\ newSize \in -1 .. Cap
      /\ i \in 1 .. newSize + 1 /\ newSize < size /\ es[i] = taskCrt
  BY DEF Remove, HostGoto, IInv, TypeOK, Executing, HostLocals
<1>2. /\ size' = newSize
      /\ es' = [n \in 1 .. Cap |->
                  IF n >= i /\ n <= newSize THEN es[n + 1]
                  ELSE IF n = newSize + 1 THEN Null ELSE es[n]]
  BY <1>1 DEF Remove
<1>3. /\ newSize \in 0 .. Cap - 1
      /\ \A n \in i .. newSize : n \in 1 .. Cap /\ es'[n] = es[n + 1] /\ n + 1 \in 1 .. Cap
      /\ es'[newSize + 1] = Null
      /\ \A n \in 1 .. Cap : ~(n >= i /\ n <= newSize + 1) => es'[n] = es[n]
  BY <1>1, <1>2
<1>4. \A m, n \in 1 .. Cap : es[m] = es[n] /\ es[m] # Null => m = n
  BY DEF IInv, ListedOnce
<1>5. ASSUME NEW n \in 1 .. Cap, es'[n] # Null
      PROVE  \E k \in 1 .. Cap : es'[n] = es[k] /\ k # i
                              /\ k = (IF n >= i /\ n <= newSize THEN n + 1 ELSE n)
  BY <1>1, <1>3, <1>5
<1>6. \A t \in Tasks : InList(t)' => InList(t) /\ t # taskCrt
  <2> SUFFICES ASSUME NEW t \in Tasks, NEW n \in 1 .. Cap, es'[n] = t
               PROVE  InList(t) /\ t # taskCrt
    BY DEF InList
  <2>1. PICK k \in 1 .. Cap : es'[n] = es[k] /\ k # i
    BY <1>5, HostConstants
  <2>2. i \in 1 .. Cap
    BY <1>1
  <2> QED BY <1>1, <1>4, <2>1, <2>2, HostConstants DEF InList
<1>7. TypeOK'
  <2>1. es' \in [1 .. Cap -> Tasks \cup {Null}]
    BY <1>1, <1>2 DEF IInv, TypeOK
  <2> QED BY <1>1, <1>2, <1>3, <2>1, HostFrame DEF IInv, TypeOK, Executing
<1>8. SizeBound'
  BY <1>1, <1>2, HostFrame
<1>9. Adding'
  BY <1>1, <1>6, HostFrame DEF IInv, Adding, IsFinished, dispatcherVars
<1>10. StoresBeyond'
  BY <1>1, <1>2 DEF IInv, TypeOK, StoresBeyond, dispatcherVars
<1>11. HostLocals'
  BY <1>1 DEF HostLocals
<1>12. ListedOnce'
  <2>1. ASSUME NEW m \in 1 .. Cap, NEW n \in 1 .. Cap, es'[m] = es'[n], es'[m] # Null
        PROVE  m = n
    <3>1. es[IF m >= i /\ m <= newSize THEN m + 1 ELSE m] = es[IF n >= i /\ n <= newSize THEN n + 1 ELSE n]
      BY <1>5, <2>1
    <3>2. (IF m >= i /\ m <= newSize THEN m + 1 ELSE m) = (IF n >= i /\ n <= newSize THEN n + 1 ELSE n)
      BY <1>4, <1>5, <2>1
    <3>3. m # newSize + 1 /\ n # newSize + 1
      BY <1>3, <2>1
    <3> QED BY <1>1, <3>2, <3>3
  <2> QED BY <1>1, <2>1 DEF ListedOnce
<1>13. Over'
  BY <1>1, <1>6 DEF IInv, Over, IsFinished
<1> QED BY <1>7, <1>8, <1>9, <1>10, <1>11, <1>12, <1>13 DEF IInv
---------------------------------------------------------------------------
(* The invariant and what follows from it.                                 *)

LEMMA StepOK == IInv /\ [Next]_vars => IInv'
<1> SUFFICES ASSUME IInv, [Next]_vars PROVE IInv'
  OBVIOUS
<1>1. CASE HostStep
  BY <1>1, QuietStepOK, GetNextTaskOK, EachOK, WorkOK, FinishOK, RemoveOK DEF HostStep
<1>2. ASSUME NEW t \in Tasks, AddStep(t) PROVE IInv'
  BY <1>2, AddBeginOK, AddStoreOK, AddTimeOK DEF AddStep
<1>3. CASE Shutdown \/ UNCHANGED vars
  BY <1>3, QuietStepOK
<1> QED BY <1>1, <1>2, <1>3 DEF Next

(* Every reachable state satisfies the inductive invariant.                *)
THEOREM InvariantHolds == Spec => []IInv
<1> QED BY InitOK, StepOK, PTL DEF Spec

(* Types: the host's thread never executes null, and the array never       *)
(* overflows, although an add may store beyond a list that has shrunk.     *)
THEOREM TypesHold == Spec => []TypeOK
<1>1. IInv => TypeOK
  BY DEF IInv
<1> QED BY <1>1, InvariantHolds, PTL

(* run: finish() is called once for a task and only when nothing of it is  *)
(* left, whatever addTask does to the list meanwhile.                      *)
THEOREM TasksFinishOnce == Spec => []FinishOnce
<1>1. IInv => FinishOnce
  BY DEF IInv, Over, FinishOnce
<1> QED BY <1>1, InvariantHolds, PTL
---------------------------------------------------------------------------
(* How tasks nest.                                                         *)

(* forEach: the current task beats, or comes before, every task passed.    *)
Beats(n) ==
  \/ priority[es[n]] < priority[taskCrt]
  \/ priority[es[n]] = priority[taskCrt] /\ \E m \in 1 .. n : es[m] = taskCrt
Scanned ==
  hpc = "each" =>
    /\ i = 1 => taskCrt = es[1]
    /\ i > 1 => \E m \in 1 .. i - 1 : es[m] = taskCrt
    /\ \A n \in 1 .. i - 1 : es[n] \in Tasks /\ Beats(n)

(* A task that has begun is listed behind tasks of lower priority only.    *)
Leads(t) ==
  \E n \in 1 .. size :
    es[n] = t /\ \A m \in 1 .. n - 1 : es[m] \in Tasks /\ priority[es[m]] < priority[t]

(* It is in the part of the list that forEach walks and remove moves.      *)
Within ==
  \A t \in Tasks : Begun(t) =>
    /\ hpc = "each" => \E n \in 1 .. newSize : es[n] = t
    /\ hpc = "remove" => \E n \in 1 .. newSize + 1 : es[n] = t

(* The current task is above the others that have begun, and these, all of *)
(* them while none is picked, are preemptible.                             *)
Picked == taskCrt # Null /\ hpc \notin {"each", "dead"}
Above ==
  /\ Picked =>
       /\ Leads(taskCrt)
       /\ \A t \in Tasks \ {taskCrt} :
            Begun(t) => preemptible[t] /\ priority[t] < priority[taskCrt]
  /\ ~Picked => \A t \in Tasks : Begun(t) => preemptible[t]

NestInv == Scanned /\ (\A t \in Tasks : Begun(t) => Leads(t)) /\ Within /\ Above

LEMMA NestInit == Init => NestInv
<1> SUFFICES ASSUME Init PROVE NestInv
  OBVIOUS
<1>1. left = duration /\ duration \in [Tasks -> Durations] /\ hpc = "loop" /\ taskCrt = Null
  BY DEF Init
<1>2. \A t \in Tasks : ~Begun(t)
  <2>1. \A t \in Tasks : duration[t] \in Int
    BY <1>1, NumbersAreInt
  <2> QED BY <1>1, <2>1 DEF Begun
<1> QED BY <1>1, <1>2 DEF NestInv, Scanned, Within, Above, Picked

(* Steps after which the host goes on with the same task and list.         *)
LEMMA NestSame ==
  ASSUME NestInv, UNCHANGED <<priority, preemptible, duration, left, es, size, taskCrt, i, newSize, finished>>,
         hpc' = "each" <=> hpc = "each", hpc' = "dead" <=> hpc = "dead", hpc' # "remove" \/ hpc = "remove"
  PROVE  NestInv'
<1>1. Scanned'
  BY DEF NestInv, Scanned, Beats
<1>2. \A t : (Begun(t)' <=> Begun(t)) /\ (Leads(t)' <=> Leads(t)) /\ (Picked' <=> Picked)
  BY DEF Begun, IsFinished, Leads, Picked
<1>3. \A t \in Tasks : Begun(t)' => Leads(t)'
  BY <1>2 DEF NestInv
<1>4. Within'
  BY <1>2 DEF NestInv, Within
<1>5. Above'
  BY <1>2 DEF NestInv, Above
<1> QED BY <1>1, <1>3, <1>4, <1>5 DEF NestInv

LEMMA NestAddStore == ASSUME IInv, NestInv, NEW t \in Tasks, AddStore(t) PROVE NestInv'
<1>1. /\ UNCHANGED <<priority, preemptible, duration, left, taskCrt, hpc, i, newSize, finished>>
      /\ size' = s + 1 /\ size <= s /\ size \in Nat /\ s \in Nat
      /\ hpc = "each" => i \in 1 .. newSize + 1 /\ newSize \in 1 .. size
      /\ hpc = "remove" => newSize \in Int /\ newSize < s
      /\ \A n \in 1 .. s : es'[n] = es[n]
  BY CapIsNat DEF AddStore, Dispatch, taskVars, hostLocals, IInv, TypeOK, StoresBeyond, HostLocals
<1>2. Scanned'
  BY <1>1 DEF NestInv, Scanned, Beats
<1>3. \A u : (Begun(u)' <=> Begun(u)) /\ (Picked' <=> Picked)
  BY <1>1 DEF Begun, IsFinished, Picked
<1>4. \A u : Leads(u) => Leads(u)'
  <2> SUFFICES ASSUME NEW u, Leads(u) PROVE Leads(u)'
    OBVIOUS
  <2>1. PICK n \in 1 .. size :
          es[n] = u /\ \A m \in 1 .. n - 1 : es[m] \in Tasks /\ priority[es[m]] < priority[u]
    BY DEF Leads
  <2>2. n \in 1 .. size' /\ \A m \in 1 .. n : es'[m] = es[m]
    BY <1>1
  <2>3. es'[n] = u /\ \A m \in 1 .. n - 1 : es'[m] \in Tasks /\ priority'[es'[m]] < priority'[u]
    BY <1>1, <2>1, <2>2
  <2> QED BY <2>2, <2>3 DEF Leads
<1>5. Within'
  <2> SUFFICES ASSUME NEW u \in Tasks, Begun(u)
               PROVE  /\ hpc = "each" => \E n \in 1 .. newSize : es'[n] = u
                      /\ hpc = "remove" => \E n \in 1 .. newSize + 1 : es'[n] = u
    BY <1>1, <1>3 DEF Within
  <2>1. hpc = "each" => \A n \in 1 .. newSize : es'[n] = es[n]
    BY <1>1
  <2>2. hpc = "remove" => \A n \in 1 .. newSize + 1 : es'[n] = es[n]
    BY <1>1
  <2> QED BY <2>1, <2>2 DEF NestInv, Within
<1>6. Above'
  BY <1>1, <1>3, <1>4 DEF NestInv, Above
<1> QED BY <1>2, <1>3, <1>4, <1>5, <1>6 DEF NestInv

(* A new scan begins only when every task that has begun is preemptible.   *)
LEMMA NestGetNext == ASSUME IInv, NestInv, GetNextTask PROVE NestInv'
<1>1. /\ UNCHANGED <<priority, preemptible, duration, left, es, size, finished>>
      /\ hpc = "loop" /\ hpc' = "each" /\ taskCrt' = es[1] /\ i' = 1 /\ newSize' = size
      /\ taskCrt # Null => preemptible[taskCrt]
  BY DEF GetNextTask, HostGoto, taskVars
<1>2. \A t : (Begun(t)' <=> Begun(t)) /\ (Leads(t)' <=> Leads(t)) /\ ~Picked'
  BY <1>1 DEF Begun, IsFinished, Leads, Picked
<1>3. \A t \in Tasks : Begun(t) => preemptible[t]
  BY <1>1 DEF NestInv, Above, Picked
<1>4. Scanned'
  BY <1>1 DEF Scanned
<1>5. Within'
  BY <1>1, <1>2 DEF NestInv, Leads, Within
<1>6. Above'
  BY <1>1, <1>2, <1>3 DEF Above
<1> QED BY <1>2, <1>4, <1>5, <1>6 DEF NestInv

LEMMA NestEach == ASSUME IInv, NestInv, Each PROVE NestInv'
<1>1. /\ UNCHANGED <<priority, preemptible, duration, left, es, size, newSize, finished>>
      /\ hpc = "each" /\ i \in 1 .. newSize /\ hpc' \in {"each", "dead"}
  BY DEF Each, taskVars, listVars, IInv, HostLocals, TypeOK
<1>2. \A t : (Begun(t)' <=> Begun(t)) /\ (Leads(t)' <=> Leads(t)) /\ ~Picked /\ ~Picked'
  BY <1>1 DEF Begun, IsFinished, Leads, Picked
<1>3. Within' /\ Above'
  BY <1>1, <1>2 DEF NestInv, Within, Above
<1>4. CASE hpc' = "dead"
  BY <1>2, <1>3, <1>4 DEF NestInv, Scanned
<1>5. CASE hpc' = "each"
  <2>1. /\ es[i] # Null /\ taskCrt # Null /\ i' = i + 1
        /\ taskCrt' = IF Higher(es[i], taskCrt) THEN es[i] ELSE taskCrt
    BY <1>5 DEF Each
  <2>2. es[i] \in Tasks /\ taskCrt \in Tasks /\ i \in Nat \ {0}
    <3>1. i \in 1 .. Cap
      BY <1>1, CapIsNat DEF IInv, TypeOK, HostLocals
    <3> QED BY <2>1, <3>1, CapIsNat DEF IInv, TypeOK
  <2>3. \A t \in Tasks : priority[t] \in Int
    BY NumbersAreInt DEF IInv, TypeOK
  <2>4. /\ \A n \in 1 .. i - 1 : es[n] \in Tasks /\ Beats(n)
        /\ \E m \in 1 .. i : es[m] = taskCrt
    BY <1>1, <2>2 DEF NestInv, Scanned
  <2>5. CASE Higher(es[i], taskCrt)
    <3>1. taskCrt' = es[i] /\ priority[es[i]] > priority[taskCrt]
      BY <2>1, <2>5 DEF Higher
    <3>2. ASSUME NEW n \in 1 .. i' - 1 PROVE es'[n] \in Tasks /\ Beats(n)'
      <4>1. CASE n = i
        BY <1>1, <2>2, <3>1, <4>1 DEF Beats
      <4>2. CASE n # i
        <5>1. n \in 1 .. i - 1
          BY <2>1, <2>2, <4>2
        <5>2. priority[es[n]] <= priority[taskCrt] /\ es[n] \in Tasks
          BY <2>2, <2>3, <2>4, <5>1 DEF Beats
        <5>3. priority[es[n]] < priority[es[i]]
          BY <2>2, <2>3, <3>1, <5>2
        <5> QED BY <1>1, <3>1, <5>2, <5>3 DEF Beats
      <4> QED BY <4>1, <4>2
    <3>3. Scanned'
      BY <1>1, <2>1, <2>2, <3>1, <3>2 DEF Scanned
    <3> QED BY <1>2, <1>3, <3>3 DEF NestInv
  <2>6. CASE ~Higher(es[i], taskCrt)
    <3>1. taskCrt' = taskCrt /\ priority[es[i]] <= priority[taskCrt]
      BY <2>1, <2>2, <2>3, <2>6 DEF Higher
    <3>2. ASSUME NEW n \in 1 .. i' - 1 PROVE es'[n] \in Tasks /\ Beats(n)'
      <4>1. n = i \/ n \in 1 .. i - 1
        BY <2>1, <2>2
      <4>2. es[n] \in Tasks /\ Beats(n)
        BY <2>2, <2>3, <2>4, <3>1, <4>1 DEF Beats
      <4> QED BY <1>1, <3>1, <4>2 DEF Beats
    <3>3. Scanned'
      BY <1>1, <2>1, <2>2, <2>4, <3>1, <3>2 DEF Scanned
    <3> QED BY <1>2, <1>3, <3>3 DEF NestInv
  <2> QED BY <2>5, <2>6
<1> QED BY <1>1, <1>4, <1>5

(* The scan ends with a task that leads, and none that has begun is equal. *)
LEMMA NestEachEnd == ASSUME IInv, NestInv, EachEnd PROVE NestInv'
<1>1. /\ UNCHANGED <<priority, preemptible, duration, left, es, size, taskCrt, finished>>
      /\ hpc = "each" /\ hpc' \in {"dead", "sleep"}
      /\ hpc' = "sleep" => i > newSize
  BY DEF EachEnd, HostGoto, taskVars, listVars
<1>2. \A t : (Begun(t)' <=> Begun(t)) /\ (Leads(t)' <=> Leads(t)) /\ ~Picked
  BY <1>1 DEF Begun, IsFinished, Leads, Picked
<1>3. Scanned' /\ Within' /\ \A t \in Tasks : Begun(t)' => Leads(t)'
  BY <1>1, <1>2 DEF NestInv, Scanned, Within
<1>4. CASE ~Picked'
  BY <1>1, <1>2, <1>3, <1>4 DEF NestInv, Above
<1>5. CASE Picked'
  <2>1. /\ i = newSize + 1 /\ newSize \in 1 .. size /\ size \in 1 .. Cap /\ Cap \in Nat
        /\ taskCrt \in Tasks
    BY <1>1, <1>5, CapIsNat DEF Picked, IInv, HostLocals, TypeOK
  <2>2. PICK k \in 1 .. newSize : es[k] = taskCrt
    BY <1>1, <2>1 DEF NestInv, Scanned
  <2>3. \A n \in 1 .. newSize : es[n] \in Tasks /\ Beats(n)
    BY <1>1, <2>1 DEF NestInv, Scanned
  <2>4. \A m, n \in 1 .. newSize : es[m] = es[n] => m = n
    <3>1. newSize \in 1 .. Cap /\ \A n \in 1 .. newSize : n \in 1 .. Cap /\ es[n] # Null
      BY <2>1, <2>3, HostConstants
    <3> QED BY <3>1 DEF IInv, ListedOnce
  <2>5. Leads(taskCrt)
    <3>1. ASSUME NEW m \in 1 .. k - 1 PROVE es[m] \in Tasks /\ priority[es[m]] < priority[taskCrt]
      <4>1. m \in 1 .. newSize /\ Beats(m) /\ es[m] \in Tasks /\ \A j \in 1 .. m : j \in 1 .. newSize /\ j # k
        BY <2>1, <2>2, <2>3
      <4>2. \A j \in 1 .. m : es[j] # taskCrt
        BY <2>2, <2>4, <4>1
      <4> QED BY <4>1, <4>2 DEF Beats
    <3>2. k \in 1 .. size
      BY <2>1
    <3> QED BY <2>2, <3>1, <3>2 DEF Leads
  <2>6. ASSUME NEW t \in Tasks \ {taskCrt}, Begun(t)
        PROVE  preemptible[t] /\ priority[t] < priority[taskCrt]
    <3>1. PICK n \in 1 .. newSize : es[n] = t
      BY <1>1, <2>6 DEF NestInv, Within
    <3>2. preemptible[t] /\ Beats(n) /\ Leads(t)
      BY <1>2, <2>3, <2>6 DEF NestInv, Above
    <3>3. CASE priority[t] < priority[taskCrt]
      BY <3>2, <3>3
    <3>4. CASE priority[t] = priority[taskCrt] /\ \E m \in 1 .. n : es[m] = taskCrt
      <4>1. k \in 1 .. n - 1
        <5>1. PICK m \in 1 .. n : es[m] = taskCrt
          BY <3>4
        <5>2. m \in 1 .. newSize
          BY <2>1
        <5>3. m = k /\ k # n
          BY <2>2, <2>4, <2>6, <3>1, <5>1, <5>2
        <5> QED BY <2>1, <5>3
      <4>2. PICK j \in 1 .. size :
              es[j] = t /\ \A m \in 1 .. j - 1 : es[m] \in Tasks /\ priority[es[m]] < priority[t]
        BY <3>2 DEF Leads
      <4>3. j = n
        <5>1. j \in 1 .. Cap /\ n \in 1 .. Cap /\ es[j] = es[n] /\ es[j] # Null
          BY <2>1, <3>1, <4>2, HostConstants
        <5> QED BY <5>1 DEF IInv, ListedOnce
      <4>4. priority[taskCrt] < priority[t]
        BY <2>2, <4>1, <4>2, <4>3
      <4>5. priority[t] \in Int /\ priority[taskCrt] \in Int
        BY <2>1, NumbersAreInt DEF IInv, TypeOK
      <4> QED BY <3>4, <4>4, <4>5
    <3> QED BY <3>1, <3>2, <3>3, <3>4 DEF Beats
  <2>7. Above'
    BY <1>1, <1>2, <1>5, <2>5, <2>6 DEF Above
  <2> QED BY <1>3, <2>7 DEF NestInv
<1> QED BY <1>4, <1>5

(* A quantum makes the current task one that has begun: it leads.          *)
LEMMA NestWork == ASSUME IInv, NestInv, Work PROVE NestInv'
<1>1. /\ UNCHANGED <<priority, preemptible, duration, es, size, taskCrt, finished>>
      /\ hpc = "sleep" /\ hpc' = "time" /\ taskCrt \in Tasks /\ taskCrt # Null
      /\ \A t \in Tasks \ {taskCrt} : left'[t] = left[t]
  BY HostConstants DEF Work, HostGoto, taskVars, listVars, IInv, TypeOK, Executing
<1>2. \A t : (Leads(t)' <=> Leads(t)) /\ Picked /\ Picked'
  BY <1>1 DEF Leads, Picked
<1>3. \A t \in Tasks \ {taskCrt} : Begun(t)' <=> Begun(t)
  BY <1>1 DEF Begun, IsFinished
<1>4. Scanned' /\ Within'
  BY <1>1 DEF Scanned, Within
<1>5. Above' /\ Leads(taskCrt)
  BY <1>1, <1>2, <1>3 DEF NestInv, Above
<1>6. \A t \in Tasks : Begun(t)' => Leads(t)'
  BY <1>2, <1>3, <1>5 DEF NestInv
<1> QED BY <1>4, <1>5, <1>6 DEF NestInv

LEMMA NestFinish == ASSUME IInv, NestInv, Finish PROVE NestInv'
<1>1. /\ UNCHANGED <<priority, preemptible, duration, left, es, size, taskCrt>>
      /\ hpc = "finish" /\ hpc' = "remove" /\ newSize' = size - 1 /\ size \in Nat
      /\ taskCrt \in Tasks /\ taskCrt # Null /\ finished' = Append(finished, taskCrt)
      /\ finished \in Seq(Tasks)
  BY HostConstants DEF Finish, HostGoto, taskVars, IInv, TypeOK, Executing
<1>2. \A t : (Leads(t)' <=> Leads(t)) /\ Picked /\ Picked'
  BY <1>1 DEF Leads, Picked
<1>3. \A t \in Tasks : Begun(t)' => Begun(t)
  <2>1. \A t : IsFinished(t) => IsFinished(t)'
    BY <1>1 DEF IsFinished
  <2> QED BY <1>1, <2>1 DEF Begun
<1>4. Scanned'
  BY <1>1 DEF Scanned
<1>5. Within'
  <2>1. newSize' + 1 = size
    BY <1>1
  <2> QED BY <1>1, <1>3, <2>1 DEF NestInv, Leads, Within
<1>6. Above'
  BY <1>1, <1>2, <1>3 DEF NestInv, Above
<1> QED BY <1>2, <1>3, <1>4, <1>5, <1>6 DEF NestInv

(* The tasks that remain keep their order, and those that have begun are   *)
(* preemptible: the one that was current has finished.                     *)
LEMMA NestRemove == ASSUME IInv, NestInv, Remove PROVE NestInv'
<1>1. /\ UNCHANGED <<priority, preemptible, duration, left, finished>>
      /\ hpc = "remove" /\ hpc' = "loop" /\ taskCrt \in Tasks /\ taskCrt # Null /\ taskCrt' = Null
      /\ i \in 1 .. newSize + 1 /\ newSize < size /\ size \in 0 .. Cap /\ newSize \in -1 .. Cap
      /\ es[i] = taskCrt
  BY HostConstants DEF Remove, HostGoto, taskVars, IInv, HostLocals, TypeOK, Executing
<1>2. /\ size' = newSize /\ Cap \in Nat
      /\ es' = [n \in 1 .. Cap |->
                  IF n >= i /\ n <= newSize THEN es[n + 1]
                  ELSE IF n = newSize + 1 THEN Null ELSE es[n]]
  BY <1>1, CapIsNat DEF Remove
<1>3. /\ \A n \in 1 .. i - 1 : es'[n] = es[n]
      /\ \A n \in i .. newSize : es'[n] = es[n + 1]
  BY <1>1, <1>2
<1>4. \A t \in Tasks : Begun(t)' <=> Begun(t)
  BY <1>1 DEF Begun, IsFinished
<1>5. ~Begun(taskCrt)
  BY <1>1 DEF Begun, IInv, Over
<1>6. ASSUME NEW t \in Tasks, Begun(t) PROVE Leads(t)'
  <2>1. PICK n \in 1 .. size :
          es[n] = t /\ \A m \in 1 .. n - 1 : es[m] \in Tasks /\ priority[es[m]] < priority[t]
    BY <1>6 DEF NestInv, Leads
  <2>2. PICK k \in 1 .. newSize + 1 : es[k] = t
    BY <1>1, <1>6 DEF NestInv, Within
  <2>3. n = k /\ n # i
    <3>1. n \in 1 .. Cap /\ k \in 1 .. Cap /\ es[n] # Null
      BY <1>1, <1>2, <2>1, HostConstants
    <3> QED BY <1>1, <1>5, <1>6, <2>1, <2>2, <3>1 DEF IInv, ListedOnce
  <2>4. CASE n < i
    <3>1. n \in 1 .. newSize /\ \A m \in 1 .. n : es'[m] = es[m]
      BY <1>1, <1>3, <2>3, <2>4
    <3>2. n \in 1 .. size' /\ es'[n] = t
      BY <1>2, <2>1, <3>1
    <3>3. \A m \in 1 .. n - 1 : es'[m] \in Tasks /\ priority'[es'[m]] < priority'[t]
      BY <1>1, <2>1, <3>1
    <3> QED BY <3>2, <3>3 DEF Leads
  <2>5. CASE n > i
    <3>1. n - 1 \in i .. newSize /\ n - 1 \in 1 .. newSize
      BY <1>1, <2>3, <2>5
    <3>2. es'[n - 1] = t /\ n - 1 \in 1 .. size'
      BY <1>2, <1>3, <2>1, <3>1
    <3>3. ASSUME NEW m \in 1 .. n - 1 - 1
          PROVE  es'[m] \in Tasks /\ priority'[es'[m]] < priority'[t]
      <4>1. m \in 1 .. n - 1 /\ m + 1 \in 1 .. n - 1 /\ (m \in 1 .. i - 1 \/ m \in i .. newSize)
        BY <1>1, <3>1
      <4>2. es'[m] \in {es[m], es[m + 1]}
        BY <1>3, <4>1
      <4> QED BY <1>1, <2>1, <4>1, <4>2
    <3> QED BY <3>2, <3>3 DEF Leads
  <2> QED BY <1>1, <2>3, <2>4, <2>5
<1>7. Above'
  <2>1. Picked /\ ~Picked'
    BY <1>1 DEF Picked
  <2> QED BY <1>1, <1>4, <1>5, <2>1 DEF NestInv, Above
<1> QED BY <1>1, <1>4, <1>6, <1>7 DEF NestInv, Scanned, Within

LEMMA NestStep == IInv /\ NestInv /\ [Next]_vars => NestInv'
<1> SUFFICES ASSUME IInv, NestInv, [Next]_vars PROVE NestInv'
  OBVIOUS
<1>1. CASE Exit \/ KeepTask \/ WorkEnd \/ Shutdown \/ UNCHANGED vars
  <2>1. /\ UNCHANGED <<priority, preemptible, duration, left, es, size, taskCrt, i, newSize, finished>>
        /\ hpc' = hpc \/ (hpc \in {"loop", "time"} /\ hpc' \in {"exited", "sleep", "finish", "loop"})
    BY <1>1 DEF Exit, KeepTask, WorkEnd, Shutdown, HostGoto, vars, taskVars, listVars, hostLocals
  <2> QED BY <2>1, NestSame
<1>2. ASSUME NEW t \in Tasks, AddStep(t) PROVE NestInv'
  <2>1. CASE AddBegin(t) \/ AddTimeRead(t) \/ AddTimeWrite(t)
    <3>1. UNCHANGED <<priority, preemptible, duration, left, es, size, taskCrt, i, newSize, finished, hpc>>
      BY <2>1 DEF AddBegin, AddTimeRead, AddTimeWrite, taskVars, listVars, hostLocals
    <3> QED BY <3>1, NestSame
  <2> QED BY <1>2, <2>1, NestAddStore DEF AddStep
<1>3. CASE GetNextTask \/ Each \/ EachEnd \/ Work \/ Finish \/ Remove
  BY <1>3, NestGetNext, NestEach, NestEachEnd, NestWork, NestFinish, NestRemove
<1> QED BY <1>1, <1>2, <1>3 DEF Next, HostStep

THEOREM NestingHolds == Spec => [](IInv /\ NestInv)
<1> QED BY InitOK, NestInit, StepOK, NestStep, PTL DEF Spec

(* run and getNextTask, whatever addTask does to the list meanwhile: only  *)
(* a preemptible task is interrupted, only by one of higher priority, and  *)
(* of two equals one finishes before the other begins.                     *)
THEOREM InterruptsNest == Spec => []PreemptionNests
<1>1. ASSUME IInv, NestInv PROVE PreemptionNests
  <2>1. Executing => Picked
    <3>1. Executing => taskCrt # Null /\ hpc \notin {"each", "dead"}
      BY <1>1, HostConstants DEF IInv, TypeOK, Executing
    <3> QED BY <3>1 DEF Picked
  <2>2. ASSUME NEW t \in Tasks, NEW u \in Tasks, Begun(t), Begun(u), priority[t] = priority[u]
        PROVE  t = u
    <3>1. Leads(t) /\ Leads(u)
      BY <1>1, <2>2 DEF NestInv
    <3>2. PICK n \in 1 .. size :
            es[n] = t /\ \A m \in 1 .. n - 1 : es[m] \in Tasks /\ priority[es[m]] < priority[t]
      BY <3>1 DEF Leads
    <3>3. PICK k \in 1 .. size :
            es[k] = u /\ \A m \in 1 .. k - 1 : es[m] \in Tasks /\ priority[es[m]] < priority[u]
      BY <3>1 DEF Leads
    <3>4. priority[t] \in Int /\ size \in Nat
      <4>1. priority[t] \in Int
        BY <1>1, NumbersAreInt DEF IInv, TypeOK
      <4>2. size \in Nat
        BY <1>1, CapIsNat DEF IInv, TypeOK
      <4> QED BY <4>1, <4>2
    <3>5. ~(k \in 1 .. n - 1) /\ ~(n \in 1 .. k - 1)
      BY <2>2, <3>2, <3>3, <3>4
    <3>6. n = k
      BY <3>4, <3>5
    <3> QED BY <3>2, <3>3, <3>6
  <2> QED BY <1>1, <2>1, <2>2 DEF PreemptionNests, NestInv, Above
<1> QED BY <1>1, NestingHolds, PTL
---------------------------------------------------------------------------
(* When addTask does not overlap the host's own accesses to the list.      *)

(* The list is compact, and the host's locals describe it as it is.        *)
Serial ==
  /\ hpc \in {"each", "time", "finish", "remove"} => adding = Null
  /\ \A n \in 1 .. size : es[n] \in Tasks
  /\ \A t \in Tasks : dpc[t] = "store" => s = size
  /\ hpc = "each" => newSize = size /\ ~modified
  /\ hpc = "remove" => newSize = size - 1

(* What is left of a task, when durations are multiples of the quantum.    *)
Multiples == {k * Quantum : k \in Int}
LeftOf ==
  /\ \A t \in Tasks : left[t] \in Multiples
  /\ \A t \in Tasks : t \notin Stored => left[t] = duration[t]
  /\ \A t \in Tasks : InList(t) =>
       \/ left[t] > 0
       \/ t = taskCrt /\ hpc \in {"time", "finish", "remove"} /\ left[t] = 0

(* totalTime is the sum of what is left of the list, but for the task and  *)
(* the quantum that are on their way into it.                              *)
Placed == {es[n] : n \in 1 .. size}
Owed == IF adding # Null /\ dpc[adding] # "store" THEN duration[adding] ELSE 0
Totals ==
  /\ hpc # "time" => totalTime + Owed = SumOf(left, Placed)
  /\ hpc = "time" => workRead = SumOf(left, Placed) + Quantum
  /\ \A t \in Tasks : dpc[t] = "time2" => addRead = totalTime

SerialInv == IInv /\ Serial
WorkInv == SerialInv /\ LeftOf /\ Totals

LEMMA SerialInit == Init => Serial
BY DEF Init, Serial

LEMMA SerialAdds ==
  ASSUME SerialInv, ~Overlap, NEW t \in Tasks, AddStep(t)
  PROVE  Serial'
<1>1. CASE AddBegin(t)
  <2>1. /\ hpc \in {"loop", "sleep"} /\ hpc' = hpc /\ s' = size
        /\ UNCHANGED <<es, size>>
    BY <1>1 DEF AddBegin
  <2> QED BY <2>1 DEF SerialInv, Serial
<1>2. CASE AddStore(t)
  <2>1. /\ dpc[t] = "store" /\ adding = t
        /\ dpc' = [dpc EXCEPT ![t] = "time"]
        /\ es' = [es EXCEPT ![s + 1] = t] /\ size' = s + 1
        /\ hpc' = hpc /\ adding' = adding
    BY <1>2 DEF AddStore, Dispatch, SerialInv, IInv, Adding
  <2>2. s = size /\ size \in Nat /\ size + 1 \in 1 .. Cap /\ t # Null
    BY <2>1, CapIsNat, HostConstants DEF SerialInv, Serial, IInv, TypeOK
  <2>3. hpc \notin {"each", "time", "finish", "remove"}
    BY <2>1, <2>2 DEF SerialInv, Serial
  <2>4. \A n \in 1 .. size' : es'[n] \in Tasks
    <3>1. \A n \in 1 .. size : es'[n] = es[n] /\ es[n] \in Tasks
      BY <2>1, <2>2 DEF SerialInv, Serial, IInv, TypeOK
    <3>2. es'[size + 1] = t
      BY <2>1, <2>2 DEF SerialInv, IInv, TypeOK
    <3> QED BY <2>1, <2>2, <3>1, <3>2
  <2>5. \A u \in Tasks : dpc'[u] # "store"
    BY <2>1 DEF SerialInv, IInv, Adding, TypeOK
  <2> QED BY <2>1, <2>3, <2>4, <2>5 DEF Serial
<1>3. CASE AddTimeRead(t) \/ AddTimeWrite(t)
  <2>1. /\ dpc[t] \in {"time", "time2"} /\ adding = t
        /\ hpc' = hpc /\ UNCHANGED <<es, size>>
        /\ \/ dpc' = [dpc EXCEPT ![t] = "time2"]
           \/ dpc' = [dpc EXCEPT ![t] = "added"]
    BY <1>3 DEF AddTimeRead, AddTimeWrite, Dispatch, listVars, SerialInv, IInv, Adding
  <2>2. \A u \in Tasks : dpc'[u] # "store"
    BY <2>1 DEF SerialInv, IInv, TypeOK, Adding
  <2>3. hpc \notin {"each", "time", "finish", "remove"}
    BY <2>1, HostConstants DEF SerialInv, Serial
  <2> QED BY <2>1, <2>2, <2>3 DEF SerialInv, Serial
<1> QED BY <1>1, <1>2, <1>3 DEF AddStep

LEMMA SerialHost ==
  ASSUME SerialInv, ~Overlap, HostStep \/ Shutdown \/ UNCHANGED vars
  PROVE  Serial'
<1>1. CASE Exit \/ KeepTask
  <2>1. /\ UNCHANGED <<es, size, adding, dpc, s>> /\ hpc = "loop" /\ hpc' \in {"exited", "sleep"}
    BY <1>1 DEF Exit, KeepTask, HostGoto, listVars, dispatcherVars
  <2> QED BY <2>1 DEF SerialInv, Serial
<1>2. CASE GetNextTask
  <2>1. /\ UNCHANGED <<es, size, adding, dpc, s>> /\ adding = Null
        /\ hpc' = "each" /\ taskCrt' = es[1] /\ i' = 1 /\ newSize' = size /\ modified' = FALSE
    BY <1>2 DEF GetNextTask, Atomic, HostGoto, dispatcherVars
  <2> QED BY <2>1 DEF SerialInv, Serial
<1>3. CASE Each
  <2>1. /\ UNCHANGED <<es, size, adding, dpc, s, modified, newSize>>
        /\ hpc = "each" /\ hpc' \in {"each", "dead"}
    BY <1>3 DEF Each, listVars, dispatcherVars
  <2> QED BY <2>1 DEF SerialInv, Serial
<1>4. CASE EachEnd
  <2>1. /\ UNCHANGED <<es, size, adding, dpc, s>> /\ hpc' \in {"dead", "sleep"}
    BY <1>4 DEF EachEnd, HostGoto, listVars, dispatcherVars
  <2> QED BY <2>1 DEF SerialInv, Serial
<1>5. CASE Work \/ WorkEnd
  <2>1. /\ UNCHANGED <<es, size, adding, dpc, s>> /\ hpc' \in {"time", "finish", "loop"}
        /\ adding = Null
    BY <1>5 DEF Work, WorkEnd, Atomic, HostGoto, listVars, dispatcherVars, SerialInv, Serial
  <2> QED BY <2>1 DEF SerialInv, Serial
<1>6. CASE Finish
  <2>1. /\ UNCHANGED <<es, size, adding, dpc, s>> /\ hpc = "finish" /\ hpc' = "remove"
        /\ newSize' = size - 1
    BY <1>6 DEF Finish, HostGoto, dispatcherVars
  <2> QED BY <2>1 DEF SerialInv, Serial
<1>7. CASE Remove
  <2>1. /\ UNCHANGED <<adding, dpc, s>> /\ hpc = "remove" /\ hpc' = "loop" /\ adding = Null
        /\ newSize = size - 1 /\ i \in 1 .. newSize + 1 /\ size \in 0 .. Cap
    BY <1>7 DEF Remove, HostGoto, dispatcherVars, SerialInv, Serial, IInv, HostLocals, TypeOK
  <2>2. /\ size' = newSize
        /\ es' = [n \in 1 .. Cap |->
                    IF n >= i /\ n <= newSize THEN es[n + 1]
                    ELSE IF n = newSize + 1 THEN Null ELSE es[n]]
    BY <1>7, <2>1 DEF Remove
  <2>3. \A n \in 1 .. size' : es'[n] \in {es[n], es[n + 1]} /\ n \in 1 .. size /\ n + 1 \in 1 .. size
    BY <2>1, <2>2, CapIsNat
  <2>4. \A t \in Tasks : dpc[t] # "store"
    BY <2>1, HostConstants DEF SerialInv, IInv, Adding
  <2> QED BY <2>1, <2>3, <2>4 DEF SerialInv, Serial
<1>8. CASE Shutdown \/ UNCHANGED vars
  <2>1. UNCHANGED <<priority, es, size, adding, dpc, s, hpc, taskCrt, i, newSize, modified>>
    BY <1>8 DEF Shutdown, vars, taskVars, listVars, hostLocals, dispatcherVars
  <2> QED BY <2>1 DEF SerialInv, Serial
<1> QED BY <1>1, <1>2, <1>3, <1>4, <1>5, <1>6, <1>7, <1>8 DEF HostStep

(* Without overlap, forEach walks a list that nobody changes.              *)
THEOREM SerialHolds == ~Overlap => (Spec => []SerialInv)
<1> SUFFICES ASSUME ~Overlap PROVE Spec => []SerialInv
  OBVIOUS
<1>1. Init => SerialInv
  BY InitOK, SerialInit DEF SerialInv
<1>2. SerialInv /\ [Next]_vars => SerialInv'
  <2> SUFFICES ASSUME SerialInv, [Next]_vars PROVE SerialInv'
    OBVIOUS
  <2>1. IInv'
    BY StepOK DEF SerialInv
  <2>2. Serial'
    BY SerialAdds, SerialHost DEF Next
  <2> QED BY <2>1, <2>2 DEF SerialInv
<1> QED BY <1>1, <1>2, PTL DEF Spec

(* getNextTask: when addTask does not overlap its scan, the task picked    *)
(* has the highest priority, and is the first in the list that has it.     *)
THEOREM HighestIsPicked == ~Overlap => (Spec => PicksHighest)
<1> SUFFICES ASSUME ~Overlap PROVE Spec => PicksHighest
  OBVIOUS
<1>1. ASSUME SerialInv, NestInv, [Next]_vars
      PROVE  [ hpc = "each" /\ hpc' = "sleep" =>
                 \A n \in 1 .. size :
                   \/ priority[es[n]] < priority[taskCrt]
                   \/ priority[es[n]] = priority[taskCrt] /\ \E m \in 1 .. n : es[m] = taskCrt ]_vars
  <2> SUFFICES ASSUME hpc = "each", hpc' = "sleep", NEW n \in 1 .. size PROVE Beats(n)
    BY DEF Beats
  <2>1. EachEnd
    BY <1>1 DEF Next, HostStep, Exit, GetNextTask, KeepTask, Each, Work, WorkEnd, Finish, Remove,
                Shutdown, AddStep, AddBegin, AddStore, AddTimeRead, AddTimeWrite, HostGoto, vars
  <2>2. i > newSize /\ newSize = size /\ i \in 1 .. newSize + 1 /\ size \in Nat
    BY <1>1, <2>1 DEF EachEnd, SerialInv, Serial, IInv, HostLocals, TypeOK
  <2>3. n \in 1 .. i - 1
    BY <2>2
  <2> QED BY <1>1, <2>1, <2>3 DEF NestInv, Scanned
<1> QED BY <1>1, SerialHolds, NestingHolds, PTL DEF Spec, PicksHighest
---------------------------------------------------------------------------
(* The bookkeeping of totalTime.                                           *)

LEMMA MultipleIs ==
  ASSUME NEW x \in Multiples
  PROVE  x \in Int /\ x - Quantum \in Multiples /\ (x > 0 => x >= Quantum)
<1>1. PICK k \in Int : x = k * Quantum
  BY DEF Multiples
<1>2. Quantum \in Nat /\ Quantum > 0
  BY NumbersAreInt
<1>3. x - Quantum = (k - 1) * Quantum
  BY <1>1, <1>2
<1>4. x > 0 => x >= Quantum
  <2>1. x > 0 => k >= 1
    BY <1>1, <1>2
  <2> QED BY <1>1, <1>2, <2>1
<1> QED BY <1>1, <1>2, <1>3, <1>4 DEF Multiples

(* What is placed is what is listed.                                       *)
LEMMA PlacedIs ==
  ASSUME SerialInv
  PROVE  /\ Placed \subseteq Tasks /\ IsFiniteSet(Placed)
         /\ \A t \in Placed : InList(t) /\ left[t] \in Int
         /\ taskCrt # Null => taskCrt \in Placed
<1>1. Placed \subseteq Tasks
  BY DEF Placed, SerialInv, Serial
<1>2. IsFiniteSet(Placed)
  BY <1>1, HostConstants, FS_Subset
<1>3. \A t \in Placed : InList(t) /\ left[t] \in Int
  <2>1. size \in 0 .. Cap /\ left \in [Tasks -> Int]
    BY DEF SerialInv, IInv, TypeOK
  <2> QED BY <1>1, <2>1, CapIsNat DEF Placed, InList
<1>4. taskCrt # Null => taskCrt \in Placed
  BY DEF Placed, SerialInv, IInv, ListedOnce, Listed
<1> QED BY <1>1, <1>2, <1>3, <1>4

LEMMA SumPlaced ==
  ASSUME SerialInv
  PROVE  /\ SumOf(left, Placed) \in Int
         /\ \A t \in Placed : SumOf(left, Placed) = left[t] + SumOf(left, Placed \ {t})
<1>1. IsFiniteSet(Placed) /\ \A t \in Placed : left[t] \in Int
  BY PlacedIs
<1> QED BY <1>1, SumLaws

LEMMA LeftOfInit ==
  ASSUME Init, \A d \in Durations : d \in Multiples
  PROVE  LeftOf /\ Totals
<1>1. /\ duration \in [Tasks -> Durations] /\ left = duration /\ size = 0 /\ totalTime = 0
      /\ es = [n \in 1 .. Cap |-> Null] /\ adding = Null /\ hpc = "loop"
      /\ dpc = [t \in Tasks |-> "new"]
  BY DEF Init
<1>2. Placed = {}
  BY <1>1 DEF Placed
<1>3. SumOf(left, {}) = 0
  BY FS_EmptySet, SumLaws
<1>4. Totals
  BY <1>1, <1>2, <1>3 DEF Totals, Owed
<1>5. LeftOf
  BY <1>1, HostConstants DEF LeftOf, InList, Stored
<1> QED BY <1>4, <1>5

LEMMA LeftOfAdds ==
  ASSUME WorkInv, ~Overlap, NEW t \in Tasks, AddStep(t)
  PROVE  LeftOf'
<1>0. LeftOf /\ dpc \in [Tasks -> {"new", "store", "time", "time2", "added"}]
  BY DEF WorkInv, SerialInv, IInv, TypeOK
<1>1. CASE AddBegin(t) \/ AddTimeRead(t) \/ AddTimeWrite(t)
  <2>1. /\ UNCHANGED <<left, es, taskCrt, hpc, duration>>
        /\ \/ dpc[t] = "new" /\ dpc' = [dpc EXCEPT ![t] = "store"]
           \/ dpc[t] = "time" /\ dpc' = [dpc EXCEPT ![t] = "time2"]
           \/ dpc[t] = "time2" /\ dpc' = [dpc EXCEPT ![t] = "added"]
    BY <1>1 DEF AddBegin, AddTimeRead, AddTimeWrite, Dispatch, listVars, taskVars
  <2>2. Stored' = Stored
    BY <1>0, <2>1 DEF Stored
  <2>3. Multiples' = Multiples
    BY DEF Multiples
  <2> QED BY <1>0, <2>1, <2>2, <2>3 DEF LeftOf, InList
<1>2. CASE AddStore(t)
  <2>1. /\ UNCHANGED <<left, taskCrt, hpc, duration>> /\ dpc[t] = "store"
        /\ dpc' = [dpc EXCEPT ![t] = "time"] /\ es' = [es EXCEPT ![s + 1] = t]
    BY <1>2 DEF AddStore, Dispatch, taskVars
  <2>2. Stored' = Stored \cup {t} /\ t \notin Stored
    BY <1>0, <2>1 DEF Stored
  <2>3. \A u \in Tasks : InList(u)' => InList(u) \/ u = t
    BY <2>1 DEF InList, WorkInv, SerialInv, IInv, TypeOK
  <2>4. left[t] = duration[t] /\ duration[t] > 0
    BY <1>0, <2>2, NumbersAreInt DEF LeftOf, WorkInv, SerialInv, IInv, TypeOK
  <2>5. Multiples' = Multiples
    BY DEF Multiples
  <2> QED BY <1>0, <2>1, <2>2, <2>3, <2>4, <2>5 DEF LeftOf
<1> QED BY <1>1, <1>2 DEF AddStep

LEMMA LeftOfHost ==
  ASSUME WorkInv, ~Overlap, HostStep \/ Shutdown \/ UNCHANGED vars
  PROVE  LeftOf'
<1>0. LeftOf /\ Multiples' = Multiples
  BY DEF WorkInv, Multiples
<1>1. CASE Exit \/ KeepTask \/ GetNextTask \/ Each \/ EachEnd
  <2>1. UNCHANGED <<left, es, duration, dpc>> /\ hpc \notin {"time", "finish", "remove"}
    BY <1>1 DEF Exit, KeepTask, GetNextTask, Each, EachEnd, HostGoto, listVars, taskVars,
                dispatcherVars
  <2>2. Stored' = Stored
    BY <2>1 DEF Stored
  <2> QED BY <1>0, <2>1, <2>2 DEF LeftOf, InList
<1>2. CASE Work
  <2>1. /\ UNCHANGED <<es, duration, dpc, taskCrt>> /\ hpc = "sleep" /\ hpc' = "time"
        /\ left' = [left EXCEPT ![taskCrt] = left[taskCrt] - Quantum]
    BY <1>2 DEF Work, HostGoto, listVars, taskVars, dispatcherVars
  <2>2. taskCrt \in Tasks /\ InList(taskCrt) /\ left \in [Tasks -> Int]
    BY <2>1, HostConstants, PlacedIs DEF WorkInv, SerialInv, IInv, TypeOK, Executing
  <2>3. taskCrt \in Stored
    BY <2>2 DEF WorkInv, SerialInv, IInv, Adding
  <2>4. left[taskCrt] > 0 /\ left[taskCrt] \in Multiples
    BY <1>0, <2>1, <2>2 DEF LeftOf
  <2>5. left'[taskCrt] \in Multiples /\ left'[taskCrt] >= 0 /\ left'[taskCrt] \in Int
    BY <2>1, <2>2, <2>4, MultipleIs, NumbersAreInt
  <2>6. \A u \in Tasks : u # taskCrt => left'[u] = left[u]
    BY <2>1, <2>2
  <2>7. Stored' = Stored
    BY <2>1 DEF Stored
  <2>8. \A u \in Tasks : left'[u] \in Multiples
    BY <1>0, <2>5, <2>6 DEF LeftOf
  <2>9. \A u \in Tasks : u \notin Stored => left'[u] = duration[u]
    BY <1>0, <2>3, <2>6 DEF LeftOf
  <2>10. ASSUME NEW u \in Tasks, InList(u) PROVE left'[u] > 0 \/ (u = taskCrt /\ left'[u] = 0)
    BY <1>0, <2>1, <2>5, <2>6, <2>10 DEF LeftOf
  <2> QED BY <1>0, <2>1, <2>7, <2>8, <2>9, <2>10 DEF LeftOf, InList
<1>3. CASE WorkEnd \/ Finish
  <2>1. /\ UNCHANGED <<left, es, duration, dpc, taskCrt>> /\ hpc \in {"time", "finish"}
        /\ \/ hpc' \in {"finish", "remove"}
           \/ hpc' = "loop" /\ ~(left[taskCrt] <= 0)
    BY <1>3 DEF WorkEnd, Finish, HostGoto, listVars, taskVars, dispatcherVars
  <2>2. Stored' = Stored
    BY <2>1 DEF Stored
  <2> QED BY <1>0, <2>1, <2>2 DEF LeftOf, InList
<1>4. CASE Remove
  <2>1. /\ UNCHANGED <<left, duration, dpc>> /\ hpc' = "loop" /\ hpc = "remove"
    BY <1>4 DEF Remove, HostGoto, taskVars, dispatcherVars
  <2>2. \A u \in Tasks : InList(u)' => InList(u) /\ u # taskCrt
    <3>1. i \in 1 .. newSize + 1 /\ newSize = size - 1 /\ size \in 0 .. Cap /\ es[i] = taskCrt
      BY <2>1 DEF WorkInv, SerialInv, Serial, IInv, HostLocals, TypeOK
    <3>2. es' = [n \in 1 .. Cap |->
                    IF n >= i /\ n <= newSize THEN es[n + 1]
                    ELSE IF n = newSize + 1 THEN Null ELSE es[n]]
      BY <1>4, <3>1 DEF Remove
    <3>3. ASSUME NEW n \in 1 .. Cap, es'[n] # Null
          PROVE  \E m \in 1 .. Cap : m # i /\ es'[n] = es[m]
      <4>1. CASE n >= i /\ n <= newSize
        <5>1. n + 1 \in 1 .. Cap /\ n + 1 # i /\ es'[n] = es[n + 1]
          BY <3>1, <3>2, <4>1, CapIsNat
        <5> QED BY <5>1
      <4>2. CASE ~(n >= i /\ n <= newSize)
        BY <3>1, <3>2, <3>3, <4>2, CapIsNat
      <4> QED BY <4>1, <4>2
    <3>4. \A m \in 1 .. Cap : m # i /\ es[m] # Null => es[m] # taskCrt
      BY <3>1, CapIsNat DEF WorkInv, SerialInv, IInv, ListedOnce
    <3> QED BY <3>3, <3>4, HostConstants DEF InList
  <2>3. Stored' = Stored
    BY <2>1 DEF Stored
  <2> QED BY <1>0, <2>1, <2>2, <2>3 DEF LeftOf
<1>5. CASE Shutdown \/ UNCHANGED vars
  <2>1. UNCHANGED <<left, es, duration, dpc, taskCrt, hpc>>
    BY <1>5 DEF Shutdown, vars, taskVars, listVars, dispatcherVars
  <2>2. Stored' = Stored
    BY <2>1 DEF Stored
  <2> QED BY <1>0, <2>1, <2>2 DEF LeftOf, InList
<1> QED BY <1>1, <1>2, <1>3, <1>4, <1>5 DEF HostStep

LEMMA TotalsAdds ==
  ASSUME WorkInv, ~Overlap, NEW t \in Tasks, AddStep(t)
  PROVE  Totals'
<1>0. /\ Totals /\ t # Null /\ totalTime \in Int /\ addRead \in Int /\ duration[t] \in Int
      /\ SumOf(left, Placed) \in Int
      /\ \A u \in Tasks : dpc[u] \in {"store", "time", "time2"} <=> adding = u
  BY SumPlaced, HostConstants, NumbersAreInt DEF WorkInv, SerialInv, IInv, TypeOK, Adding
<1>1. CASE AddBegin(t)
  <2>1. /\ UNCHANGED <<left, es, size, totalTime, hpc, duration>> /\ hpc # "time"
        /\ adding = Null /\ adding' = t /\ dpc' = [dpc EXCEPT ![t] = "store"]
    BY <1>1 DEF AddBegin, Dispatch, taskVars
  <2>2. \A u \in Tasks : dpc'[u] # "time2"
    BY <1>0, <2>1, HostConstants DEF WorkInv, SerialInv, IInv, TypeOK
  <2>3. Owed = 0 /\ Owed' = 0 /\ Placed' = Placed
    BY <2>1 DEF Owed, Placed, WorkInv, SerialInv, IInv, TypeOK
  <2> QED BY <1>0, <2>1, <2>2, <2>3 DEF Totals
<1>2. CASE AddStore(t)
  <2>1. /\ UNCHANGED <<left, totalTime, hpc, duration, adding>> /\ dpc[t] = "store" /\ adding = t
        /\ dpc' = [dpc EXCEPT ![t] = "time"] /\ es' = [es EXCEPT ![s + 1] = t] /\ size' = s + 1
    BY <1>0, <1>2 DEF AddStore, Dispatch, taskVars
  <2>2. hpc # "time" /\ s = size /\ size \in Nat /\ size + 1 \in 1 .. Cap
    BY <1>0, <2>1, CapIsNat, HostConstants DEF WorkInv, SerialInv, Serial, IInv, TypeOK
  <2>3. Placed' = Placed \cup {t}
    <3>1. \A n \in 1 .. size : es'[n] = es[n]
      BY <2>1, <2>2 DEF WorkInv, SerialInv, IInv, TypeOK
    <3>2. es'[size + 1] = t
      BY <2>1, <2>2 DEF WorkInv, SerialInv, IInv, TypeOK
    <3>3. \A n \in 1 .. size + 1 : n = size + 1 \/ n \in 1 .. size
      BY <2>2
    <3>4. size + 1 \in 1 .. size + 1 /\ 1 .. size \subseteq 1 .. size + 1
      BY <2>2
    <3> QED BY <2>1, <2>2, <3>1, <3>2, <3>3, <3>4 DEF Placed
  <2>4. t \notin Placed
    BY <2>1, PlacedIs DEF WorkInv, SerialInv, IInv, Adding, Stored
  <2>5. SumOf(left, Placed \cup {t}) = duration[t] + SumOf(left, Placed)
    <3>1. IsFiniteSet(Placed \cup {t})
      BY PlacedIs, FS_AddElement DEF WorkInv
    <3>2. left[t] = duration[t]
      BY <2>1 DEF WorkInv, LeftOf, Stored
    <3>3. \A u \in Placed \cup {t} : left[u] \in Int
      BY <1>0, <3>2, PlacedIs DEF WorkInv
    <3>4. \A u \in Placed \cup {t} :
            SumOf(left, Placed \cup {t}) = left[u] + SumOf(left, (Placed \cup {t}) \ {u})
      BY <3>1, <3>3, SumLaws
    <3>5. (Placed \cup {t}) \ {t} = Placed
      BY <2>4
    <3> QED BY <3>2, <3>4, <3>5
  <2>6. Owed = 0 /\ Owed' = duration[t] /\ \A u \in Tasks : dpc'[u] # "time2"
    BY <1>0, <2>1 DEF Owed, WorkInv, SerialInv, IInv, TypeOK
  <2>7. SumOf(left, Placed)' = duration[t] + SumOf(left, Placed)
    BY <2>1, <2>3, <2>5
  <2>8. totalTime = SumOf(left, Placed)
    BY <1>0, <2>2, <2>6 DEF Totals
  <2>9. totalTime' + Owed' = SumOf(left, Placed)'
    BY <1>0, <2>1, <2>6, <2>7, <2>8
  <2> QED BY <2>1, <2>2, <2>6, <2>9 DEF Totals
<1>3. CASE AddTimeRead(t) \/ AddTimeWrite(t)
  <2>1. /\ UNCHANGED <<left, es, size, hpc, duration>> /\ adding = t
        /\ \/ /\ dpc[t] = "time" /\ dpc' = [dpc EXCEPT ![t] = "time2"]
              /\ addRead' = totalTime /\ totalTime' = totalTime /\ adding' = adding
           \/ /\ dpc[t] = "time2" /\ dpc' = [dpc EXCEPT ![t] = "added"]
              /\ totalTime' = addRead + duration[t] /\ adding' = Null
    BY <1>0, <1>3 DEF AddTimeRead, AddTimeWrite, Dispatch, taskVars, listVars
  <2>2. hpc # "time"
    BY <1>0, <2>1 DEF WorkInv, SerialInv, Serial
  <2>3. Owed = duration[t] /\ Placed' = Placed
    BY <1>0, <2>1 DEF Owed, Placed
  <2>4. CASE dpc[t] = "time"
    <3>1. Owed' = duration[t] /\ addRead' = totalTime' /\ totalTime' = totalTime
      BY <1>0, <2>1, <2>4 DEF Owed, WorkInv, SerialInv, IInv, TypeOK
    <3> QED BY <1>0, <2>1, <2>2, <2>3, <3>1 DEF Totals
  <2>5. CASE dpc[t] = "time2"
    <3>1. Owed' = 0 /\ totalTime' = totalTime + duration[t]
      BY <1>0, <2>1, <2>5 DEF Owed, Totals
    <3>2. \A u \in Tasks : dpc'[u] # "time2"
      BY <1>0, <2>1, <2>5 DEF WorkInv, SerialInv, IInv, TypeOK
    <3> QED BY <1>0, <2>1, <2>2, <2>3, <3>1, <3>2 DEF Totals
  <2> QED BY <2>1, <2>4, <2>5
<1> QED BY <1>1, <1>2, <1>3 DEF AddStep

LEMMA TotalsHost ==
  ASSUME WorkInv, ~Overlap, HostStep \/ Shutdown \/ UNCHANGED vars
  PROVE  Totals'
<1>0. /\ Totals /\ totalTime \in Int /\ workRead \in Int
      /\ SumOf(left, Placed) \in Int
      /\ \A u \in Tasks : dpc[u] \in {"store", "time", "time2"} <=> adding = u
  BY SumPlaced DEF WorkInv, SerialInv, IInv, TypeOK, Adding
<1>1. CASE Exit \/ KeepTask \/ GetNextTask \/ Each \/ EachEnd \/ Finish
  <2>1. /\ UNCHANGED <<left, es, size, duration, dpc, totalTime, adding, addRead>>
        /\ hpc # "time" /\ hpc' # "time"
    BY <1>1 DEF Exit, KeepTask, GetNextTask, Each, EachEnd, Finish, HostGoto, listVars, taskVars,
                dispatcherVars
  <2>2. Placed' = Placed /\ Owed' = Owed
    BY <2>1 DEF Placed, Owed
  <2> QED BY <1>0, <2>1, <2>2 DEF Totals
<1>2. CASE Shutdown \/ UNCHANGED vars
  <2>1. UNCHANGED <<left, es, size, duration, dpc, totalTime, adding, addRead, hpc, workRead>>
    BY <1>2 DEF Shutdown, vars, taskVars, listVars, hostLocals, dispatcherVars
  <2>2. Placed' = Placed /\ Owed' = Owed
    BY <2>1 DEF Placed, Owed
  <2> QED BY <1>0, <2>1, <2>2 DEF Totals
<1>3. CASE Work
  <2>1. /\ UNCHANGED <<es, size, dpc, taskCrt, totalTime, adding>> /\ adding = Null
        /\ hpc = "sleep" /\ hpc' = "time"
        /\ left' = [left EXCEPT ![taskCrt] = left[taskCrt] - Quantum] /\ workRead' = totalTime
    BY <1>3 DEF Work, Atomic, HostGoto, listVars, taskVars, dispatcherVars
  <2>2. taskCrt \in Tasks /\ taskCrt \in Placed /\ left \in [Tasks -> Int]
    BY <2>1, HostConstants, PlacedIs DEF WorkInv, SerialInv, IInv, TypeOK, Executing
  <2>3. Placed' = Placed /\ Owed = 0
    BY <2>1 DEF Placed, Owed
  <2> DEFINE rest == Placed \ {taskCrt}
             new == [left EXCEPT ![taskCrt] = left[taskCrt] - Quantum]
  <2>4. /\ Placed \subseteq Tasks /\ IsFiniteSet(Placed) /\ IsFiniteSet(rest)
        /\ new \in [Tasks -> Int] /\ new[taskCrt] = left[taskCrt] - Quantum
        /\ \A u \in rest : new[u] = left[u] /\ left[u] \in Int
    BY <2>2, PlacedIs, FS_Subset, NumbersAreInt DEF WorkInv
  <2> HIDE DEF new, rest
  <2>5. SumOf(new, rest) = SumOf(left, rest)
    BY <2>4, SumSame
  <2>6. SumOf(new, Placed) = new[taskCrt] + SumOf(new, rest)
    <3>1. \A u \in Placed : new[u] \in Int
      BY <2>4
    <3>2. \A u \in Placed : SumOf(new, Placed) = new[u] + SumOf(new, Placed \ {u})
      BY <2>4, <3>1, SumLaws
    <3> QED BY <2>2, <3>2 DEF rest
  <2>7. SumOf(left, Placed) = left[taskCrt] + SumOf(left, rest)
    BY <2>2, SumPlaced DEF WorkInv, rest
  <2>8. SumOf(left, rest) \in Int /\ left[taskCrt] \in Int /\ Quantum \in Int
    BY <2>2, <2>4, SumLaws, NumbersAreInt
  <2>9. SumOf(left, Placed) = SumOf(new, Placed) + Quantum
    BY <2>4, <2>5, <2>6, <2>7, <2>8
  <2>10. SumOf(left, Placed)' = SumOf(new, Placed)
    BY <2>1, <2>3 DEF new
  <2>11. workRead' = SumOf(left, Placed)
    BY <1>0, <2>1, <2>3 DEF Totals
  <2>12. \A u \in Tasks : dpc'[u] # "time2"
    BY <1>0, <2>1, HostConstants
  <2> QED BY <2>1, <2>9, <2>10, <2>11, <2>12 DEF Totals
<1>4. CASE WorkEnd
  <2>1. /\ UNCHANGED <<left, es, size, dpc, taskCrt, adding>>
        /\ hpc = "time" /\ hpc' # "time" /\ totalTime' = workRead - Quantum /\ adding = Null
    BY <1>4 DEF WorkEnd, HostGoto, listVars, taskVars, dispatcherVars, WorkInv, SerialInv, Serial
  <2>2. Placed' = Placed /\ Owed' = 0 /\ Quantum \in Int
    BY <2>1, NumbersAreInt DEF Placed, Owed
  <2>3. \A u \in Tasks : dpc'[u] # "time2"
    BY <1>0, <2>1, HostConstants
  <2> QED BY <1>0, <2>1, <2>2, <2>3 DEF Totals
<1>5. CASE Remove
  <2>1. /\ UNCHANGED <<left, dpc, adding, totalTime>> /\ hpc' = "loop" /\ hpc = "remove"
        /\ adding = Null
    BY <1>5 DEF Remove, HostGoto, taskVars, dispatcherVars, WorkInv, SerialInv, Serial
  <2>2. /\ i \in 1 .. newSize + 1 /\ newSize = size - 1 /\ size \in 0 .. Cap /\ es[i] = taskCrt
        /\ i \in 1 .. size /\ taskCrt \in Tasks
    BY <2>1, CapIsNat DEF WorkInv, SerialInv, Serial, IInv, HostLocals, TypeOK, Executing
  <2>3. /\ size' = newSize
        /\ es' = [n \in 1 .. Cap |->
                    IF n >= i /\ n <= newSize THEN es[n + 1]
                    ELSE IF n = newSize + 1 THEN Null ELSE es[n]]
    BY <1>5, <2>2 DEF Remove
  <2>4. \A n \in 1 .. size' :
          n \in 1 .. Cap /\ es'[n] = IF n >= i THEN es[n + 1] ELSE es[n]
    BY <2>2, <2>3, CapIsNat
  <2>5. Placed' = Placed \ {taskCrt}
    <3>1. ASSUME NEW u \in Placed' PROVE u \in Placed \ {taskCrt}
      <4>1. PICK n \in 1 .. size' : u = es'[n]
        BY <3>1 DEF Placed
      <4>2. PICK m \in {n, n + 1} : u = es[m] /\ m # i /\ m \in 1 .. size
        BY <2>2, <2>3, <2>4, <4>1, CapIsNat
      <4>3. m \in 1 .. Cap /\ i \in 1 .. Cap
        BY <2>2, <4>2, CapIsNat
      <4>4. u # taskCrt
        BY <2>2, <4>2, <4>3, HostConstants DEF WorkInv, SerialInv, IInv, ListedOnce
      <4> QED BY <4>2, <4>4 DEF Placed
    <3>2. ASSUME NEW u \in Placed \ {taskCrt} PROVE u \in Placed'
      <4>1. PICK m \in 1 .. size : u = es[m] /\ m # i
        BY <2>2, <3>2 DEF Placed
      <4>2. CASE m < i
        <5>1. m \in 1 .. size' /\ es'[m] = es[m]
          BY <2>2, <2>3, <2>4, <4>1, <4>2
        <5> QED BY <4>1, <5>1 DEF Placed
      <4>3. CASE m > i
        <5>1. m - 1 \in 1 .. size' /\ es'[m - 1] = es[m]
          BY <2>2, <2>3, <2>4, <4>1, <4>3
        <5> QED BY <4>1, <5>1 DEF Placed
      <4> QED BY <2>2, <4>1, <4>2, <4>3
    <3> QED BY <3>1, <3>2
  <2>6. left[taskCrt] = 0
    <3>1. InList(taskCrt) /\ IsFinished(taskCrt) /\ left[taskCrt] \in Int
      BY <2>1, <2>2, HostConstants, PlacedIs DEF WorkInv, SerialInv, IInv, Over, TypeOK
    <3>2. left[taskCrt] <= 0
      BY <2>2, <3>1 DEF WorkInv, SerialInv, IInv, Over
    <3> QED BY <2>2, <3>1, <3>2 DEF WorkInv, LeftOf
  <2>7. SumOf(left, Placed) = left[taskCrt] + SumOf(left, Placed \ {taskCrt})
    BY <2>2, HostConstants, PlacedIs, SumPlaced DEF WorkInv
  <2>8. SumOf(left, Placed \ {taskCrt}) \in Int
    <3>1. IsFiniteSet(Placed \ {taskCrt}) /\ \A u \in Placed \ {taskCrt} : left[u] \in Int
      BY PlacedIs, FS_Subset DEF WorkInv
    <3> QED BY <3>1, SumLaws
  <2>9. SumOf(left, Placed)' = SumOf(left, Placed)
    BY <2>1, <2>5, <2>6, <2>7, <2>8
  <2>10. Owed = 0 /\ Owed' = 0 /\ \A u \in Tasks : dpc'[u] # "time2"
    BY <1>0, <2>1, HostConstants DEF Owed
  <2> QED BY <1>0, <2>1, <2>9, <2>10 DEF Totals
<1> QED BY <1>1, <1>2, <1>3, <1>4, <1>5 DEF HostStep

(* The fold of WorkLeftExact, over places, is the sum over the tasks.      *)
LEMMA WorkLeftIsSum ==
  ASSUME SerialInv
  PROVE  MapThenSumSet(LAMBDA n : left[es[n]], 1 .. size) = SumOf(left, Placed)
<1> DEFINE N == 1 .. size
           f == [n \in N |-> left[es[n]]]
           F(g) == [z \in SUBSET N |->
                      IF z = {} THEN 0
                      ELSE left[es[CHOOSE x \in z : TRUE]] + g[z \ {CHOOSE x \in z : TRUE}]]
           fold == CHOOSE g : g = F(g)
<1>1. /\ size \in Nat /\ IsFiniteSet(N)
      /\ \A n \in N : es[n] \in Tasks /\ left[es[n]] \in Int
      /\ \A m, n \in N : es[m] = es[n] => m = n
  <2>1. size \in 0 .. Cap /\ left \in [Tasks -> Int] /\ \A n \in N : es[n] \in Tasks /\ n \in 1 .. Cap
    BY CapIsNat DEF SerialInv, Serial, IInv, TypeOK
  <2> QED BY <2>1, CapIsNat, HostConstants, FS_Interval DEF SerialInv, IInv, ListedOnce
<1>2. MapThenSumSet(LAMBDA n : left[es[n]], N) = fold[N]
  BY DEF MapThenSumSet, MapThenFoldSet
<1>3. ASSUME NEW g PROVE SumsUp(g, f, N) <=> g = F(g)
  <2>1. \A z \in SUBSET N : z # {} => f[Chosen(z)] = left[es[CHOOSE x \in z : TRUE]]
    BY ChosenIs DEF Chosen
  <2> QED BY <2>1 DEF SumsUp, Chosen
<1>4. \A n \in N : f[n] \in Int
  BY <1>1
<1> HIDE DEF f, F
<1>5. \E g : g = F(g)
  BY <1>1, <1>3, <1>4, SumExists
<1>6. fold = F(fold)
  BY <1>5
<1> HIDE DEF fold, N
<1>7. SumsUp(fold, f, N)
  BY <1>3, <1>6
<1>8. SumOf(f, N) = fold[N]
  <2> DEFINE h == CHOOSE h : SumsUp(h, f, N)
  <2>1. SumsUp(h, f, N) /\ h[N] = SumOf(f, N)
    BY <1>7 DEF SumOf
  <2> HIDE DEF h
  <2>2. h[N] = fold[N]
    BY <1>1, <1>7, <2>1, SumAgrees
  <2> QED BY <2>1, <2>2
<1>9. SumOf(f, N) = SumOf(left, Placed)
  <2> USE DEF N, f, Placed
  <2>1. size \in Nat /\ \A k \in 1 .. size : left[es[k]] \in Int
    BY <1>1
  <2>2. \A j, k \in 1 .. size : es[j] = es[k] => j = k
    BY <1>1
  <2> QED BY <2>1, <2>2, SumOfPlaces
<1> QED BY <1>2, <1>8, <1>9 DEF N

(* getWorkLeft is exact between the dispatcher's calls, as long as every   *)
(* duration is a multiple of the 500 ms the host works at a time: of any   *)
(* other task, the last quantum takes more from totalTime than was left.   *)
THEOREM WorkLeftIsExact ==
  ~Overlap /\ (\A d \in Durations : d \in Multiples) => (Spec => []WorkLeftExact)
<1> SUFFICES ASSUME ~Overlap, \A d \in Durations : d \in Multiples
             PROVE  Spec => []WorkLeftExact
  OBVIOUS
<1>1. Init => WorkInv
  BY InitOK, SerialInit, LeftOfInit DEF WorkInv, SerialInv
<1>2. WorkInv /\ [Next]_vars => WorkInv'
  <2> SUFFICES ASSUME WorkInv, [Next]_vars PROVE WorkInv'
    OBVIOUS
  <2>1. IInv'
    BY StepOK DEF WorkInv, SerialInv
  <2>2. Serial'
    BY SerialAdds, SerialHost DEF Next, WorkInv
  <2>3. LeftOf' /\ Totals'
    BY LeftOfAdds, LeftOfHost, TotalsAdds, TotalsHost DEF Next
  <2> QED BY <2>1, <2>2, <2>3 DEF WorkInv, SerialInv
<1>3. WorkInv => WorkLeftExact
  <2> SUFFICES ASSUME WorkInv, Quiet
               PROVE  totalTime = MapThenSumSet(LAMBDA n : left[es[n]], 1 .. size)
    BY DEF WorkLeftExact
  <2>1. totalTime \in Int /\ totalTime = SumOf(left, Placed)
    BY SumPlaced DEF WorkInv, SerialInv, IInv, TypeOK, Totals, Owed, Quiet
  <2> QED BY <2>1, WorkLeftIsSum DEF WorkInv
<1> QED BY <1>1, <1>2, <1>3, PTL DEF Spec
=============================================================================
