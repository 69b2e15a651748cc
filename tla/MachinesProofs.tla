--------------------------- MODULE MachinesProofs ---------------------------
(***************************************************************************)
(* Proofs about the programs MCMachines runs side by side, for every value *)
(* of their constants: the dispatcher chooses fairly, the web client sends *)
(* its own token and misses no piece of a response, and the threads of the *)
(* contour program rescale the whole image.                                *)
(***************************************************************************)
EXTENDS MCMachines, InductionLemmas, FiniteSetTheorems, SequenceTheorems

---------------------------------------------------------------------------
(* Each program runs by itself: the others do not change its state.        *)

LEMMA EachAlone ==
  MachinesSpec => Spec /\ Images!ContoursSpec /\ Client!ClientSpec
<1>1. MachinesInit => Init /\ Images!ContoursInit /\ Client!ClientInit
  BY DEF MachinesInit
<1>2. ASSUME [MachinesNext]_<<on, vars, imageVars, clientVars, data>>
      PROVE  /\ [Next]_vars
             /\ [Images!ContoursNext]_(Images!contourVars)
             /\ [Client!ClientNext]_(Client!clientVars)
  <2>1. CASE DispatcherStep
    BY <2>1 DEF DispatcherStep, imageVars, clientVars, Images!contourVars, Client!clientVars,
                Client!memory, Client!served
  <2>2. CASE ContoursStep
    BY <2>2 DEF ContoursStep, clientVars, Client!clientVars, Client!memory, Client!served
  <2>3. CASE ClientStep
    BY <2>3 DEF ClientStep, imageVars, Images!contourVars
  <2>4. CASE StatisticsStep \/ UNCHANGED <<on, vars, imageVars, clientVars, data>>
    BY <2>4 DEF StatisticsStep, imageVars, clientVars, Images!contourVars, Client!clientVars,
                Client!memory, Client!served
  <2> QED BY <1>2, <2>1, <2>2, <2>3, <2>4 DEF MachinesNext
<1> QED BY <1>1, <1>2, PTL DEF MachinesSpec, Spec, Images!ContoursSpec, Client!ClientSpec
---------------------------------------------------------------------------
(* The dispatcher: how the loads of the hosts change.                      *)

(* A host's work left is the sum over its list.                            *)
LEMMA WorkIsSum ==
  ASSUME NEW list \in Seq(Nat)
  PROVE  /\ Work(list) = SumOf(list, 1 .. Len(list))
         /\ Work(list) \in Nat
<1> DEFINE S == 1 .. Len(list)
           F(g) == [z \in SUBSET S |->
                      IF z = {} THEN 0
                      ELSE list[CHOOSE x \in z : TRUE] + g[z \ {CHOOSE x \in z : TRUE}]]
           fold == CHOOSE g : g = F(g)
<1>1. IsFiniteSet(S) /\ \A n \in S : list[n] \in Nat /\ list[n] \in Int
  <2>1. Len(list) \in Int /\ \A n \in S : list[n] \in Nat
    OBVIOUS
  <2>2. IsFiniteSet(S)
    BY <2>1, FS_Interval
  <2> QED BY <2>1, <2>2
<1>2. Work(list) = fold[S]
  BY DEF Work, MapThenSumSet, MapThenFoldSet
<1>3. ASSUME NEW g PROVE SumsUp(g, list, S) <=> g = F(g)
  <2>1. \A z \in SUBSET S : z # {} => list[Chosen(z)] = list[CHOOSE x \in z : TRUE]
    BY ChosenIs DEF Chosen
  <2> QED BY <2>1 DEF SumsUp, Chosen
<1> HIDE DEF F, S
<1>4. \E g : g = F(g)
  BY <1>1, <1>3, SumExists
<1>5. fold = F(fold)
  BY <1>4
<1> HIDE DEF fold
<1>6. SumsUp(fold, list, S)
  BY <1>3, <1>5
<1>7. SumOf(list, S) = fold[S]
  <2> DEFINE h == CHOOSE h : SumsUp(h, list, S)
  <2>1. SumsUp(h, list, S) /\ h[S] = SumOf(list, S)
    BY <1>6 DEF SumOf
  <2> HIDE DEF h
  <2>2. h[S] = fold[S]
    BY <1>1, <1>6, <2>1, SumAgrees
  <2> QED BY <2>1, <2>2
<1>8. SumOf(list, S) \in Nat
  BY <1>1, SumNatural
<1> QED BY <1>2, <1>7, <1>8 DEF S

(* What MyHost.run leaves of a list never counts for more.                 *)
Worked(list) == IF Head(list) = 1 THEN Tail(list) ELSE <<Head(list) - 1>> \o Tail(list)

LEMMA WorkFalls ==
  ASSUME NEW list \in Seq(1 .. MaxWork), list # <<>>
  PROVE  /\ Worked(list) \in Seq(1 .. MaxWork)
         /\ Len(Worked(list)) <= Len(list)
         /\ Work(Worked(list)) <= Work(list)
<1> DEFINE L == Len(list)
           rest == 2 .. L
<1>0. MaxWork \in Nat /\ L \in Nat /\ L > 0
  BY DispatcherConstants
<1>1. list \in Seq(Nat) /\ IsFiniteSet(1 .. L) /\ \A n \in 1 .. L : list[n] \in 1 .. MaxWork
  <2>1. list \in Seq(Nat) /\ \A n \in 1 .. L : list[n] \in 1 .. MaxWork
    BY <1>0
  <2>2. 1 \in Int /\ L \in Int
    BY <1>0
  <2> HIDE DEF L
  <2> QED BY <2>1, <2>2, FS_Interval
<1>2. IsFiniteSet(rest) /\ (1 .. L) \ {1} = rest
  <2>1. (1 .. L) \ {1} = rest
    BY <1>0
  <2> HIDE DEF L, rest
  <2> QED BY <1>1, <2>1, FS_Subset
<1>3. /\ Work(list) = list[1] + SumOf(list, rest)
      /\ SumOf(list, rest) \in Int
  <2>1. Work(list) = SumOf(list, 1 .. L)
    BY <1>1, WorkIsSum
  <2>2. \A x \in 1 .. L : list[x] \in Int
    BY <1>1
  <2>3. \A x \in 1 .. L : SumOf(list, 1 .. L) = list[x] + SumOf(list, (1 .. L) \ {x})
    <3> HIDE DEF L
    <3> QED BY <1>1, <2>2, SumLaws
  <2>4. SumOf(list, rest) \in Int
    <3>1. \A x \in rest : list[x] \in Int
      BY <1>2, <2>2
    <3> HIDE DEF L, rest
    <3> QED BY <1>2, <3>1, SumLaws
  <2> QED BY <1>0, <1>2, <2>1, <2>3, <2>4
<1>4. CASE Head(list) = 1
  <2> DEFINE t == Tail(list)
             a == [k \in 1 .. L - 1 |-> k + 1]
  <2>1. t \in Seq(1 .. MaxWork) /\ Len(t) = L - 1 /\ \A k \in 1 .. L - 1 : t[k] = list[k + 1]
    BY <1>0
  <2>2. Work(t) = SumOf(t, 1 .. L - 1)
    <3>1. t \in Seq(Nat)
      BY <1>1
    <3> HIDE DEF t, L
    <3> QED BY <2>1, <3>1, WorkIsSum
  <2>3. {a[k] : k \in 1 .. L - 1} = rest
    <3>1. ASSUME NEW n \in rest PROVE n \in {a[k] : k \in 1 .. L - 1}
      <4>1. n - 1 \in 1 .. L - 1 /\ a[n - 1] = n
        BY <1>0
      <4> QED BY <4>1
    <3> QED BY <1>0, <3>1
  <2>4. /\ SumOf([k \in 1 .. L - 1 |-> list[a[k]]], 1 .. L - 1) = SumOf(list, rest)
        /\ IsFiniteSet(1 .. L - 1)
    <3>1. L - 1 \in Nat /\ \A k \in 1 .. L - 1 : list[a[k]] \in Int
      BY <1>0, <1>1
    <3>2. \A j, k \in 1 .. L - 1 : a[j] = a[k] => j = k
      OBVIOUS
    <3>3. PICK m \in Nat : m = L - 1
      BY <3>1
    <3>4. IsFiniteSet(1 .. m)
      BY FS_Interval
    <3> HIDE DEF a, rest, L
    <3>5. SumOf([k \in 1 .. m |-> list[a[k]]], 1 .. m) = SumOf(list, {a[k] : k \in 1 .. m})
      <4>1. \A k \in 1 .. m : list[a[k]] \in Int
        BY <3>1, <3>3
      <4>2. \A j, k \in 1 .. m : a[j] = a[k] => j = k
        BY <3>2, <3>3
      <4> QED BY <4>1, <4>2, SumOfPlaces
    <3> QED BY <2>3, <3>3, <3>4, <3>5
  <2>5. SumOf(t, 1 .. L - 1) = SumOf([k \in 1 .. L - 1 |-> list[a[k]]], 1 .. L - 1)
    <3> DEFINE e == [k \in 1 .. L - 1 |-> list[a[k]]]
    <3>1. \A k \in 1 .. L - 1 : e[k] \in Int /\ t[k] = e[k]
      BY <1>0, <1>1, <2>1
    <3> HIDE DEF e, t, L
    <3>2. SumOf(t, 1 .. L - 1) = SumOf(e, 1 .. L - 1)
      BY <2>4, <3>1, SumSame
    <3> QED BY <3>2 DEF e
  <2>6. Worked(list) = t /\ list[1] \in 1 .. MaxWork
    BY <1>0, <1>1, <1>4 DEF Worked
  <2> QED BY <1>0, <1>3, <2>1, <2>2, <2>4, <2>5, <2>6
<1>5. CASE Head(list) # 1
  <2> DEFINE w == <<Head(list) - 1>> \o Tail(list)
  <2>1. /\ w \in Seq(1 .. MaxWork) /\ Len(w) = L /\ w[1] = list[1] - 1
        /\ \A k \in rest : w[k] = list[k]
    BY <1>0, <1>1, <1>5
  <2> HIDE DEF w
  <2>2. w \in Seq(Nat) /\ \A n \in 1 .. L : w[n] \in Int
    BY <1>0, <2>1
  <2>3. Work(w) = SumOf(w, 1 .. L)
    BY <2>1, <2>2, WorkIsSum
  <2>4. \A x \in 1 .. L : SumOf(w, 1 .. L) = w[x] + SumOf(w, (1 .. L) \ {x})
    <3> HIDE DEF L
    <3> QED BY <1>1, <2>2, SumLaws
  <2>5. SumOf(w, rest) = SumOf(list, rest)
    <3>1. \A x \in rest : list[x] \in Int
      BY <1>0, <1>1
    <3> QED BY <1>2, <2>1, <3>1, SumSame
  <2>6. Work(w) = w[1] + SumOf(list, rest)
    BY <1>0, <1>2, <2>3, <2>4, <2>5
  <2>7. Worked(list) = w /\ list[1] \in 1 .. MaxWork
    BY <1>0, <1>1, <1>5 DEF Worked, w
  <2> QED BY <1>0, <1>3, <2>1, <2>6, <2>7
<1> QED BY <1>4, <1>5

---------------------------------------------------------------------------
(* The dispatcher's invariant, in parts.                                   *)

(* Between a call and its choice no host gets a task: loads only fall.     *)
LoadsFall ==
  pc # "idle" =>
    /\ Len(given) < MaxTasks /\ loads \in [Hosts -> Nat]
    /\ \A h \in Hosts : Load(h) <= loads[h]

(* The scan keeps a host no more loaded than any it has passed was at the  *)
(* call; one that was less loaded when compared still is when read again.  *)
Scanning ==
  pc \in {"scan", "reread"} =>
    /\ algorithm # "ROUND_ROBIN" /\ i >= 1 /\ node < i /\ Load(node) <= least
    /\ \A h \in 0 .. i - 1 : least <= loads[h]
    /\ pc = "reread" => i < N /\ Load(i) <= least

(* Round robin has gone over the hosts k times, and in the present round   *)
(* given a task to 1 .. lastIndex.                                         *)
Rounds(k) == \A h \in Hosts : Got(h) = IF h \in 1 .. lastIndex THEN k + 1 ELSE k
InTurn == algorithm = "ROUND_ROBIN" => \E k \in Nat : Rounds(k)

DispatchInv == TypeOK /\ LoadsFall /\ Scanning /\ InTurn
---------------------------------------------------------------------------
LEMMA HostsAre == N \in Nat /\ N >= 3 /\ Hosts \subseteq Nat /\ MaxWork \in Nat \ {0}
BY DispatcherConstants DEF Hosts

LEMMA ListLoads ==
  ASSUME NEW list \in Seq(1 .. MaxWork)
  PROVE  Len(list) \in Nat /\ Work(list) \in Nat
<1>1. list \in Seq(Nat)
  BY HostsAre
<1> QED BY <1>1, WorkIsSum

LEMMA LoadIs == TypeOK => \A h \in Hosts : Load(h) \in Nat
<1> SUFFICES ASSUME TypeOK, NEW h \in Hosts PROVE Load(h) \in Nat
  OBVIOUS
<1>1. tasksList[h] \in Seq(1 .. MaxWork)
  BY DEF TypeOK
<1> QED BY <1>1, ListLoads DEF Load

(* A task given is one more of its host's.                                 *)
LEMMA GotOneMore ==
  ASSUME given \in Seq(Hosts), NEW h \in Hosts, given' = Append(given, h)
  PROVE  \A g \in Hosts : Got(g) \in Nat /\ Got(g)' = IF g = h THEN Got(g) + 1 ELSE Got(g)
<1> SUFFICES ASSUME NEW g \in Hosts
             PROVE  Got(g) \in Nat /\ Got(g)' = IF g = h THEN Got(g) + 1 ELSE Got(g)
  OBVIOUS
<1> DEFINE S == {n \in 1 .. Len(given) : given[n] = g}
           T == {n \in 1 .. Len(given') : given'[n] = g}
<1>1. IsFiniteSet(S) /\ Len(given) + 1 \notin S
  <2>1. Len(given) \in Int /\ S \subseteq 1 .. Len(given) /\ Len(given) + 1 \notin S
    OBVIOUS
  <2>2. IsFiniteSet(1 .. Len(given))
    BY <2>1, FS_Interval
  <2> QED BY <2>1, <2>2, FS_Subset
<1>2. T = IF g = h THEN S \cup {Len(given) + 1} ELSE S
  <2>1. /\ Len(given') = Len(given) + 1 /\ Len(given) \in Nat
        /\ \A n \in 1 .. Len(given) : given'[n] = given[n]
        /\ given'[Len(given) + 1] = h
    OBVIOUS
  <2>2. \A n : n \in 1 .. Len(given') <=> n \in 1 .. Len(given) \/ n = Len(given) + 1
    BY <2>1
  <2> QED BY <2>1, <2>2
<1>3. Got(g) = Cardinality(S) /\ Got(g)' = Cardinality(T)
  BY DEF Got
<1> HIDE DEF S, T
<1>4. Cardinality(S) \in Nat /\ Cardinality(S \cup {Len(given) + 1}) = Cardinality(S) + 1
  BY <1>1, FS_CardinalityType, FS_AddElement
<1> QED BY <1>2, <1>3, <1>4

LEMMA DispatchInit == Init => DispatchInv
<1> SUFFICES ASSUME Init PROVE DispatchInv
  OBVIOUS
<1>1. TypeOK
  <2>1. lastIndex \in Hosts /\ i \in 0 .. N /\ node \in Hosts /\ least \in Nat
    BY HostsAre DEF Init, Hosts
  <2>2. tasksList \in [Hosts -> Seq(1 .. MaxWork)]
    BY DEF Init
  <2>3. given \in Seq(Hosts) /\ Len(given) <= MaxTasks /\ duration \in 1 .. MaxWork
    BY DispatcherConstants DEF Init
  <2> QED BY <2>1, <2>2, <2>3 DEF Init, TypeOK, Algorithms, Types
<1>2. LoadsFall /\ Scanning
  BY DEF Init, LoadsFall, Scanning
<1>3. Rounds(0)
  <2>1. ASSUME NEW h \in Hosts PROVE Got(h) = 0
    <3>1. {n \in 1 .. Len(given) : given[n] = h} = {}
      BY DEF Init
    <3> QED BY <3>1, FS_EmptySet DEF Got
  <2> QED BY <2>1 DEF Rounds, Init
<1> QED BY <1>1, <1>2, <1>3 DEF DispatchInv, InTurn

(* hosts.get(h).addTask(task), which every algorithm ends with.            *)
LEMMA GiveOK ==
  ASSUME DispatchInv, Len(given) < MaxTasks, NEW h \in Hosts, Give(h), lastIndex' \in Hosts,
         UNCHANGED <<algorithm, i, node, least, type, duration, loads>>
  PROVE  TypeOK' /\ LoadsFall' /\ Scanning'
<1>1. given' \in Seq(Hosts) /\ Len(given') <= MaxTasks
  <2>1. given \in Seq(Hosts) /\ given' = Append(given, h)
    BY DEF Give, DispatchInv, TypeOK
  <2>2. given' \in Seq(Hosts) /\ Len(given') = Len(given) + 1 /\ Len(given) \in Nat
    BY <2>1
  <2> QED BY <2>2, DispatcherConstants
<1>2. tasksList' \in [Hosts -> Seq(1 .. MaxWork)]
  <2>1. duration \in 1 .. MaxWork /\ tasksList \in [Hosts -> Seq(1 .. MaxWork)]
    BY DEF DispatchInv, TypeOK
  <2>2. Append(tasksList[h], duration) \in Seq(1 .. MaxWork)
    BY <2>1
  <2> QED BY <2>1, <2>2 DEF Give
<1>3. pc' = "idle"
  BY DEF Give
<1> QED BY <1>1, <1>2, <1>3 DEF DispatchInv, TypeOK, LoadsFall, Scanning

(* The load of no host changes.                                            *)
LEMMA SameLoads ==
  ASSUME UNCHANGED <<algorithm, tasksList>>
  PROVE  \A h : Load(h)' = Load(h)
BY DEF Load

(* Round robin, size interval, and the end of a scan.                      *)
LEMMA RoundRobinOK ==
  ASSUME DispatchInv, RoundRobin
  PROVE  DispatchInv'
<1> DEFINE h == (lastIndex + 1) % N
<1>1. lastIndex \in 0 .. N - 1 /\ h = IF lastIndex = N - 1 THEN 0 ELSE lastIndex + 1
  <2>1. lastIndex \in 0 .. N - 1
    BY DEF DispatchInv, TypeOK, Hosts
  <2> QED BY <2>1, HostsAre
<1>2. h \in Hosts /\ Give(h) /\ lastIndex' = h
      /\ UNCHANGED <<algorithm, i, node, least, type, duration, loads>>
  BY <1>1, HostsAre DEF RoundRobin, Hosts
<1> HIDE DEF h
<1>3. TypeOK' /\ LoadsFall' /\ Scanning'
  BY <1>2, GiveOK DEF RoundRobin, DispatchInv, LoadsFall
<1>4. PICK k \in Nat : Rounds(k)
  BY DEF DispatchInv, InTurn, RoundRobin
<1>5. \A g \in Hosts : Got(g)' = IF g = h THEN Got(g) + 1 ELSE Got(g)
  BY <1>2, GotOneMore DEF DispatchInv, TypeOK, Give
<1>6. \A g \in Hosts : Got(g) = IF g \in 1 .. lastIndex THEN k + 1 ELSE k
  BY <1>4 DEF Rounds
<1>7. CASE lastIndex = N - 1
  <2>1. ASSUME NEW g \in Hosts PROVE Got(g)' = k + 1 /\ g \notin 1 .. lastIndex'
    BY <1>1, <1>2, <1>5, <1>6, <1>7, HostsAre DEF Hosts
  <2>2. Rounds(k + 1)'
    BY <2>1 DEF Rounds
  <2> QED BY <1>3, <2>2 DEF DispatchInv, InTurn
<1>8. CASE lastIndex # N - 1
  <2>1. ASSUME NEW g \in Hosts
        PROVE  Got(g)' = IF g \in 1 .. lastIndex' THEN k + 1 ELSE k
    BY <1>1, <1>2, <1>5, <1>6, <1>8, HostsAre DEF Hosts
  <2>2. Rounds(k)'
    BY <2>1 DEF Rounds
  <2> QED BY <1>3, <2>2 DEF DispatchInv, InTurn
<1> QED BY <1>7, <1>8

LEMMA OthersGive ==
  ASSUME DispatchInv, SizeInterval \/ Choose
  PROVE  DispatchInv'
<1>1. CASE SizeInterval
  <2>1. IntervalHost(type) \in Hosts
    BY HostsAre DEF DispatchInv, TypeOK, IntervalHost, Types, Hosts
  <2>2. TypeOK' /\ LoadsFall' /\ Scanning'
    BY <1>1, <2>1, GiveOK DEF SizeInterval, DispatchInv, TypeOK, LoadsFall
  <2> QED BY <1>1, <2>2 DEF SizeInterval, DispatchInv, InTurn
<1>2. CASE Choose
  <2>1. TypeOK' /\ LoadsFall' /\ Scanning'
    BY <1>2, GiveOK DEF Choose, DispatchInv, TypeOK, LoadsFall
  <2> QED BY <1>2, <2>1 DEF Choose, DispatchInv, Scanning, InTurn
<1> QED BY <1>1, <1>2

(* The scan: between its steps loads only fall.                            *)
LEMMA ScanOK ==
  ASSUME DispatchInv, Scan \/ Compare \/ Reread
  PROVE  DispatchInv'
<1>1. /\ UNCHANGED <<algorithm, lastIndex, tasksList, given, type, duration, loads>>
      /\ pc # "idle" /\ pc' # "idle"
  BY DEF Scan, Compare, Reread
<1>2. \A h : Load(h)' = Load(h)
  BY <1>1, SameLoads
<1>3. /\ \A h \in Hosts : Load(h) \in Nat /\ loads[h] \in Nat /\ Load(h) <= loads[h]
      /\ 0 \in Hosts /\ i \in 0 .. N /\ node \in Hosts /\ least \in Nat
  BY <1>1, LoadIs, HostsAre DEF DispatchInv, TypeOK, LoadsFall, Hosts
<1>4. LoadsFall'
  BY <1>1, <1>2 DEF DispatchInv, LoadsFall
<1>5. InTurn'
  BY <1>1 DEF DispatchInv, InTurn, Rounds, Got
<1>6. CASE Scan
  <2>1. /\ least' = Load(0) /\ node' = 0 /\ i' = 1 /\ pc' = "scan"
        /\ algorithm # "ROUND_ROBIN"
    BY <1>6 DEF Scan
  <2>2. Scanning'
    <3>1. \A h \in 0 .. i' - 1 : least' <= loads'[h]
      BY <1>1, <1>3, <2>1
    <3> QED BY <1>1, <1>2, <1>3, <2>1, <3>1 DEF Scanning
  <2>3. TypeOK'
    BY <1>1, <1>3, <2>1, HostsAre DEF DispatchInv, TypeOK
  <2> QED BY <1>4, <1>5, <2>2, <2>3 DEF DispatchInv
<1>7. CASE Compare
  <2>1. /\ pc = "scan" /\ i < N /\ UNCHANGED <<node, least>>
        /\ \/ Load(i) < least /\ pc' = "reread" /\ i' = i
           \/ ~(Load(i) < least) /\ pc' = "scan" /\ i' = i + 1
    BY <1>7 DEF Compare
  <2>2. /\ algorithm # "ROUND_ROBIN" /\ i >= 1 /\ node < i /\ Load(node) <= least
        /\ \A h \in 0 .. i - 1 : least <= loads[h]
    BY <2>1 DEF DispatchInv, Scanning
  <2>3. i \in Hosts /\ i \in Nat /\ i' \in 0 .. N /\ N \in Nat
    BY <1>3, <2>1, <2>2, HostsAre DEF Hosts
  <2>4. Scanning'
    <3>1. CASE i' = i /\ pc' = "reread" /\ Load(i) < least
      BY <1>1, <1>2, <1>3, <2>1, <2>2, <2>3, <3>1 DEF Scanning
    <3>2. CASE i' = i + 1 /\ pc' = "scan" /\ ~(Load(i) < least)
      <4>1. least <= loads[i]
        BY <1>3, <2>3, <3>2
      <4>2. \A h \in 0 .. i' - 1 : least' <= loads'[h]
        BY <1>1, <2>1, <2>2, <2>3, <3>2, <4>1
      <4>3. node' < i' /\ i' >= 1
        BY <1>3, <2>1, <2>2, <2>3, <3>2, HostsAre
      <4> QED BY <1>1, <1>2, <2>1, <2>2, <3>2, <4>2, <4>3 DEF Scanning
    <3> QED BY <2>1, <3>1, <3>2
  <2>5. TypeOK'
    BY <1>1, <2>1, <2>3 DEF DispatchInv, TypeOK
  <2> QED BY <1>4, <1>5, <2>4, <2>5 DEF DispatchInv
<1>8. CASE Reread
  <2>1. pc = "reread" /\ node' = i /\ least' = Load(i) /\ i' = i + 1 /\ pc' = "scan"
    BY <1>8 DEF Reread
  <2>2. /\ algorithm # "ROUND_ROBIN" /\ i >= 1 /\ i < N /\ Load(i) <= least
        /\ \A h \in 0 .. i - 1 : least <= loads[h]
    BY <2>1 DEF DispatchInv, Scanning
  <2>3. i \in Hosts /\ i \in Nat /\ i' \in 0 .. N /\ N \in Nat
    BY <1>3, <2>1, <2>2, HostsAre DEF Hosts
  <2>4. Scanning'
    <3>1. ASSUME NEW h \in 0 .. i' - 1 PROVE least' <= loads'[h]
      <4>1. CASE h = i
        BY <1>1, <1>3, <2>1, <2>3, <4>1
      <4>2. CASE h # i
        <5>1. h \in 0 .. i - 1 /\ h \in Hosts
          BY <2>1, <2>2, <2>3, <3>1, <4>2 DEF Hosts
        <5>2. Load(i) \in Nat /\ least \in Nat /\ loads[h] \in Nat
          BY <1>3, <2>3, <5>1
        <5>3. least <= loads[h] /\ Load(i) <= least
          BY <2>2, <5>1
        <5> QED BY <1>1, <2>1, <5>2, <5>3
      <4> QED BY <4>1, <4>2
    <3>2. node' < i' /\ i' >= 1
      BY <2>1, <2>2, <2>3
    <3>3. Load(node)' <= least'
      <4>1. least' = Load(node)' /\ least' \in Nat
        BY <1>1, <1>3, <2>1, <2>3 DEF Load
      <4> QED BY <4>1
    <3> QED BY <1>1, <2>1, <2>2, <3>1, <3>2, <3>3 DEF Scanning
  <2>5. TypeOK'
    BY <1>1, <1>3, <2>1, <2>3 DEF DispatchInv, TypeOK
  <2> QED BY <1>4, <1>5, <2>4, <2>5 DEF DispatchInv
<1> QED BY <1>6, <1>7, <1>8

(* A host that works has no larger load than before.                       *)
LEMMA HostRunsOK ==
  ASSUME DispatchInv, NEW h \in Hosts, HostRuns(h)
  PROVE  DispatchInv'
<1>1. /\ tasksList[h] # <<>> /\ tasksList' = [tasksList EXCEPT ![h] = Worked(tasksList[h])]
      /\ UNCHANGED <<algorithm, lastIndex, given, pc, i, node, least, type, duration, loads>>
  BY DEF HostRuns, Worked, locals
<1>2. tasksList \in [Hosts -> Seq(1 .. MaxWork)]
  BY DEF DispatchInv, TypeOK
<1>3. /\ Worked(tasksList[h]) \in Seq(1 .. MaxWork)
      /\ Len(Worked(tasksList[h])) <= Len(tasksList[h])
      /\ Work(Worked(tasksList[h])) <= Work(tasksList[h])
  BY <1>1, <1>2, WorkFalls
<1>4. TypeOK'
  BY <1>1, <1>2, <1>3 DEF DispatchInv, TypeOK
<1>5. ASSUME NEW g \in Hosts
      PROVE  Load(g) \in Nat /\ Load(g)' \in Nat /\ Load(g)' <= Load(g)
  <2>1. Load(g) \in Nat /\ Load(g)' \in Nat
    <3>1. tasksList[g] \in Seq(1 .. MaxWork) /\ tasksList'[g] \in Seq(1 .. MaxWork)
      BY <1>2, <1>4 DEF TypeOK
    <3> QED BY <3>1, ListLoads DEF Load
  <2>2. CASE g = h
    <3>1. tasksList'[g] = Worked(tasksList[h])
      BY <1>1, <1>2, <2>2
    <3> QED BY <1>1, <1>3, <2>1, <2>2, <3>1 DEF Load
  <2>3. CASE g # h
    <3>1. Load(g)' = Load(g)
      BY <1>1, <1>2, <2>3 DEF Load
    <3> QED BY <2>1, <3>1
  <2> QED BY <2>1, <2>2, <2>3
<1>6. LoadsFall'
  <2> SUFFICES ASSUME pc # "idle", NEW g \in Hosts PROVE Load(g)' <= loads[g]
    BY <1>1 DEF LoadsFall, DispatchInv
  <2>1. loads[g] \in Nat /\ Load(g) <= loads[g]
    BY DEF DispatchInv, LoadsFall
  <2> QED BY <1>5, <2>1
<1>7. Scanning'
  <2> SUFFICES ASSUME pc \in {"scan", "reread"} PROVE Scanning'
    BY <1>1 DEF Scanning
  <2>1. /\ algorithm # "ROUND_ROBIN" /\ i >= 1 /\ node < i /\ Load(node) <= least
        /\ \A g \in 0 .. i - 1 : least <= loads[g]
        /\ pc = "reread" => i < N /\ Load(i) <= least
    BY DEF DispatchInv, Scanning
  <2>2. least \in Nat /\ node \in Hosts /\ i \in 0 .. N
    BY DEF DispatchInv, TypeOK
  <2>3. PICK n \in Hosts : n = node
    BY <2>2
  <2>4. Load(n)' <= least
    <3>1. Load(n) <= least
      BY <2>1, <2>3
    <3> QED BY <1>5, <2>2, <3>1
  <2>5. ASSUME pc = "reread" PROVE Load(i)' <= least'
    <3>1. PICK m \in Hosts : m = i
      BY <2>1, <2>2, <2>5, HostsAre DEF Hosts
    <3>2. Load(m) <= least
      BY <2>1, <2>5, <3>1
    <3>3. Load(m)' <= least
      BY <1>5, <2>2, <3>2
    <3> QED BY <1>1, <3>1, <3>3 DEF Load
  <2>6. Load(node)' <= least'
    BY <1>1, <2>3, <2>4 DEF Load
  <2> QED BY <1>1, <2>1, <2>5, <2>6 DEF Scanning
<1>8. InTurn'
  BY <1>1 DEF DispatchInv, InTurn, Rounds, Got
<1> QED BY <1>4, <1>6, <1>7, <1>8 DEF DispatchInv

LEMMA AddTaskOK ==
  ASSUME DispatchInv, NEW ty \in Types, NEW d \in 1 .. MaxWork, AddTask(ty, d)
  PROVE  DispatchInv'
<1>1. /\ pc = "idle" /\ Len(given) < MaxTasks /\ pc' = "choose" /\ type' = ty /\ duration' = d
      /\ loads' = [h \in Hosts |-> Load(h)]
      /\ UNCHANGED <<algorithm, lastIndex, tasksList, given, i, node, least>>
  BY DEF AddTask
<1>2. \A h \in Hosts : Load(h) \in Nat /\ Load(h)' = Load(h)
  BY <1>1, LoadIs, SameLoads DEF DispatchInv
<1>3. LoadsFall'
  BY <1>1, <1>2 DEF LoadsFall
<1>4. TypeOK' /\ Scanning'
  BY <1>1 DEF DispatchInv, TypeOK, Scanning
<1>5. InTurn'
  BY <1>1 DEF DispatchInv, InTurn, Rounds, Got
<1> QED BY <1>3, <1>4, <1>5 DEF DispatchInv

LEMMA DispatchStep == DispatchInv /\ [Next]_vars => DispatchInv'
<1> SUFFICES ASSUME DispatchInv, [Next]_vars PROVE DispatchInv'
  OBVIOUS
<1>1. CASE UNCHANGED vars
  <2>1. UNCHANGED <<algorithm, lastIndex, tasksList, given, pc, i, node, least, type, duration,
                    loads>>
    BY <1>1 DEF vars, locals
  <2> QED BY <2>1 DEF DispatchInv, TypeOK, LoadsFall, Scanning, InTurn, Rounds, Got, Load
<1> QED BY <1>1, AddTaskOK, RoundRobinOK, OthersGive, ScanOK, HostRunsOK DEF Next

(* Round robin never gives a host two tasks more than another, and a scan, *)
(* though hosts work meanwhile, chooses one no more loaded than any was    *)
(* when addTask was called.                                                *)
THEOREM DispatcherIsFair == MachinesSpec => ChoosesFairly
<1>1. Spec => []DispatchInv
  BY DispatchInit, DispatchStep, PTL DEF Spec
<1>2. DispatchInv => Balanced
  <2> SUFFICES ASSUME DispatchInv, algorithm = "ROUND_ROBIN", NEW g \in Hosts, NEW h \in Hosts
               PROVE  Got(g) - Got(h) <= 1
    BY DEF Balanced
  <2>1. PICK k \in Nat : Rounds(k)
    BY DEF DispatchInv, InTurn
  <2> QED BY <2>1 DEF Rounds
<1>3. ASSUME DispatchInv, [Next]_vars
      PROVE  [ Choose => \A h \in Hosts : Load(node) <= loads[h] ]_vars
  <2> SUFFICES ASSUME Choose, NEW h \in Hosts PROVE Load(node) <= loads[h]
    OBVIOUS
  <2>1. Load(node) <= least /\ least <= loads[h]
    BY <1>3, HostsAre DEF Choose, DispatchInv, Scanning, Hosts
  <2>2. Load(node) \in Nat /\ least \in Nat /\ loads[h] \in Nat
    BY <1>3, LoadIs DEF Choose, DispatchInv, TypeOK, LoadsFall
  <2> QED BY <2>1, <2>2
<1> QED BY EachAlone, <1>1, <1>2, <1>3, PTL DEF Spec, ChoosesFairly, LeastLoaded
---------------------------------------------------------------------------
(* The web client's invariant, in parts.                                   *)

(* The cookie is that of the login, and a request is of a command that the *)
(* client's state allows; an accepted login has opened a session.          *)
Session ==
  /\ latest \in Nat /\ answer \in {"ok", "empty", "error"}
  /\ logged_in \in BOOLEAN /\ library \in BOOLEAN
  /\ logged_in <=> cookie # Client!None
  /\ at \in {"header", "body", "handle"} => ~Client!Refused(command)
  /\ at \in {"header", "body", "handle"} /\ command = "login" /\ received > 0 =>
       answer = "error" \/ (answer = "ok" /\ latest > 0)

(* The first loop goes on while the header, or its Content-Length, has not *)
(* come; the second while some of what was announced has not.              *)
Reception ==
  /\ received \in Nat /\ response \in Client!Responses
  /\ at = "header" /\ ~closed /\ response.announced => received < response.header
  /\ at = "body" /\ ~closed =>
       received > 0 /\ received < total /\ total = Client!Size(response)
  /\ at \in {"handle", "undefined"} => closed \/ received = Client!Size(response)

(* A response from which a text is to be cut has a body.                   *)
Bodies ==
  at \in {"header", "body", "handle"} /\ received > 0
    /\ (answer = "error" \/ command \in {"enter_library", "get_books", "get_book"}) =>
    response.body > 0

(* In all of a response, only a list of books can be missing.              *)
MissesBooksOnly ==
  at = "undefined" /\ received = Client!Size(response) => command = "get_books" /\ answer # "ok"

ClientInv == Session /\ Client!OwnToken /\ Reception /\ Bodies /\ MissesBooksOnly

LEMMA TerminatorIs == HEADER_TERMINATOR_SIZE \in Nat /\ MaxHeader \in Nat /\ MaxBody \in Nat
BY ClientConstants

LEMMA ResponseIs ==
  ASSUME NEW r \in Client!Responses
  PROVE  /\ r.header \in Nat /\ r.header > HEADER_TERMINATOR_SIZE /\ r.header > 0
         /\ r.body \in Nat /\ r.announced \in BOOLEAN
         /\ Client!Size(r) = r.header + r.body
BY TerminatorIs DEF Client!Responses, Client!Size

LEMMA ClientStarts == Client!ClientInit => ClientInv
<1> SUFFICES ASSUME Client!ClientInit PROVE ClientInv
  OBVIOUS
<1>1. latest = 0 /\ received = 0 /\ answer = "ok" /\ at = "prompt"
  BY DEF Client!ClientInit
<1>2. logged_in = FALSE /\ library = FALSE /\ cookie = Client!None
  BY DEF Client!ClientInit
<1>3. response \in Client!Responses
  <2>1. HEADER_TERMINATOR_SIZE + 1 \in HEADER_TERMINATOR_SIZE + 1 .. MaxHeader /\ 0 \in 0 .. MaxBody
    BY ClientConstants
  <2> QED BY <2>1 DEF Client!ClientInit, Client!Responses
<1>4. Session /\ Client!OwnToken
  BY <1>1, <1>2 DEF Session, Client!OwnToken
<1>5. Reception /\ Bodies /\ MissesBooksOnly
  BY <1>1, <1>3 DEF Reception, Bodies, MissesBooksOnly
<1> QED BY <1>4, <1>5 DEF ClientInv

(* What the server decides is an answer, and a login it accepts is new.    *)
LEMMA ServeGives ==
  ASSUME latest \in Nat, NEW c, Client!Serve(c)
  PROVE  /\ answer' \in {"ok", "empty", "error"} /\ latest' \in Nat /\ latest' >= latest
         /\ c = "login" => answer' = "error" \/ (answer' = "ok" /\ latest' > 0)
<1>1. CASE c = "login"
  BY <1>1 DEF Client!Serve
<1>2. CASE c = "register"
  BY <1>2 DEF Client!Serve
<1>3. CASE c \in {"logout", "enter_library"}
  BY <1>3 DEF Client!Serve
<1>4. CASE c \notin {"login", "register", "logout", "enter_library"}
  BY <1>4 DEF Client!Serve
<1> QED BY <1>1, <1>2, <1>3, <1>4

(* In a loop the answer, when the server gives one, keeps the invariant of *)
(* the session and the bodies.                                             *)
LEMMA AnswerOK ==
  ASSUME ClientInv, at \in {"header", "body"},
         UNCHANGED <<command, logged_in, library, cookie, token>>,
         \/ received = 0 /\ Client!Respond(command)
         \/ /\ UNCHANGED <<answer, response, session, latest>>
            /\ received' > 0 => received > 0
  PROVE  Session' /\ Client!OwnToken' /\ Bodies' /\ response' \in Client!Responses
<1>1. Session /\ Client!OwnToken /\ Bodies /\ response \in Client!Responses
  BY DEF ClientInv, Reception
<1>2. Client!OwnToken'
  BY <1>1 DEF Client!OwnToken
<1>3. ~Client!Refused(command)'
  BY <1>1 DEF Session, Client!Refused
<1>4. CASE received = 0 /\ Client!Respond(command)
  <2>1. Client!Serve(command)
    BY <1>4 DEF Client!Respond
  <2>2. /\ answer' \in {"ok", "empty", "error"} /\ latest' \in Nat
        /\ command = "login" => answer' = "error" \/ (answer' = "ok" /\ latest' > 0)
    BY <1>1, <2>1, ServeGives DEF Session
  <2>3. Session'
    BY <1>1, <1>3, <2>2 DEF Session
  <2>4. /\ response' \in Client!Responses
        /\ answer' = "error" \/ command \in {"enter_library", "get_books", "get_book"}
             => response'.body > 0
    BY <1>4 DEF Client!Respond
  <2> QED BY <1>2, <2>3, <2>4 DEF Bodies
<1>5. CASE /\ UNCHANGED <<answer, response, session, latest>>
           /\ received' > 0 => received > 0
  <2>1. Session'
    BY <1>1, <1>3, <1>5 DEF Session
  <2> QED BY <1>1, <1>2, <1>5, <2>1 DEF Bodies
<1> QED BY <1>4, <1>5

(* After a piece either loop goes on as long as something is missing.      *)
LEMMA ReadPieceOK ==
  ASSUME ClientInv, Client!ReadPiece
  PROVE  ClientInv'
<1>1. /\ at \in {"header", "body"} /\ ~closed /\ ~closed'
      /\ UNCHANGED <<command, logged_in, library, cookie, token>>
      /\ Reception
  BY DEF Client!ReadPiece, Client!memory, ClientInv
<1>2. received \in Nat /\ received' \in received + 1 .. Client!Size(response')
  BY <1>1 DEF Client!ReadPiece, Reception
<1>3. \/ received = 0 /\ Client!Respond(command)
      \/ /\ UNCHANGED <<answer, response, session, latest>>
         /\ received' > 0 => received > 0
  BY <1>2 DEF Client!ReadPiece, Client!served
<1>4. Session' /\ Client!OwnToken' /\ Bodies' /\ response' \in Client!Responses
  BY <1>1, <1>3, AnswerOK
<1>5. /\ response'.header \in Nat /\ response'.header > HEADER_TERMINATOR_SIZE
      /\ response'.body \in Nat /\ HEADER_TERMINATOR_SIZE \in Nat
      /\ Client!Size(response') = response'.header + response'.body
      /\ Client!Size(response') \in Nat
  BY <1>4, ResponseIs, TerminatorIs
<1>6. received' \in Nat /\ received' <= Client!Size(response')
  BY <1>2, <1>5
<1>7. ASSUME Client!ReadUpTo(Client!Size(response'))
      PROVE  ClientInv'
  <2>1. /\ total' = Client!Size(response')
        /\ at' = IF received' < Client!Size(response') THEN "body" ELSE "handle"
    BY <1>7 DEF Client!ReadUpTo
  <2>2. received' > 0
    BY <1>2, <1>6
  <2>3. at' = "handle" => received' = Client!Size(response')
    BY <1>5, <1>6, <2>1
  <2>4. Reception' /\ MissesBooksOnly'
    BY <1>1, <1>4, <1>6, <2>1, <2>2, <2>3 DEF Reception, MissesBooksOnly
  <2> QED BY <1>4, <2>4 DEF ClientInv
<1>8. CASE at = "body"
  <2>1. received > 0 /\ total = Client!Size(response)
    BY <1>1, <1>8 DEF Reception
  <2>2. response' = response
    BY <1>2, <2>1 DEF Client!ReadPiece, Client!served
  <2>3. Client!ReadUpTo(Client!Size(response'))
    BY <1>8, <2>1, <2>2 DEF Client!ReadPiece
  <2> QED BY <1>7, <2>3
<1>9. CASE at = "header"
  <2> DEFINE end == Client!header_end(response', received')
  <2>1. received' >= response'.header => end = response'.header
    BY <1>5 DEF Client!header_end, Client!buffer_find
  <2>2. ~(received' >= response'.header) => end = -1
    BY DEF Client!header_end, Client!buffer_find
  <2>3. CASE end >= 0 /\ response'.announced
    <3>1. end = response'.header
      BY <1>5, <1>6, <2>1, <2>2, <2>3
    <3>2. Client!size_t(response'.body + end) = Client!Size(response')
      BY <1>5, <3>1 DEF Client!size_t
    <3>3. Client!ReadUpTo(Client!size_t(response'.body + end))
      BY <1>9, <2>3 DEF Client!ReadPiece
    <3> QED BY <1>7, <3>2, <3>3
  <2>4. CASE ~(end >= 0 /\ response'.announced)
    <3>1. at' = "header"
      BY <1>9, <2>4 DEF Client!ReadPiece
    <3>2. response'.announced => received' < response'.header
      BY <1>5, <1>6, <2>1, <2>4
    <3>3. Reception' /\ MissesBooksOnly'
      BY <1>4, <1>6, <3>1, <3>2 DEF Reception, MissesBooksOnly
    <3> QED BY <1>4, <3>3 DEF ClientInv
  <2> QED BY <2>3, <2>4
<1> QED BY <1>1, <1>8, <1>9

(* When the server has closed, whatever has come is handled.               *)
LEMMA ReadEndOK ==
  ASSUME ClientInv, Client!ReadEnd
  PROVE  ClientInv'
<1>1. /\ at \in {"header", "body"} /\ at' \in {"body", "handle"} /\ closed /\ closed'
      /\ UNCHANGED <<command, answer, response, received, logged_in, library, cookie, token,
                     session, latest>>
  BY DEF Client!ReadEnd, Client!ReadUpTo, Client!memory, Client!served
<1>2. Session' /\ Client!OwnToken' /\ Bodies'
  BY <1>1 DEF ClientInv, Session, Client!OwnToken, Bodies, Client!Refused
<1>3. Reception' /\ MissesBooksOnly'
  BY <1>1 DEF ClientInv, Reception, MissesBooksOnly
<1> QED BY <1>2, <1>3 DEF ClientInv

LEMMA CloseOK ==
  ASSUME ClientInv, Client!Close
  PROVE  ClientInv'
<1>1. /\ at \in {"header", "body"} /\ closed'
      /\ UNCHANGED <<at, command, received, total, logged_in, library, cookie, token>>
      /\ \/ received = 0 /\ Client!Respond(command)
         \/ UNCHANGED <<answer, response, session, latest>>
  BY DEF Client!Close, Client!memory, Client!served
<1>2. Session' /\ Client!OwnToken' /\ Bodies' /\ response' \in Client!Responses
  BY <1>1, AnswerOK
<1>3. Reception' /\ MissesBooksOnly'
  BY <1>1, <1>2 DEF ClientInv, Reception, MissesBooksOnly
<1> QED BY <1>2, <1>3 DEF ClientInv

(* A text in the header is found when all has come, and one in the body    *)
(* when there is a body; none is found where nothing has come.             *)
LEMMA SearchIs ==
  ASSUME ClientInv
  PROVE  /\ TRUE \in Client!InHeader => received > 0
         /\ received = Client!Size(response) => Client!InHeader = {TRUE}
         /\ received = Client!Size(response) /\ response.body > 0 => Client!InBody = {TRUE}
<1>1. /\ received \in Nat
      /\ response.header \in Nat /\ response.header > 0
      /\ response.body \in Nat
      /\ Client!Size(response) = response.header + response.body
  BY ResponseIs DEF ClientInv, Reception
<1>2. Client!InHeader = {received > 0, received >= response.header}
  BY DEF Client!InHeader, Client!Search
<1>3. Client!InBody = {received > response.header, received >= Client!Size(response)}
  BY DEF Client!InBody, Client!Search
<1>4. TRUE \in Client!InHeader => received > 0
  <2>1. ~(received > 0) => ~(received >= response.header)
    BY <1>1
  <2> QED BY <1>2, <2>1, Zenon
<1>5. received = Client!Size(response) => received > 0 /\ received >= response.header
  BY <1>1
<1>6. received = Client!Size(response) /\ response.body > 0 =>
        received > response.header /\ received >= Client!Size(response)
  BY <1>1
<1> QED BY <1>2, <1>3, <1>4, <1>5, <1>6

(* A response is only handled: the memory changes as the command asks, and *)
(* of a whole one no text is missed but the books.                         *)
LEMMA HandleOK ==
  ASSUME ClientInv, Client!Handle
  PROVE  ClientInv'
<1>1. /\ at = "handle" /\ ~Client!Refused(command)
      /\ UNCHANGED <<command, answer, response, session, latest, received, total, closed, open>>
      /\ Session /\ Client!OwnToken /\ Reception /\ Bodies
      /\ received \in Nat
  BY DEF Client!Handle, Client!served, ClientInv, Session, Reception
<1>2. at' \in {"prompt", "undefined"}
  BY DEF Client!Handle, Client!Register, Client!Login, Client!Logout, Client!EnterLibrary,
         Client!GetBooks, Client!GetBook, Client!AddBook, Client!DeleteBook, Client!Shows
<1>3. Reception' /\ Bodies'
  BY <1>1, <1>2 DEF Reception, Bodies
<1>4. MissesBooksOnly'
  <2> SUFFICES ASSUME at' = "undefined", received = Client!Size(response)
               PROVE  command = "get_books" /\ answer # "ok"
    BY <1>1 DEF MissesBooksOnly
  <2>1. received > 0 /\ Client!InHeader = {TRUE}
        /\ (response.body > 0 => Client!InBody = {TRUE})
    <3>1. response.header \in Nat /\ response.header > 0 /\ response.body \in Nat
          /\ Client!Size(response) = response.header + response.body
      BY <1>1, ResponseIs DEF Reception
    <3>2. received > 0
      BY <3>1
    <3> QED BY <3>2, SearchIs
  <2>2. answer = "error" \/ command \in {"enter_library", "get_books", "get_book"} =>
          Client!InBody = {TRUE}
    BY <1>1, <2>1 DEF Bodies
  <2>3. CASE Client!Login
    <3>1. FALSE \in (IF answer = "ok" THEN Client!InHeader ELSE Client!InBody)
      BY <2>3 DEF Client!Login
    <3>2. answer \in {"ok", "error"}
      BY <1>1, <2>1, <2>3 DEF Client!Login, Session
    <3> QED BY <2>1, <2>2, <3>1, <3>2
  <2>4. CASE Client!EnterLibrary
    BY <2>2, <2>4 DEF Client!EnterLibrary
  <2>5. CASE Client!GetBooks
    BY <2>2, <2>5 DEF Client!GetBooks, Client!Shows
  <2>6. CASE Client!GetBook
    <3>1. command = "get_book" /\ Client!InBody = {TRUE}
      BY <2>2, <2>6 DEF Client!GetBook
    <3>2. \E text \in {TRUE} : at' = IF text THEN "prompt" ELSE "undefined"
      BY <2>6, <3>1 DEF Client!GetBook, Client!Shows
    <3> QED BY <3>2
  <2>7. CASE Client!Register \/ Client!Logout \/ Client!AddBook \/ Client!DeleteBook
    BY <2>7 DEF Client!Register, Client!Logout, Client!AddBook, Client!DeleteBook, Client!Shows
  <2> QED BY <2>3, <2>4, <2>5, <2>6, <2>7 DEF Client!Handle
<1>5. Session' /\ Client!OwnToken'
  <2>1. CASE UNCHANGED <<logged_in, library, cookie, token>>
    BY <1>1, <1>2, <2>1 DEF Session, Client!OwnToken
  <2>2. CASE Client!Login
    <3>1. CASE UNCHANGED <<logged_in, library, cookie, token>>
      BY <2>1, <3>1
    <3>2. CASE /\ answer = "ok" /\ TRUE \in Client!InHeader
               /\ cookie' \in Client!Cut(latest, Client!InHeader) /\ logged_in' = TRUE
               /\ UNCHANGED <<library, token>>
      <4>1. received > 0
        BY <3>2, SearchIs
      <4>2. command = "login" /\ ~logged_in /\ ~library /\ latest > 0 /\ latest \in Nat
        BY <1>1, <2>2, <3>2, <4>1
        DEF Client!Login, Client!Refused, Session, Client!OwnToken
      <4>3. cookie' = latest \/ cookie' = Client!Garbage
        BY <3>2 DEF Client!Cut
      <4>4. cookie' # Client!None
        BY <4>2, <4>3 DEF Client!None, Client!Garbage
      <4> QED BY <1>1, <1>2, <3>2, <4>2, <4>4 DEF Session, Client!OwnToken
    <3> QED BY <2>2, <3>1, <3>2 DEF Client!Login, Client!memory
  <2>3. CASE Client!Logout
    BY <1>1, <1>2, <2>3 DEF Client!Logout, Session, Client!OwnToken
  <2>4. CASE Client!EnterLibrary
    <3>1. CASE UNCHANGED <<logged_in, library, cookie, token>>
      BY <2>1, <3>1
    <3>2. CASE /\ token' \in Client!Cut(IF answer = "ok" THEN cookie ELSE Client!Garbage,
                                        Client!InBody)
               /\ library' = TRUE /\ UNCHANGED <<logged_in, cookie>>
      <4>1. command = "enter_library" /\ logged_in
        BY <1>1, <2>4 DEF Client!EnterLibrary, Client!Refused, Session
      <4>2. token' \in {cookie, Client!Garbage}
        BY <3>2 DEF Client!Cut
      <4> QED BY <1>1, <1>2, <3>2, <4>1, <4>2 DEF Session, Client!OwnToken
    <3> QED BY <2>4, <3>1, <3>2 DEF Client!EnterLibrary, Client!memory
  <2> QED BY <2>1, <2>2, <2>3, <2>4
      DEF Client!Handle, Client!Register, Client!GetBooks, Client!GetBook, Client!AddBook,
          Client!DeleteBook, Client!Shows, Client!memory
<1> QED BY <1>3, <1>4, <1>5 DEF ClientInv

LEMMA CommandOK ==
  ASSUME ClientInv, NEW c \in Client!Commands, Client!Type(c)
  PROVE  ClientInv'
<1>1. /\ command' = c /\ received' = 0
      /\ UNCHANGED <<logged_in, library, cookie, token, answer, response, session, latest>>
      /\ at' = "header" => ~Client!Refused(c)
      /\ at' \in {"ended", "failed", "header", "prompt"}
  BY DEF Client!Type, Client!memory, Client!served
<1>2. Session' /\ Client!OwnToken'
  BY <1>1 DEF ClientInv, Session, Client!OwnToken, Client!Refused
<1>3. at' = "header" => 0 < response.header
  BY ResponseIs DEF ClientInv, Reception
<1>4. Reception' /\ Bodies' /\ MissesBooksOnly'
  BY <1>1, <1>3 DEF ClientInv, Reception, Bodies, MissesBooksOnly
<1> QED BY <1>2, <1>4 DEF ClientInv

LEMMA ClientSteps == ClientInv /\ [Client!ClientNext]_(Client!clientVars) => ClientInv'
<1> SUFFICES ASSUME ClientInv, [Client!ClientNext]_(Client!clientVars) PROVE ClientInv'
  OBVIOUS
<1>1. CASE Client!Exit \/ Client!ReadFails
  <2>1. /\ at' \in {"ended", "failed"}
        /\ UNCHANGED <<command, answer, response, session, latest, received, total, closed,
                       logged_in, library, cookie, token>>
    BY <1>1 DEF Client!Exit, Client!ReadFails, Client!memory, Client!served
  <2>2. Session' /\ Client!OwnToken'
    BY <2>1 DEF ClientInv, Session, Client!OwnToken
  <2>3. Reception' /\ Bodies' /\ MissesBooksOnly'
    BY <2>1 DEF ClientInv, Reception, Bodies, MissesBooksOnly
  <2> QED BY <2>2, <2>3 DEF ClientInv
<1>2. CASE Client!Expire \/ UNCHANGED Client!clientVars
  <2>1. UNCHANGED <<at, command, answer, response, latest, received, total, closed, logged_in,
                    library, cookie, token>>
    BY <1>2 DEF Client!Expire, Client!clientVars, Client!memory, Client!served
  <2>2. Session' /\ Client!OwnToken'
    BY <2>1 DEF ClientInv, Session, Client!OwnToken, Client!Refused
  <2>3. Reception' /\ Bodies' /\ MissesBooksOnly'
    BY <2>1 DEF ClientInv, Reception, Bodies, MissesBooksOnly
  <2> QED BY <2>2, <2>3 DEF ClientInv
<1> QED BY <1>1, <1>2, CommandOK, ReadPieceOK, ReadEndOK, CloseOK, HandleOK DEF Client!ClientNext

LEMMA ClientHolds == MachinesSpec => []ClientInv
BY EachAlone, ClientStarts, ClientSteps, PTL DEF Client!ClientSpec

(* enter_library, login, logout: the token that is sent with a request is  *)
(* of the session whose cookie goes with it, for any number of sessions.   *)
THEOREM TokenIsOwn == MachinesSpec => []OwnToken
<1>1. ClientInv => OwnToken
  BY DEF ClientInv, OwnToken
<1> QED BY <1>1, ClientHolds, PTL

(* receive_from_server: in whatever pieces a response of any length comes, *)
(* its terminator cut or whole, all that the server sent before it closed  *)
(* is handled, nothing more is waited for, and no text in it is missed.    *)
THEOREM NoPieceIsMissed == MachinesSpec => []PiecesDoNotMatter
<1>1. ClientInv => PiecesDoNotMatter
  <2> SUFFICES ASSUME ClientInv PROVE Client!PiecesDoNotMatter
    BY DEF PiecesDoNotMatter
  <2>1. /\ received \in Nat /\ response.header \in Nat /\ response.body \in Nat
        /\ Client!Size(response) = response.header + response.body
    BY ResponseIs DEF ClientInv, Reception
  <2>2. at = "header" /\ ~closed /\ response.announced => received # Client!Size(response)
    <3>1. received < response.header => received # Client!Size(response)
      BY <2>1
    <3> QED BY <3>1 DEF ClientInv, Reception
  <2>3. at = "body" /\ ~closed => received # Client!Size(response)
    <3>1. received < Client!Size(response) => received # Client!Size(response)
      BY <2>1
    <3> QED BY <3>1 DEF ClientInv, Reception
  <2>4. /\ at \in {"handle", "undefined"} => received = Client!Size(response) \/ closed
        /\ MissesBooksOnly
    BY DEF ClientInv, Reception
  <2> QED BY <2>2, <2>3, <2>4 DEF Client!PiecesDoNotMatter, MissesBooksOnly
<1> QED BY <1>1, ClientHolds, PTL
---------------------------------------------------------------------------
(* The contour program: the threads' shares of the rows.                   *)

(* id * RESCALE / threads: where the share of id begins and that of the    *)
(* thread before it ends.                                                  *)
Start(n) == (n * RESCALE) \div threads

LEMMA Product ==
  ASSUME NEW t \in Nat, NEW a \in Int, NEW b \in Int, a <= b
  PROVE  t * a <= t * b /\ t * a \in Int /\ t * b \in Int
OBVIOUS

LEMMA StartIs ==
  ASSUME threads \in Nat \ {0}, NEW n \in Nat
  PROVE  /\ Start(n) \in Nat
         /\ threads * Start(n) <= n * RESCALE
         /\ n * RESCALE < threads * Start(n) + threads
<1>1. n * RESCALE \in Nat
  BY ImageConstants
<1> QED BY <1>1 DEF Start

(* The shares begin one after the other, the first at row 0, and the last  *)
(* ends at the last row.                                                   *)
LEMMA StartsRise ==
  ASSUME threads \in Nat \ {0}, NEW j \in Nat, NEW k \in Nat, j <= k
  PROVE  Start(j) <= Start(k)
<1> SUFFICES ASSUME Start(k) + 1 <= Start(j) PROVE FALSE
  BY StartIs
<1>1. threads * (Start(k) + 1) <= threads * Start(j)
  BY StartIs, Product
<1>2. j * RESCALE <= k * RESCALE
  <2>1. RESCALE * j <= RESCALE * k
    BY ImageConstants, Product
  <2> QED BY <2>1, ImageConstants
<1>3. threads * (Start(k) + 1) = threads * Start(k) + threads
  BY StartIs
<1>4. /\ threads * Start(j) <= j * RESCALE /\ k * RESCALE < threads * Start(k) + threads
      /\ j * RESCALE \in Int /\ k * RESCALE \in Int
      /\ threads * Start(j) \in Int /\ threads * Start(k) + threads \in Int
  BY StartIs, ImageConstants
<1> QED BY <1>1, <1>2, <1>3, <1>4

LEMMA StartEnds ==
  ASSUME threads \in Nat \ {0}
  PROVE  Start(0) = 0 /\ Start(threads) = RESCALE
<1>1. RESCALE \in Nat /\ 0 * RESCALE = 0
  BY ImageConstants
<1>2. Start(0) = 0
  BY <1>1 DEF Start
<1>3. Start(threads) = RESCALE
  <2>1. /\ Start(threads) \in Nat
        /\ threads * Start(threads) <= threads * RESCALE
        /\ threads * RESCALE < threads * Start(threads) + threads
    BY StartIs
  <2>2. ~(RESCALE + 1 <= Start(threads))
    <3> SUFFICES ASSUME RESCALE + 1 <= Start(threads) PROVE FALSE
      OBVIOUS
    <3>1. threads * (RESCALE + 1) <= threads * Start(threads)
      BY <1>1, <2>1, Product
    <3>2. threads * (RESCALE + 1) = threads * RESCALE + threads
      BY <1>1
    <3>3. threads * RESCALE \in Int /\ threads * Start(threads) \in Int
      BY <1>1, <2>1
    <3> QED BY <2>1, <3>1, <3>2, <3>3
  <2>3. ~(Start(threads) + 1 <= RESCALE)
    <3> SUFFICES ASSUME Start(threads) + 1 <= RESCALE PROVE FALSE
      OBVIOUS
    <3>1. threads * (Start(threads) + 1) <= threads * RESCALE
      BY <1>1, <2>1, Product
    <3>2. threads * (Start(threads) + 1) = threads * Start(threads) + threads
      BY <2>1
    <3>3. threads * RESCALE \in Int /\ threads * Start(threads) \in Int
      BY <1>1, <2>1
    <3> QED BY <2>1, <3>1, <3>2, <3>3
  <2> QED BY <1>1, <2>1, <2>2, <2>3
<1> QED BY <1>2, <1>3

LEMMA ShareIs ==
  ASSUME threads \in Nat \ {0}, NEW id \in 0 .. threads - 1
  PROVE  /\ Images!start(id) = Start(id) /\ Images!end(id) = Start(id + 1)
         /\ Start(id) \in Nat /\ Start(id + 1) \in Nat
         /\ Start(id) <= Start(id + 1) /\ Start(id + 1) <= RESCALE
<1>1. id \in Nat /\ id + 1 \in Nat /\ id <= id + 1 /\ id + 1 <= threads
  OBVIOUS
<1>2. /\ Start(id) \in Nat /\ Start(id + 1) \in Nat /\ Start(id) <= Start(id + 1)
      /\ Start(id + 1) <= RESCALE
  BY <1>1, StartIs, StartsRise, StartEnds
<1>3. Images!Min({Start(id + 1), RESCALE}) = Start(id + 1)
  <2> DEFINE m == Start(id + 1)
  <2>1. m \in Int /\ RESCALE \in Int /\ m <= RESCALE
    BY <1>2, ImageConstants
  <2> HIDE DEF m
  <2>2. \A x \in {m, RESCALE} : (\A y \in {m, RESCALE} : x <= y) => x = m
    BY <2>1
  <2>3. m \in {m, RESCALE} /\ \A y \in {m, RESCALE} : m <= y
    BY <2>1
  <2>4. Images!Min({m, RESCALE}) = m
    BY <2>2, <2>3 DEF Images!Min
  <2> QED BY <2>4 DEF m
<1> QED BY <1>2, <1>3 DEF Images!start, Images!end, Start

(* Every row is in the share of one thread.                                *)
LEMMA SharesCover ==
  ASSUME threads \in Nat \ {0}, NEW r \in 0 .. RESCALE - 1
  PROVE  \E k \in 0 .. threads - 1 :
           {id \in 0 .. threads - 1 : Start(id) <= r /\ r < Start(id + 1)} = {k}
<1> DEFINE Below(n) == r < Start(n) => \E k \in 0 .. n - 1 : Start(k) <= r /\ r < Start(k + 1)
           T == {n \in Nat : Below(n)}
<1>1. 0 \in T
  BY StartEnds
<1>2. ASSUME NEW n \in Nat, n \in T PROVE n + 1 \in T
  <2> SUFFICES ASSUME r < Start(n + 1)
               PROVE  \E k \in 0 .. (n + 1) - 1 : Start(k) <= r /\ r < Start(k + 1)
    OBVIOUS
  <2>1. CASE r < Start(n)
    <3>1. PICK k \in 0 .. n - 1 : Start(k) <= r /\ r < Start(k + 1)
      BY <1>2, <2>1
    <3> QED BY <3>1
  <2>2. CASE ~(r < Start(n))
    <3>1. Start(n) \in Nat /\ r \in Int
      BY StartIs, ImageConstants
    <3>2. Start(n) <= r /\ n \in 0 .. (n + 1) - 1
      BY <2>2, <3>1
    <3> QED BY <3>2
  <2> QED BY <2>1, <2>2
<1> HIDE DEF T
<1>3. \A n \in Nat : n \in T
  BY <1>1, <1>2, SetInduction
<1>4. r < Start(threads) /\ r \in Int
  BY StartEnds, ImageConstants
<1>5. PICK k \in 0 .. threads - 1 : Start(k) <= r /\ r < Start(k + 1)
  BY <1>3, <1>4 DEF T
<1>6. ASSUME NEW id \in 0 .. threads - 1, Start(id) <= r, r < Start(id + 1) PROVE id = k
  <2>1. /\ id \in Nat /\ k \in Nat /\ Start(id) \in Nat /\ Start(k) \in Nat
        /\ Start(id + 1) \in Nat /\ Start(k + 1) \in Nat
    BY StartIs
  <2>2. ~(id + 1 <= k)
    BY <1>4, <1>5, <1>6, <2>1, StartsRise
  <2>3. ~(k + 1 <= id)
    BY <1>4, <1>5, <1>6, <2>1, StartsRise
  <2> QED BY <2>1, <2>2, <2>3
<1> QED BY <1>5, <1>6
---------------------------------------------------------------------------
(* The contour program's invariant, in parts.                              *)

Shape ==
  /\ image \in Sizes /\ threads \in 1 .. MaxThreads
  /\ row \in [Images!Ids -> Int] /\ scaled \in [Images!Rows -> SUBSET Images!Ids]

(* The threads are created in order, and all before main joins them.       *)
Created ==
  \E c \in 0 .. threads :
    /\ \A id \in Images!Ids : row[id] # Images!None <=> id < c
    /\ phase = "fork" => c < threads
    /\ phase # "fork" /\ ~Images!Small => c = threads

(* A thread is in its share, and the rows behind it are its work.          *)
InShare ==
  \A id \in Images!Forked : Images!start(id) <= row[id] /\ row[id] <= Images!end(id)
ByRow ==
  \A r \in Images!Rows :
    scaled[r] = {id \in Images!Forked : Images!start(id) <= r /\ r < row[id]}

(* main goes on when every thread is at its end.                           *)
Joined ==
  phase \notin {"fork", "join"} /\ ~Images!Small =>
    freed /\ \A id \in Images!Forked : row[id] >= Images!end(id)

(* What main has computed after that.                                      *)
Drawing ==
  /\ phase \in {"sample", "march", "written"} =>
       pixels \in [0 .. Images!X * Images!Y - 1 -> {0, 1}]
  /\ phase \in {"march", "written"} =>
       grid \in [(0 .. Images!P) \X (0 .. Images!Q) -> {0, 1}]
  /\ phase = "written" =>
       contour = [x \in (0 .. Images!P - 1) \X (0 .. Images!Q - 1) |-> Images!Config(x[1], x[2])]

ContourInv == Shape /\ Created /\ InShare /\ ByRow /\ Joined /\ Drawing
---------------------------------------------------------------------------
LEMMA ThreadsAre ==
  ASSUME Shape
  PROVE  threads \in Nat \ {0} /\ threads <= MaxThreads /\ MaxThreads \in Nat
BY ImageConstants DEF Shape

(* Who was created: the first c.                                           *)
LEMMA ForkedIs ==
  ASSUME Shape, NEW c \in 0 .. threads,
         \A id \in Images!Ids : row[id] # Images!None <=> id < c
  PROVE  Images!Forked = 0 .. c - 1 /\ Cardinality(Images!Forked) = c
<1>1. Images!Forked = 0 .. c - 1
  BY ThreadsAre DEF Images!Forked, Images!Ids
<1>2. c \in Nat
  BY ThreadsAre
<1>3. Cardinality(0 .. c - 1) = c
  BY <1>2, FS_Interval
<1> QED BY <1>1, <1>3

LEMMA ContoursStart == Images!ContoursInit => ContourInv
<1> SUFFICES ASSUME Images!ContoursInit PROVE ContourInv
  OBVIOUS
<1>1. Shape
  BY DEF Images!ContoursInit, Shape, Images!None
<1>2. Images!Forked = {}
  BY DEF Images!ContoursInit, Images!Forked
<1>3. Created
  <2>1. \A id \in Images!Ids : row[id] # Images!None <=> id < 0
    BY <1>1, ThreadsAre DEF Images!ContoursInit, Images!Ids
  <2> QED BY <1>1, <2>1, ThreadsAre DEF Created, Images!ContoursInit
<1>4. InShare /\ ByRow
  BY <1>2 DEF InShare, ByRow, Images!ContoursInit
<1>5. Joined /\ Drawing
  BY DEF Joined, Drawing, Images!ContoursInit
<1> QED BY <1>1, <1>3, <1>4, <1>5 DEF ContourInv

(* The size of the image and the number of threads never change.           *)
LEMMA SameImage ==
  ASSUME UNCHANGED <<image, threads>>
  PROVE  /\ Images!Small' = Images!Small /\ Images!X' = Images!X /\ Images!Y' = Images!Y
         /\ Images!P' = Images!P /\ Images!Q' = Images!Q
         /\ \A id : Images!start(id)' = Images!start(id) /\ Images!end(id)' = Images!end(id)
BY DEF Images!Small, Images!X, Images!Y, Images!P, Images!Q, Images!start, Images!end

LEMMA CreateOK ==
  ASSUME ContourInv, NEW t \in Images!Ids, Images!pthread_create(t)
  PROVE  ContourInv'
<1>1. /\ phase = "fork" /\ t < threads /\ t = Cardinality(Images!Forked)
      /\ row' = [row EXCEPT ![t] = Images!start(t)]
      /\ phase' = IF t = threads - 1 THEN "join" ELSE "fork"
      /\ UNCHANGED <<image, threads, freed, scaled, pixels, grid, contour>>
  BY DEF Images!pthread_create, Images!Cardinality, Cardinality
<1>2. PICK c \in 0 .. threads :
         /\ \A id \in Images!Ids : row[id] # Images!None <=> id < c
         /\ phase = "fork" => c < threads
  BY DEF ContourInv, Created
<1>3. Images!Forked = 0 .. t - 1 /\ t = c /\ t \in 0 .. threads - 1 /\ threads \in Nat \ {0}
  <2>1. threads \in Nat \ {0} /\ Images!Forked = 0 .. c - 1 /\ t = c
    BY <1>1, <1>2, ForkedIs, ThreadsAre DEF ContourInv
  <2> QED BY <1>1, <2>1
<1>4. Images!start(t) \in Nat /\ Images!start(t) <= Images!end(t)
  BY <1>3, ShareIs
<1>5. Shape' /\ Images!None = -1
  BY <1>1, <1>4 DEF ContourInv, Shape, Images!None
<1>6. /\ row'[t] = Images!start(t) /\ row'[t] # Images!None
      /\ \A id \in Images!Ids : id # t => row'[id] = row[id]
  BY <1>1, <1>4, <1>5 DEF ContourInv, Shape
<1>7. Images!Forked' = Images!Forked \cup {t}
  BY <1>6 DEF Images!Forked
<1>8. Created'
  <2>1. \A id \in Images!Ids : row'[id] # Images!None <=> id < c + 1
    BY <1>2, <1>3, <1>6 DEF Images!Ids
  <2>2. c + 1 \in 0 .. threads' /\ (phase' = "fork" => c + 1 < threads')
        /\ (phase' # "fork" => c + 1 = threads')
    BY <1>1, <1>3
  <2> QED BY <2>1, <2>2 DEF Created
<1>9. InShare'
  <2>1. ASSUME NEW id \in Images!Forked'
        PROVE  Images!start(id) <= row'[id] /\ row'[id] <= Images!end(id)
    <3>1. CASE id = t
      BY <1>4, <1>6, <3>1
    <3>2. CASE id \in Images!Forked /\ id # t
      BY <1>6, <3>2 DEF ContourInv, InShare, Images!Forked
    <3> QED BY <1>7, <2>1, <3>1, <3>2
  <2> QED BY <1>1, <2>1, SameImage DEF InShare
<1>10. ByRow'
  <2>1. ASSUME NEW r \in Images!Rows
        PROVE  scaled'[r] = {id \in Images!Forked' : Images!start(id) <= r /\ r < row'[id]}
    <3>1. scaled'[r] = {id \in Images!Forked : Images!start(id) <= r /\ r < row[id]}
      BY <1>1 DEF ContourInv, ByRow
    <3>2. r \in Int /\ ~(Images!start(t) <= r /\ r < row'[t])
      BY <1>4, <1>6, ImageConstants DEF Images!Rows
    <3>3. t \notin Images!Forked /\ Images!Forked \subseteq Images!Ids
      BY <1>3 DEF Images!Forked
    <3> QED BY <1>6, <1>7, <3>1, <3>2, <3>3
  <2> QED BY <1>1, <2>1, SameImage DEF ByRow
<1>11. Joined' /\ Drawing'
  BY <1>1 DEF Joined, Drawing
<1> QED BY <1>5, <1>8, <1>9, <1>10, <1>11 DEF ContourInv

LEMMA RescaleOK ==
  ASSUME ContourInv, NEW t \in Images!Ids, Images!rescale_row(t)
  PROVE  ContourInv'
<1>1. /\ row[t] # Images!None /\ row[t] < Images!end(t)
      /\ scaled' = [scaled EXCEPT ![row[t]] = scaled[row[t]] \cup {t}]
      /\ row' = [row EXCEPT ![t] = row[t] + 1]
      /\ UNCHANGED <<image, threads, phase, freed, pixels, grid, contour>>
  BY DEF Images!rescale_row
<1>2. PICK c \in 0 .. threads :
         /\ \A id \in Images!Ids : row[id] # Images!None <=> id < c
         /\ phase = "fork" => c < threads
         /\ phase # "fork" /\ ~Images!Small => c = threads
  BY DEF ContourInv, Created
<1>3. t \in Images!Forked /\ t \in 0 .. threads - 1 /\ threads \in Nat \ {0}
  <2>1. threads \in Nat \ {0} /\ t \in Images!Forked /\ Images!Forked = 0 .. c - 1
    BY <1>1, <1>2, ForkedIs, ThreadsAre DEF ContourInv, Images!Forked
  <2> QED BY <2>1
<1>4. /\ Images!start(t) \in Nat /\ Images!end(t) \in Nat /\ Images!end(t) <= RESCALE
      /\ Images!start(t) <= row[t] /\ row[t] \in Int /\ RESCALE \in Nat
  BY <1>3, ShareIs, ImageConstants DEF ContourInv, InShare, Shape
<1>5. row[t] \in Images!Rows /\ row[t] \in Nat
  BY <1>1, <1>4 DEF Images!Rows
<1>6. Shape'
  BY <1>1, <1>4, <1>5 DEF ContourInv, Shape
<1>7. row'[t] = row[t] + 1 /\ \A id \in Images!Ids : id # t => row'[id] = row[id]
  BY <1>1 DEF ContourInv, Shape
<1>8. Images!Forked' = Images!Forked
  <2>1. row'[t] # Images!None /\ row[t] # Images!None
    BY <1>1, <1>5, <1>7 DEF Images!None
  <2> QED BY <1>7, <2>1 DEF Images!Forked
<1>9. Created'
  <2>1. \A id \in Images!Ids : row'[id] # Images!None <=> id < c
    BY <1>2, <1>8 DEF Images!Forked
  <2> QED BY <1>1, <1>2, <2>1, SameImage DEF Created
<1>10. InShare'
  <2>1. ASSUME NEW id \in Images!Forked
        PROVE  Images!start(id) <= row'[id] /\ row'[id] <= Images!end(id)
    <3>1. CASE id = t
      BY <1>1, <1>4, <1>7, <3>1
    <3>2. CASE id # t
      BY <1>7, <3>2 DEF ContourInv, InShare, Images!Forked
    <3> QED BY <3>1, <3>2
  <2> QED BY <1>1, <1>8, <2>1, SameImage DEF InShare
<1>11. ByRow'
  <2>1. ASSUME NEW r \in Images!Rows
        PROVE  scaled'[r] = {id \in Images!Forked : Images!start(id) <= r /\ r < row'[id]}
    <3>1. scaled[r] = {id \in Images!Forked : Images!start(id) <= r /\ r < row[id]}
      BY DEF ContourInv, ByRow
    <3>2. /\ scaled \in [Images!Rows -> SUBSET Images!Ids] /\ r \in Int
          /\ Images!Forked \subseteq Images!Ids
      BY ImageConstants DEF ContourInv, Shape, Images!Rows, Images!Forked
    <3>3. CASE r = row[t]
      <4>1. scaled'[r] = scaled[r] \cup {t}
        BY <1>1, <3>2, <3>3
      <4>2. Images!start(t) <= r /\ r < row'[t]
        BY <1>4, <1>7, <3>3
      <4> QED BY <1>3, <1>7, <3>1, <3>2, <4>1, <4>2
    <3>4. CASE r # row[t]
      <4>1. scaled'[r] = scaled[r]
        BY <1>1, <3>2, <3>4
      <4>2. r < row[t] <=> r < row'[t]
        BY <1>4, <1>7, <3>2, <3>4
      <4> QED BY <1>7, <3>1, <3>2, <4>1, <4>2
    <3> QED BY <3>3, <3>4
  <2> QED BY <1>1, <1>8, <2>1, SameImage DEF ByRow
<1>12. Joined'
  <2> SUFFICES ASSUME phase \notin {"fork", "join"}, ~Images!Small PROVE FALSE
    BY <1>1, SameImage DEF Joined
  <2>1. row[t] >= Images!end(t)
    BY <1>3 DEF ContourInv, Joined
  <2> QED BY <1>1, <1>4, <2>1
<1>13. Drawing'
  BY <1>1, SameImage DEF ContourInv, Drawing, Images!Config
<1> QED BY <1>6, <1>9, <1>10, <1>11, <1>12, <1>13 DEF ContourInv

(* pthread_join, when every thread has returned.                           *)
LEMMA JoinOK ==
  ASSUME ContourInv, Images!pthread_join
  PROVE  ContourInv'
<1>1. /\ phase = "join" /\ phase' = "sample" /\ freed' = TRUE
      /\ \A id \in Images!Forked : row[id] >= Images!end(id)
      /\ pixels' \in [0 .. Images!X * Images!Y - 1 -> {0, 1}]
      /\ UNCHANGED <<image, threads, row, scaled, grid, contour>>
  BY DEF Images!pthread_join
<1>2. Images!Forked' = Images!Forked
  BY <1>1 DEF Images!Forked
<1>3. Shape'
  BY <1>1 DEF ContourInv, Shape
<1>4. Created'
  <2>1. PICK c \in 0 .. threads :
           /\ \A id \in Images!Ids : row[id] # Images!None <=> id < c
           /\ phase # "fork" /\ ~Images!Small => c = threads
    BY DEF ContourInv, Created
  <2> QED BY <1>1, <2>1, SameImage DEF Created
<1>5. InShare' /\ ByRow'
  BY <1>1, <1>2, SameImage DEF ContourInv, InShare, ByRow
<1>6. Joined'
  BY <1>1, <1>2, SameImage DEF Joined
<1>7. Drawing'
  BY <1>1, SameImage DEF Drawing
<1> QED BY <1>3, <1>4, <1>5, <1>6, <1>7 DEF ContourInv

(* What main does after the joins leaves the threads' part alone.          *)
LEMMA AfterJoin ==
  ASSUME ContourInv, phase \in {"sample", "march"}, phase' \in {"march", "written"},
         UNCHANGED <<image, threads, row, freed, scaled>>
  PROVE  Shape' /\ Created' /\ InShare' /\ ByRow' /\ Joined'
<1>1. Images!Forked' = Images!Forked
  BY DEF Images!Forked
<1>2. Shape'
  BY DEF ContourInv, Shape
<1>3. Created'
  <2>1. PICK c \in 0 .. threads :
           /\ \A id \in Images!Ids : row[id] # Images!None <=> id < c
           /\ phase # "fork" /\ ~Images!Small => c = threads
    BY DEF ContourInv, Created
  <2> QED BY <2>1, SameImage DEF Created
<1>4. InShare' /\ ByRow' /\ Joined'
  BY <1>1, SameImage DEF ContourInv, InShare, ByRow, Joined
<1> QED BY <1>2, <1>3, <1>4

LEMMA SampleOK ==
  ASSUME ContourInv, Images!sample_grid
  PROVE  ContourInv'
<1> DEFINE G == (0 .. Images!P) \X (0 .. Images!Q)
           Point(x) == IF x = <<Images!P, Images!Q>> THEN 0
                       ELSE IF Images!Pixel(x[1], x[2]) \in DOMAIN pixels
                       THEN pixels[Images!Pixel(x[1], x[2])] ELSE 0
<1>1. /\ phase = "sample" /\ phase' = "march" /\ grid' = [x \in G |-> Point(x)]
      /\ UNCHANGED <<image, threads, row, freed, scaled, pixels, contour>>
  BY DEF Images!sample_grid
<1>2. pixels \in [0 .. Images!X * Images!Y - 1 -> {0, 1}]
  BY <1>1 DEF ContourInv, Drawing
<1>3. \A x \in G : Point(x) \in {0, 1}
  BY <1>2
<1> HIDE DEF G, Point
<1>4. grid' \in [G -> {0, 1}]
  BY <1>1, <1>3
<1>5. Drawing'
  BY <1>1, <1>2, <1>4, SameImage DEF Drawing, G
<1> QED BY <1>1, <1>5, AfterJoin DEF ContourInv

LEMMA MarchOK ==
  ASSUME ContourInv, Images!march
  PROVE  ContourInv'
<1>1. /\ phase = "march" /\ phase' = "written"
      /\ contour' = [x \in (0 .. Images!P - 1) \X (0 .. Images!Q - 1) |->
                       Images!Config(x[1], x[2])]
      /\ UNCHANGED <<image, threads, row, freed, scaled, pixels, grid>>
  BY DEF Images!march
<1>2. \A x, y : Images!Config(x, y)' = Images!Config(x, y)
  BY <1>1 DEF Images!Config
<1>3. Drawing'
  BY <1>1, <1>2, SameImage DEF ContourInv, Drawing
<1> QED BY <1>1, <1>3, AfterJoin DEF ContourInv

LEMMA ContoursSteps == ContourInv /\ [Images!ContoursNext]_(Images!contourVars) => ContourInv'
<1> SUFFICES ASSUME ContourInv, [Images!ContoursNext]_(Images!contourVars) PROVE ContourInv'
  OBVIOUS
<1>1. CASE UNCHANGED Images!contourVars
  <2>1. UNCHANGED <<image, threads, phase, row, freed, scaled, pixels, grid, contour>>
    BY <1>1 DEF Images!contourVars
  <2>2. Images!Forked' = Images!Forked /\ \A x, y : Images!Config(x, y)' = Images!Config(x, y)
    BY <2>1 DEF Images!Forked, Images!Config
  <2>3. Shape' /\ Created'
    BY <2>1, SameImage DEF ContourInv, Shape, Created
  <2>4. InShare' /\ ByRow' /\ Joined'
    BY <2>1, <2>2, SameImage DEF ContourInv, InShare, ByRow, Joined
  <2>5. Drawing'
    BY <2>1, <2>2, SameImage DEF ContourInv, Drawing
  <2> QED BY <2>3, <2>4, <2>5 DEF ContourInv
<1> QED BY <1>1, CreateOK, RescaleOK, JoinOK, SampleOK, MarchOK DEF Images!ContoursNext

(* At the joins the shares are done, and together they are the image.      *)
LEMMA WholeImage == ContourInv => Images!SampledWhole
<1> SUFFICES ASSUME ContourInv, phase \notin {"fork", "join"}, ~Images!Small
             PROVE  /\ freed
                    /\ \A r \in Images!Rows : Cardinality(scaled[r]) = 1
                    /\ \A id \in Images!Forked : row[id] >= Images!end(id)
  BY DEF Images!SampledWhole, Images!Cardinality, Cardinality
<1>1. freed /\ \A id \in Images!Forked : row[id] >= Images!end(id)
  BY DEF ContourInv, Joined
<1>2. threads \in Nat \ {0} /\ Images!Forked = 0 .. threads - 1
  <2>1. PICK c \in 0 .. threads :
           /\ \A id \in Images!Ids : row[id] # Images!None <=> id < c
           /\ c = threads
    BY DEF ContourInv, Created
  <2> QED BY <2>1, ForkedIs, ThreadsAre DEF ContourInv
<1>3. \A id \in 0 .. threads - 1 :
        Images!start(id) = Start(id) /\ row[id] = Start(id + 1)
  <2>1. ASSUME NEW id \in 0 .. threads - 1
        PROVE  Images!start(id) = Start(id) /\ row[id] = Start(id + 1)
    <3>1. /\ Images!start(id) = Start(id) /\ Images!end(id) = Start(id + 1)
          /\ Start(id + 1) \in Nat
      BY <1>2, ShareIs
    <3>2. row[id] \in Int /\ row[id] <= Images!end(id) /\ row[id] >= Images!end(id)
      BY <1>1, <1>2 DEF ContourInv, InShare, Shape, Images!Forked
    <3> QED BY <3>1, <3>2
  <2> QED BY <2>1
<1>4. ASSUME NEW r \in Images!Rows PROVE Cardinality(scaled[r]) = 1
  <2>1. scaled[r] = {id \in 0 .. threads - 1 : Start(id) <= r /\ r < Start(id + 1)}
    BY <1>2, <1>3 DEF ContourInv, ByRow
  <2>2. r \in 0 .. RESCALE - 1
    BY DEF Images!Rows
  <2>3. PICK k : scaled[r] = {k}
    BY <1>2, <2>1, <2>2, SharesCover
  <2> QED BY <2>3, FS_Singleton
<1> QED BY <1>1, <1>4

(* The four bits of a square's contour are its corners.                    *)
LEMMA BitsAre ==
  ASSUME NEW a \in {0, 1}, NEW b \in {0, 1}, NEW c \in {0, 1}, NEW d \in {0, 1}
  PROVE  LET n == 8 * a + 4 * b + 2 * c + d
         IN  /\ Images!Bit(n, 8) = a /\ Images!Bit(n, 4) = b
             /\ Images!Bit(n, 2) = c /\ Images!Bit(n, 1) = d
BY DEF Images!Bit

LEMMA CornersAre ==
  ASSUME ContourInv, phase = "written", NEW x \in DOMAIN contour
  PROVE  LET n == contour[x]
         IN  /\ x[1] \in Nat /\ x[2] \in Nat
             /\ Images!Bit(n, 8) = grid[<<x[1], x[2]>>]
             /\ Images!Bit(n, 4) = grid[<<x[1], x[2] + 1>>]
             /\ Images!Bit(n, 2) = grid[<<x[1] + 1, x[2] + 1>>]
             /\ Images!Bit(n, 1) = grid[<<x[1] + 1, x[2]>>]
<1>1. /\ contour = [y \in (0 .. Images!P - 1) \X (0 .. Images!Q - 1) |-> Images!Config(y[1], y[2])]
      /\ grid \in [(0 .. Images!P) \X (0 .. Images!Q) -> {0, 1}]
  BY DEF ContourInv, Drawing
<1>2. Images!P \in Nat /\ Images!Q \in Nat
  <2>1. Images!X \in Nat /\ Images!Y \in Nat
    <3>1. image[1] \in Nat /\ image[2] \in Nat
      BY ImageConstants DEF ContourInv, Shape
    <3> QED BY <3>1, ImageConstants DEF Images!X, Images!Y
  <2> QED BY <2>1, ImageConstants DEF Images!P, Images!Q
<1>3. PICK j \in 0 .. Images!P - 1, k \in 0 .. Images!Q - 1 : x = <<j, k>>
  BY <1>1
<1>4. /\ grid[<<j, k>>] \in {0, 1} /\ grid[<<j, k + 1>>] \in {0, 1}
      /\ grid[<<j + 1, k + 1>>] \in {0, 1} /\ grid[<<j + 1, k>>] \in {0, 1}
  <2>1. j \in 0 .. Images!P /\ j + 1 \in 0 .. Images!P /\ k \in 0 .. Images!Q /\ k + 1 \in 0 .. Images!Q
    BY <1>2
  <2> QED BY <1>1, <2>1
<1>5. contour[x] = 8 * grid[<<j, k>>] + 4 * grid[<<j, k + 1>>] + 2 * grid[<<j + 1, k + 1>>]
                   + grid[<<j + 1, k>>]
  BY <1>1, <1>3 DEF Images!Config
<1>6. x[1] = j /\ x[2] = k /\ j \in Nat /\ k \in Nat
  BY <1>2, <1>3
<1> QED BY <1>4, <1>5, <1>6, BitsAre

LEMMA ContoursAgree == ContourInv => Images!ContoursMeet
<1> SUFFICES ASSUME ContourInv, phase = "written", NEW x \in DOMAIN contour,
                    NEW y \in DOMAIN contour
             PROVE  /\ y = <<x[1], x[2] + 1>> =>
                         /\ Images!Bit(contour[x], 4) = Images!Bit(contour[y], 8)
                         /\ Images!Bit(contour[x], 2) = Images!Bit(contour[y], 1)
                    /\ y = <<x[1] + 1, x[2]>> =>
                         /\ Images!Bit(contour[x], 1) = Images!Bit(contour[y], 8)
                         /\ Images!Bit(contour[x], 2) = Images!Bit(contour[y], 4)
  BY DEF Images!ContoursMeet
<1>1. /\ Images!Bit(contour[x], 4) = grid[<<x[1], x[2] + 1>>]
      /\ Images!Bit(contour[x], 2) = grid[<<x[1] + 1, x[2] + 1>>]
      /\ Images!Bit(contour[x], 1) = grid[<<x[1] + 1, x[2]>>]
  BY CornersAre
<1>2. /\ Images!Bit(contour[y], 8) = grid[<<y[1], y[2]>>]
      /\ Images!Bit(contour[y], 4) = grid[<<y[1], y[2] + 1>>]
      /\ Images!Bit(contour[y], 1) = grid[<<y[1] + 1, y[2]>>]
  BY CornersAre
<1> QED BY <1>1, <1>2

(* tema1_par.c: however the threads run, main samples an image of which    *)
(* every row was rescaled by one thread, frees the one they read after     *)
(* them, and draws contours that agree on the corners they share.          *)
THEOREM ContoursAreRight == MachinesSpec => []ContoursRight
<1>1. ContourInv => ContoursRight
  BY WholeImage, ContoursAgree DEF ContoursRight
<1> QED BY EachAlone, ContoursStart, ContoursSteps, <1>1, PTL DEF Images!ContoursSpec
=============================================================================
