---------------------------- MODULE MyDispatcher ----------------------------
(***************************************************************************)
(* The dispatcher of Anul III/Semestrul I/APD/Tema 2: MyDispatcher.addTask *)
(* gives each task to a host by one of four algorithms.  Hosts run         *)
(* meanwhile: between any two of its reads of their loads a host may work  *)
(* or finish a task.  MyHost models a host in detail; here it is a list of *)
(* tasks and the work left, whose steps are atomic.                        *)
(***************************************************************************)
EXTENDS Integers, Sequences, FiniteSets, FiniteSetsExt

CONSTANTS
  N,         \* number of hosts
  MaxTasks,  \* bound on the tasks
  MaxWork    \* largest duration

ASSUME DispatcherConstants == N \in Nat /\ N >= 3 /\ MaxTasks \in Nat /\ MaxWork \in Nat \ {0}

Hosts == 0 .. N - 1
Algorithms == {"ROUND_ROBIN", "SHORTEST_QUEUE", "SIZE_INTERVAL_TASK_ASSIGNMENT",
               "LEAST_WORK_LEFT"}
Types == {"SHORT", "MEDIUM", "LONG"}

VARIABLES
  algorithm, lastIndex,
  tasksList,       \* of each host: what is left of its tasks
  given,           \* history: the host of each task, in order
  pc, i, node, least,
  type, duration,  \* of the task being given
  loads            \* history: the loads of the hosts when addTask was called

locals == <<pc, i, node, least, type, duration, loads>>
vars == <<algorithm, lastIndex, tasksList, given, locals>>

Work(list) == MapThenSumSet(LAMBDA n : list[n], 1 .. Len(list))

(* getQueueSize or getWorkLeft.                                            *)
Load(h) ==
  IF algorithm = "SHORTEST_QUEUE" THEN Len(tasksList[h]) ELSE Work(tasksList[h])

Init ==
  /\ algorithm \in Algorithms
  /\ lastIndex = 0
  /\ tasksList = [h \in Hosts |-> <<>>]
  /\ given = <<>>
  /\ pc = "idle" /\ i = 0 /\ node = 0 /\ least = 0
  /\ type = "SHORT" /\ duration = 1
  /\ loads = [h \in Hosts |-> 0]

(* hosts.get(h).addTask(task).                                             *)
Give(h) ==
  /\ tasksList' = [tasksList EXCEPT ![h] = Append(@, duration)]
  /\ given' = Append(given, h)
  /\ pc' = "idle"

AddTask(ty, d) ==
  /\ pc = "idle" /\ Len(given) < MaxTasks
  /\ type' = ty /\ duration' = d
  /\ loads' = [h \in Hosts |-> Load(h)]
  /\ pc' = "choose"
  /\ UNCHANGED <<algorithm, lastIndex, tasksList, given, i, node, least>>

RoundRobin ==
  /\ pc = "choose" /\ algorithm = "ROUND_ROBIN"
  /\ Give((lastIndex + 1) % N)
  /\ lastIndex' = (lastIndex + 1) % N
  /\ UNCHANGED <<algorithm, i, node, least, type, duration, loads>>

IntervalHost(ty) == CASE ty = "SHORT" -> 0 [] ty = "MEDIUM" -> 1 [] ty = "LONG" -> 2

SizeInterval ==
  /\ pc = "choose" /\ algorithm = "SIZE_INTERVAL_TASK_ASSIGNMENT"
  /\ Give(IntervalHost(type))
  /\ UNCHANGED <<algorithm, lastIndex, i, node, least, type, duration, loads>>

(* The least loaded host: host 0's load, then the others' one by one, each *)
(* read for the comparison and read again when it is the least so far.     *)
Scan ==
  /\ pc = "choose" /\ algorithm \in {"SHORTEST_QUEUE", "LEAST_WORK_LEFT"}
  /\ least' = Load(0) /\ node' = 0 /\ i' = 1
  /\ pc' = "scan"
  /\ UNCHANGED <<algorithm, lastIndex, tasksList, given, type, duration, loads>>

(* Mutant: every host replaces the one before it.                          *)
CompareAny ==
  /\ pc = "scan" /\ i < N
  /\ pc' = "reread" /\ UNCHANGED i
  /\ UNCHANGED <<algorithm, lastIndex, tasksList, given, node, least, type, duration, loads>>

Compare ==
  /\ pc = "scan" /\ i < N
  /\ IF Load(i) < least THEN pc' = "reread" /\ UNCHANGED i ELSE pc' = "scan" /\ i' = i + 1
  /\ UNCHANGED <<algorithm, lastIndex, tasksList, given, node, least, type, duration, loads>>

Reread ==
  /\ pc = "reread"
  /\ node' = i /\ least' = Load(i) /\ i' = i + 1
  /\ pc' = "scan"
  /\ UNCHANGED <<algorithm, lastIndex, tasksList, given, type, duration, loads>>

Choose ==
  /\ pc = "scan" /\ i = N
  /\ Give(node)
  /\ UNCHANGED <<algorithm, lastIndex, i, node, least, type, duration, loads>>

(* MyHost.run, reduced to a quantum of the first task of the list.         *)
HostRuns(h) ==
  /\ tasksList[h] # <<>>
  /\ tasksList' = [tasksList EXCEPT ![h] =
       IF Head(@) = 1 THEN Tail(@) ELSE <<Head(@) - 1>> \o Tail(@)]
  /\ UNCHANGED <<algorithm, lastIndex, given, locals>>

Next ==
  \/ \E ty \in Types, d \in 1 .. MaxWork : AddTask(ty, d)
  \/ RoundRobin \/ SizeInterval \/ Scan \/ Compare \/ Reread \/ Choose
  \/ \E h \in Hosts : HostRuns(h)

Spec == Init /\ [][Next]_vars
---------------------------------------------------------------------------
TypeOK ==
  /\ algorithm \in Algorithms /\ lastIndex \in Hosts
  /\ tasksList \in [Hosts -> Seq(1 .. MaxWork)]
  /\ given \in Seq(Hosts) /\ Len(given) <= MaxTasks
  /\ pc \in {"idle", "choose", "scan", "reread"}
  /\ i \in 0 .. N /\ node \in Hosts /\ least \in Nat
  /\ type \in Types /\ duration \in 1 .. MaxWork

Got(h) == Cardinality({n \in 1 .. Len(given) : given[n] = h})

(* Round robin: two hosts never differ by more than one task.              *)
Balanced == algorithm = "ROUND_ROBIN" => \A g, h \in Hosts : Got(g) - Got(h) <= 1

(* The host that gets the task is no more loaded than the least loaded one *)
(* was when addTask was called, though loads change during the scan.       *)
LeastLoaded ==
  [][ Choose => \A h \in Hosts : Load(node) <= loads[h] ]_vars
=============================================================================
