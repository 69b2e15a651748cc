------------------------------- MODULE MyHost -------------------------------
(***************************************************************************)
(* One host of Anul III/Semestrul I/APD/Tema 2: the thread of MyHost runs  *)
(* the tasks of a list, half a second at a time, highest priority first,   *)
(* while the dispatcher's thread adds tasks to the list.                   *)
(*                                                                         *)
(* Nothing synchronises the two threads.  The list is java.util.ArrayList, *)
(* external: its add and remove read the size and write elements and size  *)
(* later, and its forEach throws when the list was changed meanwhile.  Its *)
(* array is taken to be long enough.  Memory is sequentially consistent.   *)
(***************************************************************************)
EXTENDS Integers, Sequences, FiniteSets, FiniteSetsExt

CONSTANTS
  Tasks,
  Null,
  Quantum,     \* 500 ms
  Durations,   \* durations of tasks
  Priorities,
  Overlap      \* may addTask run during getNextTask, -=, or remove?

ASSUME HostConstants ==
  /\ IsFiniteSet(Tasks) /\ Null \notin Tasks
  /\ Quantum \in Nat \ {0} /\ Durations \subseteq Nat \ {0} /\ Priorities \subseteq Int
  /\ Overlap \in BOOLEAN

Cap == Cardinality(Tasks)

VARIABLES
  duration, priority, preemptible, \* of each task
  left,       \* task.getLeft()
  es, size,   \* the list's array, from 1, and its size
  modified,   \* was the list changed since forEach began?
  taskCrt, running, totalTime,
  hpc, i, newSize, workRead, \* the host thread: place, index, locals
  dpc, adding, s, addRead,   \* the dispatcher thread: place, task, locals
  finished    \* history: the tasks finish() was called on, in order

taskVars == <<duration, priority, preemptible>>
listVars == <<es, size, modified>>
hostLocals == <<i, newSize, workRead>>
dispatcherVars == <<dpc, adding, s, addRead>>
vars == <<taskVars, left, listVars, taskCrt, running, totalTime, hpc, hostLocals,
          dispatcherVars, finished>>

Init ==
  /\ duration \in [Tasks -> Durations]
  /\ priority \in [Tasks -> Priorities]
  /\ preemptible \in [Tasks -> BOOLEAN]
  /\ left = duration
  /\ es = [n \in 1 .. Cap |-> Null] /\ size = 0 /\ modified = FALSE
  /\ taskCrt = Null /\ running = TRUE /\ totalTime = 0
  /\ hpc = "loop" /\ i = 0 /\ newSize = 0 /\ workRead = 0
  /\ dpc = [t \in Tasks |-> "new"] /\ adding = Null /\ s = 0 /\ addRead = 0
  /\ finished = <<>>
---------------------------------------------------------------------------
(* addTask, called by the dispatcher's thread for one task after another.  *)

HostGoto(from, to) == hpc = from /\ hpc' = to
Dispatch(t, from, to) == dpc[t] = from /\ dpc' = [dpc EXCEPT ![t] = to]

(* ArrayList.add counts the change and reads the size...                   *)
AddBegin(t) ==
  /\ adding = Null
  /\ Overlap \/ hpc \in {"loop", "sleep"}
  /\ Dispatch(t, "new", "store")
  /\ adding' = t
  /\ modified' = TRUE
  /\ s' = size
  /\ UNCHANGED <<taskVars, left, es, size, taskCrt, running, totalTime, hpc, hostLocals,
                 addRead, finished>>

(* ... and writes the element and the size.                                *)
AddStore(t) ==
  /\ Dispatch(t, "store", "time")
  /\ es' = [es EXCEPT ![s + 1] = t]
  /\ size' = s + 1
  /\ UNCHANGED <<taskVars, left, modified, taskCrt, running, totalTime, hpc, hostLocals,
                 adding, s, addRead, finished>>

(* totalTime += task.getDuration().                                        *)
AddTimeRead(t) ==
  /\ Dispatch(t, "time", "time2")
  /\ addRead' = totalTime
  /\ UNCHANGED <<taskVars, left, listVars, taskCrt, running, totalTime, hpc, hostLocals,
                 adding, s, finished>>

AddTimeWrite(t) ==
  /\ Dispatch(t, "time2", "added")
  /\ totalTime' = addRead + duration[t]
  /\ adding' = Null /\ s' = 0 /\ addRead' = 0
  /\ UNCHANGED <<taskVars, left, listVars, taskCrt, running, hpc, hostLocals, finished>>
---------------------------------------------------------------------------
(* run.  Locals are 0 outside the steps that use them.                     *)

Atomic == Overlap \/ adding = Null \* without Overlap no step inside addTask

(* Mutant: the loop ends only on an empty list.                            *)
ExitDrained ==
  /\ HostGoto("loop", "exited")
  /\ ~running /\ size = 0
  /\ UNCHANGED <<taskVars, left, listVars, taskCrt, running, totalTime, hostLocals,
                 dispatcherVars, finished>>

Exit ==
  /\ HostGoto("loop", "exited")
  /\ ~running
  /\ UNCHANGED <<taskVars, left, listVars, taskCrt, running, totalTime, hostLocals,
                 dispatcherVars, finished>>

(* taskCrt = tasksList.get(0), whose IndexOutOfBoundsException goes back   *)
(* to the loop: the thread spins while the list is empty.                  *)
GetNextTask ==
  /\ Atomic
  /\ running
  /\ taskCrt # Null => preemptible[taskCrt]
  /\ size > 0
  /\ HostGoto("loop", "each")
  /\ taskCrt' = es[1]
  /\ i' = 1
  /\ newSize' = size
  /\ modified' = FALSE
  /\ UNCHANGED <<taskVars, left, es, size, running, totalTime, workRead, dispatcherVars,
                 finished>>

KeepTask ==
  /\ running
  /\ taskCrt # Null /\ ~preemptible[taskCrt]
  /\ HostGoto("loop", "sleep")
  /\ UNCHANGED <<taskVars, left, listVars, taskCrt, running, totalTime, hostLocals,
                 dispatcherVars, finished>>

(* forEach.  A null element, or a null taskCrt, ends the thread with a     *)
(* NullPointerException, a change of the list with a                       *)
(* ConcurrentModificationException: run catches neither.                   *)
EachEnd ==
  /\ modified \/ i > newSize
  /\ HostGoto("each", IF modified THEN "dead" ELSE "sleep")
  /\ i' = 0 /\ newSize' = 0
  /\ UNCHANGED <<taskVars, left, listVars, taskCrt, running, totalTime, workRead,
                 dispatcherVars, finished>>

(* Mutant: >= prefers the last of equals.                                  *)
HigherOrEqual(t, u) == priority[t] >= priority[u]
Higher(t, u) == priority[t] > priority[u]

Each ==
  /\ hpc = "each" /\ ~modified /\ i <= newSize
  /\ IF es[i] = Null \/ taskCrt = Null
       THEN hpc' = "dead" /\ UNCHANGED <<taskCrt, i>>
       ELSE /\ taskCrt' = IF Higher(es[i], taskCrt) THEN es[i] ELSE taskCrt
            /\ i' = i + 1
            /\ UNCHANGED hpc
  /\ UNCHANGED <<taskVars, left, listVars, running, totalTime, newSize, workRead,
                 dispatcherVars, finished>>

(* sleep(500); setLeft; the read of totalTime -= 500.                      *)
Work ==
  /\ Atomic
  /\ HostGoto("sleep", "time")
  /\ left' = [left EXCEPT ![taskCrt] = @ - Quantum]
  /\ workRead' = totalTime
  /\ UNCHANGED <<taskVars, listVars, taskCrt, running, totalTime, i, newSize,
                 dispatcherVars, finished>>

(* Mutant: the last quantum is not taken from totalTime.                   *)
WorkEndFree ==
  /\ HostGoto("time", IF left[taskCrt] <= 0 THEN "finish" ELSE "loop")
  /\ totalTime' = IF left[taskCrt] <= 0 THEN workRead ELSE workRead - Quantum
  /\ workRead' = 0
  /\ UNCHANGED <<taskVars, left, listVars, taskCrt, running, i, newSize, dispatcherVars,
                 finished>>

WorkEnd ==
  /\ HostGoto("time", IF left[taskCrt] <= 0 THEN "finish" ELSE "loop")
  /\ totalTime' = workRead - Quantum
  /\ workRead' = 0
  /\ UNCHANGED <<taskVars, left, listVars, taskCrt, running, i, newSize, dispatcherVars,
                 finished>>

(* finish(), then tasksList.remove: the search and the new size...         *)
Finish ==
  /\ HostGoto("finish", "remove")
  /\ finished' = Append(finished, taskCrt)
  /\ i' = CHOOSE n \in 1 .. Cap + 1 :
            /\ n > size \/ es[n] = taskCrt
            /\ \A m \in 1 .. n - 1 : m <= size /\ es[m] # taskCrt
  /\ newSize' = size - 1
  /\ modified' = TRUE
  /\ UNCHANGED <<taskVars, left, es, size, taskCrt, running, totalTime, workRead,
                 dispatcherVars>>

(* Mutants: the loop is left after a task; the task stays in the list.     *)
RemoveBreaks ==
  /\ HostGoto("remove", "exited")
  /\ taskCrt' = Null
  /\ i' = 0 /\ newSize' = 0
  /\ UNCHANGED <<taskVars, left, listVars, running, totalTime, workRead, dispatcherVars,
                 finished>>
NoRemove ==
  /\ HostGoto("remove", "loop")
  /\ taskCrt' = Null
  /\ i' = 0 /\ newSize' = 0
  /\ UNCHANGED <<taskVars, left, listVars, running, totalTime, workRead, dispatcherVars,
                 finished>>

(* ... then the elements after it move, and the size is written.           *)
Remove ==
  /\ HostGoto("remove", "loop")
  /\ IF i <= newSize + 1
       THEN /\ es' = [n \in 1 .. Cap |->
                        IF n >= i /\ n <= newSize THEN es[n + 1]
                        ELSE IF n = newSize + 1 THEN Null ELSE es[n]]
            /\ size' = newSize
       ELSE UNCHANGED <<es, size>>
  /\ taskCrt' = Null
  /\ i' = 0 /\ newSize' = 0
  /\ UNCHANGED <<taskVars, left, modified, running, totalTime, workRead, dispatcherVars,
                 finished>>

(* shutdown, by the main thread, at any time.                              *)
Shutdown ==
  /\ running
  /\ running' = FALSE
  /\ UNCHANGED <<taskVars, left, listVars, taskCrt, totalTime, hpc, hostLocals,
                 dispatcherVars, finished>>
---------------------------------------------------------------------------
HostStep ==
  Exit \/ GetNextTask \/ KeepTask \/ Each \/ EachEnd \/ Work \/ WorkEnd \/ Finish \/ Remove

AddStep(t) == AddBegin(t) \/ AddStore(t) \/ AddTimeRead(t) \/ AddTimeWrite(t)

Next == HostStep \/ Shutdown \/ \E t \in Tasks : AddStep(t)

Spec == Init /\ [][Next]_vars

(* Both threads are scheduled; an addTask that was begun is completed.     *)
FairSpec ==
  /\ Spec
  /\ WF_vars(HostStep)
  /\ \A t \in Tasks : WF_vars(adding = t /\ AddStep(t))
---------------------------------------------------------------------------
Executing == hpc \in {"sleep", "time", "finish", "remove"}

(* Types; the thread executes a task, never null.                          *)
TypeOK ==
  /\ duration \in [Tasks -> Durations] /\ priority \in [Tasks -> Priorities]
  /\ preemptible \in [Tasks -> BOOLEAN] /\ left \in [Tasks -> Int]
  /\ es \in [1 .. Cap -> Tasks \cup {Null}] /\ size \in 0 .. Cap /\ modified \in BOOLEAN
  /\ taskCrt \in Tasks \cup {Null} /\ running \in BOOLEAN /\ totalTime \in Int
  /\ hpc \in {"loop", "each", "sleep", "time", "finish", "remove", "exited", "dead"}
  /\ i \in 0 .. Cap + 1 /\ newSize \in -1 .. Cap /\ workRead \in Int
  /\ dpc \in [Tasks -> {"new", "store", "time", "time2", "added"}]
  /\ adding \in Tasks \cup {Null} /\ addRead \in Int
  /\ s \in 0 .. Cap /\ \A t \in Tasks : dpc[t] = "store" => s < Cap
  /\ finished \in Seq(Tasks)
  /\ Executing => taskCrt \in Tasks

Listed(t) == \E n \in 1 .. size : es[n] = t
IsFinished(t) == \E n \in 1 .. Len(finished) : finished[n] = t
Quiet == adding = Null /\ hpc \in {"loop", "sleep", "each"}

(* However the threads interleave, finish() is called once for a task, and *)
(* only when nothing of it is left.                                        *)
FinishOnce ==
  /\ \A m, n \in 1 .. Len(finished) : finished[m] = finished[n] => m = n
  /\ \A t \in Tasks : IsFinished(t) => left[t] <= 0

Begun(t) == left[t] < duration[t] /\ ~IsFinished(t)

(* Tasks nest as interrupts do, whatever is added meanwhile: what executes *)
(* while others are begun and not finished is of higher priority than all  *)
(* of them, and they are preemptible; equals finish one before another     *)
(* begins.                                                                 *)
PreemptionNests ==
  /\ Executing =>
       \A t \in Tasks \ {taskCrt} :
         Begun(t) => preemptible[t] /\ priority[t] < priority[taskCrt]
  /\ \A t, u \in Tasks : Begun(t) /\ Begun(u) /\ priority[t] = priority[u] => t = u

(* A task that is picked has the highest priority in the list, and is the  *)
(* first of those that have it.                                            *)
PicksHighest ==
  [][ hpc = "each" /\ hpc' = "sleep" =>
        \A n \in 1 .. size :
          \/ priority[es[n]] < priority[taskCrt]
          \/ priority[es[n]] = priority[taskCrt] /\ \E m \in 1 .. n : es[m] = taskCrt ]_vars

(* getWorkLeft, which LEAST_WORK_LEFT compares, is the sum of what is left *)
(* of the tasks in the list.                                               *)
WorkLeftExact == Quiet => totalTime = MapThenSumSet(LAMBDA n : left[es[n]], 1 .. size)

(* A task that was added is finished, unless the host is shut down.        *)
AddedFinishes == \A t \in Tasks : dpc[t] = "added" ~> IsFinished(t) \/ ~running

(* A host that is shut down ends.                                          *)
ShutdownEnds == ~running ~> hpc \in {"exited", "dead"}
---------------------------------------------------------------------------
(* What the README says and the code does not do.                          *)

(* run goes on "as long as the program still runs (running, which will be  *)
(* false when shutdown() is called)".                                      *)
HostSurvives == hpc # "dead"

(* addTask: "the received tasks are added to the list", to be traversed    *)
(* later.                                                                  *)
NoTaskLost == Quiet => \A t \in Tasks : dpc[t] = "added" => Listed(t) \/ IsFinished(t)
=============================================================================
