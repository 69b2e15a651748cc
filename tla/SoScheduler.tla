--------------------------- MODULE SoScheduler ---------------------------
(***************************************************************************)
(* The user-level thread scheduler of Anul II/Semestrul I/SO/Tema 2:       *)
(* so_init, so_fork, so_wait, so_signal, so_exec and so_end over one       *)
(* shared, unlocked `scheduler` structure.  Threads hand the processor to  *)
(* each other through one semaphore each (in_exec); so_end waits on the    *)
(* scheduler's semaphore (done).                                           *)
(*                                                                         *)
(* A call is one action up to its last sem_post: only the thread that      *)
(* holds the processor executes scheduler code (MutualExclusion), and      *)
(* after that post a call touches nothing shared before its own sem_wait.  *)
(* The blocking sem_wait, the last two instructions of a terminating       *)
(* thread, and the two halves of so_end are steps of their own.            *)
(***************************************************************************)
EXTENDS Integers, Sequences, FiniteSets

CONSTANTS
  Tasks,          \* the `thread` structures so_fork may allocate
  NoTask,         \* NULL
  SO_MAX_PRIO,    \* the largest priority so_fork accepts
  TimeQuantum,    \* the time_quantum argument of so_init
  NumEvents,      \* the io argument of so_init: the devices are 0..NumEvents-1
  MAX_NO_THREADS, \* the length of the arrays threads and q
  MaxCalls,       \* bound: so_* calls made by all handlers together
  AllocFails,     \* may malloc return NULL in main's so_fork?
  LoneWait        \* may a handler call so_wait while no other thread is ready?

ASSUME ConstantsOK ==
  /\ NoTask \notin Tasks
  /\ SO_MAX_PRIO \in Nat
  /\ TimeQuantum \in Nat \ {0}
  /\ NumEvents \in Nat
  /\ MAX_NO_THREADS \in Nat
  /\ MaxCalls \in Nat
  /\ AllocFails \in BOOLEAN
  /\ LoneWait \in BOOLEAN

VARIABLES
  sched,      \* "null", or "live" between so_init and the free in so_end
  done,       \* value of the semaphore sched->done
  threads,    \* sched->threads[0 .. no_threads-1]
  q,          \* sched->q[0 .. q_size-1]; the last element is dispatched first
  curr,       \* sched->curr_thread
  status,     \* thread.status
  prio,       \* thread.prio
  io,         \* thread.io; NumEvents stands for the "none" of SO_MAX_NUM_EVENTS
  remaining,  \* thread.remaining_time
  inExec,     \* value of the semaphore thread.in_exec
  pc,         \* where each scheduled thread is
  mainPc,     \* where the process's main thread is
  calls       \* so_* calls the handlers may still make

heap == <<threads, q, curr, status, prio, io, remaining, inExec>>
vars == <<sched, done, heap, pc, mainPc, calls>>

Statuses == {"NEW", "READY", "RUNNING", "WAITING", "TERMINATED"}
Prios == 0 .. SO_MAX_PRIO
Devices == 0 .. NumEvents - 1

(***************************************************************************)
(* pc of a scheduled thread:                                               *)
(*   "none"     not created                                                *)
(*   "blocked"  in sem_wait(&in_exec), in func_thread or in so_exec        *)
(*   "user"     in its handler, holding the processor                      *)
(*   "leaving"  in func_thread, after verif dispatched another thread      *)
(*   "posting"  in verif, between sem_post(done) and its own sem_post      *)
(*   "exited"   the OS thread has returned                                 *)
(***************************************************************************)
TaskPcs == {"none", "blocked", "user", "leaving", "posting", "exited"}

(* main: in its own code, in so_fork past sem_wait(done), in so_end before *)
(* sem_wait(done), or in so_end joining the threads.                       *)
MainPcs == {"user", "forking", "ending", "joining"}

Init ==
  /\ sched = "null" /\ done = 0 /\ threads = <<>> /\ q = <<>> /\ curr = NoTask
  /\ status = [t \in Tasks |-> "NEW"]
  /\ prio = [t \in Tasks |-> 0]
  /\ io = [t \in Tasks |-> NumEvents]
  /\ remaining = [t \in Tasks |-> TimeQuantum]
  /\ inExec = [t \in Tasks |-> 0]
  /\ pc = [t \in Tasks |-> "none"]
  /\ mainPc = "user"
  /\ calls = MaxCalls
---------------------------------------------------------------------------
(* add_thread and verif.                                                   *)

(* Mutant: the scan passes the threads of the same priority, so a thread   *)
(* that enters goes ahead of them.                                         *)
SlotAfterEquals(que, p, pr) ==
  CHOOSE i \in 1 .. Len(que) + 1 :
    /\ \A k \in 1 .. i - 1 : pr[que[k]] <= p
    /\ i <= Len(que) => pr[que[i]] > p

(* The first index whose thread has at least priority p, or one past the   *)
(* end: where the scan of add_thread stops.                                *)
SlotFor(que, p, pr) ==
  CHOOSE i \in 1 .. Len(que) + 1 :
    /\ \A k \in 1 .. i - 1 : pr[que[k]] < p
    /\ i <= Len(que) => pr[que[i]] >= p

(* add_thread: t goes to its slot and the rest moves one to the right.     *)
AddThread(que, t, pr) ==
  LET i == SlotFor(que, pr[t], pr)
  IN  [k \in 1 .. Len(que) + 1 |->
         IF k < i THEN que[k] ELSE IF k = i THEN t ELSE que[k - 1]]

Top(que) == que[Len(que)]
InQueue(que, t) == \E i \in 1 .. Len(que) : que[i] = t

(* Mutant: done is posted whenever the current thread has terminated.      *)
DispatchPostsDone(st, que, rem) ==
  /\ curr' = Top(que)
  /\ q' = SubSeq(que, 1, Len(que) - 1)
  /\ status' = [st EXCEPT ![Top(que)] = "RUNNING"]
  /\ remaining' = [rem EXCEPT ![Top(que)] = TimeQuantum]
  /\ inExec' = [inExec EXCEPT ![Top(que)] = @ + 1]
  /\ done' = IF curr # NoTask /\ st[curr] = "TERMINATED" THEN 1 ELSE done

(* verif hands the processor to the last thread of que.                    *)
Dispatch(st, que, rem) ==
  /\ curr' = Top(que)
  /\ q' = SubSeq(que, 1, Len(que) - 1)
  /\ status' = [st EXCEPT ![Top(que)] = "RUNNING"]
  /\ remaining' = [rem EXCEPT ![Top(que)] = TimeQuantum]
  /\ inExec' = [inExec EXCEPT ![Top(que)] = @ + 1]
  /\ UNCHANGED done

(* verif leaves the processor with the current thread.                     *)
Continue(st, que, rem) ==
  /\ q' = que /\ status' = st /\ remaining' = rem
  /\ inExec' = [inExec EXCEPT ![curr] = @ + 1]
  /\ UNCHANGED <<curr, done>>

(* Mutant: the sem_post(&sched->done) is missing.                          *)
PostNothing(st, que, rem) ==
  /\ q' = que /\ status' = st /\ remaining' = rem
  /\ UNCHANGED <<curr, done, inExec>>

(* The current thread terminated and nothing is ready: verif posts done;   *)
(* its sem_post(&curr_t->in_exec) is the step SelfPost.                    *)
PostDone(st, que, rem) ==
  /\ q' = que /\ status' = st /\ remaining' = rem
  /\ done' = done + 1
  /\ UNCHANGED <<curr, inExec>>

MustYield(st) == curr # NoTask => st[curr] \in {"WAITING", "TERMINATED"}

(* Mutants: no preemption before the quantum expires; the quantum is       *)
(* compared with < 0.                                                      *)
OutrankedAtExpiry(que, rem, pr) == rem[curr] <= 0 /\ pr[Top(que)] >= pr[curr]
OutrankedLate(que, rem, pr) ==
  \/ pr[Top(que)] > pr[curr]
  \/ rem[curr] < 0 /\ pr[Top(que)] = pr[curr]

Outranked(que, rem, pr) ==
  \/ pr[Top(que)] > pr[curr]
  \/ rem[curr] <= 0 /\ pr[Top(que)] = pr[curr]

(* Mutant: a thread that terminates posts done without looking whether     *)
(* the queue is empty.                                                     *)
VerifEndsEarly(st, que, rem, pr) ==
  \/ /\ que = <<>> /\ st[curr] # "TERMINATED"
     /\ Continue(st, que, rem)
  \/ /\ curr # NoTask => st[curr] = "TERMINATED"
     /\ IF curr = NoTask THEN Dispatch(st, que, rem) ELSE PostDone(st, que, rem)
  \/ /\ que # <<>> /\ curr # NoTask /\ st[curr] = "WAITING"
     /\ Dispatch(st, que, rem)
  \/ /\ que # <<>> /\ ~MustYield(st) /\ Outranked(que, rem, pr)
     /\ Dispatch([st EXCEPT ![curr] = "READY"], AddThread(que, curr, pr), rem)
  \/ /\ que # <<>> /\ ~MustYield(st) /\ ~Outranked(que, rem, pr)
     /\ Continue(st, que, rem)

(* verif on the values a call has computed so far: statuses st, queue que, *)
(* remaining times rem and priorities pr.                                  *)
Verif(st, que, rem, pr) ==
  \/ /\ que = <<>> /\ st[curr] = "TERMINATED"
     /\ PostDone(st, que, rem)
  \/ /\ que = <<>> /\ st[curr] # "TERMINATED"
     /\ Continue(st, que, rem)
  \/ /\ que # <<>> /\ MustYield(st)
     /\ Dispatch(st, que, rem)
  \/ /\ que # <<>> /\ ~MustYield(st) /\ Outranked(que, rem, pr)
     /\ Dispatch([st EXCEPT ![curr] = "READY"], AddThread(que, curr, pr), rem)
  \/ /\ que # <<>> /\ ~MustYield(st) /\ ~Outranked(que, rem, pr)
     /\ Continue(st, que, IF rem[curr] <= 0
                          THEN [rem EXCEPT ![curr] = TimeQuantum] ELSE rem)

(* Mutant: so_exec returns without its sem_wait.                           *)
SoExecWithoutWait(t, st, que, pr, pcs) ==
  /\ Verif(st, que, [remaining EXCEPT ![curr] = @ - 1], pr)
  /\ pc' = pcs

(* so_exec called by t with the processor: a unit of time, verif, and then *)
(* sem_wait on its own semaphore (the current thread is the caller:        *)
(* RunnerIsCurrent).                                                       *)
SoExec(t, st, que, pr, pcs) ==
  /\ Verif(st, que, [remaining EXCEPT ![curr] = @ - 1], pr)
  /\ pc' = [pcs EXCEPT ![t] = "blocked"]
---------------------------------------------------------------------------
(* The calls of a scheduled thread.                                        *)

Calls(t) == pc[t] = "user" /\ calls > 0 /\ calls' = calls - 1

Exec(t) ==
  /\ Calls(t)
  /\ SoExec(t, status, q, prio, pc)
  /\ UNCHANGED <<sched, threads, prio, io, mainPc>>

(* The allocation, initialisation and enqueueing half of so_fork.          *)
NewThread(n, p) ==
  /\ pc[n] = "none"
  /\ threads' = Append(threads, n)
  /\ prio' = [prio EXCEPT ![n] = p]
  /\ io' = [io EXCEPT ![n] = NumEvents]

Fork(t, n, p) ==
  /\ Calls(t)
  /\ NewThread(n, p)
  /\ LET pr == [prio EXCEPT ![n] = p]
     IN  SoExec(t, [status EXCEPT ![n] = "READY"], AddThread(q, n, pr), pr,
                [pc EXCEPT ![n] = "blocked"])
  /\ UNCHANGED <<sched, mainPc>>

(* A call refused at once: a priority above SO_MAX_PRIO, no handler, a     *)
(* device that does not exist, or a failed malloc in so_fork.  The caller  *)
(* keeps the processor.                                                    *)
Refused(t) ==
  /\ Calls(t)
  /\ UNCHANGED <<sched, done, heap, pc, mainPc>>

Wait(t, d) ==
  /\ Calls(t)
  /\ LoneWait \/ q # <<>>
  /\ io' = [io EXCEPT ![curr] = d]
  /\ SoExec(t, [status EXCEPT ![curr] = "WAITING"], q, prio, pc)
  /\ UNCHANGED <<sched, threads, prio, mainPc>>

(* Mutant: the device is not compared.                                     *)
WaitersOfAny(d) ==
  {threads[i] : i \in {k \in 1 .. Len(threads) :
                         io[threads[k]] \in Devices /\ status[threads[k]] = "WAITING"}}

(* The threads that wait for device d.                                     *)
Waiters(d) ==
  {threads[i] : i \in {k \in 1 .. Len(threads) :
                         io[threads[k]] = d /\ status[threads[k]] = "WAITING"}}

(* The queue after so_signal's loop over ts: add_thread of those in W.     *)
AddAll(que, ts, W, pr) ==
  LET f[i \in 0 .. Len(ts)] ==
        IF i = 0 THEN que
        ELSE IF ts[i] \in W THEN AddThread(f[i - 1], ts[i], pr) ELSE f[i - 1]
  IN  f[Len(ts)]

Signal(t, d) ==
  /\ Calls(t)
  /\ io' = [u \in Tasks |-> IF u \in Waiters(d) THEN NumEvents ELSE io[u]]
  /\ SoExec(t, [u \in Tasks |-> IF u \in Waiters(d) THEN "READY" ELSE status[u]],
            AddAll(q, threads, Waiters(d), prio), prio, pc)
  /\ UNCHANGED <<sched, threads, prio, mainPc>>

(* The handler returns: func_thread marks the thread and calls verif.      *)
Terminate(t) ==
  /\ pc[t] = "user"
  /\ Verif([status EXCEPT ![t] = "TERMINATED"], q, remaining, prio)
  /\ pc' = [pc EXCEPT ![t] = IF q = <<>> THEN "posting" ELSE "leaving"]
  /\ UNCHANGED <<sched, threads, prio, io, mainPc, calls>>

(* The sem_post(&curr_t->in_exec) after sem_post(&sched->done).            *)
SelfPost(t) ==
  /\ pc[t] = "posting"
  /\ inExec' = [inExec EXCEPT ![t] = @ + 1]
  /\ pc' = [pc EXCEPT ![t] = "leaving"]
  /\ UNCHANGED <<sched, done, threads, q, curr, status, prio, io, remaining,
                 mainPc, calls>>

(* func_thread returns.                                                    *)
Exit(t) ==
  /\ pc[t] = "leaving"
  /\ pc' = [pc EXCEPT ![t] = "exited"]
  /\ UNCHANGED <<sched, done, heap, mainPc, calls>>

(* sem_wait(&t->in_exec) returns.                                          *)
Resume(t) ==
  /\ pc[t] = "blocked"
  /\ inExec[t] > 0
  /\ inExec' = [inExec EXCEPT ![t] = @ - 1]
  /\ pc' = [pc EXCEPT ![t] = "user"]
  /\ UNCHANGED <<sched, done, threads, q, curr, status, prio, io, remaining,
                 mainPc, calls>>
---------------------------------------------------------------------------
(* The calls of main, which is not a scheduled thread.                     *)

(* so_init; a call with the scheduler live returns -1 and changes nothing. *)
SoInit ==
  /\ mainPc = "user" /\ sched = "null"
  /\ sched' = "live"
  /\ done' = 1
  /\ threads' = <<>> /\ q' = <<>> /\ curr' = NoTask
  /\ UNCHANGED <<status, prio, io, remaining, inExec, pc, mainPc, calls>>

(* The first so_fork waits for done before it allocates.                   *)
MainForkTake ==
  /\ mainPc = "user" /\ sched = "live" /\ threads = <<>>
  /\ done > 0
  /\ done' = done - 1
  /\ mainPc' = "forking"
  /\ UNCHANGED <<sched, heap, pc, calls>>

(* With no current thread so_fork calls verif instead of so_exec, and main *)
(* goes on without blocking.                                               *)
MainFork(n, p) ==
  /\ mainPc = "forking"
  /\ NewThread(n, p)
  /\ LET pr == [prio EXCEPT ![n] = p]
     IN  Verif([status EXCEPT ![n] = "READY"], AddThread(q, n, pr), remaining, pr)
  /\ pc' = [pc EXCEPT ![n] = "blocked"]
  /\ mainPc' = "user"
  /\ UNCHANGED <<sched, calls>>

(* malloc returned NULL: INVALID_TID, with done already taken.             *)
MainForkFails ==
  /\ AllocFails
  /\ mainPc = "forking"
  /\ mainPc' = "user"
  /\ UNCHANGED <<sched, done, heap, pc, calls>>

SoEnd ==
  /\ mainPc = "user" /\ sched = "live"
  /\ mainPc' = "ending"
  /\ UNCHANGED <<sched, done, heap, pc, calls>>

SoEndWait ==
  /\ mainPc = "ending" /\ done > 0
  /\ done' = done - 1
  /\ mainPc' = "joining"
  /\ UNCHANGED <<sched, heap, pc, calls>>

(* Mutant: so_end frees without joining.                                   *)
NoneJoined == TRUE

(* Every pthread_join has returned: the threads and the scheduler are      *)
(* freed; a structure is free for so_fork again once its thread is gone.   *)
AllJoined == \A i \in 1 .. Len(threads) : pc[threads[i]] = "exited"

SoEndFree ==
  /\ mainPc = "joining"
  /\ AllJoined
  /\ sched' = "null" /\ done' = 0
  /\ threads' = <<>> /\ q' = <<>> /\ curr' = NoTask
  /\ status' = [t \in Tasks |-> "NEW"]
  /\ prio' = [t \in Tasks |-> 0]
  /\ io' = [t \in Tasks |-> NumEvents]
  /\ remaining' = [t \in Tasks |-> TimeQuantum]
  /\ inExec' = [t \in Tasks |-> 0]
  /\ pc' = [t \in Tasks |-> IF pc[t] = "exited" THEN "none" ELSE pc[t]]
  /\ mainPc' = "user"
  /\ UNCHANGED calls
---------------------------------------------------------------------------
TaskNext(t) ==
  \/ Resume(t) \/ Exec(t) \/ Refused(t) \/ Terminate(t)
  \/ SelfPost(t) \/ Exit(t)
  \/ \E n \in Tasks, p \in Prios : Fork(t, n, p)
  \/ \E d \in Devices : Wait(t, d) \/ Signal(t, d)

MainNext ==
  \/ SoInit \/ MainForkTake \/ MainForkFails \/ SoEnd \/ SoEndWait \/ SoEndFree
  \/ \E n \in Tasks, p \in Prios : MainFork(n, p)

Next == MainNext \/ \E t \in Tasks : TaskNext(t)

Spec == Init /\ [][Next]_vars

(* The OS runs every runnable thread, and handlers are finite: a thread    *)
(* with the processor goes on to its next call or returns.  main is only   *)
(* obliged to finish an so_end it has entered.                             *)
Fairness ==
  /\ \A t \in Tasks : WF_vars(TaskNext(t))
  /\ WF_vars(SoEndWait) /\ WF_vars(SoEndFree)

FairSpec == Spec /\ Fairness
---------------------------------------------------------------------------
(* Types.  done never exceeds the one token so_init gave it; no semaphore  *)
(* of a thread is ever posted more than twice ahead of its waits.          *)
TypeOK ==
  /\ sched \in {"null", "live"}
  /\ done \in 0 .. 1
  /\ threads \in Seq(Tasks)
  /\ q \in Seq(Tasks)
  /\ curr \in Tasks \cup {NoTask}
  /\ status \in [Tasks -> Statuses]
  /\ prio \in [Tasks -> Prios]
  /\ io \in [Tasks -> 0 .. NumEvents]
  /\ remaining \in [Tasks -> Int]
  /\ inExec \in [Tasks -> Nat]
  /\ pc \in [Tasks -> TaskPcs]
  /\ mainPc \in MainPcs
  /\ calls \in 0 .. MaxCalls

(* t holds the processor: it is in its handler, or its sem_wait on in_exec *)
(* may return.                                                             *)
Holds(t) == pc[t] = "user" \/ (pc[t] = "blocked" /\ inExec[t] > 0)

(* Two handlers never run at the same time: each verif posts exactly one   *)
(* in_exec, and the thread that called it waits for its own.               *)
MutualExclusion ==
  \A t, u \in Tasks : pc[t] = "user" /\ pc[u] = "user" => t = u

(* The thread that executes a handler is sched->curr_thread: so_wait and   *)
(* so_exec change and block the thread that called them, no other.         *)
RunnerIsCurrent == \A t \in Tasks : Holds(t) => curr = t

(* The queue is sorted and the thread in its handler has the highest       *)
(* priority of all that are ready: verif preempts after every call.        *)
PriorityRespected ==
  /\ \A i, j \in 1 .. Len(q) : i <= j => prio[q[i]] <= prio[q[j]]
  /\ \A t \in Tasks : pc[t] = "user" =>
       \A i \in 1 .. Len(q) : prio[q[i]] <= prio[t]

(* so_end gets its token of done only when no thread is left that could    *)
(* run: the last verif posts it, once, with an empty queue.                *)
DoneIsLast ==
  done > 0 /\ threads # <<>> =>
    \A i \in 1 .. Len(threads) : status[threads[i]] \in {"WAITING", "TERMINATED"}

(* The scheduler and its threads are not freed while a thread may still    *)
(* touch them, in particular between sem_post(done) and the last sem_post. *)
NoUseAfterFree == sched = "null" => \A t \in Tasks : pc[t] = "none"
---------------------------------------------------------------------------
(* What holds when no handler calls so_wait alone (LoneWait = FALSE).      *)

Place(que, t) == CHOOSE i \in 1 .. Len(que) : que[i] = t

(* Threads of one priority are served first come, first served: one that   *)
(* enters the queue stays behind those of its priority already there.      *)
FifoStep ==
  \A x, y \in Tasks :
    ( /\ x # y /\ prio'[x] = prio'[y]
      /\ InQueue(q, y) /\ InQueue(q', y) /\ InQueue(q', x)
      /\ InQueue(q, x) => Place(q, x) < Place(q, y) )
    => Place(q', x) < Place(q', y)
FifoAmongEquals == [][FifoStep]_vars

(* A thread that keeps the processor over a call, with a thread of its own *)
(* priority ready, has time left of its quantum and is not given a new one.*)
QuantumStep ==
  \A t \in Tasks :
    ( /\ curr = t /\ curr' = t /\ status'[t] # "TERMINATED"
      /\ q' # <<>> /\ prio'[Top(q')] = prio'[t] )
    => remaining'[t] \in 1 .. remaining[t]
QuantumEnforced == [][QuantumStep]_vars

(* The scheduler is a processor that goes to a ready thread of the highest *)
(* priority at every call: each step of the semaphores, the queue and the  *)
(* quantum is a step of OneProcessor on the threads' statuses, or none.    *)
AbstractState ==
  [NEW |-> "absent", READY |-> "ready", RUNNING |-> "running",
   WAITING |-> "waiting", TERMINATED |-> "finished"]
Processor == INSTANCE OneProcessor WITH
  Threads <- Tasks, Priorities <- Prios, NoDevice <- NumEvents,
  state <- [t \in Tasks |-> AbstractState[status[t]]], rank <- prio, device <- io
IsOneProcessor == Processor!Spec

(* A ready thread eventually runs, however its priority compares.          *)
ReadyRuns == \A t \in Tasks : status[t] = "READY" ~> status[t] # "READY"

(* Threads wait for a device and nobody is left to signal it.              *)
Stranded ==
  /\ \E t \in Tasks : status[t] = "WAITING"
  /\ \A t \in Tasks : status[t] \in {"NEW", "WAITING", "TERMINATED"}

(* so_end returns with the scheduler freed once every thread has finished, *)
(* unless threads were left waiting; a first so_fork that failed is        *)
(* excluded here (see SoEndDestroys).                                      *)
EndCompletes ==
  (mainPc = "ending" /\ (threads # <<>> \/ done > 0))
    ~> (sched = "null" \/ Stranded)
---------------------------------------------------------------------------
(* What the documentation says and the code does not do.                   *)

(* README: so_wait "will block the current thread until io is signaled".   *)
WaitBlocks == \A t \in Tasks : pc[t] = "user" => status[t] # "WAITING"

(* so_scheduler.h: so_end "destroys a scheduler".                          *)
SoEndDestroys == mainPc = "ending" ~> (sched = "null" \/ Stranded)

(* so_scheduler.c: MAX_NO_THREADS is the "maximum number of threads".      *)
WithinCapacity == Len(threads) <= MAX_NO_THREADS
=============================================================================
