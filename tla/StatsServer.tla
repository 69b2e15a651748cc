--------------------------- MODULE StatsServer ---------------------------
(***************************************************************************)
(* The asynchronous job server of Anul III/Semestrul II/ASC/Tema1 - Le     *)
(* Stats Sportif: Flask handlers number a job and submit it, the threads   *)
(* of the pool take jobs from a shared queue, write the result file and    *)
(* mark the job done, clients poll get_results, and graceful_shutdown      *)
(* joins the pool.                                                         *)
(*                                                                         *)
(* Flask runs each request in a thread of its own, so every access to the  *)
(* counter, the queue, the dictionary jobs, the shutdown flag and the      *)
(* result files is a step.  What a job computes is left out: it either     *)
(* produces its result or raises (an unknown state or question divides by  *)
(* zero, a missing key raises KeyError), which ends the pool's thread.     *)
(***************************************************************************)
EXTENDS Integers, Sequences, FiniteSets

CONSTANTS
  Requests,      \* the POST requests of a run, one job each
  Workers,       \* the threads of the pool
  NoTask,        \* a thread of the pool that has not had a task yet
  Pollers,       \* clients of get_results
  EnvSet,        \* is TP_NUM_OF_THREADS set?
  BadRequests,   \* may a request make its calculation raise?
  Shutdowns      \* may /api/graceful_shutdown be called?

ASSUME ServerConstants ==
  /\ IsFiniteSet(Requests) /\ IsFiniteSet(Workers) /\ Workers # {}
  /\ \A b \in {EnvSet, BadRequests, Shutdowns} : b \in BOOLEAN
  /\ {"none", "partial", "mixed", "invalid", "running", "error"} \cap Requests = {}
  /\ NoTask \notin Requests

VARIABLES
  server,      \* "starting", "serving", or "crashed" in ThreadPool.start
  job_counter, \* webserver.job_counter
  loaded,      \* the counter as a handler's += read it
  job_id,      \* a handler's local job_id; 0 before it is assigned
  rpc,         \* where each handler is
  kind,        \* "good", or "bad" when the calculation will raise
  tsk_queue,   \* the queue, tasks named by their request
  jobs,        \* the dictionary jobs; "absent" stands for a missing key
  file,        \* result files: "none", "partial", "mixed", or whose result
  shutdown_flag,
  wpc,         \* where each thread of the pool is
  wtask,       \* the task it executes
  accepted,    \* history: requests put before the shutdown flag was set
  raced,       \* history: did two handlers use the counter at the same time?
  spc,         \* the shutdown handler
  poll         \* each poller: pc, the id it asks for, its answer, and
               \* whether the id had been returned to a client before

vars == <<server, job_counter, loaded, job_id, rpc, kind, tsk_queue, jobs, file,
          shutdown_flag, wpc, wtask, accepted, raced, spc, poll>>

handlerVars == <<job_counter, loaded, job_id, rpc, kind, accepted, raced>>
workerVars == <<wpc, wtask, file>>

Ids == 0 .. Cardinality(Requests)
Answers == {"none", "invalid", "running", "error"} \cup Requests

Init ==
  /\ server = "starting"
  /\ job_counter = 0
  /\ loaded = [r \in Requests |-> 0]
  /\ job_id = [r \in Requests |-> 0]
  /\ rpc = [r \in Requests |-> "idle"]
  /\ kind = [r \in Requests |-> "good"]
  /\ tsk_queue = <<>>
  /\ jobs = [i \in Ids |-> "absent"]
  /\ file = [i \in Ids |-> "none"]
  /\ shutdown_flag = FALSE
  /\ wpc = [w \in Workers |-> "none"]
  /\ wtask = [w \in Workers |-> NoTask]
  /\ accepted = {} /\ raced = FALSE
  /\ spc = "idle"
  /\ poll = [p \in Pollers |-> [pc |-> "idle", id |-> 0, answer |-> "none", known |-> FALSE]]
---------------------------------------------------------------------------
(* ThreadPool.start.  os.getenv returns a string, which range refuses.     *)
Start ==
  /\ server = "starting"
  /\ IF EnvSet
       THEN server' = "crashed" /\ UNCHANGED wpc
       ELSE server' = "serving" /\ wpc' = [w \in Workers |-> "loop"]
  /\ UNCHANGED <<handlerVars, tsk_queue, jobs, file, shutdown_flag, wtask, spc, poll>>
---------------------------------------------------------------------------
(* handle_request and submit_task.                                         *)

Goto(r, from, to) == rpc[r] = from /\ rpc' = [rpc EXCEPT ![r] = to]

Arrive(r, k) ==
  /\ server = "serving"
  /\ Goto(r, "idle", "count")
  /\ k = "bad" => BadRequests
  /\ kind' = [kind EXCEPT ![r] = k]
  /\ UNCHANGED <<server, job_counter, loaded, job_id, accepted, raced, tsk_queue, jobs,
                 shutdown_flag, workerVars, spc, poll>>

(* job_counter += 1 loads and stores; job_id = job_counter loads again.    *)
(* The interpreter may switch threads between them.                        *)
CountLoad(r) ==
  /\ Goto(r, "count", "store")
  /\ loaded' = [loaded EXCEPT ![r] = job_counter]
  /\ UNCHANGED <<server, job_counter, job_id, kind, accepted, raced, tsk_queue, jobs,
                 shutdown_flag, workerVars, spc, poll>>
CountStore(r) ==
  /\ Goto(r, "store", "read")
  /\ job_counter' = loaded[r] + 1
  /\ raced' = (raced \/ job_counter # loaded[r])
  /\ UNCHANGED <<server, loaded, job_id, kind, accepted, tsk_queue, jobs,
                 shutdown_flag, workerVars, spc, poll>>
CountRead(r) ==
  /\ Goto(r, "read", "check")
  /\ job_id' = [job_id EXCEPT ![r] = job_counter]
  /\ raced' = (raced \/ job_counter # loaded[r] + 1)
  /\ UNCHANGED <<server, job_counter, loaded, kind, accepted, tsk_queue, jobs,
                 shutdown_flag, workerVars, spc, poll>>

(* submit_task tests the flag, puts the task, then registers it; after the *)
(* flag is set it drops the task in silence.                               *)
Check(r) ==
  /\ Goto(r, "check", IF shutdown_flag THEN "dropped" ELSE "put")
  /\ UNCHANGED <<server, job_counter, loaded, job_id, kind, accepted, raced, tsk_queue, jobs,
                 shutdown_flag, workerVars, spc, poll>>

(* Mutant: the task is put again.                                          *)
PutTwice(r) ==
  /\ Goto(r, "put", "register")
  /\ tsk_queue' = tsk_queue \o <<r, r>>
  /\ accepted' = IF shutdown_flag THEN accepted ELSE accepted \cup {r}
  /\ UNCHANGED <<server, job_counter, loaded, job_id, kind, raced, jobs, shutdown_flag,
                 workerVars, spc, poll>>

Put(r) ==
  /\ Goto(r, "put", "register")
  /\ tsk_queue' = Append(tsk_queue, r)
  /\ accepted' = IF shutdown_flag THEN accepted ELSE accepted \cup {r}
  /\ UNCHANGED <<server, job_counter, loaded, job_id, kind, raced, jobs, shutdown_flag,
                 workerVars, spc, poll>>

(* Mutant: the counter is used for the handler's own id.                   *)
RegisterCounter(r) ==
  /\ Goto(r, "register", "reply")
  /\ jobs' = [jobs EXCEPT ![job_counter] = "running"]
  /\ UNCHANGED <<server, job_counter, loaded, job_id, kind, accepted, raced, tsk_queue,
                 shutdown_flag, workerVars, spc, poll>>

Register(r) ==
  /\ Goto(r, "register", "reply")
  /\ jobs' = [jobs EXCEPT ![job_id[r]] = "running"]
  /\ UNCHANGED <<server, job_counter, loaded, job_id, kind, accepted, raced, tsk_queue,
                 shutdown_flag, workerVars, spc, poll>>

(* The client gets its job_id, also when the task was dropped.             *)
Reply(r) ==
  /\ Goto(r, "reply", "replied") \/ Goto(r, "dropped", "told")
  /\ UNCHANGED <<server, job_counter, loaded, job_id, kind, accepted, raced, tsk_queue, jobs,
                 shutdown_flag, workerVars, spc, poll>>
---------------------------------------------------------------------------
(* TaskRunner.run.  The two tests of the loop read the flag and qsize; get *)
(* blocks while the queue is empty.                                        *)

WGoto(w, from, to) == wpc[w] = from /\ wpc' = [wpc EXCEPT ![w] = to]

(* Mutants: the loop ends on the flag alone; it ends on an empty queue.    *)
LeaveOnFlag(w) ==
  /\ shutdown_flag
  /\ WGoto(w, "loop", "exited")
  /\ UNCHANGED <<server, handlerVars, tsk_queue, jobs, file, shutdown_flag, wtask, spc, poll>>
LeaveWhenIdle(w) ==
  /\ tsk_queue = <<>>
  /\ WGoto(w, "loop", "exited")
  /\ UNCHANGED <<server, handlerVars, tsk_queue, jobs, file, shutdown_flag, wtask, spc, poll>>

Leave(w) ==
  /\ shutdown_flag /\ tsk_queue = <<>>
  /\ WGoto(w, "loop", "exited")
  /\ UNCHANGED <<server, handlerVars, tsk_queue, jobs, file, shutdown_flag, wtask, spc, poll>>

See(w) ==
  /\ tsk_queue # <<>>
  /\ WGoto(w, "loop", "get")
  /\ UNCHANGED <<server, handlerVars, tsk_queue, jobs, file, shutdown_flag, wtask, spc, poll>>

Get(w) ==
  /\ tsk_queue # <<>>
  /\ WGoto(w, "get", "calculate")
  /\ wtask' = [wtask EXCEPT ![w] = Head(tsk_queue)]
  /\ tsk_queue' = Tail(tsk_queue)
  /\ UNCHANGED <<server, handlerVars, jobs, file, shutdown_flag, spc, poll>>

(* execute_task: an exception leaves run and ends the thread.              *)
Calculate(w) ==
  /\ WGoto(w, "calculate", IF kind[wtask[w]] = "bad" THEN "dead" ELSE "open")
  /\ UNCHANGED <<server, handlerVars, tsk_queue, jobs, file, shutdown_flag, wtask, spc, poll>>

(* write_in_file: open truncates, the dump is flushed by the close, then   *)
(* the status.  Writing over another job's result may mix the two.         *)
Open(w) ==
  /\ WGoto(w, "open", "dump")
  /\ file' = [file EXCEPT ![job_id[wtask[w]]] = "partial"]
  /\ UNCHANGED <<server, handlerVars, tsk_queue, jobs, shutdown_flag, wtask, spc, poll>>
Dump(w) ==
  LET i == job_id[wtask[w]]
  IN  /\ WGoto(w, "dump", "mark")
      /\ \E f \in IF file[i] = "partial" THEN {wtask[w]} ELSE {wtask[w], "mixed"} :
           file' = [file EXCEPT ![i] = f]
      /\ UNCHANGED <<server, handlerVars, tsk_queue, jobs, shutdown_flag, wtask, spc, poll>>

(* Mutant: the job is marked done before its file is written.              *)
MarkFirst(w) ==
  /\ \/ WGoto(w, "mark", "loop") /\ UNCHANGED jobs
     \/ /\ wpc[w] = "open" /\ jobs[job_id[wtask[w]]] # "done"
        /\ jobs' = [jobs EXCEPT ![job_id[wtask[w]]] = "done"] /\ UNCHANGED wpc
  /\ UNCHANGED <<server, handlerVars, tsk_queue, file, shutdown_flag, wtask, spc, poll>>

(* jobs[task_id] = "done".                                                 *)
Mark(w) ==
  /\ WGoto(w, "mark", "loop")
  /\ jobs' = [jobs EXCEPT ![job_id[wtask[w]]] = "done"]
  /\ UNCHANGED <<server, handlerVars, tsk_queue, file, shutdown_flag, wtask, spc, poll>>
---------------------------------------------------------------------------
(* graceful_shutdown: the flag, then every join.                           *)
SetFlag ==
  /\ Shutdowns /\ server = "serving" /\ spc = "idle"
  /\ shutdown_flag' = TRUE
  /\ spc' = "joining"
  /\ UNCHANGED <<server, handlerVars, tsk_queue, jobs, workerVars, poll>>

Joined ==
  /\ spc = "joining"
  /\ \A w \in Workers : wpc[w] \in {"exited", "dead"}
  /\ spc' = "returned"
  /\ UNCHANGED <<server, handlerVars, tsk_queue, jobs, shutdown_flag, workerVars, poll>>
---------------------------------------------------------------------------
(* get_results: the counter, then the status, then the file.               *)

PollId(p, i) ==
  /\ server = "serving" /\ poll[p].pc = "idle"
  /\ poll' = [poll EXCEPT ![p] =
       [pc     |-> IF i > job_counter THEN "idle" ELSE "status",
        id     |-> i,
        answer |-> IF i > job_counter THEN "invalid" ELSE "none",
        known  |-> \E r \in Requests : rpc[r] = "replied" /\ job_id[r] = i]]
  /\ UNCHANGED <<server, handlerVars, tsk_queue, jobs, shutdown_flag, workerVars, spc>>

PollStatus(p) ==
  LET s == jobs[poll[p].id]
  IN  /\ poll[p].pc = "status"
      /\ poll' = [poll EXCEPT ![p].pc = IF s = "done" THEN "file" ELSE "idle",
                              ![p].answer = CASE s = "absent" -> "error"
                                              [] s = "running" -> "running"
                                              [] s = "done" -> "none"]
      /\ UNCHANGED <<server, handlerVars, tsk_queue, jobs, shutdown_flag, workerVars, spc>>

PollFile(p) ==
  LET f == file[poll[p].id]
  IN  /\ poll[p].pc = "file"
      /\ poll' = [poll EXCEPT ![p].pc = "idle",
                              ![p].answer = IF f \in Requests THEN f ELSE "error"]
      /\ UNCHANGED <<server, handlerVars, tsk_queue, jobs, shutdown_flag, workerVars, spc>>
---------------------------------------------------------------------------
HandlerStep(r) ==
  \/ CountLoad(r) \/ CountStore(r) \/ CountRead(r)
  \/ Check(r) \/ Put(r) \/ Register(r) \/ Reply(r)

WorkerStep(w) ==
  Leave(w) \/ See(w) \/ Get(w) \/ Calculate(w) \/ Open(w) \/ Dump(w) \/ Mark(w)

PollerStep(p) == PollStatus(p) \/ PollFile(p)

Next ==
  \/ Start \/ SetFlag \/ Joined
  \/ \E r \in Requests : HandlerStep(r) \/ \E k \in {"good", "bad"} : Arrive(r, k)
  \/ \E w \in Workers : WorkerStep(w)
  \/ \E p \in Pollers : PollerStep(p) \/ \E i \in Ids : PollId(p, i)

Spec == Init /\ [][Next]_vars

(* Every thread that can run is scheduled; nobody is obliged to call.      *)
Fairness ==
  /\ WF_vars(Start) /\ WF_vars(Joined)
  /\ \A r \in Requests : WF_vars(HandlerStep(r))
  /\ \A w \in Workers : WF_vars(WorkerStep(w))

FairSpec == Spec /\ Fairness
---------------------------------------------------------------------------
HandlerPcs == {"idle", "count", "store", "read", "check", "put", "register",
               "reply", "replied", "dropped", "told"}
WorkerPcs == {"none", "loop", "get", "calculate", "open", "dump", "mark",
              "exited", "dead"}
Busy == {"calculate", "open", "dump", "mark", "dead"}

(* Types; a thread of the pool that executes has a task.                   *)
TypeOK ==
  /\ server \in {"starting", "serving", "crashed"}
  /\ job_counter \in Ids
  /\ loaded \in [Requests -> Ids] /\ job_id \in [Requests -> Ids]
  /\ rpc \in [Requests -> HandlerPcs] /\ kind \in [Requests -> {"good", "bad"}]
  /\ tsk_queue \in Seq(Requests)
  /\ jobs \in [Ids -> {"absent", "running", "done"}]
  /\ file \in [Ids -> {"none", "partial", "mixed"} \cup Requests]
  /\ shutdown_flag \in BOOLEAN
  /\ wpc \in [Workers -> WorkerPcs] /\ wtask \in [Workers -> Requests \cup {NoTask}]
  /\ \A w \in Workers : wpc[w] \in Busy => wtask[w] \in Requests
  /\ accepted \subseteq Requests /\ raced \in BOOLEAN
  /\ spc \in {"idle", "joining", "returned"}
  /\ poll \in [Pollers -> [pc : {"idle", "status", "file"}, id : Ids,
                           answer : Answers, known : BOOLEAN]]

Queued(r) == \E i \in 1 .. Len(tsk_queue) : tsk_queue[i] = r
Running(r) == \E w \in Workers : wtask[w] = r /\ wpc[w] \in Busy

Good == \A r \in Requests : kind[r] = "good"

(* A job marked done has the complete result of its own request on disk:   *)
(* get_response opens the file as soon as it sees the status.  Here and    *)
(* below, as long as no two handlers raced for the counter.                *)
ResultBeforeDone ==
  ~raced => \A i \in Ids : jobs[i] = "done" => \E r \in Requests : job_id[r] = i /\ file[i] = r

(* A task is in one place only: queued once, in the hands of one thread    *)
(* of the pool, or over; two threads that race for it do not both get it.  *)
TakenOnce ==
  /\ \A i, j \in 1 .. Len(tsk_queue) : tsk_queue[i] = tsk_queue[j] => i = j
  /\ \A r \in Requests : Queued(r) => ~Running(r) /\ file[job_id[r]] # r
  /\ \A v, w \in Workers :
       wpc[v] \in Busy /\ wpc[w] \in Busy /\ wtask[v] = wtask[w] => v = w

(* A client that asks for the id of a job that was submitted gets          *)
(* "running" or its own job's result, never an error or another's file.    *)
KnownJobAnswered ==
  ~raced => \A p \in Pollers :
    poll[p].known /\ poll[p].pc = "idle" /\ poll[p].answer # "none" =>
      \/ poll[p].answer = "running"
      \/ \E r \in Requests : poll[p].answer = r /\ job_id[r] = poll[p].id

(* What a client is told of its job is true: running, or done with its own *)
(* complete result.                                                        *)
AnswersRight == ResultBeforeDone /\ KnownJobAnswered

(* Once its client has the id, a job marked done stays done.               *)
DoneStays ==
  [][ \A r \in Requests :
        ~raced' /\ rpc[r] = "replied" /\ jobs[job_id[r]] = "done" =>
          jobs'[job_id[r]] = "done" ]_vars

(* When graceful_shutdown returns, every task put before it was called has *)
(* its result on disk, if no task ended a thread of the pool.              *)
DrainsBeforeReturn ==
  ~raced /\ Good /\ spc = "returned" => \A r \in accepted : file[job_id[r]] = r

(* Every task in the queue is eventually executed and its result written,  *)
(* if no task ended a thread of the pool and the server is not shut down.  *)
TaskRuns ==
  \A r \in Requests : Queued(r) ~> file[job_id[r]] = r \/ raced \/ ~Good \/ shutdown_flag

(* graceful_shutdown returns.                                              *)
ShutdownReturns == spc = "joining" ~> spc = "returned"
---------------------------------------------------------------------------
(* What the README says and the code does not do.                          *)

(* jobs: "running if it's execusion is not done yet or done if it's        *)
(* finished".                                                              *)
StatusTruthful ==
  ~raced => \A r \in Requests :
    rpc[r] = "replied" /\ file[job_id[r]] = r /\ ~Running(r) =>
      jobs[job_id[r]] = "done"

(* handle_request "increments the global job counter ... and returns the   *)
(* associated job ID".                                                     *)
UniqueIds ==
  \A r, s \in Requests :
    rpc[r] = "replied" /\ rpc[s] = "replied" /\ job_id[r] = job_id[s] => r = s

(* start "starts multiple threads based on the specified number of threads *)
(* in the environment".                                                    *)
PoolStarts == server # "crashed"
=============================================================================
