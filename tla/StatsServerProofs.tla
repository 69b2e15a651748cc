------------------------ MODULE StatsServerProofs ------------------------
(***************************************************************************)
(* Proofs about StatsServer, for any requests, pool and clients: types,    *)
(* a task in one place, truthful answers, a drained queue.                 *)
(***************************************************************************)
EXTENDS StatsServer, FiniteSetTheorems, SequenceTheorems, TLAPS

---------------------------------------------------------------------------
(* The inductive invariant, in parts.                                      *)

(* The handlers that have stored the counter.                              *)
Counted == {r \in Requests : rpc[r] \notin {"idle", "count", "store"}}

(* The counter stays within Ids: it never exceeds the handlers that have   *)
(* stored it, nor does a value some handler is about to store.             *)
CountBound ==
  /\ job_counter <= Cardinality(Counted)
  /\ \A r \in Requests : rpc[r] = "store" => loaded[r] <= Cardinality(Counted)

(* The handlers that have put their task.                                  *)
Submitted == {r \in Requests : rpc[r] \in {"register", "reply", "replied"}}

(* What is queued, executed, on disk or in an answer has been put; what is *)
(* queued is nowhere else.                                                 *)
OnePlace ==
  /\ \A i, j \in 1 .. Len(tsk_queue) : tsk_queue[i] = tsk_queue[j] => i = j
  /\ \A r \in Requests : Queued(r) =>
       r \in Submitted /\ ~Running(r) /\ \A i \in Ids : file[i] # r
  /\ \A w \in Workers : wpc[w] \in Busy => wtask[w] \in Submitted
  /\ \A v, w \in Workers :
       wpc[v] \in Busy /\ wpc[w] \in Busy /\ wtask[v] = wtask[w] => v = w
  /\ \A i \in Ids : file[i] \in Requests => file[i] \in Submitted
  /\ \A p \in Pollers : poll[p].answer \in Requests => poll[p].answer \in Submitted

(* Without a race every handler stored a value of its own, and its id is   *)
(* the value it stored.                                                    *)
IdsApart ==
  ~raced =>
    /\ \A r \in Counted : loaded[r] < job_counter
    /\ \A r, s \in Counted : loaded[r] = loaded[s] => r = s
    /\ \A r \in Counted : rpc[r] # "read" => job_id[r] = loaded[r] + 1

(* The file of the job a thread of the pool executes, at each of its steps.*)
FileInHand ==
  ~raced => \A w \in Workers :
    LET f == file[job_id[wtask[w]]]
    IN  /\ wpc[w] \in {"calculate", "open"} => f # wtask[w]
        /\ wpc[w] = "dump" => f = "partial"
        /\ wpc[w] = "mark" => f = wtask[w]

(* A client that knew the id it asks for is about to read the result of a  *)
(* registered job.                                                         *)
PollKnown ==
  /\ \A r \in Requests : rpc[r] \in {"reply", "replied"} => jobs[job_id[r]] # "absent"
  /\ \A p \in Pollers : poll[p].known =>
       \E r \in Requests : rpc[r] = "replied" /\ job_id[r] = poll[p].id
  /\ ~raced => \A p \in Pollers :
       poll[p].known /\ poll[p].pc = "file" => jobs[poll[p].id] = "done"

(* A thread of the pool leaves only when nothing accepted is queued, and   *)
(* dies only of a bad request.                                             *)
Leaving ==
  /\ server = "starting" => spc = "idle" /\ \A w \in Workers : wpc[w] = "none"
  /\ \A r \in Requests : rpc[r] = "idle" => kind[r] = "good"
  /\ accepted \subseteq Submitted
  /\ \A w \in Workers : wpc[w] = "dead" => kind[wtask[w]] = "bad"
  /\ \A w \in Workers : wpc[w] = "exited" =>
       shutdown_flag /\ \A r \in accepted : ~Queued(r)
  /\ spc = "returned" => \A w \in Workers : wpc[w] \in {"exited", "dead"}

(* An accepted task is queued, in the hands of a thread, or on disk.       *)
Kept ==
  ~raced /\ Good =>
    \A r \in accepted : Queued(r) \/ Running(r) \/ file[job_id[r]] = r

IInv ==
  /\ TypeOK /\ CountBound /\ OnePlace /\ IdsApart /\ FileInHand
  /\ ResultBeforeDone /\ PollKnown /\ KnownJobAnswered /\ Leaving /\ Kept
---------------------------------------------------------------------------
(* Types.                                                                  *)

LEMMA IdsAreNat == Cardinality(Requests) \in Nat /\ Ids \subseteq Nat /\ 0 \in Ids
<1>1. Cardinality(Requests) \in Nat
  BY ServerConstants, FS_CardinalityType
<1> QED BY <1>1 DEF Ids

(* A handler that has not stored the counter leaves room below its bound.  *)
LEMMA CountedRoom ==
  ASSUME NEW r \in Requests, r \notin Counted
  PROVE  /\ Cardinality(Counted) \in Nat
         /\ Cardinality(Counted) + 1 <= Cardinality(Requests)
         /\ Cardinality(Counted \cup {r}) = Cardinality(Counted) + 1
<1>1. IsFiniteSet(Counted) /\ Counted \cup {r} \subseteq Requests
  BY ServerConstants, FS_Subset DEF Counted
<1>2. Cardinality(Counted \cup {r}) = Cardinality(Counted) + 1
  BY <1>1, FS_AddElement
<1>3. Cardinality(Counted \cup {r}) <= Cardinality(Requests)
  BY <1>1, ServerConstants, FS_Subset
<1> QED BY <1>1, <1>2, <1>3, FS_CardinalityType

LEMMA CountedIsSmall ==
  Cardinality(Counted) \in Nat /\ Cardinality(Counted) <= Cardinality(Requests)
<1>1. Counted \subseteq Requests
  BY DEF Counted
<1> QED BY <1>1, ServerConstants, FS_Subset, FS_CardinalityType

(* The initial state satisfies every part of the invariant.                *)
LEMMA InitOK == Init => IInv
<1> SUFFICES ASSUME Init PROVE IInv
  OBVIOUS
<1>1. TypeOK
  <2>1. poll \in [Pollers -> [pc : {"idle", "status", "file"}, id : Ids,
                             answer : Answers, known : BOOLEAN]]
    BY IdsAreNat DEF Init, Answers
  <2>2. /\ server \in {"starting", "serving", "crashed"}
        /\ job_counter \in Ids
        /\ loaded \in [Requests -> Ids] /\ job_id \in [Requests -> Ids]
        /\ rpc \in [Requests -> HandlerPcs] /\ kind \in [Requests -> {"good", "bad"}]
        /\ spc \in {"idle", "joining", "returned"}
    BY IdsAreNat DEF Init, HandlerPcs
  <2>3. /\ jobs \in [Ids -> {"absent", "running", "done"}]
        /\ file \in [Ids -> {"none", "partial", "mixed"} \cup Requests]
        /\ shutdown_flag \in BOOLEAN
        /\ accepted \subseteq Requests /\ raced \in BOOLEAN
    BY DEF Init
  <2>4. /\ wpc \in [Workers -> WorkerPcs] /\ wtask \in [Workers -> Requests \cup {NoTask}]
        /\ \A w \in Workers : wpc[w] \in Busy => wtask[w] \in Requests
    BY DEF Init, WorkerPcs, Busy
  <2>5. tsk_queue \in Seq(Requests)
    BY DEF Init
  <2> QED BY <2>1, <2>2, <2>3, <2>4, <2>5 DEF TypeOK
<1>2. CountBound
  BY CountedIsSmall DEF Init, CountBound
<1>3. OnePlace
  BY ServerConstants DEF Init, OnePlace, Queued, Busy
<1>4. IdsApart /\ FileInHand /\ ResultBeforeDone
  BY DEF Init, IdsApart, Counted, FileInHand, ResultBeforeDone
<1>5. PollKnown /\ KnownJobAnswered
  BY DEF Init, PollKnown, KnownJobAnswered
<1>6. Leaving /\ Kept
  BY DEF Init, Leaving, Kept
<1> QED BY <1>1, <1>2, <1>3, <1>4, <1>5, <1>6 DEF IInv

LEMMA TypeStep == TypeOK /\ CountBound /\ [Next]_vars => TypeOK'
<1> SUFFICES ASSUME TypeOK, CountBound, [Next]_vars PROVE TypeOK'
  OBVIOUS
<1> USE IdsAreNat
<1>1. CASE Start \/ SetFlag \/ Joined
  BY <1>1 DEF TypeOK, Start, SetFlag, Joined, handlerVars, workerVars, WorkerPcs, Busy
<1>2. ASSUME NEW r \in Requests, NEW k \in {"good", "bad"}, Arrive(r, k) PROVE TypeOK'
  BY <1>2 DEF TypeOK, Arrive, Goto, workerVars, HandlerPcs
<1>3. ASSUME NEW r \in Requests, CountLoad(r) \/ CountRead(r) \/ Check(r) \/ Reply(r)
      PROVE  TypeOK'
  <2>1. rpc' \in [Requests -> HandlerPcs]
    BY <1>3 DEF TypeOK, CountLoad, CountRead, Check, Reply, Goto, HandlerPcs
  <2>2. /\ loaded' \in [Requests -> Ids] /\ job_id' \in [Requests -> Ids]
        /\ raced' \in BOOLEAN
    <3>1. CASE CountLoad(r)
      BY <3>1 DEF TypeOK, CountLoad
    <3>2. CASE CountRead(r)
      BY <3>2 DEF TypeOK, CountRead
    <3>3. CASE Check(r) \/ Reply(r)
      BY <3>3 DEF TypeOK, Check, Reply
    <3> QED BY <1>3, <3>1, <3>2, <3>3
  <2>3. UNCHANGED <<server, job_counter, kind, accepted, tsk_queue, jobs, file,
                    shutdown_flag, wpc, wtask, spc, poll>>
    BY <1>3 DEF CountLoad, CountRead, Check, Reply, workerVars
  <2> QED BY <2>1, <2>2, <2>3 DEF TypeOK
<1>4. ASSUME NEW r \in Requests, CountStore(r) PROVE TypeOK'
  <2>1. rpc[r] = "store" /\ r \notin Counted
    BY <1>4 DEF CountStore, Goto, Counted
  <2>2. loaded[r] \in Nat /\ loaded[r] <= Cardinality(Counted)
    BY <2>1 DEF CountBound, TypeOK
  <2>3. Cardinality(Counted) \in Nat /\ Cardinality(Counted) + 1 <= Cardinality(Requests)
    BY <2>1, CountedRoom
  <2>4. loaded[r] + 1 \in Ids
    BY <2>2, <2>3 DEF Ids
  <2> QED BY <1>4, <2>4 DEF TypeOK, CountStore, Goto, workerVars, HandlerPcs
<1>5. ASSUME NEW r \in Requests, Put(r) \/ Register(r) PROVE TypeOK'
  <2>1. CASE Put(r)
    <3>1. tsk_queue' \in Seq(Requests) /\ accepted' \subseteq Requests
      BY <2>1 DEF TypeOK, Put
    <3> QED BY <2>1, <3>1 DEF TypeOK, Put, Goto, workerVars, HandlerPcs
  <2>2. CASE Register(r)
    BY <2>2 DEF TypeOK, Register, Goto, workerVars, HandlerPcs
  <2> QED BY <1>5, <2>1, <2>2
<1>6. ASSUME NEW w \in Workers, Leave(w) \/ See(w) \/ Calculate(w) PROVE TypeOK'
  BY <1>6 DEF TypeOK, Leave, See, Calculate, WGoto, handlerVars, WorkerPcs, Busy
<1>7. ASSUME NEW w \in Workers, Get(w) PROVE TypeOK'
  <2>1. Head(tsk_queue) \in Requests /\ Tail(tsk_queue) \in Seq(Requests)
    BY <1>7 DEF Get, TypeOK
  <2> QED BY <1>7, <2>1 DEF TypeOK, Get, WGoto, handlerVars, WorkerPcs, Busy
<1>8. ASSUME NEW w \in Workers, Open(w) \/ Dump(w) \/ Mark(w) PROVE TypeOK'
  <2>1. CASE Open(w)
    BY <2>1 DEF TypeOK, Open, WGoto, handlerVars, WorkerPcs, Busy
  <2>2. CASE Dump(w)
    BY <2>2 DEF TypeOK, Dump, WGoto, handlerVars, WorkerPcs, Busy
  <2>3. CASE Mark(w)
    BY <2>3 DEF TypeOK, Mark, WGoto, handlerVars, WorkerPcs, Busy
  <2> QED BY <1>8, <2>1, <2>2, <2>3
<1>9. ASSUME NEW p \in Pollers, PollStatus(p) \/ PollFile(p) PROVE TypeOK'
  <2> DEFINE Rec == [pc : {"idle", "status", "file"}, id : Ids, answer : Answers,
                     known : BOOLEAN]
  <2>1. jobs[poll[p].id] \in {"absent", "running", "done"}
    BY DEF TypeOK
  <2>2. poll \in [Pollers -> Rec] /\ poll[p] \in Rec
    BY DEF TypeOK
  <2>3. ASSUME PollStatus(p) PROVE poll' \in [Pollers -> Rec]
    <3>1. PICK c \in {"file", "idle"}, a \in Answers :
            poll' = [poll EXCEPT ![p].pc = c, ![p].answer = a]
      BY <2>1, <2>3 DEF PollStatus, Answers
    <3> QED BY <2>2, <3>1
  <2>4. ASSUME PollFile(p) PROVE poll' \in [Pollers -> Rec]
    <3>1. PICK a \in Answers : poll' = [poll EXCEPT ![p].pc = "idle", ![p].answer = a]
      BY <2>4 DEF PollFile, Answers
    <3> QED BY <2>2, <3>1
  <2>5. UNCHANGED <<server, handlerVars, tsk_queue, jobs, shutdown_flag, workerVars, spc>>
    BY <1>9 DEF PollStatus, PollFile
  <2> QED BY <1>9, <2>3, <2>4, <2>5 DEF TypeOK, handlerVars, workerVars
<1>10. ASSUME NEW p \in Pollers, NEW i \in Ids, PollId(p, i) PROVE TypeOK'
  BY <1>10 DEF TypeOK, PollId, handlerVars, workerVars, Answers
<1>11. CASE UNCHANGED vars
  BY <1>11 DEF TypeOK, vars, Busy
<1> QED BY <1>1, <1>2, <1>3, <1>4, <1>5, <1>6, <1>7, <1>8, <1>9, <1>10, <1>11
        DEF Next, HandlerStep, WorkerStep, PollerStep

LEMMA CountBoundStep == TypeOK /\ CountBound /\ [Next]_vars => CountBound'
<1> SUFFICES ASSUME TypeOK, CountBound, [Next]_vars PROVE CountBound'
  OBVIOUS
<1>1. ASSUME UNCHANGED <<job_counter, loaded, rpc>> PROVE CountBound'
  <2>1. Counted' = Counted
    BY <1>1 DEF Counted
  <2> QED BY <1>1, <2>1 DEF CountBound
<1>2. ASSUME NEW r \in Requests, CountLoad(r) PROVE CountBound'
  <2>1. Counted' = Counted /\ r \in Requests
    BY <1>2 DEF CountLoad, Goto, Counted, TypeOK
  <2>2. \A s \in Requests : rpc'[s] = "store" => loaded'[s] <= Cardinality(Counted)
    BY <1>2 DEF CountLoad, Goto, CountBound, TypeOK
  <2> QED BY <1>2, <2>1, <2>2 DEF CountLoad, CountBound
<1>3. ASSUME NEW r \in Requests, CountStore(r) PROVE CountBound'
  <2>1. r \notin Counted /\ Counted' = Counted \cup {r}
    BY <1>3 DEF CountStore, Goto, Counted, TypeOK
  <2>2. Cardinality(Counted') = Cardinality(Counted) + 1 /\ Cardinality(Counted) \in Nat
    BY <2>1, CountedRoom
  <2>3. loaded[r] <= Cardinality(Counted) /\ loaded[r] \in Nat
    BY <1>3, IdsAreNat DEF CountStore, Goto, CountBound, TypeOK
  <2>4. ASSUME NEW s \in Requests, rpc'[s] = "store"
        PROVE  loaded'[s] <= Cardinality(Counted')
    <3>1. rpc[s] = "store" /\ loaded'[s] = loaded[s] /\ loaded[s] \in Nat
      BY <1>3, <2>4, IdsAreNat DEF CountStore, Goto, TypeOK
    <3>2. loaded[s] <= Cardinality(Counted)
      BY <3>1 DEF CountBound
    <3> QED BY <2>2, <3>1, <3>2
  <2>5. job_counter' = loaded[r] + 1
    BY <1>3 DEF CountStore
  <2> QED BY <2>2, <2>3, <2>4, <2>5 DEF CountBound
<1>4. ASSUME NEW r \in Requests,
             \/ CountRead(r) \/ Check(r) \/ Put(r) \/ Register(r) \/ Reply(r)
             \/ \E k \in {"good", "bad"} : Arrive(r, k)
      PROVE  CountBound'
  <2>1. /\ UNCHANGED <<job_counter, loaded>>
        /\ Counted' = Counted
        /\ \A s \in Requests : rpc'[s] = "store" => rpc[s] = "store"
    BY <1>4 DEF CountRead, Check, Put, Register, Reply, Arrive, Goto, Counted, TypeOK
  <2> QED BY <2>1 DEF CountBound
<1>5. ASSUME NEW w \in Workers, WorkerStep(w) PROVE UNCHANGED handlerVars
  BY <1>5 DEF WorkerStep, Leave, See, Get, Calculate, Open, Dump, Mark
<1>6. ASSUME NEW p \in Pollers, PollerStep(p) \/ \E i \in Ids : PollId(p, i)
      PROVE  UNCHANGED handlerVars
  BY <1>6 DEF PollerStep, PollStatus, PollFile, PollId
<1>7. CASE Start \/ SetFlag \/ Joined \/ UNCHANGED vars
  BY <1>1, <1>7 DEF Start, SetFlag, Joined, handlerVars, vars
<1> QED BY <1>1, <1>2, <1>3, <1>4, <1>5, <1>6, <1>7 DEF Next, HandlerStep, handlerVars
---------------------------------------------------------------------------
(* The queue.                                                              *)

LEMMA PutIs ==
  ASSUME TypeOK, NEW r \in Requests, Put(r)
  PROVE  /\ Len(tsk_queue') = Len(tsk_queue) + 1
         /\ \A i \in 1 .. Len(tsk_queue) : tsk_queue'[i] = tsk_queue[i]
         /\ tsk_queue'[Len(tsk_queue) + 1] = r
         /\ \A s : Queued(s)' <=> Queued(s) \/ s = r
<1>1. /\ tsk_queue \in Seq(Requests)
      /\ tsk_queue' = Append(tsk_queue, r)
  BY DEF TypeOK, Put
<1>2. /\ Len(tsk_queue') = Len(tsk_queue) + 1
      /\ \A i \in 1 .. Len(tsk_queue) : tsk_queue'[i] = tsk_queue[i]
      /\ tsk_queue'[Len(tsk_queue) + 1] = r
  BY <1>1
<1>3. ASSUME NEW s PROVE Queued(s)' <=> Queued(s) \/ s = r
  <2>1. Len(tsk_queue) \in Nat
    BY <1>1
  <2> QED BY <1>2, <2>1 DEF Queued
<1> QED BY <1>2, <1>3

LEMMA GetIs ==
  ASSUME TypeOK, OnePlace, NEW w \in Workers, Get(w)
  PROVE  /\ Queued(Head(tsk_queue)) /\ Head(tsk_queue) \in Requests
         /\ Len(tsk_queue') = Len(tsk_queue) - 1
         /\ \A i \in 1 .. Len(tsk_queue) - 1 : tsk_queue'[i] = tsk_queue[i + 1]
         /\ \A s : Queued(s)' <=> Queued(s) /\ s # Head(tsk_queue)
<1>1. /\ tsk_queue \in Seq(Requests) /\ tsk_queue # <<>>
      /\ tsk_queue' = Tail(tsk_queue)
  BY DEF TypeOK, Get
<1>2. /\ Len(tsk_queue) \in Nat /\ Len(tsk_queue) > 0
      /\ Head(tsk_queue) = tsk_queue[1] /\ Head(tsk_queue) \in Requests
      /\ Len(tsk_queue') = Len(tsk_queue) - 1
      /\ \A i \in 1 .. Len(tsk_queue) - 1 : tsk_queue'[i] = tsk_queue[i + 1]
  BY <1>1
<1>3. Queued(Head(tsk_queue))
  BY <1>2 DEF Queued
<1>4. ASSUME NEW s PROVE Queued(s)' <=> Queued(s) /\ s # Head(tsk_queue)
  <2>1. ASSUME Queued(s)' PROVE Queued(s) /\ s # Head(tsk_queue)
    <3>1. PICK i \in 1 .. Len(tsk_queue) - 1 : tsk_queue[i + 1] = s
      BY <1>2, <2>1 DEF Queued
    <3>2. i + 1 \in 1 .. Len(tsk_queue) /\ i + 1 # 1 /\ 1 \in 1 .. Len(tsk_queue)
      BY <1>2
    <3>3. tsk_queue[i + 1] # tsk_queue[1]
      BY <3>2 DEF OnePlace
    <3> QED BY <1>2, <3>1, <3>2, <3>3 DEF Queued
  <2>2. ASSUME Queued(s), s # Head(tsk_queue) PROVE Queued(s)'
    <3>1. PICK i \in 1 .. Len(tsk_queue) : tsk_queue[i] = s
      BY <2>2 DEF Queued
    <3>2. i # 1 /\ i - 1 \in 1 .. Len(tsk_queue) - 1
      BY <1>2, <2>2, <3>1
    <3>3. tsk_queue'[i - 1] = tsk_queue[(i - 1) + 1]
      BY <1>2, <3>2
    <3> QED BY <1>2, <3>1, <3>2, <3>3 DEF Queued
  <2> QED BY <2>1, <2>2
<1> QED BY <1>2, <1>3, <1>4
---------------------------------------------------------------------------
(* A task in one place.                                                    *)

(* What has been put stays put; before that, a handler's own step.         *)
LEMMA SubmittedStays ==
  ASSUME TypeOK, [Next]_vars
  PROVE  Submitted \subseteq Submitted'
<1> SUFFICES ASSUME NEW r \in Submitted PROVE r \in Submitted'
  OBVIOUS
<1>1. ASSUME NEW q \in Requests,
             HandlerStep(q) \/ \E k \in {"good", "bad"} : Arrive(q, k)
      PROVE  r \in Submitted'
  BY <1>1 DEF HandlerStep, CountLoad, CountStore, CountRead, Check, Put, Register, Reply,
              Arrive, Goto, Submitted, TypeOK
<1>2. ASSUME UNCHANGED rpc PROVE r \in Submitted'
  BY <1>2 DEF Submitted
<1>3. ASSUME NEW w \in Workers, WorkerStep(w) PROVE UNCHANGED rpc
  BY <1>3 DEF WorkerStep, Leave, See, Get, Calculate, Open, Dump, Mark, handlerVars
<1>4. ASSUME NEW p \in Pollers, PollerStep(p) \/ \E i \in Ids : PollId(p, i)
      PROVE  UNCHANGED rpc
  BY <1>4 DEF PollerStep, PollStatus, PollFile, PollId, handlerVars
<1>5. CASE Start \/ SetFlag \/ Joined \/ UNCHANGED vars
  BY <1>2, <1>5 DEF Start, SetFlag, Joined, handlerVars, vars
<1> QED BY <1>1, <1>2, <1>3, <1>4, <1>5 DEF Next

(* Steps that leave the queue alone and give no thread a task.             *)
LEMMA OnePlaceKept ==
  ASSUME TypeOK, TypeOK', OnePlace, UNCHANGED tsk_queue,
         Submitted \subseteq Submitted',
         \A w \in Workers : wpc'[w] \in Busy => wpc[w] \in Busy /\ wtask'[w] = wtask[w],
         \A i \in Ids : file'[i] \in Requests => file'[i] = file[i] \/ Running(file'[i]),
         \A p \in Pollers : poll'[p].answer \in Requests =>
           poll'[p].answer = poll[p].answer \/ poll'[p].answer \in Submitted
  PROVE  OnePlace'
<1>1. ASSUME NEW r \in Requests, Running(r) PROVE r \in Submitted /\ ~Queued(r)
  BY <1>1 DEF Running, OnePlace
<1>2. \A r : Queued(r)' <=> Queued(r)
  BY DEF Queued
<1>3. ASSUME NEW r \in Requests, Queued(r)
      PROVE  r \in Submitted' /\ ~Running(r)' /\ \A i \in Ids : file'[i] # r
  <2>1. r \in Submitted /\ ~Running(r) /\ \A i \in Ids : file[i] # r
    BY <1>3 DEF OnePlace
  <2>2. ~Running(r)'
    BY <2>1 DEF Running
  <2> QED BY <2>1, <2>2
<1>4. \A w \in Workers : wpc'[w] \in Busy => wtask'[w] \in Submitted'
  BY DEF OnePlace, TypeOK
<1>5. \A v, w \in Workers :
        wpc'[v] \in Busy /\ wpc'[w] \in Busy /\ wtask'[v] = wtask'[w] => v = w
  BY DEF OnePlace
<1>6. ASSUME NEW i \in Ids, file'[i] \in Requests PROVE file'[i] \in Submitted'
  BY <1>1, <1>6 DEF OnePlace
<1>7. \A p \in Pollers : poll'[p].answer \in Requests => poll'[p].answer \in Submitted'
  BY DEF OnePlace
<1>8. \A i, j \in 1 .. Len(tsk_queue') : tsk_queue'[i] = tsk_queue'[j] => i = j
  BY DEF OnePlace
<1> QED BY <1>2, <1>3, <1>4, <1>5, <1>6, <1>7, <1>8 DEF OnePlace, Submitted

LEMMA OnePlaceStep == TypeOK /\ TypeOK' /\ OnePlace /\ [Next]_vars => OnePlace'
<1> SUFFICES ASSUME TypeOK, TypeOK', OnePlace, [Next]_vars PROVE OnePlace'
  OBVIOUS
<1>1. Submitted \subseteq Submitted'
  BY SubmittedStays
<1>2. ASSUME UNCHANGED <<tsk_queue, file, poll>>,
             \A w \in Workers : wpc'[w] \in Busy => wpc[w] \in Busy /\ wtask'[w] = wtask[w]
      PROVE  OnePlace'
  BY <1>1, <1>2, OnePlaceKept DEF OnePlace
<1>3. ASSUME NEW r \in Requests,
             \/ CountLoad(r) \/ CountStore(r) \/ CountRead(r) \/ Check(r) \/ Register(r)
             \/ Reply(r) \/ \E k \in {"good", "bad"} : Arrive(r, k)
      PROVE  OnePlace'
  BY <1>2, <1>3 DEF CountLoad, CountStore, CountRead, Check, Register, Reply, Arrive,
                    workerVars
<1>4. ASSUME NEW r \in Requests, Put(r) PROVE OnePlace'
  <2>1. /\ r \notin Submitted /\ r \in Submitted'
        /\ UNCHANGED <<wpc, wtask, file, poll>>
    BY <1>4 DEF Put, Goto, Submitted, TypeOK, workerVars
  <2>2. /\ ~Queued(r) /\ ~Running(r) /\ \A i \in Ids : file[i] # r
    BY <2>1 DEF OnePlace, Running
  <2>3. \A s : Running(s)' <=> Running(s)
    BY <2>1 DEF Running
  <2>4. ASSUME NEW s \in Requests, Queued(s)'
        PROVE  s \in Submitted' /\ ~Running(s)' /\ \A i \in Ids : file'[i] # s
    BY <1>1, <1>4, <2>1, <2>2, <2>3, <2>4, PutIs DEF OnePlace
  <2>5. \A i, j \in 1 .. Len(tsk_queue') : tsk_queue'[i] = tsk_queue'[j] => i = j
    <3>1. /\ Len(tsk_queue') = Len(tsk_queue) + 1 /\ Len(tsk_queue) \in Nat
          /\ \A i \in 1 .. Len(tsk_queue) : tsk_queue'[i] = tsk_queue[i]
          /\ tsk_queue'[Len(tsk_queue) + 1] = r
      BY <1>4, PutIs DEF TypeOK
    <3>2. \A i \in 1 .. Len(tsk_queue) : tsk_queue[i] # r
      BY <2>2 DEF Queued
    <3> QED BY <3>1, <3>2 DEF OnePlace
  <2>6. \A w \in Workers : wpc'[w] \in Busy => wtask'[w] \in Submitted'
    BY <1>1, <2>1 DEF OnePlace, TypeOK
  <2>7. /\ \A i \in Ids : file'[i] \in Requests => file'[i] \in Submitted'
        /\ \A p \in Pollers : poll'[p].answer \in Requests => poll'[p].answer \in Submitted'
    BY <1>1, <2>1 DEF OnePlace
  <2> QED BY <2>1, <2>4, <2>5, <2>6, <2>7 DEF OnePlace, Submitted
<1>5. ASSUME NEW w \in Workers, Leave(w) \/ See(w) \/ Calculate(w) \/ Mark(w)
      PROVE  OnePlace'
  BY <1>2, <1>5 DEF Leave, See, Calculate, Mark, WGoto, Busy, TypeOK
<1>6. ASSUME NEW w \in Workers, Get(w) PROVE OnePlace'
  <2> DEFINE r == Head(tsk_queue)
  <2>1. /\ r \in Requests /\ Queued(r) /\ r \in Submitted
        /\ ~Running(r) /\ \A i \in Ids : file[i] # r
    BY <1>6, GetIs DEF OnePlace
  <2>2. /\ UNCHANGED <<rpc, file, poll>>
        /\ wpc'[w] = "calculate" /\ wtask'[w] = r
        /\ \A v \in Workers \ {w} : wpc'[v] = wpc[v] /\ wtask'[v] = wtask[v]
    BY <1>6 DEF Get, WGoto, TypeOK, handlerVars
  <2>3. \A s : Queued(s)' <=> Queued(s) /\ s # r
    BY <1>6, GetIs
  <2>4. \A s : Running(s)' => Running(s) \/ s = r
    BY <2>2 DEF Running
  <2> HIDE DEF r
  <2>5. ASSUME NEW s \in Requests, Queued(s)'
        PROVE  s \in Submitted' /\ ~Running(s)' /\ \A i \in Ids : file'[i] # s
    BY <2>2, <2>3, <2>4, <2>5 DEF OnePlace, Submitted
  <2>6. \A i, j \in 1 .. Len(tsk_queue') : tsk_queue'[i] = tsk_queue'[j] => i = j
    <3>1. /\ Len(tsk_queue') = Len(tsk_queue) - 1 /\ Len(tsk_queue) \in Nat
          /\ \A i \in 1 .. Len(tsk_queue) - 1 : tsk_queue'[i] = tsk_queue[i + 1]
      BY <1>6, GetIs DEF TypeOK
    <3>2. SUFFICES ASSUME NEW i \in 1 .. Len(tsk_queue) - 1,
                          NEW j \in 1 .. Len(tsk_queue) - 1, tsk_queue'[i] = tsk_queue'[j]
                   PROVE  i = j
      BY <3>1
    <3>3. i + 1 \in 1 .. Len(tsk_queue) /\ j + 1 \in 1 .. Len(tsk_queue)
      BY <3>1
    <3>4. i + 1 = j + 1
      BY <3>1, <3>2, <3>3 DEF OnePlace
    <3> QED BY <3>4
  <2>7. \A v \in Workers : wpc'[v] \in Busy => wtask'[v] \in Submitted'
    BY <2>1, <2>2 DEF OnePlace, Submitted
  <2>8. \A u, v \in Workers :
          wpc'[u] \in Busy /\ wpc'[v] \in Busy /\ wtask'[u] = wtask'[v] => u = v
    <3>1. \A v \in Workers : wpc[v] \in Busy => wtask[v] # r
      BY <2>1 DEF Running
    <3> QED BY <2>2, <3>1 DEF OnePlace
  <2>9. /\ \A i \in Ids : file'[i] \in Requests => file'[i] \in Submitted'
        /\ \A p \in Pollers : poll'[p].answer \in Requests => poll'[p].answer \in Submitted'
    BY <2>2 DEF OnePlace, Submitted
  <2> QED BY <2>5, <2>6, <2>7, <2>8, <2>9 DEF OnePlace, Submitted
<1>7. ASSUME NEW w \in Workers, Open(w) \/ Dump(w) PROVE OnePlace'
  <2>1. /\ UNCHANGED <<tsk_queue, wtask, poll>> /\ wpc[w] \in Busy
        /\ \A v \in Workers : wpc'[v] \in Busy => wpc[v] \in Busy
    BY <1>7 DEF Open, Dump, WGoto, Busy, TypeOK
  <2>2. ASSUME NEW i \in Ids, file'[i] \in Requests
        PROVE  file'[i] = file[i] \/ Running(file'[i])
    <3>1. file'[i] \in {file[i], "partial", "mixed", wtask[w]}
      BY <1>7 DEF Open, Dump, TypeOK
    <3> QED BY <2>1, <2>2, <3>1, ServerConstants DEF Running
  <2> QED BY <1>1, <2>1, <2>2, OnePlaceKept DEF OnePlace
<1>8. ASSUME NEW p \in Pollers, PollerStep(p) \/ \E i \in Ids : PollId(p, i)
      PROVE  OnePlace'
  <2>1. UNCHANGED <<tsk_queue, file, wpc, wtask>>
    BY <1>8 DEF PollerStep, PollStatus, PollFile, PollId, workerVars
  <2>2. ASSUME NEW q \in Pollers, poll'[q].answer \in Requests
        PROVE  poll'[q].answer = poll[q].answer \/ poll'[q].answer \in Submitted
    <3>1. CASE q # p
      BY <1>8, <3>1 DEF PollerStep, PollStatus, PollFile, PollId, TypeOK
    <3>2. CASE q = p /\ PollFile(p)
      <4>1. poll[p].id \in Ids /\ poll'[p].answer \in {file[poll[p].id], "error"}
        BY <3>2 DEF PollFile, TypeOK
      <4> QED BY <2>2, <3>2, <4>1, ServerConstants DEF OnePlace
    <3>3. CASE q = p /\ PollStatus(p)
      <4>1. jobs[poll[p].id] \in {"absent", "running", "done"}
        BY DEF TypeOK
      <4>2. poll'[p].answer \in {"error", "running", "none"}
        BY <3>3, <4>1 DEF PollStatus, TypeOK
      <4> QED BY <2>2, <3>3, <4>2, ServerConstants
    <3>4. CASE q = p /\ \E i \in Ids : PollId(p, i)
      <4>1. poll'[p].answer \in {"invalid", "none"}
        BY <3>4 DEF PollId, TypeOK
      <4> QED BY <2>2, <3>4, <4>1, ServerConstants
    <3> QED BY <1>8, <3>1, <3>2, <3>3, <3>4 DEF PollerStep
  <2> QED BY <1>1, <2>1, <2>2, OnePlaceKept DEF OnePlace
<1>9. CASE Start \/ SetFlag \/ Joined \/ UNCHANGED vars
  BY <1>2, <1>9 DEF Start, SetFlag, Joined, workerVars, vars, Busy, TypeOK
<1> QED BY <1>3, <1>4, <1>5, <1>6, <1>7, <1>8, <1>9 DEF Next, HandlerStep, WorkerStep
---------------------------------------------------------------------------
(* The ids.                                                                *)

LEMMA IdsApartStep == TypeOK /\ IdsApart /\ [Next]_vars => IdsApart'
<1> SUFFICES ASSUME TypeOK, IdsApart, [Next]_vars, ~raced'
             PROVE  /\ \A r \in Counted' : loaded'[r] < job_counter'
                    /\ \A r, s \in Counted' : loaded'[r] = loaded'[s] => r = s
                    /\ \A r \in Counted' : rpc'[r] # "read" => job_id'[r] = loaded'[r] + 1
  BY DEF IdsApart
<1> DEFINE Goal ==
      /\ \A r \in Counted' : loaded'[r] < job_counter'
      /\ \A r, s \in Counted' : loaded'[r] = loaded'[s] => r = s
      /\ \A r \in Counted' : rpc'[r] # "read" => job_id'[r] = loaded'[r] + 1
           Before ==
      /\ \A r \in Counted : loaded[r] < job_counter
      /\ \A r, s \in Counted : loaded[r] = loaded[s] => r = s
      /\ \A r \in Counted : rpc[r] # "read" => job_id[r] = loaded[r] + 1
<1>1. ASSUME UNCHANGED <<job_counter, loaded, job_id, rpc, raced>> PROVE Goal
  <2>1. Counted' = Counted
    BY <1>1 DEF Counted
  <2> QED BY <1>1, <2>1 DEF IdsApart
<1>2. ASSUME NEW r \in Requests, CountLoad(r) PROVE Goal
  <2>1. Before
    BY <1>2 DEF IdsApart, CountLoad
  <2>2. r \notin Counted /\ Counted' = Counted /\ \A s \in Counted : loaded'[s] = loaded[s]
    BY <1>2 DEF CountLoad, Goto, Counted, TypeOK
  <2>3. UNCHANGED <<job_counter, job_id>> /\ \A s \in Counted : rpc'[s] = rpc[s]
    BY <1>2, <2>2 DEF CountLoad, Goto, Counted, TypeOK
  <2> QED BY <2>1, <2>2, <2>3
<1>3. ASSUME NEW r \in Requests, CountStore(r) PROVE Goal
  <2>1. Before /\ job_counter = loaded[r]
    BY <1>3 DEF IdsApart, CountStore, TypeOK
  <2>2. r \notin Counted /\ Counted' = Counted \cup {r} /\ rpc'[r] = "read"
    BY <1>3 DEF CountStore, Goto, Counted, TypeOK
  <2>3. UNCHANGED <<loaded, job_id>> /\ \A s \in Counted : rpc'[s] = rpc[s]
    BY <1>3, <2>2 DEF CountStore, Goto, Counted, TypeOK
  <2>4. job_counter' = loaded[r] + 1 /\ loaded[r] \in Nat
    BY <1>3, IdsAreNat DEF CountStore, TypeOK
  <2>5. \A s \in Counted : loaded[s] \in Nat
    BY IdsAreNat DEF Counted, TypeOK
  <2> QED BY <2>1, <2>2, <2>3, <2>4, <2>5
<1>4. ASSUME NEW r \in Requests, CountRead(r) PROVE Goal
  <2>1. Before /\ job_counter = loaded[r] + 1
    BY <1>4 DEF IdsApart, CountRead, TypeOK
  <2>2. /\ Counted' = Counted
        /\ UNCHANGED <<loaded, job_counter>> /\ job_id'[r] = job_counter
        /\ \A s \in Counted \ {r} : rpc'[s] = rpc[s] /\ job_id'[s] = job_id[s]
    BY <1>4 DEF CountRead, Goto, Counted, TypeOK
  <2> QED BY <2>1, <2>2
<1>5. ASSUME NEW r \in Requests,
             \/ Check(r) \/ Put(r) \/ Register(r) \/ Reply(r)
             \/ \E k \in {"good", "bad"} : Arrive(r, k)
      PROVE  Goal
  <2>1. Before
    BY <1>5 DEF IdsApart, Check, Put, Register, Reply, Arrive
  <2>2. /\ UNCHANGED <<loaded, job_counter, job_id>> /\ Counted' = Counted
        /\ \A s \in Counted : rpc[s] = "read" => rpc'[s] = "read"
    BY <1>5 DEF Check, Put, Register, Reply, Arrive, Goto, Counted, TypeOK
  <2> QED BY <2>1, <2>2
<1>6. ASSUME NEW w \in Workers, WorkerStep(w) PROVE UNCHANGED handlerVars
  BY <1>6 DEF WorkerStep, Leave, See, Get, Calculate, Open, Dump, Mark
<1>7. ASSUME NEW p \in Pollers, PollerStep(p) \/ \E i \in Ids : PollId(p, i)
      PROVE  UNCHANGED handlerVars
  BY <1>7 DEF PollerStep, PollStatus, PollFile, PollId
<1>8. CASE Start \/ SetFlag \/ Joined \/ UNCHANGED vars
  BY <1>1, <1>8 DEF Start, SetFlag, Joined, handlerVars, vars
<1> QED BY <1>1, <1>2, <1>3, <1>4, <1>5, <1>6, <1>7, <1>8 DEF Next, HandlerStep, handlerVars

(* Without a race two tasks that have been put have different ids.         *)
LEMMA OwnId ==
  ASSUME TypeOK, IdsApart, ~raced, NEW r \in Submitted, NEW s \in Submitted,
         job_id[r] = job_id[s]
  PROVE  r = s
<1>1. r \in Counted /\ rpc[r] # "read" /\ s \in Counted /\ rpc[s] # "read"
  BY DEF Submitted, Counted
<1>2. loaded[r] \in Nat /\ loaded[s] \in Nat
  BY <1>1, IdsAreNat DEF TypeOK, Counted
<1>3. loaded[r] + 1 = loaded[s] + 1
  BY <1>1 DEF IdsApart
<1> QED BY <1>1, <1>2, <1>3 DEF IdsApart

(* The id of a task that has been put is not assigned again.               *)
LEMMA JobIdStays ==
  ASSUME TypeOK, [Next]_vars
  PROVE  /\ \A r \in Submitted : job_id'[r] = job_id[r]
         /\ ~raced' => ~raced
<1> DEFINE Goal == /\ \A r \in Submitted : job_id'[r] = job_id[r]
                   /\ ~raced' => ~raced
<1>1. ASSUME NEW r \in Requests,
             HandlerStep(r) \/ \E k \in {"good", "bad"} : Arrive(r, k)
      PROVE  Goal
  BY <1>1 DEF HandlerStep, CountLoad, CountStore, CountRead, Check, Put, Register, Reply,
              Arrive, Goto, Submitted, TypeOK
<1>2. ASSUME UNCHANGED <<job_id, raced>> PROVE Goal
  BY <1>2
<1>3. ASSUME NEW w \in Workers, WorkerStep(w) PROVE UNCHANGED <<job_id, raced>>
  BY <1>3 DEF WorkerStep, Leave, See, Get, Calculate, Open, Dump, Mark, handlerVars
<1>4. ASSUME NEW p \in Pollers, PollerStep(p) \/ \E i \in Ids : PollId(p, i)
      PROVE  UNCHANGED <<job_id, raced>>
  BY <1>4 DEF PollerStep, PollStatus, PollFile, PollId, handlerVars
<1>5. CASE Start \/ SetFlag \/ Joined \/ UNCHANGED vars
  BY <1>2, <1>5 DEF Start, SetFlag, Joined, handlerVars, vars
<1> QED BY <1>1, <1>2, <1>3, <1>4, <1>5 DEF Next
---------------------------------------------------------------------------
(* Results.                                                                *)

Results == FileInHand /\ ResultBeforeDone

(* What a thread of the pool has in hand.                                  *)
LEMMA InHand ==
  ASSUME TypeOK, OnePlace, NEW w \in Workers, wpc[w] \in Busy
  PROVE  /\ wtask[w] \in Requests /\ wtask[w] \in Submitted /\ job_id[wtask[w]] \in Ids
         /\ Running(wtask[w]) /\ ~Queued(wtask[w])
<1>1. wtask[w] \in Submitted /\ wtask[w] \in Requests
  BY DEF OnePlace, Submitted
<1>2. Running(wtask[w])
  BY DEF Running
<1> QED BY <1>1, <1>2 DEF OnePlace, TypeOK

LEMMA ResultsStep ==
  ASSUME TypeOK, OnePlace, IdsApart, Results, [Next]_vars
  PROVE  Results'
<1> SUFFICES ASSUME ~raced' PROVE Results'
  BY DEF Results, FileInHand, ResultBeforeDone
<1>1. /\ ~raced
      /\ \A r \in Submitted : job_id'[r] = job_id[r]
  BY JobIdStays
<1> DEFINE Hand(w) ==
      /\ wpc[w] \in {"calculate", "open"} => file[job_id[wtask[w]]] # wtask[w]
      /\ wpc[w] = "dump" => file[job_id[wtask[w]]] = "partial"
      /\ wpc[w] = "mark" => file[job_id[wtask[w]]] = wtask[w]
           Done(i) ==
      jobs[i] = "done" => \E r \in Requests : job_id[r] = i /\ file[i] = r
<1>2. (\A w \in Workers : Hand(w)) /\ (\A i \in Ids : Done(i))
  BY <1>1 DEF Results, FileInHand, ResultBeforeDone
<1>3. SUFFICES (\A w \in Workers : Hand(w)') /\ (\A i \in Ids : Done(i)')
  BY DEF Results, FileInHand, ResultBeforeDone
<1>4. \A i \in Ids : file[i] \in Requests => file[i] \in Submitted /\ job_id'[file[i]] = job_id[file[i]]
  BY <1>1 DEF OnePlace
(* A thread whose own step this is not, and whose file nobody writes.      *)
<1>5. ASSUME NEW w \in Workers, wpc'[w] = wpc[w], wtask'[w] = wtask[w],
             wpc[w] \in Busy => file'[job_id[wtask[w]]] = file[job_id[wtask[w]]]
      PROVE  Hand(w)'
  <2>1. CASE wpc[w] \in Busy
    <3>1. job_id'[wtask[w]] = job_id[wtask[w]]
      BY <1>1, <2>1, InHand
    <3> QED BY <1>2, <1>5, <2>1, <3>1
  <2>2. CASE wpc[w] \notin Busy
    BY <1>5, <2>2 DEF Busy
  <2> QED BY <2>1, <2>2
<1>6. ASSUME NEW i \in Ids, file'[i] = file[i], jobs'[i] = "done" => jobs[i] = "done"
      PROVE  Done(i)'
  <2> SUFFICES ASSUME jobs'[i] = "done"
               PROVE  \E r \in Requests : job_id'[r] = i /\ file'[i] = r
    OBVIOUS
  <2>1. PICK r \in Requests : job_id[r] = i /\ file[i] = r
    BY <1>2, <1>6
  <2> QED BY <1>4, <1>6, <2>1
<1>7. ASSUME UNCHANGED <<jobs, file, wpc, wtask>>
      PROVE  (\A w \in Workers : Hand(w)') /\ (\A i \in Ids : Done(i)')
  BY <1>5, <1>6, <1>7
<1>8. CASE Start
  <2>1. ASSUME NEW w \in Workers PROVE Hand(w)'
    <3>1. CASE UNCHANGED wpc
      BY <1>5, <1>8, <3>1 DEF Start, workerVars
    <3>2. CASE wpc' = [v \in Workers |-> "loop"]
      BY <3>2
    <3> QED BY <1>8, <3>1, <3>2 DEF Start
  <2> QED BY <1>6, <1>8, <2>1 DEF Start
<1>9. ASSUME NEW r \in Requests, Register(r)
      PROVE  (\A w \in Workers : Hand(w)') /\ (\A i \in Ids : Done(i)')
  <2>1. UNCHANGED <<file, wpc, wtask>>
    BY <1>9 DEF Register, workerVars
  <2>2. \A i \in Ids : jobs'[i] = "done" => jobs[i] = "done"
    BY <1>9 DEF Register, TypeOK
  <2> QED BY <1>5, <1>6, <2>1, <2>2
<1>10. ASSUME NEW w \in Workers, Leave(w) \/ See(w) \/ Get(w) \/ Calculate(w)
       PROVE  (\A v \in Workers : Hand(v)') /\ (\A i \in Ids : Done(i)')
  <2>1. /\ UNCHANGED <<jobs, file, job_id>>
        /\ \A v \in Workers \ {w} : wpc'[v] = wpc[v] /\ wtask'[v] = wtask[v]
    BY <1>10 DEF Leave, See, Get, Calculate, WGoto, handlerVars, TypeOK
  <2>2. CASE Leave(w) \/ See(w)
    <3>1. wpc'[w] \in {"exited", "get"}
      BY <2>2 DEF Leave, See, WGoto, TypeOK
    <3> QED BY <1>5, <1>6, <2>1, <3>1
  <2>3. CASE Get(w)
    <3>1. wpc'[w] = "calculate" /\ wtask'[w] = Head(tsk_queue)
      BY <2>3 DEF Get, WGoto, TypeOK
    <3>2. /\ Head(tsk_queue) \in Requests /\ \A i \in Ids : file[i] # Head(tsk_queue)
      BY <2>3, GetIs DEF OnePlace
    <3>3. Hand(w)'
      BY <2>1, <3>1, <3>2 DEF TypeOK
    <3> QED BY <1>5, <1>6, <2>1, <3>3
  <2>4. CASE Calculate(w)
    <3>1. wpc[w] = "calculate" /\ wpc'[w] \in {"dead", "open"} /\ wtask'[w] = wtask[w]
      BY <2>4 DEF Calculate, WGoto, TypeOK
    <3>2. Hand(w)'
      BY <1>2, <2>1, <3>1
    <3> QED BY <1>5, <1>6, <2>1, <3>2
  <2> QED BY <1>10, <2>2, <2>3, <2>4
<1>11. ASSUME NEW w \in Workers, Open(w) \/ Dump(w)
       PROVE  (\A v \in Workers : Hand(v)') /\ (\A i \in Ids : Done(i)')
  <2> DEFINE t == wtask[w]
             k == job_id[wtask[w]]
  <2>1. wpc[w] \in {"open", "dump"} /\ wpc[w] \in Busy
    BY <1>11 DEF Open, Dump, WGoto, Busy
  <2>2. t \in Requests /\ t \in Submitted /\ k \in Ids
    BY <2>1, InHand
  <2>3. /\ UNCHANGED <<jobs, job_id, wtask>>
        /\ \A v \in Workers \ {w} : wpc'[v] = wpc[v]
        /\ \A i \in Ids \ {k} : file'[i] = file[i]
    BY <1>11, <2>2 DEF Open, Dump, WGoto, handlerVars, TypeOK
  <2>4. ASSUME NEW v \in Workers \ {w} PROVE Hand(v)'
    <3>1. CASE wpc[v] \in Busy
      <4>1. wtask[v] # t /\ wtask[v] \in Submitted /\ job_id[wtask[v]] \in Ids
        BY <2>1, <3>1, InHand DEF OnePlace
      <4>2. job_id[wtask[v]] # k
        BY <1>1, <2>2, <4>1, OwnId
      <4> QED BY <1>5, <2>3, <4>1, <4>2
    <3>2. CASE wpc[v] \notin Busy
      BY <1>5, <2>3, <3>2
    <3> QED BY <3>1, <3>2
  <2>5. ASSUME NEW i \in Ids \ {k} PROVE Done(i)'
    BY <1>6, <2>3
  <2>6. CASE Open(w)
    <3>1. file[k] # t /\ file'[k] = "partial" /\ wpc'[w] = "dump"
      BY <1>2, <2>2, <2>6 DEF Open, WGoto, TypeOK
    <3>2. Hand(w)'
      BY <2>3, <3>1
    <3>3. jobs[k] # "done"
      <4> SUFFICES ASSUME jobs[k] = "done" PROVE FALSE
        OBVIOUS
      <4>1. PICK r \in Requests : job_id[r] = k /\ file[k] = r
        BY <1>2, <2>2
      <4>2. r \in Submitted
        BY <2>2, <4>1 DEF OnePlace
      <4> QED BY <1>1, <2>2, <3>1, <4>1, <4>2, OwnId
    <3> QED BY <2>2, <2>3, <2>4, <2>5, <3>2, <3>3
  <2>7. CASE Dump(w)
    <3>1. file'[k] = t /\ wpc'[w] = "mark"
      BY <1>2, <2>2, <2>7 DEF Dump, WGoto, TypeOK
    <3>2. Hand(w)'
      BY <2>2, <2>3, <3>1
    <3>3. ASSUME NEW i \in Ids, i = k PROVE Done(i)'
      BY <2>2, <2>3, <3>1, <3>3
    <3>4. \A v \in Workers : Hand(v)'
      BY <2>4, <3>2
    <3>5. \A i \in Ids : Done(i)'
      BY <2>5, <3>3
    <3> QED BY <3>4, <3>5
  <2> QED BY <1>11, <2>6, <2>7
<1>12. ASSUME NEW w \in Workers, Mark(w)
       PROVE  (\A v \in Workers : Hand(v)') /\ (\A i \in Ids : Done(i)')
  <2> DEFINE t == wtask[w]
             k == job_id[wtask[w]]
  <2>1. wpc[w] = "mark" /\ t \in Requests /\ k \in Ids
    BY <1>12, InHand DEF Mark, WGoto, Busy
  <2>2. /\ UNCHANGED <<file, job_id, wtask>> /\ wpc'[w] = "loop"
        /\ \A v \in Workers \ {w} : wpc'[v] = wpc[v]
        /\ \A i \in Ids \ {k} : jobs'[i] = jobs[i]
    BY <1>12 DEF Mark, WGoto, handlerVars, TypeOK
  <2>3. ASSUME NEW i \in Ids, i = k PROVE Done(i)'
    BY <1>2, <2>1, <2>2, <2>3
  <2> QED BY <1>5, <1>6, <2>2, <2>3
<1>13. ASSUME NEW r \in Requests,
              \/ CountLoad(r) \/ CountStore(r) \/ CountRead(r) \/ Check(r) \/ Put(r)
              \/ Reply(r) \/ \E k \in {"good", "bad"} : Arrive(r, k)
       PROVE  UNCHANGED <<jobs, file, wpc, wtask>>
  BY <1>13 DEF CountLoad, CountStore, CountRead, Check, Put, Reply, Arrive, workerVars
<1>14. ASSUME NEW p \in Pollers, PollerStep(p) \/ \E i \in Ids : PollId(p, i)
       PROVE  UNCHANGED <<jobs, file, wpc, wtask>>
  BY <1>14 DEF PollerStep, PollStatus, PollFile, PollId, workerVars
<1>15. CASE SetFlag \/ Joined \/ UNCHANGED vars
  BY <1>7, <1>15 DEF SetFlag, Joined, workerVars, vars
<1> HIDE DEF Hand, Done
<1> QED BY <1>7, <1>8, <1>9, <1>10, <1>11, <1>12, <1>13, <1>14, <1>15
        DEF Next, HandlerStep, WorkerStep
---------------------------------------------------------------------------
(* What clients are told.                                                  *)

(* Without a race a job done is not registered again once its client has   *)
(* the id.                                                                 *)
LEMMA DoneStaysStep ==
  ASSUME TypeOK, IdsApart, [Next]_vars, ~raced',
         NEW r \in Requests, rpc[r] = "replied", jobs[job_id[r]] = "done"
  PROVE  jobs'[job_id[r]] = "done"
<1>1. ~raced /\ r \in Submitted
  BY JobIdStays DEF Submitted
<1>2. ASSUME NEW q \in Requests, Register(q) PROVE jobs'[job_id[r]] = "done"
  <2>1. q \in Submitted /\ q # r
    BY <1>2 DEF Register, Goto, Submitted
  <2>2. job_id[q] # job_id[r]
    BY <1>1, <2>1, OwnId
  <2> QED BY <1>2, <2>2 DEF Register, TypeOK
<1>3. ASSUME NEW w \in Workers, Mark(w) PROVE jobs'[job_id[r]] = "done"
  BY <1>3 DEF Mark, TypeOK
<1>4. ASSUME UNCHANGED jobs PROVE jobs'[job_id[r]] = "done"
  BY <1>4
<1>5. ASSUME NEW q \in Requests,
             \/ CountLoad(q) \/ CountStore(q) \/ CountRead(q) \/ Check(q) \/ Put(q)
             \/ Reply(q) \/ \E k \in {"good", "bad"} : Arrive(q, k)
      PROVE  UNCHANGED jobs
  BY <1>5 DEF CountLoad, CountStore, CountRead, Check, Put, Reply, Arrive
<1>6. ASSUME NEW w \in Workers,
             Leave(w) \/ See(w) \/ Get(w) \/ Calculate(w) \/ Open(w) \/ Dump(w)
      PROVE  UNCHANGED jobs
  BY <1>6 DEF Leave, See, Get, Calculate, Open, Dump
<1>7. ASSUME NEW p \in Pollers, PollerStep(p) \/ \E i \in Ids : PollId(p, i)
      PROVE  UNCHANGED jobs
  BY <1>7 DEF PollerStep, PollStatus, PollFile, PollId
<1>8. CASE Start \/ SetFlag \/ Joined \/ UNCHANGED vars
  BY <1>8 DEF Start, SetFlag, Joined, vars
<1> QED BY <1>2, <1>3, <1>4, <1>5, <1>6, <1>7, <1>8 DEF Next, HandlerStep, WorkerStep

(* A registered job has a status and its handler does not go back.         *)
LEMMA RegisteredStep ==
  ASSUME TypeOK, OnePlace, PollKnown, [Next]_vars
  PROVE  /\ \A r \in Requests :
              rpc'[r] \in {"reply", "replied"} => jobs'[job_id'[r]] # "absent"
         /\ \A r \in Requests : rpc[r] = "replied" => rpc'[r] = "replied"
<1> DEFINE Goal ==
      /\ \A r \in Requests :
           rpc'[r] \in {"reply", "replied"} => jobs'[job_id'[r]] # "absent"
      /\ \A r \in Requests : rpc[r] = "replied" => rpc'[r] = "replied"
<1>1. \A r \in Requests : rpc[r] \in {"reply", "replied"} => jobs[job_id[r]] # "absent"
  BY DEF PollKnown
<1>2. \A r \in Submitted : job_id'[r] = job_id[r]
  BY JobIdStays
<1>3. ASSUME NEW q \in Requests, Register(q) PROVE Goal
  <2>1. job_id' = job_id /\ jobs' = [jobs EXCEPT ![job_id[q]] = "running"]
    BY <1>3 DEF Register
  <2>2. /\ rpc'[q] = "reply" /\ rpc[q] = "register"
        /\ \A r \in Requests \ {q} : rpc'[r] = rpc[r]
    BY <1>3 DEF Register, Goto, TypeOK
  <2> QED BY <1>1, <2>1, <2>2 DEF TypeOK
<1>4. ASSUME NEW q \in Requests,
             \/ CountLoad(q) \/ CountStore(q) \/ CountRead(q) \/ Check(q) \/ Put(q)
             \/ Reply(q) \/ \E k \in {"good", "bad"} : Arrive(q, k)
      PROVE  Goal
  <2>1. UNCHANGED jobs
    BY <1>4 DEF CountLoad, CountStore, CountRead, Check, Put, Reply, Arrive
  <2>2. \A r \in Requests :
          /\ rpc'[r] \in {"reply", "replied"} => rpc[r] \in {"reply", "replied"}
          /\ rpc[r] = "replied" => rpc'[r] = "replied"
    BY <1>4 DEF CountLoad, CountStore, CountRead, Check, Put, Reply, Arrive, Goto, TypeOK
  <2> QED BY <1>1, <1>2, <2>1, <2>2 DEF Submitted
<1>5. ASSUME UNCHANGED <<rpc, job_id>>, jobs' = jobs \/ \E i \in Ids : jobs' = [jobs EXCEPT ![i] = "done"]
      PROVE  Goal
  BY <1>1, <1>5 DEF TypeOK
<1>6. ASSUME NEW w \in Workers, WorkerStep(w) PROVE Goal
  <2>1. CASE Mark(w)
    <3>1. job_id[wtask[w]] \in Ids
      BY <2>1, InHand DEF Mark, WGoto, Busy
    <3> QED BY <1>5, <2>1, <3>1 DEF Mark, handlerVars
  <2>2. CASE Leave(w) \/ See(w) \/ Get(w) \/ Calculate(w) \/ Open(w) \/ Dump(w)
    BY <1>5, <2>2 DEF Leave, See, Get, Calculate, Open, Dump, handlerVars
  <2> QED BY <1>6, <2>1, <2>2 DEF WorkerStep
<1>7. ASSUME NEW p \in Pollers, PollerStep(p) \/ \E i \in Ids : PollId(p, i) PROVE Goal
  BY <1>5, <1>7 DEF PollerStep, PollStatus, PollFile, PollId, handlerVars
<1>8. CASE Start \/ SetFlag \/ Joined \/ UNCHANGED vars
  BY <1>5, <1>8 DEF Start, SetFlag, Joined, handlerVars, vars
<1> QED BY <1>3, <1>4, <1>6, <1>7, <1>8 DEF Next, HandlerStep

(* Only its own steps change what a client knows.                          *)
LEMMA PollUnchanged ==
  ASSUME [Next]_vars,
         ~ \E p \in Pollers : PollerStep(p) \/ \E i \in Ids : PollId(p, i)
  PROVE  UNCHANGED poll
<1>1. ASSUME NEW q \in Requests,
             HandlerStep(q) \/ \E k \in {"good", "bad"} : Arrive(q, k)
      PROVE  UNCHANGED poll
  BY <1>1 DEF HandlerStep, CountLoad, CountStore, CountRead, Check, Put, Register, Reply,
              Arrive
<1>2. ASSUME NEW w \in Workers, WorkerStep(w) PROVE UNCHANGED poll
  BY <1>2 DEF WorkerStep, Leave, See, Get, Calculate, Open, Dump, Mark
<1> QED BY <1>1, <1>2 DEF Next, Start, SetFlag, Joined, vars

LEMMA PollStep ==
  ASSUME TypeOK, OnePlace, IdsApart, Results, PollKnown, KnownJobAnswered, [Next]_vars
  PROVE  PollKnown' /\ KnownJobAnswered'
<1> DEFINE Knows(p) == poll[p].known =>
             \E r \in Requests : rpc[r] = "replied" /\ job_id[r] = poll[p].id
           Reads(p) == poll[p].known /\ poll[p].pc = "file" => jobs[poll[p].id] = "done"
           Told(p) == poll[p].known /\ poll[p].pc = "idle" /\ poll[p].answer # "none" =>
             \/ poll[p].answer = "running"
             \/ \E r \in Requests : poll[p].answer = r /\ job_id[r] = poll[p].id
<1>1. /\ \A r \in Requests :
           rpc'[r] \in {"reply", "replied"} => jobs'[job_id'[r]] # "absent"
      /\ \A r \in Requests : rpc[r] = "replied" => rpc'[r] = "replied"
  BY RegisteredStep
<1>2. /\ \A r \in Submitted : job_id'[r] = job_id[r]
      /\ ~raced' => ~raced
  BY JobIdStays
<1>3. \A p \in Pollers : Knows(p) /\ (~raced => Reads(p) /\ Told(p))
  BY DEF PollKnown, KnownJobAnswered
<1>4. SUFFICES ASSUME NEW p \in Pollers PROVE Knows(p)' /\ (~raced' => Reads(p)' /\ Told(p)')
  BY <1>1 DEF PollKnown, KnownJobAnswered
<1>5. ASSUME NEW r \in Requests, rpc[r] = "replied"
      PROVE  /\ r \in Submitted /\ rpc'[r] = "replied" /\ job_id'[r] = job_id[r]
             /\ jobs[job_id[r]] # "absent"
             /\ ~raced' /\ jobs[job_id[r]] = "done" => jobs'[job_id[r]] = "done"
  BY <1>1, <1>2, <1>5, DoneStaysStep DEF Submitted, PollKnown
<1>6. CASE UNCHANGED poll[p]
  <2>1. Knows(p)'
    BY <1>3, <1>5, <1>6
  <2>2. ASSUME ~raced' PROVE Reads(p)'
    BY <1>2, <1>3, <1>5, <1>6, <2>2
  <2>3. ASSUME ~raced' PROVE Told(p)'
    <3>1. poll[p].answer \in Requests => poll[p].answer \in Submitted
      BY DEF OnePlace
    <3> QED BY <1>2, <1>3, <1>6, <2>3, <3>1
  <2> QED BY <2>1, <2>2, <2>3
<1>7. CASE \E i \in Ids : PollId(p, i)
  <2>1. PICK i \in Ids : PollId(p, i)
    BY <1>7
  <2>2. /\ poll'[p].id = i
        /\ poll'[p].known => \E r \in Requests : rpc[r] = "replied" /\ job_id[r] = i
        /\ i <= job_counter => poll'[p].pc = "status"
        /\ poll'[p].pc # "file"
    BY <2>1, IdsAreNat DEF PollId, TypeOK
  <2>3. ASSUME NEW r \in Requests, rpc[r] = "replied", ~raced PROVE job_id[r] <= job_counter
    <3>1. r \in Counted /\ rpc[r] # "read"
      BY <2>3 DEF Counted
    <3>2. loaded[r] \in Nat /\ job_counter \in Nat
      BY IdsAreNat DEF TypeOK
    <3> QED BY <2>3, <3>1, <3>2 DEF IdsApart
  <2> QED BY <1>2, <1>5, <2>2, <2>3
<1>8. CASE PollStatus(p)
  <2>1. /\ jobs' = jobs
        /\ poll'[p].id = poll[p].id /\ poll'[p].known = poll[p].known
        /\ jobs[poll[p].id] = "done" => poll'[p].pc = "file"
        /\ jobs[poll[p].id] # "done" => poll'[p].pc = "idle"
        /\ jobs[poll[p].id] = "running" => poll'[p].answer = "running"
        /\ jobs[poll[p].id] \in {"absent", "running", "done"}
    BY <1>8 DEF PollStatus, TypeOK
  <2> QED BY <1>3, <1>5, <2>1
<1>9. CASE PollFile(p)
  <2>1. /\ poll[p].pc = "file" /\ poll'[p].pc = "idle" /\ poll[p].id \in Ids
        /\ poll'[p].id = poll[p].id /\ poll'[p].known = poll[p].known
        /\ file[poll[p].id] \in Requests => poll'[p].answer = file[poll[p].id]
    BY <1>9 DEF PollFile, TypeOK
  <2>2. Knows(p)'
    <3>1. SUFFICES ASSUME poll[p].known
                   PROVE  \E r \in Requests : rpc'[r] = "replied" /\ job_id'[r] = poll'[p].id
      BY <2>1
    <3>2. PICK r \in Requests : rpc[r] = "replied" /\ job_id[r] = poll[p].id
      BY <1>3, <3>1
    <3> QED BY <1>5, <2>1, <3>2
  <2>3. ASSUME ~raced', poll[p].known PROVE Told(p)'
    <3>1. PICK r \in Requests : job_id[r] = poll[p].id /\ file[poll[p].id] = r
      BY <1>2, <1>3, <2>1, <2>3 DEF Results, ResultBeforeDone
    <3>2. job_id'[r] = job_id[r]
      BY <1>2, <2>1, <3>1 DEF OnePlace
    <3> QED BY <2>1, <3>1, <3>2
  <2> QED BY <2>1, <2>2, <2>3
<1>10. ASSUME NEW q \in Pollers \ {p}, PollerStep(q) \/ \E i \in Ids : PollId(q, i)
       PROVE  UNCHANGED poll[p]
  BY <1>10 DEF PollerStep, PollStatus, PollFile, PollId, TypeOK
<1> HIDE DEF Knows, Reads, Told
<1> QED BY <1>6, <1>7, <1>8, <1>9, <1>10, PollUnchanged DEF PollerStep
---------------------------------------------------------------------------
(* The shutdown.                                                           *)

LEMMA LeavingStep ==
  ASSUME TypeOK, OnePlace, Leaving, [Next]_vars
  PROVE  Leaving'
<1> DEFINE Ends ==
      /\ server = "starting" => spc = "idle" /\ \A w \in Workers : wpc[w] = "none"
      /\ \A w \in Workers : wpc[w] = "exited" =>
           shutdown_flag /\ \A r \in accepted : ~Queued(r)
      /\ spc = "returned" => \A w \in Workers : wpc[w] \in {"exited", "dead"}
           Kinds ==
      /\ \A r \in Requests : rpc[r] = "idle" => kind[r] = "good"
      /\ accepted \subseteq Submitted
      /\ \A w \in Workers : wpc[w] = "dead" => kind[wtask[w]] = "bad"
<1>1. Ends /\ Kinds
  BY DEF Leaving
<1>2. Submitted \subseteq Submitted'
  BY SubmittedStays
<1>3. SUFFICES Ends' /\ Kinds'
  BY DEF Leaving
<1>4. ASSUME UNCHANGED <<tsk_queue, accepted, shutdown_flag, server, spc, wpc>> PROVE Ends'
  BY <1>1, <1>4 DEF Queued
<1>5. ASSUME UNCHANGED <<rpc, kind, accepted, wpc, wtask>> PROVE Kinds'
  BY <1>1, <1>2, <1>5
<1>6. \A w \in Workers : wpc[w] = "dead" => wtask[w] \in Submitted
  BY DEF OnePlace, Busy
<1>7. ASSUME NEW r \in Requests, NEW k \in {"good", "bad"}, Arrive(r, k)
      PROVE  Ends' /\ Kinds'
  <2>1. /\ UNCHANGED <<tsk_queue, accepted, shutdown_flag, server, spc, wpc, wtask>>
        /\ r \notin Submitted /\ rpc'[r] = "count"
        /\ \A s \in Requests \ {r} : rpc'[s] = rpc[s] /\ kind'[s] = kind[s]
    BY <1>7 DEF Arrive, Goto, workerVars, Submitted, TypeOK
  <2>2. Kinds'
    <3>1. \A s \in Requests : rpc'[s] = "idle" => kind'[s] = "good"
      BY <1>1, <2>1
    <3>2. \A w \in Workers : wpc'[w] = "dead" => kind'[wtask'[w]] = "bad"
      <4>1. Submitted \subseteq Requests
        BY DEF Submitted
      <4> QED BY <1>1, <1>6, <2>1, <4>1
    <3> QED BY <1>1, <1>2, <2>1, <3>1, <3>2
  <2> QED BY <1>4, <2>1, <2>2
<1>8. ASSUME NEW r \in Requests, HandlerStep(r) PROVE Ends' /\ Kinds'
  <2>1. /\ UNCHANGED <<shutdown_flag, server, spc, wpc, wtask, kind>>
        /\ \A s \in Requests : rpc'[s] = "idle" => rpc[s] = "idle"
    BY <1>8 DEF HandlerStep, CountLoad, CountStore, CountRead, Check, Put, Register, Reply,
                Goto, workerVars, TypeOK
  <2>2. CASE Put(r)
    <3>1. r \in Submitted'
      BY <2>2 DEF Put, Goto, Submitted, TypeOK
    <3>2. accepted' \subseteq Submitted'
      BY <1>1, <1>2, <2>2, <3>1 DEF Put
    <3>3. r \notin accepted
      BY <1>1, <2>2 DEF Put, Goto, Submitted
    <3>4. ASSUME shutdown_flag PROVE accepted' = accepted /\ \A s \in accepted : Queued(s)' <=> Queued(s)
      BY <2>2, <3>3, <3>4, PutIs DEF Put
    <3>5. Ends'
      BY <1>1, <2>1, <3>4
    <3> QED BY <1>1, <2>1, <3>2, <3>5
  <2>3. CASE ~Put(r)
    <3>1. UNCHANGED <<tsk_queue, accepted>>
      BY <1>8, <2>3 DEF HandlerStep, CountLoad, CountStore, CountRead, Check, Register, Reply
    <3> QED BY <1>1, <1>2, <1>4, <2>1, <3>1
  <2> QED BY <2>2, <2>3
<1>9. ASSUME NEW w \in Workers, WorkerStep(w) PROVE Ends' /\ Kinds'
  <2>1. /\ UNCHANGED <<shutdown_flag, server, spc, kind, rpc, accepted>>
        /\ \A v \in Workers \ {w} : wpc'[v] = wpc[v] /\ wtask'[v] = wtask[v]
        /\ wpc[w] \notin {"none", "exited", "dead"}
    BY <1>9 DEF WorkerStep, Leave, See, Get, Calculate, Open, Dump, Mark, WGoto,
                handlerVars, TypeOK
  <2>2. \A r \in accepted : Queued(r)' => Queued(r)
    <3>1. CASE Get(w)
      BY <3>1, GetIs
    <3>2. CASE ~Get(w)
      <4>1. UNCHANGED tsk_queue
        BY <1>9, <3>2 DEF WorkerStep, Leave, See, Calculate, Open, Dump, Mark
      <4> QED BY <4>1 DEF Queued
    <3> QED BY <3>1, <3>2
  <2>3. wpc'[w] = "exited" => shutdown_flag /\ \A r \in accepted : ~Queued(r)
    <3>1. CASE Leave(w)
      BY <3>1 DEF Leave, Queued
    <3>2. CASE ~Leave(w)
      <4>1. wpc'[w] # "exited"
        BY <1>9, <3>2 DEF WorkerStep, See, Get, Calculate, Open, Dump, Mark, WGoto, TypeOK
      <4> QED BY <4>1
    <3> QED BY <3>1, <3>2
  <2>4. wpc'[w] = "dead" => kind'[wtask'[w]] = "bad"
    <3>1. CASE Calculate(w)
      BY <3>1 DEF Calculate, WGoto, handlerVars, TypeOK
    <3>2. CASE ~Calculate(w)
      <4>1. wpc'[w] # "dead"
        BY <1>9, <3>2 DEF WorkerStep, Leave, See, Get, Open, Dump, Mark, WGoto, TypeOK
      <4> QED BY <4>1
    <3> QED BY <3>1, <3>2
  <2>5. Ends'
    BY <1>1, <2>1, <2>2, <2>3
  <2>6. Kinds'
    BY <1>1, <1>2, <2>1, <2>4
  <2> QED BY <2>5, <2>6
<1>10. ASSUME NEW p \in Pollers, PollerStep(p) \/ \E i \in Ids : PollId(p, i)
       PROVE  Ends' /\ Kinds'
  BY <1>4, <1>5, <1>10 DEF PollerStep, PollStatus, PollFile, PollId, handlerVars, workerVars
<1>11. CASE Start
  <2>1. \A w \in Workers : wpc[w] = "none"
    BY <1>1, <1>11 DEF Start
  <2>2. /\ UNCHANGED <<rpc, kind, accepted, wtask, shutdown_flag, spc>>
        /\ server' # "starting" /\ spc = "idle"
        /\ \A w \in Workers : wpc'[w] \in {"none", "loop"}
    BY <1>1, <1>11, <2>1 DEF Start, handlerVars
  <2> QED BY <1>1, <1>2, <2>1, <2>2
<1>12. CASE SetFlag
  <2>1. /\ UNCHANGED <<rpc, kind, accepted, wpc, wtask, tsk_queue, server>>
        /\ server = "serving" /\ spc' = "joining" /\ shutdown_flag'
    BY <1>12 DEF SetFlag, handlerVars, workerVars
  <2>2. Ends'
    BY <1>1, <2>1 DEF Queued
  <2> QED BY <1>5, <2>1, <2>2
<1>13. CASE Joined
  <2>1. /\ UNCHANGED <<rpc, kind, accepted, wpc, wtask, tsk_queue, server, shutdown_flag>>
        /\ spc = "joining" /\ \A w \in Workers : wpc[w] \in {"exited", "dead"}
    BY <1>13 DEF Joined, handlerVars, workerVars
  <2>2. Ends'
    BY <1>1, <2>1 DEF Queued
  <2> QED BY <1>5, <2>1, <2>2
<1>14. CASE UNCHANGED vars
  BY <1>4, <1>5, <1>14 DEF vars
<1> HIDE DEF Ends, Kinds
<1> QED BY <1>7, <1>8, <1>9, <1>10, <1>11, <1>12, <1>13, <1>14 DEF Next

LEMMA KeptStep ==
  ASSUME TypeOK, OnePlace, IdsApart, Results, Leaving, Kept, [Next]_vars
  PROVE  Kept'
<1> DEFINE Has(r) == Queued(r) \/ Running(r) \/ file[job_id[r]] = r
<1>1. SUFFICES ASSUME ~raced', Good' PROVE \A r \in accepted' : Has(r)'
  BY DEF Kept
<1>2. ~raced /\ \A r \in Submitted : job_id'[r] = job_id[r]
  BY <1>1, JobIdStays
<1>3. accepted \subseteq Submitted /\ Submitted \subseteq Requests
  BY DEF Leaving, Submitted
<1>4. ASSUME Good PROVE \A r \in accepted : Has(r)
  BY <1>2, <1>4 DEF Kept
<1>5. ASSUME kind' = kind PROVE Good
  BY <1>1, <1>5 DEF Good
(* The parts of Has that a step leaves alone.                              *)
<1>6. ASSUME NEW r \in accepted, Has(r), Queued(r) => Queued(r)',
             file[job_id[r]] = r => file'[job_id[r]] = r,
             \A w \in Workers : wpc[w] \in Busy => wpc'[w] \in Busy /\ wtask'[w] = wtask[w]
      PROVE  Has(r)'
  <2>1. job_id'[r] = job_id[r]
    BY <1>2, <1>3
  <2>2. Running(r) => Running(r)'
    BY <1>6 DEF Running
  <2> QED BY <1>6, <2>1, <2>2
<1>7. ASSUME UNCHANGED <<kind, accepted, tsk_queue, file, wtask>>,
             \A w \in Workers : wpc[w] \in Busy => wpc'[w] \in Busy
      PROVE  \A r \in accepted' : Has(r)'
  <2>1. \A r : Queued(r) => Queued(r)'
    BY <1>7 DEF Queued
  <2> HIDE DEF Has
  <2> QED BY <1>4, <1>5, <1>6, <1>7, <2>1
<1>8. ASSUME NEW q \in Requests, NEW k \in {"good", "bad"}, Arrive(q, k)
      PROVE  \A r \in accepted' : Has(r)'
  <2>1. /\ UNCHANGED <<accepted, tsk_queue, file, wpc, wtask>>
        /\ kind[q] = "good" /\ \A r \in Requests \ {q} : kind'[r] = kind[r]
    BY <1>8 DEF Arrive, Goto, Leaving, workerVars, TypeOK
  <2>2. Good
    BY <1>1, <2>1 DEF Good
  <2>3. \A r : Queued(r) => Queued(r)'
    BY <2>1 DEF Queued
  <2> HIDE DEF Has
  <2> QED BY <1>4, <1>6, <2>1, <2>2, <2>3
<1>9. ASSUME NEW q \in Requests, HandlerStep(q), ~Put(q) PROVE \A r \in accepted' : Has(r)'
  BY <1>7, <1>9 DEF HandlerStep, CountLoad, CountStore, CountRead, Check, Register, Reply,
                    workerVars
<1>10. ASSUME NEW q \in Requests, Put(q) PROVE \A r \in accepted' : Has(r)'
  <2>1. /\ UNCHANGED <<kind, file, wpc, wtask>> /\ accepted' \subseteq accepted \cup {q}
    BY <1>10 DEF Put, workerVars
  <2>2. Queued(q)' /\ \A r : Queued(r) => Queued(r)'
    BY <1>10, PutIs
  <2>3. \A r \in accepted : Has(r)
    BY <1>4, <1>5, <2>1
  <2>4. Has(q)'
    BY <2>2
  <2>5. \A r \in accepted : Has(r)'
    <3> HIDE DEF Has
    <3> QED BY <1>6, <2>1, <2>2, <2>3
  <2> HIDE DEF Has
  <2> QED BY <2>1, <2>4, <2>5
<1>11. ASSUME NEW w \in Workers, Leave(w) \/ See(w) \/ Calculate(w)
       PROVE  \A r \in accepted' : Has(r)'
  BY <1>7, <1>11 DEF Leave, See, Calculate, WGoto, Busy, handlerVars, TypeOK
<1>12. ASSUME NEW w \in Workers, Get(w) PROVE \A r \in accepted' : Has(r)'
  <2>1. /\ UNCHANGED <<kind, file, accepted>> /\ wpc[w] = "get"
        /\ wpc'[w] = "calculate" /\ wtask'[w] = Head(tsk_queue)
        /\ \A v \in Workers \ {w} : wpc'[v] = wpc[v] /\ wtask'[v] = wtask[v]
    BY <1>12 DEF Get, WGoto, handlerVars, TypeOK
  <2>2. ASSUME NEW r \in accepted, Queued(r) PROVE Queued(r)' \/ Running(r)'
    BY <1>12, <2>1, <2>2, GetIs DEF Running, Busy
  <2>3. ASSUME NEW r \in accepted, Running(r) PROVE Running(r)'
    BY <2>1, <2>3 DEF Running, Busy
  <2>4. \A r \in accepted : Has(r) /\ job_id'[r] = job_id[r]
    BY <1>2, <1>3, <1>4, <1>5, <2>1
  <2> QED BY <2>1, <2>2, <2>3, <2>4
<1>13. ASSUME NEW w \in Workers, Open(w) \/ Dump(w) PROVE \A r \in accepted' : Has(r)'
  <2>1. /\ UNCHANGED <<kind, accepted, tsk_queue, wtask>>
        /\ wpc[w] \in {"open", "dump"} /\ wpc[w] \in Busy
        /\ \A v \in Workers : wpc[v] \in Busy => wpc'[v] \in Busy
    BY <1>13 DEF Open, Dump, WGoto, Busy, handlerVars, TypeOK
  <2>2. /\ wtask[w] \in Submitted /\ job_id[wtask[w]] \in Ids
        /\ file[job_id[wtask[w]]] # wtask[w]
    <3>1. wtask[w] \in Requests
      BY <2>1, InHand
    <3> QED BY <1>2, <2>1, <3>1, InHand, ServerConstants DEF Results, FileInHand
  <2>3. ASSUME NEW r \in accepted, file[job_id[r]] = r PROVE file'[job_id[r]] = r
    <3>1. r # wtask[w] /\ r \in Submitted
      BY <1>3, <2>2, <2>3
    <3>2. job_id[r] # job_id[wtask[w]]
      BY <1>2, <2>2, <3>1, OwnId
    <3> QED BY <1>13, <2>3, <3>2 DEF Open, Dump, TypeOK
  <2>4. \A r \in accepted : Has(r)
    BY <1>4, <1>5, <2>1
  <2>5. \A r : Queued(r) => Queued(r)'
    BY <2>1 DEF Queued
  <2> HIDE DEF Has
  <2> QED BY <1>6, <2>1, <2>3, <2>4, <2>5
<1>14. ASSUME NEW w \in Workers, Mark(w) PROVE \A r \in accepted' : Has(r)'
  <2>1. /\ UNCHANGED <<kind, accepted, tsk_queue, wtask, file>> /\ wpc[w] = "mark"
        /\ \A v \in Workers \ {w} : wpc'[v] = wpc[v]
    BY <1>14 DEF Mark, WGoto, handlerVars, TypeOK
  <2>2. file[job_id[wtask[w]]] = wtask[w]
    BY <1>2, <2>1 DEF Results, FileInHand
  <2>3. ASSUME NEW r \in accepted, Running(r) PROVE Running(r)' \/ file[job_id[r]] = r
    BY <2>1, <2>2, <2>3 DEF Running
  <2>4. \A r \in accepted : Has(r) /\ job_id'[r] = job_id[r]
    BY <1>2, <1>3, <1>4, <1>5, <2>1
  <2>5. \A r : Queued(r) => Queued(r)'
    BY <2>1 DEF Queued
  <2> QED BY <2>1, <2>3, <2>4, <2>5
<1>15. ASSUME NEW p \in Pollers, PollerStep(p) \/ \E i \in Ids : PollId(p, i)
       PROVE  \A r \in accepted' : Has(r)'
  BY <1>7, <1>15 DEF PollerStep, PollStatus, PollFile, PollId, handlerVars, workerVars
<1>16. CASE Start
  BY <1>7, <1>16 DEF Start, handlerVars, Leaving, Busy
<1>17. CASE SetFlag \/ Joined \/ UNCHANGED vars
  BY <1>7, <1>17 DEF SetFlag, Joined, vars, handlerVars, workerVars
<1> HIDE DEF Has
<1> QED BY <1>8, <1>9, <1>10, <1>11, <1>12, <1>13, <1>14, <1>15, <1>16, <1>17
        DEF Next, WorkerStep
---------------------------------------------------------------------------
(* The invariant and what follows from it.                                 *)

LEMMA StepOK == IInv /\ [Next]_vars => IInv'
<1> SUFFICES ASSUME IInv, [Next]_vars PROVE IInv'
  OBVIOUS
<1>1. /\ TypeOK /\ CountBound /\ OnePlace /\ IdsApart /\ Results /\ PollKnown
      /\ KnownJobAnswered /\ Leaving /\ Kept
  BY DEF IInv, Results
<1>2. TypeOK' /\ CountBound'
  BY <1>1, TypeStep, CountBoundStep
<1>3. OnePlace' /\ IdsApart' /\ Results'
  BY <1>1, <1>2, OnePlaceStep, IdsApartStep, ResultsStep
<1>4. PollKnown' /\ KnownJobAnswered'
  BY <1>1, PollStep
<1>5. Leaving' /\ Kept'
  BY <1>1, LeavingStep, KeptStep
<1> QED BY <1>2, <1>3, <1>4, <1>5 DEF IInv, Results

(* Every reachable state satisfies the inductive invariant.                *)
THEOREM InvariantHolds == Spec => []IInv
<1> QED BY InitOK, StepOK, PTL DEF Spec

(* Types: in particular the counter never exceeds the number of requests,  *)
(* although two handlers may both store it.                                *)
THEOREM TypesHold == Spec => []TypeOK
<1>1. IInv => TypeOK
  BY DEF IInv
<1> QED BY <1>1, InvariantHolds, PTL

(* ThreadPool's queue: a task is executed by one thread of the pool, once, *)
(* also when two handlers raced and share an id.                           *)
THEOREM TaskTakenOnce == Spec => []TakenOnce
<1>1. ASSUME IInv PROVE TakenOnce
  <2>1. \A r \in Requests : job_id[r] \in Ids
    BY <1>1 DEF IInv, TypeOK
  <2> QED BY <1>1, <2>1 DEF IInv, OnePlace, TakenOnce
<1> QED BY <1>1, InvariantHolds, PTL

(* get_results: without a race, a done job has its own result on disk and  *)
(* a client that has its id is answered "running" or with that result.     *)
THEOREM AnswersAreRight == Spec => []AnswersRight
<1>1. IInv => AnswersRight
  BY DEF IInv, AnswersRight
<1> QED BY <1>1, InvariantHolds, PTL

(* submit_task registers a job after a thread may have finished it; once   *)
(* its client has the id, "done" is not overwritten.                       *)
THEOREM DoneIsStable == Spec => DoneStays
<1>1. ASSUME IInv, [Next]_vars
      PROVE  [ \A r \in Requests :
                 ~raced' /\ rpc[r] = "replied" /\ jobs[job_id[r]] = "done" =>
                   jobs'[job_id[r]] = "done" ]_vars
  BY <1>1, DoneStaysStep DEF IInv
<1> QED BY <1>1, InvariantHolds, PTL DEF Spec, DoneStays

(* graceful_shutdown: when it returns, every task accepted before the flag *)
(* has its result on disk, if no calculation raised and no two handlers    *)
(* raced.                                                                  *)
THEOREM ShutdownDrains == Spec => []DrainsBeforeReturn
<1>1. ASSUME IInv, ~raced, Good, spc = "returned", NEW r \in accepted
      PROVE  file[job_id[r]] = r
  <2>1. ASSUME NEW w \in Workers PROVE wpc[w] = "exited"
    <3>1. wpc[w] \in {"exited", "dead"}
      BY <1>1 DEF IInv, Leaving
    <3>2. wpc[w] # "dead"
      <4> SUFFICES ASSUME wpc[w] = "dead" PROVE FALSE
        OBVIOUS
      <4>1. kind[wtask[w]] = "bad" /\ wtask[w] \in Requests
        BY <1>1 DEF IInv, Leaving, TypeOK, Busy
      <4> QED BY <1>1, <4>1 DEF Good
    <3> QED BY <3>1, <3>2
  <2>2. PICK w \in Workers : wpc[w] = "exited"
    BY <2>1, ServerConstants
  <2>3. ~Queued(r)
    BY <1>1, <2>2 DEF IInv, Leaving
  <2>4. ~Running(r)
    BY <2>1 DEF Running, Busy
  <2> QED BY <1>1, <2>3, <2>4 DEF IInv, Kept
<1>2. IInv => DrainsBeforeReturn
  BY <1>1 DEF DrainsBeforeReturn
<1> QED BY <1>2, InvariantHolds, PTL
=============================================================================
