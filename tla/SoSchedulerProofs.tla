------------------------ MODULE SoSchedulerProofs ------------------------
(***************************************************************************)
(* Proofs about SoScheduler, for every number of threads, priorities,      *)
(* devices and calls: the inductive invariant IInv and what follows.       *)
(***************************************************************************)
EXTENDS SoScheduler, InductionLemmas, SequenceTheorems

Sorted(que, pr) ==
  \A i, j \in 1 .. Len(que) : i <= j => pr[que[i]] <= pr[que[j]]
---------------------------------------------------------------------------
(* The priority queue.                                                     *)

(* The scan of add_thread stops at a slot inside or one past the queue,    *)
(* after every thread of smaller priority.                                 *)
LEMMA SlotForIs ==
  ASSUME NEW que \in Seq(Tasks), NEW pr \in [Tasks -> Prios], NEW p \in Prios
  PROVE  LET i == SlotFor(que, p, pr)
         IN  /\ i \in 1 .. Len(que) + 1
             /\ \A k \in 1 .. i - 1 : pr[que[k]] < p
             /\ i <= Len(que) => pr[que[i]] >= p
<1> DEFINE T == {i \in 1 .. Len(que) + 1 : i <= Len(que) => pr[que[i]] >= p}
<1>1. Len(que) + 1 \in T /\ T \subseteq Nat
  OBVIOUS
<1>2. PICK i \in T : \A k \in T : i <= k
  BY <1>1, LeastElement
<1>3. ASSUME NEW k \in 1 .. i - 1 PROVE pr[que[k]] < p
  <2>1. k \in 1 .. Len(que) /\ k \notin T
    BY <1>2
  <2>2. que[k] \in Tasks
    BY <2>1
  <2> QED BY <2>1, <2>2, ConstantsOK DEF Prios
<1> HIDE DEF T
<1>4. /\ i \in 1 .. Len(que) + 1
      /\ \A k \in 1 .. i - 1 : pr[que[k]] < p
      /\ i <= Len(que) => pr[que[i]] >= p
  BY <1>3 DEF T
<1> QED BY <1>4 DEF SlotFor

(* add_thread keeps the queue's threads and its order, and adds t.         *)
LEMMA AddThreadIs ==
  ASSUME NEW que \in Seq(Tasks), NEW pr \in [Tasks -> Prios], NEW t \in Tasks
  PROVE  /\ AddThread(que, t, pr) \in Seq(Tasks)
         /\ Len(AddThread(que, t, pr)) = Len(que) + 1
         /\ \A u : InQueue(AddThread(que, t, pr), u) <=> u = t \/ InQueue(que, u)
         /\ Sorted(que, pr) => Sorted(AddThread(que, t, pr), pr)
<1> DEFINE i == SlotFor(que, pr[t], pr)
           A == AddThread(que, t, pr)
<1>1. /\ i \in 1 .. Len(que) + 1
      /\ \A k \in 1 .. i - 1 : pr[que[k]] < pr[t]
      /\ i <= Len(que) => pr[que[i]] >= pr[t]
  BY SlotForIs
<1> HIDE DEF i
<1>2. A = [k \in 1 .. Len(que) + 1 |->
             IF k < i THEN que[k] ELSE IF k = i THEN t ELSE que[k - 1]]
  BY DEF AddThread, i
<1> HIDE DEF A
<1>3. \A k \in 1 .. Len(que) + 1 : A[k] \in Tasks
  BY <1>1, <1>2
<1>4. A \in Seq(Tasks) /\ Len(A) = Len(que) + 1
  BY <1>2, <1>3
<1>5. ASSUME NEW u PROVE InQueue(A, u) <=> u = t \/ InQueue(que, u)
  <2>1. InQueue(A, u) => u = t \/ InQueue(que, u)
    BY <1>1, <1>2, <1>4 DEF InQueue
  <2>2. u = t => InQueue(A, u)
    BY <1>1, <1>2, <1>4 DEF InQueue
  <2>3. ASSUME NEW k \in 1 .. Len(que), que[k] = u PROVE InQueue(A, u)
    <3>1. CASE k < i
      BY <1>1, <1>2, <1>4, <2>3, <3>1 DEF InQueue
    <3>2. CASE k >= i
      <4>1. A[k + 1] = que[k] /\ k + 1 \in 1 .. Len(A)
        BY <1>1, <1>2, <1>4, <3>2
      <4> QED BY <2>3, <4>1 DEF InQueue
    <3> QED BY <1>1, <3>1, <3>2
  <2> QED BY <2>1, <2>2, <2>3 DEF InQueue
<1>6. ASSUME Sorted(que, pr) PROVE Sorted(A, pr)
  <2> SUFFICES ASSUME NEW j \in 1 .. Len(que) + 1, NEW k \in 1 .. Len(que) + 1, j <= k
               PROVE  pr[A[j]] <= pr[A[k]]
    BY <1>4 DEF Sorted
  <2>1. \A a, b \in 1 .. Len(que) : a <= b => pr[que[a]] <= pr[que[b]]
    BY <1>6 DEF Sorted
  <2>2. \A a \in 1 .. Len(que) : pr[que[a]] \in Int
    BY ConstantsOK DEF Prios
  <2>3. pr[t] \in Int
    BY ConstantsOK DEF Prios
  <2>4. CASE k < i
    BY <1>1, <1>2, <2>1, <2>4
  <2>5. CASE j < i /\ k = i
    BY <1>1, <1>2, <2>2, <2>3, <2>5
  <2>6. CASE j < i /\ k > i
    BY <1>1, <1>2, <2>1, <2>2, <2>6
  <2>7. CASE j = i /\ k = i
    BY <1>1, <1>2, <2>3, <2>7
  <2>8. CASE j = i /\ k > i
    <3>1. i <= Len(que) /\ k - 1 \in 1 .. Len(que) /\ i <= k - 1
      BY <1>1, <2>8
    <3>2. pr[t] <= pr[que[i]] /\ pr[que[i]] <= pr[que[k - 1]]
      BY <1>1, <2>1, <3>1
    <3> QED BY <1>1, <1>2, <2>2, <2>3, <2>8, <3>1, <3>2
  <2>9. CASE j > i
    BY <1>1, <1>2, <2>1, <2>9
  <2> QED BY <1>1, <2>4, <2>5, <2>6, <2>7, <2>8, <2>9
<1> QED BY <1>4, <1>5, <1>6 DEF A

(* so_signal's loop, one listed thread after the other.                    *)
LEMMA AddAllUnfolds ==
  ASSUME NEW que \in Seq(Tasks), NEW ts \in Seq(Tasks), NEW pr \in [Tasks -> Prios], NEW W
  PROVE  \E f :
           /\ f[0] = que
           /\ \A n \in 1 .. Len(ts) :
                f[n] = IF ts[n] \in W THEN AddThread(f[n - 1], ts[n], pr) ELSE f[n - 1]
           /\ AddAll(que, ts, W, pr) = f[Len(ts)]
<1> DEFINE Good(g, n) ==
      /\ g[0] = que
      /\ \A i \in 1 .. n :
           g[i] = IF ts[i] \in W THEN AddThread(g[i - 1], ts[i], pr) ELSE g[i - 1]
           Q == Seq(Tasks)
           T == {n \in Nat : n <= Len(ts) => \E g \in [0 .. n -> Q] : Good(g, n)}
<1>1. 0 \in T
  <2> DEFINE z == [k \in 0 .. 0 |-> que]
  <2>1. z \in [0 .. 0 -> Q] /\ Good(z, 0)
    OBVIOUS
  <2> HIDE DEF z, Good, Q
  <2> QED BY <2>1
<1>2. ASSUME NEW n \in Nat, n \in T PROVE n + 1 \in T
  <2> HIDE DEF Good, Q
  <2> SUFFICES ASSUME n + 1 <= Len(ts) PROVE \E g \in [0 .. n + 1 -> Q] : Good(g, n + 1)
    OBVIOUS
  <2>1. PICK g \in [0 .. n -> Q] : Good(g, n)
    BY <1>2
  <2> USE DEF Good, Q
  <2> DEFINE h == [k \in 0 .. n + 1 |->
                     IF k <= n THEN g[k]
                     ELSE IF ts[n + 1] \in W THEN AddThread(g[n], ts[n + 1], pr)
                     ELSE g[n]]
  <2>2. AddThread(g[n], ts[n + 1], pr) \in Q
    <3>1. g[n] \in Seq(Tasks) /\ ts[n + 1] \in Tasks
      OBVIOUS
    <3> QED BY <3>1, AddThreadIs
  <2>3. h \in [0 .. n + 1 -> Q]
    BY <2>2
  <2>4. Good(h, n + 1)
    BY <2>1
  <2> QED BY <2>3, <2>4
<1> HIDE DEF T
<1>3. Len(ts) \in T
  BY <1>1, <1>2, SetInduction
<1>4. PICK g \in [0 .. Len(ts) -> Q] : Good(g, Len(ts))
  BY <1>3 DEF T
<1> DEFINE F(f) == [i \in 0 .. Len(ts) |->
                      IF i = 0 THEN que
                      ELSE IF ts[i] \in W THEN AddThread(f[i - 1], ts[i], pr)
                      ELSE f[i - 1]]
           f == CHOOSE h : h = F(h)
<1>5. g = F(g)
  BY <1>4
<1>6. f = F(f)
  BY <1>5
<1>7. AddAll(que, ts, W, pr) = f[Len(ts)]
  BY DEF AddAll
<1> HIDE DEF f
<1>8. /\ f[0] = que
      /\ \A n \in 1 .. Len(ts) :
           f[n] = IF ts[n] \in W THEN AddThread(f[n - 1], ts[n], pr) ELSE f[n - 1]
  <2>1. \A n \in 0 .. Len(ts) :
          F(f)[n] = IF n = 0 THEN que
                    ELSE IF ts[n] \in W THEN AddThread(f[n - 1], ts[n], pr)
                    ELSE f[n - 1]
    OBVIOUS
  <2> HIDE DEF F
  <2>2. \A n \in 0 .. Len(ts) : f[n] = F(f)[n]
    BY <1>6
  <2> QED BY <2>1, <2>2
<1> QED BY <1>7, <1>8

(* so_signal's loop: every woken thread enters the queue, none is lost and *)
(* the queue stays sorted, however many it wakes.                          *)
LEMMA AddAllIs ==
  ASSUME NEW que \in Seq(Tasks), NEW ts \in Seq(Tasks), NEW pr \in [Tasks -> Prios],
         NEW W, Sorted(que, pr)
  PROVE  /\ AddAll(que, ts, W, pr) \in Seq(Tasks)
         /\ \A u : InQueue(AddAll(que, ts, W, pr), u) <=>
              InQueue(que, u) \/ (u \in W /\ InQueue(ts, u))
         /\ Sorted(AddAll(que, ts, W, pr), pr)
<1> DEFINE OK(z, n) ==
      /\ z \in Seq(Tasks) /\ Sorted(z, pr)
      /\ \A u : InQueue(z, u) <=> InQueue(que, u) \/ (u \in W /\ \E k \in 1 .. n : ts[k] = u)
<1>1. PICK f :
        /\ f[0] = que
        /\ \A n \in 1 .. Len(ts) :
             f[n] = IF ts[n] \in W THEN AddThread(f[n - 1], ts[n], pr) ELSE f[n - 1]
        /\ AddAll(que, ts, W, pr) = f[Len(ts)]
  BY AddAllUnfolds
<1> DEFINE U == {n \in Nat : n <= Len(ts) => OK(f[n], n)}
<1>2. 0 \in U
  BY <1>1
<1>3. ASSUME NEW n \in Nat, n \in U PROVE n + 1 \in U
  <2> SUFFICES ASSUME n + 1 <= Len(ts) PROVE OK(f[n + 1], n + 1)
    OBVIOUS
  <2>1. OK(f[n], n)
    BY <1>3
  <2>2. /\ f[n + 1] = IF ts[n + 1] \in W THEN AddThread(f[n], ts[n + 1], pr) ELSE f[n]
        /\ ts[n + 1] \in Tasks
    BY <1>1
  <2>3. /\ f[n + 1] \in Seq(Tasks)
        /\ \A u : InQueue(f[n + 1], u) <=>
                InQueue(f[n], u) \/ (u = ts[n + 1] /\ u \in W)
        /\ Sorted(f[n + 1], pr)
    <3>1. f[n] \in Seq(Tasks) /\ Sorted(f[n], pr)
      BY <2>1
    <3> DEFINE x == f[n]
               y == ts[n + 1]
    <3>2. x \in Seq(Tasks) /\ y \in Tasks /\ Sorted(x, pr)
      BY <2>2, <3>1
    <3> HIDE DEF x, y
    <3>3. /\ AddThread(x, y, pr) \in Seq(Tasks)
          /\ \A u : InQueue(AddThread(x, y, pr), u) <=> u = y \/ InQueue(x, u)
          /\ Sorted(AddThread(x, y, pr), pr)
      BY <3>2, AddThreadIs
    <3>4. CASE ts[n + 1] \in W
      BY <2>2, <3>3, <3>4 DEF x, y
    <3>5. CASE ts[n + 1] \notin W
      BY <2>1, <2>2, <3>5
    <3> QED BY <3>4, <3>5
  <2>4. 1 .. n + 1 = (1 .. n) \cup {n + 1}
    OBVIOUS
  <2>5. \A u : InQueue(f[n + 1], u) <=> 
                InQueue(que, u) \/ (u \in W /\ \E k \in 1 .. n + 1 : ts[k] = u)
    BY <2>1, <2>3, <2>4
  <2> QED BY <2>3, <2>5
<1> HIDE DEF U
<1>4. Len(ts) \in U
  BY <1>2, <1>3, SetInduction
<1>5. OK(f[Len(ts)], Len(ts))
  BY <1>4 DEF U
<1>6. AddAll(que, ts, W, pr) = f[Len(ts)]
  BY <1>1
<1> QED BY <1>5, <1>6 DEF InQueue
---------------------------------------------------------------------------
(* verif.                                                                  *)

(* A queue without its last thread is a queue of the others, in order.     *)
LEMMA FrontIs ==
  ASSUME NEW que \in Seq(Tasks), que # <<>>, NEW r,
         r = SubSeq(que, 1, Len(que) - 1),
         NEW pr \in [Tasks -> Prios], Sorted(que, pr)
  PROVE  /\ r \in Seq(Tasks) /\ Sorted(r, pr)
         /\ \A i \in 1 .. Len(r) : pr[r[i]] <= pr[Top(que)]
         /\ \A u : InQueue(r, u) => InQueue(que, u)
         /\ \A u : u # Top(que) /\ InQueue(que, u) => InQueue(r, u)
<1>1. Len(que) \in Nat \ {0} /\ \A i \in 1 .. Len(que) - 1 : que[i] \in Tasks
  OBVIOUS
<1> DEFINE n == Len(que) - 1
<1>2. n \in Int /\ 1 \in Int /\ \A i \in 1 .. n : que[i] \in Tasks
  BY <1>1
<1> HIDE DEF n
<1>3. /\ SubSeq(que, 1, n) \in Seq(Tasks)
      /\ Len(SubSeq(que, 1, n)) = IF 1 <= n THEN n - 1 + 1 ELSE 0
      /\ \A i \in 1 .. n - 1 + 1 : SubSeq(que, 1, n)[i] = que[1 + i - 1]
  BY <1>2, SubSeqProperties
<1>4. n - 1 + 1 = n /\ \A i \in Int : 1 + i - 1 = i
  BY <1>2
<1>5. r = SubSeq(que, 1, n) /\ n \in Nat
  BY <1>1 DEF n
<1>6. /\ r \in Seq(Tasks) /\ Len(r) = n
      /\ \A i \in 1 .. n : r[i] = que[i]
  BY <1>3, <1>4, <1>5
<1>7. n < Len(que) /\ Len(que) = n + 1
  BY <1>1 DEF n
<1>8. \A i, j \in 1 .. n + 1 : i <= j => pr[que[i]] <= pr[que[j]]
  BY <1>7 DEF Sorted
<1>9. Sorted(r, pr)
  <2> SUFFICES ASSUME NEW i \in 1 .. n, NEW j \in 1 .. n, i <= j
               PROVE  pr[r[i]] <= pr[r[j]]
    BY <1>6 DEF Sorted
  <2>1. i \in 1 .. n + 1 /\ j \in 1 .. n + 1
    BY <1>2
  <2> QED BY <1>6, <1>8, <2>1
<1>10. ASSUME NEW i \in 1 .. Len(r) PROVE pr[r[i]] <= pr[Top(que)]
  <2>1. i \in 1 .. n + 1 /\ n + 1 \in 1 .. n + 1 /\ i <= n + 1 /\ r[i] = que[i]
    BY <1>5, <1>6
  <2> QED BY <1>7, <1>8, <2>1 DEF Top
<1>11. ASSUME NEW u, NEW i \in 1 .. n, r[i] = u PROVE InQueue(que, u)
  <2>1. i \in 1 .. Len(que) /\ que[i] = u
    BY <1>2, <1>6, <1>7, <1>11
  <2> QED BY <2>1 DEF InQueue
<1>12. ASSUME NEW u, u # Top(que), NEW i \in 1 .. Len(que), que[i] = u
       PROVE  InQueue(r, u)
  <2>1. i # n + 1
    BY <1>7, <1>12 DEF Top
  <2>2. i \in 1 .. n /\ r[i] = u
    BY <1>2, <1>6, <1>7, <1>12, <2>1
  <2> QED BY <1>6, <2>2 DEF InQueue
<1> QED BY <1>6, <1>9, <1>10, <1>11, <1>12 DEF InQueue

(* The two ways verif hands out the processor keep the queue sorted, post  *)
(* one in_exec, that of the current thread, and leave it at least as high  *)
(* in priority as everything still queued.                                 *)
LEMMA DispatchIs ==
  ASSUME NEW st \in [Tasks -> Statuses], NEW que \in Seq(Tasks),
         NEW rem \in [Tasks -> Int], NEW pr \in [Tasks -> Prios],
         inExec \in [Tasks -> Nat], Sorted(que, pr), que # <<>>,
         Dispatch(st, que, rem)
  PROVE  /\ q' \in Seq(Tasks) /\ Sorted(q', pr) /\ curr' \in Tasks
         /\ status' \in [Tasks -> Statuses] /\ remaining' \in [Tasks -> Int]
         /\ inExec' \in [Tasks -> Nat]
         /\ inExec' = [inExec EXCEPT ![curr'] = @ + 1] /\ done' = done
         /\ \A i \in 1 .. Len(q') : pr[q'[i]] <= pr[curr']
         /\ InQueue(que, curr')
         /\ \A u : InQueue(q', u) => InQueue(que, u)
         /\ \A u \in Tasks : u # curr' /\ InQueue(que, u) => InQueue(q', u)
         /\ status' = [st EXCEPT ![curr'] = "RUNNING"]
<1>1. Len(que) \in Nat \ {0} /\ Top(que) \in Tasks /\ curr' = Top(que)
  BY DEF Dispatch, Top
<1>2. q' = SubSeq(que, 1, Len(que) - 1)
  BY DEF Dispatch
<1>3. /\ q' \in Seq(Tasks) /\ Sorted(q', pr)
      /\ \A i \in 1 .. Len(q') : pr[q'[i]] <= pr[curr']
      /\ \A u : InQueue(q', u) => InQueue(que, u)
      /\ \A u \in Tasks : u # curr' /\ InQueue(que, u) => InQueue(q', u)
  BY <1>1, <1>2, FrontIs
<1>4. InQueue(que, curr')
  BY <1>1 DEF InQueue, Top
<1>5. /\ status' = [st EXCEPT ![curr'] = "RUNNING"]
      /\ remaining' = [rem EXCEPT ![curr'] = TimeQuantum]
      /\ inExec' = [inExec EXCEPT ![curr'] = @ + 1] /\ done' = done
  BY <1>1 DEF Dispatch
<1>6. /\ status' \in [Tasks -> Statuses] /\ remaining' \in [Tasks -> Int]
      /\ inExec' \in [Tasks -> Nat]
  BY <1>1, <1>5, ConstantsOK DEF Statuses
<1> QED BY <1>1, <1>2, <1>3, <1>4, <1>5, <1>6

(* What one run of verif does: it posts the in_exec of the thread it makes *)
(* current, or done when the current thread ended with nothing ready.      *)
LEMMA VerifIs ==
  ASSUME NEW st \in [Tasks -> Statuses], NEW que \in Seq(Tasks),
         NEW rem \in [Tasks -> Int], NEW pr \in [Tasks -> Prios],
         inExec \in [Tasks -> Nat], curr \in Tasks \cup {NoTask},
         Sorted(que, pr), curr = NoTask => que # <<>>,
         \A u \in Tasks : st[u] = "READY" => InQueue(que, u),
         \A u \in Tasks : st[u] = "RUNNING" => curr = u,
         Verif(st, que, rem, pr)
  PROVE  /\ q' \in Seq(Tasks) /\ Sorted(q', pr) /\ curr' \in Tasks
         /\ status' \in [Tasks -> Statuses] /\ remaining' \in [Tasks -> Int]
         /\ inExec' \in [Tasks -> Nat]
         /\ \/ /\ inExec' = [inExec EXCEPT ![curr'] = @ + 1] /\ done' = done
               /\ \A i \in 1 .. Len(q') : pr[q'[i]] <= pr[curr']
            \/ /\ inExec' = inExec /\ done' = done + 1 /\ q' = <<>>
               /\ curr' = curr
               /\ \A u \in Tasks : status'[u] # "RUNNING"
         /\ curr' = curr \/ InQueue(que, curr')
         /\ \A u : InQueue(q', u) => u = curr \/ InQueue(que, u)
         /\ \A u \in Tasks :
              /\ status'[u] = "READY" => InQueue(q', u)
              /\ status'[u] = "RUNNING" => curr' = u
              /\ status'[u] = "NEW" => st[u] = "NEW"
<1>1. CASE que = <<>> /\ st[curr] = "TERMINATED" /\ PostDone(st, que, rem)
  BY <1>1 DEF PostDone, InQueue, Statuses
<1>2. CASE que = <<>> /\ st[curr] # "TERMINATED" /\ Continue(st, que, rem)
  BY <1>2 DEF Continue, InQueue
<1>3. CASE que # <<>> /\ MustYield(st) /\ Dispatch(st, que, rem)
  <2>1. \A u \in Tasks : st[u] = "RUNNING" => FALSE
    BY <1>3, ConstantsOK DEF MustYield
  <2> QED BY <1>3, <2>1, DispatchIs
<1>4. CASE /\ que # <<>> /\ ~MustYield(st) /\ Outranked(que, rem, pr)
           /\ Dispatch([st EXCEPT ![curr] = "READY"], AddThread(que, curr, pr), rem)
  <2> DEFINE s2 == [st EXCEPT ![curr] = "READY"]
             q2 == AddThread(que, curr, pr)
  <2>1. curr \in Tasks
    BY <1>4 DEF MustYield
  <2>2. /\ q2 \in Seq(Tasks) /\ Len(q2) = Len(que) + 1 /\ Sorted(q2, pr)
        /\ \A u : InQueue(q2, u) <=> u = curr \/ InQueue(que, u)
    BY <2>1, AddThreadIs
  <2>3. s2 \in [Tasks -> Statuses] /\ \A u \in Tasks : s2[u] # "RUNNING"
    BY <2>1 DEF Statuses
  <2>4. \A u \in Tasks : s2[u] = "READY" => u = curr \/ st[u] = "READY"
    OBVIOUS
  <2>5. \A u \in Tasks : s2[u] = "NEW" => st[u] = "NEW"
    BY <2>1
  <2>6. q2 # <<>> /\ Dispatch(s2, q2, rem)
    BY <1>4, <2>2
  <2> HIDE DEF s2, q2
  <2>7. /\ q' \in Seq(Tasks) /\ Sorted(q', pr) /\ curr' \in Tasks
        /\ status' \in [Tasks -> Statuses] /\ remaining' \in [Tasks -> Int]
        /\ inExec' \in [Tasks -> Nat]
        /\ inExec' = [inExec EXCEPT ![curr'] = @ + 1] /\ done' = done
        /\ \A i \in 1 .. Len(q') : pr[q'[i]] <= pr[curr']
        /\ InQueue(q2, curr')
        /\ \A u : InQueue(q', u) => InQueue(q2, u)
        /\ \A u \in Tasks : u # curr' /\ InQueue(q2, u) => InQueue(q', u)
        /\ status' = [s2 EXCEPT ![curr'] = "RUNNING"]
    BY <2>2, <2>3, <2>6, DispatchIs
  <2>8. curr' = curr \/ InQueue(que, curr')
    BY <2>2, <2>7
  <2>9. \A u : InQueue(q', u) => u = curr \/ InQueue(que, u)
    BY <2>2, <2>7
  <2>10. ASSUME NEW u \in Tasks
         PROVE  /\ status'[u] = "READY" => InQueue(q', u)
                /\ status'[u] = "RUNNING" => curr' = u
                /\ status'[u] = "NEW" => st[u] = "NEW"
    BY <2>2, <2>3, <2>4, <2>5, <2>7
  <2> QED BY <2>7, <2>8, <2>9, <2>10
<1>5. CASE /\ que # <<>> /\ ~MustYield(st) /\ ~Outranked(que, rem, pr)
           /\ Continue(st, que, IF rem[curr] <= 0
                                THEN [rem EXCEPT ![curr] = TimeQuantum] ELSE rem)
  <2>1. curr \in Tasks /\ curr' = curr /\ q' = que /\ status' = st
    BY <1>5 DEF MustYield, Continue
  <2>2. Top(que) \in Tasks /\ pr[Top(que)] <= pr[curr]
    BY <1>5, <2>1, ConstantsOK DEF Outranked, Top, Prios
  <2>3. \A i \in 1 .. Len(que) : pr[que[i]] <= pr[curr]
    <3> SUFFICES ASSUME NEW i \in 1 .. Len(que) PROVE pr[que[i]] <= pr[curr]
      OBVIOUS
    <3>1. Len(que) \in 1 .. Len(que) /\ i <= Len(que)
      OBVIOUS
    <3>2. pr[que[i]] <= pr[Top(que)]
      BY <3>1 DEF Sorted, Top
    <3>3. pr[que[i]] \in Int /\ pr[Top(que)] \in Int /\ pr[curr] \in Int
      BY <2>1, <2>2, ConstantsOK DEF Prios
    <3> QED BY <2>2, <3>2, <3>3
  <2>4. /\ inExec' = [inExec EXCEPT ![curr'] = @ + 1] /\ done' = done
        /\ inExec' \in [Tasks -> Nat] /\ remaining' \in [Tasks -> Int]
    BY <1>5, <2>1, ConstantsOK DEF Continue
  <2> QED BY <2>1, <2>3, <2>4
<1> QED BY <1>1, <1>2, <1>3, <1>4, <1>5 DEF Verif
---------------------------------------------------------------------------
(* The inductive invariant.                                                *)

(* One token: a thread that holds the processor is current, done is not    *)
(* posted and its in_exec is at most one ahead.                            *)
Tokens ==
  \A t \in Tasks :
    /\ Holds(t) => curr = t /\ done = 0
    /\ pc[t] = "blocked" => inExec[t] \in 0 .. 1
    /\ pc[t] \in {"user", "none"} => inExec[t] = 0

(* The queue is sorted, holds created threads only, and none of them has   *)
(* a higher priority than the thread that holds the processor.             *)
QueueInv ==
  /\ Sorted(q, prio)
  /\ \A u : InQueue(q, u) => pc[u] # "none"
  /\ \A t \in Tasks : Holds(t) => \A i \in 1 .. Len(q) : prio[q[i]] <= prio[t]

(* Statuses against places; nothing is ready or running once done is       *)
(* posted.                                                                 *)
StatusInv ==
  /\ \A t \in Tasks :
       /\ status[t] = "READY" => InQueue(q, t)
       /\ status[t] = "RUNNING" => curr = t
       /\ status[t] = "NEW" => pc[t] = "none"
       /\ done > 0 => status[t] # "RUNNING"
  /\ done > 0 => q = <<>>

(* sched->threads lists exactly the threads that exist.                    *)
CreatedInv ==
  /\ \A t \in Tasks : pc[t] # "none" <=> InQueue(threads, t)
  /\ threads = <<>> => curr = NoTask /\ q = <<>>

(* The phases of main.                                                     *)
MainInv ==
  /\ sched = "null" => threads = <<>> /\ done = 0
  /\ mainPc = "forking" => sched = "live" /\ threads = <<>> /\ done = 0
  /\ mainPc \in {"ending", "joining"} => sched = "live"

IInv == TypeOK /\ Tokens /\ QueueInv /\ StatusInv /\ CreatedInv /\ MainInv

(* What a call of thread t hands to verif: statuses, queue, remaining      *)
(* times and priorities, and where the threads are (so_fork adds one).     *)
CallState(t, st, que, rem, pr, pcs) ==
  /\ st \in [Tasks -> Statuses] /\ que \in Seq(Tasks) /\ rem \in [Tasks -> Int]
  /\ pr \in [Tasks -> Prios] /\ pcs \in [Tasks -> TaskPcs]
  /\ Sorted(que, pr)
  /\ \A u \in Tasks : InQueue(que, u) => pcs[u] # "none"
  /\ \A u \in Tasks : pcs[u] = pc[u] \/ (pc[u] = "none" /\ pcs[u] = "blocked")
  /\ \A u \in Tasks : /\ st[u] = "READY" => InQueue(que, u)
                      /\ st[u] = "RUNNING" => curr = u
                      /\ st[u] = "NEW" => pcs[u] = "none"

(* The thread t has left its handler and the others are where pcs says.    *)
Left(t, pcs) ==
  /\ pc' \in [Tasks -> TaskPcs] /\ pc'[t] \in {"blocked", "leaving", "posting"}
  /\ \A u \in Tasks \ {t} : pc'[u] = pcs[u]

(* One call of verif by the thread t that holds the processor: the token   *)
(* moves to the thread that verif made current.                            *)
LEMMA VerifStep ==
  ASSUME IInv,
         NEW t \in Tasks, pc[t] = "user",
         NEW st, NEW que, NEW rem, NEW pr, NEW pcs,
         CallState(t, st, que, rem, pr, pcs), Verif(st, que, rem, pr),
         prio' = pr, Left(t, pcs)
  PROVE  /\ q' \in Seq(Tasks) /\ curr' \in Tasks /\ done' \in 0 .. 1
         /\ status' \in [Tasks -> Statuses] /\ remaining' \in [Tasks -> Int]
         /\ inExec' \in [Tasks -> Nat] /\ pc' \in [Tasks -> TaskPcs]
         /\ Tokens' /\ QueueInv' /\ StatusInv'
<1>0. /\ st \in [Tasks -> Statuses] /\ que \in Seq(Tasks) /\ rem \in [Tasks -> Int]
      /\ pr \in [Tasks -> Prios] /\ pcs \in [Tasks -> TaskPcs]
      /\ Sorted(que, pr)
      /\ \A u \in Tasks : InQueue(que, u) => pcs[u] # "none"
      /\ \A u \in Tasks : pcs[u] = pc[u] \/ (pc[u] = "none" /\ pcs[u] = "blocked")
      /\ \A u \in Tasks : /\ st[u] = "READY" => InQueue(que, u)
                          /\ st[u] = "RUNNING" => curr = u
                          /\ st[u] = "NEW" => pcs[u] = "none"
  BY DEF CallState
<1>1. /\ curr = t /\ done = 0 /\ inExec \in [Tasks -> Nat] /\ inExec[t] = 0
      /\ curr \in Tasks \cup {NoTask} /\ curr # NoTask
      /\ \A u \in Tasks : u # t => ~ Holds(u)
  BY ConstantsOK DEF IInv, TypeOK, Tokens, Holds
<1>2. \A u \in Tasks : pc[u] \in {"blocked", "user", "none"} => inExec[u] = 0
  <2> SUFFICES ASSUME NEW u \in Tasks, pc[u] = "blocked" PROVE inExec[u] = 0
    BY DEF IInv, Tokens
  <2>1. u # t /\ inExec[u] \in Nat /\ ~ Holds(u)
    BY <1>1
  <2> QED BY <2>1 DEF Holds
<1>3. /\ q' \in Seq(Tasks) /\ Sorted(q', pr) /\ curr' \in Tasks
      /\ status' \in [Tasks -> Statuses] /\ remaining' \in [Tasks -> Int]
      /\ inExec' \in [Tasks -> Nat]
      /\ \/ /\ inExec' = [inExec EXCEPT ![curr'] = @ + 1] /\ done' = done
            /\ \A i \in 1 .. Len(q') : pr[q'[i]] <= pr[curr']
         \/ /\ inExec' = inExec /\ done' = done + 1 /\ q' = <<>>
            /\ curr' = curr
            /\ \A u \in Tasks : status'[u] # "RUNNING"
      /\ curr' = curr \/ InQueue(que, curr')
      /\ \A u : InQueue(q', u) => u = curr \/ InQueue(que, u)
      /\ \A u \in Tasks :
           /\ status'[u] = "READY" => InQueue(q', u)
           /\ status'[u] = "RUNNING" => curr' = u
           /\ status'[u] = "NEW" => st[u] = "NEW"
  BY <1>0, <1>1, VerifIs
<1>4. pc' \in [Tasks -> TaskPcs]
  BY DEF Left
<1>5. /\ pc'[t] \in {"blocked", "leaving", "posting"} /\ \A u \in Tasks : u # t => pc'[u] = pcs[u]
      /\ \A u \in Tasks : pc'[u] = "none" => pcs[u] = "none" /\ u # t
      /\ \A u \in Tasks : pc'[u] # "user"
  BY <1>0, <1>1 DEF Holds, Left
<1>6. \A u \in Tasks : pcs[u] = "none" => pc[u] = "none" /\ u # curr' /\ inExec[u] = 0
  BY <1>0, <1>1, <1>2, <1>3
<1>7. \A u \in Tasks : pc'[u] = "blocked" => inExec[u] = 0
  BY <1>0, <1>1, <1>2, <1>5
<1>8. Tokens'
  <2> SUFFICES ASSUME NEW u \in Tasks
               PROVE  /\ pc'[u] = "blocked" /\ inExec'[u] > 0 => curr' = u /\ done' = 0
                      /\ pc'[u] = "blocked" => inExec'[u] \in 0 .. 1
                      /\ pc'[u] = "none" => inExec'[u] = 0
    BY <1>5 DEF Tokens, Holds
  <2>1. CASE inExec' = [inExec EXCEPT ![curr'] = @ + 1] /\ done' = done
    BY <1>1, <1>3, <1>5, <1>6, <1>7, <2>1
  <2>2. CASE inExec' = inExec
    BY <1>1, <1>5, <1>6, <1>7, <2>2
  <2> QED BY <1>3, <2>1, <2>2
<1>9. QueueInv'
  <2>1. \A u : InQueue(q', u) => pc'[u] # "none"
    <3>1. \A u : InQueue(q', u) => u \in Tasks
      BY <1>3 DEF InQueue
    <3> QED BY <1>0, <1>1, <1>3, <1>5, <3>1
  <2>2. ASSUME NEW u \in Tasks, Holds(u)' PROVE \A i \in 1 .. Len(q') : pr[q'[i]] <= pr[u]
    <3>1. pc'[u] = "blocked" /\ inExec'[u] > 0 /\ curr' = u
      BY <1>5, <1>8, <2>2 DEF Tokens, Holds
    <3>2. inExec' # inExec
      BY <1>7, <3>1
    <3> QED BY <1>3, <3>1, <3>2
  <2> QED BY <1>3, <2>1, <2>2 DEF QueueInv
<1>10. StatusInv'
  <2>1. \A u \in Tasks : status'[u] = "NEW" => pc'[u] = "none"
    <3>1. st[t] # "NEW"
      BY <1>0, <1>1 DEF Holds
    <3> QED BY <1>0, <1>3, <1>5, <3>1
  <2>2. done' > 0 => q' = <<>> /\ \A u \in Tasks : status'[u] # "RUNNING"
    BY <1>1, <1>3
  <2> QED BY <1>3, <2>1, <2>2 DEF StatusInv
<1>11. done' \in 0 .. 1
  BY <1>1, <1>3
<1> QED BY <1>3, <1>4, <1>8, <1>9, <1>10, <1>11
---------------------------------------------------------------------------
(* The invariant is inductive: one lemma per action that moves the token,  *)
(* one for the others.                                                     *)

(* It holds initially.                                                     *)
LEMMA InitInv == Init => IInv
<1> SUFFICES ASSUME Init PROVE IInv
  OBVIOUS
<1>1. TypeOK
  BY ConstantsOK DEF Init, TypeOK, Statuses, Prios, TaskPcs, MainPcs
<1>2. \A t \in Tasks : ~ Holds(t) /\ pc[t] = "none" /\ inExec[t] = 0 /\ status[t] = "NEW"
  BY DEF Init, Holds
<1>3. q = <<>> /\ threads = <<>> /\ curr = NoTask /\ done = 0 /\ sched = "null" /\ mainPc = "user"
  BY DEF Init
<1>4. \A u : ~ InQueue(<<>>, u)
  BY DEF InQueue
<1>5. Tokens /\ QueueInv /\ StatusInv
  BY <1>2, <1>3, <1>4 DEF Tokens, QueueInv, StatusInv, Sorted
<1>6. CreatedInv /\ MainInv
  BY <1>2, <1>3, <1>4 DEF CreatedInv, MainInv
<1> QED BY <1>1, <1>5, <1>6 DEF IInv

(* What every step of a thread in its handler starts from.                 *)
LEMMA UserIs ==
  ASSUME IInv, NEW t \in Tasks, pc[t] = "user"
  PROVE  /\ curr = t /\ sched = "live" /\ threads # <<>> /\ mainPc # "forking"
         /\ curr \in Tasks /\ \A u : InQueue(q, u) => u \in Tasks
<1>1. curr = t /\ InQueue(threads, t)
  BY DEF IInv, Tokens, Holds, CreatedInv
<1>2. threads # <<>>
  BY <1>1 DEF InQueue
<1>3. sched = "live" /\ mainPc # "forking"
  BY <1>2 DEF IInv, MainInv, TypeOK
<1>4. \A u : InQueue(q, u) => u \in Tasks
  BY DEF IInv, TypeOK, InQueue
<1> QED BY <1>1, <1>2, <1>3, <1>4

(* so_exec: what it hands to verif.                                      *)
LEMMA ExecState ==
  ASSUME IInv, NEW t \in Tasks, Exec(t),
         NEW st, NEW que, NEW rem, NEW pr, NEW pcs,
         st = status,
         que = q,
         rem = [remaining EXCEPT ![curr] = @ - 1],
         pr = prio,
         pcs = pc
  PROVE  CallState(t, st, que, rem, pr, pcs) /\ prio' = pr /\ Left(t, pcs)
<1>1. pc[t] = "user" /\ calls' \in 0 .. MaxCalls
  BY ConstantsOK DEF Exec, Calls, IInv, TypeOK
<1>2. curr = t /\ sched = "live" /\ threads # <<>> /\ mainPc # "forking" /\ curr \in Tasks
  BY <1>1, UserIs
<1>3. /\ st = status
      /\ que = q
      /\ rem = [remaining EXCEPT ![curr] = @ - 1]
      /\ pr = prio
      /\ pcs = pc
  OBVIOUS
<1>4. CallState(t, st, que, rem, pr, pcs)
  <2>1. rem \in [Tasks -> Int]
    BY <1>2, <1>3 DEF IInv, TypeOK
  <2>2. /\ Sorted(que, pr) /\ \A u \in Tasks : InQueue(que, u) => pcs[u] # "none"
        /\ \A u \in Tasks : /\ st[u] = "READY" => InQueue(que, u)
                            /\ st[u] = "RUNNING" => curr = u
                            /\ st[u] = "NEW" => pcs[u] = "none"
    BY <1>3 DEF IInv, QueueInv, StatusInv
  <2> QED BY <1>3, <2>1, <2>2 DEF CallState, IInv, TypeOK
<1>5. prio' = pr /\ Left(t, pcs)
  BY <1>1, <1>3 DEF Exec, SoExec, Left, TaskPcs, IInv, TypeOK
<1> QED BY <1>4, <1>5

(* so_exec.                                                                *)
LEMMA ExecInv ==
  ASSUME IInv, NEW t \in Tasks, Exec(t)
  PROVE  IInv'
<1>1. pc[t] = "user" /\ calls' \in 0 .. MaxCalls
  BY ConstantsOK DEF Exec, Calls, IInv, TypeOK
<1>2. curr = t /\ sched = "live" /\ threads # <<>> /\ mainPc # "forking" /\ curr \in Tasks
  BY <1>1, UserIs
<1>3. PICK st, que, rem, pr, pcs :
         /\ st = status /\ que = q /\ rem = [remaining EXCEPT ![curr] = @ - 1]
         /\ pr = prio /\ pcs = pc
         /\ Verif(st, que, rem, pr)
  BY DEF Exec, SoExec, Verif, Dispatch, Continue, PostDone, MustYield, Outranked
<1>4. CallState(t, st, que, rem, pr, pcs) /\ prio' = pr /\ Left(t, pcs)
  BY <1>3, ExecState
<1>6. /\ q' \in Seq(Tasks) /\ curr' \in Tasks /\ done' \in 0 .. 1
      /\ status' \in [Tasks -> Statuses] /\ remaining' \in [Tasks -> Int]
      /\ inExec' \in [Tasks -> Nat] /\ pc' \in [Tasks -> TaskPcs]
      /\ Tokens' /\ QueueInv' /\ StatusInv'
  BY <1>1, <1>3, <1>4, VerifStep
<1>7. UNCHANGED <<sched, threads, prio, io, mainPc>>
  BY DEF Exec
<1>8. TypeOK'
  BY <1>1, <1>6, <1>7 DEF IInv, TypeOK
<1>9. CreatedInv' /\ MainInv'
  <2>1. \A u \in Tasks : pc'[u] # "none" <=> pc[u] # "none"
    BY <1>1 DEF Exec, SoExec, IInv, TypeOK
  <2> QED BY <1>2, <1>7, <2>1 DEF IInv, CreatedInv, MainInv
<1> QED BY <1>6, <1>8, <1>9 DEF IInv

(* so_fork lists the new thread.                                           *)
LEMMA AppendIs ==
  ASSUME NEW ts \in Seq(Tasks), NEW n \in Tasks
  PROVE  /\ Append(ts, n) \in Seq(Tasks) /\ Append(ts, n) # <<>>
         /\ \A u : InQueue(Append(ts, n), u) <=> u = n \/ InQueue(ts, u)
<1>1. /\ Append(ts, n) \in Seq(Tasks) /\ Len(Append(ts, n)) = Len(ts) + 1
      /\ \A i \in 1 .. Len(ts) : Append(ts, n)[i] = ts[i]
      /\ Append(ts, n)[Len(ts) + 1] = n
  BY AppendProperties
<1>2. 1 .. Len(ts) + 1 = (1 .. Len(ts)) \cup {Len(ts) + 1}
  OBVIOUS
<1> QED BY <1>1, <1>2 DEF InQueue

(* A new thread of either so_fork: it is in nobody's place, and the queue  *)
(* with it is still sorted.                                                *)
LEMMA NewThreadIs ==
  ASSUME IInv, NEW n \in Tasks, pc[n] = "none", NEW p \in Prios, NEW pr, NEW que,
         pr = [prio EXCEPT ![n] = p], que = AddThread(q, n, pr)
  PROVE  /\ pr \in [Tasks -> Prios] /\ que \in Seq(Tasks) /\ Sorted(que, pr)
         /\ que # <<>>
         /\ \A u : InQueue(que, u) <=> u = n \/ InQueue(q, u)
<1>1. pr \in [Tasks -> Prios] /\ q \in Seq(Tasks) /\ prio \in [Tasks -> Prios]
  BY DEF IInv, TypeOK
<1>2. ~ InQueue(q, n) /\ Sorted(q, prio)
  BY DEF IInv, QueueInv
<1>3. \A i \in 1 .. Len(q) : q[i] # n /\ pr[q[i]] = prio[q[i]]
  BY <1>1, <1>2 DEF InQueue
<1>4. Sorted(q, pr)
  BY <1>2, <1>3 DEF Sorted
<1>5. /\ que \in Seq(Tasks) /\ Len(que) = Len(q) + 1 /\ Sorted(que, pr)
      /\ \A u : InQueue(que, u) <=> u = n \/ InQueue(q, u)
  BY <1>1, <1>4, AddThreadIs
<1>6. que # <<>>
  <2>1. Len(q) \in Nat
    BY <1>1
  <2> QED BY <1>5, <2>1
<1> QED BY <1>1, <1>5, <1>6

(* What so_fork has computed for the new thread when it calls so_exec.     *)
Forks(n, p, st, que, rem, pr, pcs) ==
  /\ st = [status EXCEPT ![n] = "READY"]
  /\ que = AddThread(q, n, pr)
  /\ rem = [remaining EXCEPT ![curr] = @ - 1]
  /\ pr = [prio EXCEPT ![n] = p]
  /\ pcs = [pc EXCEPT ![n] = "blocked"]

(* so_fork by a scheduled thread: what it hands to verif.                *)
LEMMA ForkState ==
  ASSUME IInv, NEW t \in Tasks, NEW n \in Tasks, NEW p \in Prios, Fork(t, n, p),
         NEW st, NEW que, NEW rem, NEW pr, NEW pcs, Forks(n, p, st, que, rem, pr, pcs)
  PROVE  CallState(t, st, que, rem, pr, pcs) /\ prio' = pr /\ Left(t, pcs)
<1>1. /\ pc[t] = "user" /\ calls' \in 0 .. MaxCalls /\ pc[n] = "none" /\ n # t
  BY ConstantsOK DEF Fork, Calls, NewThread, IInv, TypeOK
<1>2. curr = t /\ sched = "live" /\ threads # <<>> /\ mainPc # "forking" /\ curr \in Tasks
  BY <1>1, UserIs
<1>3. /\ st = [status EXCEPT ![n] = "READY"]
      /\ que = AddThread(q, n, pr)
      /\ rem = [remaining EXCEPT ![curr] = @ - 1]
      /\ pr = [prio EXCEPT ![n] = p]
      /\ pcs = [pc EXCEPT ![n] = "blocked"]
  BY DEF Forks
<1>4. CallState(t, st, que, rem, pr, pcs)
  <2>1. rem \in [Tasks -> Int] /\ st \in [Tasks -> Statuses] /\ pcs \in [Tasks -> TaskPcs]
    BY <1>2, <1>3 DEF IInv, TypeOK, Statuses, TaskPcs
  <2>2. /\ pr \in [Tasks -> Prios] /\ que \in Seq(Tasks) /\ Sorted(que, pr)
        /\ \A u : InQueue(que, u) <=> u = n \/ InQueue(q, u)
    BY <1>1, <1>3, NewThreadIs
  <2>3. \A u \in Tasks : InQueue(que, u) => pcs[u] # "none"
    BY <1>3, <2>2 DEF IInv, TypeOK, QueueInv
  <2>4. \A u \in Tasks : pcs[u] = pc[u] \/ (pc[u] = "none" /\ pcs[u] = "blocked")
    BY <1>1, <1>3 DEF IInv, TypeOK
  <2>5. \A u \in Tasks : /\ st[u] = "READY" => InQueue(que, u)
                         /\ st[u] = "RUNNING" => curr = u
                         /\ st[u] = "NEW" => pcs[u] = "none"
    BY <1>3, <2>2 DEF IInv, TypeOK, StatusInv
  <2> QED BY <2>1, <2>2, <2>3, <2>4, <2>5 DEF CallState
<1>5. prio' = pr /\ Left(t, pcs)
  BY <1>1, <1>3 DEF Fork, NewThread, SoExec, Left, TaskPcs, IInv, TypeOK
<1> QED BY <1>4, <1>5

(* so_fork by a scheduled thread.                                          *)
LEMMA ForkInv ==
  ASSUME IInv, NEW t \in Tasks, NEW n \in Tasks, NEW p \in Prios, Fork(t, n, p)
  PROVE  IInv'
<1>1. /\ pc[t] = "user" /\ calls' \in 0 .. MaxCalls /\ pc[n] = "none" /\ n # t
  BY ConstantsOK DEF Fork, Calls, NewThread, IInv, TypeOK
<1>2. curr = t /\ sched = "live" /\ threads # <<>> /\ mainPc # "forking" /\ curr \in Tasks
  BY <1>1, UserIs
<1>3. PICK st, que, rem, pr, pcs :
         Forks(n, p, st, que, rem, pr, pcs) /\ Verif(st, que, rem, pr)
  BY DEF Forks, Fork, SoExec, Verif, Dispatch, Continue, PostDone, MustYield, Outranked
<1>4. CallState(t, st, que, rem, pr, pcs) /\ prio' = pr /\ Left(t, pcs)
  BY <1>3, ForkState
<1>6. /\ q' \in Seq(Tasks) /\ curr' \in Tasks /\ done' \in 0 .. 1
      /\ status' \in [Tasks -> Statuses] /\ remaining' \in [Tasks -> Int]
      /\ inExec' \in [Tasks -> Nat] /\ pc' \in [Tasks -> TaskPcs]
      /\ Tokens' /\ QueueInv' /\ StatusInv'
  BY <1>1, <1>3, <1>4, VerifStep
<1>7. /\ UNCHANGED <<sched, mainPc>> /\ threads' = Append(threads, n)
      /\ io' = [io EXCEPT ![n] = NumEvents] /\ threads \in Seq(Tasks)
  BY DEF Fork, NewThread, IInv, TypeOK
<1>8. /\ threads' \in Seq(Tasks) /\ threads' # <<>>
      /\ \A u : InQueue(threads', u) <=> u = n \/ InQueue(threads, u)
  BY <1>7, AppendIs
<1>9. prio' \in [Tasks -> Prios] /\ io' \in [Tasks -> 0 .. NumEvents]
  BY <1>4, <1>7, ConstantsOK DEF CallState, IInv, TypeOK
<1>10. TypeOK'
  BY <1>1, <1>6, <1>7, <1>8, <1>9 DEF IInv, TypeOK
<1>11. CreatedInv' /\ MainInv'
  <2>1. \A u \in Tasks : pc'[u] # "none" <=> u = n \/ pc[u] # "none"
    BY <1>1 DEF Fork, SoExec, IInv, TypeOK
  <2> QED BY <1>2, <1>7, <1>8, <2>1 DEF IInv, CreatedInv, MainInv
<1> QED BY <1>6, <1>10, <1>11 DEF IInv

(* so_wait: what it hands to verif.                                      *)
LEMMA WaitState ==
  ASSUME IInv, NEW t \in Tasks, NEW d \in Devices, Wait(t, d),
         NEW st, NEW que, NEW rem, NEW pr, NEW pcs,
         st = [status EXCEPT ![curr] = "WAITING"],
         que = q,
         rem = [remaining EXCEPT ![curr] = @ - 1],
         pr = prio,
         pcs = pc
  PROVE  CallState(t, st, que, rem, pr, pcs) /\ prio' = pr /\ Left(t, pcs)
<1>1. pc[t] = "user" /\ calls' \in 0 .. MaxCalls
  BY ConstantsOK DEF Wait, Calls, IInv, TypeOK
<1>2. curr = t /\ sched = "live" /\ threads # <<>> /\ mainPc # "forking" /\ curr \in Tasks
  BY <1>1, UserIs
<1>3. /\ st = [status EXCEPT ![curr] = "WAITING"]
      /\ que = q
      /\ rem = [remaining EXCEPT ![curr] = @ - 1]
      /\ pr = prio
      /\ pcs = pc
  OBVIOUS
<1>4. CallState(t, st, que, rem, pr, pcs)
  <2>1. rem \in [Tasks -> Int] /\ st \in [Tasks -> Statuses]
    BY <1>2, <1>3 DEF IInv, TypeOK, Statuses
  <2>2. Sorted(que, pr) /\ \A u \in Tasks : InQueue(que, u) => pcs[u] # "none"
    BY <1>3 DEF IInv, QueueInv
  <2>3. \A u \in Tasks : /\ st[u] = "READY" => InQueue(que, u)
                         /\ st[u] = "RUNNING" => curr = u
                         /\ st[u] = "NEW" => pcs[u] = "none"
    BY <1>2, <1>3 DEF IInv, TypeOK, StatusInv
  <2> QED BY <1>3, <2>1, <2>2, <2>3 DEF CallState, IInv, TypeOK
<1>5. prio' = pr /\ Left(t, pcs)
  BY <1>1, <1>3 DEF Wait, SoExec, Left, TaskPcs, IInv, TypeOK
<1> QED BY <1>4, <1>5

(* so_wait.                                                                *)
LEMMA WaitInv ==
  ASSUME IInv, NEW t \in Tasks, NEW d \in Devices, Wait(t, d)
  PROVE  IInv'
<1>1. pc[t] = "user" /\ calls' \in 0 .. MaxCalls
  BY ConstantsOK DEF Wait, Calls, IInv, TypeOK
<1>2. curr = t /\ sched = "live" /\ threads # <<>> /\ mainPc # "forking" /\ curr \in Tasks
  BY <1>1, UserIs
<1>3. PICK st, que, rem, pr, pcs :
         /\ st = [status EXCEPT ![curr] = "WAITING"] /\ que = q
         /\ rem = [remaining EXCEPT ![curr] = @ - 1]
         /\ pr = prio /\ pcs = pc
         /\ Verif(st, que, rem, pr)
  BY DEF Wait, SoExec, Verif, Dispatch, Continue, PostDone, MustYield, Outranked
<1>4. CallState(t, st, que, rem, pr, pcs) /\ prio' = pr /\ Left(t, pcs)
  BY <1>3, WaitState
<1>6. /\ q' \in Seq(Tasks) /\ curr' \in Tasks /\ done' \in 0 .. 1
      /\ status' \in [Tasks -> Statuses] /\ remaining' \in [Tasks -> Int]
      /\ inExec' \in [Tasks -> Nat] /\ pc' \in [Tasks -> TaskPcs]
      /\ Tokens' /\ QueueInv' /\ StatusInv'
  BY <1>1, <1>3, <1>4, VerifStep
<1>7. UNCHANGED <<sched, threads, prio, mainPc>> /\ io' = [io EXCEPT ![curr] = d]
  BY DEF Wait
<1>8. TypeOK'
  <2>1. d \in 0 .. NumEvents
    BY ConstantsOK DEF Devices
  <2>2. io' \in [Tasks -> 0 .. NumEvents]
    BY <1>7, <2>1 DEF IInv, TypeOK
  <2> QED BY <1>1, <1>6, <1>7, <2>2 DEF IInv, TypeOK
<1>9. CreatedInv' /\ MainInv'
  <2>1. \A u \in Tasks : pc'[u] # "none" <=> pc[u] # "none"
    BY <1>1 DEF Wait, SoExec, IInv, TypeOK
  <2> QED BY <1>2, <1>7, <2>1 DEF IInv, CreatedInv, MainInv
<1> QED BY <1>6, <1>8, <1>9 DEF IInv

(* Every waiter is a listed thread.                                        *)
LEMMA WaitersAre ==
  ASSUME IInv, NEW d
  PROVE  \A u \in Waiters(d) : u \in Tasks /\ InQueue(threads, u) /\ status[u] = "WAITING"
<1> SUFFICES ASSUME NEW u \in Waiters(d)
             PROVE  u \in Tasks /\ InQueue(threads, u) /\ status[u] = "WAITING"
  OBVIOUS
<1>1. PICK i \in 1 .. Len(threads) : u = threads[i] /\ status[threads[i]] = "WAITING"
  BY DEF Waiters
<1>2. threads \in Seq(Tasks)
  BY DEF IInv, TypeOK
<1> QED BY <1>1, <1>2 DEF InQueue

(* What so_signal hands to verif: the threads that wait for d are ready.   *)
Woken(d, W, st, que, rem, pr, pcs) ==
  /\ W = Waiters(d)
  /\ st \in [Tasks -> Statuses]
  /\ \A u \in Tasks : st[u] = IF u \in W THEN "READY" ELSE status[u]
  /\ que = AddAll(q, threads, W, prio)
  /\ rem = [remaining EXCEPT ![curr] = @ - 1]
  /\ pr = prio /\ pcs = pc

LEMMA SignalHands ==
  ASSUME IInv, NEW t \in Tasks, NEW d \in Devices, Signal(t, d)
  PROVE  \E W, st, que, rem, pr, pcs :
           Woken(d, W, st, que, rem, pr, pcs) /\ Verif(st, que, rem, pr)
<1>1. PICK W, st :
        /\ W = Waiters(d)
        /\ st = [u \in Tasks |-> IF u \in W THEN "READY" ELSE status[u]]
  OBVIOUS
<1>2. Verif(st, AddAll(q, threads, W, prio), [remaining EXCEPT ![curr] = @ - 1], prio)
  BY <1>1 DEF Signal, SoExec
<1>3. st \in [Tasks -> Statuses]
  BY <1>1 DEF IInv, TypeOK, Statuses
<1>4. Woken(d, W, st, AddAll(q, threads, W, prio), [remaining EXCEPT ![curr] = @ - 1],
            prio, pc)
  BY <1>1, <1>3 DEF Woken
<1> QED BY <1>2, <1>4

(* so_signal: it is the state of a call.                                   *)
(* so_signal: it is the state of a call.                                   *)
LEMMA SignalState ==
  ASSUME IInv, NEW t \in Tasks, NEW d \in Devices, Signal(t, d),
         NEW W, NEW st, NEW que, NEW rem, NEW pr, NEW pcs,
         Woken(d, W, st, que, rem, pr, pcs)
  PROVE  CallState(t, st, que, rem, pr, pcs) /\ prio' = pr /\ Left(t, pcs)
<1>1. pc[t] = "user" /\ calls' \in 0 .. MaxCalls
  BY ConstantsOK DEF Signal, Calls, IInv, TypeOK
<1>2. curr = t /\ sched = "live" /\ threads # <<>> /\ mainPc # "forking" /\ curr \in Tasks
  BY <1>1, UserIs
<1>3. /\ W = Waiters(d)
      /\ st \in [Tasks -> Statuses]
      /\ \A u \in Tasks : st[u] = IF u \in W THEN "READY" ELSE status[u]
      /\ que = AddAll(q, threads, W, prio)
      /\ rem = [remaining EXCEPT ![curr] = @ - 1]
      /\ pr = prio
      /\ pcs = pc
  BY DEF Woken
<1>4. \A u \in W : u \in Tasks /\ InQueue(threads, u) /\ status[u] = "WAITING"
  BY <1>3, WaitersAre
<1>5. CallState(t, st, que, rem, pr, pcs)
  <2>1. rem \in [Tasks -> Int]
    BY <1>2, <1>3 DEF IInv, TypeOK
  <2>2. /\ q \in Seq(Tasks) /\ threads \in Seq(Tasks) /\ prio \in [Tasks -> Prios]
        /\ Sorted(q, prio)
    BY DEF IInv, TypeOK, QueueInv
  <2>3. /\ que \in Seq(Tasks) /\ Sorted(que, pr)
        /\ \A u : InQueue(que, u) <=> InQueue(q, u) \/ (u \in W /\ InQueue(threads, u))
    BY <1>3, <2>2, AddAllIs
  <2>4. \A u \in Tasks : InQueue(que, u) => pcs[u] # "none"
    BY <1>3, <2>3 DEF IInv, QueueInv, CreatedInv
  <2>5. \A u \in Tasks : /\ st[u] = "READY" => InQueue(que, u)
                         /\ st[u] = "RUNNING" => curr = u
                         /\ st[u] = "NEW" => pcs[u] = "none"
    BY <1>3, <1>4, <2>3 DEF IInv, StatusInv
  <2> QED BY <1>3, <2>1, <2>3, <2>4, <2>5 DEF CallState, IInv, TypeOK
<1>6. prio' = pr /\ Left(t, pcs)
  BY <1>1, <1>3 DEF Signal, SoExec, Left, TaskPcs, IInv, TypeOK
<1> QED BY <1>5, <1>6

(* so_signal, whatever number of threads it wakes.                         *)
LEMMA SignalInv ==
  ASSUME IInv, NEW t \in Tasks, NEW d \in Devices, Signal(t, d)
  PROVE  IInv'
<1>1. pc[t] = "user" /\ calls' \in 0 .. MaxCalls
  BY ConstantsOK DEF Signal, Calls, IInv, TypeOK
<1>2. curr = t /\ sched = "live" /\ threads # <<>> /\ mainPc # "forking" /\ curr \in Tasks
  BY <1>1, UserIs
<1>3. PICK W, st, que, rem, pr, pcs :
         Woken(d, W, st, que, rem, pr, pcs) /\ Verif(st, que, rem, pr)
  BY SignalHands
<1>4. /\ W = Waiters(d)
      /\ \A u \in W : u \in Tasks /\ InQueue(threads, u) /\ status[u] = "WAITING"
  BY <1>3, WaitersAre DEF Woken
<1>5. CallState(t, st, que, rem, pr, pcs) /\ prio' = pr /\ Left(t, pcs)
  BY <1>3, SignalState
<1>7. /\ q' \in Seq(Tasks) /\ curr' \in Tasks /\ done' \in 0 .. 1
      /\ status' \in [Tasks -> Statuses] /\ remaining' \in [Tasks -> Int]
      /\ inExec' \in [Tasks -> Nat] /\ pc' \in [Tasks -> TaskPcs]
      /\ Tokens' /\ QueueInv' /\ StatusInv'
  BY <1>1, <1>3, <1>5, VerifStep
<1>8. /\ UNCHANGED <<sched, threads, prio, mainPc>>
      /\ io' = [u \in Tasks |-> IF u \in W THEN NumEvents ELSE io[u]]
  BY <1>4 DEF Signal
<1>9. TypeOK'
  <2>1. io' \in [Tasks -> 0 .. NumEvents]
    BY <1>8, ConstantsOK DEF IInv, TypeOK
  <2> QED BY <1>1, <1>7, <1>8, <2>1 DEF IInv, TypeOK
<1>10. CreatedInv' /\ MainInv'
  <2>1. \A u \in Tasks : pc'[u] # "none" <=> pc[u] # "none"
    BY <1>1 DEF Signal, SoExec, IInv, TypeOK
  <2> QED BY <1>2, <1>8, <2>1 DEF IInv, CreatedInv, MainInv
<1> QED BY <1>7, <1>9, <1>10 DEF IInv

(* The end of a handler: what it hands to verif.                         *)
LEMMA TerminateState ==
  ASSUME IInv, NEW t \in Tasks, Terminate(t),
         NEW st, NEW que, NEW rem, NEW pr, NEW pcs,
         st = [status EXCEPT ![t] = "TERMINATED"],
         que = q,
         rem = remaining,
         pr = prio,
         pcs = pc
  PROVE  CallState(t, st, que, rem, pr, pcs) /\ prio' = pr /\ Left(t, pcs)
<1>1. pc[t] = "user"
  BY DEF Terminate
<1>2. curr = t /\ sched = "live" /\ threads # <<>> /\ mainPc # "forking" /\ curr \in Tasks
  BY <1>1, UserIs
<1>3. /\ st = [status EXCEPT ![t] = "TERMINATED"]
      /\ que = q
      /\ rem = remaining
      /\ pr = prio
      /\ pcs = pc
  OBVIOUS
<1>4. CallState(t, st, que, rem, pr, pcs)
  <2>1. st \in [Tasks -> Statuses]
    BY <1>3 DEF IInv, TypeOK, Statuses
  <2>2. Sorted(que, pr) /\ \A u \in Tasks : InQueue(que, u) => pcs[u] # "none"
    BY <1>3 DEF IInv, QueueInv
  <2>3. \A u \in Tasks : /\ st[u] = "READY" => InQueue(que, u)
                         /\ st[u] = "RUNNING" => curr = u
                         /\ st[u] = "NEW" => pcs[u] = "none"
    BY <1>3 DEF IInv, TypeOK, StatusInv
  <2> QED BY <1>3, <2>1, <2>2, <2>3 DEF CallState, IInv, TypeOK
<1>5. prio' = pr /\ Left(t, pcs)
  BY <1>1, <1>3 DEF Terminate, Left, TaskPcs, IInv, TypeOK
<1> QED BY <1>4, <1>5

(* The end of a handler.                                                   *)
LEMMA TerminateInv ==
  ASSUME IInv, NEW t \in Tasks, Terminate(t)
  PROVE  IInv'
<1>1. pc[t] = "user"
  BY DEF Terminate
<1>2. curr = t /\ sched = "live" /\ threads # <<>> /\ mainPc # "forking" /\ curr \in Tasks
  BY <1>1, UserIs
<1>3. PICK st, que, rem, pr, pcs :
         /\ st = [status EXCEPT ![t] = "TERMINATED"] /\ que = q /\ rem = remaining
         /\ pr = prio /\ pcs = pc
         /\ Verif(st, que, rem, pr)
  BY DEF Terminate, Verif, Dispatch, Continue, PostDone, MustYield, Outranked
<1>4. CallState(t, st, que, rem, pr, pcs) /\ prio' = pr /\ Left(t, pcs)
  BY <1>3, TerminateState
<1>6. /\ q' \in Seq(Tasks) /\ curr' \in Tasks /\ done' \in 0 .. 1
      /\ status' \in [Tasks -> Statuses] /\ remaining' \in [Tasks -> Int]
      /\ inExec' \in [Tasks -> Nat] /\ pc' \in [Tasks -> TaskPcs]
      /\ Tokens' /\ QueueInv' /\ StatusInv'
  BY <1>1, <1>3, <1>4, VerifStep
<1>7. UNCHANGED <<sched, threads, prio, io, mainPc, calls>>
  BY DEF Terminate
<1>8. TypeOK'
  BY <1>6, <1>7 DEF IInv, TypeOK
<1>9. CreatedInv' /\ MainInv'
  <2>1. \A u \in Tasks : pc'[u] # "none" <=> pc[u] # "none"
    BY <1>1 DEF Terminate, IInv, TypeOK
  <2> QED BY <1>2, <1>7, <2>1 DEF IInv, CreatedInv, MainInv
<1> QED BY <1>6, <1>8, <1>9 DEF IInv

(* The first so_fork: nothing is current, so verif dispatches the thread.  *)
LEMMA MainForkInv ==
  ASSUME IInv, NEW n \in Tasks, NEW p \in Prios, MainFork(n, p)
  PROVE  IInv'
<1>1. /\ mainPc = "forking" /\ pc[n] = "none" /\ sched = "live" /\ threads = <<>>
      /\ done = 0 /\ curr = NoTask /\ q = <<>>
  BY DEF MainFork, NewThread, IInv, MainInv, CreatedInv
<1>2. \A u \in Tasks : /\ pc[u] = "none" /\ inExec[u] = 0
                       /\ status[u] # "READY" /\ status[u] # "RUNNING"
  <2>1. \A u : ~ InQueue(<<>>, u)
    BY DEF InQueue
  <2> QED BY <1>1, <2>1, ConstantsOK DEF IInv, CreatedInv, Tokens, StatusInv
<1>3. PICK st, que, pr :
         /\ st = [status EXCEPT ![n] = "READY"] /\ que = AddThread(q, n, pr)
         /\ pr = [prio EXCEPT ![n] = p]
         /\ Verif(st, que, remaining, pr)
  BY DEF MainFork, Verif, Dispatch, Continue, PostDone, MustYield, Outranked
<1>4. /\ pr \in [Tasks -> Prios] /\ que \in Seq(Tasks) /\ Sorted(que, pr) /\ que # <<>>
      /\ \A u : InQueue(que, u) <=> u = n \/ InQueue(q, u)
  BY <1>1, <1>3, NewThreadIs
<1>5. /\ st \in [Tasks -> Statuses] /\ inExec \in [Tasks -> Nat]
      /\ remaining \in [Tasks -> Int]
  BY <1>3 DEF IInv, TypeOK, Statuses
<1>6. Dispatch(st, que, remaining)
  BY <1>1, <1>3, <1>4 DEF Verif, MustYield
<1>7. PICK rem : rem = remaining /\ Dispatch(st, que, rem)
  BY <1>6 DEF Dispatch
<1>8. /\ q' \in Seq(Tasks) /\ Sorted(q', pr) /\ curr' \in Tasks
      /\ status' \in [Tasks -> Statuses] /\ remaining' \in [Tasks -> Int]
      /\ inExec' \in [Tasks -> Nat]
      /\ inExec' = [inExec EXCEPT ![curr'] = @ + 1] /\ done' = done
      /\ \A i \in 1 .. Len(q') : pr[q'[i]] <= pr[curr']
      /\ InQueue(que, curr')
      /\ \A u : InQueue(q', u) => InQueue(que, u)
      /\ \A u \in Tasks : u # curr' /\ InQueue(que, u) => InQueue(q', u)
      /\ status' = [st EXCEPT ![curr'] = "RUNNING"]
  BY <1>4, <1>5, <1>7, DispatchIs
<1>9. curr' = n /\ \A u : InQueue(q', u) => u = n
  <2>1. \A u : ~ InQueue(<<>>, u)
    BY DEF InQueue
  <2> QED BY <1>1, <1>4, <1>8, <2>1
<1>10. /\ UNCHANGED <<sched, calls>> /\ threads' = Append(threads, n)
       /\ prio' = pr /\ io' = [io EXCEPT ![n] = NumEvents]
       /\ pc' = [pc EXCEPT ![n] = "blocked"] /\ mainPc' = "user"
  BY <1>3 DEF MainFork, NewThread
<1>11. /\ threads' \in Seq(Tasks) /\ threads' # <<>>
       /\ \A u : InQueue(threads', u) <=> u = n \/ InQueue(threads, u)
  BY <1>10, AppendIs DEF IInv, TypeOK
<1>12. pc' \in [Tasks -> TaskPcs] /\ io' \in [Tasks -> 0 .. NumEvents]
  BY <1>10, ConstantsOK DEF IInv, TypeOK, TaskPcs
<1>13. TypeOK'
  BY <1>1, <1>4, <1>8, <1>10, <1>11, <1>12 DEF IInv, TypeOK, MainPcs
<1>14. \A u \in Tasks : /\ pc'[u] = IF u = n THEN "blocked" ELSE "none"
                        /\ inExec'[u] = IF u = n THEN 1 ELSE 0
  BY <1>2, <1>5, <1>8, <1>9, <1>10 DEF IInv, TypeOK
<1>15. Tokens'
  BY <1>1, <1>8, <1>9, <1>14 DEF Tokens, Holds
<1>16. QueueInv'
  BY <1>8, <1>9, <1>10, <1>14 DEF QueueInv, Holds
<1>17. StatusInv'
  <2>1. \A u \in Tasks : u # n => status'[u] = status[u]
    BY <1>3, <1>8, <1>9 DEF IInv, TypeOK
  <2>2. status'[n] = "RUNNING"
    BY <1>5, <1>8, <1>9
  <2>3. done' = 0
    BY <1>1, <1>8
  <2>4. ASSUME NEW u \in Tasks
        PROVE  /\ status'[u] # "READY" /\ (status'[u] = "RUNNING" => curr' = u)
               /\ (status'[u] = "NEW" => pc'[u] = "none")
    BY <1>2, <1>9, <1>14, <2>1, <2>2, <2>4
  <2> QED BY <2>3, <2>4 DEF StatusInv
<1>18. CreatedInv' /\ MainInv'
  <2>1. \A u : ~ InQueue(<<>>, u)
    BY DEF InQueue
  <2> QED BY <1>1, <1>10, <1>11, <1>14, <2>1 DEF CreatedInv, MainInv
<1> QED BY <1>13, <1>15, <1>16, <1>17, <1>18 DEF IInv

(* A thread passes its sem_wait: it keeps the token it was handed.         *)
LEMMA ResumeInv ==
  ASSUME IInv, NEW t \in Tasks, Resume(t)
  PROVE  IInv'
<1>1. /\ pc[t] = "blocked" /\ inExec[t] = 1 /\ curr = t /\ done = 0
      /\ inExec' = [inExec EXCEPT ![t] = @ - 1] /\ pc' = [pc EXCEPT ![t] = "user"]
      /\ UNCHANGED <<sched, done, threads, q, curr, status, prio, io, remaining,
                     mainPc, calls>>
  BY DEF Resume, IInv, Tokens, Holds
<1>2. TypeOK'
  BY <1>1 DEF IInv, TypeOK, TaskPcs
<1>3. /\ inExec'[t] = 0 /\ pc'[t] = "user" /\ Holds(t)
      /\ \A u \in Tasks \ {t} : inExec'[u] = inExec[u] /\ pc'[u] = pc[u]
  BY <1>1 DEF IInv, TypeOK, Holds
<1>4. Tokens'
  BY <1>1, <1>3 DEF IInv, Tokens, Holds
<1>5. \A u \in Tasks : (pc'[u] = "none" <=> pc[u] = "none") /\ (Holds(u)' => Holds(u))
  BY <1>1, <1>3 DEF Holds
<1>6. QueueInv'
  <2>1. \A u : InQueue(q, u) => u \in Tasks
    BY DEF IInv, TypeOK, InQueue
  <2> QED BY <1>1, <1>5, <2>1 DEF IInv, QueueInv
<1>7. StatusInv'
  BY <1>1, <1>5 DEF IInv, StatusInv
<1>8. CreatedInv' /\ MainInv'
  BY <1>1, <1>5 DEF IInv, CreatedInv, MainInv
<1> QED BY <1>2, <1>4, <1>6, <1>7, <1>8 DEF IInv

(* The last two instructions of a thread that ended touch no token.        *)
LEMMA LeaveInv ==
  ASSUME IInv, NEW t \in Tasks, SelfPost(t) \/ Exit(t)
  PROVE  IInv'
<1>1. /\ pc[t] \in {"posting", "leaving"} /\ pc'[t] \in {"leaving", "exited"}
      /\ pc' \in [Tasks -> TaskPcs] /\ inExec' \in [Tasks -> Nat]
      /\ \A u \in Tasks \ {t} : inExec'[u] = inExec[u] /\ pc'[u] = pc[u]
      /\ UNCHANGED <<sched, done, threads, q, curr, status, prio, io, remaining,
                     mainPc, calls>>
  <2>1. pc \in [Tasks -> TaskPcs] /\ inExec \in [Tasks -> Nat]
    BY DEF IInv, TypeOK
  <2>2. CASE SelfPost(t)
    BY <2>1, <2>2 DEF SelfPost, TaskPcs
  <2>3. CASE Exit(t)
    BY <2>1, <2>3 DEF Exit, heap, TaskPcs
  <2> QED BY <2>2, <2>3
<1>2. TypeOK'
  BY <1>1 DEF IInv, TypeOK
<1>3. \A u \in Tasks : (pc'[u] = "none" <=> pc[u] = "none") /\ (Holds(u)' => Holds(u))
  BY <1>1 DEF Holds
<1>4. Tokens'
  BY <1>1, <1>3 DEF IInv, Tokens, Holds
<1>5. QueueInv'
  <2>1. \A u : InQueue(q, u) => u \in Tasks
    BY DEF IInv, TypeOK, InQueue
  <2> QED BY <1>1, <1>3, <2>1 DEF IInv, QueueInv
<1>6. StatusInv'
  BY <1>1, <1>3 DEF IInv, StatusInv
<1>7. CreatedInv' /\ MainInv'
  BY <1>1, <1>3 DEF IInv, CreatedInv, MainInv
<1> QED BY <1>2, <1>4, <1>5, <1>6, <1>7 DEF IInv

(* The steps of main other than its fork and the final free move at most   *)
(* the token of done.                                                      *)
LEMMA MainStepInv ==
  ASSUME IInv, SoInit \/ MainForkTake \/ MainForkFails \/ SoEnd \/ SoEndWait
  PROVE  IInv'
<1>1. /\ UNCHANGED <<threads, q, curr, status, prio, io, remaining, inExec, pc, calls>>
      /\ sched' \in {"null", "live"} /\ done' \in 0 .. 1 /\ mainPc' \in MainPcs
      /\ done' > done => sched = "null"
  <2>1. CASE SoInit
    BY <2>1 DEF SoInit, IInv, TypeOK, MainInv, CreatedInv
  <2>2. CASE MainForkTake \/ MainForkFails \/ SoEnd \/ SoEndWait
    BY <2>2 DEF MainForkTake, MainForkFails, SoEnd, SoEndWait, heap, IInv, TypeOK, MainPcs
  <2> QED BY <2>1, <2>2
<1>2. TypeOK'
  BY <1>1 DEF IInv, TypeOK
<1>3. sched = "null" => /\ q = <<>>
                        /\ \A u \in Tasks : ~ Holds(u) /\ status[u] # "RUNNING"
  <2>1. \A u : ~ InQueue(<<>>, u)
    BY DEF InQueue
  <2> QED BY <2>1, ConstantsOK DEF IInv, MainInv, CreatedInv, StatusInv, Holds
<1>4. \A u \in Tasks : Holds(u)' <=> Holds(u)
  BY <1>1 DEF Holds
<1>5. done' > 0 => sched = "null" \/ done > 0
  BY <1>1 DEF IInv, TypeOK
<1>6. done > 0 => \A u \in Tasks : ~ Holds(u)
  BY DEF IInv, Tokens
<1>7. done' \in 0 .. 1 /\ \A u \in Tasks : Holds(u) => done' = 0
  BY <1>1, <1>3, <1>5, <1>6
<1>8. Tokens'
  BY <1>1, <1>4, <1>7 DEF IInv, Tokens
<1>9. QueueInv'
  BY <1>1, <1>4 DEF IInv, QueueInv
<1>10. StatusInv'
  BY <1>1, <1>3, <1>5 DEF IInv, StatusInv
<1>11. CreatedInv' /\ MainInv'
  BY <1>1 DEF IInv, CreatedInv, MainInv, TypeOK, SoInit, MainForkTake, MainForkFails,
              SoEnd, SoEndWait, heap
<1> QED BY <1>2, <1>8, <1>9, <1>10, <1>11 DEF IInv

(* The free at the end of so_end: every listed thread has exited, and only *)
(* listed threads exist.                                                   *)
LEMMA SoEndFreeInv ==
  ASSUME IInv, SoEndFree
  PROVE  IInv'
<1>1. \A u \in Tasks : pc[u] \in {"none", "exited"}
  BY DEF SoEndFree, AllJoined, IInv, CreatedInv, InQueue
<1>2. /\ sched' = "null" /\ done' = 0 /\ threads' = <<>> /\ q' = <<>>
      /\ curr' = NoTask /\ mainPc' = "user"
      /\ \A u \in Tasks : pc'[u] = "none" /\ inExec'[u] = 0 /\ status'[u] = "NEW"
  BY <1>1 DEF SoEndFree
<1>3. pc' = [u \in Tasks |-> "none"]
  BY <1>1 DEF SoEndFree
<1>4. TypeOK'
  BY <1>3, ConstantsOK DEF SoEndFree, IInv, TypeOK, Statuses, Prios, TaskPcs, MainPcs
<1>5. \A u : ~ InQueue(<<>>, u)
  BY DEF InQueue
<1>6. Tokens' /\ QueueInv' /\ StatusInv'
  BY <1>2, <1>5 DEF Tokens, QueueInv, StatusInv, Sorted, Holds
<1>7. CreatedInv' /\ MainInv'
  BY <1>2, <1>5 DEF CreatedInv, MainInv
<1> QED BY <1>4, <1>6, <1>7 DEF IInv

(* A refused call uses up a call and nothing else.                         *)
LEMMA RefusedInv ==
  ASSUME IInv, NEW t \in Tasks, Refused(t)
  PROVE  IInv'
<1>1. /\ UNCHANGED <<sched, done, threads, q, curr, status, prio, io, remaining,
                     inExec, pc, mainPc>>
      /\ calls' \in 0 .. MaxCalls
  BY ConstantsOK DEF Refused, Calls, heap, IInv, TypeOK
<1> QED BY <1>1 DEF IInv, TypeOK, Tokens, QueueInv, StatusInv, CreatedInv, MainInv, Holds

(* Every step of the specification preserves the invariant.                *)
LEMMA NextInv == IInv /\ [Next]_vars => IInv'
<1> SUFFICES ASSUME IInv, [Next]_vars PROVE IInv'
  OBVIOUS
<1>1. CASE SoInit \/ MainForkTake \/ MainForkFails \/ SoEnd \/ SoEndWait
  BY <1>1, MainStepInv
<1>2. CASE SoEndFree
  BY <1>2, SoEndFreeInv
<1>3. ASSUME NEW n \in Tasks, NEW p \in Prios, MainFork(n, p) PROVE IInv'
  BY <1>3, MainForkInv
<1>4. ASSUME NEW t \in Tasks, TaskNext(t) PROVE IInv'
  <2>1. CASE Resume(t)
    BY <2>1, ResumeInv
  <2>2. CASE Exec(t)
    BY <2>2, ExecInv
  <2>3. CASE Refused(t)
    BY <2>3, RefusedInv
  <2>4. CASE Terminate(t)
    BY <2>4, TerminateInv
  <2>5. CASE SelfPost(t) \/ Exit(t)
    BY <2>5, LeaveInv
  <2>6. ASSUME NEW n \in Tasks, NEW p \in Prios, Fork(t, n, p) PROVE IInv'
    BY <2>6, ForkInv
  <2>7. ASSUME NEW d \in Devices, Wait(t, d) PROVE IInv'
    BY <2>7, WaitInv
  <2>8. ASSUME NEW d \in Devices, Signal(t, d) PROVE IInv'
    BY <2>8, SignalInv
  <2> QED BY <1>4, <2>1, <2>2, <2>3, <2>4, <2>5, <2>6, <2>7, <2>8 DEF TaskNext
<1>5. CASE UNCHANGED vars
  <2>1. UNCHANGED <<sched, done, threads, q, curr, status, prio, io, remaining,
                    inExec, pc, mainPc, calls>>
    BY <1>5 DEF vars, heap
  <2> QED BY <2>1 DEF IInv, TypeOK, Tokens, QueueInv, StatusInv, CreatedInv, MainInv, Holds
<1> QED BY <1>1, <1>2, <1>3, <1>4, <1>5 DEF Next, MainNext

(* The invariant holds in every reachable state.                           *)
THEOREM Invariance == Spec => []IInv
<1> QED BY InitInv, NextInv, PTL DEF Spec
---------------------------------------------------------------------------
(* What follows, for every number of threads, priorities, devices, calls   *)
(* and quanta, with failing allocations and lone so_wait calls allowed.    *)

(* The types; done is never posted above the one token of so_init.         *)
THEOREM TypeCorrect == Spec => []TypeOK
<1>1. IInv => TypeOK
  BY DEF IInv
<1> QED BY <1>1, Invariance, PTL

(* Two handlers never run at once although no call takes a lock.           *)
THEOREM Exclusive == Spec => []MutualExclusion
<1>1. IInv => MutualExclusion
  BY DEF IInv, Tokens, Holds, MutualExclusion
<1> QED BY <1>1, Invariance, PTL

(* The thread in its handler is sched->curr_thread.                        *)
THEOREM RunsCurrent == Spec => []RunnerIsCurrent
<1>1. IInv => RunnerIsCurrent
  BY DEF IInv, Tokens, RunnerIsCurrent
<1> QED BY <1>1, Invariance, PTL

(* The queue is sorted and nothing in it outranks the thread that runs.    *)
THEOREM RespectsPriority == Spec => []PriorityRespected
<1>1. IInv => PriorityRespected
  BY DEF IInv, QueueInv, Sorted, Holds, PriorityRespected
<1> QED BY <1>1, Invariance, PTL

(* done is posted only when no thread is ready or running.                 *)
THEOREM DonePostedLast == Spec => []DoneIsLast
<1>1. IInv => DoneIsLast
  <2> SUFFICES ASSUME IInv, done > 0, NEW i \in 1 .. Len(threads)
               PROVE  status[threads[i]] \in {"WAITING", "TERMINATED"}
    BY DEF DoneIsLast
  <2>1. threads[i] \in Tasks /\ InQueue(threads, threads[i])
    BY DEF IInv, TypeOK, InQueue
  <2>2. pc[threads[i]] # "none" /\ q = <<>>
    BY <2>1 DEF IInv, CreatedInv, StatusInv
  <2>3. ~ InQueue(q, threads[i])
    BY <2>2 DEF InQueue
  <2> QED BY <2>1, <2>2, <2>3 DEF IInv, TypeOK, StatusInv, Statuses
<1> QED BY <1>1, Invariance, PTL

(* so_end frees the scheduler only after every thread has returned.        *)
THEOREM FreedLast == Spec => []NoUseAfterFree
<1>1. IInv => NoUseAfterFree
  <2>1. \A u : ~ InQueue(<<>>, u)
    BY DEF InQueue
  <2> QED BY <2>1 DEF IInv, MainInv, CreatedInv, NoUseAfterFree
<1> QED BY <1>1, Invariance, PTL
---------------------------------------------------------------------------
(* Whose turn it is: what SoScheduler promises when no handler calls       *)
(* so_wait alone (~LoneWait).  The scheduler implements OneProcessor,      *)
(* threads of one priority are served first come, first served, and no     *)
(* thread outlives its quantum while an equal waits.  The invariant above  *)
(* is strengthened with exact statuses and with sequences that name no     *)
(* thread twice.                                                           *)

Distinct(que) == \A i, j \in 1 .. Len(que) : que[i] = que[j] => i = j

(* x is behind y: the last thread of a queue is dispatched first.          *)
Before(que, x, y) == \E i, j \in 1 .. Len(que) : i < j /\ que[i] = x /\ que[j] = y

(* Nobody who enters between a and b, or stays, passes an equal of a.      *)
KeepsBehind(a, b, pr) ==
  \A x, y \in Tasks :
    ( /\ x # y /\ pr[x] = pr[y]
      /\ InQueue(a, y) /\ (InQueue(a, x) => Before(a, x, y)) /\ InQueue(b, x) )
    => Before(b, x, y)
---------------------------------------------------------------------------
(* The order of the queue.                                                 *)

(* add_thread puts a new thread behind its equals and keeps the others in  *)
(* their order.                                                            *)
LEMMA AddThreadKeeps ==
  ASSUME NEW que \in Seq(Tasks), NEW pr \in [Tasks -> Prios], NEW t \in Tasks,
         ~ InQueue(que, t), Distinct(que)
  PROVE  /\ Distinct(AddThread(que, t, pr))
         /\ KeepsBehind(que, AddThread(que, t, pr), pr)
<1> DEFINE i == SlotFor(que, pr[t], pr)
           A == AddThread(que, t, pr)
<1>1. /\ i \in 1 .. Len(que) + 1
      /\ \A k \in 1 .. i - 1 : pr[que[k]] < pr[t]
      /\ i <= Len(que) => pr[que[i]] >= pr[t]
  BY SlotForIs
<1> HIDE DEF i
<1>2. A = [k \in 1 .. Len(que) + 1 |->
             IF k < i THEN que[k] ELSE IF k = i THEN t ELSE que[k - 1]]
  BY DEF AddThread, i
<1>3. /\ A \in Seq(Tasks) /\ Len(A) = Len(que) + 1
      /\ \A u : InQueue(A, u) <=> u = t \/ InQueue(que, u)
  BY AddThreadIs
<1> HIDE DEF A
<1>4. \A k \in 1 .. Len(que) : que[k] # t /\ que[k] \in Tasks
  BY DEF InQueue
<1>5. \A k \in 1 .. Len(que) + 1 :
        /\ k < i => A[k] = que[k] /\ k \in 1 .. Len(que)
        /\ k = i => A[k] = t
        /\ k > i => A[k] = que[k - 1] /\ k - 1 \in 1 .. Len(que)
  BY <1>1, <1>2
<1>6. Distinct(A)
  <2> SUFFICES ASSUME NEW k \in 1 .. Len(que) + 1, NEW l \in 1 .. Len(que) + 1, A[k] = A[l]
               PROVE  k = l
    BY <1>3 DEF Distinct
  <2>1. \A a, b \in 1 .. Len(que) : que[a] = que[b] => a = b
    BY DEF Distinct
  <2>2. CASE k < i
    <3>1. A[k] = que[k] /\ k \in 1 .. Len(que)
      BY <1>5, <2>2
    <3>2. CASE l < i
      BY <1>5, <2>1, <3>1, <3>2
    <3>3. CASE l = i
      BY <1>4, <1>5, <3>1, <3>3
    <3>4. CASE l > i
      <4>1. A[l] = que[l - 1] /\ l - 1 \in 1 .. Len(que)
        BY <1>5, <3>4
      <4>2. k = l - 1
        BY <2>1, <3>1, <4>1
      <4> QED BY <1>1, <2>2, <3>4, <4>2
    <3> QED BY <1>1, <3>2, <3>3, <3>4
  <2>3. CASE k = i
    BY <1>1, <1>4, <1>5, <2>3
  <2>4. CASE k > i
    <3>1. A[k] = que[k - 1] /\ k - 1 \in 1 .. Len(que)
      BY <1>5, <2>4
    <3>2. CASE l < i
      <4>1. A[l] = que[l] /\ l \in 1 .. Len(que)
        BY <1>5, <3>2
      <4>2. l = k - 1
        BY <2>1, <3>1, <4>1
      <4> QED BY <1>1, <2>4, <3>2, <4>2
    <3>3. CASE l = i
      BY <1>4, <1>5, <3>1, <3>3
    <3>4. CASE l > i
      <4>1. A[l] = que[l - 1] /\ l - 1 \in 1 .. Len(que)
        BY <1>5, <3>4
      <4>2. k - 1 = l - 1
        BY <2>1, <3>1, <4>1
      <4> QED BY <4>2
    <3> QED BY <1>1, <3>2, <3>3, <3>4
  <2> QED BY <1>1, <2>2, <2>3, <2>4
<1>7. ASSUME NEW k \in 1 .. Len(que)
      PROVE  /\ k < i => A[k] = que[k]
             /\ k >= i => A[k + 1] = que[k]
             /\ k + 1 \in 1 .. Len(que) + 1
  <2>1. k \in 1 .. Len(que) + 1 /\ k + 1 \in 1 .. Len(que) + 1 /\ (k + 1) - 1 = k
    OBVIOUS
  <2> QED BY <1>1, <1>5, <2>1
<1>8. ASSUME NEW x \in Tasks, NEW y \in Tasks, x # y, pr[x] = pr[y], InQueue(que, y),
             InQueue(que, x) => Before(que, x, y), InQueue(A, x)
      PROVE  Before(A, x, y)
  <2>1. CASE x = t
    <3>1. PICK k \in 1 .. Len(que) : que[k] = y
      BY <1>8 DEF InQueue
    <3>2. pr[que[k]] \in Int /\ pr[t] \in Int /\ ~ (pr[que[k]] < pr[t])
      BY <1>8, <2>1, <3>1, ConstantsOK DEF Prios
    <3>3. k >= i
      BY <1>1, <3>2
    <3>4. A[i] = x /\ A[k + 1] = y /\ i < k + 1 /\ i \in 1 .. Len(A) /\ k + 1 \in 1 .. Len(A)
      BY <1>1, <1>3, <1>5, <1>7, <2>1, <3>1, <3>3
    <3> QED BY <3>4 DEF Before
  <2>2. CASE x # t
    <3>1. InQueue(que, x)
      BY <1>3, <1>8, <2>2
    <3>2. PICK k \in 1 .. Len(que), l \in 1 .. Len(que) : k < l /\ que[k] = x /\ que[l] = y
      BY <1>8, <3>1 DEF Before
    <3>3. CASE k < i /\ l < i
      <4>1. k \in 1 .. Len(A) /\ l \in 1 .. Len(A) /\ A[k] = x /\ A[l] = y
        BY <1>3, <1>7, <3>2, <3>3
      <4> QED BY <3>2, <4>1 DEF Before
    <3>4. CASE k < i /\ l >= i
      <4>1. k \in 1 .. Len(A) /\ l + 1 \in 1 .. Len(A) /\ A[k] = x /\ A[l + 1] = y /\ k < l + 1
        BY <1>3, <1>7, <3>2, <3>4
      <4> QED BY <4>1 DEF Before
    <3>5. CASE k >= i
      <4>1. l >= i
        BY <1>1, <3>2, <3>5
      <4>2. /\ k + 1 \in 1 .. Len(A) /\ l + 1 \in 1 .. Len(A) /\ A[k + 1] = x /\ A[l + 1] = y
            /\ k + 1 < l + 1
        BY <1>3, <1>7, <3>2, <3>5, <4>1
      <4> QED BY <4>2 DEF Before
    <3> QED BY <1>1, <3>2, <3>3, <3>4, <3>5
  <2> QED BY <2>1, <2>2
<1>9. KeepsBehind(que, A, pr)
  BY <1>8 DEF KeepsBehind
<1> QED BY <1>6, <1>9 DEF A

(* Additions one after the other keep what each of them keeps.             *)
LEMMA KeepsTwice ==
  ASSUME NEW a, NEW b, NEW c, NEW pr,
         KeepsBehind(a, b, pr), KeepsBehind(b, c, pr),
         \A u : InQueue(a, u) => InQueue(b, u)
  PROVE  KeepsBehind(a, c, pr)
<1> SUFFICES ASSUME NEW x \in Tasks, NEW y \in Tasks, x # y, pr[x] = pr[y], InQueue(a, y),
                    InQueue(a, x) => Before(a, x, y), InQueue(c, x)
             PROVE  Before(c, x, y)
  BY DEF KeepsBehind
<1>1. InQueue(b, y)
  OBVIOUS
<1>2. InQueue(b, x) => Before(b, x, y)
  BY DEF KeepsBehind
<1> QED BY <1>1, <1>2 DEF KeepsBehind

(* The front of a queue keeps its order.                                   *)
LEMMA FrontKeeps ==
  ASSUME NEW que \in Seq(Tasks), que # <<>>, Distinct(que), NEW r,
         r = SubSeq(que, 1, Len(que) - 1)
  PROVE  /\ Distinct(r) /\ ~ InQueue(r, Top(que))
         /\ \A x, y : InQueue(r, y) /\ Before(que, x, y) => Before(r, x, y)
<1> DEFINE n == Len(que) - 1
<1>1. n \in Nat /\ 1 \in Int /\ \A i \in 1 .. n : que[i] \in Tasks
  OBVIOUS
<1>2. Len(que) = n + 1
  OBVIOUS
<1> HIDE DEF n
<1>3. /\ SubSeq(que, 1, n) \in Seq(Tasks)
      /\ Len(SubSeq(que, 1, n)) = IF 1 <= n THEN n - 1 + 1 ELSE 0
      /\ \A i \in 1 .. n - 1 + 1 : SubSeq(que, 1, n)[i] = que[1 + i - 1]
  BY <1>1, SubSeqProperties
<1>4. n - 1 + 1 = n /\ \A i \in Int : 1 + i - 1 = i
  BY <1>1
<1>5. Len(r) = n /\ \A i \in 1 .. n : r[i] = que[i]
  BY <1>1, <1>3, <1>4 DEF n
<1>6. \A i, j \in 1 .. n + 1 : que[i] = que[j] => i = j
  BY <1>2 DEF Distinct
<1>7. Distinct(r)
  BY <1>1, <1>5, <1>6 DEF Distinct
<1>8. ~ InQueue(r, Top(que))
  <2> SUFFICES ASSUME NEW i \in 1 .. n, r[i] = que[n + 1] PROVE FALSE
    BY <1>2, <1>5 DEF InQueue, Top
  <2> QED BY <1>1, <1>5, <1>6
<1>9. ASSUME NEW x, NEW y, InQueue(r, y), Before(que, x, y) PROVE Before(r, x, y)
  <2>1. PICK k \in 1 .. n : r[k] = y
    BY <1>5, <1>9 DEF InQueue
  <2>2. PICK i \in 1 .. n + 1, j \in 1 .. n + 1 : i < j /\ que[i] = x /\ que[j] = y
    BY <1>2, <1>9 DEF Before
  <2>3. j = k
    BY <1>1, <1>5, <1>6, <2>1, <2>2
  <2>4. i \in 1 .. n /\ j \in 1 .. n /\ r[i] = x /\ r[j] = y
    BY <1>1, <1>5, <2>1, <2>2, <2>3
  <2> QED BY <1>5, <2>2, <2>4 DEF Before
<1> QED BY <1>7, <1>8, <1>9
(* so_signal puts every woken thread behind its equals, whichever it wakes *)
(* first.                                                                  *)
LEMMA AddAllKeeps ==
  ASSUME NEW que \in Seq(Tasks), NEW ts \in Seq(Tasks), NEW pr \in [Tasks -> Prios],
         NEW W, Distinct(que), Distinct(ts), \A u \in W : ~ InQueue(que, u)
  PROVE  /\ Distinct(AddAll(que, ts, W, pr))
         /\ KeepsBehind(que, AddAll(que, ts, W, pr), pr)
<1> DEFINE OK(z, n) ==
      /\ z \in Seq(Tasks) /\ Distinct(z) /\ KeepsBehind(que, z, pr)
      /\ \A u : InQueue(z, u) <=> InQueue(que, u) \/ (u \in W /\ \E k \in 1 .. n : ts[k] = u)
<1>1. PICK f :
        /\ f[0] = que
        /\ \A n \in 1 .. Len(ts) :
             f[n] = IF ts[n] \in W THEN AddThread(f[n - 1], ts[n], pr) ELSE f[n - 1]
        /\ AddAll(que, ts, W, pr) = f[Len(ts)]
  BY AddAllUnfolds
<1> DEFINE U == {n \in Nat : n <= Len(ts) => OK(f[n], n)}
<1>2. 0 \in U
  <2>1. KeepsBehind(que, que, pr)
    BY DEF KeepsBehind
  <2> QED BY <1>1, <2>1
<1>3. ASSUME NEW n \in Nat, n \in U PROVE n + 1 \in U
  <2> SUFFICES ASSUME n + 1 <= Len(ts) PROVE OK(f[n + 1], n + 1)
    OBVIOUS
  <2>1. OK(f[n], n)
    BY <1>3
  <2>2. PICK x, y, z :
          /\ x = f[n] /\ y = ts[n + 1] /\ y \in Tasks /\ z = f[n + 1]
          /\ z = IF y \in W THEN AddThread(x, y, pr) ELSE x
    BY <1>1
  <2>3. /\ x \in Seq(Tasks) /\ Distinct(x) /\ KeepsBehind(que, x, pr)
        /\ \A u : InQueue(x, u) <=> InQueue(que, u) \/ (u \in W /\ \E k \in 1 .. n : ts[k] = u)
    BY <2>1, <2>2
  <2>4. 1 .. n + 1 = (1 .. n) \cup {n + 1}
    OBVIOUS
  <2>5. CASE y \in W
    <3>1. ~ \E k \in 1 .. n : ts[k] = y
      BY <2>2 DEF Distinct
    <3>2. ~ InQueue(x, y)
      BY <2>3, <2>5, <3>1
    <3>3. z = AddThread(x, y, pr)
      BY <2>2, <2>5
    <3>4. /\ Distinct(z) /\ KeepsBehind(x, z, pr) /\ z \in Seq(Tasks)
          /\ \A u : InQueue(z, u) <=> u = y \/ InQueue(x, u)
      <4>1. Distinct(AddThread(x, y, pr)) /\ KeepsBehind(x, AddThread(x, y, pr), pr)
        BY <2>2, <2>3, <3>2, AddThreadKeeps
      <4>2. /\ AddThread(x, y, pr) \in Seq(Tasks)
            /\ \A u : InQueue(AddThread(x, y, pr), u) <=> u = y \/ InQueue(x, u)
        <5>1. x \in Seq(Tasks) /\ y \in Tasks
          BY <2>2, <2>3
        <5> QED BY <5>1, AddThreadIs
      <4> QED BY <3>3, <4>1, <4>2
    <3>5. KeepsBehind(que, z, pr)
      BY <2>3, <3>4, KeepsTwice
    <3>6. \A u : InQueue(z, u) <=> InQueue(que, u) \/ (u \in W /\ \E k \in 1 .. n + 1 : ts[k] = u)
      BY <2>2, <2>3, <2>4, <2>5, <3>4
    <3> QED BY <2>2, <3>4, <3>5, <3>6
  <2>6. CASE y \notin W
    BY <2>2, <2>3, <2>4, <2>6
  <2> QED BY <2>5, <2>6
<1> HIDE DEF U
<1>4. Len(ts) \in U
  BY <1>2, <1>3, SetInduction
<1>5. OK(f[Len(ts)], Len(ts))
  BY <1>4 DEF U
<1>6. AddAll(que, ts, W, pr) = f[Len(ts)]
  BY <1>1
<1> QED BY <1>5, <1>6
---------------------------------------------------------------------------
(* verif.                                                                  *)

(* The thread that gets the processor leaves the queue, outranks nobody    *)
(* less than it should, and starts a quantum.                              *)
LEMMA DispatchGives ==
  ASSUME NEW st \in [Tasks -> Statuses], NEW que \in Seq(Tasks), que # <<>>,
         NEW rem \in [Tasks -> Int], NEW pr \in [Tasks -> Prios],
         inExec \in [Tasks -> Nat], Sorted(que, pr), Distinct(que),
         \A u \in Tasks : InQueue(que, u) <=> st[u] = "READY",
         \A u \in Tasks : st[u] # "RUNNING",
         Dispatch(st, que, rem)
  PROVE  /\ Distinct(q') /\ curr' \in Tasks
         /\ \A u \in Tasks : InQueue(q', u) <=> status'[u] = "READY"
         /\ st[curr'] = "READY" /\ status' = [st EXCEPT ![curr'] = "RUNNING"]
         /\ \A u \in Tasks : st[u] = "READY" => pr[u] <= pr[curr']
         /\ \A u : InQueue(q', u) => InQueue(que, u)
         /\ \A x, y : InQueue(q', y) /\ Before(que, x, y) => Before(q', x, y)
         /\ remaining'[curr'] = TimeQuantum
<1>1. /\ q' \in Seq(Tasks) /\ curr' \in Tasks
      /\ status' \in [Tasks -> Statuses]
      /\ \A i \in 1 .. Len(q') : pr[q'[i]] <= pr[curr']
      /\ InQueue(que, curr')
      /\ \A u : InQueue(q', u) => InQueue(que, u)
      /\ \A u \in Tasks : u # curr' /\ InQueue(que, u) => InQueue(q', u)
      /\ status' = [st EXCEPT ![curr'] = "RUNNING"]
  <2>1. \A u \in Tasks : st[u] = "READY" => InQueue(que, u)
    OBVIOUS
  <2> QED BY <2>1, DispatchIs
<1>2. /\ curr' = Top(que) /\ q' = SubSeq(que, 1, Len(que) - 1)
      /\ remaining' = [rem EXCEPT ![Top(que)] = TimeQuantum]
  BY DEF Dispatch
<1>3. /\ Distinct(q') /\ ~ InQueue(q', curr')
      /\ \A x, y : InQueue(q', y) /\ Before(que, x, y) => Before(q', x, y)
  BY <1>2, FrontKeeps
<1>4. ASSUME NEW u \in Tasks PROVE InQueue(q', u) <=> status'[u] = "READY"
  BY <1>1, <1>3
<1>5. ASSUME NEW u \in Tasks, st[u] = "READY" PROVE pr[u] <= pr[curr']
  <2>1. CASE u = curr'
    <3>1. pr[u] \in Int
      BY ConstantsOK DEF Prios
    <3> QED BY <2>1, <3>1
  <2>2. CASE u # curr'
    <3>1. InQueue(q', u)
      BY <1>1, <1>5, <2>2
    <3> QED BY <1>1, <3>1 DEF InQueue
  <2> QED BY <2>1, <2>2
<1>6. st[curr'] = "READY"
  BY <1>1
<1>7. remaining'[curr'] = TimeQuantum
  BY <1>1, <1>2
<1> QED BY <1>1, <1>3, <1>4, <1>5, <1>6, <1>7

(* The statuses verif chooses among: a caller that can go on is ready.     *)
Yielded(st, t) == [st EXCEPT ![t] = IF @ = "RUNNING" THEN "READY" ELSE @]

(* What verif does with them for a caller t that does not wait alone.  The *)
(* processor goes to a ready thread of the highest priority, if there is   *)
(* one; the queue holds the others, in order; and the caller keeps the     *)
(* processor against an equal only while its quantum lasts.                *)
Turned(st, que, rem, pr, t) ==
  /\ Distinct(q')
  /\ \A u \in Tasks : InQueue(q', u) <=> status'[u] = "READY"
  /\ \/ /\ \A u \in Tasks : Yielded(st, t)[u] # "READY"
        /\ status' = Yielded(st, t) /\ curr' = t /\ inExec' = inExec
        /\ st[t] = "TERMINATED"
     \/ /\ curr' \in Tasks /\ Yielded(st, t)[curr'] = "READY"
        /\ \A u \in Tasks : Yielded(st, t)[u] = "READY" => pr[u] <= pr[curr']
        /\ status' = [Yielded(st, t) EXCEPT ![curr'] = "RUNNING"]
  /\ \A x, y \in Tasks :
       ( /\ x # y /\ pr[x] = pr[y]
         /\ InQueue(que, y) /\ InQueue(q', y) /\ InQueue(q', x)
         /\ InQueue(que, x) => Before(que, x, y) )
       => Before(q', x, y)
  /\ curr' # t => remaining'[curr'] = TimeQuantum
  /\ curr' = t /\ status'[t] # "TERMINATED" /\ q' # <<>> /\ pr[Top(q')] = pr[t]
       => remaining'[t] = rem[t] /\ rem[t] > 0

(* Every run of verif for such a caller does that.                         *)
LEMMA VerifGives ==
  ASSUME NEW st \in [Tasks -> Statuses], NEW que \in Seq(Tasks),
         NEW rem \in [Tasks -> Int], NEW pr \in [Tasks -> Prios],
         NEW t \in Tasks, curr = t, inExec \in [Tasks -> Nat],
         Sorted(que, pr), Distinct(que),
         \A u \in Tasks : InQueue(que, u) <=> st[u] = "READY",
         \A u \in Tasks : st[u] = "RUNNING" => u = t,
         st[t] \in {"RUNNING", "WAITING", "TERMINATED"},
         que = <<>> => st[t] # "WAITING",
         Verif(st, que, rem, pr)
  PROVE  Turned(st, que, rem, pr, t)
<1>0. curr # NoTask /\ \A u : ~ InQueue(<<>>, u)
  BY ConstantsOK DEF InQueue
<1> USE DEF Turned
<1>1. CASE que = <<>> /\ st[curr] = "TERMINATED" /\ PostDone(st, que, rem)
  <2>1. q' = que /\ status' = st /\ curr' = t /\ inExec' = inExec
    BY <1>1 DEF PostDone
  <2>2. Yielded(st, t) = st
    BY <1>1 DEF Yielded
  <2>3. \A u \in Tasks : st[u] # "READY"
    BY <1>0, <1>1
  <2> QED BY <1>0, <1>1, <2>1, <2>2, <2>3
<1>2. CASE que = <<>> /\ st[curr] # "TERMINATED" /\ Continue(st, que, rem)
  <2>1. q' = que /\ status' = st /\ curr' = t /\ st[t] = "RUNNING"
    BY <1>2 DEF Continue
  <2>2. /\ Yielded(st, t)[t] = "READY" /\ [Yielded(st, t) EXCEPT ![t] = "RUNNING"] = st
        /\ \A u \in Tasks : Yielded(st, t)[u] = "READY" => u = t
    <3>1. \A u \in Tasks : st[u] # "READY"
      BY <1>0, <1>2
    <3>2. Yielded(st, t) = [st EXCEPT ![t] = "READY"]
      BY <2>1 DEF Yielded
    <3> QED BY <2>1, <3>1, <3>2
  <2>3. pr[t] <= pr[t]
    BY ConstantsOK DEF Prios
  <2> QED BY <1>0, <1>2, <2>1, <2>2, <2>3
<1>3. CASE que # <<>> /\ MustYield(st) /\ Dispatch(st, que, rem)
  <2>1. st[t] \in {"WAITING", "TERMINATED"} /\ \A u \in Tasks : st[u] # "RUNNING"
    BY <1>0, <1>3 DEF MustYield
  <2>2. Yielded(st, t) = st
    BY <2>1 DEF Yielded
  <2>3. /\ Distinct(q') /\ curr' \in Tasks
        /\ \A u \in Tasks : InQueue(q', u) <=> status'[u] = "READY"
        /\ st[curr'] = "READY" /\ status' = [st EXCEPT ![curr'] = "RUNNING"]
        /\ \A u \in Tasks : st[u] = "READY" => pr[u] <= pr[curr']
        /\ \A x, y : InQueue(q', y) /\ Before(que, x, y) => Before(q', x, y)
        /\ remaining'[curr'] = TimeQuantum
        /\ \A u : InQueue(q', u) => InQueue(que, u)
    BY <1>3, <2>1, DispatchGives
  <2>4. curr' # t
    BY <2>1, <2>3
  <2> QED BY <2>2, <2>3, <2>4
<1>4. CASE /\ que # <<>> /\ ~MustYield(st) /\ Outranked(que, rem, pr)
           /\ Dispatch([st EXCEPT ![curr] = "READY"], AddThread(que, curr, pr), rem)
  <2>1. st[t] = "RUNNING" /\ Yielded(st, t) = [st EXCEPT ![curr] = "READY"]
    BY <1>4 DEF MustYield, Yielded
  <2>2. PICK s2, q2 : s2 = Yielded(st, t) /\ q2 = AddThread(que, t, pr)
    OBVIOUS
  <2>3. ~ InQueue(que, t)
    BY <2>1
  <2>4. /\ q2 \in Seq(Tasks) /\ Len(q2) = Len(que) + 1 /\ Sorted(q2, pr)
        /\ \A u : InQueue(q2, u) <=> u = t \/ InQueue(que, u)
    BY <2>2, AddThreadIs
  <2>5. Distinct(q2) /\ KeepsBehind(que, q2, pr)
    BY <2>2, <2>3, AddThreadKeeps
  <2>6. /\ s2 \in [Tasks -> Statuses] /\ \A u \in Tasks : s2[u] # "RUNNING"
        /\ s2[t] = "READY" /\ \A u \in Tasks : u # t => s2[u] = st[u]
    BY <2>1, <2>2 DEF Yielded, Statuses
  <2>7. \A u \in Tasks : InQueue(q2, u) <=> s2[u] = "READY"
    BY <2>4, <2>6
  <2>8. q2 # <<>> /\ Dispatch(s2, q2, rem)
    BY <1>4, <2>1, <2>2, <2>4
  <2>9. /\ Distinct(q') /\ curr' \in Tasks
        /\ \A u \in Tasks : InQueue(q', u) <=> status'[u] = "READY"
        /\ s2[curr'] = "READY" /\ status' = [s2 EXCEPT ![curr'] = "RUNNING"]
        /\ \A u \in Tasks : s2[u] = "READY" => pr[u] <= pr[curr']
        /\ \A x, y : InQueue(q', y) /\ Before(q2, x, y) => Before(q', x, y)
        /\ remaining'[curr'] = TimeQuantum
        /\ \A u : InQueue(q', u) => InQueue(q2, u)
    BY <2>4, <2>5, <2>6, <2>7, <2>8, DispatchGives
  <2>10. ASSUME NEW x \in Tasks, NEW y \in Tasks, x # y, pr[x] = pr[y],
                InQueue(que, y), InQueue(q', y), InQueue(q', x),
                InQueue(que, x) => Before(que, x, y)
         PROVE  Before(q', x, y)
    <3>1. InQueue(q2, x)
      BY <2>9, <2>10
    <3>2. Before(q2, x, y)
      BY <2>5, <2>10, <3>1 DEF KeepsBehind
    <3> QED BY <2>9, <2>10, <3>2
  <2>11. curr' # t
    <3>1. Top(q2) # t
      <4> DEFINE i == SlotFor(que, pr[t], pr)
      <4>1. i \in 1 .. Len(que) + 1 /\ \A k \in 1 .. i - 1 : pr[que[k]] < pr[t]
        BY SlotForIs
      <4>2. pr[que[Len(que)]] >= pr[t] /\ pr[t] \in Int /\ pr[que[Len(que)]] \in Int
        BY <1>4, ConstantsOK DEF Outranked, Top, Prios
      <4> HIDE DEF i
      <4>3. i <= Len(que)
        <5>1. Len(que) \in Nat \ {0} /\ i \in Int
          BY <1>4, <4>1
        <5> SUFFICES ASSUME i > Len(que) PROVE FALSE
          BY <5>1
        <5>2. Len(que) \in 1 .. i - 1
          BY <5>1
        <5>3. pr[que[Len(que)]] < pr[t]
          BY <4>1, <5>2
        <5> QED BY <4>2, <5>3
      <4>4. q2[Len(que) + 1] = que[Len(que)]
        <5>1. q2 = [k \in 1 .. Len(que) + 1 |->
                     IF k < i THEN que[k] ELSE IF k = i THEN t ELSE que[k - 1]]
          BY <2>2 DEF AddThread, i
        <5> QED BY <1>4, <4>1, <4>3, <5>1
      <4>5. que[Len(que)] # t
        BY <1>4, <2>3 DEF InQueue
      <4> QED BY <2>4, <4>4, <4>5 DEF Top
    <3> QED BY <2>8, <3>1 DEF Dispatch
  <2> QED BY <2>2, <2>9, <2>10, <2>11
<1>5. CASE /\ que # <<>> /\ ~MustYield(st) /\ ~Outranked(que, rem, pr)
           /\ Continue(st, que, IF rem[curr] <= 0
                                THEN [rem EXCEPT ![curr] = TimeQuantum] ELSE rem)
  <2>1. /\ curr' = t /\ q' = que /\ status' = st /\ st[t] = "RUNNING"
        /\ remaining' = IF rem[t] <= 0 THEN [rem EXCEPT ![t] = TimeQuantum] ELSE rem
    BY <1>5 DEF MustYield, Continue
  <2>2. /\ Yielded(st, t)[t] = "READY" /\ [Yielded(st, t) EXCEPT ![t] = "RUNNING"] = st
        /\ \A u \in Tasks : u # t => Yielded(st, t)[u] = st[u]
    BY <2>1 DEF Yielded
  <2>3. Top(que) \in Tasks /\ pr[Top(que)] <= pr[t]
    BY <1>5, ConstantsOK DEF Outranked, Top, Prios
  <2>4. ASSUME NEW u \in Tasks, Yielded(st, t)[u] = "READY" PROVE pr[u] <= pr[t]
    <3>1. pr[u] \in Int /\ pr[Top(que)] \in Int /\ pr[t] \in Int
      BY <2>3, ConstantsOK DEF Prios
    <3>2. CASE u # t
      <4>1. PICK i \in 1 .. Len(que) : que[i] = u
        BY <2>2, <2>4, <3>2 DEF InQueue
      <4>2. Len(que) \in 1 .. Len(que) /\ i <= Len(que)
        OBVIOUS
      <4>3. pr[u] <= pr[Top(que)]
        BY <4>1, <4>2 DEF Sorted, Top
      <4> QED BY <2>3, <3>1, <4>3
    <3> QED BY <3>1, <3>2
  <2>5. pr[Top(que)] = pr[t] => remaining'[t] = rem[t] /\ rem[t] > 0
    BY <1>5, <2>1 DEF Outranked
  <2> QED BY <2>1, <2>2, <2>4, <2>5
<1> QED BY <1>0, <1>1, <1>2, <1>3, <1>4, <1>5 DEF Verif
---------------------------------------------------------------------------
(* The invariant.                                                          *)

(* A thread's status says where it is: in the queue exactly when ready,    *)
(* running when it holds the processor, new before its fork, terminated    *)
(* once out of its handler; and only a waiting thread names a device.      *)
Placed ==
  \A t \in Tasks :
    /\ Holds(t) => status[t] = "RUNNING"
    /\ InQueue(q, t) <=> status[t] = "READY"
    /\ status[t] = "NEW" <=> pc[t] = "none"
    /\ pc[t] \in {"leaving", "posting", "exited"} => status[t] = "TERMINATED"
    /\ status[t] # "WAITING" => io[t] = NumEvents

(* No thread is queued twice or listed twice.                              *)
Once == Distinct(q) /\ Distinct(threads)

(* The current thread has time left while an equal is next.                *)
TimeLeft ==
  \A t \in Tasks :
    curr = t /\ status[t] # "TERMINATED" /\ q # <<>> /\ prio[Top(q)] = prio[t]
      => remaining[t] >= 1

TurnInv == IInv /\ Placed /\ Once /\ TimeLeft

(* What a call of t that does not wait alone hands to verif, besides what  *)
(* CallState says.                                                         *)
CallTurn(t, st, que, rem, pr, pcs) ==
  /\ Distinct(que)
  /\ \A u \in Tasks : InQueue(que, u) <=> st[u] = "READY"
  /\ \A u \in Tasks : st[u] = "RUNNING" => u = t
  /\ st[t] \in {"RUNNING", "WAITING", "TERMINATED"}
  /\ que = <<>> => st[t] # "WAITING"
  /\ \A u \in Tasks : st[u] = "NEW" <=> pcs[u] = "none"
  /\ \A u \in Tasks \ {t} :
       pcs[u] \in {"leaving", "posting", "exited"} => st[u] = "TERMINATED"
  /\ KeepsBehind(q, que, pr) /\ \A u : InQueue(q, u) => InQueue(que, u)
  /\ rem[t] <= remaining[t]

(* The processor goes to a ready thread of the highest priority.           *)
Given(st, t, pr) ==
  \/ /\ \A u \in Tasks : Yielded(st, t)[u] # "READY"
     /\ status' = Yielded(st, t)
  \/ \E v \in Tasks :
       /\ Yielded(st, t)[v] = "READY"
       /\ \A u \in Tasks : Yielded(st, t)[u] = "READY" => pr[u] <= pr[v]
       /\ status' = [Yielded(st, t) EXCEPT ![v] = "RUNNING"]

(* In a queue without repetitions a thread has one place.                  *)
LEMMA PlaceIs ==
  ASSUME NEW que \in Seq(Tasks), Distinct(que), NEW x, NEW y,
         InQueue(que, x), InQueue(que, y)
  PROVE  Place(que, x) < Place(que, y) <=> Before(que, x, y)
<1>1. /\ Place(que, x) \in 1 .. Len(que) /\ que[Place(que, x)] = x
      /\ Place(que, y) \in 1 .. Len(que) /\ que[Place(que, y)] = y
  BY DEF Place, InQueue
<1>2. \A i, j \in 1 .. Len(que) : que[i] = que[j] => i = j
  BY DEF Distinct
<1> QED BY <1>1, <1>2 DEF Before

(* A call of a thread that does not wait alone.                            *)
LEMMA CallStep ==
  ASSUME TurnInv, IInv', NEW t \in Tasks, pc[t] = "user",
         NEW st, NEW que, NEW rem, NEW pr, NEW pcs,
         CallState(t, st, que, rem, pr, pcs), CallTurn(t, st, que, rem, pr, pcs),
         Verif(st, que, rem, pr), prio' = pr, Left(t, pcs),
         pc'[t] \in {"leaving", "posting"} => st[t] = "TERMINATED",
         \A u \in Tasks : st[u] # "WAITING" => io'[u] = NumEvents,
         Distinct(threads')
  PROVE  TurnInv' /\ FifoStep /\ QuantumStep /\ Given(st, t, pr)
<1>1. /\ curr = t /\ inExec \in [Tasks -> Nat] /\ inExec[t] = 0
      /\ remaining \in [Tasks -> Int] /\ q \in Seq(Tasks)
      /\ \A u \in Tasks : u # t => ~ Holds(u)
  BY DEF TurnInv, IInv, TypeOK, Tokens, Holds
<1>2. \A u \in Tasks : pc[u] \in {"blocked", "user", "none"} => inExec[u] = 0
  <2> SUFFICES ASSUME NEW u \in Tasks, pc[u] = "blocked" PROVE inExec[u] = 0
    BY DEF TurnInv, IInv, Tokens
  <2>1. u # t /\ inExec[u] \in Nat /\ ~ Holds(u)
    BY <1>1
  <2> QED BY <2>1 DEF Holds
<1>3. /\ st \in [Tasks -> Statuses] /\ que \in Seq(Tasks) /\ rem \in [Tasks -> Int]
      /\ pr \in [Tasks -> Prios] /\ Sorted(que, pr)
      /\ \A u \in Tasks : pcs[u] = pc[u] \/ (pc[u] = "none" /\ pcs[u] = "blocked")
  BY DEF CallState
<1>4. /\ Distinct(que)
      /\ \A u \in Tasks : InQueue(que, u) <=> st[u] = "READY"
      /\ \A u \in Tasks : st[u] = "RUNNING" => u = t
      /\ st[t] \in {"RUNNING", "WAITING", "TERMINATED"}
      /\ que = <<>> => st[t] # "WAITING"
      /\ \A u \in Tasks : st[u] = "NEW" <=> pcs[u] = "none"
      /\ \A u \in Tasks \ {t} :
           pcs[u] \in {"leaving", "posting", "exited"} => st[u] = "TERMINATED"
      /\ KeepsBehind(q, que, pr) /\ \A u : InQueue(q, u) => InQueue(que, u)
      /\ rem[t] <= remaining[t]
  BY DEF CallTurn
<1>0. Turned(st, que, rem, pr, t)
  BY <1>1, <1>3, <1>4, VerifGives
<1>5. /\ Distinct(q')
      /\ \A u \in Tasks : InQueue(q', u) <=> status'[u] = "READY"
      /\ \/ /\ \A u \in Tasks : Yielded(st, t)[u] # "READY"
            /\ status' = Yielded(st, t) /\ curr' = t /\ inExec' = inExec
            /\ st[t] = "TERMINATED"
         \/ /\ curr' \in Tasks /\ Yielded(st, t)[curr'] = "READY"
            /\ \A u \in Tasks : Yielded(st, t)[u] = "READY" => pr[u] <= pr[curr']
            /\ status' = [Yielded(st, t) EXCEPT ![curr'] = "RUNNING"]
      /\ \A x, y \in Tasks :
           ( /\ x # y /\ pr[x] = pr[y]
             /\ InQueue(que, y) /\ InQueue(q', y) /\ InQueue(q', x)
             /\ InQueue(que, x) => Before(que, x, y) )
           => Before(q', x, y)
      /\ curr' # t => remaining'[curr'] = TimeQuantum
      /\ curr' = t /\ status'[t] # "TERMINATED" /\ q' # <<>> /\ pr[Top(q')] = pr[t]
           => remaining'[t] = rem[t] /\ rem[t] > 0
  BY <1>0 DEF Turned
<1>6. Given(st, t, pr)
  BY <1>5 DEF Given
<1>7. /\ Yielded(st, t) \in [Tasks -> Statuses]
      /\ Yielded(st, t)[t] \in {"READY", "WAITING", "TERMINATED"}
      /\ Yielded(st, t)[t] = "READY" <=> st[t] = "RUNNING"
      /\ \A u \in Tasks : u # t => Yielded(st, t)[u] = st[u]
  BY <1>3, <1>4 DEF Yielded, Statuses
<1>8. ASSUME NEW u \in Tasks
      PROVE  /\ status'[u] = "NEW" <=> st[u] = "NEW"
             /\ st[u] = "TERMINATED" => status'[u] = "TERMINATED"
             /\ status'[u] # "WAITING" => st[u] # "WAITING"
  <2>1. \/ status'[u] = Yielded(st, t)[u]
        \/ status'[u] = "RUNNING" /\ Yielded(st, t)[u] = "READY"
    BY <1>5, <1>7
  <2>2. \/ Yielded(st, t)[u] = st[u]
        \/ Yielded(st, t)[u] = "READY" /\ st[u] = "RUNNING"
    BY <1>3, <1>7 DEF Yielded
  <2> QED BY <2>1, <2>2
<1>9. \A u \in Tasks : pc'[u] = "blocked" => inExec[u] = 0
  BY <1>1, <1>2, <1>3 DEF Left
<1>10. \A u \in Tasks : Holds(u)' => status'[u] = "RUNNING"
  <2> SUFFICES ASSUME NEW u \in Tasks, Holds(u)' PROVE status'[u] = "RUNNING"
    OBVIOUS
  <2>1. pc'[u] = "blocked" /\ inExec'[u] > 0 /\ curr' = u
    <3>1. pc'[u] # "user"
      BY <1>1, <1>3 DEF Left, Holds
    <3> QED BY <3>1 DEF IInv, Tokens, Holds
  <2>2. inExec' # inExec
    BY <1>9, <2>1
  <2>3. status' = [Yielded(st, t) EXCEPT ![curr'] = "RUNNING"]
    BY <1>5, <2>2
  <2> QED BY <1>7, <2>1, <2>3
<1>11. ASSUME NEW u \in Tasks
       PROVE  /\ status'[u] = "NEW" <=> pc'[u] = "none"
              /\ pc'[u] \in {"leaving", "posting", "exited"} => status'[u] = "TERMINATED"
              /\ status'[u] # "WAITING" => io'[u] = NumEvents
  <2>1. CASE u = t
    BY <1>4, <1>8, <2>1 DEF Left
  <2>2. CASE u # t
    BY <1>4, <1>8, <2>2 DEF Left
  <2> QED BY <2>1, <2>2
<1>12. Placed'
  BY <1>5, <1>10, <1>11 DEF Placed
<1>13. Once'
  BY <1>5 DEF Once
<1>14. TimeLeft'
  <2> SUFFICES ASSUME NEW u \in Tasks, curr' = u, status'[u] # "TERMINATED", q' # <<>>,
                      pr[Top(q')] = pr[u]
               PROVE  remaining'[u] >= 1
    BY DEF TimeLeft, Top
  <2>1. CASE u = t
    BY <1>3, <1>5, <2>1
  <2>2. CASE u # t
    BY <1>5, <2>2, ConstantsOK
  <2> QED BY <2>1, <2>2
<1>15. FifoStep
  <2> SUFFICES ASSUME NEW x \in Tasks, NEW y \in Tasks, x # y, pr[x] = pr[y],
                      InQueue(q, y), InQueue(q', y), InQueue(q', x),
                      InQueue(q, x) => Place(q, x) < Place(q, y)
               PROVE  Place(q', x) < Place(q', y)
    BY DEF FifoStep
  <2>1. InQueue(q, x) => Before(q, x, y)
    BY <1>1, PlaceIs DEF TurnInv, Once
  <2>2. InQueue(que, x) => Before(que, x, y)
    BY <1>4, <2>1 DEF KeepsBehind
  <2>3. Before(q', x, y)
    BY <1>4, <1>5, <2>2
  <2>4. q' \in Seq(Tasks)
    BY DEF IInv, TypeOK
  <2> QED BY <1>5, <2>3, <2>4, PlaceIs
<1>16. QuantumStep
  <2> SUFFICES ASSUME curr' = t, status'[t] # "TERMINATED", q' # <<>>, pr[Top(q')] = pr[t]
               PROVE  remaining'[t] \in 1 .. remaining[t]
    BY <1>1 DEF QuantumStep, Top
  <2> QED BY <1>1, <1>3, <1>4, <1>5
<1> QED BY <1>6, <1>12, <1>13, <1>14, <1>15, <1>16 DEF TurnInv
---------------------------------------------------------------------------
(* The refinement mapping.                                                 *)

Abs(st) == [u \in Tasks |-> AbstractState[st[u]]]

(* The mapping tells the five statuses apart.                              *)
LEMMA AbsIs ==
  ASSUME NEW st \in [Tasks -> Statuses], NEW u \in Tasks
  PROVE  /\ Abs(st)[u] = "absent" <=> st[u] = "NEW"
         /\ Abs(st)[u] = "ready" <=> st[u] = "READY"
         /\ Abs(st)[u] = "running" <=> st[u] = "RUNNING"
         /\ Abs(st)[u] = "waiting" <=> st[u] = "WAITING"
         /\ Abs(st)[u] = "finished" <=> st[u] = "TERMINATED"
<1>1. /\ AbstractState["NEW"] = "absent" /\ AbstractState["READY"] = "ready"
      /\ AbstractState["RUNNING"] = "running" /\ AbstractState["WAITING"] = "waiting"
      /\ AbstractState["TERMINATED"] = "finished"
  BY DEF AbstractState
<1>2. Abs(st)[u] = AbstractState[st[u]]
  BY DEF Abs
<1>3. st[u] \in {"NEW", "READY", "RUNNING", "WAITING", "TERMINATED"}
  BY DEF Statuses
<1>4. CASE st[u] = "NEW"
  BY <1>1, <1>2, <1>4
<1>5. CASE st[u] = "READY"
  BY <1>1, <1>2, <1>5
<1>6. CASE st[u] = "RUNNING"
  BY <1>1, <1>2, <1>6
<1>7. CASE st[u] = "WAITING"
  BY <1>1, <1>2, <1>7
<1>8. CASE st[u] = "TERMINATED"
  BY <1>1, <1>2, <1>8
<1> QED BY <1>3, <1>4, <1>5, <1>6, <1>7, <1>8

(* The choice of verif is a choice the processor has.                      *)
LEMMA GiveIs ==
  ASSUME NEW st \in [Tasks -> Statuses], NEW t \in Tasks, NEW pr \in [Tasks -> Prios],
         Given(st, t, pr), NEW s, s = Abs(Yielded(st, t))
  PROVE  Processor!Give(s, pr)
<1>1. PICK Y : Y = Yielded(st, t) /\ Y \in [Tasks -> Statuses]
  <2>1. Yielded(st, t) \in [Tasks -> Statuses]
    BY DEF Yielded, Statuses
  <2> QED BY <2>1
<1>2. \A u \in Tasks : s[u] = "ready" <=> Y[u] = "READY"
  BY <1>1, AbsIs
<1>3. CASE (\A u \in Tasks : Y[u] # "READY") /\ status' = Y
  <2>1. {u \in Tasks : s[u] = "ready"} = {}
    BY <1>2, <1>3
  <2>2. [u \in Tasks |-> AbstractState[status'[u]]] = s
    BY <1>1, <1>3 DEF Abs
  <2> QED BY <2>1, <2>2 DEF Processor!Give
<1>4. ASSUME NEW v \in Tasks, Y[v] = "READY", \A u \in Tasks : Y[u] = "READY" => pr[u] <= pr[v],
             status' = [Y EXCEPT ![v] = "RUNNING"]
      PROVE  Processor!Give(s, pr)
  <2>1. v \in {x \in {u \in Tasks : s[u] = "ready"} :
                 \A u \in {w \in Tasks : s[w] = "ready"} : pr[u] <= pr[x]}
    BY <1>2, <1>4
  <2>2. [u \in Tasks |-> AbstractState[status'[u]]] = Processor!Moved(s, {v}, "running")
    <3>1. AbstractState["RUNNING"] = "running"
      BY DEF AbstractState
    <3>2. \A u \in Tasks : s[u] = AbstractState[Y[u]]
      BY <1>1 DEF Abs
    <3>3. \A u \in Tasks : status'[u] = IF u = v THEN "RUNNING" ELSE Y[u]
      BY <1>1, <1>4
    <3>4. \A u \in Tasks : AbstractState[status'[u]] = IF u \in {v} THEN "running" ELSE s[u]
      BY <3>1, <3>2, <3>3
    <3> QED BY <3>4 DEF Processor!Moved
  <2> QED BY <2>1, <2>2 DEF Processor!Give
<1> QED BY <1>1, <1>3, <1>4 DEF Given
---------------------------------------------------------------------------
(* One lemma per call: the invariant, the order, the quantum, and a step   *)
(* of OneProcessor.                                                        *)

(* A thread in its handler is the one that runs, and nobody else does.     *)
LEMMA RunnerIs ==
  ASSUME TurnInv, NEW t \in Tasks, pc[t] = "user"
  PROVE  /\ curr = t /\ status[t] = "RUNNING" /\ ~ InQueue(q, t)
         /\ \A u \in Tasks : status[u] = "RUNNING" => u = t
         /\ \A u \in Tasks : InQueue(q, u) <=> status[u] = "READY"
         /\ \A u \in Tasks : status[u] = "NEW" <=> pc[u] = "none"
         /\ \A u \in Tasks :
              pc[u] \in {"leaving", "posting", "exited"} => status[u] = "TERMINATED"
         /\ \A u \in Tasks : status[u] # "WAITING" => io[u] = NumEvents
         /\ status \in [Tasks -> Statuses] /\ prio \in [Tasks -> Prios]
         /\ remaining \in [Tasks -> Int] /\ io \in [Tasks -> 0 .. NumEvents]
         /\ q \in Seq(Tasks) /\ threads \in Seq(Tasks)
         /\ Distinct(q) /\ Distinct(threads) /\ KeepsBehind(q, q, prio)
<1>1. Holds(t)
  BY DEF Holds
<1>2. curr = t /\ \A u \in Tasks : status[u] = "RUNNING" => u = t
  BY <1>1 DEF TurnInv, IInv, Tokens, StatusInv
<1>3. status[t] = "RUNNING" /\ ~ InQueue(q, t)
  BY <1>1 DEF TurnInv, Placed
<1>4. KeepsBehind(q, q, prio)
  BY DEF KeepsBehind
<1> QED BY <1>2, <1>3, <1>4 DEF TurnInv, IInv, TypeOK, Placed, Once

(* so_exec spends time.                                                    *)
LEMMA ExecTurn ==
  ASSUME TurnInv, IInv', NEW t \in Tasks, Exec(t)
  PROVE  TurnInv' /\ FifoStep /\ QuantumStep /\ Processor!Next
<1>1. pc[t] = "user" /\ UNCHANGED <<threads, prio, io>>
  BY DEF Exec, Calls
<1>2. PICK st, que, rem, pr, pcs :
         /\ st = status /\ que = q /\ rem = [remaining EXCEPT ![curr] = @ - 1]
         /\ pr = prio /\ pcs = pc
         /\ Verif(st, que, rem, pr)
  BY DEF Exec, SoExec, Verif, Dispatch, Continue, PostDone, MustYield, Outranked
<1>3. CallState(t, st, que, rem, pr, pcs) /\ prio' = pr /\ Left(t, pcs)
  BY <1>2, ExecState DEF TurnInv
<1>4. CallTurn(t, st, que, rem, pr, pcs)
  <2>1. rem[t] <= remaining[t]
    BY <1>1, <1>2, RunnerIs
  <2> QED BY <1>1, <1>2, <2>1, RunnerIs DEF CallTurn
<1>5. /\ pc'[t] \in {"leaving", "posting"} => st[t] = "TERMINATED"
      /\ \A u \in Tasks : st[u] # "WAITING" => io'[u] = NumEvents
      /\ Distinct(threads')
  <2>1. pc'[t] = "blocked"
    BY DEF Exec, SoExec, TurnInv, IInv, TypeOK
  <2> QED BY <1>1, <1>2, <2>1, RunnerIs
<1>6. TurnInv' /\ FifoStep /\ QuantumStep /\ Given(st, t, pr)
  BY <1>1, <1>2, <1>3, <1>4, <1>5, CallStep
<1>7. Processor!Spend(t)
  <2>1. Processor!Moved(Abs(status), {t}, "ready") = Abs(Yielded(st, t))
    <3>1. AbstractState["READY"] = "ready"
      BY DEF AbstractState
    <3>2. \A u \in Tasks : Yielded(st, t)[u] = IF u = t THEN "READY" ELSE status[u]
      BY <1>1, <1>2, RunnerIs DEF Yielded
    <3> QED BY <3>1, <3>2 DEF Abs, Processor!Moved
  <2>2. Processor!Give(Processor!Moved(Abs(status), {t}, "ready"), prio)
    <3>1. PICK s : s = Abs(Yielded(st, t))
      OBVIOUS
    <3>2. st \in [Tasks -> Statuses] /\ pr \in [Tasks -> Prios]
      BY <1>1, <1>2, RunnerIs
    <3>3. Processor!Give(s, pr)
      BY <1>6, <3>1, <3>2, GiveIs
    <3> QED BY <1>2, <2>1, <3>1, <3>3 DEF Processor!Give
  <2>3. Abs(status)[t] = "running"
    BY <1>1, AbsIs, RunnerIs
  <2> QED BY <1>1, <2>2, <2>3 DEF Processor!Spend, Abs
<1> QED BY <1>6, <1>7 DEF Processor!Next

(* so_fork adds a thread behind its equals.                                *)
LEMMA ForkTurn ==
  ASSUME TurnInv, IInv', NEW t \in Tasks, NEW n \in Tasks, NEW p \in Prios, Fork(t, n, p)
  PROVE  TurnInv' /\ FifoStep /\ QuantumStep /\ Processor!Next
<1>1. /\ pc[t] = "user" /\ pc[n] = "none" /\ n # t /\ threads' = Append(threads, n)
      /\ prio' = [prio EXCEPT ![n] = p] /\ io' = [io EXCEPT ![n] = NumEvents]
  BY DEF Fork, Calls, NewThread
<1>2a. PICK st, que, rem, pr, pcs :
         Forks(n, p, st, que, rem, pr, pcs) /\ Verif(st, que, rem, pr)
  BY DEF Forks, Fork, SoExec, Verif, Dispatch, Continue, PostDone, MustYield, Outranked
<1>2. /\ st = [status EXCEPT ![n] = "READY"] /\ que = AddThread(q, n, pr)
      /\ rem = [remaining EXCEPT ![curr] = @ - 1]
      /\ pr = [prio EXCEPT ![n] = p] /\ pcs = [pc EXCEPT ![n] = "blocked"]
      /\ Verif(st, que, rem, pr)
  BY <1>2a DEF Forks
<1>3. CallState(t, st, que, rem, pr, pcs) /\ prio' = pr /\ Left(t, pcs)
  BY <1>2a, ForkState DEF TurnInv
<1>4. status[n] = "NEW" /\ ~ InQueue(q, n) /\ io[n] = NumEvents /\ ~ InQueue(threads, n)
  BY <1>1, RunnerIs DEF TurnInv, IInv, CreatedInv
<1>5. /\ pr \in [Tasks -> Prios]
      /\ Distinct(que) /\ KeepsBehind(q, que, pr)
      /\ \A u : InQueue(que, u) <=> u = n \/ InQueue(q, u)
  <2>1. pr \in [Tasks -> Prios] /\ q \in Seq(Tasks) /\ Distinct(q)
    BY <1>1, <1>2, RunnerIs
  <2>2. Distinct(AddThread(q, n, pr)) /\ KeepsBehind(q, AddThread(q, n, pr), pr)
    BY <1>4, <2>1, AddThreadKeeps
  <2>3. \A u : InQueue(AddThread(q, n, pr), u) <=> u = n \/ InQueue(q, u)
    BY <2>1, AddThreadIs
  <2> QED BY <1>2, <2>1, <2>2, <2>3
<1>6. \A u \in Tasks : /\ st[u] = IF u = n THEN "READY" ELSE status[u]
                       /\ pcs[u] = IF u = n THEN "blocked" ELSE pc[u]
  BY <1>1, <1>2, RunnerIs DEF TurnInv, IInv, TypeOK
<1>7. CallTurn(t, st, que, rem, pr, pcs)
  <2>1. rem[t] <= remaining[t]
    BY <1>1, <1>2, RunnerIs
  <2>2. \A u \in Tasks : InQueue(que, u) <=> st[u] = "READY"
    BY <1>1, <1>5, <1>6, RunnerIs
  <2>3. st[t] = "RUNNING" /\ \A u \in Tasks : st[u] = "RUNNING" => u = t
    BY <1>1, <1>6, RunnerIs
  <2>4. \A u \in Tasks : st[u] = "NEW" <=> pcs[u] = "none"
    BY <1>1, <1>6, RunnerIs
  <2>5. \A u \in Tasks \ {t} :
           pcs[u] \in {"leaving", "posting", "exited"} => st[u] = "TERMINATED"
    BY <1>1, <1>6, RunnerIs
  <2> QED BY <1>5, <2>1, <2>2, <2>3, <2>4, <2>5 DEF CallTurn
<1>8. pc'[t] = "blocked"
  BY <1>1 DEF Fork, SoExec, TurnInv, IInv, TypeOK
<1>9. io' = io
  BY <1>1, <1>4, RunnerIs
<1>10. Distinct(threads')
  <2>1. threads \in Seq(Tasks) /\ Distinct(threads)
    BY <1>1, RunnerIs
  <2>2. /\ Len(threads') = Len(threads) + 1 /\ threads'[Len(threads) + 1] = n
        /\ \A i \in 1 .. Len(threads) : threads'[i] = threads[i] /\ threads[i] # n
    BY <1>1, <1>4, <2>1, AppendProperties DEF InQueue
  <2>3. Len(threads) \in Nat
    BY <2>1
  <2> QED BY <2>1, <2>2, <2>3 DEF Distinct
<1>11. TurnInv' /\ FifoStep /\ QuantumStep /\ Given(st, t, pr)
  <2>1. \A u \in Tasks : st[u] # "WAITING" => io'[u] = NumEvents
    BY <1>1, <1>4, <1>6, <1>9, RunnerIs
  <2> QED BY <1>1, <1>2, <1>3, <1>7, <1>8, <1>10, <2>1, CallStep
<1>12. Processor!Create(t, n, p)
  <2>1. Processor!Moved(Abs(status), {t, n}, "ready") = Abs(Yielded(st, t))
    <3>1. AbstractState["READY"] = "ready"
      BY DEF AbstractState
    <3>2. /\ st[t] = "RUNNING" /\ DOMAIN st = Tasks
      BY <1>1, <1>2, <1>6, RunnerIs
    <3>3. \A u \in Tasks : Yielded(st, t)[u] = IF u \in {t, n} THEN "READY" ELSE status[u]
      BY <1>1, <1>2, <1>6, <3>2, RunnerIs DEF Yielded
    <3> QED BY <3>1, <3>3 DEF Abs, Processor!Moved
  <2>2. Processor!Give(Processor!Moved(Abs(status), {t, n}, "ready"), prio')
    <3>1. PICK s : s = Abs(Yielded(st, t))
      OBVIOUS
    <3>2. st \in [Tasks -> Statuses]
      BY <1>3 DEF CallState
    <3>3. Processor!Give(s, pr)
      BY <1>5, <1>11, <3>1, <3>2, GiveIs
    <3> QED BY <1>3, <2>1, <3>1, <3>3 DEF Processor!Give
  <2>3. Abs(status)[t] = "running" /\ Abs(status)[n] = "absent"
    BY <1>1, <1>4, AbsIs, RunnerIs
  <2> QED BY <1>1, <1>9, <2>2, <2>3 DEF Processor!Create, Abs
<1> QED BY <1>11, <1>12 DEF Processor!Next

(* so_wait, with another thread ready, blocks its caller.                  *)
LEMMA WaitTurn ==
  ASSUME TurnInv, IInv', ~ LoneWait, NEW t \in Tasks, NEW d \in Devices, Wait(t, d)
  PROVE  TurnInv' /\ FifoStep /\ QuantumStep /\ Processor!Next
<1>1. /\ pc[t] = "user" /\ UNCHANGED <<threads, prio>> /\ q # <<>>
      /\ io' = [io EXCEPT ![t] = d]
  BY RunnerIs DEF Wait, Calls
<1>2. PICK st, que, rem, pr, pcs :
         /\ st = [status EXCEPT ![curr] = "WAITING"] /\ que = q
         /\ rem = [remaining EXCEPT ![curr] = @ - 1]
         /\ pr = prio /\ pcs = pc
         /\ Verif(st, que, rem, pr)
  BY DEF Wait, SoExec, Verif, Dispatch, Continue, PostDone, MustYield, Outranked
<1>3. CallState(t, st, que, rem, pr, pcs) /\ prio' = pr /\ Left(t, pcs)
  BY <1>2, WaitState DEF TurnInv
<1>4. \A u \in Tasks : st[u] = IF u = t THEN "WAITING" ELSE status[u]
  BY <1>1, <1>2, RunnerIs
<1>5. CallTurn(t, st, que, rem, pr, pcs)
  <2>1. rem[t] <= remaining[t]
    BY <1>1, <1>2, RunnerIs
  <2>2. \A u \in Tasks : InQueue(que, u) <=> st[u] = "READY"
    BY <1>1, <1>2, <1>4, RunnerIs
  <2>3. /\ \A u \in Tasks : st[u] = "RUNNING" => u = t
        /\ \A u \in Tasks : st[u] = "NEW" <=> pcs[u] = "none"
        /\ \A u \in Tasks \ {t} :
             pcs[u] \in {"leaving", "posting", "exited"} => st[u] = "TERMINATED"
    BY <1>1, <1>2, <1>4, RunnerIs
  <2> QED BY <1>1, <1>2, <1>4, <2>1, <2>2, <2>3, RunnerIs DEF CallTurn
<1>6. /\ pc'[t] = "blocked" /\ Distinct(threads')
      /\ \A u \in Tasks : st[u] # "WAITING" => io'[u] = NumEvents
  <2>1. pc'[t] = "blocked"
    BY DEF Wait, SoExec, TurnInv, IInv, TypeOK
  <2> QED BY <1>1, <1>4, <2>1, RunnerIs
<1>7. TurnInv' /\ FifoStep /\ QuantumStep /\ Given(st, t, pr)
  BY <1>1, <1>2, <1>3, <1>5, <1>6, CallStep
<1>8. Processor!Block(t, d)
  <2>1. Processor!Moved(Abs(status), {t}, "waiting") = Abs(Yielded(st, t))
    <3>1. AbstractState["WAITING"] = "waiting"
      BY DEF AbstractState
    <3>2. DOMAIN st = Tasks
      BY <1>1, <1>2, RunnerIs
    <3>3. \A u \in Tasks : Yielded(st, t)[u] = IF u = t THEN "WAITING" ELSE status[u]
      BY <1>4, <3>2 DEF Yielded
    <3> QED BY <3>1, <3>3 DEF Abs, Processor!Moved
  <2>2. Processor!Give(Processor!Moved(Abs(status), {t}, "waiting"), prio)
    <3>1. PICK s : s = Abs(Yielded(st, t))
      OBVIOUS
    <3>2. st \in [Tasks -> Statuses] /\ pr \in [Tasks -> Prios]
      BY <1>3 DEF CallState
    <3>3. Processor!Give(s, pr)
      BY <1>7, <3>1, <3>2, GiveIs
    <3> QED BY <1>2, <2>1, <3>1, <3>3 DEF Processor!Give
  <2>3. Abs(status)[t] = "running"
    BY <1>1, AbsIs, RunnerIs
  <2> QED BY <1>1, <2>2, <2>3 DEF Processor!Block, Abs
<1> QED BY <1>7, <1>8 DEF Processor!Next

(* so_signal wakes all the waiters of its device, and only them.           *)
LEMMA SignalTurn ==
  ASSUME TurnInv, IInv', NEW t \in Tasks, NEW d \in Devices, Signal(t, d)
  PROVE  TurnInv' /\ FifoStep /\ QuantumStep /\ Processor!Next
<1>1. pc[t] = "user" /\ UNCHANGED <<threads, prio>>
  BY DEF Signal, Calls
<1>2. PICK W, st, que, rem, pr, pcs :
         Woken(d, W, st, que, rem, pr, pcs) /\ Verif(st, que, rem, pr)
  BY SignalHands DEF TurnInv
<1>3. CallState(t, st, que, rem, pr, pcs) /\ prio' = pr /\ Left(t, pcs)
  BY <1>2, SignalState DEF TurnInv
<1>4. /\ W = Waiters(d) /\ st \in [Tasks -> Statuses]
      /\ \A u \in Tasks : st[u] = IF u \in W THEN "READY" ELSE status[u]
      /\ que = AddAll(q, threads, W, prio)
      /\ rem = [remaining EXCEPT ![curr] = @ - 1]
      /\ pr = prio /\ pcs = pc
  BY <1>2 DEF Woken
<1>5. \A u \in W : u \in Tasks /\ InQueue(threads, u) /\ status[u] = "WAITING"
  BY <1>4, WaitersAre DEF TurnInv
<1>6. ASSUME NEW u \in Tasks PROVE u \in W <=> status[u] = "WAITING" /\ io[u] = d
  <2>1. status[u] = "WAITING" => InQueue(threads, u)
    BY <1>1, RunnerIs DEF TurnInv, IInv, CreatedInv
  <2> QED BY <1>4, <2>1 DEF Waiters, InQueue
<1>7. /\ Distinct(que) /\ KeepsBehind(q, que, pr)
      /\ \A u : InQueue(que, u) <=> InQueue(q, u) \/ u \in W
  <2>1. /\ q \in Seq(Tasks) /\ threads \in Seq(Tasks) /\ prio \in [Tasks -> Prios]
        /\ Distinct(q) /\ Distinct(threads)
    BY <1>1, RunnerIs
  <2>2. \A u \in W : ~ InQueue(q, u)
    BY <1>1, <1>5, RunnerIs
  <2>3. /\ Distinct(AddAll(q, threads, W, prio))
        /\ KeepsBehind(q, AddAll(q, threads, W, prio), prio)
    BY <2>1, <2>2, AddAllKeeps
  <2>4. Sorted(q, prio)
    BY DEF TurnInv, IInv, QueueInv
  <2>5. \A u : InQueue(AddAll(q, threads, W, prio), u) <=>
               InQueue(q, u) \/ (u \in W /\ InQueue(threads, u))
    BY <2>1, <2>4, AddAllIs
  <2> QED BY <1>4, <1>5, <2>3, <2>5
<1>8. CallTurn(t, st, que, rem, pr, pcs)
  <2>1. rem[t] <= remaining[t]
    BY <1>1, <1>4, RunnerIs
  <2>2. \A u \in Tasks : InQueue(que, u) <=> st[u] = "READY"
    BY <1>1, <1>4, <1>7, RunnerIs
  <2>3. /\ \A u \in Tasks : st[u] = "RUNNING" => u = t
        /\ st[t] = "RUNNING"
        /\ \A u \in Tasks : st[u] = "NEW" <=> pcs[u] = "none"
        /\ \A u \in Tasks \ {t} :
             pcs[u] \in {"leaving", "posting", "exited"} => st[u] = "TERMINATED"
    BY <1>1, <1>4, <1>6, RunnerIs
  <2> QED BY <1>7, <2>1, <2>2, <2>3 DEF CallTurn
<1>9. \A u \in Tasks : io'[u] = IF u \in W THEN NumEvents ELSE io[u]
  BY <1>4 DEF Signal
<1>10. /\ pc'[t] = "blocked" /\ Distinct(threads')
       /\ \A u \in Tasks : st[u] # "WAITING" => io'[u] = NumEvents
  <2>1. pc'[t] = "blocked"
    BY DEF Signal, SoExec, TurnInv, IInv, TypeOK
  <2> QED BY <1>1, <1>4, <1>9, <2>1, RunnerIs
<1>11. TurnInv' /\ FifoStep /\ QuantumStep /\ Given(st, t, pr)
  BY <1>1, <1>2, <1>3, <1>8, <1>10, CallStep
<1>12. Processor!Wake(t, d)
  <2>1. W = {u \in Tasks : Abs(status)[u] = "waiting" /\ io[u] = d}
    <3>1. \A u \in Tasks : Abs(status)[u] = "waiting" <=> status[u] = "WAITING"
      BY <1>1, AbsIs, RunnerIs
    <3> QED BY <1>5, <1>6, <3>1
  <2>2. Processor!Moved(Abs(status), W \cup {t}, "ready") = Abs(Yielded(st, t))
    <3>1. AbstractState["READY"] = "ready"
      BY DEF AbstractState
    <3>2. DOMAIN st = Tasks /\ st[t] = "RUNNING"
      BY <1>1, <1>4, <1>6, RunnerIs
    <3>3. \A u \in Tasks :
            Yielded(st, t)[u] = IF u \in W \cup {t} THEN "READY" ELSE status[u]
      BY <1>4, <3>2 DEF Yielded
    <3> QED BY <3>1, <3>3 DEF Abs, Processor!Moved
  <2>3. Processor!Give(Processor!Moved(Abs(status), W \cup {t}, "ready"), prio)
    <3>1. PICK s : s = Abs(Yielded(st, t))
      OBVIOUS
    <3>2. st \in [Tasks -> Statuses] /\ pr \in [Tasks -> Prios]
      BY <1>3 DEF CallState
    <3>3. Processor!Give(s, pr)
      BY <1>11, <3>1, <3>2, GiveIs
    <3> QED BY <1>4, <2>2, <3>1, <3>3 DEF Processor!Give
  <2>4. Abs(status)[t] = "running"
    BY <1>1, AbsIs, RunnerIs
  <2>5. io' = [u \in Tasks |-> IF u \in W THEN NumEvents ELSE io[u]]
    BY <1>4 DEF Signal
  <2> QED BY <1>1, <2>1, <2>3, <2>4, <2>5 DEF Processor!Wake, Abs
<1> QED BY <1>11, <1>12 DEF Processor!Next

(* The end of a handler.                                                   *)
LEMMA TerminateTurn ==
  ASSUME TurnInv, IInv', NEW t \in Tasks, Terminate(t)
  PROVE  TurnInv' /\ FifoStep /\ QuantumStep /\ Processor!Next
<1>1. pc[t] = "user" /\ UNCHANGED <<threads, prio, io>>
  BY DEF Terminate
<1>2. PICK st, que, rem, pr, pcs :
         /\ st = [status EXCEPT ![t] = "TERMINATED"] /\ que = q /\ rem = remaining
         /\ pr = prio /\ pcs = pc
         /\ Verif(st, que, rem, pr)
  BY DEF Terminate, Verif, Dispatch, Continue, PostDone, MustYield, Outranked
<1>3. CallState(t, st, que, rem, pr, pcs) /\ prio' = pr /\ Left(t, pcs)
  BY <1>2, TerminateState DEF TurnInv
<1>4. \A u \in Tasks : st[u] = IF u = t THEN "TERMINATED" ELSE status[u]
  BY <1>1, <1>2, RunnerIs
<1>5. CallTurn(t, st, que, rem, pr, pcs)
  <2>1. rem[t] <= remaining[t]
    BY <1>1, <1>2, RunnerIs
  <2>2. \A u \in Tasks : InQueue(que, u) <=> st[u] = "READY"
    BY <1>1, <1>2, <1>4, RunnerIs
  <2>3. /\ \A u \in Tasks : st[u] = "RUNNING" => u = t
        /\ \A u \in Tasks : st[u] = "NEW" <=> pcs[u] = "none"
        /\ \A u \in Tasks \ {t} :
             pcs[u] \in {"leaving", "posting", "exited"} => st[u] = "TERMINATED"
    BY <1>1, <1>2, <1>4, RunnerIs
  <2> QED BY <1>1, <1>2, <1>4, <2>1, <2>2, <2>3, RunnerIs DEF CallTurn
<1>6. /\ st[t] = "TERMINATED" /\ Distinct(threads')
      /\ \A u \in Tasks : st[u] # "WAITING" => io'[u] = NumEvents
  BY <1>1, <1>4, RunnerIs
<1>7. TurnInv' /\ FifoStep /\ QuantumStep /\ Given(st, t, pr)
  BY <1>1, <1>2, <1>3, <1>5, <1>6, CallStep
<1>8. Processor!Finish(t)
  <2>1. Processor!Moved(Abs(status), {t}, "finished") = Abs(Yielded(st, t))
    <3>1. AbstractState["TERMINATED"] = "finished"
      BY DEF AbstractState
    <3>2. DOMAIN st = Tasks
      BY <1>1, <1>2, RunnerIs
    <3>3. \A u \in Tasks : Yielded(st, t)[u] = IF u = t THEN "TERMINATED" ELSE status[u]
      BY <1>4, <3>2 DEF Yielded
    <3> QED BY <3>1, <3>3 DEF Abs, Processor!Moved
  <2>2. Processor!Give(Processor!Moved(Abs(status), {t}, "finished"), prio)
    <3>1. PICK s : s = Abs(Yielded(st, t))
      OBVIOUS
    <3>2. st \in [Tasks -> Statuses] /\ pr \in [Tasks -> Prios]
      BY <1>3 DEF CallState
    <3>3. Processor!Give(s, pr)
      BY <1>7, <3>1, <3>2, GiveIs
    <3> QED BY <1>2, <2>1, <3>1, <3>3 DEF Processor!Give
  <2>3. Abs(status)[t] = "running"
    BY <1>1, AbsIs, RunnerIs
  <2> QED BY <1>1, <2>2, <2>3 DEF Processor!Finish, Abs
<1> QED BY <1>7, <1>8 DEF Processor!Next

(* The first so_fork: its thread gets the processor.                       *)
LEMMA MainForkTurn ==
  ASSUME TurnInv, IInv', NEW n \in Tasks, NEW p \in Prios, MainFork(n, p)
  PROVE  TurnInv' /\ FifoStep /\ QuantumStep /\ Processor!Next
<1>1. /\ pc[n] = "none" /\ threads = <<>> /\ curr = NoTask /\ q = <<>>
      /\ \A u : ~ InQueue(<<>>, u)
      /\ pc' = [pc EXCEPT ![n] = "blocked"] /\ threads' = Append(threads, n)
      /\ prio' = [prio EXCEPT ![n] = p] /\ io' = [io EXCEPT ![n] = NumEvents]
  BY DEF MainFork, NewThread, TurnInv, IInv, MainInv, CreatedInv, InQueue
<1>2. /\ status \in [Tasks -> Statuses] /\ prio \in [Tasks -> Prios]
      /\ remaining \in [Tasks -> Int] /\ io \in [Tasks -> 0 .. NumEvents]
      /\ inExec \in [Tasks -> Nat] /\ pc \in [Tasks -> TaskPcs]
      /\ q \in Seq(Tasks) /\ threads \in Seq(Tasks)
  BY DEF TurnInv, IInv, TypeOK
<1>3. \A u \in Tasks : pc[u] = "none" /\ status[u] = "NEW" /\ io[u] = NumEvents
  BY <1>1 DEF TurnInv, IInv, CreatedInv, Placed
<1>4. PICK st, que, pr :
         /\ st = [status EXCEPT ![n] = "READY"] /\ que = AddThread(q, n, pr)
         /\ pr = [prio EXCEPT ![n] = p]
         /\ Verif(st, que, remaining, pr)
  BY DEF MainFork, Verif, Dispatch, Continue, PostDone, MustYield, Outranked
<1>5. /\ pr \in [Tasks -> Prios] /\ que \in Seq(Tasks) /\ Sorted(que, pr) /\ que # <<>>
      /\ \A u : InQueue(que, u) <=> u = n \/ InQueue(q, u)
  <2>1. IInv /\ pc[n] = "none"
    BY <1>1 DEF TurnInv
  <2>2. pr = [prio EXCEPT ![n] = p] /\ que = AddThread(q, n, pr)
    BY <1>4
  <2> QED BY <2>1, <2>2, NewThreadIs
<1>6. Distinct(que)
  <2>1. Distinct(AddThread(q, n, pr))
    BY <1>1, <1>2, <1>5, AddThreadKeeps DEF TurnInv, Once
  <2> QED BY <1>4, <2>1
<1>7. /\ st \in [Tasks -> Statuses] /\ st[n] = "READY"
      /\ \A u \in Tasks : u # n => st[u] = "NEW"
  BY <1>2, <1>3, <1>4 DEF Statuses
<1>8. Dispatch(st, que, remaining)
  BY <1>1, <1>4, <1>5 DEF Verif, MustYield
<1>9. /\ Distinct(q') /\ curr' \in Tasks
      /\ \A u \in Tasks : InQueue(q', u) <=> status'[u] = "READY"
      /\ st[curr'] = "READY" /\ status' = [st EXCEPT ![curr'] = "RUNNING"]
      /\ remaining'[curr'] = TimeQuantum
  <2>1. \A u \in Tasks : InQueue(que, u) <=> st[u] = "READY"
    BY <1>1, <1>5, <1>7
  <2>2. \A u \in Tasks : st[u] # "RUNNING"
    BY <1>7
  <2> QED BY <1>2, <1>5, <1>6, <1>7, <1>8, <2>1, <2>2, DispatchGives
<1>10. curr' = n
  BY <1>7, <1>9
<1>11. \A u \in Tasks : status'[u] = IF u = n THEN "RUNNING" ELSE "NEW"
  BY <1>7, <1>9, <1>10
<1>12. io' = io
  BY <1>1, <1>2, <1>3
<1>13. Placed'
  <2>1. \A u \in Tasks : pc'[u] = IF u = n THEN "blocked" ELSE "none"
    BY <1>1, <1>2, <1>3
  <2> QED BY <1>3, <1>9, <1>11, <1>12, <2>1 DEF Placed, Holds
<1>14. Once'
  <2>1. Len(threads') = 1
    BY <1>1
  <2> QED BY <1>9, <2>1 DEF Once, Distinct
<1>15. TimeLeft'
  BY <1>9, ConstantsOK DEF TimeLeft
<1>16. FifoStep /\ QuantumStep
  BY <1>1, ConstantsOK DEF FifoStep, QuantumStep
<1>17. Processor!Begin(n, p)
  <2>1. \A u \in Tasks : Abs(status)[u] = "absent"
    BY <1>2, <1>3, AbsIs
  <2>2. Abs(status)' = Processor!Moved(Abs(status), {n}, "running")
    <3>1. AbstractState["RUNNING"] = "running"
      BY DEF AbstractState
    <3>2. \A u \in Tasks : status'[u] = IF u = n THEN "RUNNING" ELSE status[u]
      BY <1>3, <1>11
    <3> QED BY <3>1, <3>2 DEF Abs, Processor!Moved
  <2> QED BY <1>1, <1>12, <2>1, <2>2 DEF Processor!Begin, Abs
<1> QED BY <1>13, <1>14, <1>15, <1>16, <1>17 DEF TurnInv, Processor!Next

(* The free at the end of so_end: every thread has finished.               *)
LEMMA SoEndFreeTurn ==
  ASSUME TurnInv, IInv', SoEndFree
  PROVE  TurnInv' /\ FifoStep /\ QuantumStep /\ Processor!Next
<1>1. \A u \in Tasks : pc[u] \in {"none", "exited"}
  BY DEF SoEndFree, AllJoined, TurnInv, IInv, CreatedInv, InQueue
<1>2. /\ threads' = <<>> /\ q' = <<>> /\ curr' = NoTask
      /\ pc' = [u \in Tasks |-> "none"] /\ status' = [u \in Tasks |-> "NEW"]
      /\ prio' = [u \in Tasks |-> 0] /\ io' = [u \in Tasks |-> NumEvents]
      /\ \A u : ~ InQueue(<<>>, u)
  BY <1>1 DEF SoEndFree, InQueue
<1>3. Placed' /\ Once' /\ TimeLeft'
  BY <1>2 DEF Placed, Once, TimeLeft, Distinct, Holds
<1>4. FifoStep /\ QuantumStep
  BY <1>2 DEF FifoStep, QuantumStep
<1>5. Processor!End
  <2>1. \A u \in Tasks : Abs(status)[u] \in {"absent", "finished"}
    <3>1. \A u \in Tasks : status[u] \in {"NEW", "TERMINATED"}
      BY <1>1 DEF TurnInv, Placed
    <3>2. status \in [Tasks -> Statuses]
      BY DEF TurnInv, IInv, TypeOK
    <3> QED BY <3>1, <3>2, AbsIs
  <2>2. Abs(status)' = [u \in Tasks |-> "absent"]
    BY <1>2 DEF Abs, AbstractState
  <2>3. prio' \in [Tasks -> Prios]
    BY DEF IInv, TypeOK
  <2> QED BY <1>2, <2>1, <2>2, <2>3 DEF Processor!End, Abs
<1> QED BY <1>3, <1>4, <1>5 DEF TurnInv, Processor!Next

(* The steps that touch neither status, queue nor time: semaphores, main's *)
(* own phases, refused calls.                                              *)
LEMMA QuietTurn ==
  ASSUME TurnInv, IInv',
         \/ \E t \in Tasks : Resume(t) \/ Refused(t) \/ SelfPost(t) \/ Exit(t)
         \/ SoInit \/ MainForkTake \/ MainForkFails \/ SoEnd \/ SoEndWait
         \/ UNCHANGED vars
  PROVE  TurnInv' /\ FifoStep /\ QuantumStep /\ UNCHANGED <<status, prio, io>>
<1> DEFINE Same == UNCHANGED <<threads, q, curr, status, prio, io, remaining>>
           NoneTakes ==
             \A u \in Tasks :
               /\ Holds(u)' => Holds(u)
               /\ pc'[u] = "none" <=> pc[u] = "none"
               /\ pc'[u] \in {"leaving", "posting", "exited"} =>
                    pc[u] \in {"leaving", "posting", "exited"}
<1>1. Same /\ NoneTakes
  <2>0. /\ pc \in [Tasks -> TaskPcs] /\ inExec \in [Tasks -> Nat]
        /\ sched = "null" => threads = <<>> /\ q = <<>> /\ curr = NoTask
    BY DEF TurnInv, IInv, TypeOK, MainInv, CreatedInv
  <2>1. ASSUME NEW t \in Tasks, Resume(t) \/ SelfPost(t) \/ Exit(t) PROVE Same /\ NoneTakes
    BY <2>0, <2>1 DEF Resume, SelfPost, Exit, heap, Holds
  <2>2. CASE (\E t \in Tasks : Refused(t)) \/ UNCHANGED vars
    BY <2>2 DEF Refused, heap, vars, Holds
  <2>3. CASE SoInit
    BY <2>0, <2>3 DEF SoInit, Holds
  <2>4. CASE MainForkTake \/ MainForkFails \/ SoEnd \/ SoEndWait
    BY <2>4 DEF MainForkTake, MainForkFails, SoEnd, SoEndWait, heap, Holds
  <2> QED BY <2>1, <2>2, <2>3, <2>4
<1>2. Placed' /\ Once' /\ TimeLeft'
  BY <1>1 DEF TurnInv, Placed, Once, TimeLeft, Top
<1>3. FifoStep
  BY <1>1 DEF FifoStep
<1>4. QuantumStep
  BY <1>1 DEF QuantumStep, TurnInv, TimeLeft, IInv, TypeOK, Top
<1> QED BY <1>1, <1>2, <1>3, <1>4 DEF TurnInv

(* Every step.                                                             *)
LEMMA NextTurn ==
  ASSUME TurnInv, [Next]_vars, ~ LoneWait
  PROVE  TurnInv' /\ FifoStep /\ QuantumStep /\ [Processor!Next]_<<status, prio, io>>
<1>1. IInv'
  BY NextInv DEF TurnInv
<1>2. CASE SoEndFree
  BY <1>1, <1>2, SoEndFreeTurn
<1>3. ASSUME NEW n \in Tasks, NEW p \in Prios, MainFork(n, p)
      PROVE  TurnInv' /\ FifoStep /\ QuantumStep /\ Processor!Next
  BY <1>1, <1>3, MainForkTurn
<1>4. ASSUME NEW t \in Tasks, Exec(t)
      PROVE  TurnInv' /\ FifoStep /\ QuantumStep /\ Processor!Next
  BY <1>1, <1>4, ExecTurn
<1>5. ASSUME NEW t \in Tasks, NEW n \in Tasks, NEW p \in Prios, Fork(t, n, p)
      PROVE  TurnInv' /\ FifoStep /\ QuantumStep /\ Processor!Next
  BY <1>1, <1>5, ForkTurn
<1>6. ASSUME NEW t \in Tasks, NEW d \in Devices, Wait(t, d)
      PROVE  TurnInv' /\ FifoStep /\ QuantumStep /\ Processor!Next
  BY <1>1, <1>6, WaitTurn
<1>7. ASSUME NEW t \in Tasks, NEW d \in Devices, Signal(t, d)
      PROVE  TurnInv' /\ FifoStep /\ QuantumStep /\ Processor!Next
  BY <1>1, <1>7, SignalTurn
<1>8. ASSUME NEW t \in Tasks, Terminate(t)
      PROVE  TurnInv' /\ FifoStep /\ QuantumStep /\ Processor!Next
  BY <1>1, <1>8, TerminateTurn
<1>9. CASE \/ \E t \in Tasks : Resume(t) \/ Refused(t) \/ SelfPost(t) \/ Exit(t)
           \/ SoInit \/ MainForkTake \/ MainForkFails \/ SoEnd \/ SoEndWait
           \/ UNCHANGED vars
  BY <1>1, <1>9, QuietTurn
<1> QED BY <1>2, <1>3, <1>4, <1>5, <1>6, <1>7, <1>8, <1>9 DEF Next, MainNext, TaskNext

(* It holds initially.                                                     *)
LEMMA InitTurn == Init => TurnInv /\ Processor!Init
<1> SUFFICES ASSUME Init PROVE TurnInv /\ Processor!Init
  OBVIOUS
<1>1. IInv
  BY InitInv
<1>2. Placed /\ Once /\ TimeLeft
  BY DEF Init, Placed, Once, TimeLeft, Distinct, Holds, InQueue
<1>3. Processor!Init
  BY <1>1 DEF Init, IInv, TypeOK, Processor!Init, AbstractState
<1> QED BY <1>1, <1>2, <1>3 DEF TurnInv
---------------------------------------------------------------------------
(* What follows when no handler calls so_wait alone, for every number of   *)
(* threads, priorities, devices, calls and quanta.                         *)

(* Statuses, queue and list of threads agree in every reachable state.     *)
THEOREM TurnsHold == ~ LoneWait => (Spec => []TurnInv)
<1> SUFFICES ASSUME ~ LoneWait PROVE Spec => []TurnInv
  OBVIOUS
<1>1. TurnInv /\ [Next]_vars => TurnInv'
  BY NextTurn
<1> QED BY <1>1, InitTurn, PTL DEF Spec

(* Refinement: the scheduler is one processor that goes, at every call, to *)
(* a ready thread of the highest priority.                                 *)
THEOREM ImplementsProcessor == ~ LoneWait => (Spec => IsOneProcessor)
<1> SUFFICES ASSUME ~ LoneWait PROVE Spec => IsOneProcessor
  OBVIOUS
<1>1. TurnInv /\ [Next]_vars => [Processor!Next]_(Processor!vars)
  <2> SUFFICES ASSUME TurnInv, [Next]_vars PROVE [Processor!Next]_(Processor!vars)
    OBVIOUS
  <2>1. [Processor!Next]_<<status, prio, io>>
    BY NextTurn
  <2> QED BY <2>1 DEF Processor!vars
<1>2. Spec => []TurnInv
  BY TurnsHold
<1> QED BY <1>1, <1>2, InitTurn, PTL DEF Spec, IsOneProcessor, Processor!Spec

(* Threads of one priority are served first come, first served.            *)
THEOREM FirstComeFirstServed == ~ LoneWait => (Spec => FifoAmongEquals)
<1> SUFFICES ASSUME ~ LoneWait PROVE Spec => FifoAmongEquals
  OBVIOUS
<1>1. TurnInv /\ [Next]_vars => [FifoStep]_vars
  BY NextTurn
<1>2. Spec => []TurnInv
  BY TurnsHold
<1> QED BY <1>1, <1>2, PTL DEF Spec, FifoAmongEquals

(* A thread does not outlive its quantum while an equal waits.             *)
THEOREM QuantumHolds == ~ LoneWait => (Spec => QuantumEnforced)
<1> SUFFICES ASSUME ~ LoneWait PROVE Spec => QuantumEnforced
  OBVIOUS
<1>1. TurnInv /\ [Next]_vars => [QuantumStep]_vars
  BY NextTurn
<1>2. Spec => []TurnInv
  BY TurnsHold
<1> QED BY <1>1, <1>2, PTL DEF Spec, QuantumEnforced
=============================================================================
