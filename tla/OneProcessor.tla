--------------------------- MODULE OneProcessor ---------------------------
(***************************************************************************)
(* What the scheduler of SoScheduler promises its handlers, without its    *)
(* semaphores, queue and quantum: one processor that always goes to a      *)
(* ready thread of the highest priority, devices whose signal wakes all of *)
(* their waiters, and an end that comes only when every thread has         *)
(* finished.  Each call is one step, with the choice of the next thread.   *)
(***************************************************************************)
EXTENDS Integers

CONSTANTS
  Threads,
  Priorities,
  Devices,
  NoDevice

VARIABLES
  state,  \* "absent", "ready", "running", "waiting" or "finished"
  rank,   \* priorities
  device  \* what a thread waits for

vars == <<state, rank, device>>

Init ==
  /\ state = [t \in Threads |-> "absent"]
  /\ rank \in [Threads -> Priorities]
  /\ device = [t \in Threads |-> NoDevice]

(* s with the threads of S in state v.                                     *)
Moved(s, S, v) == [t \in Threads |-> IF t \in S THEN v ELSE s[t]]

(* The processor goes to one of the highest ranked ready threads of s, if  *)
(* there is one.  A thread that calls and stays able to run is among them. *)
Give(s, r) ==
  LET Ready == {t \in Threads : s[t] = "ready"}
      Highest == {t \in Ready : \A u \in Ready : r[u] <= r[t]}
  IN  IF Ready = {} THEN state' = s
      ELSE \E t \in Highest : state' = Moved(s, {t}, "running")

Spend(t) ==
  /\ state[t] = "running"
  /\ Give(Moved(state, {t}, "ready"), rank)
  /\ UNCHANGED <<rank, device>>

Create(t, n, p) ==
  /\ state[t] = "running" /\ state[n] = "absent"
  /\ rank' = [rank EXCEPT ![n] = p]
  /\ Give(Moved(state, {t, n}, "ready"), rank')
  /\ UNCHANGED device

Block(t, d) ==
  /\ state[t] = "running"
  /\ device' = [device EXCEPT ![t] = d]
  /\ Give(Moved(state, {t}, "waiting"), rank)
  /\ UNCHANGED rank

Wake(t, d) ==
  LET Waiters == {u \in Threads : state[u] = "waiting" /\ device[u] = d}
  IN  /\ state[t] = "running"
      /\ device' = [u \in Threads |-> IF u \in Waiters THEN NoDevice ELSE device[u]]
      /\ Give(Moved(state, Waiters \cup {t}, "ready"), rank)
      /\ UNCHANGED rank

Finish(t) ==
  /\ state[t] = "running"
  /\ Give(Moved(state, {t}, "finished"), rank)
  /\ UNCHANGED <<rank, device>>

(* The first thread, and the end of all.                                   *)
Begin(n, p) ==
  /\ \A t \in Threads : state[t] = "absent"
  /\ state' = Moved(state, {n}, "running")
  /\ rank' = [rank EXCEPT ![n] = p]
  /\ UNCHANGED device

End ==
  /\ \A t \in Threads : state[t] \in {"absent", "finished"}
  /\ state' = [t \in Threads |-> "absent"]
  /\ rank' \in [Threads -> Priorities]
  /\ device' = [t \in Threads |-> NoDevice]

Next ==
  \/ End
  \/ \E n \in Threads, p \in Priorities : Begin(n, p)
  \/ \E t \in Threads :
       \/ Spend(t) \/ Finish(t)
       \/ \E n \in Threads, p \in Priorities : Create(t, n, p)
       \/ \E d \in Devices : Block(t, d) \/ Wake(t, d)

Spec == Init /\ [][Next]_vars
=============================================================================
