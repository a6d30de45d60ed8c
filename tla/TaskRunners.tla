----------------------------- MODULE TaskRunners -----------------------------
(***************************************************************************)
(* What fml::MessageLoopTaskQueues promises to whoever posts tasks,        *)
(* whatever is merged with whatever: a task waits in the source it was     *)
(* registered with until it is started or dropped, it is started once, and *)
(* the tasks of one source start in the order of (target time, order of    *)
(* registration), the secondary ones standing aside while they are paused. *)
(* Merging, unmerging and wake-ups do not show.                            *)
(***************************************************************************)
EXTENDS Naturals

CONSTANTS Queue, Time, Grade, kDartEventLoop

VARIABLES
  pending,   \* [Queue -> set of tasks]: registered, not yet started or dropped
  paused,    \* [Queue -> Nat]: open requests to pause the secondary heap
  next       \* the order number of the next task

vars == <<pending, paused, next>>

Init ==
  /\ pending = [q \in Queue |-> {}]
  /\ paused = [q \in Queue |-> 0]
  /\ next = 0

(* t is due strictly before u: the order of the DelayedTask heaps.         *)
Precedes(t, u) ==
  t.time < u.time \/ (t.time = u.time /\ t.order < u.order)

Startable(q) ==
  {t \in pending[q] : t.grade = kDartEventLoop => paused[q] = 0}

Post(q, time, grade) ==
  /\ pending' = [pending EXCEPT
       ![q] = @ \cup {[order |-> next, time |-> time, grade |-> grade]}]
  /\ next' = next + 1
  /\ UNCHANGED paused

Start(q, t) ==
  /\ t \in Startable(q)
  /\ \A u \in Startable(q) : ~Precedes(u, t)
  /\ pending' = [pending EXCEPT ![q] = @ \ {t}]
  /\ UNCHANGED <<paused, next>>

(* A loop that ends drops what it still holds, for every queue it runs.    *)
Drop(Q) ==
  /\ pending' = [q \in Queue |-> IF q \in Q THEN {} ELSE pending[q]]
  /\ UNCHANGED <<paused, next>>

Pause(q) ==
  /\ paused' = [paused EXCEPT ![q] = @ + 1]
  /\ UNCHANGED <<pending, next>>

Resume(q) ==
  /\ paused[q] > 0
  /\ paused' = [paused EXCEPT ![q] = @ - 1]
  /\ UNCHANGED <<pending, next>>

Next ==
  \/ \E q \in Queue, time \in Time, grade \in Grade : Post(q, time, grade)
  \/ \E q \in Queue : \E t \in pending[q] : Start(q, t)
  \/ \E Q \in SUBSET Queue : Drop(Q)
  \/ \E q \in Queue : Pause(q) \/ Resume(q)

Spec == Init /\ [][Next]_vars
=============================================================================
