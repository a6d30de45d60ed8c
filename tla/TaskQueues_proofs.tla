-------------------------- MODULE TaskQueues_proofs --------------------------
(***************************************************************************)
(* For every set of queues, tasks and target times: MessageLoopTaskQueues  *)
(* keeps its topology and its task sources well formed, gives each order   *)
(* number once, and has asked the right loop to wake in time for every     *)
(* task that is pending; and it implements the task runners, whatever is   *)
(* merged and whoever resumes a queue, since wake-ups do not show.         *)
(***************************************************************************)
EXTENDS TaskQueues, QueueTopology_proofs, NaturalsInduction, WellFoundedInduction

(* A heap that is not empty has a first task: target times are numbers,    *)
(* and tasks of the same time differ in their order.                       *)
LEMMA LeastNatural ==
  ASSUME NEW S \in SUBSET Nat, S # {}
  PROVE  \E m \in S : \A n \in S : m <= n
<1>1. PICK m \in S : \A n \in S : <<n, m>> \notin OpToRel(<, Nat)
  BY NatLessThanWellFounded, WFMin
<1>2. \A n \in S : ~(n < m)
  BY <1>1 DEF OpToRel
<1> QED
  BY <1>2

Ordered(S) ==
  /\ S \subseteq Task
  /\ \A t, u \in S : t.order = u.order => t = u

LEMMA TopExists ==
  ASSUME NEW S, Ordered(S), S # {}
  PROVE  /\ Top(S) \in S
         /\ \A u \in S : u # Top(S) => Precedes(Top(S), u)
         /\ \A u \in S : Top(S).time <= u.time
<1> USE TimeAssumption DEF Ordered, Task
<1>1. PICK time \in {t.time : t \in S} : \A u \in S : time <= u.time
  <2>1. {t.time : t \in S} \in SUBSET Nat /\ {t.time : t \in S} # {}
    OBVIOUS
  <2>2. PICK m \in {t.time : t \in S} : \A n \in {t.time : t \in S} : m <= n
    BY <2>1, LeastNatural
  <2> QED
    BY <2>2
<1> DEFINE Earliest == {t \in S : t.time = time}
<1>2. PICK order \in {t.order : t \in Earliest} : \A u \in Earliest : order <= u.order
  <2>1. {t.order : t \in Earliest} \in SUBSET Nat /\ {t.order : t \in Earliest} # {}
    BY <1>1
  <2>2. PICK m \in {t.order : t \in Earliest} : \A n \in {t.order : t \in Earliest} : m <= n
    BY <2>1, LeastNatural
  <2> QED
    BY <2>2
<1>3. PICK t \in S : t.time = time /\ t.order = order
  BY <1>2
<1>4. \A u \in S : u # t => Precedes(t, u)
  <2> SUFFICES ASSUME NEW u \in S, u # t
               PROVE  Precedes(t, u)
    OBVIOUS
  <2>1. /\ t.time <= u.time /\ t.order # u.order
        /\ t.time \in Nat /\ u.time \in Nat /\ t.order \in Nat /\ u.order \in Nat
    BY <1>1, <1>3
  <2>2. CASE t.time < u.time
    BY <2>2 DEF Precedes
  <2>3. CASE t.time = u.time
    <3>1. t.order <= u.order
      BY <1>2, <1>3, <2>3
    <3> QED
      BY <2>1, <2>3, <3>1 DEF Precedes
  <2> QED
    BY <2>1, <2>2, <2>3
<1>5. Top(S) \in S /\ \A u \in S : u # Top(S) => Precedes(Top(S), u)
  BY <1>4 DEF Top
<1>6. ASSUME NEW u \in S
      PROVE  Top(S).time <= u.time
  <2>1. CASE u = Top(S)
    <3>1. Top(S).time \in Nat
      BY <1>5
    <3> QED
      BY <2>1, <3>1
  <2>2. CASE u # Top(S)
    <3>1. Top(S).time < u.time \/ Top(S).time = u.time
      BY <1>5, <2>2 DEF Precedes
    <3>2. Top(S).time \in Nat /\ u.time \in Nat
      BY <1>5
    <3> QED
      BY <3>1, <3>2
  <2> QED
    BY <2>1, <2>2
<1> QED
  BY <1>5, <1>6

-----------------------------------------------------------------------------

(* The task sources, and the orders given to their tasks.                  *)
SourcesOK ==
  /\ task_source \in [Queue -> SUBSET Task]
  /\ pauses \in [Queue -> Nat]
  /\ order_ \in Nat
  /\ OrdersUnique

(* WakeRequested for the loops W, of every pending task instead of the     *)
(* first one.                                                              *)
WakeBefore(W) ==
  \A q \in entries \cap W : \A t \in Pending(q) : wake[q] \in Time /\ wake[q] <= t.time

TQInvFor(W) ==
  /\ Topology
  /\ SourcesOK
  /\ wake \in [Queue -> Time \cup {Never}]
  /\ WakeBefore(W)

TQInv == TQInvFor(Queue)

LEMMA PendingDef ==
  ASSUME NEW q, NEW t
  PROVE  t \in Pending(q) <=> \E s \in Sources(q) :
           t \in task_source[s] /\ (t.grade = kDartEventLoop => pauses[s] = 0)
BY DEF Pending, Visible

LEMMA SourcesAreQueues ==
  ASSUME Topology, NEW q \in Queue
  PROVE  Sources(q) \subseteq Queue
BY DEF Topology, TopologyTypeOK, Sources

LEMMA PendingOrdered ==
  Topology /\ SourcesOK => \A q \in Queue : Ordered(Pending(q))
<1> SUFFICES ASSUME Topology, SourcesOK, NEW q \in Queue
             PROVE  Ordered(Pending(q))
  OBVIOUS
<1>1. \A t \in Pending(q) : \E s \in Queue : t \in task_source[s]
  BY PendingDef, SourcesAreQueues
<1> QED
  BY <1>1 DEF Ordered, SourcesOK, OrdersUnique

(* WakeRequested says the same as WakeBefore.                              *)
LEMMA WakeBeforeIsRequested ==
  ASSUME Topology, SourcesOK, WakeBefore(Queue)
  PROVE  WakeRequested
<1> SUFFICES ASSUME NEW q \in entries, Pending(q) # {}
             PROVE  wake[q] # Never /\ wake[q] <= Top(Pending(q)).time
  BY DEF WakeRequested
<1>1. q \in Queue
  BY DEF Topology, TopologyTypeOK
<1>2. Top(Pending(q)) \in Pending(q)
  BY <1>1, PendingOrdered, TopExists
<1> QED
  BY <1>1, <1>2, TimeAssumption DEF WakeBefore

(* Waking up the loops Q keeps the promise to those loops, and leaves the  *)
(* others' timers alone.                                                   *)
LEMMA WakeUpInTime ==
  ASSUME NEW Q, WakeUp(Q), wake \in [Queue -> Time \cup {Never}], (Topology /\ SourcesOK)'
  PROVE  /\ wake' \in [Queue -> Time \cup {Never}]
         /\ \A q \in Queue \cap Q : \A t \in Pending(q)' :
              wake'[q] \in Time /\ wake'[q] <= t.time
         /\ \A q \in Queue \ Q : wake'[q] = wake[q]
<1>1. (\A q \in Queue : Ordered(Pending(q)))'
  BY PendingOrdered, PTL
<1>2. ASSUME NEW q \in Queue, Pending(q)' # {}
      PROVE  /\ Top(Pending(q)').time \in Time
             /\ \A t \in Pending(q)' : Top(Pending(q)').time <= t.time
  <2>1. Ordered(Pending(q)')
    BY <1>1
  <2>2. Top(Pending(q)') \in Pending(q)' /\ Pending(q)' \subseteq Task
    BY <1>2, <2>1, TopExists DEF Ordered
  <2>3. \A t \in Pending(q)' : Top(Pending(q)').time <= t.time
    BY <1>2, <2>1, TopExists
  <2> QED
    BY <2>2, <2>3 DEF Task
<1>3. \A q \in Queue : wake'[q] = IF q \in Q /\ Pending(q)' # {}
                                     THEN Top(Pending(q)').time ELSE wake[q]
  BY DEF WakeUp
<1>4. wake' \in [Queue -> Time \cup {Never}]
  <2>1. wake' = [q \in Queue |-> wake'[q]]
    BY DEF WakeUp
  <2>2. \A q \in Queue : wake'[q] \in Time \cup {Never}
    BY <1>2, <1>3
  <2> QED
    BY <2>1, <2>2
<1>5. ASSUME NEW q \in Queue \cap Q, NEW t \in Pending(q)'
      PROVE  wake'[q] \in Time /\ wake'[q] <= t.time
  BY <1>2, <1>3
<1>6. \A q \in Queue \ Q : wake'[q] = wake[q]
  BY <1>3
<1> QED
  BY <1>4, <1>5, <1>6

-----------------------------------------------------------------------------
(* One lemma per operation.                                                *)

(* An operation that only takes tasks away keeps what is known of the      *)
(* task sources.                                                           *)
LEMMA FewerTasks ==
  ASSUME SourcesOK, task_source' \in [Queue -> SUBSET Task],
         \A q \in Queue : task_source'[q] \subseteq task_source[q],
         pauses' \in [Queue -> Nat], order_' = order_
  PROVE  SourcesOK'
BY DEF SourcesOK, OrdersUnique

LEMMA SameTopology ==
  ASSUME Topology, UNCHANGED topology
  PROVE  Topology' /\ \A q : Sources(q)' = Sources(q)
BY DEF Topology, TopologyTypeOK, MergeTopology, OneOwnerPerQueue, OwnerNeverSubsumed,
  NoDanglingEntry, ErasedIsIndependent, IsSubsumed, topology, Sources

(* The order number of a new task is one that no task has.                 *)
LEMMA RegisterKeepsSources ==
  ASSUME SourcesOK, NEW q \in Queue, NEW time \in Time, NEW grade \in Grade,
         RegisterTask(q, time, grade)
  PROVE  SourcesOK'
<1> DEFINE new == [order |-> order_, time |-> time, grade |-> grade]
<1>1. new \in Task /\ new.order = order_
  BY DEF SourcesOK, Task
<1>2. task_source' = [task_source EXCEPT ![q] = @ \cup {new}] /\ order_' = order_ + 1
      /\ pauses' = pauses
  BY DEF RegisterTask
<1> HIDE DEF new
<1>3. /\ task_source' \in [Queue -> SUBSET Task]
      /\ pauses' \in [Queue -> Nat] /\ order_' \in Nat
  BY <1>1, <1>2 DEF SourcesOK
<1>4. \A p \in Queue : \A t \in task_source'[p] :
        \/ t \in task_source[p] /\ t.order \in Nat /\ t.order < order_
        \/ p = q /\ t = new
  BY <1>2 DEF SourcesOK, OrdersUnique, Task
<1>5. ASSUME NEW p \in Queue, NEW r \in Queue,
             NEW t \in task_source'[p], NEW u \in task_source'[r]
      PROVE  t.order < order_' /\ (t.order = u.order => p = r /\ t = u)
  <2>1. order_ \in Nat /\ order_' = order_ + 1
    BY <1>2 DEF SourcesOK
  <2>2. t.order < order_'
    BY <1>1, <1>4, <2>1
  <2>3. CASE t \in task_source[p] /\ u \in task_source[r]
    BY <2>2, <2>3 DEF SourcesOK, OrdersUnique
  <2>4. CASE ~(t \in task_source[p] /\ u \in task_source[r])
    BY <1>1, <1>4, <2>1, <2>2, <2>4
  <2> QED
    BY <2>3, <2>4
<1>6. OrdersUnique'
  BY <1>5 DEF OrdersUnique
<1> QED
  BY <1>3, <1>6 DEF SourcesOK

LEMMA RegisterKeeps ==
  ASSUME NEW W, TQInvFor(W), NEW q \in Queue, NEW time \in Time, NEW grade \in Grade,
         RegisterTask(q, time, grade)
  PROVE  TQInvFor(W)'
<1> DEFINE new == [order |-> order_, time |-> time, grade |-> grade]
<1>1. Topology'
  BY SameTopology DEF TQInvFor, RegisterTask
<1>2. task_source' = [task_source EXCEPT ![q] = @ \cup {new}] /\ order_' = order_ + 1
      /\ pauses' = pauses
  BY DEF RegisterTask
<1> HIDE DEF new
<1>3. SourcesOK'
  BY RegisterKeepsSources DEF TQInvFor
<1>4. WakeUp({Runner(q)}) /\ entries' = entries /\ owner_of' = owner_of
      /\ subsumed_by' = subsumed_by /\ q \in entries
  BY DEF RegisterTask, topology
<1>5. \A p : Sources(p)' = Sources(p)
  BY <1>4 DEF Sources, IsSubsumed
<1>6. /\ wake' \in [Queue -> Time \cup {Never}]
      /\ \A p \in Queue \cap {Runner(q)} : \A t \in Pending(p)' :
           wake'[p] \in Time /\ wake'[p] <= t.time
      /\ \A p \in Queue \ {Runner(q)} : wake'[p] = wake[p]
  BY <1>1, <1>3, <1>4, WakeUpInTime DEF TQInvFor
<1>7. ASSUME NEW p \in entries, p # Runner(q), NEW t \in Pending(p)'
      PROVE  t \in Pending(p)
  <2>1. PICK s \in Sources(p) : t \in task_source'[s]
                                /\ (t.grade = kDartEventLoop => pauses[s] = 0)
    BY <1>2, <1>5 DEF Pending, Visible
  <2>2. s # q /\ s \in Queue
    BY <1>4, <1>7, <2>1, RunnerOf, OneRunner, SourcesAreQueues
    DEF TQInvFor, Topology, TopologyTypeOK
  <2>3. t \in task_source[s]
    BY <1>2, <2>1, <2>2 DEF TQInvFor, SourcesOK
  <2> QED
    BY <2>1, <2>3, PendingDef
<1>8. WakeBefore(W)'
  BY <1>4, <1>6, <1>7 DEF TQInvFor, WakeBefore, Topology, TopologyTypeOK
<1> QED
  BY <1>1, <1>3, <1>6, <1>8 DEF TQInvFor

(* Asking for the next task arms the timer of the loop, too.               *)
LEMMA GetNextKeeps ==
  ASSUME NEW W, TQInvFor(W), NEW q \in Queue, NEW now \in Time, GetNextTaskToRun(q, now)
  PROVE  TQInvFor(W \cup {q})'
<1> DEFINE top == Top(Pending(q))
<1>1. /\ q \in entries /\ Pending(q) # {} /\ UNCHANGED <<topology, pauses, order_>>
      /\ wake' = [wake EXCEPT ![q] = top.time]
      /\ \/ task_source' = task_source
         \/ \E s, t : task_source' = [task_source EXCEPT ![s] = @ \ {t}]
  BY DEF GetNextTaskToRun
<1>2. top \in Pending(q) /\ top \in Task /\ \A t \in Pending(q) : top.time <= t.time
  <2>1. Ordered(Pending(q))
    BY PendingOrdered DEF TQInvFor
  <2> QED
    BY <1>1, <2>1, TopExists DEF Ordered
<1> HIDE DEF top
<1>3. Topology' /\ \A p : Sources(p)' = Sources(p)
  BY <1>1, SameTopology DEF TQInvFor
<1>4. task_source' \in [Queue -> SUBSET Task]
      /\ \A p \in Queue : task_source'[p] \subseteq task_source[p]
  BY <1>1 DEF TQInvFor, SourcesOK
<1>5. SourcesOK'
  BY <1>1, <1>4, FewerTasks DEF TQInvFor, SourcesOK
<1>6. ASSUME NEW p \in Queue, NEW t \in Pending(p)'
      PROVE  t \in Pending(p)
  <2>1. PICK s \in Sources(p) : t \in task_source'[s]
                                /\ (t.grade = kDartEventLoop => pauses[s] = 0)
    BY <1>1, <1>3 DEF Pending, Visible
  <2> QED
    BY <1>4, <2>1, SourcesAreQueues, PendingDef DEF TQInvFor
<1>7. WakeBefore(W \cup {q})'
  BY <1>1, <1>2, <1>6 DEF TQInvFor, WakeBefore, Topology, TopologyTypeOK, topology, Task
<1>8. wake' \in [Queue -> Time \cup {Never}]
  BY <1>1, <1>2 DEF TQInvFor, Task
<1> QED
  BY <1>3, <1>5, <1>7, <1>8 DEF TQInvFor

(* What the two ways of changing the topology have in common: some loops   *)
(* are woken, and the others have no more to do than they had.             *)
LEMMA RearrangementKeeps ==
  ASSUME NEW W, TQInvFor(W), NEW Q, WakeUp(Q), Topology', entries' = entries,
         task_source' = task_source, pauses' \in [Queue -> Nat], order_' = order_,
         \A q \in (Queue \cap W) \ Q : Pending(q)' \subseteq Pending(q)
  PROVE  TQInvFor(W)'
<1>1. SourcesOK'
  BY FewerTasks DEF TQInvFor, SourcesOK
<1>2. /\ wake' \in [Queue -> Time \cup {Never}]
      /\ \A q \in Queue \cap Q : \A t \in Pending(q)' :
           wake'[q] \in Time /\ wake'[q] <= t.time
      /\ \A q \in Queue \ Q : wake'[q] = wake[q]
  BY <1>1, WakeUpInTime DEF TQInvFor
<1>3. entries \subseteq Queue
  BY DEF TQInvFor, Topology, TopologyTypeOK
<1>4. WakeBefore(W)'
  <2> SUFFICES ASSUME NEW q \in entries \cap W, NEW t \in Pending(q)'
               PROVE  wake'[q] \in Time /\ wake'[q] <= t.time
    BY DEF WakeBefore
  <2>1. CASE q \in Q
    BY <1>2, <1>3, <2>1
  <2>2. CASE q \notin Q
    BY <1>2, <1>3, <2>2 DEF TQInvFor, WakeBefore
  <2> QED
    BY <2>1, <2>2
<1> QED
  BY <1>1, <1>2, <1>4 DEF TQInvFor

LEMMA MergeKeeps ==
  ASSUME NEW W, TQInvFor(W), NEW owner \in Queue, NEW subsumed \in Queue,
         MergeQueues(owner, subsumed)
  PROVE  TQInvFor(W)'
<1>1. /\ Merge(owner, subsumed) /\ WakeUp({owner}) /\ entries' = entries
      /\ UNCHANGED <<task_source, pauses, order_>>
  BY DEF MergeQueues, Merge
<1>2. Topology'
  BY <1>1, MergeKeepsTopology DEF TQInvFor
<1>3. \A q \in Queue \ {owner} : Sources(q)' \subseteq Sources(q)
  BY <1>1, UnmergedAssumption
  DEF Merge, MergeChanges, Sources, IsSubsumed, TQInvFor, Topology, TopologyTypeOK
<1>4. \A q \in Queue \ {owner} : Pending(q)' \subseteq Pending(q)
  BY <1>1, <1>3 DEF Pending, Visible
<1> QED
  BY <1>1, <1>2, <1>4, RearrangementKeeps DEF TQInvFor, SourcesOK

LEMMA UnmergeKeeps ==
  ASSUME NEW W, TQInvFor(W), NEW owner \in Queue, NEW subsumed \in Queue,
         UnmergeQueues(owner, subsumed)
  PROVE  TQInvFor(W)'
<1>1. /\ Unmerge(owner, subsumed) /\ WakeUp({owner, subsumed}) /\ entries' = entries
      /\ UNCHANGED <<task_source, pauses, order_>>
  BY DEF UnmergeQueues, Unmerge
<1>2. Topology'
  BY <1>1, UnmergeKeepsTopology DEF TQInvFor
<1>3. \A q \in Queue \ {owner, subsumed} : Sources(q)' \subseteq Sources(q)
  BY <1>1 DEF Unmerge, Sources, IsSubsumed, TQInvFor, Topology, TopologyTypeOK
<1>4. \A q \in Queue \ {owner, subsumed} : Pending(q)' \subseteq Pending(q)
  BY <1>1, <1>3 DEF Pending, Visible
<1> QED
  BY <1>1, <1>2, <1>4, RearrangementKeeps DEF TQInvFor, SourcesOK

(* Resuming a queue that another loop runs is what would break the         *)
(* promise: here no other loop of W does.                                  *)
LEMMA ResumeKeeps ==
  ASSUME NEW W, TQInvFor(W), NEW q \in Queue, ResumeSecondarySource(q),
         \A p \in (W \cap Queue) \ {q} : q \notin Sources(p)
  PROVE  TQInvFor(W)'
<1>1. /\ q \in entries /\ pauses[q] > 0 /\ pauses' = [pauses EXCEPT ![q] = @ - 1]
      /\ UNCHANGED <<topology, task_source, order_>> /\ WakeUp({q})
  BY DEF ResumeSecondarySource
<1>2. Topology' /\ \A p : Sources(p)' = Sources(p)
  BY <1>1, SameTopology DEF TQInvFor
<1>3. pauses' \in [Queue -> Nat]
  BY <1>1 DEF TQInvFor, SourcesOK
<1>5. ASSUME NEW p \in (Queue \cap W) \ {q}, NEW t \in Pending(p)'
      PROVE  t \in Pending(p)
  <2>1. PICK s \in Sources(p) : t \in task_source[s]
                                /\ (t.grade = kDartEventLoop => pauses'[s] = 0)
    BY <1>1, <1>2 DEF Pending, Visible
  <2>2. s # q /\ s \in Queue
    BY <2>1, SourcesAreQueues DEF TQInvFor
  <2>3. pauses'[s] = pauses[s]
    BY <1>1, <2>2 DEF TQInvFor, SourcesOK
  <2> QED
    BY <2>1, <2>3, PendingDef
<1>6. entries' = entries
  BY <1>1 DEF topology
<1> QED
  BY <1>1, <1>2, <1>3, <1>5, <1>6, RearrangementKeeps

(* Pausing and disposing leave every loop that remains with no more to do. *)
LEMMA LessToDo ==
  ASSUME NEW W, TQInvFor(W), Topology', entries' \subseteq entries,
         task_source' \in [Queue -> SUBSET Task],
         \A q \in Queue : task_source'[q] \subseteq task_source[q],
         pauses' \in [Queue -> Nat], order_' = order_,
         wake' \in [Queue -> Time \cup {Never}],
         \A q \in entries' : Pending(q)' \subseteq Pending(q) /\ wake'[q] = wake[q]
  PROVE  TQInvFor(W)'
<1>1. SourcesOK'
  BY FewerTasks DEF TQInvFor
<1>2. WakeBefore(W)'
  BY DEF TQInvFor, WakeBefore
<1> QED
  BY <1>1, <1>2 DEF TQInvFor

LEMMA PauseKeeps ==
  ASSUME NEW W, TQInvFor(W), NEW q \in Queue, PauseSecondarySource(q)
  PROVE  TQInvFor(W)'
<1>1. /\ pauses' = [pauses EXCEPT ![q] = @ + 1]
      /\ UNCHANGED <<topology, task_source, order_, wake>>
  BY DEF PauseSecondarySource
<1>2. Topology' /\ \A p : Sources(p)' = Sources(p)
  BY <1>1, SameTopology DEF TQInvFor
<1>3. pauses' \in [Queue -> Nat] /\ \A s \in Queue : pauses'[s] = 0 => pauses[s] = 0
  BY <1>1 DEF TQInvFor, SourcesOK
<1>4. ASSUME NEW p \in Queue
      PROVE  Pending(p)' \subseteq Pending(p)
  BY <1>1, <1>2, <1>3, SourcesAreQueues DEF TQInvFor, Pending, Visible
<1>5. entries' = entries /\ entries \subseteq Queue
  BY <1>1 DEF topology, TQInvFor, Topology, TopologyTypeOK
<1> QED
  BY <1>1, <1>2, <1>3, <1>4, <1>5, LessToDo DEF TQInvFor, SourcesOK

LEMMA DisposeTasksKeeps ==
  ASSUME NEW W, TQInvFor(W), NEW q \in Queue, DisposeTasks(q)
  PROVE  TQInvFor(W)'
<1>1. /\ task_source' =
           [p \in Queue |-> IF p \in Sources(q) THEN {} ELSE task_source[p]]
      /\ UNCHANGED <<topology, pauses, order_, wake>>
  BY DEF DisposeTasks
<1>2. Topology' /\ \A p : Sources(p)' = Sources(p)
  BY <1>1, SameTopology DEF TQInvFor
<1>3. task_source' \in [Queue -> SUBSET Task]
      /\ \A p \in Queue : task_source'[p] \subseteq task_source[p]
  BY <1>1 DEF TQInvFor, SourcesOK
<1>4. ASSUME NEW p \in Queue
      PROVE  Pending(p)' \subseteq Pending(p)
  BY <1>1, <1>2, <1>3, SourcesAreQueues DEF TQInvFor, Pending, Visible
<1>5. entries' = entries /\ entries \subseteq Queue
  BY <1>1 DEF topology, TQInvFor, Topology, TopologyTypeOK
<1> QED
  BY <1>1, <1>2, <1>3, <1>4, <1>5, LessToDo DEF TQInvFor, SourcesOK

LEMMA DisposeQueueKeeps ==
  ASSUME NEW W, TQInvFor(W), NEW q \in Queue, DisposeQueue(q)
  PROVE  TQInvFor(W)'
<1>1. /\ Dispose(q)
      /\ task_source' =
           [p \in Queue |-> IF p \in Sources(q) THEN {} ELSE task_source[p]]
      /\ wake' = [p \in Queue |-> IF p \in Sources(q) THEN Never ELSE wake[p]]
      /\ UNCHANGED <<pauses, order_>>
  BY DEF DisposeQueue
<1>2. Topology'
  BY <1>1, DisposeKeepsTopology DEF TQInvFor
<1>3. task_source' \in [Queue -> SUBSET Task]
      /\ \A p \in Queue : task_source'[p] \subseteq task_source[p]
  BY <1>1 DEF TQInvFor, SourcesOK
<1>4. entries' = entries \ Sources(q) /\ entries' \subseteq Queue
  BY <1>1 DEF Dispose, Sources, TQInvFor, Topology, TopologyTypeOK
<1>5. \A p \in entries' : Sources(p)' = Sources(p)
  BY <1>1 DEF Dispose, Sources, IsSubsumed, TQInvFor, Topology, TopologyTypeOK
<1>6. ASSUME NEW p \in entries'
      PROVE  Pending(p)' \subseteq Pending(p) /\ wake'[p] = wake[p]
  <2>1. p \in Queue /\ wake'[p] = wake[p]
    BY <1>1, <1>4
  <2>2. Pending(p)' \subseteq Pending(p)
    BY <1>1, <1>3, <1>5, <2>1, SourcesAreQueues DEF TQInvFor, Pending, Visible
  <2> QED
    BY <2>1, <2>2
<1>7. wake' \in [Queue -> Time \cup {Never}]
  BY <1>1 DEF TQInvFor
<1> QED
  BY <1>1, <1>2, <1>3, <1>4, <1>6, <1>7, LessToDo DEF TQInvFor, SourcesOK

-----------------------------------------------------------------------------

LEMMA TQInvInit == TQInit => TQInv
<1> SUFFICES ASSUME TQInit
             PROVE  TQInv
  OBVIOUS
<1>1. Topology
  BY InitTopologyHolds DEF TQInit
<1>2. SourcesOK
  BY DEF TQInit, SourcesOK, OrdersUnique
<1>3. WakeBefore(Queue)
  BY <1>1, SourcesAreQueues
  DEF TQInit, InitTopology, WakeBefore, Pending, Visible
<1> QED
  BY <1>1, <1>2, <1>3 DEF TQInit, TQInv, TQInvFor

LEMMA TQInvStep == ~ResumeWhileSubsumed /\ TQInv /\ [TQNext]_tqvars => TQInv'
<1> SUFFICES ASSUME ~ResumeWhileSubsumed, TQInv, [TQNext]_tqvars
             PROVE  TQInv'
  OBVIOUS
<1>1. CASE \E q \in Queue, time \in Time, grade \in Grade : RegisterTask(q, time, grade)
  BY <1>1, RegisterKeeps DEF TQInv
<1>2. CASE \E q \in Queue, now \in Time : GetNextTaskToRun(q, now)
  <2> SUFFICES ASSUME NEW q \in Queue, NEW now \in Time, GetNextTaskToRun(q, now)
               PROVE  TQInv'
    BY <1>2
  <2>1. Queue \cup {q} = Queue
    OBVIOUS
  <2>2. TQInvFor(Queue \cup {q})'
    BY GetNextKeeps DEF TQInv
  <2> QED
    BY <2>1, <2>2 DEF TQInv
<1>3. CASE \E p, q \in Queue : MergeQueues(p, q)
  BY <1>3, MergeKeeps DEF TQInv
<1>4. CASE \E p, q \in Queue : UnmergeQueues(p, q)
  BY <1>4, UnmergeKeeps DEF TQInv
<1>5. CASE \E q \in Queue : PauseSecondarySource(q)
  BY <1>5, PauseKeeps DEF TQInv
<1>6. CASE \E q \in Queue : ~IsSubsumed(q) /\ ResumeSecondarySource(q)
  <2> SUFFICES ASSUME NEW q \in Queue, ~IsSubsumed(q), ResumeSecondarySource(q)
               PROVE  TQInv'
    BY <1>6
  <2>1. q \in Sources(q)
    BY DEF Sources
  <2>2. \A p \in (Queue \cap Queue) \ {q} : q \notin Sources(p)
    BY <2>1, OneRunner DEF TQInv, TQInvFor
  <2> QED
    BY <2>2, ResumeKeeps DEF TQInv
<1>7. CASE \E q \in Queue : DisposeTasks(q)
  BY <1>7, DisposeTasksKeeps DEF TQInv
<1>8. CASE \E q \in Queue : DisposeQueue(q)
  BY <1>8, DisposeQueueKeeps DEF TQInv
<1>9. CASE UNCHANGED tqvars
  <2>1. Topology' /\ \A q : Sources(q)' = Sources(q)
    BY <1>9, SameTopology DEF TQInv, TQInvFor, tqvars
  <2>2. \A q : Pending(q)' = Pending(q)
    BY <1>9, <2>1 DEF Pending, Visible, tqvars
  <2>3. entries' = entries /\ entries \subseteq Queue
    BY <1>9 DEF tqvars, topology, TQInv, TQInvFor, Topology, TopologyTypeOK
  <2> QED
    BY <1>9, <2>1, <2>2, <2>3, LessToDo DEF TQInv, TQInvFor, SourcesOK, tqvars
<1> QED
  BY <1>1, <1>2, <1>3, <1>4, <1>5, <1>6, <1>7, <1>8, <1>9 DEF TQNext

(* No loop sleeps through a task, whatever is registered, run, merged,     *)
(* unmerged, paused, resumed and disposed, on condition that a queue is    *)
(* not resumed from outside while another loop runs its tasks.             *)
THEOREM NoTaskIsSleptThrough ==
  ASSUME ~ResumeWhileSubsumed
  PROVE  TQSpec => [](TQTypeOK /\ OrdersUnique /\ MergeTopology /\ WakeRequested)
<1>1. TQInv => TQTypeOK /\ OrdersUnique /\ MergeTopology /\ WakeRequested
  BY WakeBeforeIsRequested DEF TQInv, TQInvFor, SourcesOK, TQTypeOK, Topology
<1> QED
  BY <1>1, TQInvInit, TQInvStep, PTL DEF TQSpec

-----------------------------------------------------------------------------
(* What may be called on the queues, by whomever and whenever.             *)
Operation ==
  \/ \E q \in Queue, time \in Time, grade \in Grade : RegisterTask(q, time, grade)
  \/ \E q \in Queue, now \in Time : GetNextTaskToRun(q, now)
  \/ \E p, q \in Queue : MergeQueues(p, q) \/ UnmergeQueues(p, q)
  \/ \E q \in Queue : PauseSecondarySource(q) \/ ResumeSecondarySource(q)
  \/ \E q \in Queue : DisposeTasks(q) \/ DisposeQueue(q)

(* Merging and unmerging change nothing that a task runner sees, and the   *)
(* other operations keep the sources without regard to the timers.         *)
LEMMA SourcesKept ==
  ASSUME Topology, SourcesOK,
         Operation \/ UNCHANGED <<topology, task_source, pauses, order_>>
  PROVE  (Topology /\ SourcesOK)'
<1>1. ASSUME NEW q \in Queue, NEW time \in Time, NEW grade \in Grade,
             RegisterTask(q, time, grade)
      PROVE  (Topology /\ SourcesOK)'
  BY <1>1, SameTopology, RegisterKeepsSources DEF RegisterTask
<1>2. ASSUME NEW q \in Queue, NEW now \in Time, GetNextTaskToRun(q, now)
      PROVE  (Topology /\ SourcesOK)'
  <2>1. /\ UNCHANGED <<topology, pauses, order_>>
        /\ \/ task_source' = task_source
           \/ \E s, t : task_source' = [task_source EXCEPT ![s] = @ \ {t}]
    BY <1>2 DEF GetNextTaskToRun
  <2>2. /\ task_source' \in [Queue -> SUBSET Task]
        /\ \A p \in Queue : task_source'[p] \subseteq task_source[p]
    BY <2>1 DEF SourcesOK
  <2> QED
    BY <2>1, <2>2, SameTopology, FewerTasks DEF SourcesOK
<1>3. ASSUME NEW p \in Queue, NEW q \in Queue, MergeQueues(p, q) \/ UnmergeQueues(p, q)
      PROVE  (Topology /\ SourcesOK)'
  <2>1. Topology'
    BY <1>3, MergeKeepsTopology, UnmergeKeepsTopology DEF MergeQueues, UnmergeQueues
  <2>2. UNCHANGED <<task_source, pauses, order_>>
    BY <1>3 DEF MergeQueues, UnmergeQueues
  <2> QED
    BY <2>1, <2>2, FewerTasks DEF SourcesOK
<1>4. ASSUME NEW q \in Queue, PauseSecondarySource(q) \/ ResumeSecondarySource(q)
      PROVE  (Topology /\ SourcesOK)'
  <2>1. UNCHANGED <<topology, task_source, order_>>
    BY <1>4 DEF PauseSecondarySource, ResumeSecondarySource
  <2>2. pauses' \in [Queue -> Nat]
    BY <1>4 DEF PauseSecondarySource, ResumeSecondarySource, SourcesOK
  <2> QED
    BY <2>1, <2>2, SameTopology, FewerTasks DEF SourcesOK
<1>5. ASSUME NEW q \in Queue, DisposeTasks(q) \/ DisposeQueue(q)
      PROVE  (Topology /\ SourcesOK)'
  <2>1. Topology'
    BY <1>5, SameTopology, DisposeKeepsTopology DEF DisposeTasks, DisposeQueue
  <2>2. /\ task_source' =
             [p \in Queue |-> IF p \in Sources(q) THEN {} ELSE task_source[p]]
        /\ UNCHANGED <<pauses, order_>>
    BY <1>5 DEF DisposeTasks, DisposeQueue
  <2>3. /\ task_source' \in [Queue -> SUBSET Task]
        /\ \A p \in Queue : task_source'[p] \subseteq task_source[p]
    BY <2>2 DEF SourcesOK
  <2> QED
    BY <2>1, <2>2, <2>3, FewerTasks DEF SourcesOK
<1>6. CASE UNCHANGED <<topology, task_source, pauses, order_>>
  BY <1>6, SameTopology, FewerTasks DEF SourcesOK
<1> QED
  BY <1>1, <1>2, <1>3, <1>4, <1>5, <1>6 DEF Operation

LEMMA StepIsOperation ==
  [TQNext]_tqvars => Operation \/ UNCHANGED <<topology, task_source, pauses, order_>>
BY DEF TQNext, Operation, tqvars

LEMMA SourcesStep ==
  Topology /\ SourcesOK /\ [TQNext]_tqvars => (Topology /\ SourcesOK)'
BY StepIsOperation, SourcesKept

-----------------------------------------------------------------------------

(* The order of two tasks is strict.                                       *)
LEMMA NotBeforeItself ==
  ASSUME NEW t \in Task
  PROVE  ~AsTaskRunners!Precedes(t, t)
<1>1. t.time \in Nat /\ t.order \in Nat
  BY TimeAssumption DEF Task
<1>2. ~(t.time < t.time) /\ ~(t.order < t.order)
  BY <1>1
<1> QED
  BY <1>2 DEF AsTaskRunners!Precedes

LEMMA PrecedesOneWay ==
  ASSUME NEW t \in Task, NEW u \in Task, Precedes(t, u)
  PROVE  ~Precedes(u, t) /\ ~AsTaskRunners!Precedes(u, t)
<1>1. /\ t.time \in Nat /\ u.time \in Nat
      /\ t.order \in Nat /\ u.order \in Nat
  BY TimeAssumption DEF Task
<1> QED
  BY <1>1 DEF Precedes, AsTaskRunners!Precedes

(* The task at the top of everything a loop runs is at the top of its own  *)
(* heap, so that popping that heap takes the task that was looked at.      *)
LEMMA TopOfItsHeap ==
  ASSUME Topology, SourcesOK, NEW q \in Queue, Pending(q) # {}
  PROVE  LET top == Top(Pending(q))
             source == SourceOf(top, q)
         IN /\ source \in Queue /\ source \in Sources(q) /\ top \in Visible(source)
            /\ \A u \in Visible(source) : u # top => Precedes(top, u)
            /\ Top(Heap(source, top.grade)) = top
<1> DEFINE top == Top(Pending(q))
           source == SourceOf(top, q)
           heap == Heap(source, top.grade)
<1>1. /\ top \in Pending(q)
      /\ \A u \in Pending(q) : u # top => Precedes(top, u)
  BY PendingOrdered, TopExists
<1>2. source \in Sources(q) /\ top \in Visible(source)
  BY <1>1 DEF Pending, SourceOf
<1>3. source \in Queue
  BY <1>2, SourcesAreQueues
<1>4. Visible(source) \subseteq Pending(q)
  BY <1>2 DEF Pending
<1>5. top \in heap /\ heap \subseteq Visible(source)
  BY <1>2 DEF Heap, Visible
<1>6. Ordered(heap)
  BY <1>3 DEF Heap, Ordered, SourcesOK, OrdersUnique
<1>7. Top(heap) \in heap /\ \A u \in heap : u # Top(heap) => Precedes(Top(heap), u)
  BY <1>5, <1>6, TopExists
<1>8. Top(heap) = top
  <2> SUFFICES ASSUME Top(heap) # top
               PROVE  FALSE
    OBVIOUS
  <2>1. Precedes(top, Top(heap)) /\ Precedes(Top(heap), top)
    BY <1>1, <1>4, <1>5, <1>7
  <2>2. top \in Task /\ Top(heap) \in Task
    BY <1>5, <1>6, <1>7 DEF Ordered
  <2> QED
    BY <2>1, <2>2, PrecedesOneWay
<1> QED
  BY <1>1, <1>2, <1>3, <1>4, <1>8

(* Taking the next task starts it, or finds none that is due.              *)
LEMMA NextTaskIsStarted ==
  ASSUME Topology, SourcesOK, NEW q \in Queue, NEW now \in Time,
         GetNextTaskToRun(q, now)
  PROVE  AsTaskRunners!Next \/ UNCHANGED AsTaskRunners!vars
<1> DEFINE top == Top(Pending(q))
           source == SourceOf(top, q)
<1>1. /\ source \in Queue /\ top \in Visible(source)
      /\ \A u \in Visible(source) : u # top => Precedes(top, u)
      /\ Top(Heap(source, top.grade)) = top
  BY TopOfItsHeap DEF GetNextTaskToRun
<1>2. /\ UNCHANGED <<pauses, order_>>
      /\ \/ task_source' = task_source
         \/ task_source' = [task_source EXCEPT ![source] = @ \ {top}]
  BY <1>1 DEF GetNextTaskToRun
<1> HIDE DEF top, source
<1>3. Visible(source) = AsTaskRunners!Startable(source)
  BY DEF Visible, AsTaskRunners!Startable
<1>4. \A u \in Visible(source) : ~AsTaskRunners!Precedes(u, top)
  <2> SUFFICES ASSUME NEW u \in Visible(source), AsTaskRunners!Precedes(u, top)
               PROVE  FALSE
    OBVIOUS
  <2>1. u \in Task /\ top \in Task
    BY <1>1 DEF Visible, SourcesOK
  <2>2. u = top \/ Precedes(top, u)
    BY <1>1
  <2>3. u # top
    BY <2>1, NotBeforeItself
  <2> QED
    BY <2>1, <2>2, <2>3, PrecedesOneWay
<1>5. CASE task_source' = task_source
  BY <1>2, <1>5 DEF AsTaskRunners!vars
<1>6. CASE task_source' = [task_source EXCEPT ![source] = @ \ {top}]
  <2>1. AsTaskRunners!Start(source, top)
    BY <1>1, <1>2, <1>3, <1>4, <1>6 DEF AsTaskRunners!Start
  <2>2. top \in task_source[source]
    BY <1>1 DEF Visible
  <2> QED
    BY <1>1, <2>1, <2>2 DEF AsTaskRunners!Next
<1> QED
  BY <1>2, <1>5, <1>6

(* Every operation on the task queues is one on the task runners, or does  *)
(* not show.                                                               *)
LEMMA OperationOfTaskRunners ==
  ASSUME Topology, SourcesOK,
         Operation \/ UNCHANGED <<topology, task_source, pauses, order_>>
  PROVE  AsTaskRunners!Next \/ UNCHANGED AsTaskRunners!vars
<1>1. ASSUME NEW q \in Queue, NEW time \in Time, NEW grade \in Grade,
             RegisterTask(q, time, grade)
      PROVE  AsTaskRunners!Next
  <2>1. AsTaskRunners!Post(q, time, grade)
    BY <1>1 DEF RegisterTask, AsTaskRunners!Post
  <2> QED
    BY <2>1 DEF AsTaskRunners!Next
<1>2. ASSUME NEW q \in Queue, NEW now \in Time, GetNextTaskToRun(q, now)
      PROVE  AsTaskRunners!Next \/ UNCHANGED AsTaskRunners!vars
  BY <1>2, NextTaskIsStarted
<1>3. ASSUME NEW p \in Queue, NEW q \in Queue, MergeQueues(p, q) \/ UnmergeQueues(p, q)
      PROVE  UNCHANGED AsTaskRunners!vars
  BY <1>3 DEF MergeQueues, UnmergeQueues, AsTaskRunners!vars
<1>4. ASSUME NEW q \in Queue, PauseSecondarySource(q)
      PROVE  AsTaskRunners!Next
  <2>1. AsTaskRunners!Pause(q)
    BY <1>4 DEF PauseSecondarySource, AsTaskRunners!Pause
  <2> QED
    BY <2>1 DEF AsTaskRunners!Next
<1>5. ASSUME NEW q \in Queue, ResumeSecondarySource(q)
      PROVE  AsTaskRunners!Next
  <2>1. AsTaskRunners!Resume(q)
    BY <1>5 DEF ResumeSecondarySource, AsTaskRunners!Resume
  <2> QED
    BY <2>1 DEF AsTaskRunners!Next
<1>6. ASSUME NEW q \in Queue, DisposeTasks(q) \/ DisposeQueue(q)
      PROVE  AsTaskRunners!Next
  <2>1. Sources(q) \in SUBSET Queue
    BY SourcesAreQueues
  <2>2. AsTaskRunners!Drop(Sources(q))
    BY <1>6 DEF DisposeTasks, DisposeQueue, AsTaskRunners!Drop
  <2> QED
    BY <2>1, <2>2 DEF AsTaskRunners!Next
<1>7. CASE UNCHANGED <<topology, task_source, pauses, order_>>
  BY <1>7 DEF AsTaskRunners!vars
<1> QED
  BY <1>1, <1>2, <1>3, <1>4, <1>5, <1>6, <1>7 DEF Operation

LEMMA StepOfTaskRunners ==
  Topology /\ SourcesOK /\ [TQNext]_tqvars => [AsTaskRunners!Next]_AsTaskRunners!vars
BY StepIsOperation, OperationOfTaskRunners

(* Whatever is merged, unmerged, paused and disposed, the tasks of a       *)
(* source start once each and in order: MessageLoopTaskQueues implements   *)
(* what TaskRunners promises to whoever posts.                             *)
THEOREM TaskQueuesImplementTaskRunners == TQSpec => ImplementsTaskRunners
<1>1. TQInit => Topology /\ SourcesOK
  BY TQInvInit DEF TQInv, TQInvFor
<1>2. TQInit => AsTaskRunners!Init
  BY DEF TQInit, AsTaskRunners!Init
<1> QED
  BY <1>1, <1>2, SourcesStep, StepOfTaskRunners, PTL
  DEF TQSpec, ImplementsTaskRunners, AsTaskRunners!Spec

(* A queue owns others, or is subsumed by one owner, or is independent,    *)
(* and no live entry names an erased one, over any sequence of merges,     *)
(* unmerges and disposals (message_loop_task_queues.h:107, "Invariants for *)
(* merge and un-merge").  Nothing is assumed of who resumes a queue.       *)
THEOREM TopologyKept == TQSpec => [](TopologyTypeOK /\ MergeTopology)
<1>1. TQInit => Topology /\ SourcesOK
  BY TQInvInit DEF TQInv, TQInvFor
<1>2. Topology => TopologyTypeOK /\ MergeTopology
  BY DEF Topology
<1> QED
  BY <1>1, <1>2, SourcesStep, PTL DEF TQSpec
=============================================================================
