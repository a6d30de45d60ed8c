------------------------------ MODULE TaskQueues ------------------------------
(***************************************************************************)
(* fml::MessageLoopTaskQueues: the process-wide container of the task      *)
(* sources of all message loops.  Each public method holds queue_mutex_    *)
(* for its whole body, so each is one action; the loops that call them are *)
(* in MessageLoop.                                                         *)
(*                                                                         *)
(* A fml::TaskSource keeps a primary and a secondary heap of DelayedTasks; *)
(* task_source[q] is the union of both, the heap of a task being told by   *)
(* its grade.  wake[q] is the time the Wakeable of q was last asked to     *)
(* wake its loop at: every implementation of WakeUp re-arms one timer.     *)
(***************************************************************************)
EXTENDS QueueTopology

CONSTANTS
  Grade,                \* the TaskSourceGrades in use
  kDartEventLoop,       \* the grade whose tasks go to the secondary heap
  Time,                 \* the target times tasks are registered with
  Never,                \* wake[q] when the timer of q is not armed
  MaxTasks,             \* bound: tasks registered in a behaviour
  MaxPauses,            \* bound: open pause requests of one source
  ResumeWhileSubsumed   \* may a subsumed queue be resumed from outside a task?

ASSUME TimeAssumption == Time \subseteq Nat /\ Never \notin Nat
ASSUME BoundsAssumption == MaxTasks \in Nat /\ MaxPauses \in Nat
ASSUME ResumeAssumption == ResumeWhileSubsumed \in BOOLEAN

VARIABLES
  task_source,   \* [Queue -> set of tasks]
  pauses,        \* [Queue -> Nat], TaskSource::secondary_pause_requests_
  order_,        \* number of tasks registered so far
  wake           \* [Queue -> Time \cup {Never}]

tqvars == <<topology, task_source, pauses, order_, wake>>

Task == [order : Nat, time : Time, grade : Grade]

TQInit ==
  /\ InitTopology
  /\ task_source = [q \in Queue |-> {}]
  /\ pauses = [q \in Queue |-> 0]
  /\ order_ = 0
  /\ wake = [q \in Queue |-> Never]

-----------------------------------------------------------------------------

(* Faulty: of two tasks for the same time the later one is first.          *)
PrecedesLastFirst(t, u) ==
  t.time < u.time \/ (t.time = u.time /\ t.order > u.order)

(* DelayedTask::operator>, turned round.                                   *)
Precedes(t, u) ==
  t.time < u.time \/ (t.time = u.time /\ t.order < u.order)

(* The top of a heap, or of several.                                       *)
Top(S) == CHOOSE t \in S : \A u \in S : u # t => Precedes(t, u)

(* The heap of source q that tasks of this grade are pushed to and popped  *)
(* from.                                                                   *)
Heap(q, grade) ==
  {t \in task_source[q] : t.grade = kDartEventLoop <=> grade = kDartEventLoop}

(* What GetNumPendingTasks, IsEmpty and Top of the source of q look at.    *)
Visible(q) == {t \in task_source[q] : t.grade = kDartEventLoop => pauses[q] = 0}

(* HasPendingTasksUnlocked and PeekNextTaskUnlocked: a subsumed queue has  *)
(* nothing pending, an owner has its own tasks and those it owns.          *)
Pending(q) == UNION {Visible(s) : s \in Sources(q)}

SourceOf(t, q) == CHOOSE s \in Sources(q) : t \in Visible(s)

(* WakeUpUnlocked(q, GetNextWakeTimeUnlocked(q)) for each q of Q that has  *)
(* something pending once the operation has made its change.               *)
WakeUp(Q) ==
  wake' = [q \in Queue |-> IF q \in Q /\ Pending(q)' # {}
                             THEN Top(Pending(q)').time ELSE wake[q]]

RegisterTask(q, time, grade) ==
  /\ q \in entries
  /\ order_ < MaxTasks
  /\ order_' = order_ + 1
  /\ task_source' = [task_source EXCEPT
       ![q] = @ \cup {[order |-> order_, time |-> time, grade |-> grade]}]
  /\ UNCHANGED <<topology, pauses>>
  /\ WakeUp({Runner(q)})

(* GetNextTaskToRun when something is pending.  The timer is re-armed for  *)
(* the top task before it is popped, so the wake-up may find nothing.      *)
(* With nothing pending the method returns at once and changes nothing.    *)
GetNextTaskToRun(q, from_time) ==
  /\ q \in entries
  /\ Pending(q) # {}
  /\ LET top == Top(Pending(q))
         source == SourceOf(top, q)
     IN /\ wake' = [wake EXCEPT ![q] = top.time]
        /\ task_source' =
             IF top.time > from_time THEN task_source
             ELSE [task_source EXCEPT ![source] = @ \ {Top(Heap(source, top.grade))}]
  /\ UNCHANGED <<topology, pauses, order_>>

MergeQueues(owner, subsumed) ==
  /\ Merge(owner, subsumed)
  /\ UNCHANGED <<task_source, pauses, order_>>
  /\ WakeUp({owner})

(* Faulty: only the owner is woken.                                        *)
UnmergeWakingOwner(owner, subsumed) ==
  /\ Unmerge(owner, subsumed)
  /\ UNCHANGED <<task_source, pauses, order_>>
  /\ WakeUp({owner})

UnmergeQueues(owner, subsumed) ==
  /\ Unmerge(owner, subsumed)
  /\ UNCHANGED <<task_source, pauses, order_>>
  /\ WakeUp({owner, subsumed})

PauseSecondarySource(q) ==
  /\ q \in entries
  /\ pauses[q] < MaxPauses
  /\ pauses' = [pauses EXCEPT ![q] = @ + 1]
  /\ UNCHANGED <<topology, task_source, order_, wake>>

(* FML_DCHECK(secondary_pause_requests_ >= 0): callers pair the calls.     *)
(* HasPendingTasksUnlocked of a subsumed queue is false, so that resuming  *)
(* one wakes no loop, not even its owner's.                                *)
ResumeSecondarySource(q) ==
  /\ q \in entries
  /\ pauses[q] > 0
  /\ pauses' = [pauses EXCEPT ![q] = @ - 1]
  /\ UNCHANGED <<topology, task_source, order_>>
  /\ WakeUp({q})

(* Called on the loop's own way out; drops the tasks of what it owns too.  *)
DisposeTasks(q) ==
  /\ q \in entries
  /\ ~IsSubsumed(q)
  /\ task_source' =
       [p \in Queue |-> IF p \in Sources(q) THEN {} ELSE task_source[p]]
  /\ UNCHANGED <<topology, pauses, order_, wake>>

DisposeQueue(q) ==
  /\ Dispose(q)
  /\ task_source' =
       [p \in Queue |-> IF p \in Sources(q) THEN {} ELSE task_source[p]]
  /\ wake' = [p \in Queue |-> IF p \in Sources(q) THEN Never ELSE wake[p]]
  /\ UNCHANGED <<pauses, order_>>

-----------------------------------------------------------------------------

(* Any thread may call any method at any moment.                           *)
TQNext ==
  \/ \E q \in Queue, time \in Time, grade \in Grade : RegisterTask(q, time, grade)
  \/ \E q \in Queue, now \in Time : GetNextTaskToRun(q, now)
  \/ \E p, q \in Queue : MergeQueues(p, q) \/ UnmergeQueues(p, q)
  \/ \E q \in Queue :
       \/ PauseSecondarySource(q)
       \/ (ResumeWhileSubsumed \/ ~IsSubsumed(q)) /\ ResumeSecondarySource(q)
       \/ DisposeTasks(q)
       \/ DisposeQueue(q)

TQSpec == TQInit /\ [][TQNext]_tqvars

-----------------------------------------------------------------------------

TQTypeOK ==
  /\ TopologyTypeOK
  /\ task_source \in [Queue -> SUBSET Task]
  /\ pauses \in [Queue -> Nat]
  /\ order_ \in Nat
  /\ wake \in [Queue -> Time \cup {Never}]

(* An order number is given once, by order_++ under the mutex, and a task  *)
(* is in one source.  This is what makes Top a choice of exactly one task. *)
OrdersUnique ==
  \A p, q \in Queue : \A t \in task_source[p], u \in task_source[q] :
    /\ t.order < order_
    /\ t.order = u.order => p = q /\ t = u

(* No loop sleeps through a task: the timer of the loop that runs a queue  *)
(* is armed for no later than the first task that is due, whatever was     *)
(* registered, merged, unmerged, paused or resumed in between              *)
(* (message_loop_task_queues.h: "also wakes up the loop at the required    *)
(* times").  Here nothing fires, so wake is the last request made.         *)
WakeRequested ==
  \A q \in entries :
    Pending(q) # {} => wake[q] # Never /\ wake[q] <= Top(Pending(q)).time

(* Merging never changes the order in which the tasks of one source start, *)
(* never starts one twice and never loses one.                             *)
AsTaskRunners == INSTANCE TaskRunners
  WITH pending <- task_source, paused <- pauses, next <- order_

ImplementsTaskRunners == AsTaskRunners!Spec
=============================================================================
