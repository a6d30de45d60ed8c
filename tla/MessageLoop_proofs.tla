-------------------------- MODULE MessageLoop_proofs --------------------------
(***************************************************************************)
(* For any queues, posting threads, tasks, grades, clock and number of     *)
(* merges: no thread waits past a task that it has to run, and two threads *)
(* are inside tasks of one queue only if it has changed hands in between.  *)
(***************************************************************************)
EXTENDS MessageLoop, TaskQueues_proofs

Does == {"plain", "resume", "terminate"}
Running == [source : Queue, order : Nat, since : Nat]
Posting == [queue : Queue, time : Time, grade : Grade, does : Does]

(* What the threads hold, and what a closure does.                         *)
LoopTypes ==
  /\ now \in Time
  /\ pc \in [Queue -> {"wait", "flush", "invoke", "dispose", "exited"}]
  /\ from \in [Queue -> Time]
  /\ current \in [Queue -> Running \cup {Idle}]
  /\ \A p \in Queue : (pc[p] = "invoke") <=> (current[p] # Idle)
  /\ {running_, terminated_, joined_, draining} \subseteq [Queue -> BOOLEAN]
  /\ posting \in [Poster -> Posting \cup {Idle}]
  /\ closure \in [0 .. MaxTasks - 1 -> Does]
  /\ merges \in 0 .. MaxMerges

Waiting == {p \in Queue : pc[p] = "wait"}

(* Only a loop that is not told to stop waits.                             *)
WaitsRunning == \A p \in Waiting : running_[p]

(* A task that runs has been registered, and started after all merges that *)
(* came before.                                                            *)
TaskKnown ==
  /\ order_ <= MaxTasks
  /\ \A p \in Queue : pc[p] = "invoke" =>
       current[p].order < order_ /\ current[p].since <= merges

(* Nobody merges or unmerges while p is inside its task, or p itself would *)
(* have to and is inside a task that does not.                             *)
Steady(p) == current[p].since = merges \/ closure[current[p].order] = "resume"

(* Meanwhile the queue stays with the thread.                              *)
SourceHeld ==
  \A p \in Queue : pc[p] = "invoke" /\ Steady(p) => current[p].source \in Sources(p)

LoopInv ==
  /\ TQInvFor(Waiting)
  /\ LoopTypes
  /\ WaitsRunning
  /\ TaskKnown
  /\ SourceHeld
  /\ OverlapOnlyAfterMerge

-----------------------------------------------------------------------------
(* The constants.                                                          *)

LEMMA SomeGrade ==
  LET grade == CHOOSE g \in Grade : g # kDartEventLoop
  IN grade \in Grade
BY LoopAssumption

LEMMA Clock ==
  /\ 0 \in Time /\ MaxTime \in Time
  /\ \A t \in Time : t < MaxTime => t + 1 \in Time
<1>1. PICK last \in Time : Time = 0 .. last
  BY LoopAssumption
<1>2. last \in Nat
  BY TimeAssumption
<1>3. last \in Time /\ \A u \in Time : u <= last
  BY <1>1, <1>2
<1>4. MaxTime \in Time /\ \A u \in Time : u <= MaxTime
  BY <1>3 DEF MaxTime
<1> QED
  BY <1>1, <1>2, <1>4

LEMMA IdleIsNoRecord == Idle \notin Running /\ Idle \notin Posting
BY LoopAssumption DEF Running, Posting, Does

-----------------------------------------------------------------------------
(* The loops that the promise of the queues is about.                      *)

LEMMA FewerLoops ==
  ASSUME NEW V, NEW W, TQInvFor(V), W \subseteq V
  PROVE  TQInvFor(W)
BY DEF TQInvFor, WakeBefore

LEMMA NowWaiting ==
  ASSUME NEW W, Waiting' \subseteq W, TQInvFor(W)'
  PROVE  TQInvFor(Waiting)'
BY DEF TQInvFor, WakeBefore

(* A step that does not touch the queues, but for the timer of a loop that *)
(* does not wait.                                                          *)
LEMMA QueuesUntouched ==
  ASSUME TQInvFor(Waiting), UNCHANGED <<topology, task_source, pauses, order_>>,
         wake' \in [Queue -> Time \cup {Never}],
         Waiting' \subseteq Waiting, \A p \in Waiting' : wake'[p] = wake[p]
  PROVE  TQInvFor(Waiting)'
<1>1. (Topology /\ SourcesOK)' /\ \A q : Sources(q)' = Sources(q)
  BY SourcesKept, SameTopology DEF TQInvFor
<1>2. \A q : Pending(q)' = Pending(q)
  BY <1>1 DEF Pending, Visible
<1>3. WakeBefore(Waiting)'
  BY <1>2 DEF TQInvFor, WakeBefore, topology
<1> QED
  BY <1>1, <1>3 DEF TQInvFor

-----------------------------------------------------------------------------
(* The queues, step by step.                                               *)

LEMMA PostKeepsQueues ==
  ASSUME LoopInv, Post
  PROVE  TQInvFor(Waiting)'
<1> PICK x \in Poster, q \in Queue :
      \/ \E time \in Time, grade \in Grade : PostTask(x, q, time, grade)
      \/ \E time \in Time : PauseUntilTask(x, q, time)
      \/ Join(x, q)
  BY DEF Post
<1>1. CASE \/ \E time \in Time, grade \in Grade : PostTask(x, q, time, grade)
           \/ Join(x, q)
  <2>1. UNCHANGED <<tqvars, pc>>
    BY <1>1 DEF PostTask, Join, threads
  <2> QED
    BY <2>1, QueuesUntouched DEF LoopInv, TQInvFor, tqvars, Waiting
<1>2. ASSUME NEW time \in Time, PauseUntilTask(x, q, time)
      PROVE  TQInvFor(Waiting)'
  <2>1. PauseSecondarySource(q) /\ pc' = pc
    BY <1>2 DEF PauseUntilTask, threads
  <2>2. PICK W : W = Waiting
    OBVIOUS
  <2>3. TQInvFor(W)'
    BY <2>1, <2>2, PauseKeeps DEF LoopInv
  <2> QED
    BY <2>1, <2>2, <2>3, NowWaiting DEF Waiting
<1> QED
  BY <1>1, <1>2

LEMMA EndPostKeepsQueues ==
  ASSUME LoopInv, NEW x \in Poster, EndPost(x)
  PROVE  TQInvFor(Waiting)'
<1>1. posting[x] \in Posting
  BY DEF LoopInv, LoopTypes, EndPost
<1>2. PICK q \in Queue, time \in Time, grade \in Grade : RegisterTask(q, time, grade)
  BY <1>1 DEF EndPost, Posting
<1>3. pc' = pc
  BY DEF EndPost, threads
<1>4. PICK W : W = Waiting
  OBVIOUS
<1>5. TQInvFor(W)'
  BY <1>2, <1>4, RegisterKeeps DEF LoopInv
<1> QED
  BY <1>3, <1>4, <1>5, NowWaiting DEF Waiting

LEMMA OnEventFiredKeepsQueues ==
  ASSUME LoopInv, NEW p \in Queue, OnEventFired(p)
  PROVE  TQInvFor(Waiting)'
<1>1. /\ UNCHANGED <<topology, task_source, pauses, order_>>
      /\ wake' = [wake EXCEPT ![p] = Never]
      /\ pc' = [pc EXCEPT ![p] = "flush"]
  BY DEF OnEventFired
<1>2. wake' \in [Queue -> Time \cup {Never}]
  BY <1>1 DEF LoopInv, TQInvFor
<1>3. Waiting' \subseteq Waiting /\ p \notin Waiting'
  BY <1>1 DEF Waiting, LoopInv, LoopTypes
<1>4. \A q \in Waiting' : wake'[q] = wake[q]
  BY <1>1, <1>3 DEF Waiting, LoopInv, TQInvFor
<1> QED
  BY <1>1, <1>2, <1>3, <1>4, QueuesUntouched DEF LoopInv

(* Whether it finds a task or not, the timer is armed for the first one;   *)
(* so the loop may go back to wait.                                        *)
LEMMA FlushKeepsQueues ==
  ASSUME LoopInv, NEW p \in Queue,
         GetNextTaskToRun(p, from[p]) \/ (Pending(p) = {} /\ UNCHANGED tqvars),
         Waiting' \subseteq Waiting \cup {p}
  PROVE  TQInvFor(Waiting)'
<1>1. PICK W : W = Waiting
  OBVIOUS
<1>2. TQInvFor(W \cup {p})'
  <2>1. CASE GetNextTaskToRun(p, from[p])
    <3>1. from[p] \in Time
      BY DEF LoopInv, LoopTypes
    <3> QED
      BY <1>1, <2>1, <3>1, GetNextKeeps DEF LoopInv
  <2>2. CASE Pending(p) = {} /\ UNCHANGED tqvars
    <3>1. (Topology /\ SourcesOK)' /\ \A q : Sources(q)' = Sources(q)
      BY <2>2, SourcesKept, SameTopology DEF LoopInv, TQInvFor, tqvars
    <3>2. \A q : Pending(q)' = Pending(q)
      BY <2>2, <3>1 DEF Pending, Visible, tqvars
    <3> QED
      BY <1>1, <2>2, <3>1, <3>2 DEF LoopInv, TQInvFor, WakeBefore, tqvars, topology
  <2> QED
    BY <2>1, <2>2
<1> QED
  BY <1>1, <1>2, NowWaiting

LEMMA LoopKeepsQueues ==
  ASSUME LoopInv, NEW p \in Queue, Loop(p)
  PROVE  TQInvFor(Waiting)'
<1>1. CASE OnEventFired(p)
  BY <1>1, OnEventFiredKeepsQueues
<1>2. CASE StartTask(p)
  <2>1. Waiting' \subseteq Waiting \cup {p}
    BY <1>2 DEF StartTask, Waiting, LoopInv, LoopTypes
  <2> QED
    BY <1>2, <2>1, FlushKeepsQueues DEF StartTask
<1>3. CASE KeepRunning(p) \/ BeginDrain(p) \/ EndDrain(p)
  <2>1. Waiting' \subseteq Waiting \cup {p}
    BY <1>3 DEF KeepRunning, BeginDrain, EndDrain, Waiting, LoopInv, LoopTypes
  <2> QED
    BY <1>3, <2>1, FlushKeepsQueues DEF KeepRunning, BeginDrain, EndDrain, NothingDue
<1>4. CASE DropTasks(p)
  <2>1. PICK W : W = Waiting
    OBVIOUS
  <2>2. TQInvFor(W)'
    BY <1>4, <2>1, DisposeTasksKeeps DEF LoopInv, DropTasks
  <2>3. Waiting' \subseteq Waiting
    BY <1>4 DEF DropTasks, Waiting, LoopInv, LoopTypes
  <2> QED
    BY <2>1, <2>2, <2>3, NowWaiting
<1>5. CASE RunPlain(p) \/ RunResume(p) \/ RunTerminate(p)
  <2>1. /\ pc[p] = "invoke" /\ pc' = [pc EXCEPT ![p] = "flush"]
        /\ current[p] \in Running
    BY <1>5 DEF RunPlain, RunResume, RunTerminate, EndTask, LoopInv, LoopTypes
  <2>2. Waiting' \subseteq Waiting /\ p \notin Waiting /\ p \notin Waiting'
    BY <2>1 DEF Waiting, LoopInv, LoopTypes
  <2>3. CASE RunPlain(p)
    <3>1. UNCHANGED tqvars
      BY <2>3 DEF RunPlain
    <3> QED
      BY <2>2, <3>1, QueuesUntouched DEF LoopInv, TQInvFor, tqvars
  <2>4. CASE RunResume(p)
    <3>1. PICK q \in Queue : q = current[p].source
      BY <2>1 DEF Running
    <3>2. ResumeSecondarySource(q) /\ closure[current[p].order] = "resume"
      BY <2>4, <3>1 DEF RunResume
    <3>3. q \in Sources(p)
      BY <2>1, <3>1, <3>2 DEF LoopInv, SourceHeld, Steady
    <3>4. PICK W : W = Waiting
      OBVIOUS
    <3>5. \A r \in (W \cap Queue) \ {q} : q \notin Sources(r)
      BY <2>2, <3>3, <3>4, OneRunner DEF LoopInv, TQInvFor
    <3>6. TQInvFor(W)'
      BY <3>2, <3>4, <3>5, ResumeKeeps DEF LoopInv
    <3> QED
      BY <2>2, <3>4, <3>6, NowWaiting
  <2>5. CASE RunTerminate(p)
    <3>1. /\ UNCHANGED <<topology, task_source, pauses, order_>>
          /\ wake' = [wake EXCEPT ![p] = now]
      BY <2>5 DEF RunTerminate
    <3>2. wake' \in [Queue -> Time \cup {Never}]
      BY <3>1 DEF LoopInv, TQInvFor, LoopTypes
    <3>3. \A q \in Waiting' : wake'[q] = wake[q]
      BY <2>2, <3>1 DEF Waiting, LoopInv, TQInvFor
    <3> QED
      BY <2>2, <3>1, <3>2, <3>3, QueuesUntouched DEF LoopInv
  <2> QED
    BY <1>5, <2>3, <2>4, <2>5
<1> QED
  BY <1>1, <1>2, <1>3, <1>4, <1>5 DEF Loop

LEMMA OthersKeepQueues ==
  ASSUME LoopInv, NEW p \in Queue, NEW q \in Queue,
         DestroyLoop(p) \/ MergeOrUnmerge(p, q)
  PROVE  TQInvFor(Waiting)'
<1>1. PICK W : W = Waiting
  OBVIOUS
<1>2. pc' = pc
  BY DEF DestroyLoop, MergeOrUnmerge, threads
<1>3. \/ DisposeQueue(p)
      \/ MergeQueues(q, p) \/ UnmergeQueues(p, q)
  BY DEF DestroyLoop, MergeOrUnmerge, MergeInTask, UnmergeOnOwner
<1>4. TQInvFor(W)'
  BY <1>1, <1>3, DisposeQueueKeeps, MergeKeeps, UnmergeKeeps DEF LoopInv
<1> QED
  BY <1>1, <1>2, <1>4, NowWaiting DEF Waiting


-----------------------------------------------------------------------------
(* The types, and what a loop that waits may not be.                       *)

LEMMA PostKeepsTypes ==
  ASSUME LoopInv, Post
  PROVE  LoopTypes' /\ UNCHANGED <<pc, running_, current, merges, topology, order_, closure>>
<1> USE DEF LoopInv, LoopTypes
<1> PICK x \in Poster, q \in Queue :
      \/ \E time \in Time, grade \in Grade : PostTask(x, q, time, grade)
      \/ \E time \in Time : PauseUntilTask(x, q, time)
      \/ Join(x, q)
  BY DEF Post
<1>1. ASSUME NEW time \in Time, NEW grade \in Grade, NEW does \in Does,
             BeginPost(x, q, time, grade, does)
      PROVE  posting' \in [Poster -> Posting \cup {Idle}]
  <2>1. [queue |-> q, time |-> time, grade |-> grade, does |-> does] \in Posting
    BY DEF Posting
  <2> QED
    BY <1>1, <2>1 DEF BeginPost
<1>2. (CHOOSE g \in Grade : g # kDartEventLoop) \in Grade
  BY SomeGrade
<1>3. ASSUME NEW time \in Time, NEW grade \in Grade, PostTask(x, q, time, grade)
      PROVE  LoopTypes' /\ UNCHANGED <<pc, running_, current, merges, topology, order_, closure>>
  <2>1. posting' \in [Poster -> Posting \cup {Idle}]
    BY <1>1, <1>3 DEF PostTask, Does
  <2> QED
    BY <1>3, <2>1 DEF PostTask, threads, tqvars
<1>4. ASSUME NEW time \in Time, PauseUntilTask(x, q, time)
      PROVE  LoopTypes' /\ UNCHANGED <<pc, running_, current, merges, topology, order_, closure>>
  <2>1. posting' \in [Poster -> Posting \cup {Idle}]
    BY <1>1, <1>2, <1>4 DEF PauseUntilTask, Does
  <2> QED
    BY <1>4, <2>1 DEF PauseUntilTask, PauseSecondarySource, threads
<1>5. ASSUME Join(x, q)
      PROVE  LoopTypes' /\ UNCHANGED <<pc, running_, current, merges, topology, order_, closure>>
  <2>1. posting' \in [Poster -> Posting \cup {Idle}]
    BY <1>1, <1>2, <1>5 DEF Join, Does
  <2>2. joined_' \in [Queue -> BOOLEAN]
    BY <1>5 DEF Join
  <2> QED
    BY <1>5, <2>1, <2>2 DEF Join, tqvars
<1> QED
  BY <1>3, <1>4, <1>5

(* Nobody changes what a task does that has been registered.               *)
LEMMA EndPostKeepsTypes ==
  ASSUME LoopInv, NEW x \in Poster, EndPost(x)
  PROVE  /\ LoopTypes' /\ UNCHANGED <<pc, running_, current, merges, topology>>
         /\ order_' = order_ + 1 /\ order_' <= MaxTasks
         /\ \A n \in 0 .. order_ - 1 : closure'[n] = closure[n]
<1> USE DEF LoopInv, LoopTypes
<1>1. posting[x] \in Posting
  BY DEF EndPost
<1>2. /\ posting' = [posting EXCEPT ![x] = Idle]
      /\ closure' = [closure EXCEPT ![order_] = posting[x].does]
      /\ posting[x].does \in Does
  BY <1>1 DEF EndPost, Posting
<1>3. /\ order_ \in Nat /\ MaxTasks \in Nat
      /\ order_ < MaxTasks /\ order_' = order_ + 1 /\ UNCHANGED topology
  BY BoundsAssumption DEF EndPost, RegisterTask, TQInvFor, SourcesOK
<1>4. \A n \in 0 .. order_ - 1 : closure'[n] = closure[n]
  BY <1>2, <1>3
<1>5. LoopTypes'
  BY <1>2 DEF EndPost, threads
<1> QED
  BY <1>3, <1>4, <1>5 DEF EndPost, threads

LEMMA LoopKeepsTypes ==
  ASSUME LoopInv, NEW p \in Queue, Loop(p)
  PROVE  LoopTypes' /\ WaitsRunning'
<1> USE DEF LoopInv, LoopTypes, WaitsRunning, Waiting
<1>1. CASE OnEventFired(p)
  BY <1>1 DEF OnEventFired
<1>2. CASE StartTask(p)
  <2> DEFINE top == Top(Pending(p))
             run == [source |-> SourceOf(top, p), order |-> top.order, since |-> merges]
  <2>1. Topology /\ SourcesOK /\ Pending(p) # {}
    BY <1>2 DEF TQInvFor, StartTask, GetNextTaskToRun
  <2>2. SourceOf(top, p) \in Queue /\ top \in Visible(SourceOf(top, p))
    BY <2>1, TopOfItsHeap
  <2>3. top.order \in Nat
    BY <2>1, <2>2 DEF Visible, SourcesOK, Task
  <2>4. merges \in Nat
    OBVIOUS
  <2>5. run \in Running
    BY <2>2, <2>3, <2>4 DEF Running
  <2>6. current' = [current EXCEPT ![p] = run] /\ pc' = [pc EXCEPT ![p] = "invoke"]
    BY <1>2 DEF StartTask
  <2> HIDE DEF run
  <2>7. /\ current' \in [Queue -> Running \cup {Idle}]
        /\ pc' \in [Queue -> {"wait", "flush", "invoke", "dispose", "exited"}]
        /\ \A q \in Queue : (pc'[q] = "invoke") <=> (current'[q] # Idle)
    BY <2>5, <2>6, IdleIsNoRecord
  <2> QED
    BY <1>2, <2>6, <2>7 DEF StartTask
<1>3. CASE KeepRunning(p)
  BY <1>3, Clock DEF KeepRunning, NothingDue
<1>4. CASE BeginDrain(p)
  BY <1>4 DEF BeginDrain, NothingDue
<1>5. CASE EndDrain(p)
  BY <1>5, Clock DEF EndDrain, NothingDue
<1>6. CASE DropTasks(p)
  BY <1>6 DEF DropTasks
<1>7. CASE RunPlain(p) \/ RunResume(p)
  BY <1>7, IdleIsNoRecord DEF RunPlain, RunResume, EndTask
<1>8. CASE RunTerminate(p)
  BY <1>8, IdleIsNoRecord DEF RunTerminate, EndTask
<1> QED
  BY <1>1, <1>2, <1>3, <1>4, <1>5, <1>6, <1>7, <1>8 DEF Loop

LEMMA OthersKeepTypes ==
  ASSUME LoopInv, NEW p \in Queue, NEW q \in Queue,
         DestroyLoop(p) \/ MergeOrUnmerge(p, q) \/ Tick
  PROVE  LoopTypes' /\ UNCHANGED <<pc, running_, current, order_, closure>>
<1> USE DEF LoopInv, LoopTypes
<1>1. CASE DestroyLoop(p)
  BY <1>1 DEF DestroyLoop, DisposeQueue, threads
<1>2. CASE MergeOrUnmerge(p, q)
  <2>1. merges' \in 0 .. MaxMerges
    BY <1>2, LoopAssumption DEF MergeOrUnmerge
  <2>2. order_' = order_
    BY <1>2 DEF MergeOrUnmerge, MergeInTask, UnmergeOnOwner, MergeQueues, UnmergeQueues
  <2> QED
    BY <1>2, <2>1, <2>2 DEF MergeOrUnmerge, threads
<1>3. CASE Tick
  <2>1. now' \in Time
    BY <1>3, Clock DEF Tick
  <2> QED
    BY <1>3, <2>1 DEF Tick, threads, tqvars
<1> QED
  BY <1>1, <1>2, <1>3

-----------------------------------------------------------------------------
(* What runs, and from which queue.                                        *)

Runs == TaskKnown /\ SourceHeld /\ OverlapOnlyAfterMerge

(* A step that starts no task.                                             *)
LEMMA NothingStarts ==
  ASSUME LoopInv, LoopTypes', order_' \in Nat, order_ <= order_', order_' <= MaxTasks,
         merges <= merges',
         \A p \in Queue : pc'[p] = "invoke" => pc[p] = "invoke" /\ current'[p] = current[p],
         \A n \in 0 .. order_ - 1 : closure'[n] = closure[n],
         \A p \in Queue : /\ pc[p] = "invoke" /\ pc'[p] = "invoke" /\ Steady(p)
                          /\ closure[current[p].order] = "resume" \/ merges' = merges
                          => current[p].source \in Sources(p)'
  PROVE  Runs'
<1>1. order_ \in Nat /\ merges \in Nat /\ merges' \in Nat /\ MaxTasks \in Nat
  BY LoopAssumption, BoundsAssumption DEF LoopInv, LoopTypes, TQInvFor, SourcesOK
<1>2. ASSUME NEW p \in Queue, pc'[p] = "invoke"
      PROVE  /\ current'[p] = current[p] /\ current[p] \in Running
             /\ current[p].order < order_ /\ current[p].since <= merges
             /\ current[p].order \in Nat /\ current[p].since \in Nat
             /\ closure'[current[p].order] = closure[current[p].order]
             /\ pc[p] = "invoke"
  <2>1. pc[p] = "invoke" /\ current'[p] = current[p] /\ current[p] \in Running
    BY <1>2 DEF LoopInv, LoopTypes
  <2>2. current[p].order \in Nat /\ current[p].since \in Nat
    BY <2>1 DEF Running
  <2>3. current[p].order < order_ /\ current[p].since <= merges
    BY <2>1 DEF LoopInv, TaskKnown
  <2>4. current[p].order \in 0 .. order_ - 1
    BY <1>1, <2>2, <2>3
  <2> QED
    BY <2>1, <2>2, <2>3, <2>4
<1>3. TaskKnown'
  BY <1>1, <1>2 DEF TaskKnown
<1>4. SourceHeld'
  <2> SUFFICES ASSUME NEW p \in Queue, pc'[p] = "invoke", Steady(p)'
               PROVE  current'[p].source \in Sources(p)'
    BY DEF SourceHeld
  <2>1. current'[p] = current[p] /\ pc[p] = "invoke"
    BY <1>2
  <2>2. CASE closure[current[p].order] = "resume"
    BY <2>1, <2>2 DEF Steady
  <2>3. CASE closure[current[p].order] # "resume"
    <3>1. current[p].since = merges'
      BY <1>2, <2>3 DEF Steady
    <3>2. merges' = merges
      BY <1>1, <1>2, <3>1
    <3> QED
      BY <2>1, <3>1, <3>2 DEF Steady
  <2> QED
    BY <2>2, <2>3
<1>5. OverlapOnlyAfterMerge'
  BY <1>2 DEF OverlapOnlyAfterMerge, LoopInv
<1> QED
  BY <1>3, <1>4, <1>5 DEF Runs

(* The same with nothing merged, unmerged or disposed.                     *)
LEMMA NothingMoves ==
  ASSUME LoopInv, LoopTypes', UNCHANGED <<topology, merges>>,
         order_' \in Nat, order_ <= order_', order_' <= MaxTasks,
         \A p \in Queue : pc'[p] = "invoke" => pc[p] = "invoke" /\ current'[p] = current[p],
         \A n \in 0 .. order_ - 1 : closure'[n] = closure[n]
  PROVE  Runs'
<1>1. \A p : Sources(p)' = Sources(p)
  BY SameTopology DEF LoopInv, TQInvFor
<1>2. merges \in Nat
  BY LoopAssumption DEF LoopInv, LoopTypes
<1>3. \A p \in Queue : pc[p] = "invoke" /\ Steady(p) => current[p].source \in Sources(p)'
  BY <1>1 DEF LoopInv, SourceHeld
<1> QED
  BY <1>2, <1>3, NothingStarts

LEMMA StartKeepsRuns ==
  ASSUME LoopInv, NEW p \in Queue, StartTask(p), LoopTypes'
  PROVE  Runs'
<1> DEFINE top == Top(Pending(p))
           source == SourceOf(top, p)
           run == [source |-> source, order |-> top.order, since |-> merges]
<1>1. Topology /\ SourcesOK /\ Pending(p) # {} /\ UNCHANGED <<topology, order_>>
  BY DEF LoopInv, TQInvFor, StartTask, GetNextTaskToRun
<1>2. source \in Queue /\ source \in Sources(p) /\ top \in task_source[source]
  BY <1>1, TopOfItsHeap DEF Visible
<1>3. top.order \in Nat /\ top.order < order_
  BY <1>1, <1>2 DEF SourcesOK, OrdersUnique, Task
<1>4. /\ current' = [current EXCEPT ![p] = run] /\ pc' = [pc EXCEPT ![p] = "invoke"]
      /\ pc[p] = "flush" /\ UNCHANGED <<closure, merges>>
  BY DEF StartTask
<1>5. /\ run.source = source /\ run.order = top.order /\ run.since = merges
      /\ merges \in Nat /\ order_ \in Nat /\ order_ <= MaxTasks
  BY <1>1, LoopAssumption DEF SourcesOK, LoopInv, LoopTypes, TaskKnown
<1> HIDE DEF top, source, run
<1>6. current'[p] = run /\ \A r \in Queue : r # p => current'[r] = current[r] /\ pc'[r] = pc[r]
  BY <1>4 DEF LoopInv, LoopTypes
<1>7. \A q : Sources(q)' = Sources(q)
  BY <1>1, SameTopology
<1>8. TaskKnown'
  <2>1. \A r \in Queue : pc'[r] = "invoke" =>
          current'[r].order < order_ /\ current'[r].since <= merges
    BY <1>3, <1>5, <1>6 DEF LoopInv, TaskKnown
  <2> QED
    BY <1>1, <1>4, <1>5, <2>1 DEF TaskKnown
<1>9. SourceHeld'
  <2> SUFFICES ASSUME NEW r \in Queue, pc'[r] = "invoke", Steady(r)'
               PROVE  current'[r].source \in Sources(r)'
    BY DEF SourceHeld
  <2>1. CASE r = p
    BY <1>2, <1>5, <1>6, <1>7, <2>1
  <2>2. CASE r # p
    <3>1. pc[r] = "invoke" /\ Steady(r) /\ current'[r] = current[r]
      BY <1>4, <1>6, <2>2 DEF Steady
    <3> QED
      BY <1>7, <3>1 DEF LoopInv, SourceHeld
  <2> QED
    BY <2>1, <2>2
(* Another thread in a task of that queue started it before the last merge; *)
(* or the queue would be with that thread still.                           *)
<1>10. ASSUME NEW r \in Queue, r # p, pc[r] = "invoke", current[r].source = source
       PROVE  current[r].since # merges
  <2> SUFFICES ASSUME current[r].since = merges
               PROVE  FALSE
    OBVIOUS
  <2>1. source \in Sources(r)
    BY <1>10 DEF LoopInv, SourceHeld, Steady
  <2> QED
    BY <1>1, <1>2, <1>10, <2>1, OneRunner
<1>11. OverlapOnlyAfterMerge'
  <2> SUFFICES ASSUME NEW a \in Queue, NEW b \in Queue, a # b,
                      pc'[a] = "invoke", pc'[b] = "invoke",
                      current'[a].source = current'[b].source
               PROVE  current'[a].since # current'[b].since
    BY DEF OverlapOnlyAfterMerge
  <2>1. CASE a = p
    BY <1>5, <1>6, <1>10, <2>1
  <2>2. CASE b = p
    BY <1>5, <1>6, <1>10, <2>2
  <2>3. CASE a # p /\ b # p
    BY <1>6, <2>3 DEF OverlapOnlyAfterMerge, LoopInv
  <2> QED
    BY <2>1, <2>2, <2>3
<1> QED
  BY <1>8, <1>9, <1>11 DEF Runs

LEMMA LoopKeepsRuns ==
  ASSUME LoopInv, NEW p \in Queue, Loop(p)
  PROVE  Runs'
<1>1. LoopTypes'
  BY LoopKeepsTypes
<1>2. CASE StartTask(p)
  BY <1>1, <1>2, StartKeepsRuns
<1>3. CASE ~StartTask(p)
  <2>1. \A q \in Queue : pc'[q] = "invoke" => pc[q] = "invoke" /\ current'[q] = current[q]
    BY <1>3 DEF Loop, LoopInv, LoopTypes, OnEventFired, KeepRunning, BeginDrain, EndDrain,
      NothingDue, DropTasks, RunPlain, RunResume, RunTerminate, EndTask
  <2>2. UNCHANGED <<topology, merges, order_, closure>>
    BY <1>3 DEF Loop, OnEventFired, KeepRunning, BeginDrain, EndDrain, NothingDue,
      GetNextTaskToRun, DropTasks, DisposeTasks, RunPlain, RunResume, ResumeSecondarySource,
      RunTerminate, tqvars
  <2>3. order_ \in Nat /\ order_ <= MaxTasks
    BY DEF LoopInv, TQInvFor, SourcesOK, TaskKnown
  <2> QED
    BY <1>1, <2>1, <2>2, <2>3, NothingMoves
<1> QED
  BY <1>2, <1>3

(* The thread that merges or unmerges is in no task of a vsync, and what    *)
(* the others are in the middle of stays with them.                        *)
LEMMA MergeKeepsRuns ==
  ASSUME LoopInv, NEW p \in Queue, NEW q \in Queue, MergeOrUnmerge(p, q)
  PROVE  Runs'
<1>1. LoopTypes' /\ UNCHANGED <<pc, current, order_, closure>>
  BY OthersKeepTypes
<1>2. /\ merges' = merges + 1 /\ merges \in Nat
      /\ order_ \in Nat /\ order_ <= MaxTasks
  BY LoopAssumption
  DEF MergeOrUnmerge, LoopInv, LoopTypes, TaskKnown, TQInvFor, SourcesOK
<1>3. ASSUME NEW r \in Queue, pc[r] = "invoke", Steady(r),
             closure[current[r].order] = "resume"
      PROVE  current[r].source \in Sources(r)'
  <2>1. current[r].source \in Sources(r)
    BY <1>3 DEF LoopInv, SourceHeld
  <2>2. r # p
    BY <1>3 DEF MergeOrUnmerge, MergeInTask, UnmergeOnOwner, InPlainTask
  <2>3. Topology /\ TopologyTypeOK
    BY DEF LoopInv, TQInvFor, Topology
  <2>4. CASE MergeInTask(p, q)
    <3>1. Merge(q, p)
      BY <2>4 DEF MergeInTask, MergeQueues
    <3> QED
      BY <2>1, <2>2, <2>3, <3>1 DEF Merge, Sources, IsSubsumed, TopologyTypeOK
  <2>5. CASE UnmergeOnOwner(p, q)
    <3>1. Unmerge(p, q)
      BY <2>5 DEF UnmergeOnOwner, UnmergeQueues
    <3> QED
      BY <2>1, <2>2, <2>3, <3>1
      DEF Unmerge, UnmergeSucceeds, Sources, IsSubsumed, TopologyTypeOK
  <2> QED
    BY <2>4, <2>5 DEF MergeOrUnmerge
<1>4. order_' \in Nat /\ order_ <= order_' /\ order_' <= MaxTasks /\ merges <= merges' /\ merges' # merges
  BY <1>1, <1>2
<1> QED
  BY <1>1, <1>3, <1>4, NothingStarts

(* A loop is destroyed when its thread has gone: no other runs its queue.  *)
LEMMA DestroyKeepsRuns ==
  ASSUME LoopInv, NEW p \in Queue, DestroyLoop(p)
  PROVE  Runs'
<1>1. LoopTypes' /\ UNCHANGED <<pc, current, order_, closure>>
  BY OthersKeepTypes
<1>2. merges' = merges /\ pc[p] = "exited" /\ Dispose(p)
  BY DEF DestroyLoop, DisposeQueue
<1>3. ASSUME NEW r \in Queue, pc[r] = "invoke", Steady(r)
      PROVE  current[r].source \in Sources(r)'
  <2>1. current[r].source \in Sources(r) /\ r # p
    BY <1>2, <1>3 DEF LoopInv, SourceHeld
  <2>2. ~IsSubsumed(r)
    BY <2>1 DEF Sources
  <2>3. r \notin owner_of[p]
    BY <2>2, UnmergedAssumption
    DEF IsSubsumed, LoopInv, TQInvFor, Topology, MergeTopology, OneOwnerPerQueue
  <2>4. owner_of'[r] = owner_of[r] /\ subsumed_by'[r] = subsumed_by[r]
    BY <1>2, <2>1, <2>3 DEF Dispose
  <2> QED
    BY <2>1, <2>4 DEF Sources, IsSubsumed
<1>4. order_ \in Nat /\ order_ <= MaxTasks /\ merges \in Nat
  BY LoopAssumption DEF LoopInv, LoopTypes, TQInvFor, SourcesOK, TaskKnown
<1>5. order_' \in Nat /\ order_ <= order_' /\ order_' <= MaxTasks /\ merges <= merges'
  BY <1>1, <1>2, <1>4
<1> QED
  BY <1>1, <1>3, <1>5, NothingStarts
-----------------------------------------------------------------------------

LEMMA LoopInvInit == Init => LoopInv
<1> SUFFICES ASSUME Init
             PROVE  LoopInv
  OBVIOUS
<1>1. TQInvFor(Waiting)
  BY TQInvInit, FewerLoops DEF Init, TQInv, Waiting
<1>2. LoopTypes
  BY Clock, LoopAssumption DEF Init, LoopTypes, Does
<1>3. \A p \in Queue : pc[p] = "wait" /\ running_[p]
  BY DEF Init
<1>4. order_ <= MaxTasks
  BY BoundsAssumption DEF Init, TQInit
<1> QED
  BY <1>1, <1>2, <1>3, <1>4
  DEF LoopInv, WaitsRunning, Waiting, TaskKnown, SourceHeld, OverlapOnlyAfterMerge

LEMMA LoopInvStep == LoopInv /\ [Next]_vars => LoopInv'
<1> SUFFICES ASSUME LoopInv, [Next]_vars
             PROVE  LoopInv'
  OBVIOUS
<1>1. order_ \in Nat /\ order_ <= MaxTasks
  BY DEF LoopInv, TQInvFor, SourcesOK, TaskKnown
<1>2. CASE Post
  <2>1. LoopTypes' /\ UNCHANGED <<pc, running_, current, merges, topology, order_, closure>>
    BY <1>2, PostKeepsTypes
  <2>2. TQInvFor(Waiting)'
    BY <1>2, PostKeepsQueues
  <2>3. Runs'
    BY <1>1, <2>1, NothingMoves
  <2>4. WaitsRunning'
    BY <2>1 DEF LoopInv, WaitsRunning, Waiting
  <2> QED
    BY <2>1, <2>2, <2>3, <2>4 DEF LoopInv, Runs
<1>3. ASSUME NEW x \in Poster, EndPost(x)
      PROVE  LoopInv'
  <2>1. /\ LoopTypes' /\ UNCHANGED <<pc, running_, current, merges, topology>>
        /\ order_' = order_ + 1 /\ order_' <= MaxTasks
        /\ \A n \in 0 .. order_ - 1 : closure'[n] = closure[n]
    BY <1>3, EndPostKeepsTypes
  <2>2. TQInvFor(Waiting)'
    BY <1>3, EndPostKeepsQueues
  <2>3. order_' \in Nat /\ order_ <= order_'
    BY <1>1, <2>1
  <2>4. Runs'
    BY <2>1, <2>3, NothingMoves
  <2>5. WaitsRunning'
    BY <2>1 DEF LoopInv, WaitsRunning, Waiting
  <2> QED
    BY <2>1, <2>2, <2>4, <2>5 DEF LoopInv, Runs
<1>4. ASSUME NEW p \in Queue, Loop(p)
      PROVE  LoopInv'
  BY <1>4, LoopKeepsQueues, LoopKeepsTypes, LoopKeepsRuns DEF LoopInv, Runs
<1>5. ASSUME NEW p \in Queue, NEW q \in Queue, DestroyLoop(p) \/ MergeOrUnmerge(p, q)
      PROVE  LoopInv'
  <2>1. TQInvFor(Waiting)' /\ LoopTypes' /\ UNCHANGED <<pc, running_>>
    BY <1>5, OthersKeepQueues, OthersKeepTypes
  <2>2. Runs'
    BY <1>5, DestroyKeepsRuns, MergeKeepsRuns
  <2>3. WaitsRunning'
    BY <2>1 DEF LoopInv, WaitsRunning, Waiting
  <2> QED
    BY <2>1, <2>2, <2>3 DEF LoopInv, Runs
<1>6. CASE Tick \/ UNCHANGED vars
  <2>1. /\ LoopTypes'
        /\ UNCHANGED <<tqvars, pc, running_, current, merges, closure>>
    <3>1. CASE Tick
      <4>1. now' \in Time
        BY <3>1, Clock DEF Tick, LoopInv, LoopTypes
      <4> QED
        BY <3>1, <4>1 DEF Tick, threads, LoopInv, LoopTypes
    <3>2. CASE UNCHANGED vars
      BY <3>2 DEF vars, threads, LoopInv, LoopTypes
    <3> QED
      BY <1>6, <3>1, <3>2
  <2>2. TQInvFor(Waiting)'
    BY <2>1, QueuesUntouched DEF LoopInv, TQInvFor, tqvars, Waiting
  <2>3. Runs'
    BY <1>1, <2>1, NothingMoves DEF tqvars
  <2>4. WaitsRunning'
    BY <2>1 DEF LoopInv, WaitsRunning, Waiting
  <2> QED
    BY <2>1, <2>2, <2>3, <2>4 DEF LoopInv, Runs
<1> QED
  BY <1>2, <1>3, <1>4, <1>5, <1>6 DEF Next

LEMMA LoopInvSuffices == LoopInv => TypeOK /\ NoLostWakeup /\ OverlapOnlyAfterMerge
<1> SUFFICES ASSUME LoopInv
             PROVE  TypeOK /\ NoLostWakeup
  BY DEF LoopInv
<1>1. TypeOK
  BY DEF LoopInv, LoopTypes, TypeOK, TQInvFor, Topology, SourcesOK, TQTypeOK
<1>2. ASSUME NEW p \in entries, pc[p] = "wait"
      PROVE  /\ Pending(p) # {} => wake[p] # Never /\ wake[p] <= Top(Pending(p)).time
             /\ running_[p]
  <2>1. p \in Queue /\ p \in Waiting
    BY <1>2 DEF Waiting, LoopInv, TQInvFor, Topology, TopologyTypeOK
  <2>2. Pending(p) # {} => Top(Pending(p)) \in Pending(p)
    BY <2>1, PendingOrdered, TopExists DEF LoopInv, TQInvFor
  <2>3. \A t \in Pending(p) : wake[p] \in Time /\ wake[p] <= t.time
    BY <2>1 DEF LoopInv, TQInvFor, WakeBefore
  <2>4. Never \notin Time
    BY TimeAssumption
  <2> QED
    BY <2>1, <2>2, <2>3, <2>4 DEF LoopInv, WaitsRunning
<1> QED
  BY <1>1, <1>2 DEF NoLostWakeup

(* Whatever is posted, merged, unmerged, paused, resumed, joined and        *)
(* destroyed, and whenever: the timer of a thread that waits is set for no *)
(* later than the first task that it has to run (the promise of            *)
(* WakeUpUnlocked at every change, fml/message_loop_task_queues.cc), and   *)
(* two threads are inside tasks of one queue only if a merge or an unmerge *)
(* lies between their beginnings (FlushTasks holds no mutex while it runs  *)
(* a task, fml/message_loop_impl.cc).                                      *)
THEOREM LoopsMissNoTask == Spec => [](TypeOK /\ NoLostWakeup /\ OverlapOnlyAfterMerge)
BY LoopInvInit, LoopInvStep, LoopInvSuffices, PTL DEF Spec

-----------------------------------------------------------------------------
(* Every step of the threads is one operation on the queues, or leaves     *)
(* alone what a task runner sees of them.                                  *)
LEMMA StepIsOneOperation ==
  ASSUME LoopInv, [Next]_vars
  PROVE  Operation \/ UNCHANGED <<topology, task_source, pauses, order_>>
<1>1. CASE Post
  BY <1>1 DEF Post, PostTask, PauseUntilTask, Join, Operation, tqvars
<1>2. ASSUME NEW x \in Poster, EndPost(x)
      PROVE  Operation
  <2>1. posting[x] \in Posting
    BY <1>2 DEF EndPost, LoopInv, LoopTypes
  <2>2. /\ posting[x].queue \in Queue /\ posting[x].time \in Time
        /\ posting[x].grade \in Grade
    BY <2>1 DEF Posting
  <2> QED
    BY <1>2, <2>2 DEF EndPost, Operation
<1>3. ASSUME NEW p \in Queue, Loop(p)
      PROVE  Operation \/ UNCHANGED <<topology, task_source, pauses, order_>>
  <2>1. from[p] \in Time
    BY DEF LoopInv, LoopTypes
  <2>2. CASE StartTask(p) \/ NothingDue(p)
    BY <2>1, <2>2 DEF StartTask, NothingDue, Operation, tqvars
  <2>3. CASE RunResume(p)
    <3>1. current[p] \in Running
      BY <2>3 DEF RunResume, EndTask, LoopInv, LoopTypes
    <3>2. current[p].source \in Queue
      BY <3>1 DEF Running
    <3> QED
      BY <2>3, <3>2 DEF RunResume, Operation
  <2>4. CASE OnEventFired(p) \/ DropTasks(p) \/ RunPlain(p) \/ RunTerminate(p)
    BY <2>4 DEF OnEventFired, DropTasks, RunPlain, RunTerminate, Operation, tqvars
  <2> QED
    BY <1>3, <2>2, <2>3, <2>4 DEF Loop, KeepRunning, BeginDrain, EndDrain
<1>4. ASSUME NEW p \in Queue, NEW q \in Queue, DestroyLoop(p) \/ MergeOrUnmerge(p, q)
      PROVE  Operation
  BY <1>4 DEF DestroyLoop, MergeOrUnmerge, MergeInTask, UnmergeOnOwner, Operation
<1>5. CASE Tick \/ UNCHANGED vars
  BY <1>5 DEF Tick, vars, tqvars
<1> QED
  BY <1>1, <1>2, <1>3, <1>4, <1>5 DEF Next

(* To whoever posts, the threads keep the promise of TaskRunners: however  *)
(* merges and unmerges move a queue between running threads, and whatever  *)
(* is terminated and destroyed meanwhile, each task of a source is started *)
(* once, by one thread, and in order (MessageLoopImpl::FlushTasks and Run, *)
(* fml/message_loop_impl.cc, on top of MessageLoopTaskQueues).             *)
THEOREM LoopsImplementTaskRunners == Spec => ImplementsTaskRunners
<1>1. Init => AsTaskRunners!Init
  BY DEF Init, TQInit, AsTaskRunners!Init
<1>2. LoopInv => Topology /\ SourcesOK
  BY DEF LoopInv, TQInvFor
<1>3. LoopInv /\ [Next]_vars => [AsTaskRunners!Next]_AsTaskRunners!vars
  BY <1>2, StepIsOneOperation, OperationOfTaskRunners
<1> QED
  BY <1>1, <1>3, LoopInvInit, LoopInvStep, PTL
  DEF Spec, ImplementsTaskRunners, AsTaskRunners!Spec
=============================================================================
