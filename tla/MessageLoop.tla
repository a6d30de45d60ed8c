----------------------------- MODULE MessageLoop -----------------------------
(***************************************************************************)
(* The threads of fml::MessageLoopImpl around the shared task queues: each *)
(* thread waits on one timer (timerfd and epoll on Linux), flushes the     *)
(* expired tasks of whatever its queue then runs, and leaves when it is    *)
(* told to terminate.  Other threads post, merge and unmerge at any        *)
(* moment.  The thread that made a queue carries the queue's name.         *)
(***************************************************************************)
EXTENDS TaskQueues

CONSTANTS
  Poster,      \* threads that post tasks
  Idle,        \* posting[x] when x is not inside PostTask
  MaxMerges    \* bound: merges and unmerges in a behaviour

ASSUME LoopAssumption ==
  /\ MaxMerges \in Nat
  /\ \E last \in Time : Time = 0 .. last          \* the ticks of the clock
  /\ \E grade \in Grade : grade # kDartEventLoop
  /\ Idle \notin [source : Queue, order : Nat, since : Nat]
  /\ Idle \notin [queue : Queue, time : Time, grade : Grade,
                 does : {"plain", "resume", "terminate"}]

VARIABLES
  now,          \* fml::TimePoint::Now()
  pc,           \* where each thread is in DoRun and FlushTasks
  from,         \* the "now" FlushTasks read when it began (0 outside of it)
  current,      \* what the thread is running while pc is "invoke"
  draining,     \* DoRun has left Run() and flushes for the last time
  running_,     \* MessageLoopLinux::running_
  terminated_,  \* MessageLoopImpl::terminated_
  joined_,      \* Thread::joined_
  posting,      \* the posts that have read terminated_ and not yet registered
  closure,      \* what each registered task does
  merges        \* merges and unmerges so far

threads == <<pc, from, current, draining, running_, terminated_, joined_>>
vars == <<tqvars, now, threads, posting, closure, merges>>

MaxTime == CHOOSE t \in Time : \A u \in Time : u <= t

Init ==
  /\ TQInit
  /\ now = 0
  /\ pc = [p \in Queue |-> "wait"]
  /\ from = [p \in Queue |-> 0]
  /\ current = [p \in Queue |-> Idle]
  /\ draining = [p \in Queue |-> FALSE]
  /\ running_ = [p \in Queue |-> TRUE]
  /\ terminated_ = [p \in Queue |-> FALSE]
  /\ joined_ = [p \in Queue |-> FALSE]
  /\ posting = [x \in Poster |-> Idle]
  /\ closure = [n \in 0 .. MaxTasks - 1 |-> "plain"]
  /\ merges = 0

-----------------------------------------------------------------------------
(* Posting.  PostTask reads terminated_ without the queue mutex and drops  *)
(* the task if it is set; registering the task is a second step.           *)

BeginPost(x, q, time, grade, does) ==
  /\ posting[x] = Idle
  /\ order_ + Cardinality({y \in Poster : posting[y] # Idle}) < MaxTasks
  /\ q \in entries
  /\ posting' = IF terminated_[q] THEN posting
                ELSE [posting EXCEPT ![x] =
                  [queue |-> q, time |-> time, grade |-> grade, does |-> does]]

PostTask(x, q, time, grade) ==
  /\ BeginPost(x, q, time, grade, "plain")
  /\ UNCHANGED <<tqvars, now, threads, closure, merges>>

(* Thread::Join posts the closure that terminates the current loop.  Its   *)
(* callers unmerge a thread's queue before they join it (~Shell), or the   *)
(* closure would run in, and terminate, the loop of the owner.             *)
Join(x, q) ==
  /\ ~joined_[q]
  /\ Sources(q) = {q}
  /\ BeginPost(x, q, now, CHOOSE g \in Grade : g # kDartEventLoop, "terminate")
  /\ joined_' = [joined_ EXCEPT ![q] = TRUE]
  /\ UNCHANGED <<tqvars, now, pc, from, current, draining, running_,
                 terminated_, closure, merges>>

(* VsyncWaiter::FireCallback with pause_secondary_tasks_: it pauses the    *)
(* source and posts the task that resumes it.                              *)
PauseUntilTask(x, q, time) ==
  /\ PauseSecondarySource(q)
  /\ ~joined_[q]
  /\ BeginPost(x, q, time, CHOOSE g \in Grade : g # kDartEventLoop, "resume")
  /\ UNCHANGED <<now, threads, closure, merges>>

EndPost(x) ==
  /\ posting[x] # Idle
  /\ LET post == posting[x]
     IN /\ RegisterTask(post.queue, post.time, post.grade)
        /\ closure' = [closure EXCEPT ![order_] = post.does]
  /\ posting' = [posting EXCEPT ![x] = Idle]
  /\ UNCHANGED <<now, threads, merges>>

-----------------------------------------------------------------------------
(* The loop of one thread.                                                 *)

(* epoll_wait returns for the timer, OnEventFired drains it and flushes.   *)
OnEventFired(p) ==
  /\ pc[p] = "wait"
  /\ wake[p] # Never
  /\ wake[p] <= now
  /\ wake' = [wake EXCEPT ![p] = Never]
  /\ pc' = [pc EXCEPT ![p] = "flush"]
  /\ from' = [from EXCEPT ![p] = now]
  /\ UNCHANGED <<topology, task_source, pauses, order_, now, current, draining,
                 running_, terminated_, joined_, posting, closure, merges>>

Due(p) == Pending(p) # {} /\ Top(Pending(p)).time <= from[p]

StartTask(p) ==
  /\ pc[p] = "flush"
  /\ Due(p)
  /\ GetNextTaskToRun(p, from[p])
  /\ LET top == Top(Pending(p))
     IN current' = [current EXCEPT ![p] =
          [source |-> SourceOf(top, p), order |-> top.order, since |-> merges]]
  /\ pc' = [pc EXCEPT ![p] = "invoke"]
  /\ UNCHANGED <<now, from, draining, running_, terminated_, joined_, posting,
                 closure, merges>>

(* GetNextTaskToRun returned nullptr.  Back in Run the loop looks at       *)
(* running_; when it is clear, DoRun sets terminated_ and flushes once     *)
(* more, and after that flush it drops what is left.                       *)
NothingDue(p) ==
  /\ pc[p] = "flush"
  /\ ~Due(p)
  /\ GetNextTaskToRun(p, from[p]) \/ (Pending(p) = {} /\ UNCHANGED tqvars)
  /\ UNCHANGED <<now, running_, current, joined_, posting, closure, merges>>

KeepRunning(p) ==
  /\ NothingDue(p)
  /\ running_[p] /\ ~draining[p]
  /\ pc' = [pc EXCEPT ![p] = "wait"]
  /\ from' = [from EXCEPT ![p] = 0]
  /\ UNCHANGED <<draining, terminated_>>

BeginDrain(p) ==
  /\ NothingDue(p)
  /\ ~running_[p] /\ ~draining[p]
  /\ draining' = [draining EXCEPT ![p] = TRUE]
  /\ terminated_' = [terminated_ EXCEPT ![p] = TRUE]
  /\ from' = [from EXCEPT ![p] = now]
  /\ UNCHANGED pc

EndDrain(p) ==
  /\ NothingDue(p)
  /\ draining[p]
  /\ pc' = [pc EXCEPT ![p] = "dispose"]
  /\ from' = [from EXCEPT ![p] = 0]
  /\ UNCHANGED <<draining, terminated_>>

DropTasks(p) ==
  /\ pc[p] = "dispose"
  /\ DisposeTasks(p)
  /\ pc' = [pc EXCEPT ![p] = "exited"]
  /\ UNCHANGED <<now, from, current, draining, running_, terminated_, joined_,
                 posting, closure, merges>>

(* Faulty: the closure is kept after it has run.                           *)
EndTaskKeeping(p) ==
  /\ pc[p] = "invoke"
  /\ pc' = [pc EXCEPT ![p] = "flush"]
  /\ UNCHANGED current

(* The closure returns; FlushTasks goes on with the next task.             *)
EndTask(p) ==
  /\ pc[p] = "invoke"
  /\ pc' = [pc EXCEPT ![p] = "flush"]
  /\ current' = [current EXCEPT ![p] = Idle]

RunPlain(p) ==
  /\ EndTask(p)
  /\ closure[current[p].order] = "plain"
  /\ UNCHANGED <<tqvars, now, from, draining, running_, terminated_, joined_,
                 posting, closure, merges>>

RunResume(p) ==
  /\ EndTask(p)
  /\ closure[current[p].order] = "resume"
  /\ ResumeSecondarySource(current[p].source)
  /\ UNCHANGED <<now, from, draining, running_, terminated_, joined_, posting,
                 closure, merges>>

(* Faulty: the loop is woken and its flag is left set.                     *)
RunTerminateKeepingRunning(p) ==
  /\ EndTask(p)
  /\ closure[current[p].order] = "terminate"
  /\ terminated_' = [terminated_ EXCEPT ![p] = TRUE]
  /\ wake' = [wake EXCEPT ![p] = now]
  /\ UNCHANGED <<topology, task_source, pauses, order_, now, from, draining,
                 running_, joined_, posting, closure, merges>>

(* MessageLoop::GetCurrent().Terminate(): the loop of the running thread.  *)
RunTerminate(p) ==
  /\ EndTask(p)
  /\ closure[current[p].order] = "terminate"
  /\ terminated_' = [terminated_ EXCEPT ![p] = TRUE]
  /\ running_' = [running_ EXCEPT ![p] = FALSE]
  /\ wake' = [wake EXCEPT ![p] = now]
  /\ UNCHANGED <<topology, task_source, pauses, order_, now, from, draining,
                 joined_, posting, closure, merges>>

(* ~MessageLoopImpl, once the thread has gone and nobody holds its runner. *)
DestroyLoop(p) ==
  /\ pc[p] = "exited"
  /\ ~\E x \in Poster : posting[x] # Idle /\ posting[x].queue = p
  /\ DisposeQueue(p)
  /\ UNCHANGED <<now, threads, posting, closure, merges>>

-----------------------------------------------------------------------------

(* A queue is merged by one of its own tasks on its own thread             *)
(* (Engine::Run merges the UI queue; Rasterizer::Draw the raster queue,    *)
(* for it yields on the platform thread when the queues are not merged)    *)
(* and unmerged on the thread of its owner, in a task (DecrementLease) or  *)
(* outside of any (~Shell), and never by the task of a vsync.  A queue     *)
(* about to be joined is left as it is.                                    *)
InPlainTask(p) == pc[p] = "invoke" /\ closure[current[p].order] = "plain"

MergeInTask(p, owner) ==
  /\ InPlainTask(p) /\ current[p].source = p
  /\ ~joined_[owner] /\ ~joined_[p]
  /\ MergeQueues(owner, p)

UnmergeOnOwner(owner, subsumed) ==
  /\ pc[owner] = "wait" \/ InPlainTask(owner)
  /\ UnmergeQueues(owner, subsumed)

MergeOrUnmerge(p, q) ==
  /\ merges < MaxMerges
  /\ merges' = merges + 1
  /\ MergeInTask(p, q) \/ UnmergeOnOwner(p, q)
  /\ UNCHANGED <<now, threads, posting, closure>>

Tick ==
  /\ now < MaxTime
  /\ now' = now + 1
  /\ UNCHANGED <<tqvars, threads, posting, closure, merges>>

Loop(p) ==
  \/ OnEventFired(p) \/ StartTask(p)
  \/ KeepRunning(p) \/ BeginDrain(p) \/ EndDrain(p) \/ DropTasks(p)
  \/ RunPlain(p) \/ RunResume(p) \/ RunTerminate(p)

Post ==
  \E x \in Poster, q \in Queue :
    \/ \E time \in Time, grade \in Grade : PostTask(x, q, time, grade)
    \/ \E time \in Time : PauseUntilTask(x, q, time)
    \/ Join(x, q)

Next ==
  \/ Post
  \/ \E x \in Poster : EndPost(x)
  \/ \E p \in Queue : Loop(p) \/ DestroyLoop(p)
  \/ \E p, q \in Queue : MergeOrUnmerge(p, q)
  \/ Tick

(* The scheduler runs every thread that can run, and time passes.  Nobody  *)
(* has to post, merge or join.                                             *)
Fairness ==
  /\ \A p \in Queue : WF_vars(Loop(p))
  /\ \A x \in Poster : WF_vars(EndPost(x))
  /\ WF_vars(Tick)

Spec == Init /\ [][Next]_vars
FairSpec == Spec /\ Fairness

-----------------------------------------------------------------------------

TypeOK ==
  /\ TQTypeOK
  /\ now \in Time
  /\ pc \in [Queue -> {"wait", "flush", "invoke", "dispose", "exited"}]
  /\ from \in [Queue -> Time]
  /\ \A p \in Queue : (pc[p] = "invoke") <=> (current[p] # Idle)
  /\ {running_, terminated_, joined_, draining} \subseteq [Queue -> BOOLEAN]
  /\ merges \in 0 .. MaxMerges

(* A loop that waits has its timer set for no later than the first task it *)
(* has to run, however tasks, merges, pauses and terminations interleave   *)
(* with its flushes; and one told to stop has it set at all.               *)
NoLostWakeup ==
  \A p \in entries : pc[p] = "wait" =>
    /\ Pending(p) # {} => wake[p] # Never /\ wake[p] <= Top(Pending(p)).time
    /\ ~running_[p] => wake[p] # Never

(* Two threads are inside tasks of one queue only when it changed hands    *)
(* after the first of them started: merging does not stop the task that    *)
(* the subsumed thread is in, and nothing else makes tasks overlap.        *)
OverlapOnlyAfterMerge ==
  \A p, r \in Queue :
    /\ p # r /\ pc[p] = "invoke" /\ pc[r] = "invoke"
    /\ current[p].source = current[r].source
    => current[p].since # current[r].since

(* Every task of a loop nobody joins is run in the end, whoever runs it:   *)
(* a merge or an unmerge that lost a wake-up would strand it.              *)
TasksAreRun ==
  \A q \in Queue : <>[](task_source[q] = {} \/ joined_[q])

(* A joined thread leaves, although the timer that was set to end it may   *)
(* be re-armed by a post that had already read terminated_.                *)
JoinedThreadExits ==
  \A q \in Queue : joined_[q] ~> pc[q] = "exited"
=============================================================================
