------------------------ MODULE ConcurrentMessageLoop ------------------------
(***************************************************************************)
(* fml::ConcurrentMessageLoop (fml/concurrent_message_loop.cc): a pool of  *)
(* workers that share a queue of tasks, with a list of tasks for each      *)
(* worker besides, one mutex and one condition variable.                   *)
(*                                                                         *)
(* Runners hold the pool weakly: a post keeps it alive while it lasts, and *)
(* whoever lets go of it last destroys it, on that very thread.            *)
(*                                                                         *)
(* A step is what is done under the mutex, or between two uses of it.      *)
(***************************************************************************)
EXTENDS Naturals, Sequences, FiniteSets

CONSTANTS
  Worker, Client,       \* the threads of the pool, and others that post
  Nobody,
  MaxTasks,             \* bound: calls of PostTask
  MaxBroadcasts,        \* bound: calls of PostTaskToAllWorkers
  WorkerMayBeLast       \* may a worker still be posting when everybody else has
                        \* let go of the pool?

Thread == Worker \cup Client

ASSUME PoolAssumption ==
  /\ Worker # {} /\ Worker \cap Client = {} /\ Nobody \notin Thread
  /\ MaxTasks \in Nat /\ MaxBroadcasts \in Nat /\ WorkerMayBeLast \in BOOLEAN

VARIABLES
  tasks_,          \* the shared queue: the numbers of its tasks
  thread_tasks_,   \* the tasks of each worker: numbers of broadcasts
  shutdown_,
  waiting,         \* the workers that wait for tasks_condition_
  task,            \* what a worker took from tasks_ and has yet to run, or 0
  thread_tasks,    \* what it took from thread_tasks_
  shutdown_now,    \* what it read of shutdown_ when it did
  joinable,        \* the workers whose thread has not ended
  posting,         \* where each thread is in PostTask
  posting_task,    \* the task that it posts
  owned,           \* does the owner hold the pool?
  destroyer,       \* the thread that runs the destructor, or Nobody
  posted, broadcasts,
  ran,             \* the tasks that have run
  reached          \* the broadcasts that each worker has run

poolVars == <<tasks_, thread_tasks_, shutdown_>>
workerVars == <<waiting, task, thread_tasks, shutdown_now, joinable>>
holdVars == <<posting, posting_task, owned, destroyer>>
historyVars == <<posted, broadcasts, ran, reached>>
vars == <<poolVars, workerVars, holdVars, historyVars>>

Init ==
  /\ tasks_ = <<>> /\ thread_tasks_ = [w \in Worker |-> <<>>] /\ shutdown_ = FALSE
  /\ waiting = {} /\ joinable = Worker
  /\ task = [w \in Worker |-> 0] /\ thread_tasks = [w \in Worker |-> <<>>]
  /\ shutdown_now = [w \in Worker |-> FALSE]
  /\ posting = [t \in Thread |-> "no"] /\ posting_task = [t \in Thread |-> 0]
  /\ owned = TRUE /\ destroyer = Nobody
  /\ posted = 0 /\ broadcasts = 0
  /\ ran = {} /\ reached = [w \in Worker |-> {}]

-----------------------------------------------------------------------------
(* Who holds the pool.                                                     *)

Holds(t) == posting[t] # "no"

(* The weak pointers of the runners still lead to the pool.                *)
Alive == owned \/ \E t \in Thread : Holds(t)

Running(w) == task[w] # 0 \/ thread_tasks[w] # <<>>

(* Thread t lets go of the pool, and destroys it if nobody else holds it.  *)
LetGo(t, still_owned) ==
  destroyer' = IF still_owned \/ \E other \in Thread \ {t} : Holds(other)
                 THEN destroyer ELSE t

Release(t) ==
  /\ owned /\ ~Holds(t)
  /\ WorkerMayBeLast \/ \A w \in Worker : ~Holds(w)
  /\ owned' = FALSE
  /\ LetGo(t, FALSE)
  /\ UNCHANGED <<poolVars, workerVars, posting, posting_task, historyVars>>

-----------------------------------------------------------------------------
(* ConcurrentTaskRunner::PostTask, in any thread, of the pool too while it *)
(* runs a task.                                                            *)

(* The runner takes hold of the pool, or runs the task itself.             *)
PostTask(t) ==
  /\ ~Holds(t) /\ destroyer # t /\ posted < MaxTasks
  /\ t \in Worker => Running(t) /\ (Alive => owned \/ WorkerMayBeLast)
  /\ posted' = posted + 1
  /\ \/ /\ Alive
        /\ posting' = [posting EXCEPT ![t] = "lock"]
        /\ posting_task' = [posting_task EXCEPT ![t] = posted + 1]
        /\ UNCHANGED ran
     \/ /\ ~Alive
        /\ ran' = ran \cup {posted + 1}
        /\ UNCHANGED <<posting, posting_task>>
  /\ UNCHANGED <<poolVars, workerVars, owned, destroyer, broadcasts, reached>>

PushTask(t) ==
  /\ posting[t] = "lock" /\ ~shutdown_
  /\ tasks_' = Append(tasks_, posting_task[t])
  /\ posting' = [posting EXCEPT ![t] = "notify"]
  /\ UNCHANGED <<thread_tasks_, shutdown_, workerVars, posting_task, owned, destroyer,
                 historyVars>>

(* After the shutdown the task runs on the caller's thread.                *)
RunPostedTask(t) ==
  /\ posting[t] = "lock" /\ shutdown_
  /\ ran' = ran \cup {posting_task[t]}
  /\ posting' = [posting EXCEPT ![t] = "no"]
  /\ LetGo(t, owned)
  /\ UNCHANGED <<poolVars, workerVars, posting_task, owned, posted, broadcasts, reached>>

(* Faulty: the worker is told before the task is pushed.                   *)
NotifyNobody(t) ==
  /\ posting[t] = "notify"
  /\ UNCHANGED waiting
  /\ posting' = [posting EXCEPT ![t] = "no"]
  /\ LetGo(t, owned)
  /\ UNCHANGED <<poolVars, task, thread_tasks, shutdown_now, joinable, posting_task,
                 owned, historyVars>>

(* notify_one, with the mutex unlocked again, and the end of the post.     *)
NotifyOne(t) ==
  /\ posting[t] = "notify"
  /\ \/ waiting = {} /\ UNCHANGED waiting
     \/ \E w \in waiting : waiting' = waiting \ {w}
  /\ posting' = [posting EXCEPT ![t] = "no"]
  /\ LetGo(t, owned)
  /\ UNCHANGED <<poolVars, task, thread_tasks, shutdown_now, joinable, posting_task,
                 owned, historyVars>>

-----------------------------------------------------------------------------
(* The owner, and the destructor.                                          *)

(* Faulty: a single worker is told.                                        *)
BroadcastToOne ==
  /\ owned /\ broadcasts < MaxBroadcasts
  /\ broadcasts' = broadcasts + 1
  /\ thread_tasks_' = [w \in Worker |-> Append(thread_tasks_[w], broadcasts + 1)]
  /\ \/ waiting = {} /\ UNCHANGED waiting
     \/ \E w \in waiting : waiting' = waiting \ {w}
  /\ UNCHANGED <<tasks_, shutdown_, task, thread_tasks, shutdown_now, joinable,
                 holdVars, posted, ran, reached>>

PostTaskToAllWorkers ==
  /\ owned /\ broadcasts < MaxBroadcasts
  /\ broadcasts' = broadcasts + 1
  /\ thread_tasks_' = [w \in Worker |-> Append(thread_tasks_[w], broadcasts + 1)]
  /\ waiting' = {}
  /\ UNCHANGED <<tasks_, shutdown_, task, thread_tasks, shutdown_now, joinable,
                 holdVars, posted, ran, reached>>

(* Faulty: a single worker is told of the shutdown.                        *)
TerminateOne ==
  /\ owned \/ destroyer # Nobody
  /\ ~shutdown_
  /\ shutdown_' = TRUE
  /\ \/ waiting = {} /\ UNCHANGED waiting
     \/ \E w \in waiting : waiting' = waiting \ {w}
  /\ UNCHANGED <<tasks_, thread_tasks_, task, thread_tasks, shutdown_now, joinable,
                 holdVars, historyVars>>

(* Terminate, called by the owner or by the destructor, which then joins   *)
(* the workers.                                                            *)
Terminate ==
  /\ owned \/ destroyer # Nobody
  /\ ~shutdown_
  /\ shutdown_' = TRUE
  /\ waiting' = {}
  /\ UNCHANGED <<tasks_, thread_tasks_, task, thread_tasks, shutdown_now, joinable,
                 holdVars, historyVars>>

-----------------------------------------------------------------------------
(* WorkerMain.                                                             *)

(* Worker w is at the top of its loop, with the mutex or about to lock it. *)
AtTop(w) ==
  /\ w \in joinable \ waiting /\ ~Running(w) /\ ~shutdown_now[w]
  /\ destroyer # w

HasWork(w) == tasks_ # <<>> \/ shutdown_ \/ thread_tasks_[w] # <<>>

Wait(w) ==
  /\ AtTop(w) /\ ~HasWork(w)
  /\ waiting' = waiting \cup {w}
  /\ UNCHANGED <<poolVars, task, thread_tasks, shutdown_now, joinable, holdVars,
                 historyVars>>

(* Condition variables may wake without being notified.                    *)
SpuriousWakeup(w) ==
  /\ waiting' = waiting \ {w} /\ w \in waiting
  /\ UNCHANGED <<poolVars, task, thread_tasks, shutdown_now, joinable, holdVars,
                 historyVars>>

(* Faulty: a worker that sees the shutdown leaves at once.                 *)
TakeUnlessShutDown(w) ==
  /\ AtTop(w) /\ HasWork(w)
  /\ shutdown_now' = [shutdown_now EXCEPT ![w] = shutdown_]
  /\ \/ /\ ~shutdown_
        /\ task' = [task EXCEPT ![w] = IF tasks_ = <<>> THEN 0 ELSE Head(tasks_)]
        /\ tasks_' = IF tasks_ = <<>> THEN tasks_ ELSE Tail(tasks_)
        /\ thread_tasks' = [thread_tasks EXCEPT ![w] = thread_tasks_[w]]
        /\ thread_tasks_' = [thread_tasks_ EXCEPT ![w] = <<>>]
     \/ shutdown_ /\ UNCHANGED <<task, tasks_, thread_tasks, thread_tasks_>>
  /\ UNCHANGED <<shutdown_, waiting, joinable, holdVars, historyVars>>

(* Faulty: the task is looked at and not popped while there are tasks for  *)
(* the worker itself.                                                      *)
TakeWithoutPop(w) ==
  /\ AtTop(w) /\ HasWork(w)
  /\ shutdown_now' = [shutdown_now EXCEPT ![w] = shutdown_]
  /\ task' = [task EXCEPT ![w] = IF tasks_ = <<>> THEN 0 ELSE Head(tasks_)]
  /\ tasks_' = IF tasks_ = <<>> \/ thread_tasks_[w] # <<>> THEN tasks_ ELSE Tail(tasks_)
  /\ thread_tasks' = [thread_tasks EXCEPT ![w] = thread_tasks_[w]]
  /\ thread_tasks_' = [thread_tasks_ EXCEPT ![w] = <<>>]
  /\ UNCHANGED <<shutdown_, waiting, joinable, holdVars, historyVars>>

(* One task, and all that is for this worker.                              *)
Take(w) ==
  /\ AtTop(w) /\ HasWork(w)
  /\ shutdown_now' = [shutdown_now EXCEPT ![w] = shutdown_]
  /\ task' = [task EXCEPT ![w] = IF tasks_ = <<>> THEN 0 ELSE Head(tasks_)]
  /\ tasks_' = IF tasks_ = <<>> THEN tasks_ ELSE Tail(tasks_)
  /\ thread_tasks' = [thread_tasks EXCEPT ![w] = thread_tasks_[w]]
  /\ thread_tasks_' = [thread_tasks_ EXCEPT ![w] = <<>>]
  /\ UNCHANGED <<shutdown_, waiting, joinable, holdVars, historyVars>>

(* A task returns: the primary one first.                                  *)
ExecuteTask(w) ==
  /\ Running(w) /\ ~Holds(w) /\ destroyer # w
  /\ \/ /\ task[w] # 0
        /\ ran' = ran \cup {task[w]}
        /\ task' = [task EXCEPT ![w] = 0]
        /\ UNCHANGED <<thread_tasks, reached>>
     \/ /\ task[w] = 0
        /\ reached' = [reached EXCEPT ![w] = @ \cup {Head(thread_tasks[w])}]
        /\ thread_tasks' = [thread_tasks EXCEPT ![w] = Tail(@)]
        /\ UNCHANGED <<task, ran>>
  /\ UNCHANGED <<poolVars, waiting, shutdown_now, joinable, holdVars, posted,
                 broadcasts>>

Leave(w) ==
  /\ w \in joinable /\ shutdown_now[w] /\ ~Running(w) /\ destroyer # w
  /\ joinable' = joinable \ {w}
  /\ UNCHANGED <<poolVars, waiting, task, thread_tasks, shutdown_now, holdVars,
                 historyVars>>

-----------------------------------------------------------------------------

PostStep(t) == PushTask(t) \/ RunPostedTask(t) \/ NotifyOne(t)
WorkerStep(w) == Wait(w) \/ Take(w) \/ ExecuteTask(w) \/ Leave(w)
Next ==
  \/ \E t \in Thread : PostTask(t) \/ PostStep(t)
  \/ \E t \in Client : Release(t)
  \/ PostTaskToAllWorkers \/ Terminate
  \/ \E w \in Worker : WorkerStep(w) \/ SpuriousWakeup(w)

Spec == Init /\ [][Next]_vars

(* Every thread runs on, a post that has begun and the destructor          *)
(* included.  Nobody has to post, to terminate or to let go.               *)
FairSpec ==
  /\ Spec
  /\ \A w \in Worker : WF_vars(WorkerStep(w))
  /\ \A t \in Thread : WF_vars(PostStep(t))
  /\ WF_vars(destroyer # Nobody /\ Terminate)

-----------------------------------------------------------------------------

TypeOK ==
  /\ tasks_ \in Seq(1 .. MaxTasks)
  /\ thread_tasks_ \in [Worker -> Seq(1 .. MaxBroadcasts)]
  /\ shutdown_ \in BOOLEAN /\ waiting \subseteq joinable
  /\ task \in [Worker -> 0 .. MaxTasks]
  /\ thread_tasks \in [Worker -> Seq(1 .. MaxBroadcasts)]
  /\ shutdown_now \in [Worker -> BOOLEAN] /\ joinable \subseteq Worker
  /\ posting \in [Thread -> {"no", "lock", "notify"}]
  /\ posting_task \in [Thread -> 0 .. MaxTasks]
  /\ owned \in BOOLEAN /\ destroyer \in Thread \cup {Nobody}
  /\ posted \in 0 .. MaxTasks /\ broadcasts \in 0 .. MaxBroadcasts
  /\ ran \subseteq 1 .. MaxTasks /\ reached \in [Worker -> SUBSET (1 .. MaxBroadcasts)]

Queued(n) == \E i \in DOMAIN tasks_ : tasks_[i] = n

(* A task is in one place: with the thread that posts it, in the queue     *)
(* once, with one worker, or it has run.  Nobody runs it twice, and nobody *)
(* loses it on the way, the shutdown included.                             *)
TaskInOnePlace ==
  \A n \in 1 .. posted :
    LET posters == {t \in Thread : posting[t] = "lock" /\ posting_task[t] = n}
        places == {i \in DOMAIN tasks_ : tasks_[i] = n}
        takers == {w \in Worker : task[w] = n}
    IN Cardinality(posters) + Cardinality(places) + Cardinality(takers)
         + Cardinality(ran \cap {n}) = 1

(* Nobody sleeps on work: while a task is queued some worker is awake or a *)
(* post is about to wake one, although a post signals with the mutex       *)
(* unlocked and the signal may go to a worker that is up already; and no   *)
(* worker waits that has a task of its own or is to leave.                 *)
NobodySleepsOnWork ==
  /\ tasks_ # <<>> /\ ~shutdown_ =>
       waiting # Worker \/ \E t \in Thread : posting[t] = "notify"
  /\ \A w \in waiting : thread_tasks_[w] = <<>> /\ ~shutdown_

(* A posted task is run, by a worker or, after the shutdown, by whoever    *)
(* posts it ("Don't just drop tasks on the floor in case of shutdown").    *)
(* What the pool does drop when it shuts down are only the tasks beyond    *)
(* the first of every worker.                                              *)
TasksAreRun ==
  \A n \in 1 .. MaxTasks :
    posted >= n ~>
      \/ n \in ran
      \/ joinable = {} /\ Queued(n) /\ Len(tasks_) + Cardinality(Worker) <= posted

(* What is posted to all workers before the shutdown runs on every worker, *)
(* on those too that see the shutdown first.                               *)
BroadcastsReachAll ==
  \A n \in 1 .. MaxBroadcasts, w \in Worker :
    broadcasts >= n /\ ~shutdown_ ~> n \in reached[w]

(* The destructor returns: no worker misses the shutdown, and none is the  *)
(* thread that waits for it to end.                                        *)
DestructorReturns == destroyer # Nobody ~> joinable = {}
=============================================================================
