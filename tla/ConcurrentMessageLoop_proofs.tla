--------------------- MODULE ConcurrentMessageLoop_proofs ---------------------
(***************************************************************************)
(* For any number of workers and of other threads, and whoever is the last *)
(* to let go of the pool: nobody sleeps on work, and a task is in one      *)
(* place from its post to its run.                                         *)
(***************************************************************************)
EXTENDS ConcurrentMessageLoop, FiniteSetTheorems, TLAPS

LEMMA HeadAndTail ==
  ASSUME NEW S, NEW s \in Seq(S), s # <<>>
  PROVE  Head(s) \in S /\ Tail(s) \in Seq(S)
OBVIOUS

(* What makes the two invariants inductive: a thread inside PostTask has a *)
(* task in hand, and a worker that has read shutdown_ did not misread it,  *)
(* so that it waits no more.                                               *)
PoolInv ==
  /\ TypeOK
  /\ NobodySleepsOnWork
  /\ \A t \in Thread : Holds(t) => posting_task[t] # 0
  /\ \A w \in Worker : shutdown_now[w] => shutdown_

LEMMA TypedInit == Init => PoolInv
<1> SUFFICES ASSUME Init PROVE PoolInv
  OBVIOUS
<1> USE PoolAssumption
<1>1. TypeOK
  <2>1. /\ tasks_ \in Seq(1 .. MaxTasks)
        /\ thread_tasks_ \in [Worker -> Seq(1 .. MaxBroadcasts)]
        /\ thread_tasks \in [Worker -> Seq(1 .. MaxBroadcasts)]
    BY DEF Init
  <2>2. /\ task \in [Worker -> 0 .. MaxTasks]
        /\ posting_task \in [Thread -> 0 .. MaxTasks]
        /\ posted \in 0 .. MaxTasks /\ broadcasts \in 0 .. MaxBroadcasts
    BY DEF Init
  <2>3. reached \in [Worker -> SUBSET (1 .. MaxBroadcasts)] /\ ran \subseteq 1 .. MaxTasks
    BY DEF Init
  <2>4. /\ shutdown_now \in [Worker -> BOOLEAN]
        /\ posting \in [Thread -> {"no", "lock", "notify"}]
    BY DEF Init
  <2> QED BY <2>1, <2>2, <2>3, <2>4 DEF Init, TypeOK
<1>2. NobodySleepsOnWork
  BY DEF Init, NobodySleepsOnWork
<1>3. \A t \in Thread : ~Holds(t)
  BY DEF Init, Holds
<1> QED BY <1>1, <1>2, <1>3 DEF Init, PoolInv

-----------------------------------------------------------------------------
(* PostTask and its three ends.                                            *)

LEMMA PostTaskKeeps ==
  ASSUME PoolInv, NEW t \in Thread, PostTask(t) PROVE PoolInv'
<1> USE PoolAssumption
<1>1. posted + 1 \in 1 .. MaxTasks
  BY DEF PoolInv, TypeOK, PostTask
<1>2. TypeOK'
  <2>1. posted' \in 0 .. MaxTasks
    BY <1>1 DEF PostTask
  <2>2. ran' = ran \/ ran' = ran \cup {posted + 1}
    BY DEF PostTask
  <2>3. ran' \subseteq 1 .. MaxTasks
    BY <1>1, <2>2 DEF PoolInv, TypeOK
  <2>4. \/ UNCHANGED <<posting, posting_task>>
        \/ /\ posting' = [posting EXCEPT ![t] = "lock"]
           /\ posting_task' = [posting_task EXCEPT ![t] = posted + 1]
    BY DEF PostTask
  <2>5. /\ posting' \in [Thread -> {"no", "lock", "notify"}]
        /\ posting_task' \in [Thread -> 0 .. MaxTasks]
    <3>1. CASE UNCHANGED <<posting, posting_task>>
      BY <3>1 DEF PoolInv, TypeOK
    <3>2. CASE /\ posting' = [posting EXCEPT ![t] = "lock"]
               /\ posting_task' = [posting_task EXCEPT ![t] = posted + 1]
      <4>1. posted + 1 \in 0 .. MaxTasks
        BY <1>1
      <4> QED BY <3>2, <4>1 DEF PoolInv, TypeOK
    <3> QED BY <2>4, <3>1, <3>2
  <2> QED BY <2>1, <2>3, <2>5 DEF PoolInv, TypeOK, PostTask, poolVars, workerVars
<1>3. NobodySleepsOnWork'
  BY DEF PoolInv, TypeOK, PostTask, poolVars, workerVars, NobodySleepsOnWork, Holds
<1>4. (\A u \in Thread : Holds(u) => posting_task[u] # 0)'
  <2>1. posted + 1 # 0
    BY <1>1
  <2>2. \/ UNCHANGED <<posting, posting_task>>
        \/ /\ posting' = [posting EXCEPT ![t] = "lock"]
           /\ posting_task' = [posting_task EXCEPT ![t] = posted + 1]
    BY DEF PostTask
  <2> QED BY <2>1, <2>2 DEF PoolInv, TypeOK, Holds
<1>5. (\A w \in Worker : shutdown_now[w] => shutdown_)'
  BY DEF PoolInv, PostTask, poolVars, workerVars
<1> QED BY <1>2, <1>3, <1>4, <1>5 DEF PoolInv

LEMMA PushTaskKeeps ==
  ASSUME PoolInv, NEW t \in Thread, PushTask(t) PROVE PoolInv'
<1> USE PoolAssumption
<1>1. posting_task[t] \in 1 .. MaxTasks
  BY DEF PoolInv, TypeOK, PushTask, Holds
<1>2. TypeOK'
  BY <1>1 DEF PoolInv, TypeOK, PushTask, workerVars, historyVars
<1>3. posting'[t] = "notify"
  BY DEF PoolInv, TypeOK, PushTask
<1>4. NobodySleepsOnWork'
  BY <1>3 DEF PoolInv, TypeOK, PushTask, workerVars, NobodySleepsOnWork
<1>5. (\A u \in Thread : Holds(u) => posting_task[u] # 0)'
  BY <1>1 DEF PoolInv, TypeOK, PushTask, Holds
<1>6. (\A w \in Worker : shutdown_now[w] => shutdown_)'
  BY DEF PoolInv, PushTask, workerVars
<1> QED BY <1>2, <1>4, <1>5, <1>6 DEF PoolInv

LEMMA RunPostedTaskKeeps ==
  ASSUME PoolInv, NEW t \in Thread, RunPostedTask(t) PROVE PoolInv'
<1> USE PoolAssumption
<1>1. posting_task[t] \in 1 .. MaxTasks
  BY DEF PoolInv, TypeOK, RunPostedTask, Holds
<1>2. destroyer' \in Thread \cup {Nobody}
  BY DEF PoolInv, TypeOK, RunPostedTask, LetGo
<1>3. TypeOK'
  BY <1>1, <1>2 DEF PoolInv, TypeOK, RunPostedTask, workerVars, poolVars
<1>4. NobodySleepsOnWork'
  BY DEF PoolInv, TypeOK, RunPostedTask, poolVars, workerVars, NobodySleepsOnWork
<1>5. (\A u \in Thread : Holds(u) => posting_task[u] # 0)'
  BY DEF PoolInv, TypeOK, RunPostedTask, Holds
<1>6. (\A w \in Worker : shutdown_now[w] => shutdown_)'
  BY DEF PoolInv, RunPostedTask, workerVars, poolVars
<1> QED BY <1>3, <1>4, <1>5, <1>6 DEF PoolInv

(* Whether the signal meets a sleeper or not, somebody is up after it.     *)
LEMMA NotifyOneKeeps ==
  ASSUME PoolInv, NEW t \in Thread, NotifyOne(t) PROVE PoolInv'
<1> USE PoolAssumption
<1>1. waiting' \subseteq waiting /\ waiting' # Worker
  BY DEF PoolInv, TypeOK, NotifyOne
<1>2. destroyer' \in Thread \cup {Nobody}
  BY DEF PoolInv, TypeOK, NotifyOne, LetGo
<1>3. TypeOK'
  BY <1>1, <1>2 DEF PoolInv, TypeOK, NotifyOne, poolVars, historyVars
<1>4. NobodySleepsOnWork'
  BY <1>1 DEF PoolInv, TypeOK, NotifyOne, poolVars, NobodySleepsOnWork
<1>5. (\A u \in Thread : Holds(u) => posting_task[u] # 0)'
  BY DEF PoolInv, TypeOK, NotifyOne, Holds
<1>6. (\A w \in Worker : shutdown_now[w] => shutdown_)'
  BY DEF PoolInv, NotifyOne, poolVars
<1> QED BY <1>3, <1>4, <1>5, <1>6 DEF PoolInv

-----------------------------------------------------------------------------
(* The owner.                                                              *)

LEMMA ReleaseKeeps ==
  ASSUME PoolInv, NEW t \in Thread, Release(t) PROVE PoolInv'
<1>1. destroyer' \in Thread \cup {Nobody}
  BY DEF PoolInv, TypeOK, Release, LetGo
<1>2. TypeOK'
  BY <1>1 DEF PoolInv, TypeOK, Release, poolVars, workerVars, historyVars
<1> QED
  BY <1>2 DEF PoolInv, Release, poolVars, workerVars, historyVars,
              NobodySleepsOnWork, Holds

LEMMA PostTaskToAllWorkersKeeps ==
  ASSUME PoolInv, PostTaskToAllWorkers PROVE PoolInv'
<1> USE PoolAssumption
<1>1. broadcasts + 1 \in 1 .. MaxBroadcasts
  BY DEF PoolInv, TypeOK, PostTaskToAllWorkers
<1>2. thread_tasks_' \in [Worker -> Seq(1 .. MaxBroadcasts)]
  BY <1>1 DEF PoolInv, TypeOK, PostTaskToAllWorkers
<1>3. TypeOK'
  BY <1>1, <1>2 DEF PoolInv, TypeOK, PostTaskToAllWorkers, holdVars
<1> QED
  BY <1>3 DEF PoolInv, PostTaskToAllWorkers, holdVars, NobodySleepsOnWork, Holds

LEMMA TerminateKeeps == ASSUME PoolInv, Terminate PROVE PoolInv'
<1> USE PoolAssumption
<1>1. TypeOK'
  BY DEF PoolInv, TypeOK, Terminate, holdVars, historyVars
<1> QED
  BY <1>1 DEF PoolInv, Terminate, holdVars, historyVars, NobodySleepsOnWork, Holds

-----------------------------------------------------------------------------
(* The workers.                                                            *)

LEMMA WaitKeeps == ASSUME PoolInv, NEW w \in Worker, Wait(w) PROVE PoolInv'
<1>1. TypeOK'
  BY DEF PoolInv, TypeOK, Wait, AtTop, poolVars, holdVars, historyVars
<1>2. NobodySleepsOnWork'
  BY DEF PoolInv, Wait, HasWork, poolVars, holdVars, NobodySleepsOnWork
<1> QED BY <1>1, <1>2 DEF PoolInv, Wait, poolVars, holdVars, Holds

LEMMA SpuriousWakeupKeeps ==
  ASSUME PoolInv, NEW w \in Worker, SpuriousWakeup(w) PROVE PoolInv'
<1>1. TypeOK'
  BY DEF PoolInv, TypeOK, SpuriousWakeup, poolVars, holdVars, historyVars
<1>2. waiting' \subseteq waiting /\ waiting' # Worker
  BY DEF SpuriousWakeup
<1>3. NobodySleepsOnWork'
  BY <1>2 DEF PoolInv, SpuriousWakeup, poolVars, holdVars, NobodySleepsOnWork
<1> QED BY <1>1, <1>3 DEF PoolInv, SpuriousWakeup, poolVars, holdVars, Holds

(* The worker that takes is up, so that it may leave tasks behind.         *)
LEMMA TakeKeeps == ASSUME PoolInv, NEW w \in Worker, Take(w) PROVE PoolInv'
<1> USE PoolAssumption
<1>1. CASE tasks_ = <<>>
  BY <1>1 DEF PoolInv, TypeOK, Take, AtTop, HasWork, holdVars, historyVars,
              NobodySleepsOnWork, Holds
<1>2. CASE tasks_ # <<>>
  <2>1. Head(tasks_) \in 1 .. MaxTasks /\ Tail(tasks_) \in Seq(1 .. MaxTasks)
    BY <1>2 DEF PoolInv, TypeOK
  <2>2. tasks_' \in Seq(1 .. MaxTasks) /\ task' \in [Worker -> 0 .. MaxTasks]
    BY <1>2, <2>1 DEF PoolInv, TypeOK, Take
  <2>3. /\ thread_tasks' \in [Worker -> Seq(1 .. MaxBroadcasts)]
        /\ thread_tasks_' \in [Worker -> Seq(1 .. MaxBroadcasts)]
        /\ shutdown_now' \in [Worker -> BOOLEAN]
    BY DEF PoolInv, TypeOK, Take
  <2>4. TypeOK'
    BY <2>2, <2>3 DEF PoolInv, TypeOK, Take, holdVars, historyVars
  <2>5. waiting' # Worker
    BY DEF Take, AtTop
  <2>6. NobodySleepsOnWork'
    BY <2>5 DEF PoolInv, TypeOK, Take, holdVars, NobodySleepsOnWork
  <2>7. (\A v \in Worker : shutdown_now[v] => shutdown_)'
    BY DEF PoolInv, TypeOK, Take
  <2> QED BY <2>4, <2>6, <2>7 DEF PoolInv, Take, holdVars, Holds
<1> QED BY <1>1, <1>2

LEMMA ExecuteTaskKeeps ==
  ASSUME PoolInv, NEW w \in Worker, ExecuteTask(w) PROVE PoolInv'
<1> USE PoolAssumption
<1>1. TypeOK'
  <2>1. CASE task[w] # 0
    <3>1. ran' \subseteq 1 .. MaxTasks /\ task' \in [Worker -> 0 .. MaxTasks]
      <4>1. ran' = ran \cup {task[w]} /\ task' = [task EXCEPT ![w] = 0]
        BY <2>1 DEF ExecuteTask
      <4>2. task[w] \in 1 .. MaxTasks
        BY <2>1 DEF PoolInv, TypeOK
      <4>3. ran' \subseteq 1 .. MaxTasks
        BY <4>1, <4>2 DEF PoolInv, TypeOK
      <4>4. task' \in [Worker -> 0 .. MaxTasks]
        BY <4>1 DEF PoolInv, TypeOK
      <4> QED BY <4>3, <4>4
    <3> QED BY <2>1, <3>1 DEF PoolInv, TypeOK, ExecuteTask, poolVars, holdVars
  <2>2. CASE task[w] = 0
    <3>1. thread_tasks[w] # <<>> /\ thread_tasks[w] \in Seq(1 .. MaxBroadcasts)
      BY <2>2 DEF PoolInv, TypeOK, ExecuteTask, Running
    <3>2. /\ Head(thread_tasks[w]) \in 1 .. MaxBroadcasts
          /\ Tail(thread_tasks[w]) \in Seq(1 .. MaxBroadcasts)
      BY <3>1, HeadAndTail
    <3>3. /\ thread_tasks' = [thread_tasks EXCEPT ![w] = Tail(thread_tasks[w])]
          /\ reached' = [reached EXCEPT ![w] = reached[w] \cup {Head(thread_tasks[w])}]
      BY <2>2 DEF ExecuteTask
    <3>4. /\ thread_tasks' \in [Worker -> Seq(1 .. MaxBroadcasts)]
          /\ reached' \in [Worker -> SUBSET (1 .. MaxBroadcasts)]
      <4> DEFINE h == Head(thread_tasks[w])
                 r == Tail(thread_tasks[w])
      <4>1. h \in 1 .. MaxBroadcasts /\ r \in Seq(1 .. MaxBroadcasts)
        BY <3>2
      <4> HIDE DEF h, r
      <4> QED BY <3>3, <4>1 DEF PoolInv, TypeOK, h, r
    <3> QED BY <2>2, <3>4 DEF PoolInv, TypeOK, ExecuteTask, poolVars, holdVars
  <2> QED BY <2>1, <2>2
<1> QED
  BY <1>1 DEF PoolInv, ExecuteTask, poolVars, holdVars, NobodySleepsOnWork, Holds

(* A worker that leaves has read the shutdown, and nobody waits after it.  *)
LEMMA LeaveKeeps == ASSUME PoolInv, NEW w \in Worker, Leave(w) PROVE PoolInv'
<1>1. w \notin waiting
  BY DEF PoolInv, Leave, NobodySleepsOnWork
<1>2. TypeOK'
  BY <1>1 DEF PoolInv, TypeOK, Leave, poolVars, holdVars, historyVars
<1> QED
  BY <1>2 DEF PoolInv, Leave, poolVars, holdVars, historyVars, NobodySleepsOnWork, Holds

-----------------------------------------------------------------------------

LEMMA PoolInvInductive == PoolInv /\ [Next]_vars => PoolInv'
<1> SUFFICES ASSUME PoolInv, [Next]_vars PROVE PoolInv'
  OBVIOUS
<1>1. CASE UNCHANGED vars
  BY <1>1 DEF PoolInv, TypeOK, NobodySleepsOnWork, Holds, vars, poolVars, workerVars,
              holdVars, historyVars
<1>2. ASSUME NEW t \in Thread, PostTask(t) \/ PostStep(t) PROVE PoolInv'
  BY <1>2, PostTaskKeeps, PushTaskKeeps, RunPostedTaskKeeps, NotifyOneKeeps
     DEF PostStep
<1>3. ASSUME NEW t \in Client, Release(t) PROVE PoolInv'
  BY <1>3, ReleaseKeeps DEF Thread
<1>4. CASE PostTaskToAllWorkers \/ Terminate
  BY <1>4, PostTaskToAllWorkersKeeps, TerminateKeeps
<1>5. ASSUME NEW w \in Worker, WorkerStep(w) \/ SpuriousWakeup(w) PROVE PoolInv'
  BY <1>5, WaitKeeps, TakeKeeps, ExecuteTaskKeeps, LeaveKeeps, SpuriousWakeupKeeps
     DEF WorkerStep
<1> QED BY <1>1, <1>2, <1>3, <1>4, <1>5 DEF Next

(* While a task is queued some worker is up or about to be woken, although *)
(* PostTask unlocks the mutex before it signals, and no worker waits that  *)
(* has a task of its own or is to leave (concurrent_message_loop.cc:50,    *)
(* :80, :134).                                                             *)
THEOREM PoolNeverSleepsOnWork == Spec => [](TypeOK /\ NobodySleepsOnWork)
<1>1. PoolInv => TypeOK /\ NobodySleepsOnWork
  BY DEF PoolInv
<1> QED BY TypedInit, PoolInvInductive, <1>1, PTL DEF Spec

-----------------------------------------------------------------------------
(* Where the tasks are.  Nothing is counted here: the sets of threads and  *)
(* of workers may be of any size.                                          *)

Posts(t, n) == posting[t] = "lock" /\ posting_task[t] = n
InPost(n) == \E t \in Thread : Posts(t, n)
Taken(n) == \E w \in Worker : task[w] = n

(* No kind of place holds task n twice.                                    *)
NotTwice(n) ==
  /\ \A t, u \in Thread : Posts(t, n) /\ Posts(u, n) => t = u
  /\ \A i, j \in DOMAIN tasks_ : tasks_[i] = n /\ tasks_[j] = n => i = j
  /\ \A v, w \in Worker : task[v] = n /\ task[w] = n => v = w

(* No two kinds of places hold it.                                         *)
OneKind(n) ==
  /\ InPost(n) => ~Queued(n) /\ ~Taken(n) /\ n \notin ran
  /\ Queued(n) => ~Taken(n) /\ n \notin ran
  /\ Taken(n) => n \notin ran

Somewhere(n) == InPost(n) \/ Queued(n) \/ Taken(n) \/ n \in ran

(* A task is somewhere once it is posted, and nowhere before.              *)
Placed(n) == NotTwice(n) /\ OneKind(n) /\ (Somewhere(n) <=> n <= posted)
PlacesInv == \A n \in 1 .. MaxTasks : Placed(n)

LEMMA PlacesUnchanged ==
  ASSUME PlacesInv, NEW n \in 1 .. MaxTasks, UNCHANGED <<tasks_, task, ran, posted>>,
         \A t \in Thread : Posts(t, n)' <=> Posts(t, n)
  PROVE  Placed(n)'
BY DEF PlacesInv, Placed, NotTwice, OneKind, Somewhere, InPost, Queued, Taken

LEMMA PlacesInit == Init => PlacesInv
<1> SUFFICES ASSUME Init, NEW n \in 1 .. MaxTasks PROVE Placed(n)
  BY DEF PlacesInv
<1>1. ~InPost(n)
  BY DEF Init, InPost, Posts
<1>2. ~Queued(n) /\ ~Taken(n) /\ n \notin ran /\ ~(n <= posted)
  BY DEF Init, Queued, Taken
<1> QED
  BY <1>1, <1>2 DEF Placed, NotTwice, OneKind, Somewhere, InPost, Queued, Taken

(* The number is new: nobody has it.                                       *)
LEMMA PostTaskPlaces ==
  ASSUME PoolInv, PlacesInv, NEW t \in Thread, PostTask(t), NEW n \in 1 .. MaxTasks
  PROVE  Placed(n)'
<1> USE PoolAssumption
<1>1. posted \in Nat /\ posted' = posted + 1 /\ UNCHANGED <<tasks_, task>>
  BY DEF PoolInv, TypeOK, PostTask, poolVars, workerVars
<1>2. /\ posting \in [Thread -> {"no", "lock", "notify"}] /\ posting[t] = "no"
      /\ posting_task \in [Thread -> 0 .. MaxTasks]
  BY DEF PoolInv, TypeOK, PostTask, Holds
<1>3. CASE n = posted + 1
  <2>1. ~InPost(n) /\ ~Queued(n) /\ ~Taken(n) /\ n \notin ran
    BY <1>1, <1>3 DEF PlacesInv, Placed, Somewhere
  <2>2. ~Queued(n)' /\ ~Taken(n)' /\ n <= posted'
    BY <1>1, <1>3, <2>1 DEF Queued, Taken
  <2>3. CASE /\ posting' = [posting EXCEPT ![t] = "lock"]
             /\ posting_task' = [posting_task EXCEPT ![t] = posted + 1]
             /\ UNCHANGED ran
    <3>1. \A u \in Thread : Posts(u, n)' <=> u = t
      BY <1>2, <1>3, <2>1, <2>3 DEF InPost, Posts
    <3> QED
      BY <2>1, <2>2, <2>3, <3>1
      DEF Placed, NotTwice, OneKind, Somewhere, InPost, Queued, Taken
  <2>4. CASE ran' = ran \cup {posted + 1} /\ UNCHANGED <<posting, posting_task>>
    <3>1. \A u \in Thread : ~Posts(u, n)'
      BY <2>1, <2>4 DEF InPost, Posts
    <3> QED
      BY <1>3, <2>2, <2>4, <3>1
      DEF Placed, NotTwice, OneKind, Somewhere, InPost, Queued, Taken
  <2> QED
    BY <2>3, <2>4 DEF PostTask
<1>4. CASE n # posted + 1
  <2>1. \A u \in Thread : Posts(u, n)' <=> Posts(u, n)
    BY <1>2, <1>4 DEF PostTask, Posts
  <2>2. n \in ran' <=> n \in ran
    BY <1>4 DEF PostTask
  <2>3. n <= posted' <=> n <= posted
    BY <1>1, <1>4
  <2> QED
    BY <1>1, <2>1, <2>2, <2>3
    DEF PlacesInv, Placed, NotTwice, OneKind, Somewhere, InPost, Queued, Taken
<1> QED
  BY <1>3, <1>4

(* The task goes from the thread to the end of the queue.                  *)
LEMMA PushTaskPlaces ==
  ASSUME PoolInv, PlacesInv, NEW t \in Thread, PushTask(t), NEW n \in 1 .. MaxTasks
  PROVE  Placed(n)'
<1>1. /\ tasks_ \in Seq(1 .. MaxTasks) /\ tasks_' = Append(tasks_, posting_task[t])
      /\ posting \in [Thread -> {"no", "lock", "notify"}] /\ posting[t] = "lock"
      /\ posting' = [posting EXCEPT ![t] = "notify"]
      /\ UNCHANGED <<task, ran, posted, posting_task>>
  BY DEF PoolInv, TypeOK, PushTask, workerVars, historyVars
<1>2. posting_task[t] \in 1 .. MaxTasks
  BY DEF PoolInv, TypeOK, PushTask, Holds
<1>3. \A u \in Thread : Posts(u, n)' <=> Posts(u, n) /\ u # t
  BY <1>1 DEF Posts
<1>4. /\ DOMAIN tasks_' = DOMAIN tasks_ \cup {Len(tasks_) + 1}
      /\ \A i \in DOMAIN tasks_ : tasks_'[i] = tasks_[i]
      /\ tasks_'[Len(tasks_) + 1] = posting_task[t]
      /\ Len(tasks_) + 1 \notin DOMAIN tasks_
  BY <1>1, <1>2
<1>5. Posts(t, posting_task[t])
  BY <1>1 DEF Posts
<1>6. CASE n = posting_task[t]
  <2>1. InPost(n) /\ ~Queued(n) /\ ~Taken(n) /\ n \notin ran /\ n <= posted
    BY <1>5, <1>6 DEF PlacesInv, Placed, OneKind, Somewhere, InPost
  <2>2. ~InPost(n)'
    BY <1>3, <1>5, <1>6 DEF PlacesInv, Placed, NotTwice, InPost
  <2>3. Queued(n)' /\ ~Taken(n)' /\ n \notin ran' /\ n <= posted'
    BY <1>1, <1>4, <1>6, <2>1 DEF Queued, Taken
  <2>4. NotTwice(n)'
    BY <1>1, <1>4, <2>1, <2>2 DEF NotTwice, Queued, Taken, InPost
  <2> QED
    BY <2>2, <2>3, <2>4 DEF Placed, OneKind, Somewhere
<1>7. CASE n # posting_task[t]
  <2>1. \A u \in Thread : Posts(u, n)' <=> Posts(u, n)
    BY <1>1, <1>7 DEF Posts
  <2>2. \A i \in DOMAIN tasks_' : tasks_'[i] = n <=> i \in DOMAIN tasks_ /\ tasks_[i] = n
    BY <1>4, <1>7
  <2>3. Queued(n)' <=> Queued(n)
    BY <1>4, <2>2 DEF Queued
  <2>4. NotTwice(n)'
    BY <1>1, <2>1, <2>2 DEF PlacesInv, Placed, NotTwice
  <2> QED
    BY <1>1, <2>1, <2>3, <2>4 DEF PlacesInv, Placed, OneKind, Somewhere, InPost, Taken
<1> QED
  BY <1>6, <1>7

(* After the shutdown it goes from the thread to the tasks that have run.  *)
LEMMA RunPostedTaskPlaces ==
  ASSUME PoolInv, PlacesInv, NEW t \in Thread, RunPostedTask(t), NEW n \in 1 .. MaxTasks
  PROVE  Placed(n)'
<1>1. /\ posting \in [Thread -> {"no", "lock", "notify"}] /\ posting[t] = "lock"
      /\ posting' = [posting EXCEPT ![t] = "no"]
      /\ ran' = ran \cup {posting_task[t]}
      /\ UNCHANGED <<tasks_, task, posted, posting_task>>
  BY DEF PoolInv, TypeOK, RunPostedTask, poolVars, workerVars
<1>2. \A u \in Thread : Posts(u, n)' <=> Posts(u, n) /\ u # t
  BY <1>1 DEF Posts
<1>3. Posts(t, posting_task[t])
  BY <1>1 DEF Posts
<1>4. CASE n = posting_task[t]
  <2>1. ~Queued(n) /\ ~Taken(n) /\ n <= posted
    BY <1>3, <1>4 DEF PlacesInv, Placed, OneKind, Somewhere, InPost
  <2>2. ~InPost(n)'
    BY <1>2, <1>3, <1>4 DEF PlacesInv, Placed, NotTwice, InPost
  <2>3. ~Queued(n)' /\ ~Taken(n)' /\ n \in ran' /\ n <= posted'
    BY <1>1, <1>4, <2>1 DEF Queued, Taken
  <2> QED
    BY <2>2, <2>3 DEF Placed, NotTwice, OneKind, Somewhere, InPost, Queued, Taken
<1>5. CASE n # posting_task[t]
  <2>1. \A u \in Thread : Posts(u, n)' <=> Posts(u, n)
    BY <1>1, <1>5 DEF Posts
  <2>2. n \in ran' <=> n \in ran
    BY <1>1, <1>5
  <2> QED
    BY <1>1, <2>1, <2>2
    DEF PlacesInv, Placed, NotTwice, OneKind, Somewhere, InPost, Queued, Taken
<1> QED
  BY <1>4, <1>5

(* The front of the queue goes to the worker, whose hands were empty.      *)
LEMMA TakePlaces ==
  ASSUME PoolInv, PlacesInv, NEW w \in Worker, Take(w), NEW n \in 1 .. MaxTasks
  PROVE  Placed(n)'
<1>1. /\ tasks_ \in Seq(1 .. MaxTasks) /\ task \in [Worker -> 0 .. MaxTasks]
      /\ task[w] = 0
      /\ UNCHANGED <<ran, posted, posting, posting_task>>
  BY DEF PoolInv, TypeOK, Take, AtTop, Running, holdVars, historyVars
<1>2. \A u \in Thread : Posts(u, n)' <=> Posts(u, n)
  BY <1>1 DEF Posts
<1>3. CASE tasks_ = <<>>
  <2>1. tasks_' = tasks_ /\ task' = task
    BY <1>1, <1>3 DEF Take
  <2> QED
    BY <1>1, <1>2, <2>1, PlacesUnchanged
<1>4. CASE tasks_ # <<>>
  <2>1. tasks_' = Tail(tasks_) /\ task' = [task EXCEPT ![w] = Head(tasks_)]
    BY <1>4 DEF Take
  <2>2. /\ Len(tasks_) \in Nat /\ Len(tasks_) > 0
        /\ DOMAIN tasks_ = 1 .. Len(tasks_)
        /\ DOMAIN tasks_' = 1 .. (Len(tasks_) - 1)
        /\ \A i \in DOMAIN tasks_' : tasks_'[i] = tasks_[i + 1]
        /\ Head(tasks_) = tasks_[1]
    BY <1>1, <1>4, <2>1
  <2>3. \A i, j \in DOMAIN tasks_' : tasks_'[i] = n /\ tasks_'[j] = n => i = j
    <3> SUFFICES ASSUME NEW i \in DOMAIN tasks_', NEW j \in DOMAIN tasks_',
                        tasks_'[i] = n, tasks_'[j] = n
                 PROVE  i = j
      OBVIOUS
    <3>1. /\ i \in Nat /\ j \in Nat
          /\ i + 1 \in DOMAIN tasks_ /\ j + 1 \in DOMAIN tasks_
          /\ tasks_[i + 1] = n /\ tasks_[j + 1] = n
      BY <2>2
    <3>2. i + 1 = j + 1
      BY <3>1 DEF PlacesInv, Placed, NotTwice
    <3> QED
      BY <3>1, <3>2
  <2>4. CASE n = Head(tasks_)
    <3>1. 1 \in DOMAIN tasks_ /\ tasks_[1] = n
      BY <2>2, <2>4
    <3>2. ~InPost(n) /\ Queued(n) /\ ~Taken(n) /\ n \notin ran /\ n <= posted
      BY <3>1 DEF PlacesInv, Placed, OneKind, Somewhere, Queued
    <3>3. ~Queued(n)'
      <4> SUFFICES ASSUME NEW i \in DOMAIN tasks_', tasks_'[i] = n
                   PROVE  FALSE
        BY DEF Queued
      <4>1. i \in Nat /\ i # 0 /\ i + 1 \in DOMAIN tasks_ /\ tasks_[i + 1] = n
        BY <2>2
      <4>2. i + 1 = 1
        BY <3>1, <4>1 DEF PlacesInv, Placed, NotTwice
      <4> QED
        BY <4>1, <4>2
    <3>4. \A v \in Worker : task'[v] = n <=> v = w
      BY <1>1, <2>1, <2>4, <3>2 DEF Taken
    <3>5. ~InPost(n)' /\ Taken(n)' /\ n \notin ran' /\ n <= posted'
      BY <1>1, <1>2, <3>2, <3>4 DEF InPost, Taken
    <3>6. NotTwice(n)'
      BY <2>3, <3>4, <3>5 DEF NotTwice, InPost
    <3> QED
      BY <3>3, <3>5, <3>6 DEF Placed, OneKind, Somewhere
  <2>5. CASE n # Head(tasks_)
    <3>1. Queued(n)' <=> Queued(n)
      <4>1. ASSUME Queued(n)' PROVE Queued(n)
        <5>1. PICK i \in DOMAIN tasks_' : tasks_'[i] = n
          BY <4>1 DEF Queued
        <5>2. i + 1 \in DOMAIN tasks_ /\ tasks_[i + 1] = n
          BY <2>2, <5>1
        <5> QED
          BY <5>2 DEF Queued
      <4>2. ASSUME Queued(n) PROVE Queued(n)'
        <5>1. PICK i \in DOMAIN tasks_ : tasks_[i] = n
          BY <4>2 DEF Queued
        <5>2. i \in Nat /\ i # 1 /\ i - 1 \in DOMAIN tasks_'
          BY <2>2, <2>5, <5>1
        <5>3. tasks_'[i - 1] = tasks_[(i - 1) + 1] /\ (i - 1) + 1 = i
          BY <2>2, <5>2
        <5> QED
          BY <5>1, <5>2, <5>3 DEF Queued
      <4> QED
        BY <4>1, <4>2
    <3>2. \A v \in Worker : task'[v] = n <=> task[v] = n
      BY <1>1, <2>1, <2>5
    <3>3. NotTwice(n)'
      BY <1>2, <2>3, <3>2 DEF PlacesInv, Placed, NotTwice
    <3> QED
      BY <1>1, <1>2, <3>1, <3>2, <3>3
      DEF PlacesInv, Placed, OneKind, Somewhere, InPost, Taken
  <2> QED
    BY <2>4, <2>5
<1> QED
  BY <1>3, <1>4

(* A worker's task has run when it returns.                                *)
LEMMA ExecuteTaskPlaces ==
  ASSUME PoolInv, PlacesInv, NEW w \in Worker, ExecuteTask(w), NEW n \in 1 .. MaxTasks
  PROVE  Placed(n)'
<1>1. /\ task \in [Worker -> 0 .. MaxTasks]
      /\ UNCHANGED <<tasks_, posted, posting, posting_task>>
  BY DEF PoolInv, TypeOK, ExecuteTask, poolVars, holdVars
<1>2. \A u \in Thread : Posts(u, n)' <=> Posts(u, n)
  BY <1>1 DEF Posts
<1>3. CASE task[w] = 0
  <2>1. UNCHANGED <<task, ran>>
    BY <1>3 DEF ExecuteTask
  <2> QED
    BY <1>1, <1>2, <2>1, PlacesUnchanged
<1>4. CASE task[w] # 0 /\ task[w] = n
  <2>1. ran' = ran \cup {n} /\ task' = [task EXCEPT ![w] = 0]
    BY <1>4 DEF ExecuteTask
  <2>2. Taken(n) /\ ~InPost(n) /\ ~Queued(n) /\ n <= posted
    BY <1>4 DEF PlacesInv, Placed, OneKind, Somewhere, Taken
  <2>3. \A v \in Worker : task'[v] # n
    BY <1>1, <1>4, <2>1 DEF PlacesInv, Placed, NotTwice
  <2>4. ~InPost(n)' /\ ~Queued(n)' /\ ~Taken(n)' /\ n \in ran' /\ n <= posted'
    BY <1>1, <1>2, <2>1, <2>2, <2>3 DEF InPost, Queued, Taken
  <2> QED
    BY <2>4 DEF Placed, NotTwice, OneKind, Somewhere, InPost, Queued, Taken
<1>5. CASE task[w] # 0 /\ task[w] # n
  <2>1. ran' = ran \cup {task[w]} /\ task' = [task EXCEPT ![w] = 0]
    BY <1>5 DEF ExecuteTask
  <2>2. (n \in ran' <=> n \in ran) /\ \A v \in Worker : task'[v] = n <=> task[v] = n
    BY <1>1, <1>5, <2>1
  <2> QED
    BY <1>1, <1>2, <2>2
    DEF PlacesInv, Placed, NotTwice, OneKind, Somewhere, InPost, Queued, Taken
<1> QED
  BY <1>3, <1>4, <1>5

LEMMA PlacesInvStep == PoolInv /\ PlacesInv /\ [Next]_vars => PlacesInv'
<1> SUFFICES ASSUME PoolInv, PlacesInv, [Next]_vars, NEW n \in 1 .. MaxTasks
             PROVE  Placed(n)'
  BY DEF PlacesInv
<1>1. ASSUME UNCHANGED <<tasks_, task, ran, posted, posting, posting_task>>
      PROVE  Placed(n)'
  BY <1>1, PlacesUnchanged DEF Posts
<1>2. ASSUME NEW t \in Thread, PostTask(t) \/ PushTask(t) \/ RunPostedTask(t)
      PROVE  Placed(n)'
  BY <1>2, PostTaskPlaces, PushTaskPlaces, RunPostedTaskPlaces
<1>3. ASSUME NEW t \in Thread, NotifyOne(t) PROVE Placed(n)'
  <2>1. \A u \in Thread : Posts(u, n)' <=> Posts(u, n)
    BY <1>3 DEF PoolInv, TypeOK, NotifyOne, Posts
  <2> QED
    BY <1>3, <2>1, PlacesUnchanged DEF NotifyOne, poolVars, historyVars
<1>4. ASSUME NEW t \in Client, Release(t) PROVE Placed(n)'
  BY <1>1, <1>4 DEF Release, poolVars, workerVars, historyVars
<1>5. CASE PostTaskToAllWorkers \/ Terminate
  BY <1>1, <1>5 DEF PostTaskToAllWorkers, Terminate, holdVars, historyVars
<1>6. ASSUME NEW w \in Worker, Take(w) \/ ExecuteTask(w) PROVE Placed(n)'
  BY <1>6, TakePlaces, ExecuteTaskPlaces
<1>7. ASSUME NEW w \in Worker, Wait(w) \/ Leave(w) \/ SpuriousWakeup(w) PROVE Placed(n)'
  BY <1>1, <1>7 DEF Wait, Leave, SpuriousWakeup, poolVars, holdVars, historyVars
<1>8. CASE UNCHANGED vars
  BY <1>1, <1>8 DEF vars, poolVars, workerVars, holdVars, historyVars
<1> QED
  BY <1>2, <1>3, <1>4, <1>5, <1>6, <1>7, <1>8 DEF Next, PostStep, WorkerStep

LEMMA AtMostOne ==
  ASSUME NEW S, NEW P, P = (S # {}), \A x, y \in S : x = y
  PROVE  Cardinality(S) = IF P THEN 1 ELSE 0
<1>1. CASE S = {}
  BY <1>1, FS_EmptySet
<1>2. ASSUME NEW x \in S PROVE Cardinality(S) = 1 /\ S # {}
  <2>1. S = {x}
    BY <1>2
  <2> QED
    BY <2>1, FS_Singleton
<1> QED
  BY <1>1, <1>2

(* What the counts of TaskInOnePlace say, place by place.                  *)
LEMMA PlacedIsCounted ==
  ASSUME NEW n \in 1 .. MaxTasks, Placed(n), n <= posted
  PROVE  LET posters == {t \in Thread : posting[t] = "lock" /\ posting_task[t] = n}
             places == {i \in DOMAIN tasks_ : tasks_[i] = n}
             takers == {w \in Worker : task[w] = n}
         IN Cardinality(posters) + Cardinality(places) + Cardinality(takers)
              + Cardinality(ran \cap {n}) = 1
<1> DEFINE posters == {t \in Thread : posting[t] = "lock" /\ posting_task[t] = n}
           places == {i \in DOMAIN tasks_ : tasks_[i] = n}
           takers == {w \in Worker : task[w] = n}
<1>1. Cardinality(posters) = IF InPost(n) THEN 1 ELSE 0
  <2>1. InPost(n) = (posters # {}) /\ \A x, y \in posters : x = y
    BY DEF Placed, NotTwice, InPost, Posts
  <2> QED
    BY <2>1, AtMostOne
<1>2. Cardinality(places) = IF Queued(n) THEN 1 ELSE 0
  <2>1. Queued(n) = (places # {}) /\ \A x, y \in places : x = y
    BY DEF Placed, NotTwice, Queued
  <2> QED
    BY <2>1, AtMostOne
<1>3. Cardinality(takers) = IF Taken(n) THEN 1 ELSE 0
  <2>1. Taken(n) = (takers # {}) /\ \A x, y \in takers : x = y
    BY DEF Placed, NotTwice, Taken
  <2> QED
    BY <2>1, AtMostOne
<1>4. Cardinality(ran \cap {n}) = IF n \in ran THEN 1 ELSE 0
  <2>1. (n \in ran) = (ran \cap {n} # {}) /\ \A x, y \in ran \cap {n} : x = y
    OBVIOUS
  <2> QED
    BY <2>1, AtMostOne
<1> HIDE DEF posters, places, takers
<1>5. Cardinality(posters) + Cardinality(places) + Cardinality(takers)
        + Cardinality(ran \cap {n}) = 1
  BY <1>1, <1>2, <1>3, <1>4 DEF Placed, OneKind, Somewhere
<1> QED
  BY <1>5 DEF posters, places, takers

(* However posts, workers, the shutdown and the end of the pool interleave *)
(* nobody runs a task twice, and nobody loses one on the way, whichever    *)
(* thread runs it (concurrent_message_loop.cc:58, :62, :84, :101, :169).   *)
THEOREM EveryTaskInOnePlace == Spec => []TaskInOnePlace
<1>1. PoolInv /\ PlacesInv => TaskInOnePlace
  <2> SUFFICES ASSUME PoolInv, PlacesInv, NEW n \in 1 .. posted
               PROVE  n \in 1 .. MaxTasks /\ Placed(n) /\ n <= posted
    BY PlacedIsCounted DEF TaskInOnePlace
  <2>1. posted \in 0 .. MaxTasks /\ MaxTasks \in Nat
    BY PoolAssumption DEF PoolInv, TypeOK
  <2> QED
    BY <2>1 DEF PlacesInv
<1> QED
  BY TypedInit, PlacesInit, PoolInvInductive, PlacesInvStep, <1>1, PTL DEF Spec
=============================================================================
