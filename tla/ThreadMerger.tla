----------------------------- MODULE ThreadMerger -----------------------------
(***************************************************************************)
(* fml::RasterThreadMerger and fml::SharedThreadMerger: engines that share *)
(* one platform and one raster thread lend the raster queue to the         *)
(* platform thread while their frames hold platform views.  Every engine   *)
(* has a RasterThreadMerger, with a mutex of its own, and all of them one  *)
(* SharedThreadMerger, with another.                                       *)
(*                                                                         *)
(* A task of the raster queue is started by the thread that runs the queue *)
(* at that moment.  A merge does not stop the task that makes it: its rest *)
(* runs on the raster thread while the platform thread starts the next.    *)
(* The tasks are Rasterizer::Draw and those with which the shell gives the *)
(* rasterizer a surface and takes it away, reduced to their calls of the   *)
(* merger.  Shell::OnPlatformViewDestroyed holds the platform thread on a  *)
(* latch until its task has run.                                           *)
(***************************************************************************)
EXTENDS QueueTopology, Sequences

CONSTANTS
  Merger,       \* one RasterThreadMerger per engine
  platform,     \* the owner: the platform task queue and its thread
  raster,       \* the subsumed: the raster task queue and its thread
  NoLease,      \* the caller has no record in lease_term_by_caller_
  Nobody,       \* no thread, or no engine
  LeaseTerm,    \* kDefaultMergedLeaseDuration
  MaxTasks,     \* bound: draws started in a behaviour
  MaxOverlap,   \* draws the platform starts before a task of raster has ended
  MaxSurfaces,  \* bound: surfaces created and destroyed in a behaviour
  CanWait,      \* does the platform thread call WaitUntilMerged?
  DestroyEarly  \* may a surface be destroyed before the raster thread has run
                \* the task that sets it up?

ASSUME PairAssumption ==
  /\ Queue = {platform, raster} /\ platform # raster
  /\ Nobody \notin Queue \cup Merger
ASSUME LeaseAssumption == LeaseTerm \in Nat \ {0} /\ NoLease \notin Nat
ASSUME MergerBounds ==
  {MaxTasks, MaxSurfaces} \subseteq Nat /\ {CanWait, DestroyEarly} \subseteq BOOLEAN

(* The rest of the task that merged takes less time than the frames of a   *)
(* lease: nine of them at the code's lease of ten.  Nothing in the code    *)
(* sees to it.  Without it that rest may end the last lease and unmerge    *)
(* the threads under a task of the platform thread: a draw then "yields as *)
(* its on the wrong thread" (the scenario of rasterizer.cc:549-564, which  *)
(* is thus excluded for a single engine) or extends a lease of threads     *)
(* that are apart, and a teardown that has found them merged unmerges them *)
(* once more, which fails an FML_CHECK.                                    *)
ASSUME OverlapAssumption == MaxOverlap \in Nat /\ MaxOverlap + 1 < LeaseTerm

VARIABLES
  lease,     \* SharedThreadMerger::lease_term_by_caller_
  enabled_,  \* SharedThreadMerger::enabled_
  shared,    \* who holds SharedThreadMerger::mutex_
  own,       \* [Merger -> who holds RasterThreadMerger::mutex_]
  pc,        \* [Queue -> where the thread is]
  engine,    \* [Queue -> the engine whose task the thread is in]
  shown,     \* [Merger -> does the platform view have a surface?]
  surface_,  \* [Merger -> does the rasterizer have one?]
  posted,    \* tasks of the shell that are in the raster queue
  aborted,   \* the FML_CHECK that stopped the process, or "no"
  tasks,     \* draws started so far
  overlap,   \* those platform has started since the task raster is in
  surfaces   \* surfaces created and destroyed so far

counters == <<tasks, overlap, surfaces>>
surfaceVars == <<shown, surface_, posted>>
vars == <<topology, lease, enabled_, shared, own, pc, engine, surfaceVars, aborted,
          counters>>

(* After the first Setup of every rasterizer, which makes its merger.       *)
Init ==
  /\ InitTopology
  /\ lease = [m \in Merger |-> NoLease]
  /\ enabled_ = TRUE
  /\ shared = Nobody
  /\ own = [m \in Merger |-> Nobody]
  /\ pc = [t \in Queue |-> "idle"]
  /\ engine = [t \in Queue |-> Nobody]
  /\ shown = [m \in Merger |-> TRUE]
  /\ surface_ = [m \in Merger |-> TRUE]
  /\ posted = <<>>
  /\ aborted = "no"
  /\ tasks = 0 /\ overlap = 0 /\ surfaces = 0

-----------------------------------------------------------------------------

(* Faulty: a lease that has run out counts until it is erased.             *)
AllErased(l) == \A m \in Merger : l[m] = NoLease

AllZero(l) == \A m \in Merger : l[m] \in {NoLease, 0}

(* Read under the caller's own mutex only, except in SharedThreadMerger.   *)
IsMerged == ~AllZero(lease)

IsOnRasterizingThread(t) == IsMerged <=> t = platform

(* A locked section of the merger of t's engine that calls nothing.        *)
OwnFree(t) == own[engine[t]] = Nobody

GoTo(t, label) == pc' = [pc EXCEPT ![t] = label]

(* Faulty: the mutex is not released.                                      *)
KeepOwn(t) == UNCHANGED own

LockOwn(t) == own' = [own EXCEPT ![engine[t]] = t]
UnlockOwn(t) == own' = [own EXCEPT ![engine[t]] = Nobody]

(* merged_condition_.notify_one() of the engine of t, and t goes on to     *)
(* label.                                                                  *)
NotifyAndGoTo(t, label) ==
  pc' = [q \in Queue |->
           IF q = t THEN label
           ELSE IF pc[q] = "waiting" /\ engine[q] = engine[t] THEN "woken"
           ELSE pc[q]]

(* The task returns.  The last task of the shell to return is the one that *)
(* a latched platform thread waits for: it has posted no other since.      *)
Released(t) ==
  {t} \cup {p \in {platform} : t = raster /\ pc[p] = "latched" /\ posted = <<>>}

End(t) ==
  /\ pc' = [q \in Queue |-> IF q \in Released(t) THEN "idle" ELSE pc[q]]
  /\ engine' = [q \in Queue |-> IF q \in Released(t) THEN Nobody ELSE engine[q]]

Abort(check) == aborted' = check

-----------------------------------------------------------------------------
(* A task of the raster queue starts on the thread that runs the queue.    *)

StartDraw(t, m) ==
  /\ pc[t] = "idle"
  /\ t = Runner(raster)
  /\ tasks < MaxTasks
  /\ tasks' = tasks + 1
  /\ t = platform /\ pc[raster] # "idle" => overlap < MaxOverlap
  /\ overlap' = IF pc[raster] = "idle" THEN 0 ELSE overlap + 1
  /\ engine' = [engine EXCEPT ![t] = m]
  /\ GoTo(t, "check")
  /\ UNCHANGED <<topology, lease, enabled_, shared, own, surfaceVars, aborted, surfaces>>

StartPosted(t) ==
  /\ pc[t] = "idle"
  /\ t = Runner(raster)
  /\ posted # <<>>
  /\ posted' = Tail(posted)
  /\ engine' = [engine EXCEPT ![t] = Head(posted).engine]
  /\ GoTo(t, Head(posted).task)
  /\ UNCHANGED <<topology, lease, enabled_, shared, own, shown, surface_, aborted,
                 counters>>

(* Faulty: the lease is read without the mutex.                            *)
CheckThreadUnlocked(t) ==
  /\ pc[t] = "check"
  /\ GoTo(t, IF IsOnRasterizingThread(t) THEN "preroll" ELSE "yield")
  /\ UNCHANGED <<topology, lease, enabled_, shared, own, engine, aborted, surfaceVars,
                 counters>>

(* Rasterizer::Draw yields when it is on the wrong thread.                 *)
CheckThread(t) ==
  /\ pc[t] = "check"
  /\ OwnFree(t)
  /\ GoTo(t, IF IsOnRasterizingThread(t) THEN "preroll" ELSE "yield")
  /\ UNCHANGED <<topology, lease, enabled_, shared, own, engine, aborted, surfaceVars,
                 counters>>

Yield(t) ==
  /\ pc[t] = "yield"
  /\ End(t)
  /\ UNCHANGED <<topology, lease, enabled_, shared, own, aborted, surfaceVars, counters>>

(* DoDraw returns early, and leaves the lease as it is: without a surface  *)
(* always, with one for a frame without layer trees or while the GPU is    *)
(* disabled.                                                               *)
NothingDrawn(t) ==
  /\ pc[t] = "preroll"
  /\ End(t)
  /\ UNCHANGED <<topology, lease, enabled_, shared, own, aborted, surfaceVars, counters>>

(* AndroidExternalViewEmbedder::PostPrerollAction: a frame without         *)
(* platform views leaves the merger alone, one with merges or extends.     *)
Preroll(t) ==
  /\ pc[t] = "preroll"
  /\ surface_[engine[t]]
  /\ \/ GoTo(t, "decrement")
     \/ OwnFree(t) /\ GoTo(t, IF IsMerged THEN "extend" ELSE "merge")
  /\ UNCHANGED <<topology, lease, enabled_, shared, own, engine, aborted, surfaceVars,
                 counters>>

(* MergeWithLease up to the call of the shared merger.                     *)
BeginMerge(t) ==
  /\ pc[t] = "merge"
  /\ OwnFree(t)
  /\ \/ ~enabled_ /\ GoTo(t, "decrement") /\ UNCHANGED own
     \/ enabled_ /\ IsMerged /\ NotifyAndGoTo(t, "decrement") /\ UNCHANGED own
     \/ enabled_ /\ ~IsMerged /\ LockOwn(t) /\ GoTo(t, "mergeQueues")
  /\ UNCHANGED <<topology, lease, enabled_, shared, engine, aborted, surfaceVars,
                 counters>>

(* SharedThreadMerger::MergeWithLease merges the queues first, which wakes *)
(* the platform thread, and records the lease after that.                  *)
MergeTheQueues(t) ==
  /\ pc[t] = "mergeQueues"
  /\ shared = Nobody
  /\ \/ /\ IsMerged
        /\ UnlockOwn(t) /\ NotifyAndGoTo(t, "decrement")
        /\ UNCHANGED <<topology, shared, aborted>>
     \/ /\ ~IsMerged /\ MergeSucceeds(platform, raster)
        /\ Merge(platform, raster) \/ (Owns(platform, raster) /\ UNCHANGED topology)
        /\ shared' = t /\ GoTo(t, "recordLease")
        /\ UNCHANGED <<own, aborted>>
     \/ /\ ~IsMerged /\ ~MergeSucceeds(platform, raster)
        /\ Abort("merge")
        /\ UNCHANGED <<topology, shared, own, pc>>
  /\ UNCHANGED <<lease, enabled_, engine, surfaceVars, counters>>

RecordLease(t) ==
  /\ pc[t] = "recordLease"
  /\ lease' = [lease EXCEPT ![engine[t]] = LeaseTerm]
  /\ shared' = Nobody
  /\ UnlockOwn(t) /\ NotifyAndGoTo(t, "decrement")
  /\ UNCHANGED <<topology, enabled_, engine, aborted, surfaceVars, counters>>

BeginExtend(t) ==
  /\ pc[t] = "extend"
  /\ OwnFree(t)
  /\ \/ ~enabled_ /\ GoTo(t, "decrement") /\ UNCHANGED own
     \/ enabled_ /\ LockOwn(t) /\ GoTo(t, "extendLease")
  /\ UNCHANGED <<topology, lease, enabled_, shared, engine, aborted, surfaceVars,
                 counters>>

(* Faulty: the lease is extended by the term instead of to it.             *)
ExtendLeaseBy(t) ==
  /\ pc[t] = "extendLease"
  /\ shared = Nobody
  /\ lease' = [lease EXCEPT ![engine[t]] = IF @ = NoLease THEN LeaseTerm ELSE @ + LeaseTerm]
  /\ UnlockOwn(t) /\ GoTo(t, "decrement")
  /\ UNCHANGED <<topology, enabled_, shared, engine, aborted, surfaceVars, counters>>

(* The FML_DCHECK(IsMergedUnSafe()) here is not in release builds.         *)
ExtendLease(t) ==
  /\ pc[t] = "extendLease"
  /\ shared = Nobody
  /\ lease' = [lease EXCEPT ![engine[t]] = LeaseTerm]
  /\ UnlockOwn(t) /\ GoTo(t, "decrement")
  /\ UNCHANGED <<topology, enabled_, shared, engine, aborted, surfaceVars, counters>>

(* DecrementLease, at the end of every frame that was drawn.               *)
BeginDecrement(t) ==
  /\ pc[t] = "decrement"
  /\ OwnFree(t)
  /\ \/ /\ ~IsMerged \/ ~enabled_
        /\ End(t) /\ UNCHANGED own
     \/ /\ IsMerged /\ enabled_
        /\ LockOwn(t) /\ GoTo(t, "decrementLease") /\ UNCHANGED engine
  /\ UNCHANGED <<topology, lease, enabled_, shared, aborted, surfaceVars, counters>>

(* Faulty: the first lease that ends unmerges the queues.                  *)
UnmergeAtOnce(t, l) ==
  /\ lease' = l
  /\ shared' = t /\ GoTo(t, "unmergeQueues")
  /\ UNCHANGED <<own, engine>>

(* The leases the operation leaves behind are l: with none left the        *)
(* queues are unmerged, in UnMergeNowUnSafe, before the mutexes are freed. *)
LeaveLeases(t, l) ==
  /\ lease' = l
  /\ \/ /\ AllZero(l)
        /\ shared' = t /\ GoTo(t, "unmergeQueues")
        /\ UNCHANGED <<own, engine>>
     \/ /\ ~AllZero(l)
        /\ UnlockOwn(t) /\ End(t)
        /\ UNCHANGED shared

DecrementLease(t) ==
  /\ pc[t] = "decrementLease"
  /\ shared = Nobody
  /\ LET m == engine[t] IN
       \/ /\ lease[m] = NoLease
          /\ LeaveLeases(t, lease)
          /\ UNCHANGED aborted
       \/ /\ lease[m] # NoLease /\ lease[m] > 0
          /\ LeaveLeases(t, [lease EXCEPT ![m] = @ - 1])
          /\ UNCHANGED aborted
       \/ /\ lease[m] = 0
          /\ Abort("lease")
          /\ UNCHANGED <<lease, shared, own, pc, engine>>
  /\ UNCHANGED <<topology, enabled_, surfaceVars, counters>>

UnmergeTheQueues(t) ==
  /\ pc[t] = "unmergeQueues"
  /\ \/ /\ Unmerge(platform, raster)
        /\ shared' = Nobody
        /\ UnlockOwn(t) /\ End(t)
        /\ UNCHANGED aborted
     \/ /\ ~UnmergeSucceeds(platform, raster)
        /\ Abort("unmerge")
        /\ UNCHANGED <<topology, shared, own, pc, engine>>
  /\ UNCHANGED <<lease, enabled_, surfaceVars, counters>>

(* The raster task of OnPlatformViewCreated.                               *)
SetUp(t) ==
  /\ pc[t] = "setUp"
  /\ OwnFree(t)
  /\ enabled_' = TRUE
  /\ surface_' = [surface_ EXCEPT ![engine[t]] = TRUE]
  /\ End(t)
  /\ UNCHANGED <<topology, lease, shared, own, shown, posted, aborted, counters>>

(* That of OnPlatformViewDestroyed enables the merger as well, so that     *)
(* Rasterizer::Teardown can unmerge the threads.                           *)
Enable(t) ==
  /\ pc[t] = "tearDown"
  /\ OwnFree(t)
  /\ enabled_' = TRUE
  /\ surface_' = [surface_ EXCEPT ![engine[t]] = FALSE]
  /\ GoTo(t, "checkMerged")
  /\ UNCHANGED <<topology, lease, shared, own, engine, shown, posted, aborted, counters>>

(* Teardown asks IsMerged and then calls UnMergeNowIfLastOne.              *)
CheckMerged(t) ==
  /\ pc[t] = "checkMerged"
  /\ OwnFree(t)
  /\ \/ IsMerged /\ GoTo(t, "unmergeNow") /\ UNCHANGED engine
     \/ ~IsMerged /\ End(t)
  /\ UNCHANGED <<topology, lease, enabled_, shared, own, aborted, surfaceVars, counters>>

BeginUnmergeNow(t) ==
  /\ pc[t] = "unmergeNow"
  /\ OwnFree(t)
  /\ \/ ~enabled_ /\ End(t) /\ UNCHANGED own
     \/ enabled_ /\ LockOwn(t) /\ GoTo(t, "eraseLease") /\ UNCHANGED engine
  /\ UNCHANGED <<topology, lease, enabled_, shared, aborted, surfaceVars, counters>>

UnMergeNowIfLastOne(t) ==
  /\ pc[t] = "eraseLease"
  /\ shared = Nobody
  /\ LeaveLeases(t, [lease EXCEPT ![engine[t]] = NoLease])
  /\ UNCHANGED <<topology, enabled_, aborted, surfaceVars, counters>>

-----------------------------------------------------------------------------
(* What the platform thread does between two tasks.                        *)

(* The surface of m is created or destroyed.                               *)
ChangeSurface(m) ==
  /\ pc[platform] = "idle"
  /\ surfaces < MaxSurfaces
  /\ shown[m] => surface_[m] \/ DestroyEarly
  /\ surfaces' = surfaces + 1
  /\ shown' = [shown EXCEPT ![m] = ~@]
  /\ enabled_' = FALSE
  /\ GoTo(platform, "disabled")
  /\ engine' = [engine EXCEPT ![platform] = m]
  /\ UNCHANGED <<topology, lease, shared, own, surface_, posted, aborted, tasks, overlap>>

(* Faulty: enabled_ is written without the mutex.                          *)
DisableUnlocked(m) == ChangeSurface(m)

(* Both begin with RasterThreadMerger::Disable.                            *)
Disable(m) ==
  /\ own[m] = Nobody
  /\ ChangeSurface(m)

(* RunNowOrPostTask: on the thread that runs the raster queue the task is  *)
(* run at once.  Else it is posted, and only OnPlatformViewDestroyed waits *)
(* for its end.                                                            *)
RunNowOrPostTask ==
  /\ pc[platform] = "disabled"
  /\ LET task == IF shown[engine[platform]] THEN "setUp" ELSE "tearDown"
     IN \/ /\ Runner(raster) = platform
           /\ GoTo(platform, task)
           /\ UNCHANGED <<engine, posted>>
        \/ /\ Runner(raster) # platform
           /\ posted' = Append(posted, [engine |-> engine[platform], task |-> task])
           /\ \/ task = "tearDown" /\ GoTo(platform, "latched") /\ UNCHANGED engine
              \/ task = "setUp" /\ End(platform)
  /\ UNCHANGED <<topology, lease, enabled_, shared, own, shown, surface_, aborted,
                 counters>>

WaitUntilMerged(m) ==
  /\ CanWait
  /\ pc[platform] = "idle"
  /\ own[m] = Nobody
  /\ ~IsMerged
  /\ GoTo(platform, "waiting")
  /\ engine' = [engine EXCEPT ![platform] = m]
  /\ UNCHANGED <<topology, lease, enabled_, shared, own, aborted, surfaceVars, counters>>

WaitAgain ==
  /\ pc[platform] = "woken"
  /\ OwnFree(platform)
  /\ \/ IsMerged /\ End(platform)
     \/ ~IsMerged /\ GoTo(platform, "waiting") /\ UNCHANGED engine
  /\ UNCHANGED <<topology, lease, enabled_, shared, own, aborted, surfaceVars, counters>>

-----------------------------------------------------------------------------

Step(t) ==
  \/ StartPosted(t) \/ SetUp(t) \/ Enable(t)
  \/ CheckThread(t) \/ Yield(t) \/ NothingDrawn(t) \/ Preroll(t)
  \/ BeginMerge(t) \/ MergeTheQueues(t) \/ RecordLease(t)
  \/ BeginExtend(t) \/ ExtendLease(t)
  \/ BeginDecrement(t) \/ DecrementLease(t) \/ UnmergeTheQueues(t)
  \/ CheckMerged(t) \/ BeginUnmergeNow(t) \/ UnMergeNowIfLastOne(t)

Next ==
  /\ aborted = "no"
  /\ \/ \E t \in Queue, m \in Merger : StartDraw(t, m)
     \/ \E t \in Queue : Step(t)
     \/ \E m \in Merger : Disable(m) \/ WaitUntilMerged(m)
     \/ RunNowOrPostTask \/ WaitAgain

(* Both threads are scheduled; nobody has to draw or to change a surface.  *)
Fairness ==
  /\ \A t \in Queue : WF_vars(aborted = "no" /\ Step(t))
  /\ WF_vars(aborted = "no" /\ (RunNowOrPostTask \/ WaitAgain))

Spec == Init /\ [][Next]_vars
FairSpec == Spec /\ Fairness

-----------------------------------------------------------------------------

Label == {"idle", "check", "yield", "preroll", "merge", "mergeQueues",
          "recordLease", "extend", "extendLease", "decrement", "decrementLease",
          "unmergeQueues", "setUp", "tearDown", "checkMerged", "unmergeNow",
          "eraseLease", "disabled", "latched", "waiting", "woken"}

TypeOK ==
  /\ TopologyTypeOK
  /\ lease \in [Merger -> 0 .. LeaseTerm \cup {NoLease}]
  /\ enabled_ \in BOOLEAN
  /\ shared \in Queue \cup {Nobody}
  /\ own \in [Merger -> Queue \cup {Nobody}]
  /\ pc \in [Queue -> Label]
  /\ engine \in [Queue -> Merger \cup {Nobody}]
  /\ shown \in [Merger -> BOOLEAN] /\ surface_ \in [Merger -> BOOLEAN]
  /\ posted \in Seq([engine : Merger, task : {"setUp", "tearDown"}])
  /\ aborted \in {"no", "merge", "lease", "unmerge"}
  /\ counters \in Nat \X Nat \X Nat

(* Outside the locked sections of SharedThreadMerger the queues are merged *)
(* exactly while some engine has a lease left: no sequence of merges,      *)
(* extensions, decrements and teardowns of several engines leaves the      *)
(* threads merged with nobody to unmerge them, or takes the merge from an  *)
(* engine whose lease runs.                                                *)
LeasesMatchQueues ==
  shared = Nobody => (IsMerged <=> Owns(platform, raster))

(* The FML_CHECKs of SharedThreadMerger never fail.                        *)
NoAbort == aborted = "no"

(* shared_thread_merger.cc:59, FML_CHECK(lease_term_ref > 0): "lease_term  *)
(* should always be positive when merged".                                 *)
LeasePositiveWhenMerged == aborted # "lease"

(* raster_thread_merger.h:87, of IsOnRasterizingThread: "Returns true if   *)
(* the current thread owns rasterizing. When the threads are merged,       *)
(* platform thread owns rasterizing."  A Draw that yields has lost the     *)
(* raster queue since it was started: it is served by the other thread.    *)
YieldsOnlyWhenMoved ==
  [][\A t \in Queue : pc[t] = "check" /\ pc'[t] = "yield" => Runner(raster) # t]_vars

(* raster_thread_merger.h, Disable: "Once disabled, any call to            *)
(* |MergeWithLease| or |UnMergeNowIfLastOne| results in a noop", and no    *)
(* merge that was under way when Disable was called is still to come.      *)
NoChangeWhileDisabled == [][topology' # topology => enabled_]_vars

(* A task of an engine comes to its end: no cycle of the two kinds of      *)
(* mutexes, the condition variable and the latch holds the threads up.     *)
Held(t) == pc[t] \in {"idle", "waiting", "latched"}

TasksEnd == \A t \in Queue : ~Held(t) ~> (Held(t) \/ ~NoAbort)

(* shell.cc:996, "Prevent any request to change the thread configuration   *)
(* for raster and platform queues while the platform view is being         *)
(* destroyed", which "can lead to deadlock": the task the platform thread  *)
(* waits for is run.  It would not be if the queue came to the platform    *)
(* thread while that thread waits.                                         *)
LatchIsReleased ==
  pc[platform] = "latched" ~> (pc[platform] # "latched" \/ ~NoAbort)

(* raster_thread_merger.h, WaitUntilMerged: "Waits until the threads are   *)
(* merged", and no longer.                                                 *)
WaitEndsWhenMerged ==
  pc[platform] = "waiting" /\ IsMerged ~> pc[platform] # "waiting"
=============================================================================
