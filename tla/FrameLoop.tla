------------------------------ MODULE FrameLoop ------------------------------
(***************************************************************************)
(* The way of a frame through the engine: Animator and VsyncWaiter on the  *)
(* UI thread and the platform's vsync source, the pipeline, and the        *)
(* rasterizer on the raster thread, without a raster thread merger and for *)
(* one view (shell/common/animator.cc, vsync_waiter.cc, rasterizer.cc,     *)
(* shell.cc).                                                              *)
(*                                                                         *)
(* A request for a frame posts AwaitVSync, which leaves callback_ with the *)
(* waiter; the vsync posts a task that lets the framework build a frame    *)
(* into the pipeline (or draws the last one again), and the first frame    *)
(* that enters an empty pipeline posts a Draw to the raster thread.        *)
(* Each call that touches what two threads share is a step of its own.     *)
(*                                                                         *)
(* Time, frame timings and the reports of idle time are left out; the      *)
(* tasks of a runner run in the order in which they were posted.           *)
(***************************************************************************)
EXTENDS Pipeline, FiniteSets

CONSTANTS
  MaxRequests     \* bound: tasks and secondary callbacks of the framework

ASSUME FrameLoopAssumption == MaxRequests \in Nat

VARIABLES
  \* UI thread
  ui_tasks,                 \* the tasks of its runner
  ui_pc,                    \* what it runs
  requests,                 \* tasks and secondary callbacks so far
  animator_alive,           \* ~Animator has not run
  pending_frame_semaphore_, regenerate_layer_trees_, frame_scheduled_,
  layer_trees_tasks_,       \* is there one?
  null_item,                \* number of the item without a frame, or 0
  notify,                   \* result.is_first_item, until the Draw is posted
  \* VsyncWaiter
  callback_,                \* is there one?
  secondary_callbacks_,     \* is there one?
  awaited,                  \* calls of AwaitVSync the platform is to answer
  fired,                    \* what FireCallback took and has yet to post
  dart_paused,              \* pauses of the Dart event loop's source
  \* raster thread
  raster_tasks, raster_pc,
  retry,                    \* does DoDraw return a resubmitted_item?
  more,                     \* consume_result = MoreAvailable
  last_successful_task      \* does the view's record have one?

animatorVars == <<pending_frame_semaphore_, regenerate_layer_trees_, frame_scheduled_,
                  layer_trees_tasks_>>
lifeVars == <<animator_alive, null_item>>
waiterVars == <<callback_, secondary_callbacks_, awaited, fired>>
uiVars == <<ui_tasks, ui_pc, requests, animatorVars, lifeVars, notify, waiterVars,
            dart_paused>>
rasterVars == <<raster_tasks, raster_pc, retry, more, last_successful_task>>
vars == <<pipelineVars, uiVars, rasterVars>>

Init ==
  /\ PipelineInit
  /\ ui_tasks = <<>> /\ ui_pc = "idle" /\ requests = 0
  /\ animator_alive = TRUE /\ null_item = 0
  /\ pending_frame_semaphore_ = 1
  /\ regenerate_layer_trees_ = FALSE /\ frame_scheduled_ = FALSE
  /\ layer_trees_tasks_ = FALSE
  /\ notify = FALSE
  /\ callback_ = FALSE /\ secondary_callbacks_ = FALSE
  /\ awaited = 0 /\ fired = {} /\ dart_paused = 0
  /\ raster_tasks = <<>> /\ raster_pc = "idle"
  /\ retry = FALSE /\ more = FALSE
  /\ last_successful_task = FALSE

-----------------------------------------------------------------------------
(* Animator.                                                               *)

(* The UI thread is not inside EndFrame.                                   *)
UiFree == producer # "pushed" /\ ~notify

(* The framework runs: in OnAnimatorBeginFrame or in a task of its own.    *)
InFramework == ui_pc \in {"vsync", "task"} /\ UiFree /\ animator_alive

(* Faulty: the semaphore is not asked.                                     *)
RequestFrameAgain(tasks, semaphore, regenerate, scheduled) ==
  /\ regenerate_layer_trees_' = regenerate
  /\ pending_frame_semaphore_' = 0
  /\ ui_tasks' = Append(tasks, "await")
  /\ frame_scheduled_' = TRUE

(* RequestFrame, for the tasks, semaphore and flags that it finds.         *)
RequestFrame(tasks, semaphore, regenerate, scheduled) ==
  /\ regenerate_layer_trees_' = regenerate
  /\ pending_frame_semaphore_' = 0
  /\ ui_tasks' = IF semaphore > 0 THEN Append(tasks, "await") ELSE tasks
  /\ frame_scheduled_' = (scheduled \/ semaphore > 0)

(* A task of the framework or of the embedder begins.  Those of the Dart   *)
(* event loop do not run while their source is paused; the others do.      *)
BeginTask ==
  /\ ui_pc = "idle" /\ requests < MaxRequests
  /\ requests' = requests + 1
  /\ ui_pc' = "task"
  /\ UNCHANGED <<pipelineVars, ui_tasks, animatorVars, lifeVars, notify, waiterVars,
                 dart_paused, rasterVars>>

(* Engine::ScheduleFrame: the framework asks for the next frame, a texture *)
(* for the last one to be drawn again.                                     *)
ScheduleFrame ==
  /\ InFramework
  /\ \E regenerate \in BOOLEAN :
       RequestFrame(ui_tasks, pending_frame_semaphore_,
                    regenerate_layer_trees_ \/ regenerate, frame_scheduled_)
  /\ UNCHANGED <<pipelineVars, ui_pc, requests, layer_trees_tasks_, lifeVars,
                 notify, waiterVars, dart_paused, rasterVars>>

(* A warm-up frame is rendered by a task of its own, out of any vsync.     *)
Render ==
  /\ InFramework /\ produced < MaxItems
  /\ ~layer_trees_tasks_
  /\ layer_trees_tasks_' = TRUE
  /\ UNCHANGED <<pipelineVars, ui_tasks, ui_pc, requests, pending_frame_semaphore_,
                 regenerate_layer_trees_, frame_scheduled_, lifeVars, notify,
                 waiterVars, dart_paused, rasterVars>>

(* EndFrame with a layer tree, from OnAllViewsRendered or at the end of    *)
(* the vsync task: Complete does nothing without a continuation, and the   *)
(* frame is gone.                                                          *)
EndFrame ==
  /\ InFramework
  /\ layer_trees_tasks_
  /\ \/ /\ producer = "holding"
        /\ ProducerCommit
        /\ notify' = (queue_ = <<>>)
     \/ /\ producer = "none"
        /\ UNCHANGED <<pipelineVars, notify>>
  /\ layer_trees_tasks_' = FALSE
  /\ UNCHANGED <<ui_tasks, ui_pc, requests, pending_frame_semaphore_,
                 regenerate_layer_trees_, frame_scheduled_, lifeVars, waiterVars,
                 dart_paused, rasterVars>>

CommitSignal ==
  /\ ProducerSignal
  /\ UNCHANGED <<uiVars, rasterVars>>

(* Faulty: the Draw is posted before the item is signalled.                *)
OnAnimatorDrawEarly ==
  /\ notify
  /\ notify' = FALSE
  /\ raster_tasks' = Append(raster_tasks, "draw")
  /\ UNCHANGED <<pipelineVars, ui_tasks, ui_pc, requests, animatorVars, lifeVars,
                 waiterVars, dart_paused, raster_pc, retry, more,
                 last_successful_task>>

(* Shell::OnAnimatorDraw: the task holds the pipeline weakly.              *)
OnAnimatorDraw ==
  /\ notify /\ producer # "pushed"
  /\ notify' = FALSE
  /\ raster_tasks' = Append(raster_tasks, "draw")
  /\ UNCHANGED <<pipelineVars, ui_tasks, ui_pc, requests, animatorVars, lifeVars,
                 waiterVars, dart_paused, raster_pc, retry, more,
                 last_successful_task>>

EndTask ==
  /\ ui_pc = "task" /\ UiFree
  /\ ui_pc' = "idle"
  /\ UNCHANGED <<pipelineVars, ui_tasks, requests, animatorVars, lifeVars, notify,
                 waiterVars, dart_paused, rasterVars>>

(* The vsync task that VsyncWaiter::FireCallback posted.  Without the      *)
(* animator it does nothing but resume the Dart event loop.                *)
VsyncTask == ui_pc = "idle" /\ ui_tasks # <<>> /\ Head(ui_tasks) = "vsync"

(* Faulty: the source stays paused.                                        *)
StayPaused == UNCHANGED dart_paused

ResumeDartEventLoop == dart_paused' = dart_paused - 1

VsyncWithoutAnimator ==
  /\ VsyncTask /\ ~animator_alive
  /\ ui_tasks' = Tail(ui_tasks)
  /\ ResumeDartEventLoop
  /\ UNCHANGED <<pipelineVars, ui_pc, requests, animatorVars, lifeVars, notify,
                 waiterVars, rasterVars>>

(* Animator::DrawLastLayerTrees.                                           *)
ReuseLastLayerTrees ==
  /\ VsyncTask /\ animator_alive /\ ~regenerate_layer_trees_
  /\ ui_tasks' = Tail(ui_tasks)
  /\ pending_frame_semaphore_' = pending_frame_semaphore_ + 1
  /\ raster_tasks' = Append(raster_tasks, "last")
  /\ ResumeDartEventLoop
  /\ UNCHANGED <<pipelineVars, ui_pc, requests, regenerate_layer_trees_,
                 frame_scheduled_, layer_trees_tasks_, lifeVars, notify, waiterVars,
                 raster_pc, retry, more, last_successful_task>>

(* BeginFrame up to the call of the framework, with a continuation that    *)
(* was not used or a new one.                                              *)
BeginFrame ==
  /\ VsyncTask /\ animator_alive /\ regenerate_layer_trees_
  /\ \/ producer = "holding" /\ UNCHANGED pipelineVars
     \/ Produce
  /\ ui_tasks' = Tail(ui_tasks)
  /\ ui_pc' = "vsync"
  /\ layer_trees_tasks_' = FALSE
  /\ pending_frame_semaphore_' = pending_frame_semaphore_ + 1
  /\ regenerate_layer_trees_' = FALSE /\ frame_scheduled_' = FALSE
  /\ UNCHANGED <<requests, lifeVars, notify, waiterVars, dart_paused, rasterVars>>

(* BeginFrame with the pipeline full: the next vsync is to try again.      *)
PipelineFull ==
  /\ VsyncTask /\ animator_alive /\ regenerate_layer_trees_
  /\ producer = "none" /\ empty_ = 0
  /\ layer_trees_tasks_' = FALSE
  /\ RequestFrame(Tail(ui_tasks), pending_frame_semaphore_ + 1, TRUE, FALSE)
  /\ ResumeDartEventLoop
  /\ UNCHANGED <<pipelineVars, ui_pc, requests, lifeVars, notify, waiterVars, rasterVars>>

(* The end of the vsync task, after EndFrame if there was a layer tree.    *)
EndVsyncTask ==
  /\ ui_pc = "vsync" /\ UiFree /\ ~layer_trees_tasks_
  /\ ui_pc' = "idle"
  /\ ResumeDartEventLoop
  /\ UNCHANGED <<pipelineVars, ui_tasks, requests, pending_frame_semaphore_,
                 regenerate_layer_trees_, frame_scheduled_, layer_trees_tasks_,
                 lifeVars, notify, waiterVars, rasterVars>>

(* ~Animator, in a task of the UI thread: a continuation that was never    *)
(* completed commits an item without a frame.                              *)
DestroyAnimator ==
  /\ ui_pc = "idle" /\ animator_alive
  /\ animator_alive' = FALSE
  /\ \/ producer = "holding" /\ ProducerCommit /\ null_item' = produced'
     \/ producer = "none" /\ UNCHANGED <<pipelineVars, null_item>>
  /\ ui_pc' = "task"
  /\ UNCHANGED <<ui_tasks, requests, animatorVars, notify, waiterVars, dart_paused,
                 rasterVars>>

-----------------------------------------------------------------------------
(* VsyncWaiter.                                                            *)

(* The platform is asked for a vsync unless a callback of the other kind   *)
(* is registered, for which it has been asked.                             *)
AwaitUnless(registered) == awaited' = IF registered THEN awaited ELSE awaited + 1

(* AsyncWaitForVsync, in the task that RequestFrame posted.                *)
AwaitVSync ==
  /\ ui_pc = "idle" /\ ui_tasks # <<>> /\ Head(ui_tasks) = "await"
  /\ ui_tasks' = Tail(ui_tasks)
  /\ IF animator_alive /\ ~callback_
       THEN /\ callback_' = TRUE
            /\ AwaitUnless(secondary_callbacks_)
       ELSE UNCHANGED <<callback_, awaited>>
  /\ UNCHANGED <<pipelineVars, ui_pc, requests, animatorVars, lifeVars, notify,
                 secondary_callbacks_, fired, dart_paused, rasterVars>>

ScheduleSecondaryCallback ==
  /\ InFramework /\ requests < MaxRequests
  /\ requests' = requests + 1
  /\ ~secondary_callbacks_
  /\ secondary_callbacks_' = TRUE
  /\ AwaitUnless(callback_)
  /\ UNCHANGED <<pipelineVars, ui_tasks, ui_pc, animatorVars, lifeVars,
                 notify, callback_, fired, dart_paused, rasterVars>>

(* FireCallback takes the callbacks under the mutex and posts them after   *)
(* it, on the platform's thread.                                           *)
TakeCallbacks ==
  /\ awaited > 0 /\ fired = {}
  /\ awaited' = awaited - 1
  /\ fired' = {task \in {"vsync", "secondary"} :
                 IF task = "vsync" THEN callback_ ELSE secondary_callbacks_}
  /\ callback_' = FALSE /\ secondary_callbacks_' = FALSE
  /\ UNCHANGED <<pipelineVars, ui_tasks, ui_pc, requests, animatorVars, lifeVars,
                 notify, dart_paused, rasterVars>>

PostCallbacks ==
  /\ fired # {}
  /\ fired' = {}
  /\ dart_paused' = dart_paused + One("vsync" \in fired)
  /\ LET posted == IF "vsync" \in fired THEN Append(ui_tasks, "vsync") ELSE ui_tasks
     IN ui_tasks' = IF "secondary" \in fired THEN Append(posted, "secondary") ELSE posted
  /\ UNCHANGED <<pipelineVars, ui_pc, requests, animatorVars, lifeVars, notify,
                 callback_, secondary_callbacks_, awaited, rasterVars>>

SecondaryTask ==
  /\ ui_pc = "idle" /\ ui_tasks # <<>> /\ Head(ui_tasks) = "secondary"
  /\ ui_tasks' = Tail(ui_tasks)
  /\ UNCHANGED <<pipelineVars, ui_pc, requests, animatorVars, lifeVars, notify,
                 waiterVars, dart_paused, rasterVars>>

-----------------------------------------------------------------------------
(* Rasterizer.                                                             *)

(* The pipeline lives while the animator or a task of the raster thread    *)
(* holds it.                                                               *)
PipelineAlive == animator_alive \/ \E i \in DOMAIN raster_tasks : raster_tasks[i] = "more"

(* Draw begins, in the task of OnAnimatorDraw or in one that Draw posted.  *)
BeginDraw ==
  /\ raster_pc = "idle" /\ raster_tasks # <<>> /\ Head(raster_tasks) \in {"draw", "more"}
  /\ raster_tasks' = Tail(raster_tasks)
  /\ \/ /\ PipelineAlive
        /\ ConsumeTryWait
        /\ raster_pc' = "draw"
     \/ /\ ~PipelineAlive \/ available_ = 0
        /\ UNCHANGED <<pipelineVars, raster_pc>>
  /\ UNCHANGED <<uiVars, retry, more, last_successful_task>>

(* Faulty: one item left is taken for none.                                *)
PopMiscounted ==
  /\ ConsumePop
  /\ more' = (Len(queue_) > 2)
  /\ UNCHANGED <<uiVars, raster_tasks, raster_pc, retry, last_successful_task>>

Pop ==
  /\ ConsumePop
  /\ more' = (Len(queue_) > 1)
  /\ UNCHANGED <<uiVars, raster_tasks, raster_pc, retry, last_successful_task>>

(* DoDraw has run: on success the view's record keeps the layer tree; the  *)
(* frame may have to be submitted again, or is lost (no surface, no GPU,   *)
(* a layer tree of the wrong size).  The consumer looks into the item      *)
(* without asking whether there is one.                                    *)
DoDraw ==
  /\ item # null_item
  /\ ConsumeRelease
  /\ \/ last_successful_task' = TRUE /\ retry' = FALSE
     \/ retry' \in BOOLEAN /\ UNCHANGED last_successful_task
  /\ UNCHANGED <<uiVars, raster_tasks, raster_pc, more>>

(* The consumer dereferences an item that has no frame.  What the other    *)
(* thread does after that is of no meaning.                                *)
Crash ==
  /\ consumer = "running" /\ item = null_item
  /\ raster_pc # "crashed"
  /\ raster_pc' = "crashed"
  /\ UNCHANGED <<pipelineVars, uiVars, raster_tasks, retry, more,
                 last_successful_task>>

(* A frame that is to be drawn again goes back if a place is free, and if  *)
(* no newer one has come in the meantime.                                  *)
Resubmit ==
  /\ \/ retry /\ ProduceIfEmpty
     \/ ~retry /\ ConsumeReturn
     \/ retry /\ empty_ = 0 /\ ConsumeReturn
     \/ ProducerCommitIfEmpty
  /\ UNCHANGED <<uiVars, rasterVars>>

SignalResubmitted ==
  /\ ResubmitSignal
  /\ more' = TRUE
  /\ UNCHANGED <<uiVars, raster_tasks, raster_pc, retry, last_successful_task>>

(* Draw ends; with more to come it posts itself, holding the pipeline.     *)
EndDraw ==
  /\ raster_pc = "draw" /\ consumer = "idle"
  /\ raster_pc' = "idle"
  /\ raster_tasks' = IF more THEN Append(raster_tasks, "more") ELSE raster_tasks
  /\ UNCHANGED <<pipelineVars, uiVars, retry, more, last_successful_task>>

(* DrawLastLayerTrees takes the layer tree out of the view's record, and   *)
(* puts it back when it was drawn.                                         *)
DrawLastLayerTrees ==
  /\ raster_pc = "idle" /\ raster_tasks # <<>> /\ Head(raster_tasks) = "last"
  /\ raster_tasks' = Tail(raster_tasks)
  /\ last_successful_task' \in {FALSE, last_successful_task}
  /\ UNCHANGED <<pipelineVars, uiVars, raster_pc, retry, more>>

-----------------------------------------------------------------------------

UiStep ==
  \/ EndFrame \/ CommitSignal \/ OnAnimatorDraw \/ EndTask
  \/ VsyncWithoutAnimator \/ ReuseLastLayerTrees \/ BeginFrame \/ PipelineFull
  \/ EndVsyncTask \/ AwaitVSync \/ SecondaryTask
RasterStep ==
  \/ BeginDraw \/ Pop \/ DoDraw \/ Crash \/ Resubmit \/ SignalResubmitted
  \/ EndDraw \/ DrawLastLayerTrees
Next ==
  \/ UiStep \/ RasterStep
  \/ BeginTask \/ ScheduleFrame \/ Render \/ ScheduleSecondaryCallback
  \/ DestroyAnimator
  \/ TakeCallbacks \/ PostCallbacks

Spec == Init /\ [][Next]_vars

(* Both runners run their tasks, the framework returns from every task     *)
(* however often it renders in it, and the platform answers every          *)
(* AwaitVSync.                                                             *)
FairSpec ==
  /\ Spec
  /\ WF_vars(UiStep) /\ SF_vars(EndTask \/ EndVsyncTask)
  /\ WF_vars(RasterStep)
  /\ WF_vars(TakeCallbacks) /\ WF_vars(PostCallbacks)

-----------------------------------------------------------------------------

Occurrences(sequence, e) == Cardinality({i \in DOMAIN sequence : sequence[i] = e})

TypeOK ==
  /\ PipelineTypeOK
  /\ ui_tasks \in Seq({"await", "vsync", "secondary"})
  /\ ui_pc \in {"idle", "task", "vsync"}
  /\ requests \in 0 .. MaxRequests
  /\ animator_alive \in BOOLEAN /\ null_item \in 0 .. MaxItems
  /\ pending_frame_semaphore_ \in 0 .. 1
  /\ regenerate_layer_trees_ \in BOOLEAN /\ frame_scheduled_ \in BOOLEAN
  /\ layer_trees_tasks_ \in BOOLEAN /\ notify \in BOOLEAN
  /\ callback_ \in BOOLEAN /\ secondary_callbacks_ \in BOOLEAN
  /\ awaited \in Nat /\ fired \subseteq {"vsync", "secondary"} /\ dart_paused \in Nat
  /\ raster_tasks \in Seq({"draw", "more", "last"})
  /\ raster_pc \in {"idle", "draw", "crashed"}
  /\ retry \in BOOLEAN /\ more \in BOOLEAN
  /\ last_successful_task \in BOOLEAN

(* The semaphore is taken exactly while a request is on its way: as the    *)
(* task that is to await the vsync, as the waiter's callback, or as the    *)
(* vsync task.  A request that is lost on the way leaves the semaphore     *)
(* taken and the animator without frames for ever; two of them draw twice  *)
(* in a vsync.                                                             *)
OneRequestInFlight ==
  animator_alive =>
    pending_frame_semaphore_ + Occurrences(ui_tasks, "await")
      + Occurrences(ui_tasks, "vsync") + One("vsync" \in fired)
      + One(callback_) = 1

(* The waiter awaits one vsync at a time, whoever asked for it, and never  *)
(* none while a callback is registered.                                    *)
OneVsyncAwaited == awaited = One(callback_ \/ secondary_callbacks_)

(* However requests, vsyncs and secondary callbacks fall, "multiple calls  *)
(* to Animator::RequestFrame will still result in a single request to the  *)
(* VsyncWaiter" (animator.cc:251), and the waiter has one AwaitVSync under *)
(* way for all of them.                                                    *)
OneFrameAtATime == OneRequestInFlight /\ OneVsyncAwaited

(* The Dart event loop is paused once for every vsync task that has been   *)
(* posted and has not returned, and for nothing else.                      *)
PausedForVsyncOnly ==
  dart_paused = Occurrences(ui_tasks, "vsync") + One(ui_pc = "vsync")

(* Some Draw is still to look into the pipeline: it is about to be posted, *)
(* posted, under way before its look, or sure to post another.             *)
Draws(tasks) == \E i \in DOMAIN tasks : tasks[i] \in {"draw", "more"}
DrawIsComing ==
  \/ notify
  \/ Draws(raster_tasks)
  \/ raster_pc = "draw" /\ (more \/ consumer \in {"taken", "pushed"})

(* A frame is queued that no Draw comes for.  The frames that follow it    *)
(* are not the first of the queue, and bring no Draw either.               *)
Stalled == animator_alive /\ queue_ # <<>> /\ ~DrawIsComing

(* Only the Draw that looks between the push of a frame and its signal     *)
(* leaves a queued frame without a Draw.  In every other order of commits, *)
(* Draws, resubmissions and dropped frames the posting of Draws (for the   *)
(* first item of a queue, and by Draw itself for what it left) loses no    *)
(* frame.                                                                  *)
StallsInCommitOnly ==
  [][~Stalled /\ Stalled' => producer = "pushed" /\ available_ = 0]_vars

(* A request for a new frame reaches the framework, unless the animator    *)
(* goes first or the pipeline has stalled.                                 *)
RequestsAreServed ==
  regenerate_layer_trees_ ~> ~regenerate_layer_trees_ \/ ~animator_alive \/ Stalled

(* A frame that finds the pipeline empty is consumed, a stall or not: the  *)
(* Draw that is posted for it (animator.cc:153) follows its signal.        *)
FirstFramesAreConsumed ==
  \A n \in 1 .. MaxItems :
    notify /\ queue_ = <<n>> ~> item >= n \/ ~animator_alive

(* animator.cc:149, of a frame that is not the first: "Eventually the      *)
(* 'Rasterizer' will consume it, so we don't need to notify the delegate." *)
FramesAreConsumed ==
  \A n \in 1 .. MaxItems :
    (\E i \in DOMAIN queue_ : queue_[i] = n) ~> (item >= n \/ ~animator_alive)

(* pipeline.h:91, "The continuation is being dropped on the floor": what   *)
(* was dropped is not drawn.                                               *)
DroppedIsNotDrawn == raster_pc # "crashed"
=============================================================================
