# Threads, queues, frames and pointers of the Flutter engine, in TLA+

The repository is Flutter: a Dart framework with its tools, and under
`src/engine/src/flutter` the C++ engine. This project specifies the parts of the
engine where threads meet or where a long protocol has to be kept: the task queues of
`fml`, the loops and the worker pool that run tasks, the merging of the raster and
platform threads, the way of a frame from a request through the vsync, the framework
and the pipeline to the rasterizer, the resize of a window on Windows, and the way of a
pointer event from a window message to the framework. Paths below are relative to
`src/engine/src/flutter`.

TLC checks the modules on small instances; TLAPS proves the safety properties that the
runs check for every value of the constants, some of them under a named hypothesis.

| file | what it is |
| --- | --- |
| `QueueTopology.tla` | which queue owns which: `owner_of`, `subsumed_by`, Merge, Unmerge, Dispose |
| `TaskQueues.tla` | `MessageLoopTaskQueues`: registration, selection, wake-ups, pauses |
| `TaskRunners.tla` | the abstract specification: what posting a task promises |
| `MessageLoop.tla` | the threads around the queues: `MessageLoopImpl`, `MessageLoopLinux`, `Thread` |
| `ConcurrentMessageLoop.tla` | the worker pool, its shutdown and its destruction |
| `ThreadMerger.tla` | `RasterThreadMerger`, `SharedThreadMerger`, the shell's surface handshake |
| `Pipeline.tla` | `Pipeline`, the bounded queue of frames, step by step |
| `FrameLoop.tla` | animator, vsync waiter, pipeline and rasterizer composed |
| `WindowResize.tla` | `FlutterWindowsView` while its window is resized: three threads, surface and frames |
| `PointerDataConverter.tla` | `PointerDataPacketConverter`, for every embedding, and the reader of its stream |
| `WindowsPointers.tla` | the pointer events of the Windows embedding, composed with the converter |
| `*_proofs.tla` | theorems about the module they are named for |
| `Pointers_proofs.tla` | theorems about the converter and the Windows embedding together |
| `MC*.tla`, `*.cfg` | the instances TLC checks |

## 1. The system

### Components, their state and their operations

**Task queues** (`fml/message_loop_task_queues.cc`, `task_source.cc`, `delayed_task.cc`).
A process-wide singleton maps each `TaskQueueId` to an entry: a `TaskSource` with a
primary and a secondary heap, the set `owner_of`, the id `subsumed_by`, the `Wakeable`
of the loop, and observers. Every public method takes `queue_mutex_` for its whole
body. *Correct when:* the two halves of ownership agree after any sequence of merges,
unmerges and disposals; tasks of one source start in (target time, registration)
order and once each, whatever is merged; the loop that has to run a task has been
asked to wake in time for it.

**Message loops and threads** (`fml/message_loop_impl.cc`, `thread.cc`,
`platform/linux/message_loop_linux.cc`). A thread waits on one timer, flushes what is
expired in its queue *and the queues it owns*, and leaves when a task has called
`Terminate`. State: `running_`, `terminated_`, `joined_`, the timer. *Correct when:* no
thread sleeps past a task it has to run; tasks of one queue do not overlap except
across a merge; a joined thread exits; no task is stranded.

**Raster thread merger** (`fml/raster_thread_merger.cc`, `shared_thread_merger.cc`).
One `RasterThreadMerger` per engine with its mutex and condition variable, and one
`SharedThreadMerger` per pair of threads with another mutex and the lease of each
engine. *Correct when:* the queues are merged exactly while a lease is left; a frame
is drawn on the thread that owns rasterizing; nothing is merged while disabled; its
`FML_CHECK`s hold.

**Surface handshake** (`Shell::OnPlatformViewCreated`, `OnPlatformViewDestroyed`). The
platform thread disables the merger, sends a task to the raster thread, which enables
it, and on destruction waits on a latch for that task. *Correct when:* the latch is
always released, that is, the raster queue never comes to the waiting thread.

**Frame pipeline** (`shell/common/pipeline.h`). Two counting semaphores around a deque
that alone is under a mutex. *Correct when:* places are conserved, no `front()` of an
empty deque, frames in order even when one is resubmitted.

**Animator** (`shell/common/animator.cc`). `pending_frame_semaphore_`,
`regenerate_layer_trees_`, the continuation, the layer trees of the frame. *Correct
when:* one request is in flight at a time and each reaches the framework.

**Vsync waiter** (`shell/common/vsync_waiter.cc`). `callback_` and
`secondary_callbacks_` under one mutex; pausing the Dart event loop. *Correct when:* one
vsync is awaited for both kinds, and every pause is undone by the vsync task.

**Rasterizer frame protocol** (`shell/common/rasterizer.cc`). `Draw` consumes one frame,
puts it back if it must be retried and posts itself if there is more. *Correct when:*
a frame in the pipeline always has somebody who is going to draw it.

**Shell and engine** (`shell/common/shell.cc`, `engine.cc`): creates the others on their
threads, tears them down through latches and merges the UI queue into the platform's.
Modelled: the tasks the shell posts between the parts above, the surface handshake, the
metrics of a view, and the coming and going of views. *Correct when:* creation and
destruction end, and shells that share threads agree on who draws where.

**Concurrent message loop** (`fml/concurrent_message_loop.cc`). Workers share `tasks_`,
each has a list of `thread_tasks_` besides; one mutex, one condition variable,
`shutdown_`. Runners hold the loop weakly; who lets go of it last destroys it. *Correct
when:* an accepted task runs once, nobody sleeps on work, the destructor returns.

**Window resize** (`shell/platform/windows/flutter_windows_view.cc`,
`compositor_opengl.cc`). `resize_status_`, `resize_target_*` and `surface_` under
`resize_mutex_`; the platform thread blocks in `OnWindowSizeChanged` until the raster
thread has presented a frame of the new size; the shell discards frames of other sizes.
*Correct when:* the surface is not replaced while the platform thread uses it, the wait
ends, and the window at rest is filled.

**Pointer data converter** (`lib/ui/window/pointer_data_packet_converter.cc`). A state per
device; completes what embeddings leave out so that the framework gets "a clean pointer
data stream". *Correct when:* the stream satisfies the framework's assertions and its
reader always agrees with `states_`.

**Pointer events of the Windows embedding** (`flutter_window.cc`,
`direct_manipulation.cc`, `flutter_windows_view.cc`). A state per view and device; the
mouse has one device id in all windows. *Correct when:* what is sent is what the converter
expects, with windows that come and go and packets that are overtaken.

Not modelled: `SyncSwitch` and the latches themselves, the Skia unref queue, the resource
handling of Impeller's Vulkan backend, the Dart isolates (their state machine is driven by
a VM that is not in the repository), the service protocol (a table behind a lock), the
other platform embeddings (glue to operating systems), rendering and text (sequential
computations), the framework, tools and packages (another program, in Dart).

### How they interact

* By **task posts**: the animator posts to the UI runner, the vsync waiter posts to
  it from the platform's thread, `Shell::OnAnimatorDraw` posts to the raster runner,
  the rasterizer posts to itself.
* By **shared queues**: a merge changes, under a running loop, which thread starts the
  tasks of a runner.
* By **shared data under several locks**: the pipeline (two semaphores and a mutex), the
  merger (a mutex per engine and a shared one).
* By **latches and waits**: the platform thread waits for raster tasks, and for frames of
  the new size of a window.
* By **callbacks**: the platform answers `AwaitVSync` with `FireCallback`.

### Where it is hard

Tasks overlapping across a merge; timers that each request overwrites; a flag read
outside the lock that guards what it protects (`terminated_`, `enabled_`); a push and
its signal in two steps; a latch held by the thread to which the awaited task is moved;
leases of several engines ended in any order; frames resubmitted against newer ones;
a wait that is only over when another thread has used the waiting one; a device that two
windows and two ends of a queue of packets know each in its own way; destruction with
posted tasks under way. `PROJECT.json` lists each at its line.

## 2. The modules and the code

**QueueTopology** holds the operators for the topology alone so that both `TaskQueues`
and `ThreadMerger` use the same definitions. One operator per method; a method that
refuses (returns false) changes nothing and is a stutter.

**TaskQueues** has one action per public method: each is one critical section. A task is
a record of its order number, target time and grade; the two heaps are one set, told
apart by grade. `wake[q]` is the time the loop of `q` was last asked to wake at: every
implementation of `WakeUp` re-arms a single timer, so the last request stands.
`GetNextTaskToRun` re-arms for the task it is about to pop, as the code does.

**TaskRunners** is the promise to whoever posts: per source, tasks are started once, in
order, or dropped. Merging and wake-ups are invisible. `ImplementsTaskRunners` is the
refinement, with `task_source`, `pauses`, `order_` as the abstract variables.

**MessageLoop** gives each queue a thread: `OnEventFired` (the timer), `StartTask` and
`RunPlain`/`RunResume`/`RunTerminate` (one iteration of `FlushTasks`, split where the
closure runs), `KeepRunning`, `BeginDrain`, `EndDrain`, `DropTasks` (the tail of `Run` and
`DoRun`), `DestroyLoop`. `PostTask` is two steps, since `terminated_` is read before the
queue mutex is taken. `Tick` lets time pass. Who merges is taken from the two callers: a
queue is merged by a task of its own on its own thread (`Engine::Run`; `Rasterizer::Draw`,
which yields elsewhere while the queues are apart), and taken back on the owner's thread, in
a plain task or outside of any, but never while that thread resumes the Dart event loop.

**ThreadMerger** follows two threads through `Rasterizer::Draw` and the shell's surface
tasks, reduced to their calls of the merger. A labelled step is what is done between
two lock operations. `own[m]` and `shared` are the two kinds of mutexes; the lock order
(own, then shared) is the code's. `posted` is the raster queue as far as the shell's
tasks are concerned.

**Pipeline** splits `Produce`, `Complete`, `Consume` and `ProduceIfEmpty` at every
semaphore or mutex operation. Items are numbered as they are produced.

**FrameLoop** `EXTENDS Pipeline` and conjoins its steps with those of the threads that
take them: `EndFrame` with `ProducerCommit`, `BeginDraw` with `ConsumeTryWait`,
`Resubmit` with `ProduceIfEmpty` and `ProducerCommitIfEmpty`. Runners are FIFO sequences
of tasks; the destruction of the animator may come between any two tasks.

**ConcurrentMessageLoop** has one step per critical section and one per task that
returns; `NotifyOne` is a step of its own, since `PostTask` signals with the mutex
unlocked. Who holds the loop is state (`owned`, `posting`), so that `LetGo` can make any
thread the one that runs the destructor.

**WindowResize** follows three threads. The platform thread goes through
`OnWindowSizeChanged` in the steps that other threads can fall between: the unlocked look
at the surface, the start of the resize, the metrics, the expected size, and the
loop that reads the status and polls tasks. `merged` says whether the UI runner is the
platform thread's; then its tasks run only where the platform thread runs tasks. The
way from `ScheduleFrame` to the pipeline, which `FrameLoop` treats, is one task here.

**PointerDataConverter** has one action per case of `ConvertPointerData`. Beside it stands
`reader`, what somebody who reads all packets knows: it is updated by the events alone
(`Receive`, and `Reading` for the events of a packet one after the other), in the terms of
the assertions in the framework's `binding.dart` and `mouse_tracker.dart`. `Expected` is an
embedding that respects the converter's `FML_DCHECK`s and the rules of `embedder.h`.

**WindowsPointers** `EXTENDS` it: each window message is an action that changes the state of
its view and posts packets to `inbox`; `DispatchPointerDataPacket` hands the first to
`ConvertPointerData`. Views are created and destroyed on the platform thread, at once when
the UI thread is the same, so that `AddView` and `RemoveView` overtake packets.
`ImplementsEmbedding` says that this embedding refines `ConverterSpec`.

In front of some definitions stands a *faulty* twin ("Faulty: ..."): the definition with
a plausible mistake in it. No specification uses them; substituting one must violate
the property that `PROJECT.json` pairs it with, which shows that the property would
notice.

## 3. What is checked

"Depth" of an interleaving is not bounded: only counters are, by the constants named
here. `CHECK_DEADLOCK FALSE` everywhere, because a behaviour ends when its bounded
inputs are used up; that threads are not stuck is stated by the liveness properties.

### Runs that pass

**TaskQueues** -- three queues, three tasks at two target times, two grades, one open
pause. `MergeTopology` (documented invariants for merge and unmerge, and no entry that
names an erased one), `WakeRequested` and the refinement `ImplementsTaskRunners`. Three
queues are the least in which every refusal of Merge and Unmerge occurs (an owner of two; a
subsumed queue offered a queue; a queue another has taken). Two times and three tasks give
ties, and a tie between sources of one owner. Symmetry over the queues is sound: no queue
is named in the specification.

**MessageLoop** -- two loops, one poster, three tasks at two target times, two merges or
unmerges, one pause, fair threads. `NoLostWakeup`, `OverlapOnlyAfterMerge`, `TasksAreRun`,
`JoinedThreadExits`. Three tasks are the least for `OverlapOnlyAfterMerge` to have a case:
one merges and two then overlap. Two merges or unmerges give a merge and its undoing; tasks
post too, so that a post can race the termination that another asks for. 511,449 states in
some three minutes, most of it for liveness. No symmetry, as it is unsound for liveness. The
bound on merges once hid an error in the model: when any plain or vsync task could merge any
queue, `NoLostWakeup` held with two merges and failed with more (a queue taken back and
merged again by a leftover task on its former owner, while its own thread was resuming the Dart
event loop). The attempt to prove it showed that; the guards are now those of the callers.

**ThreadMerger** -- one engine, eight draws, two changes of its surface, a thread in
`WaitUntilMerged`. `NoAbort`, `NoChangeWhileDisabled`, and under fairness `TasksEnd`,
`LatchIsReleased`. Eight draws at a lease of three let a lease run out, be renewed and run out
again. `OverlapAssumption` is at work here: see "Assumptions about callers and timing".

**ThreadMergerShared** -- three engines, ten draws, three changes of surfaces, which may be
destroyed early. `LeasesMatchQueues`: outside the shared mutex the queues are merged
exactly while some lease is left. With three, one lease may end while two go on, and the
engine that unmerges need not be the one that merged.

**FrameLoop** -- depth two, three items, two tasks of the framework. `PlacesConserved`,
`OneFrameAtATime`, `PausedForVsyncOnly`, `NeverBackwards`, `StallsInCommitOnly`, and under
fairness `RequestsAreServed` and `FirstFramesAreConsumed`. Three items fill the pipeline with
one being consumed. A `Draw` may begin at any moment, between a push and its signal too, and a
frame may then be left in the pipeline (see `FrameLoopStall`). `Stalled` names that state, which
lasts as long as the animator does; `StallsInCommitOnly` says that no other step leads to it, and
`RequestsAreServed` exempts it, since a stalled pipeline stays full and no further frame begins.
`FirstFramesAreConsumed` needs no exemption: the `Draw` for a frame that was pushed to an empty
pipeline is posted after its signal.

**ConcurrentMessageLoop** -- two workers, a client, three tasks, one broadcast, fair
threads. `TaskInOnePlace`, `NobodySleepsOnWork`, `TasksAreRun`, `BroadcastsReachAll`,
`DestructorReturns`. Three tasks are one more than there are workers, which is what the
shutdown can drop; the exception in `TasksAreRun` allows no more than the tasks beyond the
first of each worker.

**WindowResize** -- three sizes, one of them empty and two oblong, two resizes, one timeout, one
failing call, a pipeline of two, both policies. `BlockedWhileNotDone`, and under fairness
`WaitEnds`, `WindowIsFilled`. Two resizes let frames of the size before the last arrive in every
state of the second. A window is filled by a frame of its size on a surface of its size; only where
empty frames are drawn, which leave it with width and height exchanged (see the disagreements),
that surface counts as well.

**PointerDataConverter** -- a touch device and a trackpad, two views, two locations, two
pans, three contacts or gestures. `ReaderAgrees`, `StreamIsLegal`, `LocationIsContinuous`.
Two locations make every synthesized event occur, two views every change of a view; three
contacts let a device be added again, between two restarts.

**WindowsPointers** -- two windows, the second of which comes and goes, a mouse with two
buttons, touch, a trackpad per window, two packets under way. `AssertionsHold`, `EndsAgree`,
`ImplementsEmbedding`. Two packets are an add with its event, and so the longest that a
removal of a view can split. With three (963,826 states) it passes as well.

### Runs that show a disagreement

Each checks one statement of a comment, an assertion or a test against what the code does.

* **ThreadMergerLease**: `FML_CHECK(lease_term > 0)` "should always be positive when
  merged" (`shared_thread_merger.cc:59`). The lease of one engine can be counted down to
  zero while a sibling's keeps the threads merged; its next decrement aborts.
* **FrameLoopStall**: "Eventually the 'Rasterizer' will consume it" (`animator.cc:150`), of a
  frame that is not the first of the pipeline. A `Draw` between the push and the signal of its
  commit (`pipeline.h:227-233`) finds nothing, and nobody posts another, neither for this frame
  nor for those that follow it, which are not the first either.
* **WindowsPointersRestart**: "Makes sure we have an existing pointer"
  (`pointer_data_packet_converter.cc:121`). A hot restart starts with an empty converter,
  while the views keep `flutter_state_is_added`: the next `WM_MOUSELEAVE` removes a device
  the converter does not know, and a release build goes on with the end of the map. TLC's
  shortest trace has the trackpad instead, restarted between the add and the begin of a gesture,
  so that the gesture goes on in a converter that has not seen it begin; the cause is the same.

### Disagreements noted and not kept as runs

The definitions are in the modules, and the instance that shows each is given here.

* **A draw that yields with one engine.** `rasterizer.cc:549-564` describes how the end of a draw
  unmerges the threads under the next one, which "yields as its on the wrong thread", and posts a
  draw for it. `OverlapAssumption` excludes this: with the code's lease of ten, ten draws of the
  platform thread have to begin during the rest of one on the raster thread. With the assumption
  relaxed to `MaxOverlap \in Nat` and `MaxOverlap = 3`, such draws yield in `ThreadMerger.cfg`, and
  in `ThreadMergerShared.cfg` one that had already passed its check extends the lease of threads
  that are apart, which violates `LeasesMatchQueues`. With `MaxOverlap = 2` (nine draws) the
  teardown of a surface that has found the threads merged may unmerge them once more:
  `ThreadMerger.cfg` violates `NoAbort`.
* **A draw that yields with two engines.** `IsOnRasterizingThread` "Returns true if the current
  thread owns rasterizing. When the threads are merged, platform thread owns rasterizing"
  (`raster_thread_merger.h:87`). `SharedThreadMerger` merges the queues, and so wakes the
  platform thread, before it records the lease (`shared_thread_merger.cc:28-31`); a draw of a
  sibling engine, which asks under a mutex of its own, yields on the platform thread although
  that runs the raster queue. The shell ignores `kYielded`, and nobody posts another draw.
  `ThreadMergerLease.cfg` with the property `YieldsOnlyWhenMoved` fails.
* **A surface with its sides exchanged.** "Verify that an empty frame completes a view resize"
  (`flutter_windows_view_unittests.cc:962`). `OnEmptyFrameGenerated` passes height and width
  in the wrong order (`flutter_windows_view.cc:143`, against `:732`); the test resizes to a
  square. The surface stays so until the window is resized again, as no later frame changes it.
  `WindowResize.cfg` with the invariant `ResizedToTarget` fails.
* **A wheel without a mouse.** `FML_DCHECK(!state.is_down)`
  (`pointer_data_packet_converter.cc:172`). A wheel message may go to the window with the focus,
  which the mouse is not in (`flutter_window.cc:656`). The view adds the mouse there and never
  removes it, as only `WM_MOUSEMOVE` asks for a `WM_MOUSELEAVE`; when the mouse, added and pressed
  in another window since, comes over, the view takes it for added and hovers with it.
  `WindowsPointers.cfg` with `WheelToFocus = TRUE` violates `AssertionsHold`.
* **A latch held for ever.** `Disable` is to prevent any change of the threads while a view
  is being destroyed (`shell.cc:996`). It takes the shell's own mutex, so a sibling's merge
  past its check of `enabled_` moves the queue to the thread that waits. `ThreadMerger.cfg`
  with two engines violates `LatchIsReleased`.
* **A null frame.** "The continuation is being dropped on the floor" (`pipeline.h:91`). It
  commits a null item, which a posted `Draw` that holds the pipeline dereferences:
  `FrameLoop.cfg` with the invariant `DroppedIsNotDrawn`.
* **A window not filled after a timeout.** The status stays "started", its target with it,
  and a frame that comes late may answer another resize. `WindowResize.cfg` with
  `FilledAfterTimeout`, `MergedUI = {TRUE}`, `MaxFailures = 0` fails.
* **A move without its identifier.** The converter "fills in" the identifier
  (`pointer_data_packet_converter.h:47`), but the move that it synthesizes before a signal
  of a device that is down is a copy of the signal, which has none
  (`pointer_data_packet_converter.cc:363`). `PointerDataConverter.cfg` with
  `IdentifiersAreFilledIn` fails.
* `ResumeSecondarySource` of a subsumed queue wakes no loop
  (`message_loop_task_queues.cc:331`). The only caller does so inside a task, whose flush
  goes on. `TaskQueues.cfg` with `ResumeWhileSubsumed = TRUE` violates `WakeRequested`.
* A surface destroyed before the raster thread has run the task that sets it up: that
  task enables the merger again (`shell.cc:936`), and a draw may merge the queue into
  the waiting thread. `ThreadMerger.cfg` with `DestroyEarly = TRUE` and three changes of
  the surface violates `LatchIsReleased`.
* `WaitUntilMerged` is told only by its own engine's merges (`raster_thread_merger.cc:74`).
  With two engines `WaitEndsWhenMerged` fails.
* A worker that posts while everybody else has let go of the pool becomes the one that
  destroys it and joins itself. `ConcurrentMessageLoop.cfg` with `WorkerMayBeLast = TRUE`
  violates `DestructorReturns`. In the engine the VM data keeps the loop.
* Tasks beyond the first of each worker are dropped when the pool shuts down, although
  `PostTask` runs late ones itself: "Don't just drop tasks on the floor in case of
  shutdown" (`concurrent_message_loop.cc:52`).
* With separate threads the shell expects the new size only after it has posted the
  metrics (`shell.cc:1095-1106`): the right frame may be discarded in between, and the wait
  ends by its timeout. After a failed swap the status stays "generated" until another frame
  is presented. `Smooth` exempts both.
* Two windows that are touched at once share device id 0 (`flutter_window.h:357`), as each
  window numbers its touches by itself. `OnTouchDown` leaves this out.
* In the converter: `Move` stores the state before the buttons of the event; an add after the
  old view of a device that is down has gone sends no cancel; a signal during a pan and
  zoom gesture sets the pan to 0, and a remove does not end the gesture. `Expected` excludes
  the latter two.
* A post that read `terminated_` before the loop set it registers its task after the
  pending ones were dropped, although the flag is set first "so we don't accrue
  additional tasks now" (`message_loop_impl.cc:102`).
* `inflight_` is not counted down when a resubmission loses to a newer frame
  (`pipeline.h:244`). It is only traced.
* `frame_scheduled_` stays set after a vsync that only drew the last layer trees
  (`animator.cc:228`), and a failed redraw loses `last_successful_task`
  (`rasterizer.cc:227`).
* `OnDwmCompositionChanged` posts a raw pointer to the surface, which a resize may have
  replaced when the task runs (`flutter_windows_view.cc:828`).

### Fairness, and why it may be assumed

Weak fairness of the steps of each thread: the operating system schedules them, and a
mutex that is free again and again is got (critical sections here are short and their
holders do not wait for the waiter). `Tick`: time passes. In `FrameLoop`: the platform
answers each `AwaitVSync` and the framework returns from each task; the latter is strong
fairness, because a task may render again and again, which disables its end for a
moment each time. In `WindowResize` the tasks of the UI runner are strongly fair: on a
merged thread they come from the queue that holds the platform's own tasks, and both get
their turn whenever the thread polls. In `ConcurrentMessageLoop` the destructor calls
`Terminate`. Nobody is assumed to post, merge, draw, join, resize or request anything.

### Assumptions about callers and timing

They are guards or named assumptions in the modules, taken from the callers in the
repository:

* a queue is merged by one of its own tasks and unmerged on its owner's thread, and is
  not merged when it is joined (`~Shell` unmerges first);
* the resumption of the Dart event loop is a task of the queue that was paused;
* `OverlapAssumption`: the rest of the task that has merged takes less time than the
  frames of a lease. The code's lease is ten frames (`kDefaultMergedLeaseDuration`); the
  instances use three, and one overlapping draw. Nothing in the code sees to it, and it excludes
  the scenario for which `rasterizer.cc:549-564` enqueues a draw: see the disagreements above;
* `DestroyEarly = FALSE`, but for `ThreadMergerShared`; `WorkerMayBeLast = FALSE`: see above;
* engines begin with a surface and a merger, windows with a surface of their size;
* `Smooth`: what `WaitEnds` and `WindowIsFilled` claim, they claim of merged threads (the
  default on Windows) while no wait times out and no call of EGL fails. `InTime`:
  `BlockedWhileNotDone` is claimed, with any policy and failures, until a wait times out;
* `RestartAnyTime = FALSE`: a hot restart finds no device added; see `WindowsPointersRestart`;
* `WheelToFocus = FALSE`: the wheel is turned in the window under the mouse, the default of
  Windows since its version 10; see the disagreements above;
* the leave of a mouse carries the mouse's mark: `flutter_window.cc:580-591` drops a
  `WM_MOUSELEAVE` that carries that of touch or of a pen, and the mouse would stay added in the
  window it has left, with the consequences that the wheel has;
* Windows sends `WM_MOUSEMOVE` first to a window the mouse comes to, `WM_MOUSELEAVE` later to
  the one it has left, and no mouse message elsewhere while a window has captured it;
* a viewport of DirectManipulation reports content only while it runs, or in its inertia.

## 4. What is proved

Under the `ASSUME`s of the modules: queue ids differ from `kUnmerged`, times are natural
numbers, the bounds are natural numbers, the depth is at least one, there is a worker, and
`OverlapAssumption`. `LoopAssumption`: the times are the ticks of the clock up to a last one,
there is a grade besides that of the Dart event loop, and what stands for "no task" is no
task. `ConverterAssumption`: places and pans are integers, there is a place and a pan of 0.
`WindowsAssumption`: the mouse, touch and the trackpad of each window are different devices.
In the code they are: an id holds the kind of device in its upper bits
(`flutter_windows_view.cc:411`), and for a trackpad the lower half of the address of the
window's handler below them (`direct_manipulation.cc:30`), which only far apart addresses share.

Two questions are answered under a hypothesis of the theorem itself, because the answer is
no without it, as a run or a noted instance shows: one engine per merger
(`OneEngineIsSafe`), and no hot restart while devices are added and no wheel elsewhere than under
the mouse (the Windows theorems). One more, `~ResumeWhileSubsumed`, is that of the run, for the
same reason.

**Task queues** (`NoTaskIsSleptThrough`, `TopologyKept` in `TaskQueues_proofs`): for any queues,
grades, times and number of tasks, as long as `ResumeWhileSubsumed` is FALSE, `TQTypeOK`,
`MergeTopology`, `OrdersUnique` and `WakeRequested` always hold; `MergeTopology` holds whoever
resumes what. The invariant is `TQInv`: the topology is well formed; sources hold tasks whose
orders are unique and less than `order_`; and `WakeBefore`, that for *every* pending task, not
just the first, the responsible loop is armed no later than its time. `WakeRequested` is not
inductive by itself: after a task is popped the first one is another. `TopExists` shows that a
non-empty heap has a least task although target times may be any set of natural numbers,
and rests on the well-foundedness of the naturals. There is one lemma per operation;
merge and unmerge share `RearrangementKeeps` (those woken are on time, the others have no
more to do than they had), pause and dispose share `LessToDo`. The lemmas are about
`TQInvFor(W)`, in which only the loops of the set `W` need be armed, so that the message loops
can use them. `QueueTopology_proofs` has the lemmas on the topology, which the mergers need
as well.

**Refinement** (`TaskQueuesImplementTaskRunners` in `TaskQueues_proofs`):
`TQSpec => ImplementsTaskRunners`, with no condition on who resumes what. The invariant
is the part of `TQInv` that leaves the timers out (`SourcesStep`). The step that matters is
`GetNextTaskToRun`: it looks at the top of *everything* the loop runs and then pops the
top of *one heap*; `TopOfItsHeap` shows that the two are the same task, so that a merged
loop starts the task its source would have started. Registration maps to Post, disposal
to Drop, and merging and unmerging to stutters.

**Message loops** (`LoopsMissNoTask`, `LoopsImplementTaskRunners` in `MessageLoop_proofs`):
for any number of loops, posters, tasks, merges and pauses, `NoLostWakeup` and
`OverlapOnlyAfterMerge`. `LoopInv` is `TQInvFor(Waiting)`, since the timer of a loop that
runs may well be late, and: a loop that waits has not been terminated (`WaitsRunning`); what
a thread runs was registered before (`TaskKnown`); and `SourceHeld`, that a queue stays
with the thread that runs a task of it until something is merged or taken back, and that it
stays in any case while the task resumes the Dart event loop. Without the last, a resumption
could wake the wrong loop; it was in the attempt to prove it that the guards of the model
turned out too generous (see the run). Every step of the threads is one operation on the
queues or leaves alone what a task runner sees (`StepIsOneOperation`), so that the
refinement of `TaskRunners` carries over to them; `MessageLoop.cfg` does not check it again.

**Pipeline** (`PipelineAccounts`, `PipelineOrder` in `FrameLoop_proofs`): for every depth and
number of items the type invariant, `PlacesConserved` and `ItemsAccounted` hold
(`Accounts`: the three hold one another up, since an item may be popped only because one
is accounted for), and from them `QueueInOrder` and the action property `NeverBackwards`.
The strengthening `Ordered` says that the item in hand is older than everything queued.

**Frame loop** (`FrameLoopKeepsOrder`, `OneFrameRequested`, `DrawsSuffice` in `FrameLoop_proofs`):
the steps of the threads are steps of the pipeline or leave it alone, so that the pipeline's
theorems carry over. That one frame is requested at a time and the Dart event loop paused for
vsyncs only are inductive together with the types (`RequestInv`), as each request is counted in
one place: the semaphore, the task that awaits, the waiter's callback, the vsync task. There are
lemmas on how often a task occurs in the UI runner's queue, which need no induction.
`StallsInCommitOnly` is about single steps and rests on what holds between them (`StallInv`):
the accounting of the pipeline, that whoever has taken a frame is inside a `Draw`, and that what it
took is a frame as long as the animator lives, which alone commits items without one
(`DrawUnderWay`). The step that matters is a `Draw` that finds `available_` at 0 although frames
are queued: by the accounting one of them lacks its signal, so the producer is at its push.

**Raster thread merger** (`LeasesAndQueuesAgree`, `OneEngineIsSafe` in `ThreadMerger_proofs`):
for any number of engines, any lease, and surfaces destroyed whenever, `LeasesMatchQueues`
always holds. It is far from inductive. `MergerInv` adds who holds the shared mutex where
(`SharedIsHeld`), that the platform thread draws only what is lent to it (`PlatformPlaces`), that
the raster thread is in no new draw while the queues are merged (`RasterPlaces`), and what the
whole rests on, `LeaseOutlastsOverlap`: the draws that the platform thread may begin while the
raster thread still ends the draw that merged cannot spend the lease before that draw has
counted it down. There `OverlapAssumption` is used. Most steps only move a thread, and
`MoveKeeps` treats them at once; the steps on the leases and the queues have a lemma each.
`NoAbort` and `NoChangeWhileDisabled` are true of one engine alone, whose mutex then covers the
gap between the merge of the queues and the record of the lease:
`SoleInv` adds who holds that mutex (`MutexIsHeld`), that the merger is enabled meanwhile
(`EnabledWhileLocked`), what a draw that has found the queues merged may rely on
(`FoundMerged`), that no draw yields (`DrawNeverYields`, true under `OverlapAssumption` only), and
that the raster queue owns nothing.

**Worker pool** (`PoolNeverSleepsOnWork`, `EveryTaskInOnePlace` in
`ConcurrentMessageLoop_proofs`): for any pool and any clients, whoever is the last to let go of
it. `PoolInv` adds that a thread inside `PostTask` has a task and that a worker does not misread
`shutdown_`. The step that matters is `NotifyOne`: the signal that was the reason for sleepers
to be tolerated is given up only when it has woken one, or when nobody slept. `TaskInOnePlace`
counts with cardinalities; its proof says the same without (`PlacesInv`: of each
task, that it is posted by one thread at most, queued once at most, taken by one worker at
most, in one kind of place at most, and somewhere if it was posted).

**Window resize** (`PlatformIsBlocked`, `SurfaceOfResize` in `WindowResize_proofs`): for any
sizes, policy, depth and bounds, `BlockedWhileNotDone` holds.
`WaitsUnlessDone` carries it through the steps between the start of a resize and the wait: a
thread that is not going to wait has not started a resize. What `ResizedToTarget` claims is false
of an empty frame (see the disagreements), and `ResizedUpToSwap` says how far it is true: when a
frame is about to complete a resize, the surface has the size of the window, or that with width
and height exchanged.

**Pointer converter** (`ReaderKnowsTheDevices`, `StreamIsClean` in `Pointers_proofs`): for any
devices, views, places, pans and number of contacts, with restarts. `ConverterInv` says that
the reader knows the same devices, and of each what the converter keeps in `states_`
(`Seen`). A packet has three events at most, so the fold of the reader over a packet is unfolded
rather than inducted over. Each case of `ConvertPointerData` has a lemma: what the packet is,
that each event is legal after those before it, and that the reader has followed.

**Windows pointers** (`EndsStayTogether`, `WindowsIsAnEmbedding`, `WindowsStreamIsClean` in
`Pointers_proofs`): for any windows, devices and length of the queue, with windows that come and
go and packets overtaken by it. The two ends never agree while packets are under way, so the
invariant cannot compare them; `WindowsInv` says that there is a *trace* that leads from one to
the other: for every number of packets taken, how each window would see each device then (`none`,
`up`, `down`, in a gesture). Each packet is a legal step of the trace (`Fits`); it begins with what
the converter knows (`Begins`) and ends with what the windows have recorded (`Traced`). A device
may be with one window for the converter, and with another for a packet further on, and the views
removed in between have left packets that must be ignored: `Current`, `Later`, `Sent`, `Removed`
and `ComesByAdd` say in which order the windows of a device come. TLC checked `WindowsInv` before
it was proved. `SendKeeps` extends the trace, `TakeKeeps` shifts it (`ShiftKept`), `LeaveKeeps` is
for a view that goes; the actions of the windows are uses of these. The two specifications are
proved together: what the converter does with the first packet depends on `ConverterInv`, which
holds because the step so far was one that it expects (`WindowsStep`).

Only model-checked: all liveness (`TasksAreRun`, `JoinedThreadExits`, `TasksEnd`,
`LatchIsReleased`, `RequestsAreServed`, `FirstFramesAreConsumed`, `BroadcastsReachAll`,
`DestructorReturns`, `WaitEnds`, `WindowIsFilled`), which is out of the prover's reach.

## 5. Not modelled, and why

Task observers, trace flow ids, frame timings, idle notifications and logging change
nothing that the properties speak of. `RunSingleExpiredTaskNow` differs from
`RunExpiredTasksNow` only in stopping after a task. The loops of other platforms share
`MessageLoopImpl`, and each has one timer that `WakeUp` re-arms. The merge/unmerge
callback and the statically merged configuration (in which every merger operation is a
no-op) are left out of `ThreadMerger`. Views are one in `FrameLoop`, as all are drawn by one
`Draw`, and in `WindowResize`. The order counter is unbounded in the model; in the code it
wraps at 2^32. Reading the lease map under the wrong mutex, and erasing an expected size
without one (`shell.cc:2152`), are data races in C++; the models treat maps in one step.

In `WindowResize` rendering is OpenGL; the software compositor presents without a surface to
resize. In the pointer modules buttons (but for those that decide a phase), time stamps, and
the data that is passed on unread are left out; x and y are one number, and so are pan,
scale and rotation. Mouse messages that Windows makes of touch or of a pen are ignored by
the code, and so not among the actions. The smooth pointer data dispatcher is used on iOS
only.

The creation, destruction and spawning of shells wait on chains of latches over four
threads that would have to be modelled with the whole of the engine's set-up; the Android
embedder's latch to the platform thread (`external_view_embedder.cc:274`) belongs with them.
`SyncSwitch`, the Skia unref queue and the Vulkan backend act on GPU contexts about which
the code says too little to state more than their locking.

## 6. Plan

Done: task queues with their proof and refinement, loops, worker pool and its proof, merger
with the surface handshake and its proof, pipeline and its proofs, frame loop, window resize
and its proof, pointer converter and the Windows embedding that uses it with their proofs. No
safety property that a passing run checks is without a theorem.

What a continuation would take up, in this order:

1. *Merger and frames composed*: `ThreadMerger` with `FrameLoop`'s draws, so that the
   second draw on the platform thread meets the first one's embedder (`rasterizer.cc:634`).
2. *Life cycle of the shell*: creation and destruction across four runners with their
   latches, and the merge of the UI queue.
3. *Further theorems*: what is left of `NoChangeWhileDisabled` with several engines, and of
   `ReaderAgrees` when a hot restart finds devices added.
