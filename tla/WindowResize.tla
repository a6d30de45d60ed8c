----------------------------- MODULE WindowResize -----------------------------
(***************************************************************************)
(* Resizing a window on Windows: FlutterWindowsView, which blocks the      *)
(* platform thread until a frame of the new size is on the screen, the     *)
(* compositor that presents frames on the raster thread, and the shell,    *)
(* which hands the metrics to the framework and discards frames of         *)
(* another size (shell/platform/windows/flutter_windows_view.cc,           *)
(* compositor_opengl.cc, shell/common/shell.cc, rasterizer.cc).            *)
(*                                                                         *)
(* The UI thread is the platform thread unless a policy says otherwise; a  *)
(* blocked platform thread still runs its tasks.  The way of a frame       *)
(* through animator and vsync is one task here, and the pipeline a queue   *)
(* (see FrameLoop).  Rendering is OpenGL and the view is one.              *)
(***************************************************************************)
EXTENDS Naturals, Sequences

CONSTANTS
  Size,          \* pairs of a width and a height, of windows and of frames
  MergedUI,      \* the policies: is the UI thread the platform thread?
  Invalid,       \* the size of a surface that could not be created
  MaxResizes,    \* bound: changes of the window's size
  MaxTimeouts,   \* bound: waits that kWindowResizeTimeout ends
  MaxFailures,   \* bound: calls of EGL that fail
  Depth          \* frames that the pipeline holds

ASSUME ResizeAssumption ==
  /\ Size \subseteq Nat \X Nat /\ MergedUI \subseteq BOOLEAN /\ Invalid \notin Size
  /\ {MaxResizes, MaxTimeouts, MaxFailures, Depth} \subseteq Nat

Empty(size) == size[1] = 0 \/ size[2] = 0
Swapped(size) == <<size[2], size[1]>>

VARIABLES
  window,                 \* the size of the window
  merged,                 \* the policy
  surface_,               \* the size of the surface
  resize_status_, resize_target_,
  platform,               \* where the platform thread is in OnWindowSizeChanged
  will_wait,              \* surface_will_update
  wakes,                  \* the empty tasks in the queue of the platform thread
  ui_tasks,               \* the metrics and the frames to come of the UI runner
  view_size,              \* the metrics that the framework has
  expected_frame_size_,   \* the shell's
  frames,                 \* the pipeline
  draws,                  \* the tasks of the raster thread
  raster, frame,          \* what the raster thread does, and with which frame
  shown,                  \* the size of the frame on the screen
  resizes, timeouts, failures

viewVars == <<surface_, resize_status_, resize_target_>>
platformVars == <<window, platform, will_wait, resizes>>
uiVars == <<ui_tasks, view_size>>
rasterVars == <<raster, frame, shown>>
queueVars == <<frames, draws>>
boundVars == <<merged, timeouts, failures>>
vars == <<viewVars, platformVars, uiVars, rasterVars, queueVars, boundVars, wakes,
          expected_frame_size_>>

(* The window has been shown in its first size.                            *)
Init ==
  \E size \in {s \in Size : ~Empty(s)} :
    /\ window = size /\ merged \in MergedUI
    /\ surface_ = size
    /\ resize_status_ = "done" /\ resize_target_ = size
    /\ platform = "idle" /\ will_wait = FALSE /\ wakes = 0
    /\ ui_tasks = <<>> /\ view_size = size /\ expected_frame_size_ = size
    /\ frames = <<>> /\ draws = 0
    /\ raster = "idle" /\ frame = [size |-> size, layers |-> TRUE]
    /\ shown = size
    /\ resizes = 0 /\ timeouts = 0 /\ failures = 0

-----------------------------------------------------------------------------
(* The platform thread: OnWindowSizeChanged.                               *)

SurfaceWillUpdate(current, target) == ~Empty(target) /\ current # target

(* WM_SIZE: the handler begins.                                            *)
WindowSizeChanged ==
  /\ platform = "idle" /\ resizes < MaxResizes
  /\ window' \in Size \ {window}
  /\ resizes' = resizes + 1
  /\ platform' = "compare"
  /\ UNCHANGED <<viewVars, uiVars, rasterVars, queueVars, boundVars, will_wait,
                 wakes, expected_frame_size_>>

(* The surface is looked at without the mutex.                             *)
CompareSurface ==
  /\ platform = "compare"
  /\ will_wait' = (surface_ # Invalid /\ SurfaceWillUpdate(surface_, window))
  /\ platform' = IF will_wait' THEN "start" ELSE "metrics"
  /\ UNCHANGED <<viewVars, uiVars, rasterVars, queueVars, boundVars, window,
                 resizes, wakes, expected_frame_size_>>

StartResize ==
  /\ platform = "start"
  /\ resize_status_' = "started" /\ resize_target_' = window
  /\ platform' = "metrics"
  /\ UNCHANGED <<uiVars, rasterVars, queueVars, boundVars, surface_, window,
                 will_wait, resizes, wakes, expected_frame_size_>>

Wait == IF will_wait THEN "check" ELSE "idle"

Scheduled(tasks) ==
  IF <<"frame">> \in {tasks[i] : i \in DOMAIN tasks} THEN tasks
  ELSE Append(tasks, <<"frame">>)

(* Shell::OnPlatformViewSetViewportMetrics: the framework is told at once  *)
(* on a merged thread, and asks for a frame; empty metrics are ignored.    *)
SetViewportMetrics ==
  /\ platform = "metrics"
  /\ IF Empty(window)
       THEN platform' = Wait /\ UNCHANGED uiVars
       ELSE /\ platform' = "expect"
            /\ IF merged
                 THEN view_size' = window /\ ui_tasks' = Scheduled(ui_tasks)
                 ELSE ui_tasks' = Append(ui_tasks, window) /\ UNCHANGED view_size
  /\ UNCHANGED <<viewVars, rasterVars, queueVars, boundVars, window, will_wait,
                 resizes, wakes, expected_frame_size_>>

ExpectFrameSize ==
  /\ platform = "expect"
  /\ expected_frame_size_' = window
  /\ platform' = Wait
  /\ UNCHANGED <<viewVars, uiVars, rasterVars, queueVars, boundVars, window,
                 will_wait, resizes, wakes>>

(* Faulty: the wait ends before the frame is on the screen.                *)
CheckGenerated ==
  /\ platform = "check"
  /\ platform' = IF resize_status_ # "started" THEN "idle" ELSE "poll"
  /\ UNCHANGED <<viewVars, uiVars, rasterVars, queueVars, boundVars, window,
                 will_wait, resizes, wakes, expected_frame_size_>>

(* The loop that waits: the status is read under the mutex, and PollOnce   *)
(* is called without it.                                                   *)
CheckDone ==
  /\ platform = "check"
  /\ platform' = IF resize_status_ = "done" THEN "idle" ELSE "poll"
  /\ UNCHANGED <<viewVars, uiVars, rasterVars, queueVars, boundVars, window,
                 will_wait, resizes, wakes, expected_frame_size_>>

TimeOut ==
  /\ platform \in {"check", "poll"} /\ timeouts < MaxTimeouts
  /\ timeouts' = timeouts + 1
  /\ platform' = "idle"
  /\ UNCHANGED <<viewVars, uiVars, rasterVars, queueVars, window, will_wait,
                 resizes, merged, wakes, expected_frame_size_, failures>>

(* PollOnce, or the event loop, runs a task.                               *)
RunsTasks == platform \in {"idle", "poll"}
AfterTask == IF platform = "poll" THEN "check" ELSE platform

RunEmptyTask ==
  /\ RunsTasks /\ wakes > 0
  /\ wakes' = wakes - 1
  /\ platform' = AfterTask
  /\ UNCHANGED <<viewVars, uiVars, rasterVars, queueVars, boundVars, window,
                 will_wait, resizes, expected_frame_size_>>

(* ForceRedraw, for WM_PAINT.                                              *)
ForceRedraw ==
  /\ platform = "idle" /\ resize_status_ = "done"
  /\ ui_tasks' = Scheduled(ui_tasks)
  /\ UNCHANGED <<viewVars, platformVars, rasterVars, queueVars, boundVars,
                 view_size, wakes, expected_frame_size_>>

-----------------------------------------------------------------------------
(* The UI thread.                                                          *)

UiRuns == merged => RunsTasks
AfterUiTask == platform' = IF merged THEN AfterTask ELSE platform

HandleMetrics ==
  /\ UiRuns /\ ui_tasks # <<>> /\ Head(ui_tasks) \in Size
  /\ view_size' = Head(ui_tasks)
  /\ ui_tasks' = Scheduled(Tail(ui_tasks))
  /\ AfterUiTask
  /\ UNCHANGED <<viewVars, rasterVars, queueVars, boundVars, window, will_wait,
                 resizes, wakes, expected_frame_size_>>

(* A frame of an animation.                                                *)
ScheduleFrame ==
  /\ UiRuns
  /\ ui_tasks' = Scheduled(ui_tasks)
  /\ UNCHANGED <<viewVars, platformVars, rasterVars, queueVars, boundVars,
                 view_size, wakes, expected_frame_size_>>

(* The frame is built in the size that the framework knows, with layers or *)
(* none, and put into the pipeline; a full one is tried at the next vsync. *)
BuildFrame ==
  /\ UiRuns /\ ui_tasks # <<>> /\ Head(ui_tasks) = <<"frame">>
  /\ Len(frames) < Depth
  /\ ui_tasks' = Tail(ui_tasks)
  /\ \E layers \in BOOLEAN :
       frames' = Append(frames, [size |-> view_size, layers |-> layers])
  /\ draws' = IF frames = <<>> THEN draws + 1 ELSE draws
  /\ AfterUiTask
  /\ UNCHANGED <<viewVars, rasterVars, boundVars, window, will_wait, resizes,
                 view_size, wakes, expected_frame_size_>>

-----------------------------------------------------------------------------
(* The raster thread.                                                      *)

(* Faulty: Draw does not post itself for the next frame.                   *)
DrawOnce ==
  /\ raster = "idle" /\ draws > 0 /\ frames # <<>>
  /\ frame' = Head(frames) /\ frames' = Tail(frames)
  /\ draws' = draws - 1
  /\ raster' = IF frame'.size = expected_frame_size_ THEN "generated" ELSE "idle"
  /\ UNCHANGED <<viewVars, platformVars, uiVars, boundVars, shown, wakes,
                 expected_frame_size_>>

(* Draw takes a frame, posts itself for the next, and discards the frame   *)
(* if the shell expects another size (ShouldDiscardLayerTree).             *)
Draw ==
  /\ raster = "idle" /\ draws > 0 /\ frames # <<>>
  /\ frame' = Head(frames) /\ frames' = Tail(frames)
  /\ draws' = IF frames' = <<>> THEN draws - 1 ELSE draws
  /\ raster' = IF frame'.size = expected_frame_size_ THEN "generated" ELSE "idle"
  /\ UNCHANGED <<viewVars, platformVars, uiVars, boundVars, shown, wakes,
                 expected_frame_size_>>

(* OnFrameGenerated and OnEmptyFrameGenerated, under the mutex.            *)
Accepted ==
  /\ surface_ # Invalid
  /\ resize_status_ = "started" /\ frame.layers => frame.size = resize_target_

FrameRejected ==
  /\ raster = "generated" /\ ~Accepted
  /\ raster' = "idle"
  /\ UNCHANGED <<viewVars, platformVars, uiVars, queueVars, boundVars, frame,
                 shown, wakes, expected_frame_size_>>

FrameAccepted ==
  /\ raster = "generated" /\ Accepted /\ resize_status_ # "started"
  /\ raster' = "present"
  /\ UNCHANGED <<viewVars, platformVars, uiVars, queueVars, boundVars, frame,
                 shown, wakes, expected_frame_size_>>

(* Faulty: the sides are exchanged for a frame with layers, too.           *)
NewSizeExchanged == Swapped(resize_target_)

(* The size that ResizeRenderSurface is given: width and height are the    *)
(* other way round for an empty frame.                                     *)
NewSize == IF frame.layers THEN resize_target_ ELSE Swapped(resize_target_)

ResizeRenderSurface ==
  /\ raster = "generated" /\ Accepted /\ resize_status_ = "started"
  /\ surface_' = NewSize
  /\ resize_status_' = "generated"
  /\ raster' = "present"
  /\ UNCHANGED <<platformVars, uiVars, queueVars, boundVars, resize_target_,
                 frame, shown, wakes, expected_frame_size_>>

(* Destroying the old surface or creating the new one fails.               *)
ResizeFails ==
  /\ raster = "generated" /\ Accepted /\ resize_status_ = "started"
  /\ surface_ # NewSize /\ failures < MaxFailures
  /\ failures' = failures + 1
  /\ surface_' \in {surface_, Invalid}
  /\ raster' = "idle"
  /\ UNCHANGED <<platformVars, uiVars, queueVars, resize_status_,
                 resize_target_, frame, shown, merged, wakes,
                 expected_frame_size_, timeouts>>

SwapBuffers ==
  /\ raster = "present"
  /\ shown' = frame.size
  /\ raster' = "presented"
  /\ UNCHANGED <<viewVars, platformVars, uiVars, queueVars, boundVars, frame,
                 wakes, expected_frame_size_>>

SwapFails ==
  /\ raster = "present" /\ failures < MaxFailures
  /\ failures' = failures + 1
  /\ raster' = "idle"
  /\ UNCHANGED <<viewVars, platformVars, uiVars, queueVars, frame, shown,
                 merged, wakes, expected_frame_size_, timeouts>>

(* Faulty: the platform thread is not woken.                               *)
PresentedSilently ==
  /\ raster = "presented"
  /\ raster' = "idle"
  /\ resize_status_' = IF resize_status_ = "generated" THEN "done" ELSE resize_status_
  /\ UNCHANGED <<platformVars, uiVars, queueVars, boundVars, surface_,
                 resize_target_, frame, shown, wakes, expected_frame_size_>>

OnFramePresented ==
  /\ raster = "presented"
  /\ raster' = "idle"
  /\ IF resize_status_ = "generated"
       THEN resize_status_' = "done" /\ wakes' = wakes + 1
       ELSE UNCHANGED <<resize_status_, wakes>>
  /\ UNCHANGED <<platformVars, uiVars, queueVars, boundVars, surface_,
                 resize_target_, frame, shown, expected_frame_size_>>

-----------------------------------------------------------------------------

PlatformStep ==
  \/ CompareSurface \/ StartResize \/ SetViewportMetrics \/ ExpectFrameSize
  \/ CheckDone \/ RunEmptyTask
UiStep == HandleMetrics \/ BuildFrame
RasterStep ==
  \/ Draw \/ FrameRejected \/ FrameAccepted
  \/ ResizeRenderSurface \/ SwapBuffers \/ OnFramePresented
Next ==
  \/ PlatformStep \/ UiStep \/ RasterStep
  \/ WindowSizeChanged \/ ForceRedraw \/ ScheduleFrame
  \/ TimeOut \/ ResizeFails \/ SwapFails

Spec == Init /\ [][Next]_vars

(* The threads run on.  Nobody has to resize or to draw, and no call of    *)
(* EGL has to fail.  On a merged thread the two kinds of tasks come from   *)
(* one queue, in which both get their turn.                                *)
FairSpec ==
  /\ Spec
  /\ WF_vars(PlatformStep) /\ SF_vars(UiStep) /\ WF_vars(RasterStep)

-----------------------------------------------------------------------------

TypeOK ==
  /\ window \in Size /\ merged \in BOOLEAN
  /\ surface_ \in Size \cup {Invalid} \cup {Swapped(s) : s \in Size}
  /\ resize_status_ \in {"done", "started", "generated"} /\ resize_target_ \in Size
  /\ platform \in {"idle", "compare", "start", "metrics", "expect", "check", "poll"}
  /\ will_wait \in BOOLEAN /\ wakes \in Nat
  /\ ui_tasks \in Seq(Size \cup {<<"frame">>}) /\ view_size \in Size
  /\ expected_frame_size_ \in Size
  /\ frames \in Seq([size : Size, layers : BOOLEAN])
  /\ frame \in [size : Size, layers : BOOLEAN]
  /\ draws \in Nat
  /\ raster \in {"idle", "generated", "present", "presented"} /\ shown \in Size
  /\ {resizes, timeouts, failures} \subseteq Nat

InTime == timeouts = 0
Smooth == timeouts = 0 /\ failures = 0 /\ merged

(* flutter_windows_view.h:440, "Platform thread will be blocked while this *)
(* is not done."  On it rests that CompareSurface reads surface_ and       *)
(* ForceRedraw the status without the mutex: nobody replaces them then.    *)
BlockedWhileNotDone ==
  InTime /\ platform \in {"idle", "compare", "start"} => resize_status_ = "done"

(* flutter_windows_view.cc:973 (windows unit tests), "Verify that an empty *)
(* frame completes a view resize": a frame that is about to complete a     *)
(* resize, empty or not, has a surface of the size that the window has.    *)
ResizedToTarget == resize_status_ = "generated" => surface_ = resize_target_

(* The platform thread is let go, however the frames that were under way   *)
(* and the check of the status before each poll fall.                      *)
WaitEnds == platform # "idle" ~> platform = "idle" \/ ~Smooth

(* When the window has come to rest a frame of its size is on the screen,  *)
(* and on a surface that was made for its size.  As the code is, an empty  *)
(* frame that completes a resize leaves a surface with width and height    *)
(* exchanged (see ResizedToTarget); if none is drawn, the sides are right. *)
Filled == Empty(window) \/ (surface_ = window /\ shown = window)
FilledUpToSwap ==
  Empty(window) \/ (surface_ \in {window, Swapped(window)} /\ shown = window)
WindowIsFilled ==
  /\ <>[](FilledUpToSwap \/ ~Smooth)
  /\ [](frame.layers) => <>[](Filled \/ ~Smooth)

(* The same if the wait has been given up, of which flutter_windows_view.h *)
(* says nothing but "This completes a view resize if one is pending".      *)
FilledAfterTimeout == <>[](FilledUpToSwap \/ failures > 0 \/ ~merged)
=============================================================================
