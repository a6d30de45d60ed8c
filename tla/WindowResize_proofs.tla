-------------------------- MODULE WindowResize_proofs --------------------------
(***************************************************************************)
(* What is proved of WindowResize, for every set of sizes, every policy    *)
(* and every bound: its types, that the platform thread is blocked while a *)
(* resize is not done, as long as no wait has timed out, and what surface  *)
(* a resize can have been given when a frame completes it.                 *)
(***************************************************************************)
EXTENDS WindowResize, TLAPS

(* Where the platform thread is, the status is "done"; on its way to the   *)
(* wait, it is unless the thread is going to wait.                         *)
WaitsUnlessDone ==
  /\ platform = "start" => will_wait
  /\ InTime /\ platform \in {"metrics", "expect"} /\ ~will_wait
        => resize_status_ = "done"

ResizeInv == TypeOK /\ BlockedWhileNotDone /\ WaitsUnlessDone

-----------------------------------------------------------------------------

(* A frame is asked for once: the tasks of the UI runner stay what they    *)
(* are.                                                                    *)
LEMMA ScheduledType ==
  ASSUME NEW tasks \in Seq(Size \cup {<<"frame">>})
  PROVE  Scheduled(tasks) \in Seq(Size \cup {<<"frame">>})
BY DEF Scheduled

(* What is taken from the front of a queue is one of its elements.         *)
LEMMA HeadTailType ==
  ASSUME NEW S, NEW s \in Seq(S), s # <<>>
  PROVE  Head(s) \in S /\ Tail(s) \in Seq(S)
OBVIOUS

(* The initial states have their types.                                    *)
LEMMA InitInv == Init => ResizeInv
<1>1. SUFFICES ASSUME Init PROVE ResizeInv
  OBVIOUS
<1>2. TypeOK
  <2>1. PICK size \in Size :
          /\ window = size /\ surface_ = size /\ resize_target_ = size
          /\ view_size = size /\ expected_frame_size_ = size /\ shown = size
          /\ frame = [size |-> size, layers |-> TRUE]
    BY <1>1 DEF Init
  <2>2. merged \in BOOLEAN
    BY <1>1, ResizeAssumption DEF Init
  <2>3. ui_tasks = <<>> /\ frames = <<>>
    BY <1>1 DEF Init
  <2>4. /\ platform = "idle" /\ raster = "idle" /\ resize_status_ = "done"
        /\ will_wait = FALSE /\ wakes = 0 /\ draws = 0
    BY <1>1 DEF Init
  <2>5. /\ ui_tasks \in Seq(Size \cup {<<"frame">>})
        /\ frames \in Seq([size : Size, layers : BOOLEAN])
    BY <2>3
  <2>6. frame \in [size : Size, layers : BOOLEAN]
    BY <2>1
  <2>7. {resizes, timeouts, failures} \subseteq Nat
    BY <1>1 DEF Init
  <2>8. QED
    BY <2>1, <2>2, <2>4, <2>5, <2>6, <2>7 DEF TypeOK
<1>3. QED
  BY <1>1, <1>2
  DEF Init, ResizeInv, BlockedWhileNotDone, WaitsUnlessDone

(* Every step of the platform thread keeps the types.                      *)
LEMMA PlatformKeepsTypes ==
  ASSUME TypeOK,
         PlatformStep \/ WindowSizeChanged \/ TimeOut \/ ForceRedraw
  PROVE  TypeOK'
<1>1. CASE WindowSizeChanged
  BY <1>1 DEF TypeOK, WindowSizeChanged, viewVars, uiVars, rasterVars,
     queueVars, boundVars
<1>2. CASE CompareSurface
  BY <1>2 DEF TypeOK, CompareSurface, viewVars, uiVars, rasterVars,
     queueVars, boundVars
<1>3. CASE StartResize
  BY <1>3 DEF TypeOK, StartResize, viewVars, uiVars, rasterVars,
     queueVars, boundVars
<1>4. CASE SetViewportMetrics
  <2>1. Wait \in {"check", "idle"}
    BY DEF Wait
  <2>2. ui_tasks' \in Seq(Size \cup {<<"frame">>}) /\ view_size' \in Size
    <3>1. /\ ui_tasks \in Seq(Size \cup {<<"frame">>}) /\ window \in Size
          /\ view_size \in Size
      BY DEF TypeOK
    <3>2. CASE Empty(window)
      BY <1>4, <3>1, <3>2 DEF SetViewportMetrics, uiVars
    <3>3. CASE ~Empty(window) /\ merged
      BY <1>4, <3>1, <3>3, ScheduledType DEF SetViewportMetrics
    <3>4. CASE ~Empty(window) /\ ~merged
      BY <1>4, <3>1, <3>4 DEF SetViewportMetrics
    <3>5. QED
      BY <3>2, <3>3, <3>4
  <2>3. QED
    BY <1>4, <2>1, <2>2 DEF TypeOK, SetViewportMetrics, viewVars, rasterVars,
       queueVars, boundVars
<1>5. CASE ExpectFrameSize
  BY <1>5 DEF TypeOK, ExpectFrameSize, Wait, viewVars, uiVars, rasterVars,
     queueVars, boundVars
<1>6. CASE CheckDone
  BY <1>6 DEF TypeOK, CheckDone, viewVars, uiVars, rasterVars, queueVars,
     boundVars
<1>7. CASE RunEmptyTask
  BY <1>7 DEF TypeOK, RunEmptyTask, AfterTask, viewVars, uiVars, rasterVars,
     queueVars, boundVars
<1>8. CASE TimeOut
  BY <1>8 DEF TypeOK, TimeOut, viewVars, uiVars, rasterVars, queueVars
<1>9. CASE ForceRedraw
  BY <1>9, ScheduledType DEF TypeOK, ForceRedraw, viewVars, platformVars,
     rasterVars, queueVars, boundVars
<1>10. QED
  BY <1>1, <1>2, <1>3, <1>4, <1>5, <1>6, <1>7, <1>8, <1>9 DEF PlatformStep

(* Every step of the UI thread keeps the types.                            *)
LEMMA UiKeepsTypes ==
  ASSUME TypeOK, UiStep \/ ScheduleFrame
  PROVE  TypeOK'
<1>1. CASE HandleMetrics
  <2>1. Tail(ui_tasks) \in Seq(Size \cup {<<"frame">>})
    BY <1>1 DEF TypeOK, HandleMetrics
  <2>2. ui_tasks' \in Seq(Size \cup {<<"frame">>}) /\ view_size' \in Size
    BY <1>1, <2>1, ScheduledType DEF HandleMetrics
  <2>3. QED
    BY <1>1, <2>2 DEF TypeOK, HandleMetrics, AfterUiTask, AfterTask, viewVars,
       rasterVars, queueVars, boundVars
<1>2. CASE BuildFrame
  <2>1. ui_tasks' \in Seq(Size \cup {<<"frame">>})
    BY <1>2 DEF TypeOK, BuildFrame
  <2>2. frames' \in Seq([size : Size, layers : BOOLEAN])
    BY <1>2 DEF TypeOK, BuildFrame
  <2>3. QED
    BY <1>2, <2>1, <2>2 DEF TypeOK, BuildFrame, AfterUiTask, AfterTask,
       viewVars, rasterVars, boundVars
<1>3. CASE ScheduleFrame
  BY <1>3, ScheduledType DEF TypeOK, ScheduleFrame, viewVars, platformVars,
     rasterVars, queueVars, boundVars
<1>4. QED
  BY <1>1, <1>2, <1>3 DEF UiStep

(* Every step of the raster thread keeps the types.                        *)
LEMMA RasterKeepsTypes ==
  ASSUME TypeOK, RasterStep \/ ResizeFails \/ SwapFails
  PROVE  TypeOK'
<1>2. CASE Draw
  <2>1. /\ frame' \in [size : Size, layers : BOOLEAN]
        /\ frames' \in Seq([size : Size, layers : BOOLEAN])
    <3>1. /\ frames \in Seq([size : Size, layers : BOOLEAN]) /\ frames # <<>>
          /\ frame' = Head(frames) /\ frames' = Tail(frames)
      BY <1>2 DEF TypeOK, Draw
    <3>2. QED
      BY <3>1, HeadTailType
  <2>2. draws' \in Nat /\ raster' \in {"generated", "idle"}
    BY <1>2 DEF TypeOK, Draw
  <2>3. QED
    BY <1>2, <2>1, <2>2 DEF TypeOK, Draw, viewVars, platformVars, uiVars,
       boundVars
<1>3. CASE FrameRejected
  BY <1>3 DEF TypeOK, FrameRejected, viewVars, platformVars, uiVars, queueVars,
     boundVars
<1>4. CASE FrameAccepted
  BY <1>4 DEF TypeOK, FrameAccepted, viewVars, platformVars, uiVars, queueVars,
     boundVars
<1>5. NewSize \in Size \cup {Swapped(s) : s \in Size}
  BY DEF TypeOK, NewSize
<1>6. CASE ResizeRenderSurface
  BY <1>5, <1>6 DEF TypeOK, ResizeRenderSurface, platformVars, uiVars,
     queueVars, boundVars
<1>7. CASE ResizeFails
  BY <1>7 DEF TypeOK, ResizeFails, platformVars, uiVars, queueVars
<1>8. CASE SwapBuffers
  <2>1. shown' \in Size
    BY <1>8 DEF TypeOK, SwapBuffers
  <2>2. QED
    BY <1>8, <2>1 DEF TypeOK, SwapBuffers, viewVars, platformVars, uiVars,
       queueVars, boundVars
<1>9. CASE SwapFails
  BY <1>9 DEF TypeOK, SwapFails, viewVars, platformVars, uiVars, queueVars
<1>10. CASE OnFramePresented
  BY <1>10 DEF TypeOK, OnFramePresented, platformVars, uiVars, queueVars,
     boundVars
<1>11. QED
  BY <1>2, <1>3, <1>4, <1>6, <1>7, <1>8, <1>9, <1>10 DEF RasterStep

-----------------------------------------------------------------------------

(* A step of the platform thread leaves the handler, or goes back to its   *)
(* event loop, only when the resize is done.                               *)
LEMMA PlatformKeepsBlocked ==
  ASSUME ResizeInv,
         PlatformStep \/ WindowSizeChanged \/ TimeOut \/ ForceRedraw
  PROVE  BlockedWhileNotDone' /\ WaitsUnlessDone'
<1> USE DEF ResizeInv, BlockedWhileNotDone, WaitsUnlessDone, InTime
<1>1. CASE WindowSizeChanged
  BY <1>1 DEF WindowSizeChanged, viewVars, boundVars
<1>2. CASE CompareSurface
  BY <1>2 DEF CompareSurface, viewVars, boundVars
<1>3. CASE StartResize
  BY <1>3 DEF StartResize, boundVars
<1>4. CASE SetViewportMetrics
  BY <1>4 DEF SetViewportMetrics, Wait, viewVars, boundVars
<1>5. CASE ExpectFrameSize
  BY <1>5 DEF ExpectFrameSize, Wait, viewVars, boundVars
<1>6. CASE CheckDone
  BY <1>6 DEF CheckDone, viewVars, boundVars
<1>7. CASE RunEmptyTask
  BY <1>7 DEF RunEmptyTask, RunsTasks, AfterTask, viewVars, boundVars
<1>8. CASE TimeOut
  BY <1>8 DEF TimeOut, TypeOK
<1>9. CASE ForceRedraw
  BY <1>9 DEF ForceRedraw, viewVars, platformVars, boundVars
<1>10. QED
  BY <1>1, <1>2, <1>3, <1>4, <1>5, <1>6, <1>7, <1>8, <1>9 DEF PlatformStep

(* The UI thread moves the platform thread only out of a poll.             *)
LEMMA UiKeepsBlocked ==
  ASSUME ResizeInv, UiStep \/ ScheduleFrame
  PROVE  BlockedWhileNotDone' /\ WaitsUnlessDone'
<1> USE DEF ResizeInv, BlockedWhileNotDone, WaitsUnlessDone, InTime
<1>1. CASE HandleMetrics
  BY <1>1 DEF HandleMetrics, AfterUiTask, AfterTask, viewVars, boundVars
<1>2. CASE BuildFrame
  BY <1>2 DEF BuildFrame, AfterUiTask, AfterTask, viewVars, boundVars
<1>3. CASE ScheduleFrame
  BY <1>3 DEF ScheduleFrame, viewVars, platformVars, boundVars
<1>4. QED
  BY <1>1, <1>2, <1>3 DEF UiStep

(* The raster thread goes on with a resize that has been started, and ends *)
(* it.                                                                     *)
LEMMA RasterKeepsBlocked ==
  ASSUME ResizeInv, RasterStep \/ ResizeFails \/ SwapFails
  PROVE  BlockedWhileNotDone' /\ WaitsUnlessDone'
<1> USE DEF ResizeInv, BlockedWhileNotDone, WaitsUnlessDone, InTime
<1>1. CASE ResizeRenderSurface
  BY <1>1 DEF ResizeRenderSurface, platformVars, boundVars
<1>2. CASE OnFramePresented
  BY <1>2 DEF OnFramePresented, platformVars, boundVars
<1>3. CASE ResizeFails
  BY <1>3 DEF ResizeFails, platformVars
<1>4. CASE SwapFails
  BY <1>4 DEF SwapFails, viewVars, platformVars
<1>5. CASE Draw \/ FrameRejected \/ FrameAccepted \/ SwapBuffers
  BY <1>5 DEF Draw, FrameRejected, FrameAccepted, SwapBuffers,
     viewVars, platformVars, boundVars
<1>6. QED
  BY <1>1, <1>2, <1>3, <1>4, <1>5 DEF RasterStep

(* The platform thread is blocked while a resize is not done              *)
(* (flutter_windows_view.h:440): it is never in its event loop, nor before *)
(* the start of a resize, while the surface may be replaced, unless a wait *)
(* has timed out.                                                          *)
THEOREM PlatformIsBlocked == Spec => [](TypeOK /\ BlockedWhileNotDone)
<1>1. Init => ResizeInv
  BY InitInv
<1>2. ResizeInv /\ [Next]_vars => ResizeInv'
  <2>1. SUFFICES ASSUME ResizeInv, [Next]_vars PROVE ResizeInv'
    OBVIOUS
  <2>2. TypeOK
    BY <2>1 DEF ResizeInv
  <2>3. CASE UNCHANGED vars
    BY <2>1, <2>3 DEF ResizeInv, TypeOK, BlockedWhileNotDone, WaitsUnlessDone,
       InTime, vars, viewVars, platformVars, uiVars, rasterVars, queueVars,
       boundVars
  <2>4. CASE PlatformStep \/ WindowSizeChanged \/ TimeOut \/ ForceRedraw
    BY <2>1, <2>2, <2>4, PlatformKeepsTypes, PlatformKeepsBlocked DEF ResizeInv
  <2>5. CASE UiStep \/ ScheduleFrame
    BY <2>1, <2>2, <2>5, UiKeepsTypes, UiKeepsBlocked DEF ResizeInv
  <2>6. CASE RasterStep \/ ResizeFails \/ SwapFails
    BY <2>1, <2>2, <2>6, RasterKeepsTypes, RasterKeepsBlocked DEF ResizeInv
  <2>7. QED
    BY <2>1, <2>3, <2>4, <2>5, <2>6 DEF Next
<1>3. ResizeInv => TypeOK /\ BlockedWhileNotDone
  BY DEF ResizeInv
<1>4. QED
  BY <1>1, <1>2, <1>3, PTL DEF Spec

-----------------------------------------------------------------------------

(* The surface has the size that was asked for, or the other way round.    *)
ResizedUpToSwap ==
  resize_status_ = "generated" =>
    surface_ \in {resize_target_, Swapped(resize_target_)}

LEMMA ResizedUpToSwapStep == ResizedUpToSwap /\ [Next]_vars => ResizedUpToSwap'
<1> SUFFICES ASSUME ResizedUpToSwap, [Next]_vars
             PROVE  ResizedUpToSwap'
  OBVIOUS
<1> USE DEF ResizedUpToSwap, Swapped
<1>1. CASE UNCHANGED viewVars
  BY <1>1 DEF viewVars
<1>2. CASE StartResize
  BY <1>2 DEF StartResize
<1>3. CASE ResizeRenderSurface
  BY <1>3 DEF ResizeRenderSurface, NewSize
<1>4. CASE ResizeFails
  BY <1>4 DEF ResizeFails
<1>5. CASE OnFramePresented
  BY <1>5 DEF OnFramePresented
<1>6. CASE \/ CompareSurface \/ SetViewportMetrics \/ ExpectFrameSize \/ CheckDone
           \/ RunEmptyTask \/ WindowSizeChanged \/ ForceRedraw \/ ScheduleFrame
           \/ TimeOut \/ UiStep \/ UNCHANGED vars
  BY <1>1, <1>6
  DEF CompareSurface, SetViewportMetrics, ExpectFrameSize, CheckDone, RunEmptyTask,
    WindowSizeChanged, ForceRedraw, ScheduleFrame, TimeOut, UiStep, HandleMetrics,
    BuildFrame, vars
<1>7. CASE Draw \/ FrameRejected \/ FrameAccepted \/ SwapBuffers \/ SwapFails
  BY <1>1, <1>7 DEF Draw, FrameRejected, FrameAccepted, SwapBuffers, SwapFails
<1> QED
  BY <1>2, <1>3, <1>4, <1>5, <1>6, <1>7 DEF Next, PlatformStep, RasterStep

(* A frame that is about to complete a resize has a surface of the size    *)
(* that the platform thread asked for or, as an empty frame of a window    *)
(* that is not square may have it, of that size the other way round: a     *)
(* frame that fails in between, a resize that begins while frames are      *)
(* under way and a wait that ends leave no third size behind               *)
(* (flutter_windows_view.cc:143, :169, :209, :683).                        *)
THEOREM SurfaceOfResize == Spec => []ResizedUpToSwap
<1>1. Init => ResizedUpToSwap
  BY DEF Init, ResizedUpToSwap
<1> QED
  BY <1>1, ResizedUpToSwapStep, PTL DEF Spec
=============================================================================
