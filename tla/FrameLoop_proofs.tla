--------------------------- MODULE FrameLoop_proofs ---------------------------
(***************************************************************************)
(* For every depth and any number of frames and requests: the pipeline     *)
(* accounts for its places and keeps the frames in order, also in the      *)
(* frame loop; one request for a frame is under way at a time, and the     *)
(* Dart event loop is paused for its vsync only; a queued frame is left    *)
(* without a Draw only by a Draw that looks between a push and its signal. *)
(***************************************************************************)
EXTENDS FrameLoop, SequenceTheorems, FiniteSetTheorems, TLAPS

-----------------------------------------------------------------------------
(* The pipeline by itself.                                                 *)

(* What a sequence's length is after each of the steps of the queue.       *)
LEMMA LengthOfQueue ==
  ASSUME NEW q \in Seq(Nat), NEW n \in Nat
  PROVE  /\ Len(q) \in Nat
         /\ Append(q, n) \in Seq(Nat) /\ Len(Append(q, n)) = Len(q) + 1
         /\ q # <<>> <=> Len(q) > 0
         /\ q # <<>> => /\ Head(q) \in Nat
                        /\ Tail(q) \in Seq(Nat) /\ Len(Tail(q)) = Len(q) - 1
OBVIOUS

(* The three facts hold one another up: an item is popped only if one is   *)
(* accounted for.                                                          *)
Accounts == PipelineTypeOK /\ PlacesConserved /\ ItemsAccounted

LEMMA AccountsInit == PipelineInit => Accounts
BY DepthAssumption DEF PipelineInit, Accounts, PipelineTypeOK, PlacesConserved,
  ItemsAccounted, One, ProducerState, ConsumerState

LEMMA AccountsStep == Accounts /\ [PipelineNext]_pipelineVars => Accounts'
<1> SUFFICES ASSUME Accounts, [PipelineNext]_pipelineVars
             PROVE  Accounts'
  OBVIOUS
<1> USE DepthAssumption DEF Accounts, PipelineTypeOK, PlacesConserved, ItemsAccounted,
      One, ProducerState, ConsumerState
<1>1. CASE Produce
  BY <1>1, LengthOfQueue DEF Produce
<1>2. CASE ProducerCommit
  BY <1>2, LengthOfQueue DEF ProducerCommit
<1>3. CASE ProducerSignal
  BY <1>3, LengthOfQueue DEF ProducerSignal
<1>4. CASE ConsumeTryWait
  BY <1>4, LengthOfQueue DEF ConsumeTryWait
<1>5. CASE ConsumePop
  <2>1. Len(queue_) \in Nat /\ Len(queue_) > 0
    BY <1>5 DEF ConsumePop
  <2>2. Head(queue_) \in Nat /\ Tail(queue_) \in Seq(Nat)
        /\ Len(Tail(queue_)) = Len(queue_) - 1
    BY <2>1, LengthOfQueue
  <2>3. PipelineTypeOK'
    BY <1>5, <2>2 DEF ConsumePop
  <2>4. /\ One(consumer \in {"running", "holding"}) = 0
        /\ One(consumer' \in {"running", "holding"}) = 1
        /\ One(consumer \in {"pushed", "taken"}) = 1
        /\ One(consumer' \in {"pushed", "taken"}) = 0
    BY <1>5 DEF ConsumePop
  <2>5. Len(queue_') = Len(queue_) - 1 /\ producer' = producer
        /\ empty_' = empty_ /\ available_' = available_
    BY <1>5, <2>2 DEF ConsumePop
  <2>6. PlacesConserved'
    BY <2>1, <2>4, <2>5
  <2>7. ItemsAccounted'
    BY <2>1, <2>4, <2>5
  <2> QED
    BY <2>3, <2>6, <2>7
<1>6. CASE ConsumeRelease
  BY <1>6, LengthOfQueue DEF ConsumeRelease
<1>7. CASE ConsumeReturn
  BY <1>7, LengthOfQueue DEF ConsumeReturn
<1>8. CASE ProduceIfEmpty
  BY <1>8, LengthOfQueue DEF ProduceIfEmpty
<1>9. CASE ProducerCommitIfEmpty
  BY <1>9, LengthOfQueue DEF ProducerCommitIfEmpty
<1>10. CASE ResubmitSignal
  BY <1>10, LengthOfQueue DEF ResubmitSignal
<1>11. CASE UNCHANGED pipelineVars
  BY <1>11 DEF pipelineVars
<1> QED
  BY <1>1, <1>2, <1>3, <1>4, <1>5, <1>6, <1>7, <1>8, <1>9, <1>10, <1>11
  DEF PipelineNext

(* The accounting is an invariant of the pipeline, whatever its depth: no  *)
(* order of the producer's and the consumer's steps loses a place, makes   *)
(* one, or lets Consume look into an empty deque.                          *)
THEOREM PipelineAccounts ==
  PipelineSpec => [](PipelineTypeOK /\ PlacesConserved /\ ItemsAccounted)
<1>1. PipelineSpec => []Accounts
  BY AccountsInit, AccountsStep, PTL DEF PipelineSpec
<1> QED
  BY <1>1, PTL DEF Accounts

-----------------------------------------------------------------------------
(* The order of the frames.  That the item last taken has been produced is *)
(* what makes putting it back keep the order.                              *)

Ordered == QueueInOrder /\ item <= produced

LEMMA OrderedStep ==
  Accounts /\ Ordered /\ [PipelineNext]_pipelineVars => Ordered' /\ item' >= item
<1> SUFFICES ASSUME Accounts, Ordered, [PipelineNext]_pipelineVars
             PROVE  Ordered' /\ item' >= item
  OBVIOUS
<1> USE DepthAssumption DEF Accounts, Ordered, PipelineTypeOK, QueueInOrder
<1>1. CASE ProducerCommit
  BY <1>1 DEF ProducerCommit
<1>2. CASE ConsumePop
  <2>1. queue_ # <<>>
    BY <1>2, LengthOfQueue DEF ConsumePop, ItemsAccounted, One, ConsumerState,
      ProducerState
  <2>2. Head(queue_) = queue_[1] /\ 1 \in DOMAIN queue_
    BY <2>1
  <2>3. \A i \in DOMAIN Tail(queue_) :
          i \in Nat /\ i + 1 \in DOMAIN queue_ /\ Tail(queue_)[i] = queue_[i + 1]
    BY <2>1
  <2>4. item' = queue_[1] /\ queue_' = Tail(queue_) /\ produced' = produced
    BY <1>2, <2>2 DEF ConsumePop
  <2>5. item' >= item /\ item' <= produced'
    BY <2>2, <2>4
  <2>6. ASSUME NEW i \in DOMAIN queue_', NEW j \in DOMAIN queue_', i < j
        PROVE  queue_'[i] < queue_'[j]
    BY <2>3, <2>4, <2>6
  <2>7. ASSUME NEW i \in DOMAIN queue_'
        PROVE  queue_'[i] \in item' .. produced'
    <3>1. i + 1 \in DOMAIN queue_ /\ queue_'[i] = queue_[i + 1] /\ 1 < i + 1
      BY <2>3, <2>4
    <3>2. queue_[1] < queue_[i + 1] /\ queue_[i + 1] \in item .. produced
      BY <2>2, <3>1
    <3> QED
      BY <2>2, <2>4, <3>1, <3>2
  <2> QED
    BY <2>5, <2>6, <2>7
<1>3. CASE ProducerCommitIfEmpty
  BY <1>3 DEF ProducerCommitIfEmpty
<1>4. CASE \/ Produce \/ ProducerSignal \/ ConsumeTryWait \/ ConsumeRelease
           \/ ConsumeReturn \/ ProduceIfEmpty \/ ResubmitSignal
           \/ UNCHANGED pipelineVars
  BY <1>4 DEF Produce, ProducerSignal, ConsumeTryWait, ConsumeRelease, ConsumeReturn,
    ProduceIfEmpty, ResubmitSignal, pipelineVars
<1> QED
  BY <1>1, <1>2, <1>3, <1>4 DEF PipelineNext

(* Putting a frame back never lets it overtake a newer one, nor draws an   *)
(* older frame after a newer one.                                          *)
THEOREM PipelineOrder == PipelineSpec => []QueueInOrder /\ NeverBackwards
<1>1. PipelineInit => Ordered
  BY DepthAssumption DEF PipelineInit, Ordered, QueueInOrder
<1>2. PipelineSpec => [](Accounts /\ Ordered)
  BY <1>1, AccountsInit, AccountsStep, OrderedStep, PTL DEF PipelineSpec
<1>3. Accounts /\ Ordered /\ [PipelineNext]_pipelineVars
        => [item' >= item]_pipelineVars
  BY OrderedStep
<1>4. Ordered => QueueInOrder
  BY DEF Ordered
<1> QED
  BY <1>2, <1>3, <1>4, PTL DEF PipelineSpec, NeverBackwards

-----------------------------------------------------------------------------
(* The frame loop uses the pipeline.                                       *)

(* A step of the UI thread, of the framework or of the waiter.             *)
LEMMA UiUsesPipeline ==
  ASSUME \/ EndFrame \/ CommitSignal \/ OnAnimatorDraw \/ EndTask
         \/ VsyncWithoutAnimator \/ ReuseLastLayerTrees \/ BeginFrame \/ PipelineFull
         \/ EndVsyncTask \/ AwaitVSync \/ SecondaryTask
         \/ BeginTask \/ ScheduleFrame \/ Render \/ ScheduleSecondaryCallback
         \/ DestroyAnimator \/ TakeCallbacks \/ PostCallbacks
  PROVE  [PipelineNext]_pipelineVars
<1>1. CASE EndFrame
  BY <1>1 DEF EndFrame, PipelineNext
<1>2. CASE CommitSignal
  BY <1>2 DEF CommitSignal, PipelineNext
<1>3. CASE BeginFrame
  BY <1>3 DEF BeginFrame, PipelineNext
<1>4. CASE DestroyAnimator
  BY <1>4 DEF DestroyAnimator, PipelineNext
<1>5. CASE \/ OnAnimatorDraw \/ EndTask \/ VsyncWithoutAnimator
           \/ ReuseLastLayerTrees \/ PipelineFull \/ EndVsyncTask \/ AwaitVSync
           \/ SecondaryTask \/ BeginTask \/ ScheduleFrame \/ Render
           \/ ScheduleSecondaryCallback \/ TakeCallbacks \/ PostCallbacks
  BY <1>5 DEF OnAnimatorDraw, EndTask, VsyncWithoutAnimator, ReuseLastLayerTrees,
    PipelineFull, EndVsyncTask, AwaitVSync, SecondaryTask, BeginTask, ScheduleFrame,
    Render, ScheduleSecondaryCallback, TakeCallbacks, PostCallbacks
<1> QED
  BY <1>1, <1>2, <1>3, <1>4, <1>5

LEMMA RasterUsesPipeline == ASSUME RasterStep PROVE [PipelineNext]_pipelineVars
<1>1. CASE BeginDraw
  BY <1>1 DEF BeginDraw, PipelineNext
<1>2. CASE Pop
  BY <1>2 DEF Pop, PipelineNext
<1>3. CASE DoDraw
  BY <1>3 DEF DoDraw, PipelineNext
<1>4. CASE Resubmit
  BY <1>4 DEF Resubmit, PipelineNext
<1>5. CASE SignalResubmitted
  BY <1>5 DEF SignalResubmitted, PipelineNext
<1>6. CASE Crash \/ EndDraw \/ DrawLastLayerTrees
  BY <1>6 DEF Crash, EndDraw, DrawLastLayerTrees
<1> QED
  BY <1>1, <1>2, <1>3, <1>4, <1>5, <1>6 DEF RasterStep

(* The tasks of the two threads use the pipeline as its one producer and   *)
(* its one consumer, so that what was proved of it holds here.             *)
LEMMA FrameLoopUsesPipeline == Spec => PipelineSpec
<1>1. Init => PipelineInit
  BY DEF Init
<1>2. [Next]_vars => [PipelineNext]_pipelineVars
  <2>1. CASE Next
    BY <2>1, UiUsesPipeline, RasterUsesPipeline DEF Next, UiStep
  <2>2. CASE UNCHANGED vars
    BY <2>2 DEF vars
  <2> QED
    BY <2>1, <2>2
<1> QED
  BY <1>1, <1>2, PTL DEF Spec, PipelineSpec

(* Whenever the animator is destroyed and however the tasks of the two     *)
(* threads come between one another, no place of the pipeline is lost or   *)
(* made, a Draw never pops an empty deque, and frames are drawn in the     *)
(* order in which the framework built them, those that are drawn again     *)
(* included.                                                               *)
THEOREM FrameLoopKeepsOrder ==
  Spec => /\ [](PipelineTypeOK /\ PlacesConserved /\ ItemsAccounted)
          /\ []QueueInOrder
          /\ NeverBackwards
BY FrameLoopUsesPipeline, PipelineAccounts, PipelineOrder

-----------------------------------------------------------------------------
(* How many tasks of a kind a runner has.                                  *)

LEMMA OccurrencesType ==
  ASSUME NEW T, NEW s \in Seq(T), NEW e
  PROVE  /\ IsFiniteSet({i \in DOMAIN s : s[i] = e})
         /\ Occurrences(s, e) \in Nat
<1>1. DOMAIN s = 1 .. Len(s) /\ Len(s) \in Nat
  OBVIOUS
<1>2. IsFiniteSet(1 .. Len(s))
  BY <1>1, FS_Interval
<1>3. {i \in DOMAIN s : s[i] = e} \in SUBSET (1 .. Len(s))
  BY <1>1
<1>4. IsFiniteSet({i \in DOMAIN s : s[i] = e})
  BY <1>2, <1>3, FS_Subset
<1> QED
  BY <1>4, FS_CardinalityType DEF Occurrences

LEMMA OccurrencesAppend ==
  ASSUME NEW T, NEW s \in Seq(T), NEW x \in T, NEW e
  PROVE  Occurrences(Append(s, x), e) = Occurrences(s, e) + One(x = e)
<1> DEFINE A == {i \in DOMAIN s : s[i] = e}
           B == {i \in DOMAIN Append(s, x) : Append(s, x)[i] = e}
<1>1. IsFiniteSet(A) /\ Cardinality(A) \in Nat
  BY OccurrencesType DEF Occurrences
<1>2. /\ Len(s) \in Nat /\ DOMAIN s = 1 .. Len(s)
      /\ DOMAIN Append(s, x) = 1 .. Len(s) + 1
      /\ \A i \in 1 .. Len(s) : Append(s, x)[i] = s[i]
      /\ Append(s, x)[Len(s) + 1] = x
  OBVIOUS
<1>3. B = IF x = e THEN A \cup {Len(s) + 1} ELSE A
  BY <1>2
<1>4. Len(s) + 1 \notin A
  BY <1>2
<1>5. Occurrences(s, e) = Cardinality(A) /\ Occurrences(Append(s, x), e) = Cardinality(B)
  BY DEF Occurrences
<1> HIDE DEF A, B
<1>6. Cardinality(B) = IF x = e THEN Cardinality(A) + 1 ELSE Cardinality(A)
  BY <1>1, <1>3, <1>4, FS_AddElement
<1>7. One(x = e) = IF x = e THEN 1 ELSE 0
  BY DEF One
<1> QED
  BY <1>1, <1>5, <1>6, <1>7

LEMMA OccurrencesTail ==
  ASSUME NEW T, NEW s \in Seq(T), s # <<>>, NEW e
  PROVE  Occurrences(Tail(s), e) = Occurrences(s, e) - One(Head(s) = e)
<1> DEFINE A == {i \in DOMAIN s : s[i] = e}
           B == {i \in DOMAIN Tail(s) : Tail(s)[i] = e}
<1>1. IsFiniteSet(A) /\ Cardinality(A) \in Nat
  BY OccurrencesType DEF Occurrences
<1>2. Tail(s) \in Seq(T)
  OBVIOUS
<1>3. IsFiniteSet(B)
  BY <1>2, OccurrencesType
<1>4. /\ Len(s) \in Nat \ {0} /\ DOMAIN s = 1 .. Len(s) /\ Head(s) = s[1]
      /\ DOMAIN Tail(s) = 1 .. Len(s) - 1
      /\ \A i \in 1 .. Len(s) - 1 : Tail(s)[i] = s[i + 1]
  OBVIOUS
<1>5. B = {i \in 1 .. Len(s) - 1 : i + 1 \in A \ {1}}
  BY <1>4
<1>6. A \ {1} \subseteq 2 .. Len(s)
  BY <1>4
<1>7. 1 \in A <=> Head(s) = e
  BY <1>4
<1>8. Occurrences(s, e) = Cardinality(A) /\ Occurrences(Tail(s), e) = Cardinality(B)
  BY DEF Occurrences
<1> HIDE DEF A, B
<1>9. ExistsBijection(B, A \ {1})
  <2> DEFINE f == [i \in B |-> i + 1]
  <2>1. \A i \in B : i \in Nat /\ i + 1 \in A \ {1}
    BY <1>4, <1>5
  <2>2. f \in [B -> A \ {1}] /\ \A i \in B : f[i] = i + 1
    BY <2>1
  <2>3. \A i, j \in B : f[i] = f[j] => i = j
    BY <2>1, <2>2
  <2>4. \A j \in A \ {1} : j - 1 \in B /\ f[j - 1] = j
    BY <1>4, <1>5, <1>6, <2>2
  <2> HIDE DEF f
  <2>5. f \in Injection(B, A \ {1})
    BY <2>2, <2>3 DEF Injection, IsInjective
  <2>6. f \in Surjection(B, A \ {1})
    BY <2>2, <2>4 DEF Surjection
  <2> QED
    BY <2>5, <2>6 DEF ExistsBijection, Bijection
<1>10. Cardinality(A \ {1}) = Cardinality(B)
  BY <1>3, <1>9, FS_Bijection
<1>11. Cardinality(A \ {1}) = IF 1 \in A THEN Cardinality(A) - 1 ELSE Cardinality(A)
  BY <1>1, FS_RemoveElement
<1>12. One(Head(s) = e) = IF 1 \in A THEN 1 ELSE 0
  BY <1>7 DEF One
<1> QED
  BY <1>1, <1>8, <1>10, <1>11, <1>12

-----------------------------------------------------------------------------
(* Requests, vsyncs and pauses.                                            *)

UiTask == {"await", "vsync", "secondary"}

(* The counts of the tasks of the UI thread when one is posted, and when   *)
(* one begins.                                                             *)
LEMMA UiTaskPosted ==
  ASSUME NEW s \in Seq(UiTask), NEW x \in UiTask, NEW e
  PROVE  /\ Append(s, x) \in Seq(UiTask)
         /\ Occurrences(s, e) \in Nat
         /\ x = e => Occurrences(Append(s, x), e) = Occurrences(s, e) + 1
         /\ x # e => Occurrences(Append(s, x), e) = Occurrences(s, e)
<1>1. Occurrences(s, e) \in Nat
  BY OccurrencesType
<1>2. Occurrences(Append(s, x), e) = Occurrences(s, e) + One(x = e)
  BY OccurrencesAppend
<1>3. One(x = e) = IF x = e THEN 1 ELSE 0
  BY DEF One
<1> QED
  BY <1>1, <1>2, <1>3

LEMMA UiTaskBegun ==
  ASSUME NEW s \in Seq(UiTask), s # <<>>, NEW e
  PROVE  /\ Tail(s) \in Seq(UiTask)
         /\ Occurrences(Tail(s), e) \in Nat
         /\ Head(s) = e => Occurrences(Tail(s), e) = Occurrences(s, e) - 1
         /\ Head(s) # e => Occurrences(Tail(s), e) = Occurrences(s, e)
<1>1. Tail(s) \in Seq(UiTask)
  OBVIOUS
<1>2. Occurrences(s, e) \in Nat /\ Occurrences(Tail(s), e) \in Nat
  BY <1>1, OccurrencesType
<1>3. Occurrences(Tail(s), e) = Occurrences(s, e) - One(Head(s) = e)
  BY OccurrencesTail
<1>4. One(Head(s) = e) = IF Head(s) = e THEN 1 ELSE 0
  BY DEF One
<1> QED
  BY <1>1, <1>2, <1>3, <1>4

(* The types of what the requests do not depend on.                        *)
OtherTypes ==
  /\ ui_pc \in {"idle", "task", "vsync"}
  /\ requests \in 0 .. MaxRequests
  /\ null_item \in 0 .. MaxItems
  /\ regenerate_layer_trees_ \in BOOLEAN /\ frame_scheduled_ \in BOOLEAN
  /\ layer_trees_tasks_ \in BOOLEAN /\ notify \in BOOLEAN
  /\ raster_tasks \in Seq({"draw", "more", "last"})
  /\ raster_pc \in {"idle", "draw", "crashed"}
  /\ retry \in BOOLEAN /\ more \in BOOLEAN
  /\ last_successful_task \in BOOLEAN

LEMMA OtherTypesStep ==
  ASSUME OtherTypes, PipelineTypeOK, PipelineTypeOK', [Next]_vars
  PROVE  OtherTypes'
<1> USE FrameLoopAssumption
    DEF OtherTypes, uiVars, rasterVars, animatorVars, lifeVars, waiterVars
<1>1. CASE BeginTask \/ Render \/ CommitSignal \/ EndTask
  <2>1. CASE BeginTask
    BY <2>1 DEF BeginTask
  <2>2. CASE Render
    BY <2>2 DEF Render
  <2>3. CASE CommitSignal \/ EndTask
    BY <2>3 DEF CommitSignal, EndTask
  <2> QED
    BY <1>1, <2>1, <2>2, <2>3
<1>2. CASE EndFrame
  <2>1. notify' \in BOOLEAN
    BY <1>2, Zenon DEF EndFrame
  <2> QED
    BY <1>2, <2>1 DEF EndFrame
<1>3. CASE ScheduleFrame \/ PipelineFull
  <2>1. regenerate_layer_trees_' \in BOOLEAN /\ frame_scheduled_' \in BOOLEAN
    BY <1>3, Zenon DEF ScheduleFrame, PipelineFull, RequestFrame
  <2> QED
    BY <1>3, <2>1 DEF ScheduleFrame, PipelineFull
<1>4. CASE VsyncWithoutAnimator \/ BeginFrame \/ EndVsyncTask
  <2>1. CASE VsyncWithoutAnimator
    BY <2>1 DEF VsyncWithoutAnimator
  <2>2. CASE BeginFrame
    BY <2>2 DEF BeginFrame
  <2>3. CASE EndVsyncTask
    BY <2>3 DEF EndVsyncTask
  <2> QED
    BY <1>4, <2>1, <2>2, <2>3
<1>5. CASE OnAnimatorDraw \/ ReuseLastLayerTrees
  <2>1. raster_tasks' = Append(raster_tasks, "draw") \/ raster_tasks' = Append(raster_tasks, "last")
    BY <1>5 DEF OnAnimatorDraw, ReuseLastLayerTrees
  <2>2. raster_tasks' \in Seq({"draw", "more", "last"})
    BY <2>1
  <2>3. CASE OnAnimatorDraw
    BY <2>2, <2>3 DEF OnAnimatorDraw
  <2>4. CASE ReuseLastLayerTrees
    BY <2>2, <2>4 DEF ReuseLastLayerTrees
  <2> QED
    BY <1>5, <2>3, <2>4
<1>6. CASE \/ AwaitVSync \/ SecondaryTask \/ ScheduleSecondaryCallback
           \/ TakeCallbacks \/ PostCallbacks
  BY <1>6 DEF AwaitVSync, SecondaryTask, ScheduleSecondaryCallback, TakeCallbacks,
    PostCallbacks
<1>7. CASE DestroyAnimator
  <2>1. null_item' \in 0 .. MaxItems
    BY <1>7 DEF DestroyAnimator, PipelineTypeOK
  <2> QED
    BY <1>7, <2>1 DEF DestroyAnimator
<1>8. CASE BeginDraw \/ EndDraw
  <2>1. raster_tasks' \in Seq({"draw", "more", "last"})
    BY <1>8 DEF BeginDraw, EndDraw
  <2> QED
    BY <1>8, <2>1 DEF BeginDraw, EndDraw
<1>9. CASE Pop \/ SignalResubmitted
  <2>1. CASE Pop
    BY <2>1 DEF Pop
  <2>2. CASE SignalResubmitted
    BY <2>2 DEF SignalResubmitted
  <2> QED
    BY <1>9, <2>1, <2>2
<1>10. CASE DoDraw \/ Crash \/ Resubmit
  <2>1. CASE DoDraw
    BY <2>1 DEF DoDraw
  <2>2. CASE Crash
    BY <2>2 DEF Crash
  <2>3. CASE Resubmit
    BY <2>3 DEF Resubmit
  <2> QED
    BY <1>10, <2>1, <2>2, <2>3
<1>11. CASE DrawLastLayerTrees
  <2>1. raster_tasks' \in Seq({"draw", "more", "last"})
    BY <1>11 DEF DrawLastLayerTrees
  <2>2. last_successful_task' \in BOOLEAN
    BY <1>11 DEF DrawLastLayerTrees
  <2> QED
    BY <1>11, <2>1, <2>2 DEF DrawLastLayerTrees
<1>12. CASE UNCHANGED vars
  BY <1>12 DEF vars
<1> QED
  BY <1>1, <1>2, <1>3, <1>4, <1>5, <1>6, <1>7, <1>8, <1>9, <1>10, <1>11, <1>12
  DEF Next, UiStep, RasterStep

(* What the requests, the vsyncs and the pauses depend on.                 *)
requestVars == <<ui_tasks, animator_alive, pending_frame_semaphore_, fired, callback_,
                 secondary_callbacks_, awaited, dart_paused>>

RequestTypes ==
  /\ ui_tasks \in Seq(UiTask)
  /\ animator_alive \in BOOLEAN
  /\ pending_frame_semaphore_ \in 0 .. 1
  /\ callback_ \in BOOLEAN /\ secondary_callbacks_ \in BOOLEAN
  /\ awaited \in Nat /\ fired \subseteq {"vsync", "secondary"} /\ dart_paused \in Nat

LEMMA TypesSplit == TypeOK <=> PipelineTypeOK /\ OtherTypes /\ RequestTypes
BY DEF TypeOK, OtherTypes, RequestTypes, UiTask

(* The parts of the inductive invariant that the requests hold up.         *)
RequestInv ==
  /\ RequestTypes
  /\ OneRequestInFlight
  /\ OneVsyncAwaited
  /\ PausedForVsyncOnly

LEMMA RequestInvStep ==
  ASSUME RequestInv, OtherTypes, [Next]_vars
  PROVE  RequestInv'
<1> USE DEF RequestInv, RequestTypes, OneRequestInFlight, OneVsyncAwaited,
      PausedForVsyncOnly
<1> DEFINE Await == Occurrences(ui_tasks, "await")
           Vsync == Occurrences(ui_tasks, "vsync")
<1>1. Await \in Nat /\ Vsync \in Nat
  BY OccurrencesType
<1>a. pending_frame_semaphore_ \in 0 .. 1 /\ OneRequestInFlight
  OBVIOUS
<1>2. CASE ScheduleFrame
  <2>1. /\ UNCHANGED <<ui_pc, lifeVars, waiterVars, dart_paused>> /\ animator_alive
        /\ pending_frame_semaphore_' = 0
        /\ ui_tasks' = IF pending_frame_semaphore_ > 0 THEN Append(ui_tasks, "await")
                                                      ELSE ui_tasks
    BY <1>2 DEF ScheduleFrame, RequestFrame, InFramework
  <2>2. CASE pending_frame_semaphore_ > 0
    <3>1. ui_tasks' \in Seq(UiTask) /\ Await' = Await + 1 /\ Vsync' = Vsync
      BY <2>1, <2>2, UiTaskPosted DEF UiTask
    <3>2. One("vsync" \in fired) \in Nat /\ One(callback_) \in Nat
      BY DEF One
    <3>3. OneRequestInFlight'
      <4> HIDE DEF RequestInv, RequestTypes, OneVsyncAwaited, PausedForVsyncOnly
      <4> QED
        BY <1>1, <1>a, <2>1, <2>2, <3>1, <3>2 DEF lifeVars, waiterVars
    <3> QED
      BY <1>1, <2>1, <2>2, <3>1, <3>3 DEF lifeVars, waiterVars
  <2>3. CASE pending_frame_semaphore_ = 0
    BY <1>1, <2>1, <2>3 DEF lifeVars, waiterVars
  <2> QED
    BY <2>2, <2>3
<1>3. CASE VsyncTask /\ (VsyncWithoutAnimator \/ ReuseLastLayerTrees \/ BeginFrame)
  <2>1. /\ ui_tasks # <<>> /\ Head(ui_tasks) = "vsync" /\ ui_tasks' = Tail(ui_tasks)
        /\ UNCHANGED <<animator_alive, waiterVars>> /\ ui_pc = "idle"
    BY <1>3 DEF VsyncWithoutAnimator, ReuseLastLayerTrees, BeginFrame, VsyncTask,
      lifeVars
  <2>2. ui_tasks' \in Seq(UiTask) /\ Await' = Await /\ Vsync' = Vsync - 1 /\ Vsync' \in Nat
    BY <2>1, UiTaskBegun
  <2>3. CASE VsyncWithoutAnimator
    BY <1>1, <2>1, <2>2, <2>3
    DEF VsyncWithoutAnimator, ResumeDartEventLoop, animatorVars, waiterVars, One
  <2>4. CASE ReuseLastLayerTrees
    <3>1. /\ pending_frame_semaphore_' = pending_frame_semaphore_ + 1
          /\ animator_alive /\ ui_pc' = ui_pc /\ dart_paused' = dart_paused - 1
      BY <2>4 DEF ReuseLastLayerTrees, ResumeDartEventLoop
    <3>2. One("vsync" \in fired) \in Nat /\ One(callback_) \in Nat
      BY DEF One
    <3>3. OneRequestInFlight' /\ pending_frame_semaphore_' \in 0 .. 1
      <4> HIDE DEF RequestInv, RequestTypes, OneVsyncAwaited, PausedForVsyncOnly
      <4> QED
        BY <1>1, <1>a, <2>1, <2>2, <3>1, <3>2 DEF waiterVars
    <3>4. One(ui_pc = "vsync") = 0 /\ One(ui_pc = "vsync")' = 0
      BY <2>1, <3>1 DEF One
    <3>5. PausedForVsyncOnly' /\ dart_paused' \in Nat
      BY <1>1, <2>2, <3>1, <3>4
    <3> QED
      BY <2>1, <2>2, <3>1, <3>3, <3>5 DEF waiterVars
  <2>5. CASE BeginFrame
    <3>1. /\ pending_frame_semaphore_' = pending_frame_semaphore_ + 1
          /\ animator_alive /\ ui_pc' = "vsync" /\ dart_paused' = dart_paused
      BY <2>5 DEF BeginFrame
    <3>2. One("vsync" \in fired) \in Nat /\ One(callback_) \in Nat
      BY DEF One
    <3>3. OneRequestInFlight' /\ pending_frame_semaphore_' \in 0 .. 1
      <4> HIDE DEF RequestInv, RequestTypes, OneVsyncAwaited, PausedForVsyncOnly
      <4> QED
        BY <1>1, <1>a, <2>1, <2>2, <3>1, <3>2 DEF waiterVars
    <3>4. One(ui_pc = "vsync") = 0 /\ One(ui_pc = "vsync")' = 1
      BY <2>1, <3>1 DEF One
    <3>5. PausedForVsyncOnly'
      BY <1>1, <2>2, <3>1, <3>4
    <3> QED
      BY <2>1, <2>2, <3>1, <3>3, <3>5 DEF waiterVars
  <2> QED
    BY <1>3, <2>3, <2>4, <2>5
<1>4. CASE PipelineFull
  <2> DEFINE rest == Tail(ui_tasks)
  <2>1. /\ ui_tasks # <<>> /\ Head(ui_tasks) = "vsync" /\ animator_alive
        /\ UNCHANGED <<animator_alive, waiterVars, ui_pc>>
        /\ dart_paused' = dart_paused - 1 /\ pending_frame_semaphore_' = 0
        /\ ui_tasks' = IF pending_frame_semaphore_ + 1 > 0 THEN Append(rest, "await")
                                                          ELSE rest
    BY <1>4 DEF PipelineFull, VsyncTask, RequestFrame, lifeVars, ResumeDartEventLoop
  <2>2. /\ rest \in Seq(UiTask) /\ Occurrences(rest, "await") = Await
        /\ Occurrences(rest, "vsync") = Vsync - 1 /\ Vsync - 1 \in Nat
    BY <2>1, UiTaskBegun
  <2>3. ui_tasks' = Append(rest, "await")
    BY <2>1
  <2> HIDE DEF rest
  <2>4. ui_tasks' \in Seq(UiTask) /\ Await' = Await + 1 /\ Vsync' = Vsync - 1
    BY <2>2, <2>3, UiTaskPosted DEF UiTask
  <2>5. /\ One("vsync" \in fired) \in Nat /\ One(callback_) \in Nat
        /\ One("vsync" \in fired)' = One("vsync" \in fired)
        /\ One(callback_)' = One(callback_)
        /\ One(ui_pc = "vsync") \in Nat /\ One(ui_pc = "vsync")' = One(ui_pc = "vsync")
    BY <2>1 DEF One, waiterVars
  <2>6. pending_frame_semaphore_ + Await + Vsync + One("vsync" \in fired) + One(callback_) = 1
    BY <2>1
  <2>7. pending_frame_semaphore_ = 0
    BY <1>1, <2>2, <2>5, <2>6
  <2>8. OneRequestInFlight'
    <3> HIDE DEF RequestInv, RequestTypes, OneVsyncAwaited, PausedForVsyncOnly
    <3> QED
      BY <1>1, <2>1, <2>2, <2>4, <2>5, <2>6, <2>7
  <2>9. PausedForVsyncOnly' /\ dart_paused' \in Nat
    <3>1. dart_paused = Vsync + One(ui_pc = "vsync") /\ One(ui_pc = "vsync") = 0
      BY <1>4 DEF PipelineFull, VsyncTask, One
    <3>2. dart_paused' = dart_paused - 1 /\ Vsync' = Vsync - 1 /\ One(ui_pc = "vsync")' = 0
      BY <2>1, <2>4, <2>5, <3>1
    <3> QED
      BY <1>1, <2>2, <3>1, <3>2
  <2> QED
    BY <2>1, <2>4, <2>8, <2>9 DEF waiterVars
<1>5. CASE EndVsyncTask
  BY <1>1, <1>5 DEF EndVsyncTask, ResumeDartEventLoop, lifeVars, waiterVars, One
<1>6. CASE AwaitVSync
  <2>1. /\ ui_tasks # <<>> /\ Head(ui_tasks) = "await" /\ ui_tasks' = Tail(ui_tasks)
        /\ UNCHANGED <<ui_pc, animator_alive, pending_frame_semaphore_, fired,
                       secondary_callbacks_, dart_paused>>
        /\ \/ /\ animator_alive /\ ~callback_ /\ callback_' = TRUE
              /\ awaited' = IF secondary_callbacks_ THEN awaited ELSE awaited + 1
           \/ ~(animator_alive /\ ~callback_) /\ UNCHANGED <<callback_, awaited>>
    BY <1>6 DEF AwaitVSync, AwaitUnless, animatorVars, lifeVars
  <2>2. ui_tasks' \in Seq(UiTask) /\ Await' = Await - 1 /\ Vsync' = Vsync /\ Await' \in Nat
    BY <2>1, UiTaskBegun
  <2>3. CASE animator_alive /\ ~callback_
    <3>1. One(callback_) = 0 /\ One(callback_)' = 1 /\ One("vsync" \in fired) \in Nat
      BY <2>1, <2>3 DEF One
    <3>2. OneRequestInFlight'
      <4> HIDE DEF RequestInv, RequestTypes, OneVsyncAwaited, PausedForVsyncOnly
      <4> QED
        BY <1>1, <1>a, <2>1, <2>2, <2>3, <3>1
    <3>3. awaited' = One(callback_ \/ secondary_callbacks_)' /\ awaited' \in Nat
      BY <2>1, <2>3 DEF One
    <3> QED
      BY <2>1, <2>2, <2>3, <3>2, <3>3
  <2>4. CASE ~animator_alive
    BY <2>1, <2>2, <2>4
  <2>5. ~(animator_alive /\ callback_)
    <3>1. Await \in Nat \ {0} /\ One("vsync" \in fired) \in Nat
      BY <1>1, <2>2 DEF One
    <3>2. callback_ => One(callback_) = 1
      BY DEF One
    <3> QED
      BY <1>1, <3>1, <3>2
  <2> QED
    BY <2>3, <2>4, <2>5
<1>7. CASE SecondaryTask
  <2>1. /\ ui_tasks # <<>> /\ Head(ui_tasks) = "secondary" /\ ui_tasks' = Tail(ui_tasks)
        /\ UNCHANGED <<ui_pc, animatorVars, lifeVars, waiterVars, dart_paused>>
    BY <1>7 DEF SecondaryTask
  <2>2. ui_tasks' \in Seq(UiTask) /\ Await' = Await /\ Vsync' = Vsync
    BY <2>1, UiTaskBegun
  <2> QED
    BY <2>1, <2>2 DEF animatorVars, lifeVars, waiterVars
<1>8. CASE ScheduleSecondaryCallback
  <2>1. /\ UNCHANGED <<ui_tasks, ui_pc, animatorVars, lifeVars, callback_, fired,
                       dart_paused>>
        /\ ~secondary_callbacks_ /\ secondary_callbacks_' = TRUE
        /\ awaited' = IF callback_ THEN awaited ELSE awaited + 1
    BY <1>8 DEF ScheduleSecondaryCallback, AwaitUnless
  <2>2. OneVsyncAwaited'
    BY <2>1 DEF One
  <2> QED
    BY <2>1, <2>2 DEF animatorVars, lifeVars
<1>9. CASE TakeCallbacks
  <2>1. /\ UNCHANGED <<ui_tasks, ui_pc, animatorVars, lifeVars, dart_paused>>
        /\ fired = {} /\ awaited > 0 /\ awaited' = awaited - 1
        /\ fired' \subseteq {"vsync", "secondary"} /\ ("vsync" \in fired' <=> callback_)
        /\ callback_' = FALSE /\ secondary_callbacks_' = FALSE
    BY <1>9 DEF TakeCallbacks
  <2>2. One("vsync" \in fired)' = One(callback_) /\ One(callback_)' = 0
        /\ One("vsync" \in fired) = 0 /\ One(callback_) \in Nat
    BY <2>1 DEF One
  <2>3. OneRequestInFlight'
    BY <1>1, <2>1, <2>2 DEF animatorVars, lifeVars
  <2>4. OneVsyncAwaited' /\ awaited' \in Nat
    BY <2>1 DEF One
  <2> QED
    BY <2>1, <2>3, <2>4 DEF animatorVars, lifeVars
<1>10. CASE PostCallbacks
  <2> DEFINE posted == IF "vsync" \in fired THEN Append(ui_tasks, "vsync") ELSE ui_tasks
  <2>1. /\ UNCHANGED <<ui_pc, animatorVars, lifeVars, callback_, secondary_callbacks_,
                       awaited>>
        /\ fired' = {} /\ dart_paused' = dart_paused + One("vsync" \in fired)
        /\ ui_tasks' = IF "secondary" \in fired THEN Append(posted, "secondary") ELSE posted
    BY <1>10 DEF PostCallbacks
  <2>2. One("vsync" \in fired) = (IF "vsync" \in fired THEN 1 ELSE 0)
        /\ One("vsync" \in fired)' = 0 /\ One(callback_)' = One(callback_)
        /\ One(callback_) \in Nat /\ One(ui_pc = "vsync") \in Nat
    BY <2>1 DEF One
  <2>3. /\ posted \in Seq(UiTask) /\ Occurrences(posted, "await") = Await
        /\ Occurrences(posted, "vsync") = Vsync + One("vsync" \in fired)
    BY <1>1, <2>2, UiTaskPosted DEF UiTask
  <2> HIDE DEF posted
  <2>4. /\ ui_tasks' \in Seq(UiTask) /\ Await' = Await
        /\ Vsync' = Vsync + One("vsync" \in fired)
    <3>1. /\ Append(posted, "secondary") \in Seq(UiTask)
          /\ Occurrences(Append(posted, "secondary"), "await") = Occurrences(posted, "await")
          /\ Occurrences(Append(posted, "secondary"), "vsync") = Occurrences(posted, "vsync")
      BY <2>3, UiTaskPosted DEF UiTask
    <3>2. ui_tasks' = posted \/ ui_tasks' = Append(posted, "secondary")
      BY <2>1
    <3> QED
      BY <2>3, <3>1, <3>2
  <2>5. OneRequestInFlight'
    <3>1. /\ animator_alive' = animator_alive
          /\ pending_frame_semaphore_' = pending_frame_semaphore_
      BY <2>1 DEF animatorVars, lifeVars
    <3> HIDE DEF Await, Vsync
    <3>2. pending_frame_semaphore_ + Await + (Vsync + One("vsync" \in fired)) + 0
            + One(callback_)
          = pending_frame_semaphore_ + Await + Vsync + One("vsync" \in fired)
              + One(callback_)
      BY <1>1, <2>2
    <3>3. animator_alive => pending_frame_semaphore_ + Await + Vsync
                              + One("vsync" \in fired) + One(callback_) = 1
      BY <1>1 DEF Await, Vsync
    <3> QED
      BY <2>2, <2>4, <3>1, <3>2, <3>3 DEF Await, Vsync
  <2>6. PausedForVsyncOnly' /\ dart_paused' \in Nat
    BY <1>1, <2>1, <2>2, <2>4
  <2> QED
    BY <2>1, <2>4, <2>5, <2>6 DEF animatorVars, lifeVars
<1>11. CASE DestroyAnimator
  BY <1>1, <1>11 DEF DestroyAnimator, animatorVars, waiterVars, One
<1>12. CASE UNCHANGED requestVars /\ (ui_pc' = "vsync" <=> ui_pc = "vsync")
  BY <1>12 DEF requestVars, One
<1>13. CASE \/ BeginTask \/ Render \/ EndFrame \/ CommitSignal \/ OnAnimatorDraw \/ EndTask
            \/ RasterStep \/ UNCHANGED vars
  <2>1. UNCHANGED requestVars /\ (ui_pc' = "vsync" <=> ui_pc = "vsync")
    BY <1>13 DEF BeginTask, Render, EndFrame, CommitSignal, OnAnimatorDraw, EndTask,
      RasterStep, BeginDraw, Pop, DoDraw, Crash, Resubmit, SignalResubmitted, EndDraw,
      DrawLastLayerTrees, vars, uiVars, animatorVars, lifeVars, waiterVars, requestVars
  <2> QED
    BY <1>12, <2>1
<1> QED
  BY <1>2, <1>3, <1>4, <1>5, <1>6, <1>7, <1>8, <1>9, <1>10, <1>11, <1>12, <1>13
  DEF Next, UiStep, VsyncWithoutAnimator, ReuseLastLayerTrees, BeginFrame

LEMMA RequestInvInit == Init => PipelineTypeOK /\ OtherTypes /\ RequestInv
<1> SUFFICES ASSUME Init
             PROVE  PipelineTypeOK /\ OtherTypes /\ RequestInv
  OBVIOUS
<1>1. PipelineTypeOK
  BY AccountsInit DEF Init, Accounts
<1>2. requests \in 0 .. MaxRequests /\ null_item \in 0 .. MaxItems
  BY FrameLoopAssumption, DepthAssumption DEF Init
<1>3. OtherTypes
  <2>1. raster_tasks \in Seq({"draw", "more", "last"})
    BY DEF Init
  <2> QED
    BY <1>2, <2>1 DEF Init, OtherTypes
<1>4. RequestTypes
  <2>1. ui_tasks \in Seq(UiTask)
    BY DEF Init
  <2>2. pending_frame_semaphore_ \in 0 .. 1 /\ awaited \in Nat /\ dart_paused \in Nat
    BY DEF Init
  <2>3. animator_alive \in BOOLEAN /\ callback_ \in BOOLEAN /\ secondary_callbacks_ \in BOOLEAN
    BY DEF Init
  <2>4. fired \subseteq {"vsync", "secondary"}
    BY DEF Init
  <2> QED
    BY <2>1, <2>2, <2>3, <2>4 DEF RequestTypes
<1>5. ASSUME NEW e
      PROVE  Occurrences(ui_tasks, e) = 0
  <2>1. {i \in DOMAIN ui_tasks : ui_tasks[i] = e} = {}
    BY DEF Init
  <2> QED
    BY <2>1, FS_EmptySet DEF Occurrences
<1>6. OneRequestInFlight /\ OneVsyncAwaited
  BY <1>5 DEF Init, OneRequestInFlight, OneVsyncAwaited, One
<1>7. PausedForVsyncOnly
  BY <1>5 DEF Init, PausedForVsyncOnly, One
<1> QED
  BY <1>1, <1>3, <1>4, <1>6, <1>7 DEF RequestInv

(* However requests, vsyncs, secondary callbacks and frames interleave, a  *)
(* request for a frame is in one place until it is answered, the waiter    *)
(* awaits one vsync for all of them, and the Dart event loop is paused     *)
(* only for vsync tasks that are posted and have not returned; whenever    *)
(* the animator is destroyed.                                              *)
THEOREM OneFrameRequested == Spec => [](TypeOK /\ OneFrameAtATime /\ PausedForVsyncOnly)
<1>1. OtherTypes /\ PipelineTypeOK /\ PipelineTypeOK' /\ [Next]_vars => OtherTypes'
  BY OtherTypesStep
<1>2. RequestInv /\ OtherTypes /\ [Next]_vars => RequestInv'
  BY RequestInvStep
<1>3. Spec => []PipelineTypeOK
  BY FrameLoopKeepsOrder, PTL
<1>4. Spec => [](PipelineTypeOK /\ OtherTypes /\ RequestInv)
  BY RequestInvInit, <1>1, <1>2, <1>3, PTL DEF Spec
<1>5. PipelineTypeOK /\ OtherTypes /\ RequestInv
        => TypeOK /\ OneFrameAtATime /\ PausedForVsyncOnly
  BY TypesSplit DEF RequestInv, OneFrameAtATime
<1> QED
  BY <1>4, <1>5, PTL

-----------------------------------------------------------------------------
(* Stalls.                                                                 *)

(* What a Draw has taken it has yet to finish, and it has a frame as long  *)
(* as the animator lives: only ~Animator commits items without one.        *)
DrawUnderWay ==
  /\ consumer # "idle" => raster_pc \in {"draw", "crashed"}
  /\ raster_pc = "crashed" => consumer = "running" /\ item = null_item
  /\ \A i \in DOMAIN queue_ : queue_[i] > 0
  /\ consumer \in {"running", "consumed", "holding"} => item > 0
  /\ animator_alive => null_item = 0

StallInv ==
  /\ PipelineTypeOK
  /\ ItemsAccounted
  /\ OtherTypes
  /\ animator_alive \in BOOLEAN
  /\ DrawUnderWay

LEMMA StallInvInit == Init => DrawUnderWay
BY DEF Init, PipelineInit, DrawUnderWay

LEMMA DrawsAppended ==
  ASSUME NEW T, NEW s \in Seq(T), NEW x \in T
  PROVE  /\ Draws(s) => Draws(Append(s, x))
         /\ x \in {"draw", "more"} => Draws(Append(s, x))
<1>1. /\ DOMAIN s = 1 .. Len(s) /\ Len(s) \in Nat
      /\ DOMAIN Append(s, x) = 1 .. Len(s) + 1
      /\ \A i \in 1 .. Len(s) : Append(s, x)[i] = s[i]
      /\ Append(s, x)[Len(s) + 1] = x
  OBVIOUS
<1>2. ASSUME Draws(s)
      PROVE  Draws(Append(s, x))
  <2>1. PICK i \in DOMAIN s : s[i] \in {"draw", "more"}
    BY <1>2 DEF Draws
  <2>2. i \in DOMAIN Append(s, x) /\ Append(s, x)[i] = s[i]
    BY <1>1
  <2> QED
    BY <2>1, <2>2 DEF Draws
<1>3. ASSUME x \in {"draw", "more"}
      PROVE  Draws(Append(s, x))
  <2>1. Len(s) + 1 \in DOMAIN Append(s, x)
    BY <1>1
  <2> QED
    BY <1>1, <1>3, <2>1 DEF Draws
<1> QED
  BY <1>2, <1>3

LEMMA DrawsLeft ==
  ASSUME NEW T, NEW s \in Seq(T), s # <<>>, Head(s) \notin {"draw", "more"}, Draws(s)
  PROVE  Draws(Tail(s))
<1>1. PICK i \in DOMAIN s : s[i] \in {"draw", "more"}
  BY DEF Draws
<1>2. /\ DOMAIN s = 1 .. Len(s) /\ Len(s) \in Nat /\ Head(s) = s[1]
      /\ DOMAIN Tail(s) = 1 .. Len(s) - 1
      /\ \A j \in 1 .. Len(s) - 1 : Tail(s)[j] = s[j + 1]
  OBVIOUS
<1>3. i # 1
  BY <1>1, <1>2
<1>4. i - 1 \in DOMAIN Tail(s) /\ Tail(s)[i - 1] = s[i]
  BY <1>2, <1>3
<1> QED
  BY <1>1, <1>4 DEF Draws

LEMMA DrawUnderWayStep ==
  ASSUME StallInv, [Next]_vars
  PROVE  DrawUnderWay'
<1> USE DEF StallInv, DrawUnderWay
<1>1. CASE EndFrame
  <2>1. /\ UNCHANGED <<consumer, item, raster_pc, animator_alive, null_item>>
        /\ queue_' = queue_ \/ queue_' = Append(queue_, produced + 1)
    BY <1>1 DEF EndFrame, ProducerCommit, pipelineVars, lifeVars, rasterVars
  <2>2. produced + 1 \in Nat /\ produced + 1 > 0 /\ queue_ \in Seq(Nat)
    BY DepthAssumption DEF PipelineTypeOK
  <2>3. \A i \in DOMAIN queue_' : queue_'[i] > 0
    BY <2>1, <2>2
  <2> QED
    BY <2>1, <2>3
<1>2. CASE DestroyAnimator
  <2>1. /\ UNCHANGED <<consumer, item, raster_pc>> /\ animator_alive /\ ~animator_alive'
        /\ queue_' = queue_ \/ queue_' = Append(queue_, produced + 1)
    BY <1>2 DEF DestroyAnimator, ProducerCommit, pipelineVars, rasterVars
  <2>2. produced + 1 \in Nat /\ produced + 1 > 0 /\ queue_ \in Seq(Nat)
    BY DepthAssumption DEF PipelineTypeOK
  <2>3. \A i \in DOMAIN queue_' : queue_'[i] > 0
    BY <2>1, <2>2
  <2>4. raster_pc # "crashed"
    BY <2>1
  <2> QED
    BY <2>1, <2>3, <2>4
<1>3. CASE BeginFrame \/ CommitSignal
  BY <1>3 DEF BeginFrame, CommitSignal, Produce, ProducerSignal, pipelineVars, uiVars,
    lifeVars, rasterVars
<1>4. CASE \/ OnAnimatorDraw \/ EndTask \/ VsyncWithoutAnimator
           \/ ReuseLastLayerTrees \/ PipelineFull \/ EndVsyncTask \/ AwaitVSync
           \/ SecondaryTask \/ BeginTask \/ ScheduleFrame \/ Render
           \/ ScheduleSecondaryCallback \/ TakeCallbacks \/ PostCallbacks
           \/ UNCHANGED vars
  <2>1. UNCHANGED <<consumer, item, queue_, raster_pc, animator_alive, null_item>>
    BY <1>4 DEF OnAnimatorDraw, EndTask, VsyncWithoutAnimator, ReuseLastLayerTrees,
      PipelineFull, EndVsyncTask, AwaitVSync, SecondaryTask, BeginTask, ScheduleFrame,
      Render, ScheduleSecondaryCallback, TakeCallbacks, PostCallbacks, vars,
      pipelineVars, uiVars, lifeVars, rasterVars
  <2> QED
    BY <2>1
<1>5. CASE BeginDraw
  BY <1>5 DEF BeginDraw, ConsumeTryWait, pipelineVars, uiVars, lifeVars
<1>6. CASE Pop
  <2>1. /\ UNCHANGED <<raster_pc, animator_alive, null_item>>
        /\ consumer = "taken" /\ consumer' = "running"
        /\ item' = Head(queue_) /\ queue_' = Tail(queue_)
    BY <1>6 DEF Pop, ConsumePop, uiVars, lifeVars
  <2>2. Len(queue_) > 0 /\ queue_ \in Seq(Nat)
    BY <2>1 DEF ItemsAccounted, PipelineTypeOK, One, ProducerState
  <2>3. /\ item' > 0
        /\ \A i \in DOMAIN queue_' : queue_'[i] > 0
    BY <2>1, <2>2
  <2> QED
    BY <2>1, <2>3
<1>7. CASE DoDraw
  <2>1. /\ UNCHANGED <<queue_, item, raster_pc, animator_alive, null_item>>
        /\ consumer = "running" /\ consumer' = "consumed" /\ item # null_item
    BY <1>7 DEF DoDraw, ConsumeRelease, uiVars, lifeVars
  <2> QED
    BY <2>1
<1>8. CASE Crash
  BY <1>8 DEF Crash, pipelineVars, uiVars, lifeVars
<1>9. CASE Resubmit
  <2>1. /\ UNCHANGED <<item, raster_pc, animator_alive, null_item>>
        /\ consumer \in {"consumed", "holding"}
        /\ consumer' \in {"holding", "idle", "pushed"}
        /\ queue_' = queue_ \/ queue_' = Append(queue_, item)
        /\ consumer' = "holding" => consumer = "consumed"
    BY <1>9 DEF Resubmit, ProduceIfEmpty, ConsumeReturn, ProducerCommitIfEmpty, uiVars,
      rasterVars, lifeVars
  <2>2. item \in Nat /\ queue_ \in Seq(Nat) /\ item > 0
    BY <2>1 DEF PipelineTypeOK
  <2>3. \A i \in DOMAIN queue_' : queue_'[i] > 0
    BY <2>1, <2>2
  <2> QED
    BY <2>1, <2>2, <2>3
<1>10. CASE SignalResubmitted \/ EndDraw
  <2>1. /\ UNCHANGED <<queue_, item, animator_alive, null_item>>
        /\ consumer # "running" /\ consumer' = "idle" /\ raster_pc' \in {"idle", raster_pc}
    BY <1>10 DEF SignalResubmitted, ResubmitSignal, EndDraw, pipelineVars, uiVars, lifeVars
  <2> QED
    BY <2>1
<1>11. CASE DrawLastLayerTrees
  BY <1>11 DEF DrawLastLayerTrees, pipelineVars, uiVars, lifeVars
<1> QED
  BY <1>1, <1>2, <1>3, <1>4, <1>5, <1>6, <1>7, <1>8, <1>9, <1>10, <1>11
  DEF Next, UiStep, RasterStep

(* A step that leaves queue and Draws as they are.                         *)
LEMMA NoStallElsewhere ==
  ASSUME ~Stalled, Stalled',
         animator_alive' => animator_alive,
         queue_' # <<>> => queue_ # <<>>,
         notify => notify', more' = more, raster_pc' = raster_pc,
         Draws(raster_tasks) => Draws(raster_tasks)',
         consumer \in {"taken", "pushed"} => consumer' \in {"taken", "pushed"}
  PROVE  FALSE
BY DEF Stalled, DrawIsComing

(* Each step that could leave a queued frame without a Draw brings one.    *)
LEMMA StallStep ==
  ASSUME StallInv, ~Stalled, Stalled', [Next]_vars
  PROVE  producer = "pushed" /\ available_ = 0
<1> USE DEF StallInv, DrawUnderWay
<1>q. queue_ \in Seq(Nat)
  BY DEF PipelineTypeOK
<1>t. raster_tasks \in Seq({"draw", "more", "last"})
  BY DEF OtherTypes
<1>1. CASE EndFrame
  <2>1. /\ UNCHANGED <<consumer, raster_pc, raster_tasks, more, animator_alive>>
        /\ \/ notify' = (queue_ = <<>>) /\ ~notify
           \/ UNCHANGED <<queue_, notify>>
    BY <1>1 DEF EndFrame, InFramework, UiFree, ProducerCommit, pipelineVars, lifeVars,
      rasterVars
  <2>2. CASE queue_ = <<>>
    BY <2>1, <2>2 DEF Stalled, DrawIsComing
  <2>3. CASE queue_ # <<>>
    BY <2>1, <2>3, NoStallElsewhere
  <2> QED
    BY <2>2, <2>3
<1>2. CASE DestroyAnimator
  BY <1>2 DEF DestroyAnimator, Stalled
<1>3. CASE BeginFrame \/ CommitSignal
  <2>1. UNCHANGED <<consumer, queue_, raster_pc, raster_tasks, more, notify, animator_alive>>
    BY <1>3 DEF BeginFrame, CommitSignal, Produce, ProducerSignal, pipelineVars, uiVars,
      lifeVars, rasterVars
  <2> QED
    BY <2>1, NoStallElsewhere
<1>4. CASE \/ EndTask \/ VsyncWithoutAnimator \/ PipelineFull \/ EndVsyncTask
           \/ AwaitVSync \/ SecondaryTask \/ BeginTask \/ ScheduleFrame \/ Render
           \/ ScheduleSecondaryCallback \/ TakeCallbacks \/ PostCallbacks
           \/ UNCHANGED vars
  <2>1. UNCHANGED <<consumer, queue_, raster_pc, raster_tasks, more, notify, animator_alive>>
    BY <1>4 DEF EndTask, VsyncWithoutAnimator, PipelineFull, EndVsyncTask, AwaitVSync,
      SecondaryTask, BeginTask, ScheduleFrame, Render, ScheduleSecondaryCallback,
      TakeCallbacks, PostCallbacks, vars, pipelineVars, uiVars, lifeVars, rasterVars
  <2> QED
    BY <2>1, NoStallElsewhere
<1>5. CASE OnAnimatorDraw
  <2>1. Draws(raster_tasks')
    BY <1>5, <1>t, DrawsAppended DEF OnAnimatorDraw
  <2> QED
    BY <2>1 DEF Stalled, DrawIsComing
<1>6. CASE ReuseLastLayerTrees
  <2>1. /\ UNCHANGED <<consumer, queue_, raster_pc, more, notify, animator_alive>>
        /\ raster_tasks' = Append(raster_tasks, "last")
    BY <1>6 DEF ReuseLastLayerTrees, pipelineVars, lifeVars
  <2>2. Draws(raster_tasks) => Draws(raster_tasks')
    BY <1>t, <2>1, DrawsAppended
  <2> QED
    BY <2>1, <2>2, NoStallElsewhere
<1>7. CASE BeginDraw
  <2>1. CASE ConsumeTryWait /\ raster_pc' = "draw"
    BY <2>1 DEF ConsumeTryWait, Stalled, DrawIsComing
  <2>2. CASE ~PipelineAlive \/ available_ = 0
    <3>1. animator_alive /\ available_ = 0
      BY <1>7, <2>2 DEF BeginDraw, PipelineAlive, Stalled, uiVars, lifeVars
    <3>2. raster_pc = "idle" /\ consumer = "idle"
      BY <1>7 DEF BeginDraw
    <3>3. queue_ # <<>>
      BY <1>7, <3>1 DEF BeginDraw, ConsumeTryWait, Stalled, pipelineVars
    <3>4. Len(queue_) > 0
      BY <1>q, <3>3
    <3> QED
      BY <3>1, <3>2, <3>4 DEF ItemsAccounted, One
  <2> QED
    BY <1>7, <2>1, <2>2 DEF BeginDraw
<1>8. CASE Pop
  <2>1. /\ consumer = "taken" /\ queue_' = Tail(queue_) /\ more' = (Len(queue_) > 1)
        /\ raster_pc' = raster_pc
    BY <1>8 DEF Pop, ConsumePop
  <2>2. raster_pc = "draw" /\ queue_' # <<>>
    BY <2>1 DEF Stalled, OtherTypes
  <2>3. Len(queue_) > 0
    BY <1>q, <2>1 DEF ItemsAccounted, PipelineTypeOK, One, ProducerState
  <2>4. Len(queue_) > 1
    BY <1>q, <2>1, <2>2, <2>3
  <2> QED
    BY <2>1, <2>2, <2>4 DEF Stalled, DrawIsComing
<1>9. CASE DoDraw
  <2>1. UNCHANGED <<queue_, raster_pc, raster_tasks, more, notify, animator_alive>>
        /\ consumer = "running"
    BY <1>9 DEF DoDraw, ConsumeRelease, uiVars, lifeVars
  <2> QED
    BY <2>1, NoStallElsewhere
<1>10. CASE Crash
  BY <1>10 DEF Crash, Stalled, uiVars, lifeVars
<1>11. CASE Resubmit
  <2>1. /\ UNCHANGED <<raster_pc, raster_tasks, more, notify, animator_alive>>
        /\ consumer \in {"consumed", "holding"}
        /\ consumer' = "pushed" \/ queue_' = queue_
    BY <1>11 DEF Resubmit, ProduceIfEmpty, ConsumeReturn, ProducerCommitIfEmpty, uiVars,
      rasterVars, lifeVars
  <2>2. raster_pc = "draw"
    BY <2>1
  <2>3. CASE consumer' = "pushed"
    BY <2>1, <2>2, <2>3 DEF Stalled, DrawIsComing
  <2>4. CASE queue_' = queue_
    BY <2>1, <2>4, NoStallElsewhere
  <2> QED
    BY <2>1, <2>3, <2>4
<1>12. CASE SignalResubmitted
  <2>1. more' = TRUE /\ raster_pc' = raster_pc /\ consumer = "pushed"
    BY <1>12 DEF SignalResubmitted, ResubmitSignal
  <2> QED
    BY <2>1 DEF Stalled, DrawIsComing, OtherTypes
<1>13. CASE EndDraw
  <2>1. /\ UNCHANGED <<queue_, notify, animator_alive>> /\ consumer = "idle"
        /\ raster_tasks' = IF more THEN Append(raster_tasks, "more") ELSE raster_tasks
    BY <1>13 DEF EndDraw, pipelineVars, uiVars, lifeVars
  <2>2. more \/ Draws(raster_tasks) => Draws(raster_tasks')
    BY <1>t, <2>1, DrawsAppended
  <2> QED
    BY <2>1, <2>2 DEF Stalled, DrawIsComing
<1>14. CASE DrawLastLayerTrees
  <2>1. /\ UNCHANGED <<consumer, queue_, raster_pc, more, notify, animator_alive>>
        /\ raster_tasks # <<>> /\ Head(raster_tasks) = "last"
        /\ raster_tasks' = Tail(raster_tasks)
    BY <1>14 DEF DrawLastLayerTrees, pipelineVars, uiVars, lifeVars
  <2>2. Draws(raster_tasks) => Draws(raster_tasks')
    BY <1>t, <2>1, DrawsLeft
  <2> QED
    BY <2>1, <2>2, NoStallElsewhere
<1> QED
  BY <1>1, <1>2, <1>3, <1>4, <1>5, <1>6, <1>7, <1>8, <1>9, <1>10, <1>11, <1>12, <1>13,
    <1>14
  DEF Next, UiStep, RasterStep

(* For every depth of the pipeline and any number of frames and requests,  *)
(* resubmissions, dropped frames and draws of the last layer trees among   *)
(* them: the Draws that are posted suffice, but for the one that looks     *)
(* between the push of a frame and its signal.                             *)
THEOREM DrawsSuffice == Spec => StallsInCommitOnly
<1>1. Spec => [](PipelineTypeOK /\ ItemsAccounted)
  BY FrameLoopKeepsOrder, PTL
<1>2. Spec => [](OtherTypes /\ animator_alive \in BOOLEAN)
  <2>1. TypeOK => OtherTypes /\ animator_alive \in BOOLEAN
    BY DEF TypeOK, OtherTypes
  <2> QED
    BY <2>1, OneFrameRequested, PTL
<1>3. StallInv /\ [Next]_vars => DrawUnderWay'
  BY DrawUnderWayStep
<1>4. PipelineTypeOK /\ ItemsAccounted /\ OtherTypes /\ animator_alive \in BOOLEAN
        /\ DrawUnderWay => StallInv
  BY DEF StallInv
<1>5. Spec => []StallInv
  BY StallInvInit, <1>1, <1>2, <1>3, <1>4, PTL DEF Spec
<1>6. StallInv /\ [Next]_vars
        => [~Stalled /\ Stalled' => producer = "pushed" /\ available_ = 0]_vars
  BY StallStep
<1> QED
  BY <1>5, <1>6, PTL DEF Spec, StallsInCommitOnly

=============================================================================
