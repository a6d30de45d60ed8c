------------------------- MODULE ThreadMerger_proofs -------------------------
(***************************************************************************)
(* For any number of engines that share a platform and a raster thread,    *)
(* any lease and any bounds: the queues are merged exactly while some      *)
(* engine has a lease left (LeasesMatchQueues), as long as the rest of the *)
(* draw that merges is not overtaken by a lease's worth of draws           *)
(* (OverlapAssumption).                                                    *)
(***************************************************************************)
EXTENDS ThreadMerger, QueueTopology_proofs

(* A task that has been started to draw and has not yet counted the lease  *)
(* down.                                                                   *)
Drawing == {"check", "preroll", "extend", "extendLease", "decrement", "decrementLease"}

Merged == Owns(platform, raster)

(* A thread that is not idle works for an engine.                          *)
WorksForAnEngine == \A t \in Queue : pc[t] # "idle" => engine[t] \in Merger

(* SharedThreadMerger::mutex_ is held across two steps only, and then the  *)
(* leases say that nothing is merged.                                      *)
SharedIsHeld ==
  /\ shared # Nobody => pc[shared] \in {"recordLease", "unmergeQueues"}
  /\ \A t \in Queue : pc[t] \in {"recordLease", "unmergeQueues"} =>
       shared = t /\ ~IsMerged

LeasesFollowQueues ==
  /\ IsMerged => Merged
  /\ Merged /\ ~IsMerged => shared # Nobody
  /\ pc[raster] = "recordLease" => Merged

(* The platform thread never merges, and draws only what is lent to it.    *)
PlatformPlaces ==
  /\ pc[platform] \notin {"merge", "mergeQueues", "recordLease"}
  /\ pc[platform] \in Drawing => Merged
  /\ pc[platform] \in {"preroll", "extend", "extendLease"} => IsMerged

(* While the queues are merged the raster thread is idle or in the rest of *)
(* the draw that has merged them.                                          *)
RasterPlaces ==
  /\ pc[raster] \notin {"extend", "extendLease"}
  /\ Merged => pc[raster] \in {"idle", "recordLease", "decrement", "decrementLease"}

(* That rest is not the one that ends the last lease: the draws of the     *)
(* platform thread in the meantime have not used it up.                    *)
LeaseOutlastsOverlap ==
  /\ overlap <= MaxOverlap
  /\ Merged /\ pc[raster] # "idle" /\ pc[platform] \in Drawing => overlap > 0
  /\ Merged /\ pc[raster] \in {"decrement", "decrementLease"}
       /\ lease[engine[raster]] # NoLease =>
     lease[engine[raster]] + overlap
       >= LeaseTerm + (IF pc[platform] \in Drawing THEN 1 ELSE 0)

MergerInv ==
  /\ TypeOK /\ MergeTopology
  /\ WorksForAnEngine /\ SharedIsHeld /\ LeasesFollowQueues
  /\ PlatformPlaces /\ RasterPlaces /\ LeaseOutlastsOverlap

-----------------------------------------------------------------------------
(* How a step of thread t moves the threads: t comes to label, and the     *)
(* other stays where it is, unless t lets it go from a latch or wakes it.  *)

Stays(q) == pc'[q] = pc[q] /\ engine'[q] = engine[q]

Goes(t, label) ==
  /\ pc' \in [Queue -> Label] /\ engine' \in [Queue -> Merger \cup {Nobody}]
  /\ pc'[t] = label /\ (label # "idle" => engine'[t] \in Merger)
  /\ \A q \in Queue \ {t} :
       \/ Stays(q)
       \/ pc[q] = "latched" /\ pc'[q] = "idle"
       \/ pc[q] = "waiting" /\ pc'[q] = "woken" /\ engine'[q] = engine[q]

LEMMA GoToGoes ==
  ASSUME TypeOK, NEW t \in Queue, NEW label \in Label, GoTo(t, label),
         engine' = engine, engine[t] \in Merger
  PROVE  Goes(t, label) /\ engine'[t] = engine[t]
BY DEF TypeOK, GoTo, Goes, Stays

LEMMA NotifyGoes ==
  ASSUME TypeOK, NEW t \in Queue, NEW label \in Label, NotifyAndGoTo(t, label),
         engine' = engine, engine[t] \in Merger
  PROVE  Goes(t, label) /\ engine'[t] = engine[t]
<1>1. "woken" \in Label
  BY DEF Label
<1>2. pc' \in [Queue -> Label]
  BY <1>1 DEF TypeOK, NotifyAndGoTo
<1>3. QED
  BY <1>2 DEF TypeOK, NotifyAndGoTo, Goes, Stays

LEMMA EndGoes ==
  ASSUME TypeOK, NEW t \in Queue, End(t)
  PROVE  Goes(t, "idle")
<1>1. "idle" \in Label
  BY DEF Label
<1>2. pc' \in [Queue -> Label] /\ engine' \in [Queue -> Merger \cup {Nobody}]
  BY <1>1 DEF TypeOK, End
<1>3. t \in Released(t) /\ \A q \in Released(t) \ {t} : pc[q] = "latched"
  BY DEF Released
<1>4. QED
  BY <1>2, <1>3 DEF TypeOK, End, Goes, Stays

-----------------------------------------------------------------------------

(* A step that only moves a thread, to a place where it may be, keeps the  *)
(* invariant.                                                              *)
MayGo(t, label) ==
  /\ {pc[t], label} \cap {"recordLease", "unmergeQueues"} = {}
  /\ t = platform =>
       /\ label \notin {"merge", "mergeQueues"}
       /\ label \in Drawing => pc[t] \in Drawing
       /\ label \in {"preroll", "extend", "extendLease"} => IsMerged
  /\ t = raster =>
       /\ label \notin {"extend", "extendLease"}
       /\ Merged => \/ label = "idle"
                    \/ /\ label = "decrementLease" /\ pc[t] = "decrement"
                       /\ engine'[t] = engine[t]

LEMMA MoveKeeps ==
  ASSUME MergerInv, TypeOK', NEW t \in Queue, NEW label \in Label,
         Goes(t, label), MayGo(t, label),
         UNCHANGED <<topology, lease, shared, overlap>>
  PROVE  MergerInv'
<1> USE PairAssumption
<1>1. \A q \in Queue : \/ pc'[q] = label /\ q = t
                       \/ Stays(q) /\ q # t
                       \/ /\ pc[q] \in {"latched", "waiting"}
                          /\ pc'[q] \in {"idle", "woken"} /\ q # t
  BY DEF Goes
<1>2. UNCHANGED IsMerged /\ UNCHANGED Merged /\ UNCHANGED topology
  BY DEF IsMerged, Merged, Owns, topology, AllZero
<1>3. MergeTopology'
  BY <1>2 DEF MergerInv, MergeTopology, topology, OneOwnerPerQueue, OwnerNeverSubsumed,
     NoDanglingEntry, ErasedIsIndependent, IsSubsumed
<1>4. WorksForAnEngine'
  BY DEF MergerInv, WorksForAnEngine, Goes, Stays
<1>5. SharedIsHeld'
  <2>1. \A q \in Queue :
          \/ pc'[q] = pc[q]
          \/ {pc[q], pc'[q]} \cap {"recordLease", "unmergeQueues"} = {}
    BY <1>1 DEF MayGo, Stays
  <2>2. shared = Nobody \/ shared \in Queue
    BY DEF MergerInv, TypeOK
  <2>3. QED
    BY <1>2, <2>1, <2>2 DEF MergerInv, SharedIsHeld
<1>6. LeasesFollowQueues'
  BY <1>1, <1>2 DEF MergerInv, LeasesFollowQueues, MayGo, Stays
<1>7. PlatformPlaces'
  BY <1>1, <1>2 DEF MergerInv, PlatformPlaces, MayGo, Stays, Drawing
<1>8. RasterPlaces'
  BY <1>1, <1>2 DEF MergerInv, RasterPlaces, MayGo, Stays
<1>9. LeaseOutlastsOverlap'
  <2>1. pc'[platform] \in Drawing => pc[platform] \in Drawing
    BY <1>1 DEF MayGo, Stays, Drawing
  <2>2. Merged => \/ Stays(raster)
                  \/ pc'[raster] \in {"idle", "woken"}
                  \/ /\ pc'[raster] = "decrementLease" /\ pc[raster] = "decrement"
                     /\ engine'[raster] = engine[raster]
    BY <1>1 DEF MayGo
  <2>3. Merged => pc'[raster] # "woken"
    BY <1>1, <1>2, <1>8 DEF RasterPlaces
  <2>4. overlap \in Nat /\ lease \in [Merger -> 0 .. LeaseTerm \cup {NoLease}]
    BY DEF MergerInv, TypeOK, counters
  <2>5. Merged /\ pc'[raster] # "idle" => engine'[raster] = engine[raster]
                                         /\ pc[raster] # "idle"
    BY <2>2, <2>3 DEF Stays
  <2>6. Merged /\ pc[raster] # "idle" => engine[raster] \in Merger
    BY DEF MergerInv, WorksForAnEngine
  <2>7. (Merged /\ pc[raster] # "idle" /\ pc[platform] \in Drawing => overlap > 0)'
    BY <1>2, <2>1, <2>5 DEF MergerInv, LeaseOutlastsOverlap
  <2>8. Merged /\ pc'[raster] \in {"decrement", "decrementLease"}
          => pc[raster] \in {"decrement", "decrementLease"}
    BY <2>2 DEF Stays
  <2>9. QED
    BY <1>2, <2>1, <2>4, <2>5, <2>6, <2>7, <2>8, LeaseAssumption
    DEF MergerInv, LeaseOutlastsOverlap
<1>10. QED
  BY <1>3, <1>4, <1>5, <1>6, <1>7, <1>8, <1>9 DEF MergerInv

-----------------------------------------------------------------------------
(* The steps that only move a thread.                                      *)

LEMMA MoveKeepsTypes ==
  ASSUME TypeOK, NEW t \in Queue, NEW label \in Label, Goes(t, label),
         UNCHANGED <<topology, lease, shared, counters>>,
         enabled_' \in BOOLEAN, own' \in [Merger -> Queue \cup {Nobody}],
         shown' \in [Merger -> BOOLEAN], surface_' \in [Merger -> BOOLEAN],
         posted' \in Seq([engine : Merger, task : {"setUp", "tearDown"}]),
         aborted' = aborted
  PROVE  TypeOK'
BY DEF TypeOK, TopologyTypeOK, Goes, topology, counters

LEMMA Workers ==
  ASSUME MergerInv, NEW t \in Queue, pc[t] # "idle"
  PROVE  engine[t] \in Merger
BY DEF MergerInv, WorksForAnEngine

(* Where the raster thread is, nothing is merged.                          *)
LEMMA NotMerged ==
  ASSUME MergerInv,
         pc[raster] \notin {"idle", "recordLease", "decrement", "decrementLease"}
  PROVE  ~Merged /\ ~IsMerged
BY DEF MergerInv, RasterPlaces, LeasesFollowQueues

(* A raster task is started by the thread that the queue is lent to.       *)
LEMMA RunnerOfRaster ==
  ASSUME MergerInv
  PROVE  Runner(raster) = IF Merged THEN platform ELSE raster
<1>1. /\ subsumed_by[raster] \in {platform, raster, kUnmerged}
      /\ \A q \in Queue : Owns(q, raster) <=> subsumed_by[raster] = q
      /\ owner_of[raster] # {} => ~IsSubsumed(raster)
      /\ kUnmerged \notin {platform, raster}
  BY PairAssumption, UnmergedAssumption
  DEF MergerInv, TypeOK, TopologyTypeOK, MergeTopology, OneOwnerPerQueue,
      OwnerNeverSubsumed, Owns
<1>2. subsumed_by[raster] # raster
  BY <1>1, PairAssumption DEF Owns, IsSubsumed
<1>3. QED
  BY <1>1, <1>2, PairAssumption DEF Runner, IsSubsumed, Merged

LEMMA HeadTailType ==
  ASSUME NEW S, NEW s \in Seq(S), s # <<>>
  PROVE  Head(s) \in S /\ Tail(s) \in Seq(S)
OBVIOUS

LEMMA StartPostedKeeps ==
  ASSUME MergerInv, NEW t \in Queue, StartPosted(t)
  PROVE  MergerInv'
<1> DEFINE label == Head(posted).task
<1>1. /\ posted \in Seq([engine : Merger, task : {"setUp", "tearDown"}])
      /\ posted # <<>> /\ TypeOK
  BY DEF StartPosted, MergerInv, TypeOK
<1>2. /\ Head(posted) \in [engine : Merger, task : {"setUp", "tearDown"}]
      /\ Tail(posted) \in Seq([engine : Merger, task : {"setUp", "tearDown"}])
  BY <1>1, HeadTailType
<1>3. label \in {"setUp", "tearDown"} /\ Head(posted).engine \in Merger
  BY <1>2
<1>4. label \in Label
  BY <1>3 DEF Label
<1>5. Goes(t, label)
  BY <1>1, <1>3, <1>4 DEF StartPosted, GoTo, Goes, Stays, TypeOK
<1>6. TypeOK'
  BY <1>1, <1>2, <1>4, <1>5, MoveKeepsTypes
  DEF StartPosted, TypeOK
<1>7. t = raster => ~Merged
  BY RunnerOfRaster, PairAssumption DEF StartPosted
<1>8. MayGo(t, label)
  BY <1>3, <1>7 DEF MayGo, StartPosted, Drawing
<1>9. QED
  BY <1>4, <1>5, <1>6, <1>8, MoveKeeps DEF StartPosted, counters

(* The steps of Rasterizer::Draw that read the leases or give up.          *)
LEMMA DrawMovesKeep ==
  ASSUME MergerInv, NEW t \in Queue,
         CheckThread(t) \/ Yield(t) \/ NothingDrawn(t) \/ Preroll(t)
  PROVE  MergerInv'
<1> USE PairAssumption
<1>1. TypeOK
  BY DEF MergerInv
<1>2. CASE CheckThread(t)
  <2>1. PICK label \in {"preroll", "yield"} :
          GoTo(t, label) /\ (label = "preroll" => IsOnRasterizingThread(t))
    BY <1>2 DEF CheckThread
  <2>2. label \in Label
    BY DEF Label
  <2>3. Goes(t, label)
    BY <1>1, <1>2, <2>1, <2>2, GoToGoes, Workers DEF CheckThread
  <2>4. TypeOK'
    BY <1>1, <1>2, <2>2, <2>3, MoveKeepsTypes DEF CheckThread, TypeOK, surfaceVars
  <2>5. MayGo(t, label)
    BY <1>2, <2>1, NotMerged
    DEF CheckThread, MayGo, IsOnRasterizingThread, Drawing
  <2>6. QED
    BY <1>2, <2>2, <2>3, <2>4, <2>5, MoveKeeps DEF CheckThread, counters
<1>3. CASE Yield(t) \/ NothingDrawn(t)
  <2>1. "idle" \in Label
    BY DEF Label
  <2>2. Goes(t, "idle")
    BY <1>1, <1>3, EndGoes DEF Yield, NothingDrawn
  <2>3. TypeOK'
    BY <1>1, <1>3, <2>1, <2>2, MoveKeepsTypes
    DEF Yield, NothingDrawn, TypeOK, surfaceVars
  <2>4. MayGo(t, "idle")
    BY <1>3 DEF Yield, NothingDrawn, MayGo, Drawing
  <2>5. QED
    BY <1>3, <2>1, <2>2, <2>3, <2>4, MoveKeeps DEF Yield, NothingDrawn, counters
<1>4. CASE Preroll(t)
  <2>1. PICK label \in {"decrement", "extend", "merge"} :
          /\ GoTo(t, label)
          /\ label = "extend" => IsMerged
          /\ label = "merge" => ~IsMerged
    BY <1>4 DEF Preroll
  <2>2. label \in Label
    BY DEF Label
  <2>3. Goes(t, label)
    BY <1>1, <1>4, <2>1, <2>2, GoToGoes, Workers DEF Preroll
  <2>4. TypeOK'
    BY <1>1, <1>4, <2>2, <2>3, MoveKeepsTypes DEF Preroll, TypeOK, surfaceVars
  <2>5. t = platform => IsMerged
    BY <1>4 DEF Preroll, MergerInv, PlatformPlaces
  <2>6. MayGo(t, label)
    BY <1>4, <2>1, <2>5, NotMerged DEF Preroll, MayGo, Drawing
  <2>7. QED
    BY <1>4, <2>2, <2>3, <2>4, <2>6, MoveKeeps DEF Preroll, counters
<1>5. QED
  BY <1>2, <1>3, <1>4

(* The locked sections of RasterThreadMerger before the shared merger is   *)
(* called.                                                                 *)
LEMMA BeginsKeep ==
  ASSUME MergerInv, NEW t \in Queue,
         BeginMerge(t) \/ BeginExtend(t) \/ BeginDecrement(t) \/ BeginUnmergeNow(t)
  PROVE  MergerInv'
<1> USE PairAssumption
<1>1. TypeOK /\ engine[t] \in Merger
  BY Workers
  DEF MergerInv, BeginMerge, BeginExtend, BeginDecrement, BeginUnmergeNow
<1>2. own' \in [Merger -> Queue \cup {Nobody}]
  BY <1>1
  DEF TypeOK, BeginMerge, BeginExtend, BeginDecrement, BeginUnmergeNow, LockOwn
<1>3. CASE BeginMerge(t)
  <2>1. t # platform
    BY <1>3 DEF BeginMerge, MergerInv, PlatformPlaces
  <2>2. PICK label \in {"decrement", "mergeQueues"} :
          GoTo(t, label) \/ NotifyAndGoTo(t, label)
    BY <1>3 DEF BeginMerge
  <2>3. label \in Label
    BY DEF Label
  <2>4. Goes(t, label)
    BY <1>1, <1>3, <2>2, <2>3, GoToGoes, NotifyGoes DEF BeginMerge
  <2>5. TypeOK'
    BY <1>1, <1>2, <1>3, <2>3, <2>4, MoveKeepsTypes
    DEF BeginMerge, TypeOK, surfaceVars
  <2>6. MayGo(t, label)
    BY <1>3, <2>1, NotMerged DEF BeginMerge, MayGo
  <2>7. QED
    BY <1>3, <2>3, <2>4, <2>5, <2>6, MoveKeeps DEF BeginMerge, counters
<1>4. CASE BeginExtend(t)
  <2>1. t = platform /\ IsMerged
    BY <1>4 DEF BeginExtend, MergerInv, RasterPlaces, PlatformPlaces
  <2>2. PICK label \in {"decrement", "extendLease"} : GoTo(t, label)
    BY <1>4 DEF BeginExtend
  <2>3. label \in Label
    BY DEF Label
  <2>4. Goes(t, label)
    BY <1>1, <1>4, <2>2, <2>3, GoToGoes DEF BeginExtend
  <2>5. TypeOK'
    BY <1>1, <1>2, <1>4, <2>3, <2>4, MoveKeepsTypes
    DEF BeginExtend, TypeOK, surfaceVars
  <2>6. MayGo(t, label)
    BY <1>4, <2>1 DEF BeginExtend, MayGo, Drawing
  <2>7. QED
    BY <1>4, <2>3, <2>4, <2>5, <2>6, MoveKeeps DEF BeginExtend, counters
<1>5. CASE BeginDecrement(t)
  <2>1. PICK label \in {"idle", "decrementLease"} :
          \/ label = "idle" /\ End(t)
          \/ label = "decrementLease" /\ GoTo(t, label) /\ engine' = engine
    BY <1>5 DEF BeginDecrement
  <2>2. label \in Label
    BY DEF Label
  <2>3. Goes(t, label)
    BY <1>1, <2>1, <2>2, GoToGoes, EndGoes
  <2>4. TypeOK'
    BY <1>1, <1>2, <1>5, <2>2, <2>3, MoveKeepsTypes
    DEF BeginDecrement, TypeOK, surfaceVars
  <2>5. MayGo(t, label)
    BY <1>5, <2>1 DEF BeginDecrement, MayGo, Drawing
  <2>6. QED
    BY <1>5, <2>2, <2>3, <2>4, <2>5, MoveKeeps DEF BeginDecrement, counters
<1>6. CASE BeginUnmergeNow(t)
  <2>1. PICK label \in {"idle", "eraseLease"} :
          \/ label = "idle" /\ End(t)
          \/ label = "eraseLease" /\ GoTo(t, label) /\ engine' = engine
    BY <1>6 DEF BeginUnmergeNow
  <2>2. label \in Label
    BY DEF Label
  <2>3. Goes(t, label)
    BY <1>1, <2>1, <2>2, GoToGoes, EndGoes
  <2>4. TypeOK'
    BY <1>1, <1>2, <1>6, <2>2, <2>3, MoveKeepsTypes
    DEF BeginUnmergeNow, TypeOK, surfaceVars
  <2>5. MayGo(t, label)
    BY <1>6, NotMerged DEF BeginUnmergeNow, MayGo, Drawing
  <2>6. QED
    BY <1>6, <2>2, <2>3, <2>4, <2>5, MoveKeeps DEF BeginUnmergeNow, counters
<1>7. QED
  BY <1>3, <1>4, <1>5, <1>6

(* The tasks of the shell, and Teardown's question.                        *)
LEMMA SurfaceTasksKeep ==
  ASSUME MergerInv, NEW t \in Queue, SetUp(t) \/ Enable(t) \/ CheckMerged(t)
  PROVE  MergerInv'
<1> USE PairAssumption
<1>1. TypeOK /\ engine[t] \in Merger
  BY Workers DEF MergerInv, SetUp, Enable, CheckMerged
<1>2. PICK label \in {"idle", "checkMerged", "unmergeNow"} :
        \/ label = "idle" /\ End(t)
        \/ label # "idle" /\ GoTo(t, label) /\ engine' = engine
  BY DEF SetUp, Enable, CheckMerged
<1>3. label \in Label
  BY DEF Label
<1>4. Goes(t, label)
  BY <1>1, <1>2, <1>3, GoToGoes, EndGoes
<1>5. surface_' \in [Merger -> BOOLEAN] /\ enabled_' \in BOOLEAN
  BY <1>1 DEF TypeOK, SetUp, Enable, CheckMerged, surfaceVars
<1>6. TypeOK'
  BY <1>1, <1>3, <1>4, <1>5, MoveKeepsTypes
  DEF SetUp, Enable, CheckMerged, TypeOK, surfaceVars
<1>7. MayGo(t, label)
  BY <1>2, NotMerged DEF SetUp, Enable, CheckMerged, MayGo, Drawing
<1>8. QED
  BY <1>3, <1>4, <1>6, <1>7, MoveKeeps DEF SetUp, Enable, CheckMerged, counters

(* What the platform thread does between two tasks.                        *)
LEMMA DisableKeeps ==
  ASSUME MergerInv, NEW m \in Merger, Disable(m)
  PROVE  MergerInv'
<1> USE PairAssumption DEF Disable, ChangeSurface
<1>1. TypeOK /\ "disabled" \in Label
  BY DEF MergerInv, Label
<1>2. Goes(platform, "disabled")
  BY <1>1 DEF TypeOK, Goes, Stays, GoTo
<1>3. shown' \in [Merger -> BOOLEAN] /\ <<tasks, overlap, surfaces>>' \in Nat \X Nat \X Nat
  BY <1>1 DEF TypeOK, counters
<1>4. TypeOK'
  BY <1>1, <1>2, <1>3 DEF TypeOK, TopologyTypeOK, topology, Goes, counters
<1>5. MayGo(platform, "disabled")
  BY DEF MayGo, Drawing
<1>6. QED
  BY <1>1, <1>2, <1>4, <1>5, MoveKeeps

LEMMA RunNowOrPostTaskKeeps ==
  ASSUME MergerInv, RunNowOrPostTask
  PROVE  MergerInv'
<1> USE PairAssumption
<1>1. TypeOK /\ engine[platform] \in Merger /\ pc[platform] = "disabled"
  BY Workers DEF MergerInv, RunNowOrPostTask
<1>2. PICK label \in {"setUp", "tearDown", "latched", "idle"} :
        \/ label = "idle" /\ End(platform)
        \/ label # "idle" /\ GoTo(platform, label) /\ engine' = engine
  BY DEF RunNowOrPostTask
<1>3. label \in Label
  BY DEF Label
<1>4. Goes(platform, label)
  BY <1>1, <1>2, <1>3, GoToGoes, EndGoes
<1>5. posted' \in Seq([engine : Merger, task : {"setUp", "tearDown"}])
  <2>1. posted \in Seq([engine : Merger, task : {"setUp", "tearDown"}])
    BY <1>1 DEF TypeOK
  <2>2. CASE UNCHANGED posted
    BY <2>1, <2>2
  <2>3. CASE \E task \in {"setUp", "tearDown"} :
               posted' = Append(posted, [engine |-> engine[platform], task |-> task])
    BY <1>1, <2>1, <2>3
  <2>4. QED
    BY <2>2, <2>3 DEF RunNowOrPostTask
<1>6. TypeOK'
  BY <1>1, <1>3, <1>4, <1>5, MoveKeepsTypes DEF RunNowOrPostTask, TypeOK
<1>7. MayGo(platform, label)
  BY <1>1 DEF MayGo, Drawing
<1>8. QED
  BY <1>3, <1>4, <1>6, <1>7, MoveKeeps DEF RunNowOrPostTask, counters

LEMMA WaitsKeep ==
  ASSUME MergerInv, WaitAgain \/ \E m \in Merger : WaitUntilMerged(m)
  PROVE  MergerInv'
<1> USE PairAssumption
<1>1. TypeOK
  BY DEF MergerInv
<1>2. PICK label \in {"waiting", "idle"} : Goes(platform, label)
  <2>1. "waiting" \in Label
    BY DEF Label
  <2>2. CASE WaitAgain
    BY <1>1, <2>1, <2>2, GoToGoes, EndGoes, Workers DEF WaitAgain
  <2>3. CASE \E m \in Merger : WaitUntilMerged(m)
    BY <1>1, <2>1, <2>3 DEF WaitUntilMerged, TypeOK, GoTo, Goes, Stays
  <2>4. QED
    BY <2>2, <2>3
<1>3. label \in Label
  BY DEF Label
<1>4. TypeOK'
  <2>1. UNCHANGED <<topology, lease, enabled_, shared, own, aborted, surfaceVars, counters>>
    BY DEF WaitAgain, WaitUntilMerged
  <2>2. /\ enabled_' \in BOOLEAN /\ own' \in [Merger -> Queue \cup {Nobody}]
        /\ shown' \in [Merger -> BOOLEAN] /\ surface_' \in [Merger -> BOOLEAN]
        /\ posted' \in Seq([engine : Merger, task : {"setUp", "tearDown"}])
    BY <1>1, <2>1 DEF TypeOK, surfaceVars
  <2> QED
    BY <1>1, <1>2, <1>3, <2>1, <2>2, MoveKeepsTypes
<1>5. MayGo(platform, label)
  BY DEF WaitAgain, WaitUntilMerged, MayGo, Drawing
<1>6. QED
  BY <1>2, <1>3, <1>4, <1>5, MoveKeeps DEF WaitAgain, WaitUntilMerged, counters

-----------------------------------------------------------------------------
(* The steps that count draws, move queues or change leases.               *)

(* The platform thread starts a draw only while the queues are merged, the *)
(* raster thread only while they are not.                                  *)
LEMMA StartDrawKeeps ==
  ASSUME MergerInv, NEW t \in Queue, NEW m \in Merger, StartDraw(t, m)
  PROVE  MergerInv'
<1> USE PairAssumption DEF StartDraw
<1>1. TypeOK /\ "check" \in Label
  BY DEF MergerInv, Label
<1>2. /\ pc' \in [Queue -> Label] /\ engine' \in [Queue -> Merger \cup {Nobody}]
      /\ pc'[t] = "check" /\ engine'[t] = m
      /\ \A q \in Queue \ {t} : Stays(q)
  BY <1>1 DEF TypeOK, GoTo, Stays
<1>3. tasks \in Nat /\ overlap \in Nat /\ surfaces \in Nat
  BY <1>1 DEF TypeOK, counters
<1>4. TypeOK'
  BY <1>1, <1>2, <1>3 DEF TypeOK, TopologyTypeOK, topology, counters, surfaceVars
<1>5. UNCHANGED IsMerged /\ UNCHANGED Merged
  BY DEF IsMerged, Merged, Owns, topology, AllZero
<1>6. MergeTopology'
  BY DEF MergerInv, MergeTopology, topology, OneOwnerPerQueue, OwnerNeverSubsumed,
     NoDanglingEntry, ErasedIsIndependent, IsSubsumed
<1>7. (t = platform <=> Merged) /\ pc[t] = "idle"
  BY RunnerOfRaster
<1>8. WorksForAnEngine' /\ SharedIsHeld' /\ LeasesFollowQueues'
  BY <1>1, <1>2, <1>5, <1>7
  DEF MergerInv, WorksForAnEngine, SharedIsHeld, LeasesFollowQueues, Stays, TypeOK
<1>9. PlatformPlaces' /\ RasterPlaces'
  BY <1>2, <1>5, <1>7 DEF MergerInv, PlatformPlaces, RasterPlaces, Stays, Drawing
<1>10. LeaseOutlastsOverlap'
  <2>1. CASE t = raster
    BY <1>2, <1>5, <1>7, <2>1, OverlapAssumption DEF LeaseOutlastsOverlap
  <2>2. CASE t = platform /\ pc[raster] = "idle"
    BY <1>2, <2>2, OverlapAssumption DEF LeaseOutlastsOverlap, Stays
  <2>3. CASE t = platform /\ pc[raster] # "idle"
    <3>1. overlap' = overlap + 1 /\ overlap < MaxOverlap /\ Stays(raster)
      BY <1>2, <2>3
    <3>2. lease' = lease /\ engine'[raster] = engine[raster] /\ engine[raster] \in Merger
      BY <2>3, <3>1, Workers DEF Stays
    <3>3. lease \in [Merger -> 0 .. LeaseTerm \cup {NoLease}]
      BY <1>1 DEF TypeOK
    <3>4. pc[platform] \notin Drawing
      BY <1>7, <2>3 DEF Drawing
    <3>5. Merged /\ pc[raster] \in {"decrement", "decrementLease"}
            /\ lease[engine[raster]] # NoLease
          => lease[engine[raster]] + overlap >= LeaseTerm
      BY <3>2, <3>3, <3>4, <1>3, LeaseAssumption DEF MergerInv, LeaseOutlastsOverlap
    <3>6. QED
      BY <1>3, <1>5, <3>1, <3>2, <3>3, <3>5, LeaseAssumption, OverlapAssumption
      DEF LeaseOutlastsOverlap, Stays
  <2>4. QED
    BY <2>1, <2>2, <2>3
<1>11. QED
  BY <1>4, <1>6, <1>8, <1>9, <1>10 DEF MergerInv

(* Where neither threads nor queues nor leases change, as when a check     *)
(* aborts.                                                                 *)
LEMMA RestKeeps ==
  ASSUME MergerInv, TypeOK',
         UNCHANGED <<topology, lease, shared, pc, engine, overlap>>
  PROVE  MergerInv'
<1>1. UNCHANGED IsMerged /\ UNCHANGED Merged
  BY DEF IsMerged, Merged, Owns, topology, AllZero
<1>2. MergeTopology'
  BY DEF MergerInv, MergeTopology, topology, OneOwnerPerQueue, OwnerNeverSubsumed,
     NoDanglingEntry, ErasedIsIndependent, IsSubsumed
<1>3. WorksForAnEngine' /\ SharedIsHeld' /\ LeasesFollowQueues'
  BY <1>1 DEF MergerInv, WorksForAnEngine, SharedIsHeld, LeasesFollowQueues
<1>4. PlatformPlaces' /\ RasterPlaces' /\ LeaseOutlastsOverlap'
  BY <1>1 DEF MergerInv, PlatformPlaces, RasterPlaces, LeaseOutlastsOverlap
<1>5. QED
  BY <1>2, <1>3, <1>4 DEF MergerInv

(* Only the raster thread merges, and only what is not merged.             *)
LEMMA MergeTheQueuesKeeps ==
  ASSUME MergerInv, NEW t \in Queue, MergeTheQueues(t)
  PROVE  MergerInv'
<1> USE PairAssumption
<1>1. t = raster /\ ~Merged /\ ~IsMerged /\ pc[raster] = "mergeQueues"
  BY NotMerged DEF MergeTheQueues, MergerInv, PlatformPlaces
<1>2. TypeOK /\ engine[t] \in Merger /\ "recordLease" \in Label
  BY <1>1, Workers DEF MergerInv, Label
<1>3. CASE ~MergeSucceeds(platform, raster)
  <2>1. UNCHANGED <<topology, lease, shared, own, pc, engine, enabled_, surfaceVars,
                    counters>> /\ aborted' = "merge"
    BY <1>1, <1>3 DEF MergeTheQueues, Abort
  <2>2. TypeOK'
    BY <1>2, <2>1 DEF TypeOK, TopologyTypeOK, topology, surfaceVars, counters
  <2>3. QED
    BY <2>1, <2>2, RestKeeps DEF counters
<1>4. CASE MergeSucceeds(platform, raster)
  <2>1. /\ Merge(platform, raster) /\ shared = Nobody /\ shared' = t
        /\ pc' = [pc EXCEPT ![t] = "recordLease"]
        /\ UNCHANGED <<own, aborted, lease, enabled_, engine, surfaceVars, counters>>
    BY <1>1, <1>4 DEF MergeTheQueues, Merged, GoTo
  <2>2. Topology' /\ Merged'
    <3>1. Topology
      BY <1>2 DEF MergerInv, Topology, TypeOK
    <3>2. Topology'
      BY <2>1, <3>1, MergeKeepsTopology
    <3>3. Merged'
      BY <2>1, <3>1 DEF Merge, Merged, Owns, Topology, TopologyTypeOK
    <3>4. QED
      BY <3>2, <3>3
  <2>3. TypeOK'
    BY <1>2, <2>1, <2>2 DEF TypeOK, Topology, surfaceVars, counters
  <2>4. IsMerged' = IsMerged
    BY <2>1 DEF IsMerged, AllZero
  <2>5. pc'[raster] = "recordLease" /\ pc'[platform] = pc[platform]
    BY <1>1, <1>2, <2>1 DEF TypeOK
  <2>6. WorksForAnEngine'
    BY <1>2, <2>1, <2>5 DEF MergerInv, WorksForAnEngine, TypeOK
  <2>7. SharedIsHeld'
    BY <1>1, <2>1, <2>4, <2>5 DEF MergerInv, SharedIsHeld
  <2>8. LeasesFollowQueues'
    BY <1>1, <2>1, <2>2, <2>4, <2>5, PairAssumption DEF LeasesFollowQueues
  <2>9. PlatformPlaces' /\ RasterPlaces'
    BY <1>1, <2>2, <2>4, <2>5 DEF MergerInv, PlatformPlaces, RasterPlaces, Drawing
  <2>10. LeaseOutlastsOverlap'
    BY <1>1, <2>1, <2>5 DEF MergerInv, LeaseOutlastsOverlap, PlatformPlaces, counters
  <2>11. QED
    BY <2>2, <2>3, <2>6, <2>7, <2>8, <2>9, <2>10 DEF MergerInv, Topology
<1>5. QED
  BY <1>3, <1>4

(* A lease of any length is one for which the queues are merged.           *)
LEMMA LeaseGiven ==
  ASSUME NEW m \in Merger, lease \in [Merger -> 0 .. LeaseTerm \cup {NoLease}],
         lease' = [lease EXCEPT ![m] = LeaseTerm]
  PROVE  IsMerged' /\ lease'[m] = LeaseTerm
BY LeaseAssumption DEF IsMerged, AllZero

LEMMA RecordLeaseKeeps ==
  ASSUME MergerInv, NEW t \in Queue, RecordLease(t)
  PROVE  MergerInv'
<1> USE PairAssumption
<1>1. /\ TypeOK /\ t = raster /\ Merged /\ shared = raster
      /\ pc[raster] = "recordLease" /\ engine[raster] \in Merger
  BY Workers
  DEF RecordLease, MergerInv, PlatformPlaces, LeasesFollowQueues, SharedIsHeld
<1>2. "decrement" \in Label
  BY DEF Label
<1>3. /\ Goes(raster, "decrement") /\ engine' = engine /\ shared' = Nobody
      /\ Stays(platform) \/ (pc[platform] = "waiting" /\ pc'[platform] = "woken")
  <2>1. Goes(raster, "decrement") /\ engine' = engine /\ shared' = Nobody
    BY <1>1, <1>2, NotifyGoes DEF RecordLease
  <2>2. pc'[platform] = pc[platform]
          \/ (pc[platform] = "waiting" /\ pc'[platform] = "woken")
    BY <1>1 DEF RecordLease, NotifyAndGoTo
  <2>3. QED
    BY <2>1, <2>2 DEF Stays
<1>4. /\ lease \in [Merger -> 0 .. LeaseTerm \cup {NoLease}]
      /\ own \in [Merger -> Queue \cup {Nobody}] /\ overlap \in Nat
  BY <1>1 DEF TypeOK, counters
<1>5. IsMerged' /\ lease'[engine[raster]] = LeaseTerm
  BY <1>1, <1>4, LeaseGiven DEF RecordLease
<1>6. TypeOK'
  <2>1. lease' \in [Merger -> 0 .. LeaseTerm \cup {NoLease}]
    BY <1>1, <1>4, LeaseAssumption DEF RecordLease
  <2>2. own' \in [Merger -> Queue \cup {Nobody}]
    BY <1>4 DEF RecordLease, UnlockOwn
  <2>3. QED
    BY <1>1, <1>3, <2>1, <2>2
    DEF RecordLease, TypeOK, Goes, TopologyTypeOK, topology, surfaceVars, counters
<1>7. Merged' = Merged /\ overlap' = overlap
  BY DEF RecordLease, Merged, Owns, topology, counters
<1>8. MergeTopology'
  BY DEF RecordLease, MergerInv, MergeTopology, topology, OneOwnerPerQueue,
     OwnerNeverSubsumed, NoDanglingEntry, ErasedIsIndependent, IsSubsumed
<1>9. pc[platform] \notin {"recordLease", "unmergeQueues"}
  BY <1>1 DEF MergerInv, SharedIsHeld
<1>10. WorksForAnEngine' /\ SharedIsHeld' /\ LeasesFollowQueues'
  BY <1>1, <1>3, <1>5, <1>7, <1>9
  DEF MergerInv, WorksForAnEngine, SharedIsHeld, LeasesFollowQueues, Goes, Stays
<1>11. PlatformPlaces' /\ RasterPlaces'
  BY <1>1, <1>3, <1>5, <1>7
  DEF MergerInv, PlatformPlaces, RasterPlaces, Goes, Stays, Drawing
<1>12. LeaseOutlastsOverlap'
  <2>1. pc'[platform] \in Drawing => overlap > 0
    BY <1>1, <1>3 DEF MergerInv, LeaseOutlastsOverlap, Stays, Drawing
  <2>2. QED
    BY <1>3, <1>4, <1>5, <1>7, <2>1, LeaseAssumption
    DEF MergerInv, LeaseOutlastsOverlap
<1>13. QED
  BY <1>6, <1>8, <1>10, <1>11, <1>12 DEF MergerInv

(* The platform thread extends a lease while some lease is left, so that   *)
(* the queues are still merged.                                            *)
LEMMA ExtendLeaseKeeps ==
  ASSUME MergerInv, NEW t \in Queue, ExtendLease(t)
  PROVE  MergerInv'
<1> USE PairAssumption
<1>1. /\ TypeOK /\ t = platform /\ IsMerged /\ Merged /\ shared = Nobody
      /\ pc[platform] = "extendLease" /\ engine[platform] \in Merger
  BY Workers
  DEF ExtendLease, MergerInv, PlatformPlaces, RasterPlaces, LeasesFollowQueues
<1>2. "decrement" \in Label
  BY DEF Label
<1>3. Goes(platform, "decrement") /\ engine' = engine /\ shared' = Nobody
      /\ pc'[raster] = pc[raster]
  BY <1>1, <1>2, GoToGoes DEF ExtendLease, GoTo, TypeOK
<1>4. /\ lease \in [Merger -> 0 .. LeaseTerm \cup {NoLease}]
      /\ own \in [Merger -> Queue \cup {Nobody}] /\ overlap \in Nat
  BY <1>1 DEF TypeOK, counters
<1>5. IsMerged' /\ lease'[engine[platform]] = LeaseTerm
  BY <1>1, <1>4, LeaseGiven DEF ExtendLease
<1>6. TypeOK'
  <2>1. lease' \in [Merger -> 0 .. LeaseTerm \cup {NoLease}]
    BY <1>1, <1>4, LeaseAssumption DEF ExtendLease
  <2>2. own' \in [Merger -> Queue \cup {Nobody}]
    BY <1>4 DEF ExtendLease, UnlockOwn
  <2>3. QED
    BY <1>1, <1>3, <2>1, <2>2
    DEF ExtendLease, TypeOK, Goes, TopologyTypeOK, topology, surfaceVars, counters
<1>7. Merged' = Merged /\ overlap' = overlap
  BY DEF ExtendLease, Merged, Owns, topology, counters
<1>8. MergeTopology'
  BY DEF ExtendLease, MergerInv, MergeTopology, topology, OneOwnerPerQueue,
     OwnerNeverSubsumed, NoDanglingEntry, ErasedIsIndependent, IsSubsumed
<1>9. pc[raster] \notin {"recordLease", "unmergeQueues"}
  BY <1>1 DEF MergerInv, SharedIsHeld
<1>10. WorksForAnEngine' /\ SharedIsHeld' /\ LeasesFollowQueues'
  BY <1>1, <1>3, <1>5, <1>7, <1>9
  DEF MergerInv, WorksForAnEngine, SharedIsHeld, LeasesFollowQueues, Goes
<1>11. PlatformPlaces' /\ RasterPlaces'
  BY <1>1, <1>3, <1>5, <1>7 DEF MergerInv, PlatformPlaces, RasterPlaces, Goes
<1>12. LeaseOutlastsOverlap'
  <2>1. pc[platform] \in Drawing
    BY <1>1 DEF Drawing
  <2>2. pc[raster] # "idle" => overlap > 0 /\ engine[raster] \in Merger
    BY <1>1, <2>1, Workers DEF MergerInv, LeaseOutlastsOverlap
  <2>3. CASE engine[raster] = engine[platform]
    BY <1>3, <1>4, <1>5, <1>7, <2>2, <2>3, LeaseAssumption
    DEF MergerInv, LeaseOutlastsOverlap
  <2>4. CASE engine[raster] # engine[platform]
    <3>1. pc[raster] # "idle" => lease'[engine[raster]] = lease[engine[raster]]
      BY <1>1, <1>4, <2>2, <2>4 DEF ExtendLease
    <3>2. pc[raster] # "idle" =>
            lease[engine[raster]] \in Nat \/ lease[engine[raster]] = NoLease
      BY <1>4, <2>2, LeaseAssumption
    <3>3. QED
      BY <1>3, <1>4, <1>7, <2>1, <2>2, <3>1, <3>2, LeaseAssumption
      DEF MergerInv, LeaseOutlastsOverlap
  <2>5. QED
    BY <2>3, <2>4
<1>13. QED
  BY <1>6, <1>8, <1>10, <1>11, <1>12 DEF MergerInv

(* An operation of SharedThreadMerger that leaves leases l behind: none is *)
(* new, the one of the raster thread's draw is counted down by no other    *)
(* than a draw, and that draw does not leave the last.                     *)
LEMMA LeavingKeeps ==
  ASSUME MergerInv, NEW t \in Queue, NEW l \in [Merger -> 0 .. LeaseTerm \cup {NoLease}],
         LeaveLeases(t, l), shared = Nobody,
         pc[t] \in {"decrementLease", "eraseLease"},
         UNCHANGED <<topology, enabled_, aborted, surfaceVars, counters>>,
         ~AllZero(l) => IsMerged,
         t = raster /\ Merged => ~AllZero(l),
         \A m \in Merger :
           \/ l[m] \in {NoLease, lease[m]}
           \/ pc[t] = "decrementLease" /\ lease[m] \in Nat /\ l[m] = lease[m] - 1
  PROVE  MergerInv'
<1> USE PairAssumption
<1>1. TypeOK /\ engine[t] \in Merger
  BY Workers DEF MergerInv
<1>2. /\ lease \in [Merger -> 0 .. LeaseTerm \cup {NoLease}] /\ lease' = l
      /\ own \in [Merger -> Queue \cup {Nobody}] /\ overlap \in Nat
  BY <1>1 DEF TypeOK, counters, LeaveLeases
<1>3. Merged' = Merged /\ overlap' = overlap /\ UNCHANGED topology
  BY DEF Merged, Owns, topology, counters
<1>4. MergeTopology'
  BY DEF MergerInv, MergeTopology, topology, OneOwnerPerQueue, OwnerNeverSubsumed,
     NoDanglingEntry, ErasedIsIndependent, IsSubsumed
<1>5. \A q \in Queue : pc[q] \notin {"recordLease", "unmergeQueues"}
  BY DEF MergerInv, SharedIsHeld
<1>6. IsMerged <=> Merged
  BY DEF MergerInv, LeasesFollowQueues
<1>7. PICK label \in {"idle", "unmergeQueues"} :
        /\ Goes(t, label)
        /\ label = "unmergeQueues" =>
             /\ AllZero(l) /\ shared' = t /\ engine' = engine /\ own' = own
             /\ pc' = [pc EXCEPT ![t] = label]
        /\ label = "idle" => ~AllZero(l) /\ shared' = Nobody /\ UnlockOwn(t)
  <2>1. "unmergeQueues" \in Label
    BY DEF Label
  <2>2. CASE AllZero(l)
    BY <1>1, <2>1, <2>2, GoToGoes DEF LeaveLeases, GoTo
  <2>3. CASE ~AllZero(l)
    BY <1>1, <2>3, EndGoes DEF LeaveLeases
  <2>4. QED
    BY <2>2, <2>3
<1>8. TypeOK'
  <2>1. own' \in [Merger -> Queue \cup {Nobody}] /\ shared' \in Queue \cup {Nobody}
    BY <1>2, <1>7 DEF UnlockOwn
  <2>2. QED
    BY <1>1, <1>2, <1>7, <2>1
    DEF TypeOK, Goes, TopologyTypeOK, topology, surfaceVars, counters
<1>9. IsMerged' <=> ~AllZero(l)
  BY <1>2 DEF IsMerged, AllZero
<1>10. \A q \in Queue \ {t} : Stays(q) \/ pc'[q] \in {"idle", "woken"}
  BY <1>7 DEF Goes
<1>11. pc'[t] = label
  BY <1>7 DEF Goes
<1>12. WorksForAnEngine'
  BY <1>7 DEF MergerInv, WorksForAnEngine, Goes, Stays
<1>13. SharedIsHeld'
  BY <1>5, <1>7, <1>9, <1>10, <1>11 DEF SharedIsHeld, Stays
<1>14. LeasesFollowQueues'
  BY <1>3, <1>5, <1>6, <1>7, <1>9, <1>10, <1>11 DEF LeasesFollowQueues, Stays
<1>15. PlatformPlaces'
  BY <1>3, <1>6, <1>7, <1>9, <1>10, <1>11
  DEF MergerInv, PlatformPlaces, Stays, Drawing
<1>16. RasterPlaces'
  <2>1. CASE t = raster
    BY <1>3, <1>7, <1>11, <2>1 DEF RasterPlaces
  <2>2. CASE t = platform /\ Merged
    BY <1>3, <1>7, <2>2 DEF MergerInv, RasterPlaces, Goes, Stays
  <2>3. CASE t = platform /\ ~Merged
    BY <1>3, <1>10, <2>3 DEF MergerInv, RasterPlaces, Stays
  <2>4. QED
    BY <2>1, <2>2, <2>3
<1>17. LeaseOutlastsOverlap'
  <2>1. CASE t = raster
    BY <1>2, <1>3, <1>7, <1>9, <1>11, <2>1 DEF MergerInv, LeaseOutlastsOverlap
  <2>2. CASE t = platform
    <3>1. pc'[platform] \notin Drawing
      BY <1>11, <2>2 DEF Drawing
    <3>2. SUFFICES ASSUME Merged, pc'[raster] \in {"decrement", "decrementLease"},
                          l[engine'[raster]] # NoLease
                   PROVE  l[engine'[raster]] + overlap >= LeaseTerm
      BY <1>2, <1>3, <3>1, LeaseAssumption DEF MergerInv, LeaseOutlastsOverlap
    <3>3. Stays(raster) /\ engine[raster] \in Merger
      BY <1>10, <2>2, <3>2, Workers DEF Stays
    <3>4. lease[engine[raster]] # NoLease =>
            lease[engine[raster]] + overlap
              >= LeaseTerm + (IF pc[platform] \in Drawing THEN 1 ELSE 0)
      BY <3>2, <3>3 DEF MergerInv, LeaseOutlastsOverlap, Stays
    <3>5. CASE l[engine[raster]] = lease[engine[raster]]
      BY <1>2, <3>2, <3>3, <3>4, <3>5, LeaseAssumption DEF Stays
    <3>6. CASE pc[platform] = "decrementLease" /\ lease[engine[raster]] \in Nat
               /\ l[engine[raster]] = lease[engine[raster]] - 1
      BY <1>2, <3>3, <3>4, <3>6, LeaseAssumption DEF Stays, Drawing
    <3>7. QED
      BY <2>2, <3>2, <3>3, <3>5, <3>6 DEF Stays
  <2>3. QED
    BY <2>1, <2>2
<1>18. QED
  BY <1>4, <1>8, <1>12, <1>13, <1>14, <1>15, <1>16, <1>17 DEF MergerInv

(* The rest of the draw that merged does not use up the last of its lease.  *)
LEMMA RasterLeavesLease ==
  ASSUME MergerInv, Merged, pc[raster] = "decrementLease",
         lease[engine[raster]] # NoLease
  PROVE  lease[engine[raster]] \in Nat /\ lease[engine[raster]] - 1 \in Nat \ {0}
<1>1. TypeOK /\ engine[raster] \in Merger
  BY Workers, PairAssumption DEF MergerInv
<1>2. lease[engine[raster]] \in 0 .. LeaseTerm /\ overlap \in Nat
  BY <1>1 DEF TypeOK, counters
<1>3. lease[engine[raster]] + overlap >= LeaseTerm /\ overlap <= MaxOverlap
  BY <1>2, LeaseAssumption DEF MergerInv, LeaseOutlastsOverlap
<1>4. lease[engine[raster]] > 1
  BY <1>2, <1>3, LeaseAssumption, OverlapAssumption
<1>5. QED
  BY <1>2, <1>4, LeaseAssumption

LEMMA DecrementLeaseKeeps ==
  ASSUME MergerInv, NEW t \in Queue, DecrementLease(t)
  PROVE  MergerInv'
<1> USE PairAssumption
<1>1. TypeOK /\ engine[t] \in Merger /\ pc[t] = "decrementLease" /\ shared = Nobody
  BY Workers DEF MergerInv, DecrementLease
<1>2. lease \in [Merger -> 0 .. LeaseTerm \cup {NoLease}] /\ overlap \in Nat
  BY <1>1 DEF TypeOK, counters
<1>3. IsMerged <=> Merged
  BY <1>1 DEF MergerInv, LeasesFollowQueues
<1>4. CASE lease[engine[t]] = NoLease /\ LeaveLeases(t, lease) /\ UNCHANGED aborted
  <2>1. ~AllZero(lease) <=> IsMerged
    BY DEF IsMerged
  <2>2. QED
    BY <1>1, <1>2, <1>3, <1>4, <2>1, LeavingKeeps DEF DecrementLease
<1>5. CASE /\ lease[engine[t]] # NoLease /\ lease[engine[t]] > 0
           /\ LeaveLeases(t, [lease EXCEPT ![engine[t]] = @ - 1]) /\ UNCHANGED aborted
  <2> DEFINE l == [lease EXCEPT ![engine[t]] = @ - 1]
  <2>1. lease[engine[t]] \in 1 .. LeaseTerm
    BY <1>1, <1>2, <1>5
  <2>2. l \in [Merger -> 0 .. LeaseTerm \cup {NoLease}]
    BY <1>1, <1>2, <2>1, LeaseAssumption
  <2>3. \A m \in Merger :
          l[m] = lease[m] \/ (lease[m] \in Nat /\ l[m] = lease[m] - 1)
    BY <1>1, <1>2, <2>1, LeaseAssumption
  <2>4. IsMerged
    BY <1>1, <2>1, LeaseAssumption DEF IsMerged, AllZero
  <2>5. t = raster /\ Merged => ~AllZero(l)
    <3>1. SUFFICES ASSUME t = raster, Merged PROVE ~AllZero(l)
      OBVIOUS
    <3>2. lease[engine[t]] - 1 \in Nat \ {0}
      BY <1>5, <3>1, RasterLeavesLease DEF DecrementLease
    <3>3. QED
      BY <1>1, <1>2, <3>2, LeaseAssumption DEF AllZero
  <2>6. QED
    BY <1>1, <1>5, <2>2, <2>3, <2>4, <2>5, LeavingKeeps DEF DecrementLease
<1>6. CASE Abort("lease") /\ UNCHANGED <<lease, shared, own, pc, engine>>
  <2>1. TypeOK'
    BY <1>1, <1>6
    DEF DecrementLease, Abort, TypeOK, TopologyTypeOK, topology, surfaceVars, counters
  <2>2. QED
    BY <1>6, <2>1, RestKeeps DEF DecrementLease, counters
<1>7. QED
  BY <1>4, <1>5, <1>6 DEF DecrementLease

LEMMA UnMergeNowIfLastOneKeeps ==
  ASSUME MergerInv, NEW t \in Queue, UnMergeNowIfLastOne(t)
  PROVE  MergerInv'
<1> DEFINE l == [lease EXCEPT ![engine[t]] = NoLease]
<1>1. TypeOK /\ engine[t] \in Merger /\ pc[t] = "eraseLease" /\ shared = Nobody
  BY Workers DEF MergerInv, UnMergeNowIfLastOne
<1>2. lease \in [Merger -> 0 .. LeaseTerm \cup {NoLease}]
  BY <1>1 DEF TypeOK
<1>3. l \in [Merger -> 0 .. LeaseTerm \cup {NoLease}]
  BY <1>1, <1>2
<1>4. \A m \in Merger : l[m] \in {NoLease, lease[m]}
  BY <1>2
<1>5. ~AllZero(l) => IsMerged
  BY <1>4 DEF IsMerged, AllZero
<1>6. t = raster => ~Merged
  BY <1>1, NotMerged
<1>7. QED
  BY <1>1, <1>3, <1>4, <1>5, <1>6, LeavingKeeps DEF UnMergeNowIfLastOne

(* The queues are unmerged before the mutexes are freed.                   *)
LEMMA UnmergeTheQueuesKeeps ==
  ASSUME MergerInv, NEW t \in Queue, UnmergeTheQueues(t)
  PROVE  MergerInv'
<1> USE PairAssumption
<1>1. /\ TypeOK /\ engine[t] \in Merger /\ pc[t] = "unmergeQueues"
      /\ shared = t /\ ~IsMerged
  BY Workers DEF MergerInv, UnmergeTheQueues, SharedIsHeld
<1>2. CASE /\ Abort("unmerge") /\ UNCHANGED <<topology, shared, own, pc, engine>>
  <2>1. TypeOK'
    BY <1>1, <1>2
    DEF UnmergeTheQueues, Abort, TypeOK, TopologyTypeOK, topology, surfaceVars, counters
  <2>2. QED
    BY <1>2, <2>1, RestKeeps DEF UnmergeTheQueues, counters
<1>3. CASE /\ Unmerge(platform, raster) /\ shared' = Nobody /\ UnlockOwn(t) /\ End(t)
           /\ UNCHANGED aborted
  <2>1. t = platform /\ Merged
    BY <1>1, <1>3, NotMerged DEF Unmerge, UnmergeSucceeds, Merged
  <2>2. Topology' /\ ~Merged'
    <3>1. Topology
      BY <1>1 DEF MergerInv, Topology, TypeOK
    <3>2. Topology'
      BY <1>3, <3>1, UnmergeKeepsTopology
    <3>3. ~Merged'
      BY <1>3, <3>1 DEF Unmerge, Merged, Owns, Topology, TopologyTypeOK
    <3>4. QED
      BY <3>2, <3>3
  <2>3. Goes(t, "idle")
    BY <1>1, <1>3, EndGoes
  <2>4. own' \in [Merger -> Queue \cup {Nobody}]
    BY <1>1, <1>3 DEF TypeOK, UnlockOwn
  <2>5. TypeOK'
    BY <1>1, <1>3, <2>2, <2>3, <2>4
    DEF UnmergeTheQueues, TypeOK, Topology, Goes, surfaceVars, counters
  <2>6. ~IsMerged'
    BY <1>1 DEF UnmergeTheQueues, IsMerged, AllZero
  <2>7. \A q \in Queue :
         \/ pc'[q] = pc[q] /\ q # t
         \/ pc'[q] \in {"idle", "woken"}
    BY <2>3 DEF Goes, Stays
  <2>8. WorksForAnEngine'
    BY <2>3 DEF MergerInv, WorksForAnEngine, Goes, Stays
  <2>9. SharedIsHeld' /\ LeasesFollowQueues'
    BY <1>1, <1>3, <2>1, <2>2, <2>6, <2>7 DEF MergerInv, SharedIsHeld, LeasesFollowQueues
  <2>10. pc'[platform] = "idle"
    BY <2>1, <2>3 DEF Goes
  <2>11. PlatformPlaces' /\ RasterPlaces'
    BY <2>2, <2>7, <2>10 DEF MergerInv, PlatformPlaces, RasterPlaces, Drawing
  <2>12. LeaseOutlastsOverlap'
    BY <2>2, <2>10
    DEF UnmergeTheQueues, MergerInv, LeaseOutlastsOverlap, counters
  <2>13. QED
    BY <2>2, <2>5, <2>8, <2>9, <2>11, <2>12 DEF MergerInv, Topology
<1>4. QED
  BY <1>2, <1>3 DEF UnmergeTheQueues

-----------------------------------------------------------------------------

LEMMA MergerInvInit == Init => MergerInv
<1> SUFFICES ASSUME Init PROVE MergerInv
  OBVIOUS
<1> USE PairAssumption, LeaseAssumption, MergerBounds, OverlapAssumption
<1>1. TopologyTypeOK /\ MergeTopology
  BY InitTopologyHolds DEF Init, Topology
<1>2. ~Merged
  BY DEF Init, InitTopology, Merged, Owns
<1>3. ~IsMerged
  BY DEF Init, IsMerged, AllZero
<1>4. TypeOK
  BY <1>1 DEF Init, TypeOK, Label, counters
<1>5. WorksForAnEngine /\ SharedIsHeld /\ LeasesFollowQueues
  BY <1>2, <1>3 DEF Init, WorksForAnEngine, SharedIsHeld, LeasesFollowQueues
<1>6. PlatformPlaces /\ RasterPlaces /\ LeaseOutlastsOverlap
  BY <1>2 DEF Init, PlatformPlaces, RasterPlaces, LeaseOutlastsOverlap, Drawing
<1>7. QED
  BY <1>1, <1>4, <1>5, <1>6 DEF MergerInv

LEMMA MergerInvStep == MergerInv /\ [Next]_vars => MergerInv'
<1> SUFFICES ASSUME MergerInv, [Next]_vars PROVE MergerInv'
  OBVIOUS
<1>1. CASE \E t \in Queue, m \in Merger : StartDraw(t, m)
  BY <1>1, StartDrawKeeps
<1>2. CASE \E t \in Queue : Step(t)
  <2>1. PICK t \in Queue : Step(t)
    BY <1>2
  <2>2. CASE CheckThread(t) \/ Yield(t) \/ NothingDrawn(t) \/ Preroll(t)
    BY <2>2, DrawMovesKeep
  <2>3. CASE BeginMerge(t) \/ BeginExtend(t) \/ BeginDecrement(t) \/ BeginUnmergeNow(t)
    BY <2>3, BeginsKeep
  <2>4. CASE SetUp(t) \/ Enable(t) \/ CheckMerged(t)
    BY <2>4, SurfaceTasksKeep
  <2>5. CASE StartPosted(t)
    BY <2>5, StartPostedKeeps
  <2>6. CASE MergeTheQueues(t)
    BY <2>6, MergeTheQueuesKeeps
  <2>7. CASE RecordLease(t)
    BY <2>7, RecordLeaseKeeps
  <2>8. CASE ExtendLease(t)
    BY <2>8, ExtendLeaseKeeps
  <2>9. CASE DecrementLease(t)
    BY <2>9, DecrementLeaseKeeps
  <2>10. CASE UnMergeNowIfLastOne(t)
    BY <2>10, UnMergeNowIfLastOneKeeps
  <2>11. CASE UnmergeTheQueues(t)
    BY <2>11, UnmergeTheQueuesKeeps
  <2>12. QED
    BY <2>1, <2>2, <2>3, <2>4, <2>5, <2>6, <2>7, <2>8, <2>9, <2>10, <2>11 DEF Step
<1>3. CASE \E m \in Merger : Disable(m)
  BY <1>3, DisableKeeps
<1>4. CASE WaitAgain \/ \E m \in Merger : WaitUntilMerged(m)
  BY <1>4, WaitsKeep
<1>5. CASE RunNowOrPostTask
  BY <1>5, RunNowOrPostTaskKeeps
<1>6. CASE UNCHANGED vars
  <2>1. TypeOK'
    BY <1>6 DEF MergerInv, TypeOK, TopologyTypeOK, vars, topology, surfaceVars, counters
  <2>2. UNCHANGED <<topology, lease, shared, pc, engine, overlap>>
    BY <1>6 DEF vars, counters
  <2>3. QED
    BY <2>1, <2>2, RestKeeps
<1>7. QED
  BY <1>1, <1>2, <1>3, <1>4, <1>5, <1>6 DEF Next

(* The queues are merged exactly while some engine has a lease left,       *)
(* whenever no locked section of SharedThreadMerger is under way: for any  *)
(* number of engines and any order of merges, extensions, decrements and   *)
(* teardowns.                                                              *)
THEOREM LeasesAndQueuesAgree == Spec => [](TypeOK /\ LeasesMatchQueues)
<1>1. MergerInv => TypeOK /\ LeasesMatchQueues
  BY DEF MergerInv, LeasesFollowQueues, LeasesMatchQueues, Merged
<1>2. QED
  BY <1>1, MergerInvInit, MergerInvStep, PTL DEF Spec

-----------------------------------------------------------------------------
(* An engine that shares its threads with no other.  Its own mutex then     *)
(* protects all that the shared merger keeps.                              *)

Locked == {"mergeQueues", "recordLease", "extendLease", "decrementLease",
           "unmergeQueues", "eraseLease"}

MutexIsHeld(m) == \A t \in Queue : pc[t] \in Locked <=> own[m] = t

EnabledWhileLocked(m) == own[m] # Nobody => enabled_

(* Whoever counts a lease down or erases one finds one, and whoever is     *)
(* about to unmerge the queues finds them merged.                          *)
FoundMerged ==
  \A t \in Queue :
    /\ pc[t] \in {"decrementLease", "unmergeNow", "eraseLease"} => IsMerged
    /\ pc[t] = "unmergeQueues" => Merged

RasterOwnsNothing == owner_of[raster] = {}

(* A draw is on the thread IsOnRasterizingThread takes for the rasterizing *)
(* one.  OverlapAssumption is what makes it so.                            *)
DrawNeverYields == \A t \in Queue : pc[t] # "yield"

Sole(m) ==
  /\ MutexIsHeld(m) /\ EnabledWhileLocked(m) /\ FoundMerged /\ RasterOwnsNothing
  /\ NoAbort /\ DrawNeverYields

SoleInv(m) == MergerInv /\ Sole(m)

LEMMA SoleEngine ==
  ASSUME NEW m \in Merger, Merger = {m}, MergerInv, NEW t \in Queue, pc[t] # "idle"
  PROVE  engine[t] = m
BY Workers

(* With the mutex free, no operation is half way.                          *)
LEMMA FreeMeansSettled ==
  ASSUME NEW m \in Merger, SoleInv(m), own[m] = Nobody
  PROVE  IsMerged <=> Merged
<1>1. \A t \in Queue : pc[t] \notin Locked
  BY PairAssumption DEF SoleInv, Sole, MutexIsHeld
<1>2. shared = Nobody
  BY <1>1 DEF SoleInv, Sole, MergerInv, SharedIsHeld, TypeOK, Locked
<1>3. QED
  BY <1>2 DEF SoleInv, Sole, MergerInv, LeasesFollowQueues

(* A step outside of the mutex.                                            *)
LEMMA SoleMoves ==
  ASSUME NEW m \in Merger, SoleInv(m), NEW t \in Queue, NEW label \in Label,
         Goes(t, label), {pc[t], label} \cap Locked = {}, label # "yield",
         label = "unmergeNow" => IsMerged,
         UNCHANGED <<topology, lease, own, aborted>>,
         enabled_' = enabled_ \/ enabled_' \/ own[m] = Nobody
  PROVE  Sole(m)'
<1>1. \A q \in Queue :
        \/ pc'[q] = pc[q]
        \/ {pc[q], pc'[q]} \cap Locked = {} /\ pc'[q] # "yield"
           /\ (pc'[q] = "unmergeNow" => IsMerged)
  BY DEF Goes, Stays, Locked
<1>2. UNCHANGED IsMerged /\ UNCHANGED Merged
  BY DEF IsMerged, Merged, Owns, topology, AllZero
<1>3. (MutexIsHeld(m) /\ EnabledWhileLocked(m))'
  BY <1>1 DEF SoleInv, Sole, MutexIsHeld, EnabledWhileLocked
<1>4. (FoundMerged /\ RasterOwnsNothing /\ NoAbort /\ DrawNeverYields)'
  BY <1>1, <1>2 DEF SoleInv, Sole, FoundMerged, RasterOwnsNothing, NoAbort, DrawNeverYields,
      Locked, topology
<1>5. QED
  BY <1>3, <1>4 DEF Sole

(* A step that takes the mutex.                                            *)
LEMMA SoleLocks ==
  ASSUME NEW m \in Merger, SoleInv(m), NEW t \in Queue, NEW label \in Label,
         Goes(t, label), own[m] = Nobody, own' = [own EXCEPT ![m] = t], enabled_,
         label \in Locked \ {"recordLease", "unmergeQueues"},
         label \in {"decrementLease", "eraseLease"} => IsMerged,
         UNCHANGED <<topology, lease, enabled_, aborted>>
  PROVE  Sole(m)'
<1>1. own'[m] = t
  BY DEF SoleInv, Sole, MergerInv, TypeOK
<1>2. \A q \in Queue : pc[q] \notin Locked
  BY PairAssumption DEF SoleInv, Sole, MutexIsHeld
<1>3. \A q \in Queue \ {t} : pc'[q] = pc[q] \/ pc'[q] \in {"idle", "woken"}
  BY DEF Goes, Stays
<1>4. pc'[t] = label
  BY DEF Goes
<1>5. UNCHANGED IsMerged /\ UNCHANGED Merged
  BY DEF IsMerged, Merged, Owns, topology, AllZero
<1>6. (MutexIsHeld(m) /\ EnabledWhileLocked(m))'
  BY <1>1, <1>2, <1>3, <1>4 DEF MutexIsHeld, EnabledWhileLocked, Locked
<1>7. (FoundMerged /\ RasterOwnsNothing /\ NoAbort /\ DrawNeverYields)'
  BY <1>3, <1>4, <1>5 DEF SoleInv, Sole, FoundMerged, RasterOwnsNothing, NoAbort, DrawNeverYields,
      Locked, topology
<1>8. QED
  BY <1>6, <1>7 DEF Sole

(* A step inside of it, or one that frees it: there the other thread is    *)
(* not, but perhaps about to unmerge.                                      *)
LEMMA SoleWorks ==
  ASSUME NEW m \in Merger, SoleInv(m), NEW t \in Queue, NEW label \in Label,
         Goes(t, label), pc[t] \in Locked,
         \/ label \in {"recordLease", "unmergeQueues"} /\ own' = own
         \/ label \notin Locked /\ own' = [own EXCEPT ![m] = Nobody],
         label \notin {"yield", "unmergeNow"},
         label = "unmergeQueues" => Merged', owner_of'[raster] = owner_of[raster],
         UNCHANGED <<enabled_, aborted>>,
         \A q \in Queue \ {t} : pc[q] = "unmergeNow" => IsMerged'
  PROVE  Sole(m)'
<1>1. own[m] = t /\ \A q \in Queue \ {t} : pc[q] \notin Locked
  BY DEF SoleInv, Sole, MutexIsHeld
<1>2. \A q \in Queue \ {t} : pc'[q] = pc[q] \/ pc'[q] \in {"idle", "woken"}
  BY DEF Goes, Stays
<1>3. pc'[t] = label
  BY DEF Goes
<1>4. label \notin Locked => own'[m] = Nobody
  BY DEF SoleInv, Sole, MergerInv, TypeOK, Locked
<1>5. (MutexIsHeld(m))'
  BY <1>1, <1>2, <1>3, <1>4, PairAssumption DEF MutexIsHeld, Locked
<1>6. (EnabledWhileLocked(m))'
  BY <1>1, <1>4, PairAssumption DEF SoleInv, Sole, EnabledWhileLocked
<1>7. (FoundMerged /\ RasterOwnsNothing /\ NoAbort /\ DrawNeverYields)'
  BY <1>1, <1>2, <1>3 DEF SoleInv, Sole, FoundMerged, RasterOwnsNothing, NoAbort, DrawNeverYields,
      Locked, topology
<1>8. QED
  BY <1>5, <1>6, <1>7 DEF Sole

LEMMA SoleMovesKeep ==
  ASSUME NEW m \in Merger, Merger = {m}, SoleInv(m), NEW t \in Queue,
         \/ StartPosted(t) \/ SetUp(t) \/ Enable(t) \/ CheckMerged(t)
         \/ CheckThread(t) \/ Yield(t) \/ NothingDrawn(t) \/ Preroll(t)
  PROVE  Sole(m)'
<1> USE PairAssumption
<1>1. TypeOK /\ MergerInv /\ DrawNeverYields
  BY DEF SoleInv, Sole, MergerInv
<1>2. pc[t] # "idle" => engine[t] = m
  BY <1>1, SoleEngine
<1>3. CASE StartPosted(t)
  <2> DEFINE label == Head(posted).task
  <2>1. posted \in Seq([engine : Merger, task : {"setUp", "tearDown"}]) /\ posted # <<>>
    BY <1>1, <1>3 DEF StartPosted, TypeOK
  <2>2. Head(posted) \in [engine : Merger, task : {"setUp", "tearDown"}]
    BY <2>1, HeadTailType
  <2>3. label \in {"setUp", "tearDown"} /\ Head(posted).engine \in Merger
    BY <2>2
  <2>4. label \in Label /\ {pc[t], label} \cap Locked = {}
    BY <1>3, <2>3 DEF Label, Locked, StartPosted
  <2>5. Goes(t, label)
    BY <1>1, <1>3, <2>3, <2>4 DEF StartPosted, GoTo, Goes, Stays, TypeOK
  <2> HIDE DEF label
  <2>6. QED
    BY <1>3, <2>3, <2>4, <2>5, SoleMoves DEF StartPosted
<1>4. CASE SetUp(t) \/ Enable(t) \/ CheckMerged(t)
  <2>1. PICK label \in {"idle", "checkMerged", "unmergeNow"} :
          /\ \/ label = "idle" /\ End(t)
             \/ label # "idle" /\ GoTo(t, label) /\ engine' = engine
          /\ label = "unmergeNow" => IsMerged
    BY <1>4 DEF SetUp, Enable, CheckMerged
  <2>2. label \in Label /\ {pc[t], label} \cap Locked = {} /\ pc[t] # "idle"
    BY <1>4 DEF Label, Locked, SetUp, Enable, CheckMerged
  <2>3. Goes(t, label)
    BY <1>1, <1>2, <2>1, <2>2, GoToGoes, EndGoes
  <2>4. QED
    BY <1>4, <2>1, <2>2, <2>3, SoleMoves DEF SetUp, Enable, CheckMerged
<1>5. CASE CheckThread(t)
  <2>1. IsMerged <=> Merged
    BY <1>2, <1>5, FreeMeansSettled DEF CheckThread, OwnFree
  <2>2. IsOnRasterizingThread(t)
    BY <1>1, <1>5, <2>1
    DEF CheckThread, IsOnRasterizingThread, MergerInv, PlatformPlaces, RasterPlaces, Drawing
  <2>3. "preroll" \in Label /\ {pc[t], "preroll"} \cap Locked = {}
    BY <1>5 DEF Label, Locked, CheckThread
  <2>4. Goes(t, "preroll")
    BY <1>1, <1>2, <1>5, <2>2, <2>3, GoToGoes DEF CheckThread
  <2>5. QED
    BY <1>5, <2>3, <2>4, SoleMoves DEF CheckThread
<1>6. CASE Yield(t)
  BY <1>1, <1>6 DEF Yield, DrawNeverYields
<1>7. CASE NothingDrawn(t)
  <2>1. Goes(t, "idle") /\ "idle" \in Label /\ {pc[t], "idle"} \cap Locked = {}
    BY <1>1, <1>7, EndGoes DEF NothingDrawn, Label, Locked
  <2>2. QED
    BY <1>7, <2>1, SoleMoves DEF NothingDrawn
<1>8. CASE Preroll(t)
  <2>1. PICK label \in {"decrement", "extend", "merge"} : GoTo(t, label)
    BY <1>8 DEF Preroll
  <2>2. label \in Label /\ {pc[t], label} \cap Locked = {}
    BY <1>8 DEF Label, Locked, Preroll
  <2>3. Goes(t, label)
    BY <1>1, <1>2, <1>8, <2>1, <2>2, GoToGoes DEF Preroll
  <2>4. QED
    BY <1>8, <2>2, <2>3, SoleMoves DEF Preroll
<1>9. QED
  BY <1>3, <1>4, <1>5, <1>6, <1>7, <1>8

LEMMA SolePlatformKeeps ==
  ASSUME NEW m \in Merger, Merger = {m}, SoleInv(m),
         Disable(m) \/ WaitUntilMerged(m) \/ RunNowOrPostTask \/ WaitAgain
  PROVE  Sole(m)'
<1> USE PairAssumption
<1>1. TypeOK /\ MergerInv
  BY DEF SoleInv, MergerInv
<1>2. pc[platform] # "idle" => engine[platform] = m
  BY <1>1, SoleEngine
<1>3. PICK label \in {"disabled", "waiting", "setUp", "tearDown", "latched", "idle"} :
        \/ label = "idle" /\ End(platform)
        \/ /\ label # "idle" /\ GoTo(platform, label)
           /\ \/ engine' = engine /\ pc[platform] # "idle"
              \/ engine' = [engine EXCEPT ![platform] = m]
  BY DEF Disable, ChangeSurface, WaitUntilMerged, RunNowOrPostTask, WaitAgain
<1>4. label \in Label /\ {pc[platform], label} \cap Locked = {}
  BY DEF Label, Locked, Disable, ChangeSurface, WaitUntilMerged, RunNowOrPostTask, WaitAgain
<1>5. Goes(platform, label)
  <2>1. CASE engine' = engine /\ label # "idle" /\ pc[platform] # "idle"
    BY <1>1, <1>2, <1>3, <1>4, <2>1, GoToGoes
  <2>2. CASE engine' = [engine EXCEPT ![platform] = m] /\ label # "idle"
    BY <1>1, <1>3, <1>4, <2>2 DEF TypeOK, GoTo, Goes, Stays
  <2>3. CASE label = "idle"
    BY <1>1, <1>3, <2>3, EndGoes
  <2>4. QED
    BY <1>3, <2>1, <2>2, <2>3
<1>6. /\ UNCHANGED <<topology, lease, own, aborted>>
      /\ enabled_' = enabled_ \/ own[m] = Nobody
  BY DEF Disable, ChangeSurface, WaitUntilMerged, RunNowOrPostTask, WaitAgain
<1>7. QED
  BY <1>4, <1>5, <1>6, SoleMoves

LEMMA SoleBeginsKeep ==
  ASSUME NEW m \in Merger, Merger = {m}, SoleInv(m), NEW t \in Queue,
         BeginMerge(t) \/ BeginExtend(t) \/ BeginDecrement(t) \/ BeginUnmergeNow(t)
  PROVE  Sole(m)'
<1> USE PairAssumption
<1>1. TypeOK /\ MergerInv /\ pc[t] # "idle"
  BY DEF SoleInv, MergerInv, BeginMerge, BeginExtend, BeginDecrement, BeginUnmergeNow
<1>2. engine[t] = m
  BY <1>1, SoleEngine
<1>3. /\ own[m] = Nobody /\ UNCHANGED <<topology, lease, enabled_, aborted>>
      /\ pc[t] \notin Locked
  BY <1>2
  DEF BeginMerge, BeginExtend, BeginDecrement, BeginUnmergeNow, OwnFree, Locked
<1>4. PICK label \in {"mergeQueues", "extendLease", "decrementLease", "eraseLease",
                      "decrement", "idle"} :
        /\ \/ label = "idle" /\ End(t) /\ own' = own
           \/ /\ label = "decrement" /\ own' = own /\ engine' = engine
              /\ GoTo(t, label) \/ NotifyAndGoTo(t, label)
           \/ /\ label \notin {"idle", "decrement"} /\ LockOwn(t) /\ engine' = engine
              /\ GoTo(t, label) /\ enabled_
        /\ label \in {"decrementLease", "eraseLease"} => IsMerged
  BY DEF BeginMerge, BeginExtend, BeginDecrement, BeginUnmergeNow, SoleInv, Sole, FoundMerged
<1>5. label \in Label
  BY DEF Label
<1>6. Goes(t, label)
  BY <1>1, <1>2, <1>4, <1>5, GoToGoes, NotifyGoes, EndGoes
<1>7. CASE label \in {"idle", "decrement"}
  <2>1. {pc[t], label} \cap Locked = {}
    BY <1>3, <1>7 DEF Locked
  <2>2. QED
    BY <1>3, <1>4, <1>5, <1>6, <1>7, <2>1, SoleMoves
<1>8. CASE label \notin {"idle", "decrement"}
  <2>1. own' = [own EXCEPT ![m] = t] /\ enabled_
    BY <1>2, <1>4, <1>8 DEF LockOwn
  <2>2. label \in Locked \ {"recordLease", "unmergeQueues"}
    BY <1>8 DEF Locked
  <2>3. QED
    BY <1>3, <1>4, <1>5, <1>6, <2>1, <2>2, SoleLocks
<1>9. QED
  BY <1>7, <1>8

(* Nothing is in the way of a merge, or of the unmerge of what is merged.   *)
LEMMA MergePossible ==
  ASSUME Topology, RasterOwnsNothing
  PROVE  /\ ~Merged => MergeSucceeds(platform, raster)
         /\ Merged => UnmergeSucceeds(platform, raster)
<1> USE PairAssumption, UnmergedAssumption
    DEF Topology, TopologyTypeOK, MergeTopology, OneOwnerPerQueue, OwnerNeverSubsumed,
        Merged, Owns, IsSubsumed, RasterOwnsNothing
<1>1. /\ subsumed_by[raster] \in {platform, kUnmerged}
      /\ subsumed_by[platform] # raster /\ subsumed_by[platform] # platform
  OBVIOUS
<1>2. ~IsSubsumed(platform)
  BY <1>1
<1>3. Merged <=> IsSubsumed(raster)
  BY <1>1
<1>4. QED
  BY <1>1, <1>2, <1>3 DEF MergeSucceeds, MergeChanges, UnmergeSucceeds

LEMMA SoleMergeKeeps ==
  ASSUME NEW m \in Merger, Merger = {m}, SoleInv(m), NEW t \in Queue,
         MergeTheQueues(t)
  PROVE  Sole(m)'
<1> USE PairAssumption
<1>1. /\ TypeOK /\ MergerInv /\ Topology
      /\ pc[t] = "mergeQueues" /\ pc[t] # "idle" /\ pc[t] \in Locked
  BY DEF SoleInv, MergerInv, MergeTheQueues, Topology, TypeOK, Locked
<1>2. engine[t] = m
  BY <1>1, SoleEngine
<1>3. t = raster /\ ~Merged /\ ~IsMerged
  BY <1>1, NotMerged DEF MergerInv, PlatformPlaces
<1>4. MergeSucceeds(platform, raster)
  BY <1>1, <1>3, MergePossible DEF SoleInv, Sole
<1>5. /\ Merge(platform, raster) /\ GoTo(t, "recordLease")
      /\ UNCHANGED <<own, aborted, lease, enabled_, engine>>
  BY <1>3, <1>4 DEF MergeTheQueues, Merged
<1>6. "recordLease" \in Label /\ "recordLease" \in Locked
  BY DEF Label, Locked
<1>7. Goes(t, "recordLease")
  BY <1>1, <1>2, <1>5, <1>6, GoToGoes
<1>8. owner_of'[raster] = owner_of[raster]
  BY <1>1, <1>5 DEF Merge, TypeOK, TopologyTypeOK
<1>9. \A q \in Queue \ {t} : pc[q] # "unmergeNow"
  BY <1>3 DEF SoleInv, Sole, FoundMerged
<1>10. QED
  BY <1>1, <1>5, <1>6, <1>7, <1>8, <1>9, SoleWorks

LEMMA SoleLeaseKeeps ==
  ASSUME NEW m \in Merger, Merger = {m}, SoleInv(m), NEW t \in Queue,
         RecordLease(t) \/ ExtendLease(t)
  PROVE  Sole(m)'
<1>1. TypeOK /\ MergerInv /\ pc[t] \in Locked /\ pc[t] # "idle"
  BY DEF SoleInv, MergerInv, RecordLease, ExtendLease, Locked
<1>2. engine[t] = m
  BY <1>1, SoleEngine
<1>3. IsMerged'
  BY <1>1, <1>2, LeaseGiven DEF TypeOK, RecordLease, ExtendLease
<1>4. "decrement" \in Label /\ "decrement" \notin Locked
  BY DEF Label, Locked
<1>5. Goes(t, "decrement")
  BY <1>1, <1>2, <1>4, GoToGoes, NotifyGoes DEF RecordLease, ExtendLease
<1>6. /\ own' = [own EXCEPT ![m] = Nobody] /\ UNCHANGED <<enabled_, aborted>>
      /\ owner_of'[raster] = owner_of[raster]
  BY <1>2 DEF RecordLease, ExtendLease, UnlockOwn, topology
<1>7. QED
  BY <1>1, <1>3, <1>4, <1>5, <1>6, SoleWorks

(* The thread that leaves no lease is the platform thread: the draw of the  *)
(* raster thread that runs on after it merged leaves one.                  *)
LEMMA SoleLeavingKeeps ==
  ASSUME NEW m \in Merger, Merger = {m}, SoleInv(m), NEW t \in Queue, NEW l,
         LeaveLeases(t, l), pc[t] \in {"decrementLease", "eraseLease"},
         UNCHANGED <<topology, enabled_, aborted>>,
         t = raster /\ Merged => ~AllZero(l)
  PROVE  Sole(m)'
<1> USE PairAssumption
<1>1. TypeOK /\ MergerInv /\ pc[t] \in Locked /\ pc[t] # "idle" /\ IsMerged
  BY DEF SoleInv, MergerInv, Sole, FoundMerged, Locked
<1>2. engine[t] = m /\ Merged /\ Merged'
  BY <1>1, SoleEngine DEF MergerInv, LeasesFollowQueues, Merged, Owns, topology
<1>3. lease' = l /\ owner_of'[raster] = owner_of[raster]
  BY DEF LeaveLeases, topology
<1>4. CASE AllZero(l)
  <2>1. "unmergeQueues" \in Label /\ t = platform
    BY <1>2, <1>4 DEF Label
  <2>2. Goes(t, "unmergeQueues") /\ own' = own
    BY <1>1, <1>2, <1>4, <2>1, GoToGoes DEF LeaveLeases
  <2>3. pc[raster] # "unmergeNow"
    BY <1>1, <1>2 DEF MergerInv, RasterPlaces
  <2>4. QED
    BY <1>1, <1>2, <1>3, <2>1, <2>2, <2>3, SoleWorks
<1>5. CASE ~AllZero(l)
  <2>1. IsMerged'
    BY <1>3, <1>5 DEF IsMerged, AllZero
  <2>2. "idle" \in Label /\ "idle" \notin Locked
    BY DEF Label, Locked
  <2>3. Goes(t, "idle") /\ own' = [own EXCEPT ![m] = Nobody]
    BY <1>1, <1>2, <1>5, EndGoes DEF LeaveLeases, UnlockOwn
  <2>4. QED
    BY <1>1, <1>3, <2>1, <2>2, <2>3, SoleWorks
<1>6. QED
  BY <1>4, <1>5

LEMMA SoleDecrementKeeps ==
  ASSUME NEW m \in Merger, Merger = {m}, SoleInv(m), NEW t \in Queue,
         DecrementLease(t) \/ UnMergeNowIfLastOne(t)
  PROVE  Sole(m)'
<1> USE PairAssumption
<1>1. /\ TypeOK /\ MergerInv /\ pc[t] \in {"decrementLease", "eraseLease"}
      /\ pc[t] # "idle" /\ IsMerged /\ UNCHANGED <<topology, enabled_>>
  BY DEF SoleInv, MergerInv, Sole, FoundMerged, DecrementLease, UnMergeNowIfLastOne
<1>2. engine[t] = m
  BY <1>1, SoleEngine
<1>3. lease \in [Merger -> 0 .. LeaseTerm \cup {NoLease}]
  BY <1>1 DEF TypeOK
<1>4. lease[m] # NoLease /\ lease[m] # 0 /\ lease[m] \in Nat
  BY <1>1, <1>3, LeaseAssumption DEF IsMerged, AllZero
<1>5. CASE DecrementLease(t)
  <2> DEFINE l == [lease EXCEPT ![m] = @ - 1]
  <2>1. LeaveLeases(t, l) /\ UNCHANGED aborted
    BY <1>2, <1>4, <1>5 DEF DecrementLease
  <2>2. t = raster /\ Merged => l[m] \in Nat \ {0}
    BY <1>1, <1>2, <1>3, <1>4, <1>5, RasterLeavesLease DEF DecrementLease
  <2>3. t = raster /\ Merged => ~AllZero(l)
    BY <2>2, LeaseAssumption DEF AllZero
  <2> HIDE DEF l
  <2>4. QED
    BY <1>1, <2>1, <2>3, SoleLeavingKeeps
<1>6. CASE UnMergeNowIfLastOne(t)
  <2>1. t # raster \/ ~Merged
    BY <1>6 DEF UnMergeNowIfLastOne, SoleInv, MergerInv, RasterPlaces
  <2>2. QED
    BY <1>1, <1>6, <2>1, SoleLeavingKeeps DEF UnMergeNowIfLastOne
<1>7. QED
  BY <1>5, <1>6

LEMMA SoleUnmergeKeeps ==
  ASSUME NEW m \in Merger, Merger = {m}, SoleInv(m), NEW t \in Queue,
         UnmergeTheQueues(t)
  PROVE  Sole(m)'
<1> USE PairAssumption
<1>1. /\ TypeOK /\ MergerInv /\ Topology /\ pc[t] = "unmergeQueues"
      /\ pc[t] \in Locked /\ pc[t] # "idle" /\ Merged
  BY DEF SoleInv, Sole, FoundMerged, MergerInv, UnmergeTheQueues, Topology, TypeOK, Locked
<1>2. engine[t] = m
  BY <1>1, SoleEngine
<1>3. UnmergeSucceeds(platform, raster)
  BY <1>1, MergePossible DEF SoleInv, Sole
<1>4. Unmerge(platform, raster) /\ UnlockOwn(t) /\ End(t) /\ UNCHANGED <<aborted, enabled_>>
  BY <1>3 DEF UnmergeTheQueues
<1>5. "idle" \in Label /\ "idle" \notin Locked
  BY DEF Label, Locked
<1>6. Goes(t, "idle") /\ own' = [own EXCEPT ![m] = Nobody]
  BY <1>1, <1>2, <1>4, EndGoes DEF UnlockOwn
<1>7. owner_of'[raster] = owner_of[raster]
  BY <1>1, <1>4 DEF Unmerge, TypeOK, TopologyTypeOK
<1>8. ~IsMerged
  BY <1>1 DEF MergerInv, SharedIsHeld
<1>9. \A q \in Queue \ {t} : pc[q] # "unmergeNow"
  BY <1>8 DEF SoleInv, Sole, FoundMerged
<1>10. QED
  BY <1>1, <1>4, <1>5, <1>6, <1>7, <1>9, SoleWorks

LEMMA SoleStartKeeps ==
  ASSUME NEW m \in Merger, Merger = {m}, SoleInv(m), NEW t \in Queue,
         StartDraw(t, m)
  PROVE  Sole(m)'
<1>1. TypeOK /\ "check" \in Label /\ {pc[t], "check"} \cap Locked = {}
  BY DEF SoleInv, MergerInv, StartDraw, Label, Locked
<1>2. Goes(t, "check")
  BY <1>1 DEF StartDraw, TypeOK, GoTo, Goes, Stays
<1>3. QED
  BY <1>1, <1>2, SoleMoves DEF StartDraw

LEMMA SoleInit ==
  ASSUME NEW m \in Merger, Init
  PROVE  SoleInv(m)
<1>1. MergerInv
  BY MergerInvInit
<1>2. \A t \in Queue : pc[t] = "idle" /\ own[m] # t
  BY PairAssumption DEF Init
<1>3. owner_of[raster] = {}
  BY PairAssumption DEF Init, InitTopology
<1>4. QED
  BY <1>1, <1>2, <1>3
  DEF Init, SoleInv, Sole, MutexIsHeld, EnabledWhileLocked, FoundMerged, Locked,
      RasterOwnsNothing, NoAbort, DrawNeverYields

LEMMA SoleStep ==
  ASSUME NEW m \in Merger, Merger = {m}, SoleInv(m), [Next]_vars
  PROVE  SoleInv(m)'
<1>1. SUFFICES Sole(m)'
  BY MergerInvStep DEF SoleInv
<1>2. CASE \E t \in Queue : StartDraw(t, m)
  BY <1>2, SoleStartKeeps
<1>3. CASE \E t \in Queue : Step(t)
  <2>1. PICK t \in Queue : Step(t)
    BY <1>3
  <2>2. CASE \/ StartPosted(t) \/ SetUp(t) \/ Enable(t) \/ CheckMerged(t)
             \/ CheckThread(t) \/ Yield(t) \/ NothingDrawn(t) \/ Preroll(t)
    BY <2>2, SoleMovesKeep
  <2>3. CASE BeginMerge(t) \/ BeginExtend(t) \/ BeginDecrement(t) \/ BeginUnmergeNow(t)
    BY <2>3, SoleBeginsKeep
  <2>4. CASE MergeTheQueues(t)
    BY <2>4, SoleMergeKeeps
  <2>5. CASE RecordLease(t) \/ ExtendLease(t)
    BY <2>5, SoleLeaseKeeps
  <2>6. CASE DecrementLease(t) \/ UnMergeNowIfLastOne(t)
    BY <2>6, SoleDecrementKeeps
  <2>7. CASE UnmergeTheQueues(t)
    BY <2>7, SoleUnmergeKeeps
  <2>8. QED
    BY <2>1, <2>2, <2>3, <2>4, <2>5, <2>6, <2>7 DEF Step
<1>4. CASE \/ \E n \in Merger : Disable(n) \/ WaitUntilMerged(n)
           \/ RunNowOrPostTask \/ WaitAgain
  BY <1>4, SolePlatformKeeps
<1>5. CASE UNCHANGED vars
  <2>1. UNCHANGED IsMerged /\ UNCHANGED Merged
    BY <1>5 DEF vars, topology, IsMerged, Merged, Owns, AllZero
  <2>2. QED
    BY <1>5, <2>1
    DEF vars, topology, SoleInv, Sole, MutexIsHeld, EnabledWhileLocked, FoundMerged,
        RasterOwnsNothing, NoAbort, DrawNeverYields
<1>6. \A n \in Merger : n = m
  OBVIOUS
<1>7. QED
  BY <1>2, <1>3, <1>4, <1>5, <1>6 DEF Next

(* Only the holder of the mutex changes the queues.                        *)
LEMMA SoleChanges ==
  ASSUME NEW m \in Merger, Merger = {m}, SoleInv(m), [Next]_vars, topology' # topology
  PROVE  enabled_
<1>1. PICK t \in Queue : MergeTheQueues(t) \/ UnmergeTheQueues(t)
  BY DEF Next, Step, vars, StartDraw, StartPosted, SetUp, Enable, CheckThread, Yield,
     NothingDrawn, Preroll, BeginMerge, RecordLease, BeginExtend, ExtendLease, BeginDecrement,
     DecrementLease, CheckMerged, BeginUnmergeNow, UnMergeNowIfLastOne, Disable,
     ChangeSurface, WaitUntilMerged, RunNowOrPostTask, WaitAgain
<1>2. pc[t] \in Locked
  BY <1>1 DEF MergeTheQueues, UnmergeTheQueues, Locked
<1>3. QED
  BY <1>2, PairAssumption DEF SoleInv, Sole, MutexIsHeld, EnabledWhileLocked

(* For one engine, whenever its surface comes and goes and however its     *)
(* frames, the shell's tasks and the waiting platform thread interleave:   *)
(* none of the FML_CHECKs of SharedThreadMerger fails, and a disabled      *)
(* merger leaves the queues alone.  Engines that share their threads have  *)
(* a mutex each, and none of this.                                         *)
THEOREM OneEngineIsSafe ==
  ASSUME NEW m \in Merger, Merger = {m}
  PROVE  Spec => []NoAbort /\ NoChangeWhileDisabled
<1>1. Init => SoleInv(m)
  BY SoleInit
<1>2. SoleInv(m) /\ [Next]_vars => SoleInv(m)'
  BY SoleStep
<1>3. SoleInv(m) => NoAbort
  BY DEF SoleInv, Sole
<1>4. SoleInv(m) /\ [Next]_vars => [topology' # topology => enabled_]_vars
  BY SoleChanges
<1>5. QED
  BY <1>1, <1>2, <1>3, <1>4, PTL DEF Spec, NoChangeWhileDisabled
=============================================================================
