------------------------------- MODULE Pipeline -------------------------------
(***************************************************************************)
(* flutter::Pipeline (shell/common/pipeline.h): the bounded queue between  *)
(* the animator, which produces frames on the UI thread, and the           *)
(* rasterizer, which consumes them and may put the frame it has just       *)
(* consumed back.  Two counting semaphores guard a deque: empty_ counts    *)
(* the free places, available_ the items that may be taken.                *)
(*                                                                         *)
(* Only the accesses to the deque hold queue_mutex_, so that each call is  *)
(* several steps, which the other thread may come between.                 *)
(***************************************************************************)
EXTENDS Integers, Sequences

CONSTANTS
  Depth,      \* the maximum depth of the pipeline
  MaxItems    \* bound: items produced in a behaviour

ASSUME DepthAssumption == Depth \in Nat \ {0} /\ MaxItems \in Nat

VARIABLES
  empty_, available_,  \* the counts of the two semaphores
  inflight_,           \* the counter that is traced as "Pipeline Depth"
  queue_,              \* the items, which are numbered as they are produced
  producer,            \* the continuation the producer holds, and its commit
  consumer,            \* where the consumer is in Consume or in its resubmission
  item,                \* the item the consumer took last
  produced             \* items pushed by the producer so far

pipelineVars == <<empty_, available_, inflight_, queue_, producer, consumer, item,
          produced>>

PipelineInit ==
  /\ empty_ = Depth /\ available_ = 0 /\ inflight_ = 0
  /\ queue_ = <<>>
  /\ producer = "none"
  /\ consumer = "idle" /\ item = 0
  /\ produced = 0

-----------------------------------------------------------------------------
(* The producer.                                                           *)

(* Faulty: a continuation is given whether or not there is a place.        *)
ProduceUnchecked ==
  /\ producer = "none"
  /\ empty_' = empty_ - 1
  /\ inflight_' = inflight_ + 1
  /\ producer' = "holding"
  /\ UNCHANGED <<available_, queue_, consumer, item, produced>>

(* Produce, when TryWait finds a free place; else there is no continuation *)
(* and nothing changes.                                                    *)
Produce ==
  /\ producer = "none"
  /\ empty_ > 0
  /\ empty_' = empty_ - 1
  /\ inflight_' = inflight_ + 1
  /\ producer' = "holding"
  /\ UNCHANGED <<available_, queue_, consumer, item, produced>>

(* ProducerCommit pushes under the mutex and signals after it.  Complete   *)
(* calls it with a frame, and the destructor of a continuation that was    *)
(* never completed with none: the queue gets an item either way.           *)
ProducerCommit ==
  /\ producer = "holding"
  /\ produced < MaxItems
  /\ produced' = produced + 1
  /\ queue_' = Append(queue_, produced + 1)
  /\ producer' = "pushed"
  /\ UNCHANGED <<empty_, available_, inflight_, consumer, item>>

ProducerSignal ==
  /\ producer = "pushed"
  /\ available_' = available_ + 1
  /\ producer' = "none"
  /\ UNCHANGED <<empty_, inflight_, queue_, consumer, item, produced>>

-----------------------------------------------------------------------------
(* The consumer.                                                           *)

ConsumeTryWait ==
  /\ consumer = "idle"
  /\ available_ > 0
  /\ available_' = available_ - 1
  /\ consumer' = "taken"
  /\ UNCHANGED <<empty_, inflight_, queue_, producer, item, produced>>

ConsumePop ==
  /\ consumer = "taken"
  /\ item' = Head(queue_)
  /\ queue_' = Tail(queue_)
  /\ consumer' = "running"
  /\ UNCHANGED <<empty_, available_, inflight_, producer, produced>>

(* Faulty: the place is not freed.                                         *)
ConsumeKeepingPlace ==
  /\ consumer = "running"
  /\ inflight_' = inflight_ - 1
  /\ consumer' = "consumed"
  /\ UNCHANGED <<empty_, available_, queue_, producer, item, produced>>

(* The consumer function has run: its place is free again.                 *)
ConsumeRelease ==
  /\ consumer = "running"
  /\ empty_' = empty_ + 1
  /\ inflight_' = inflight_ - 1
  /\ consumer' = "consumed"
  /\ UNCHANGED <<available_, queue_, producer, item, produced>>

ConsumeReturn ==
  /\ consumer = "consumed"
  /\ consumer' = "idle"
  /\ UNCHANGED <<empty_, available_, inflight_, queue_, producer, item, produced>>

(* ProduceIfEmpty, for the item that was just consumed.                    *)
ProduceIfEmpty ==
  /\ consumer = "consumed"
  /\ empty_ > 0
  /\ empty_' = empty_ - 1
  /\ inflight_' = inflight_ + 1
  /\ consumer' = "holding"
  /\ UNCHANGED <<available_, queue_, producer, item, produced>>

(* Faulty: the old item is queued behind a newer one.                      *)
ProducerCommitAnyway ==
  /\ consumer = "holding"
  /\ queue_' = Append(queue_, item)
  /\ consumer' = "pushed"
  /\ UNCHANGED <<empty_, available_, inflight_, producer, item, produced>>

(* With a newer item in the queue the old one is dropped and its place     *)
(* freed.  inflight_ is not counted down on this path.                     *)
ProducerCommitIfEmpty ==
  /\ consumer = "holding"
  /\ \/ /\ queue_ = <<>>
        /\ queue_' = Append(queue_, item)
        /\ consumer' = "pushed"
        /\ UNCHANGED empty_
     \/ /\ queue_ # <<>>
        /\ empty_' = empty_ + 1
        /\ consumer' = "idle"
        /\ UNCHANGED queue_
  /\ UNCHANGED <<available_, inflight_, producer, item, produced>>

ResubmitSignal ==
  /\ consumer = "pushed"
  /\ available_' = available_ + 1
  /\ consumer' = "idle"
  /\ UNCHANGED <<empty_, inflight_, queue_, producer, item, produced>>

-----------------------------------------------------------------------------

PipelineNext ==
  \/ Produce \/ ProducerCommit \/ ProducerSignal
  \/ ConsumeTryWait \/ ConsumePop \/ ConsumeRelease \/ ConsumeReturn
  \/ ProduceIfEmpty \/ ProducerCommitIfEmpty \/ ResubmitSignal

PipelineSpec == PipelineInit /\ [][PipelineNext]_pipelineVars

-----------------------------------------------------------------------------

ProducerState == {"none", "holding", "pushed"}
ConsumerState == {"idle", "taken", "running", "consumed", "holding", "pushed"}

PipelineTypeOK ==
  /\ empty_ \in Nat /\ available_ \in Nat /\ inflight_ \in Int
  /\ queue_ \in Seq(Nat)
  /\ producer \in ProducerState
  /\ consumer \in ConsumerState
  /\ item \in Nat /\ produced \in 0 .. MaxItems

One(condition) == IF condition THEN 1 ELSE 0

(* Every place is free, queued, reserved by a continuation or held by the  *)
(* item being consumed.  A path of Produce, Complete, Consume or           *)
(* ProduceIfEmpty that loses a place ends in a pipeline that is full for   *)
(* ever; one that makes a place lets the producer run ahead of Depth.      *)
PlacesConserved ==
  empty_ + Len(queue_) + One(producer = "holding")
    + One(consumer \in {"running", "holding"}) = Depth

(* available_ counts the queued items but for one just pushed and not yet  *)
(* signalled, and one taken and not yet popped.  In particular Consume     *)
(* never looks at the front of an empty deque, which is undefined.         *)
ItemsAccounted ==
  available_ + One(producer = "pushed") + One(consumer \in {"pushed", "taken"})
    = Len(queue_)

(* A frame that is put back is queued behind no newer one: the items are   *)
(* consumed in the order in which they were produced, none of them again   *)
(* after a newer one has been.                                             *)
NeverBackwards == [][item' >= item]_pipelineVars

(* The queue holds a frame at most once, oldest first.                     *)
QueueInOrder ==
  /\ \A i, j \in DOMAIN queue_ : i < j => queue_[i] < queue_[j]
  /\ \A i \in DOMAIN queue_ : queue_[i] \in item .. produced
=============================================================================
