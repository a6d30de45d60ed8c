---------------------------- MODULE QueueTopology ----------------------------
(***************************************************************************)
(* Which task queue runs the tasks of which: the owner_of and subsumed_by  *)
(* fields of fml::TaskQueueEntry and the operations of                     *)
(* fml::MessageLoopTaskQueues that change them.  Every operation holds     *)
(* queue_mutex_ from its first line to its return, so each is one action.  *)
(*                                                                         *)
(* MessageLoopTaskQueues is the only writer of these fields; the task      *)
(* sources are added by TaskQueues, and the thread mergers use only this   *)
(* part.                                                                   *)
(***************************************************************************)
EXTENDS Naturals, FiniteSets

CONSTANTS
  Queue,      \* identifiers of the queues that are created during a behaviour
  kUnmerged   \* the TaskQueueId no queue has

ASSUME UnmergedAssumption == kUnmerged \notin Queue

VARIABLES
  entries,      \* keys of queue_entries_: the queues created and not disposed
  owner_of,     \* [Queue -> SUBSET Queue], TaskQueueEntry::owner_of
  subsumed_by   \* [Queue -> Queue \cup {kUnmerged}], TaskQueueEntry::subsumed_by

topology == <<entries, owner_of, subsumed_by>>

(* Every queue of a scenario exists from the start: the shell creates its  *)
(* threads before anything is merged.                                      *)
InitTopology ==
  /\ entries = Queue
  /\ owner_of = [q \in Queue |-> {}]
  /\ subsumed_by = [q \in Queue |-> kUnmerged]

-----------------------------------------------------------------------------

IsSubsumed(q) == subsumed_by[q] # kUnmerged

Owns(owner, subsumed) == subsumed \in owner_of[owner]

(* Faulty: a subsumed queue goes on running its tasks.                     *)
SourcesWhileSubsumed(q) == {q} \cup owner_of[q]

(* The queues whose tasks the loop of q runs.                              *)
Sources(q) == IF IsSubsumed(q) THEN {} ELSE {q} \cup owner_of[q]

(* Faulty: the loop of q itself is woken, merged or not.                   *)
RunnerIgnoringMerge(q) == q

(* The loop that runs the tasks registered with q.                         *)
Runner(q) == IF IsSubsumed(q) THEN subsumed_by[q] ELSE q

(* Faulty: a queue that owns others may be subsumed.                       *)
MergeChangesOfOwner(owner, subsumed) ==
  /\ owner # subsumed
  /\ subsumed \notin owner_of[owner]
  /\ ~IsSubsumed(owner)
  /\ ~IsSubsumed(subsumed)

(* What Merge answers, and when it changes something.                      *)
MergeChanges(owner, subsumed) ==
  /\ owner # subsumed
  /\ subsumed \notin owner_of[owner]
  /\ ~IsSubsumed(owner)
  /\ owner_of[subsumed] = {}
  /\ ~IsSubsumed(subsumed)

MergeSucceeds(owner, subsumed) ==
  owner = subsumed \/ Owns(owner, subsumed) \/ MergeChanges(owner, subsumed)

Merge(owner, subsumed) ==
  /\ {owner, subsumed} \subseteq entries
  /\ MergeChanges(owner, subsumed)
  /\ owner_of' = [owner_of EXCEPT ![owner] = @ \cup {subsumed}]
  /\ subsumed_by' = [subsumed_by EXCEPT ![subsumed] = owner]
  /\ UNCHANGED entries

UnmergeSucceeds(owner, subsumed) ==
  /\ owner_of[owner] # {}
  /\ ~IsSubsumed(owner)
  /\ IsSubsumed(subsumed)
  /\ Owns(owner, subsumed)

Unmerge(owner, subsumed) ==
  /\ {owner, subsumed} \subseteq entries
  /\ UnmergeSucceeds(owner, subsumed)
  /\ owner_of' = [owner_of EXCEPT ![owner] = @ \ {subsumed}]
  /\ subsumed_by' = [subsumed_by EXCEPT ![subsumed] = kUnmerged]
  /\ UNCHANGED entries

(* Dispose erases the entries a queue owns together with its own.  Its     *)
(* FML_DCHECK says no caller disposes a subsumed queue.  An erased entry   *)
(* is gone with its fields; they are reset so that no stale value is read. *)
Dispose(q) ==
  /\ q \in entries
  /\ ~IsSubsumed(q)
  /\ LET erased == {q} \cup owner_of[q] IN
       /\ entries' = entries \ erased
       /\ owner_of' = [p \in Queue |-> IF p \in erased THEN {} ELSE owner_of[p]]
       /\ subsumed_by' =
            [p \in Queue |-> IF p \in erased THEN kUnmerged ELSE subsumed_by[p]]

-----------------------------------------------------------------------------

TopologyTypeOK ==
  /\ entries \subseteq Queue
  /\ owner_of \in [Queue -> SUBSET Queue]
  /\ subsumed_by \in [Queue -> Queue \cup {kUnmerged}]

(* message_loop_task_queues.h, "Invariants for merge and un-merge", point  *)
(* 3: a queue owns others, or is subsumed, or is independent; an owner is  *)
(* never subsumed.  The code keeps the two fields of a pair in step over   *)
(* any sequence of merges, unmerges and disposals, and no live entry names *)
(* an erased one, which queue_entries_.at() would throw on.                *)
OneOwnerPerQueue ==
  \A p, q \in Queue : q \in owner_of[p] <=> subsumed_by[q] = p

OwnerNeverSubsumed ==
  \A q \in Queue : owner_of[q] # {} => ~IsSubsumed(q)

NoDanglingEntry ==
  \A q \in entries : owner_of[q] \subseteq entries
                     /\ subsumed_by[q] \in entries \cup {kUnmerged}

ErasedIsIndependent ==
  \A q \in Queue \ entries : owner_of[q] = {} /\ ~IsSubsumed(q)

MergeTopology ==
  /\ OneOwnerPerQueue
  /\ OwnerNeverSubsumed
  /\ NoDanglingEntry
  /\ ErasedIsIndependent
=============================================================================
