------------------------ MODULE QueueTopology_proofs ------------------------
(***************************************************************************)
(* Merging, unmerging and disposing keep the topology of any set of queues *)
(* as message_loop_task_queues.h promises, one operation at a time.  The   *)
(* facts are about actions, for the specifications that contain them.      *)
(***************************************************************************)
EXTENDS QueueTopology, TLAPS

Topology == TopologyTypeOK /\ MergeTopology

LEMMA InitTopologyHolds == InitTopology => Topology
BY UnmergedAssumption
DEF InitTopology, Topology, TopologyTypeOK, MergeTopology, OneOwnerPerQueue,
  OwnerNeverSubsumed, NoDanglingEntry, ErasedIsIndependent, IsSubsumed

(* Merge gives the subsumed queue its one owner.                           *)
LEMMA MergeKeepsTopology ==
  ASSUME NEW owner \in Queue, NEW subsumed \in Queue, Topology, Merge(owner, subsumed)
  PROVE  Topology'
<1> USE UnmergedAssumption
    DEF Topology, TopologyTypeOK, MergeTopology, Merge, MergeChanges, IsSubsumed
<1>1. TopologyTypeOK'
  OBVIOUS
<1>2. OneOwnerPerQueue'
  BY DEF OneOwnerPerQueue
<1>3. OwnerNeverSubsumed'
  BY DEF OwnerNeverSubsumed
<1>4. NoDanglingEntry'
  BY DEF NoDanglingEntry
<1>5. ErasedIsIndependent'
  BY DEF ErasedIsIndependent
<1> QED
  BY <1>1, <1>2, <1>3, <1>4, <1>5

LEMMA UnmergeKeepsTopology ==
  ASSUME NEW owner \in Queue, NEW subsumed \in Queue, Topology, Unmerge(owner, subsumed)
  PROVE  Topology'
<1> USE UnmergedAssumption
    DEF Topology, TopologyTypeOK, MergeTopology, Unmerge, UnmergeSucceeds, IsSubsumed,
      Owns
<1>1. TopologyTypeOK'
  OBVIOUS
<1>2. OneOwnerPerQueue'
  BY DEF OneOwnerPerQueue
<1>3. OwnerNeverSubsumed'
  BY DEF OwnerNeverSubsumed
<1>4. NoDanglingEntry'
  BY DEF NoDanglingEntry
<1>5. ErasedIsIndependent'
  BY DEF ErasedIsIndependent
<1> QED
  BY <1>1, <1>2, <1>3, <1>4, <1>5

(* The queues erased with their owner are named by no other entry, since   *)
(* each has one owner and none of them owns a queue.                       *)
LEMMA DisposeKeepsTopology ==
  ASSUME NEW q \in Queue, Topology, Dispose(q)
  PROVE  Topology'
<1> USE UnmergedAssumption
    DEF Topology, TopologyTypeOK, MergeTopology, Dispose, IsSubsumed
<1>1. TopologyTypeOK'
  OBVIOUS
<1>2. OneOwnerPerQueue'
  BY DEF OneOwnerPerQueue, OwnerNeverSubsumed
<1>3. OwnerNeverSubsumed'
  BY DEF OwnerNeverSubsumed
<1>4. NoDanglingEntry'
  BY DEF NoDanglingEntry, OneOwnerPerQueue, OwnerNeverSubsumed
<1>5. ErasedIsIndependent'
  BY DEF ErasedIsIndependent
<1> QED
  BY <1>1, <1>2, <1>3, <1>4, <1>5

(* Two loops never run the tasks of one source.                            *)
LEMMA OneRunner ==
  ASSUME Topology, NEW p \in Queue, NEW q \in Queue, NEW s \in Queue,
         s \in Sources(p), s \in Sources(q)
  PROVE  p = q
BY UnmergedAssumption
DEF Topology, TopologyTypeOK, MergeTopology, OneOwnerPerQueue, OwnerNeverSubsumed,
  Sources, IsSubsumed

LEMMA RunnerOf ==
  ASSUME Topology, NEW q \in entries
  PROVE  Runner(q) \in entries /\ q \in Sources(Runner(q))
BY UnmergedAssumption
DEF Topology, TopologyTypeOK, MergeTopology, OneOwnerPerQueue, OwnerNeverSubsumed,
  NoDanglingEntry, Sources, Runner, IsSubsumed
=============================================================================
