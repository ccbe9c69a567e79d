--------------------------- MODULE PartitionerOpen --------------------------
(***************************************************************************)
(* The partitioner process with the most general coordinator at the other  *)
(* end of its two pipes: it reads the announced nodes in order and may     *)
(* send, at any time and in any order, an unsat_node or terminate_node for *)
(* any node it has been told of (sync_ended_to_partitioner).  What holds   *)
(* here holds whatever the Python side decides.                            *)
(***************************************************************************)
EXTENDS Partitioner

CONSTANT PipeRoom   \* numbers of unread commands that leave room for one more

ASSUME PipeRoomType == PipeRoom \subseteq Nat

VARIABLE known      \* the nodes whose line the coordinator has read

vars == <<partitionerVars, known>>

Init ==
    /\ PartitionerInit
    /\ known = {}

CoordinatorReads ==
    /\ toCoord # <<>>
    /\ known' = known \cup IF Head(toCoord).op = "verdict" THEN {} ELSE {Head(toCoord).node}
    /\ toCoord' = Tail(toCoord)
    /\ UNCHANGED <<nodeState, leafHeap, aliveTasks, unsolved, ptask, phase, fromCoord>>

(* send_partitioner_message drops the line once the process has ended.     *)
CoordinatorWrites(o, n) ==
    /\ phase # "done"
    /\ n \in known
    /\ Len(fromCoord) \in PipeRoom
    /\ fromCoord' = Append(fromCoord, Ended(o, n))
    /\ UNCHANGED <<nodeState, leafHeap, aliveTasks, unsolved, ptask, phase, toCoord, known>>

Next ==
    \/ PartitionerNext /\ UNCHANGED known
    \/ CoordinatorReads
    \/ \E n \in Nodes, o \in {"unsat_node", "terminate_node"} : CoordinatorWrites(o, n)

Spec == Init /\ [][Next]_vars

-----------------------------------------------------------------------------
TypeOK ==
    /\ PartitionerTypeOK
    /\ known \subseteq Nodes

(* A line names a node whose state the reader can rely on: announced as    *)
(* refuted it is UNSAT, announced as a task it left UNCONVERTED.           *)
AnnouncedState ==
    /\ \A n \in known : nodeState[n] \in {"waiting", "unsat", "terminated"}
    /\ \A i \in 1 .. Len(toCoord) :
          toCoord[i].op = "new_unsat_node" => nodeState[toCoord[i].node] = "unsat"
    /\ \A i \in 1 .. Len(toCoord) :
          toCoord[i].op = "new_unknown_node" =>
              nodeState[toCoord[i].node] \in {"waiting", "unsat", "terminated"}

(* The parent's line comes before the child's: make_node looks the parent  *)
(* up by the ppid of the line (partition_tree.py:191), so a child that     *)
(* overtook its parent would be a KeyError.                                *)
ParentAnnouncedFirst ==
    \A i \in 1 .. Len(toCoord) : toCoord[i].op # "verdict" =>
        \A p \in ParentOf(toCoord[i].node) :
            \/ p \in known
            \/ \E j \in 1 .. i - 1 : toCoord[j] = NewNode(p)

(* No node is announced twice: pid2node would lose the first PartitionNode *)
(* and the parent would get a third child (assertion at partition_tree.py: *)
(* 266).                                                                   *)
AnnouncedOnce ==
    \A i \in 1 .. Len(toCoord) : toCoord[i].op # "verdict" =>
        /\ toCoord[i].node \notin known
        /\ \A j \in 1 .. Len(toCoord) : j # i /\ toCoord[j].op # "verdict" =>
              toCoord[j].node # toCoord[i].node

(* What the process has once called UNSAT or given up it never revives: a  *)
(* late command cannot put a node back among the alive tasks.              *)
NeverRevived ==
    [][\A n \in Nodes :
        /\ nodeState[n] = "unsat" => nodeState'[n] = "unsat"
        /\ nodeState[n] = "terminated" => nodeState'[n] \in {"terminated", "unsat"}]_vars
=============================================================================
