---------------------------- MODULE Partitioner -----------------------------
(***************************************************************************)
(* The main loop of the C++ partitioner process: context_t::operator() and *)
(* the handlers it calls (subpaving_t_def.h:3389-3962), together with the  *)
(* driver that writes a task file between two calls (subpaving_tactic.cpp, *)
(* solve).  The arithmetic is abstracted to what the loop sees of it:      *)
(* whether a node has a split variable (Kids), and whether propagation     *)
(* finds it inconsistent, which it may but need not do for a node that is  *)
(* in fact unsatisfiable.                                                  *)
(***************************************************************************)
EXTENDS PartitionSpace, Integers, Sequences

CONSTANTS
    MaxRunning,  \* m_max_running_tasks, at least the coordinator's cores
    Refutable,   \* the nodes propagation is able to find inconsistent
    NoTask       \* UINT32_MAX in m_ptask->m_node_id

ASSUME MaxRunningType == MaxRunning \in Nat \ {0}

(* m_max_alive_tasks: init_partition computes 1.2 * max_running + 2.       *)
MaxAlive == (12 * MaxRunning) \div 10 + 2

(* Propagation is sound: it refutes unsatisfiable nodes only.              *)
ASSUME RefutableSound == Refutable \subseteq Nodes \ Sat

ASSUME NoTaskFresh == NoTask \notin Nodes

VARIABLES
    nodeState,   \* m_nodes_state; "none" before mk_node
    leafHeap,    \* m_leaf_heap, as the set of its node ids
    aliveTasks,  \* m_alive_task_num
    unsolved,    \* m_unsolved_task_num
    ptask,       \* m_ptask->m_node_id: written to a file, not yet announced
    phase,       \* where the loop is: "announce", "loop", "select", "done"
    toCoord,     \* the lines in the stdout pipe, unread
    fromCoord    \* the lines in the stdin pipe, unread

partitionerVars == <<nodeState, leafHeap, aliveTasks, unsolved, ptask, phase,
                     toCoord, fromCoord>>

States == {"none", "unconverted", "waiting", "unsat", "terminated"}
Verdicts == {"sat", "unsat", "unknown"}

NewNode(n)   == [op |-> "new_unknown_node", node |-> n]
NewUnsatMisnamed(n) == [op |-> "unsat_node", node |-> n]  \* fault: P2C and C2P mixed up
NewUnsat(n)  == [op |-> "new_unsat_node", node |-> n]
Verdict(v)   == [op |-> "verdict", result |-> v]
Ended(o, n)  == [op |-> o, node |-> n]

Lines == [op : {"new_unknown_node", "new_unsat_node"}, node : Nodes]
            \cup [op : {"verdict"}, result : Verdicts]
Commands == [op : {"unsat_node", "terminate_node"}, node : Nodes]

(* The goal may be decided before a context is built (process), or the     *)
(* root found inconsistent before the first task: no node is announced and *)
(* the verdict is printed at once.  Otherwise the root is queued.          *)
PartitionerInit ==
    /\ fromCoord = <<>>
    /\ aliveTasks = 0
    /\ ptask = NoTask
    /\ \/ /\ nodeState = [n \in Nodes |-> IF n = Root THEN "unconverted" ELSE "none"]
          /\ leafHeap = {Root}
          /\ unsolved = 1
          /\ phase = "loop"
          /\ toCoord = <<>>
       \/ /\ leafHeap = {}
          /\ unsolved = 0
          /\ phase = "done"
          /\ \/ /\ Root \in Refutable
                /\ nodeState = [n \in Nodes |-> IF n = Root THEN "unconverted" ELSE "none"]
                /\ toCoord = <<Verdict("unsat")>>
             \/ /\ nodeState = [n \in Nodes |-> "none"]
                /\ toCoord = <<Verdict(IF Root \in Sat THEN "sat" ELSE "unsat")>>

-----------------------------------------------------------------------------
(* node_solved_unsat, unsat_push_up, unsat_push_down, as the set of nodes  *)
(* whose state they write.                                                 *)

(* Fault: the other half is not looked at.                                 *)
PushedUpUnchecked(st, n) == {a \in Above(n) : st[a] # "unsat"}

(* can_propagate_unsat along the path from n: an ancestor is raised when   *)
(* every node from n's parent up to it is not UNSAT yet and has no half    *)
(* off the path that is not UNSAT.                                         *)
PushedUp(st, n) ==
    {a \in Above(n) : \A b \in Above(n) : a \in Up[b] =>
        /\ st[b] # "unsat"
        /\ \A k \in Kids[b] \ Up[n] : st[k] = "unsat"}

(* The recursion below n stops at a node that is UNSAT already.            *)
PushedDown(st, n) ==
    {d \in Below(n) : st[d] # "none" /\
        \A b \in Up[d] : n \in Above(b) => st[b] # "unsat"}

(* Fault: a node that is UNSAT already is solved again.                    *)
SolvedUnsatTwice(st, n) == {n} \cup PushedUp(st, n) \cup PushedDown(st, n)

SolvedUnsat(st, n) ==
    IF st[n] = "unsat" THEN {}
    ELSE {n} \cup PushedUp(st, n) \cup PushedDown(st, n)

(* Fault: a slot is given back for every node, WAITING or not.             *)
ReadUnsatNodeUnfiltered(n) ==
    LET solved == SolvedUnsat(nodeState, n)
    IN  /\ nodeState' = [m \in Nodes |-> IF m \in solved THEN "unsat" ELSE nodeState[m]]
        /\ aliveTasks' = aliveTasks - Cardinality(solved)
        /\ unsolved' = unsolved - Cardinality(solved)

(* parse_line, one line.  update_node_state_unsat gives back the slot of a *)
(* task that is still WAITING; terminate_node only touches WAITING nodes.  *)
ReadUnsatNode(n) ==
    LET solved == SolvedUnsat(nodeState, n)
    IN  /\ nodeState' = [m \in Nodes |-> IF m \in solved THEN "unsat" ELSE nodeState[m]]
        /\ aliveTasks' = aliveTasks - Cardinality({m \in solved : nodeState[m] = "waiting"})
        /\ unsolved' = unsolved - Cardinality(solved)

(* Fault: terminate_node does not look at the state.                       *)
ReadTerminateNodeUnchecked(n) ==
    /\ nodeState' = [nodeState EXCEPT ![n] = "terminated"]
    /\ aliveTasks' = aliveTasks - 1
    /\ UNCHANGED unsolved

ReadTerminateNode(n) ==
    /\ IF nodeState[n] = "waiting"
       THEN /\ nodeState' = [nodeState EXCEPT ![n] = "terminated"]
            /\ aliveTasks' = aliveTasks - 1
       ELSE UNCHANGED <<nodeState, aliveTasks>>
    /\ UNCHANGED unsolved

ParseLine ==
    /\ phase = "loop"
    /\ fromCoord # <<>>
    /\ \/ Head(fromCoord).op = "unsat_node" /\ ReadUnsatNode(Head(fromCoord).node)
       \/ Head(fromCoord).op = "terminate_node" /\ ReadTerminateNode(Head(fromCoord).node)
    /\ fromCoord' = Tail(fromCoord)
    /\ UNCHANGED <<leafHeap, ptask, phase, toCoord>>

(* Fault: no throttle.                                                     *)
StartSelectUnthrottled ==
    /\ phase = "loop"
    /\ fromCoord = <<>>
    /\ phase' = "select"
    /\ UNCHANGED <<nodeState, leafHeap, aliveTasks, unsolved, ptask, toCoord, fromCoord>>

(* communicate_with_coordinator found no complete line.  With more alive   *)
(* tasks than allowed the loop sleeps and reads again; it never changes    *)
(* state, so the sleeping iteration is a stuttering step.                  *)
StartSelect ==
    /\ phase = "loop"
    /\ fromCoord = <<>>
    /\ aliveTasks <= MaxAlive
    /\ phase' = "select"
    /\ UNCHANGED <<nodeState, leafHeap, aliveTasks, unsolved, ptask, toCoord, fromCoord>>

-----------------------------------------------------------------------------
(* create_new_task: one iteration per popped node.                         *)

(* node_info orders by depth, then by figures of the parent's task, then   *)
(* by id: the halves of one node tie on all but the id.                    *)
HeapTop(n) ==
    /\ n \in leafHeap
    /\ \A m \in leafHeap : Depth(n) <= Depth(m)
    /\ n \in LeftKids \/ \A m \in leafHeap \cap LeftKids : ParentOf(m) # ParentOf(n)

(* The node was solved while it was queued, or its parent was: dropped     *)
(* without a word to the coordinator and without touching m_unsolved.      *)
SkipNode(n) ==
    /\ phase = "select"
    /\ HeapTop(n)
    /\ \/ /\ nodeState[n] # "unconverted"
          /\ UNCHANGED nodeState
       \/ /\ nodeState[n] = "unconverted"
          /\ \E p \in ParentOf(n) : nodeState[p] = "unsat"
          /\ nodeState' = [nodeState EXCEPT ![n] = "unsat"]
    /\ leafHeap' = leafHeap \ {n}
    /\ UNCHANGED <<aliveTasks, unsolved, ptask, phase, toCoord, fromCoord>>

Convertible(n) ==
    /\ phase = "select"
    /\ HeapTop(n)
    /\ nodeState[n] = "unconverted"
    /\ \A p \in ParentOf(n) : nodeState[p] # "unsat"

(* Fault: the node is reported but keeps its state.                        *)
RefuteNodeUnmarked(n) ==
    /\ Convertible(n)
    /\ n \in Refutable
    /\ toCoord' = Append(toCoord, NewUnsat(n))
    /\ leafHeap' = leafHeap \ {n}
    /\ UNCHANGED <<nodeState, aliveTasks, unsolved, ptask, phase, fromCoord>>

(* convert_node_to_task finds the node inconsistent.                       *)
RefuteNode(n) ==
    /\ Convertible(n)
    /\ n \in Refutable
    /\ nodeState' = [nodeState EXCEPT ![n] = "unsat"]
    /\ toCoord' = Append(toCoord, NewUnsat(n))
    /\ leafHeap' = leafHeap \ {n}
    /\ UNCHANGED <<aliveTasks, unsolved, ptask, phase, fromCoord>>

(* It builds a task: operator() returns l_true, solve() writes the file    *)
(* and calls operator() again.                                             *)
BuildTask(n) ==
    /\ Convertible(n)
    /\ ptask' = n
    /\ phase' = "announce"
    /\ leafHeap' = leafHeap \ {n}
    /\ UNCHANGED <<nodeState, aliveTasks, unsolved, toCoord, fromCoord>>

(* Fault: off by one, a last alive task does not count.                    *)
FinishEarly ==
    /\ phase = "select"
    /\ leafHeap = {}
    /\ toCoord' = Append(toCoord, Verdict(IF aliveTasks > 1 THEN "unknown" ELSE "unsat"))
    /\ phase' = "done"
    /\ UNCHANGED <<nodeState, leafHeap, aliveTasks, unsolved, ptask, fromCoord>>

(* The heap ran empty: l_undef while a task is alive, l_false otherwise.   *)
(* The front end prints unknown or unsat and the process ends.             *)
Finish ==
    /\ phase = "select"
    /\ leafHeap = {}
    /\ toCoord' = Append(toCoord, Verdict(IF aliveTasks > 0 THEN "unknown" ELSE "unsat"))
    /\ phase' = "done"
    /\ UNCHANGED <<nodeState, leafHeap, aliveTasks, unsolved, ptask, fromCoord>>

-----------------------------------------------------------------------------
(* The lines split_node writes for the halves found inconsistent, left     *)
(* half first.                                                             *)
BornUnsatLines(dead) ==
    LET left == dead \cap LeftKids
        right == dead \ LeftKids
        lines(S) == IF S = {} THEN <<>> ELSE <<NewUnsat(CHOOSE n \in S : TRUE)>>
    IN  lines(left) \o lines(right)

(* Faults: split before announcing; refuted halves queued as well.         *)
AnnouncedLinesLate(dead) == Append(toCoord \o BornUnsatLines(dead), NewNode(ptask))
BornAll(dead) == Kids[ptask]

AnnouncedLines(dead) == Append(toCoord, NewNode(ptask)) \o BornUnsatLines(dead)

Born(dead) == Kids[ptask] \ dead

(* operator() with a pending task: announce it, then split_node.  A half   *)
(* born inconsistent is announced at once and enters neither the heap nor  *)
(* m_unsolved; its parent is not pushed up.  No split variable: no halves. *)
Announce ==
    /\ phase = "announce"
    /\ aliveTasks' = aliveTasks + 1
    /\ \E dead \in SUBSET (Kids[ptask] \cap Refutable) :
          /\ nodeState' = [m \in Nodes |-> CASE m = ptask -> "waiting"
                                             [] m \in Born(dead) -> "unconverted"
                                             [] m \in dead -> "unsat"
                                             [] OTHER -> nodeState[m]]
          /\ toCoord' = AnnouncedLines(dead)
          /\ leafHeap' = leafHeap \cup Born(dead)
          /\ unsolved' = unsolved + Cardinality(Born(dead))
    /\ ptask' = NoTask
    /\ phase' = "loop"
    /\ UNCHANGED fromCoord

PartitionerNext ==
    \/ ParseLine
    \/ StartSelect
    \/ \E n \in Nodes : SkipNode(n) \/ RefuteNode(n) \/ BuildTask(n)
    \/ Finish
    \/ Announce

-----------------------------------------------------------------------------
InState(s) == {n \in Nodes : nodeState[n] = s}

(* Every variable ranges over what the code can store in it.               *)
PartitionerTypeOK ==
    /\ nodeState \in [Nodes -> States]
    /\ leafHeap \subseteq Nodes
    /\ aliveTasks \in Int
    /\ unsolved \in Int
    /\ ptask \in Nodes \cup {NoTask}
    /\ phase \in {"announce", "loop", "select", "done"}
    /\ toCoord \in Seq(Lines)
    /\ fromCoord \in Seq(Commands)

(* m_alive_task_num is the number of WAITING nodes, whatever order solved, *)
(* terminated and pushed-down nodes are read in: the throttle of           *)
(* subpaving_t_def.h:3945 and the verdict of 3953 rest on the counter.     *)
AliveCountsWaiting == aliveTasks = Cardinality(InState("waiting"))

(* The throttle holds: the announcement made right after a task is built   *)
(* exceeds m_max_alive_tasks by one at most.                               *)
AliveBounded == aliveTasks <= MaxAlive + 1

(* m_unsolved_task_num leaks (the nodes dropped at subpaving_t_def.h:3828, *)
(* 3834 and 3861 are never subtracted) but always counts every created     *)
(* node that is not UNSAT: the unsigned counter cannot wrap and the        *)
(* division at 3315, made while the announced node is WAITING, is never by *)
(* zero.                                                                   *)
UnsolvedCoversOpen ==
    phase # "done" =>
        unsolved >= Cardinality(InState("unconverted") \cup InState("waiting")
                                                       \cup InState("terminated"))
=============================================================================
