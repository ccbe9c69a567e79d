---------------------------- MODULE ParallelTree ----------------------------
(***************************************************************************)
(* The tree a coordinator keeps of the tasks its partitioner announced     *)
(* (partition_tree.py: ParallelNode, ParallelTree).  A node of the tree is *)
(* named by its pid, the position in PartitionSpace.  The recursive walks  *)
(* unsat_push_up and unsat_push_down are given by the set of nodes they    *)
(* reach.  Times and percentages are left out; the time thresholds become  *)
(* choices of the actions that use them.                                   *)
(***************************************************************************)
EXTENDS PartitionSpace, Sequences

VARIABLES
    status,      \* node.status; "none" before make_node
    children,    \* node.children, in the order of the announcements
    running,     \* the nodes with assign_to # None: a live solver process
    solvings,    \* tree.solvings
    waitings,    \* tree.waitings
    treeResult   \* tree.result

treeVars == <<status, children, running, solvings, waitings, treeResult>>

Statuses == {"none", "unsolved", "solving", "sat", "unsat", "terminated"}
Results == {"unsolved", "sat", "unsat"}

TreeInit ==
    /\ status = [n \in Nodes |-> "none"]
    /\ children = [n \in Nodes |-> <<>>]
    /\ running = {}
    /\ solvings = <<>>
    /\ waitings = <<>>
    /\ treeResult = "unsolved"

Elements(s) == {s[i] : i \in DOMAIN s}
Made == {n \in Nodes : status[n] # "none"}
IsEnded(st, n) == st[n] \in {"sat", "unsat", "terminated"}

(* make_node: the new node becomes the last child of its parent.           *)
ChildrenWith(n) ==
    [p \in Nodes |-> IF p \in ParentOf(n) THEN Append(children[p], n) ELSE children[p]]

(* Faults: unsat never climbs; it climbs before the second half exists.    *)
MarkedUpNone(st, ch, n) == {}

MarkedUpEarly(st, ch, n) ==
    {a \in Above(n) : \A b \in Above(n) : a \in Up[b] =>
        /\ st[b] # "unsat"
        /\ \A k \in Elements(ch[b]) \ Up[n] : st[k] = "unsat"}

(* unsat_push_up from the parent of n: an ancestor is marked while every   *)
(* node up to it has two children, all unsat, and was not unsat before.    *)
MarkedUp(st, ch, n) ==
    {a \in Above(n) : \A b \in Above(n) : a \in Up[b] =>
        /\ st[b] # "unsat"
        /\ Len(ch[b]) = 2
        /\ \A k \in Elements(ch[b]) \ Up[n] : st[k] = "unsat"}

(* Fault: the walk stops at the children.                                  *)
MarkedDownOnce(st, n) == {d \in Below(n) : n \in ParentOf(d) /\ st[d] # "none"}

(* unsat_push_down from the children of n: stops at unsat nodes.           *)
MarkedDown(st, n) ==
    {d \in Below(n) : st[d] # "none" /\
        \A b \in Up[d] : n \in Above(b) => st[b] # "unsat"}

(* node_solved_unsat: once the root is unsat the tree is done and the      *)
(* descendants of n are left as they are.                                  *)
SolvedMarks(st, ch, n) ==
    LET up == {n} \cup MarkedUp(st, ch, n)
    IN  IF Root \in up \/ st[Root] = "unsat" THEN up ELSE up \cup MarkedDown(st, n)

MarkUnsat(st, marks) == [m \in Nodes |-> IF m \in marks THEN "unsat" ELSE st[m]]

ResultAfter(marks) == IF Root \in marks \/ status[Root] = "unsat" THEN "unsat" ELSE treeResult

(* Fault: the status of a queued node is not looked at.                    *)
NextWaitingUnchecked == {i \in DOMAIN waitings : i = 1}

(* get_next_waiting_node: nodes that ended while queued are thrown away.   *)
NextWaiting ==
    {i \in DOMAIN waitings :
        /\ status[waitings[i]] = "unsolved"
        /\ \A j \in 1 .. i - 1 : status[waitings[j]] # "unsolved"}

(* satisfy_split_requirement asks for a node that was once started.  Among *)
(* the nodes that are not unsat those are the solving and the terminated   *)
(* ones; how long they ran is a choice of the caller.                      *)
WasStarted(n) == status[n] \in {"solving", "terminated"}

(* select_split_node: the walk goes down from the root past every node     *)
(* whose other child is unsat.                                             *)
WalkReaches(p) ==
    \A b \in Up[p] : \A q \in ParentOf(b) :
        /\ Len(children[q]) = 2
        /\ status[b] # "unsat"
        /\ \A k \in Kids[q] \ {b} : status[k] = "unsat"

SplitChoices ==
    {children[p][2] : p \in {q \in Nodes :
        /\ treeResult = "unsolved"
        /\ status[q] # "none"
        /\ WalkReaches(q)
        /\ Len(children[q]) = 2
        /\ \A k \in Kids[q] : status[k] # "unsat" /\ WasStarted(k)}}

-----------------------------------------------------------------------------
(* Each variable ranges over what the Python fields can hold.              *)
TreeTypeOK ==
    /\ status \in [Nodes -> Statuses]
    /\ \A n \in Nodes : children[n] \in Seq(Kids[n]) /\ Len(children[n]) <= 2
    /\ running \subseteq Nodes
    /\ solvings \in Seq(Nodes)
    /\ waitings \in Seq(Nodes)
    /\ treeResult \in Results
=============================================================================
