---------------------------- MODULE RoundProofs -----------------------------
(***************************************************************************)
(* Proofs about a solving round (CoordinatorRound) and about the round of  *)
(* the isolated coordinator built from it (IsolatedRound), for every tree  *)
(* of subproblems, number of cores, number of coordinators and choice of   *)
(* failing solvers.                                                        *)
(*                                                                         *)
(* The argument for a round.  The coordinator sends lines about nodes of   *)
(* its own tree only, and its tree has exactly the nodes whose line it has *)
(* read: so it is one of the coordinators PartitionerProofs is about.  The *)
(* order of the announcements proved there comes back as what the          *)
(* coordinator relies on: the node of the next line is new and its parent  *)
(* is in the tree.  The two directions are one induction.                  *)
(*                                                                         *)
(* The argument for the isolated coordinator, in the second half, is at    *)
(* its head.                                                               *)
(***************************************************************************)
EXTENDS IsolatedRound, SpaceProofs, SequenceTheorems

(* The process, with the tree of the coordinator for what is known.        *)
G == INSTANCE PartitionerProofs WITH known <- Made, PipeRoom <- Nat

(* The coordinator's tree: closed upwards, each node the child of its      *)
(* parent once, and the lines still to be written are about its nodes.     *)
UpMade == \A n \in Made : Up[n] \subseteq Made

ChildrenMade ==
    \A p \in Nodes :
        /\ Elements(children[p]) = Kids[p] \cap Made
        /\ \A i, j \in DOMAIN children[p] : i # j => children[p][i] # children[p][j]

OutboxMade == \A i \in DOMAIN outbox : outbox[i].node \in Made

(* The types of all variables but pc: where the loop is does not matter to *)
(* the invariants, so they also hold of a round with other loops.          *)
DataTypes ==
    /\ PartitionerTypeOK
    /\ TreeTypeOK
    /\ result \in Results
    /\ reader \in {"running", "process_done", "receive_done"}
    /\ toPoll \in Seq(Nodes)
    /\ still \in Seq(Nodes)
    /\ outbox \in Seq(Commands)
    /\ handed \subseteq Nodes

LoopTypes == pc \in {"receive", "poll", "run", "leader", "write", "report", "idle"}

RoundInv == DataTypes /\ UpMade /\ ChildrenMade /\ OutboxMade /\ G!OrderInv

(* The start of a round, without its loop.                                 *)
DataInit ==
    /\ PartitionerInit
    /\ TreeInit
    /\ result = "unsolved"
    /\ reader = "running"
    /\ toPoll = <<>>
    /\ still = <<>>
    /\ outbox = <<>>
    /\ handed = {}

-----------------------------------------------------------------------------
(* The process seen from the general specification is the same process.    *)

(* Finiteness and cardinality do not depend on the module they come from.  *)
LEMMA SameSets ==
    /\ \A S : G!IsFiniteSet(S) <=> IsFiniteSet(S)
    /\ \A S : G!Cardinality(S) = Cardinality(S)
    /\ \A S : General!Cardinality(S) = Cardinality(S)
<1>1. \A S : G!IsFiniteSet(S) <=> IsFiniteSet(S)
    BY DEF IsFiniteSet, G!IsFiniteSet
<1>2. \A S : G!Cardinality(S) = Cardinality(S)
    BY DEF Cardinality, G!Cardinality
<1>3. \A S : General!Cardinality(S) = Cardinality(S)
    BY DEF Cardinality, General!Cardinality
<1> QED
    BY <1>1, <1>2, <1>3

(* Solving a node reaches the same nodes.                                  *)
LEMMA SameSolved ==
    /\ \A st, n : G!SolvedUnsat(st, n) = SolvedUnsat(st, n)
    /\ \A st, n : General!SolvedUnsat(st, n) = SolvedUnsat(st, n)
BY DEF SolvedUnsat, PushedUp, PushedDown, Above, Below,
       G!SolvedUnsat, G!PushedUp, G!PushedDown, G!Above, G!Below,
       General!SolvedUnsat, General!PushedUp, General!PushedDown, General!Above, General!Below

(* A command is read in the same way.                                      *)
LEMMA SameParse ==
    /\ G!ParseLine <=> ParseLine
    /\ General!ParseLine <=> ParseLine
BY SameSets, SameSolved
   DEF ParseLine, ReadUnsatNode, ReadTerminateNode,
       G!ParseLine, G!ReadUnsatNode, G!ReadTerminateNode,
       General!ParseLine, General!ReadUnsatNode, General!ReadTerminateNode

(* The heap has the same top.                                              *)
LEMMA SameTop ==
    /\ \A n : G!HeapTop(n) <=> HeapTop(n)
    /\ \A n : General!HeapTop(n) <=> HeapTop(n)
    /\ \A n : G!Convertible(n) <=> Convertible(n)
    /\ \A n : General!Convertible(n) <=> Convertible(n)
<1>1. \A n : G!HeapTop(n) <=> HeapTop(n)
    BY SameSets DEF HeapTop, G!HeapTop, Depth, G!Depth, ParentOf, G!ParentOf
<1>2. \A n : General!HeapTop(n) <=> HeapTop(n)
    BY SameSets DEF HeapTop, General!HeapTop, Depth, General!Depth, ParentOf, General!ParentOf
<1> QED
    BY <1>1, <1>2 DEF Convertible, G!Convertible, General!Convertible, ParentOf, G!ParentOf, General!ParentOf

(* A popped node is treated in the same way.                               *)
LEMMA SameSelect ==
    /\ \A n : G!SkipNode(n) <=> SkipNode(n)
    /\ \A n : General!SkipNode(n) <=> SkipNode(n)
    /\ \A n : G!RefuteNode(n) <=> RefuteNode(n)
    /\ \A n : General!RefuteNode(n) <=> RefuteNode(n)
    /\ \A n : G!BuildTask(n) <=> BuildTask(n)
    /\ \A n : General!BuildTask(n) <=> BuildTask(n)
<1>1. \A n : (G!SkipNode(n) <=> SkipNode(n)) /\ (General!SkipNode(n) <=> SkipNode(n))
    BY SameTop DEF SkipNode, G!SkipNode, General!SkipNode, ParentOf, G!ParentOf, General!ParentOf
<1>2. \A n : (G!RefuteNode(n) <=> RefuteNode(n)) /\ (General!RefuteNode(n) <=> RefuteNode(n))
    BY SameTop DEF RefuteNode, G!RefuteNode, General!RefuteNode, NewUnsat, G!NewUnsat, General!NewUnsat
<1>3. \A n : (G!BuildTask(n) <=> BuildTask(n)) /\ (General!BuildTask(n) <=> BuildTask(n))
    BY SameTop DEF BuildTask, G!BuildTask, General!BuildTask
<1> QED
    BY <1>1, <1>2, <1>3

(* The loop throttles and ends in the same way.                            *)
LEMMA SameLoop ==
    /\ G!StartSelect <=> StartSelect
    /\ General!StartSelect <=> StartSelect
    /\ G!Finish <=> Finish
    /\ General!Finish <=> Finish
BY DEF StartSelect, G!StartSelect, General!StartSelect, MaxAlive, G!MaxAlive, General!MaxAlive,
       Finish, G!Finish, General!Finish, Verdict, G!Verdict, General!Verdict

(* A task is announced and split in the same way.                          *)
LEMMA SameAnnounce ==
    /\ G!Announce <=> Announce
    /\ General!Announce <=> Announce
<1>1. /\ \A d : G!BornUnsatLines(d) = BornUnsatLines(d)
      /\ \A d : General!BornUnsatLines(d) = BornUnsatLines(d)
    BY DEF BornUnsatLines, G!BornUnsatLines, General!BornUnsatLines, NewUnsat, G!NewUnsat, General!NewUnsat
<1>2. /\ \A d : G!AnnouncedLines(d) = AnnouncedLines(d)
      /\ \A d : General!AnnouncedLines(d) = AnnouncedLines(d)
      /\ \A d : G!Born(d) = Born(d)
      /\ \A d : General!Born(d) = Born(d)
    BY <1>1 DEF AnnouncedLines, G!AnnouncedLines, General!AnnouncedLines, NewNode, G!NewNode, General!NewNode,
                Born, G!Born, General!Born
<1>3. /\ \A d : [m \in Nodes |-> CASE m = ptask -> "waiting"
                                             [] m \in G!Born(d) -> "unconverted"
                                             [] m \in d -> "unsat"
                                             [] OTHER -> nodeState[m]]
              = [m \in Nodes |-> CASE m = ptask -> "waiting"
                                             [] m \in Born(d) -> "unconverted"
                                             [] m \in d -> "unsat"
                                             [] OTHER -> nodeState[m]]
      /\ \A d : [m \in Nodes |-> CASE m = ptask -> "waiting"
                                             [] m \in General!Born(d) -> "unconverted"
                                             [] m \in d -> "unsat"
                                             [] OTHER -> nodeState[m]]
              = [m \in Nodes |-> CASE m = ptask -> "waiting"
                                             [] m \in Born(d) -> "unconverted"
                                             [] m \in d -> "unsat"
                                             [] OTHER -> nodeState[m]]
    BY <1>2
<1> QED
    BY <1>2, <1>3, SameSets DEF Announce, G!Announce, General!Announce

(* So the two processes make the same steps ...                            *)
LEMMA SameProcess ==
    /\ G!PartitionerNext <=> PartitionerNext
    /\ General!PartitionerNext <=> PartitionerNext
    /\ G!partitionerVars = partitionerVars
    /\ General!partitionerVars = partitionerVars
BY SameParse, SameSelect, SameLoop, SameAnnounce
   DEF PartitionerNext, G!PartitionerNext, General!PartitionerNext,
       partitionerVars, G!partitionerVars, General!partitionerVars

(* ... and so do the two general specifications.                           *)
LEMMA SameNext ==
    /\ G!Next <=> General!Next
    /\ G!vars = General!vars
    /\ G!Init <=> General!Init
<1>1. G!vars = General!vars
    BY SameProcess DEF G!vars, General!vars
<1>2. G!Init <=> General!Init
    BY DEF G!Init, General!Init, G!PartitionerInit, General!PartitionerInit, G!Verdict, General!Verdict
<1>3. G!CoordinatorReads <=> General!CoordinatorReads
    BY DEF G!CoordinatorReads, General!CoordinatorReads
<1>4. \A o, n : G!CoordinatorWrites(o, n) <=> General!CoordinatorWrites(o, n)
    BY DEF G!CoordinatorWrites, General!CoordinatorWrites, G!Ended, General!Ended
<1> QED
    BY <1>1, <1>2, <1>3, <1>4, SameProcess DEF G!Next, General!Next

-----------------------------------------------------------------------------
(* What the proofs about the process give.                                 *)

(* The assumptions of the instance hold.                                   *)
LEMMA InstanceFacts ==
    /\ G!IsFiniteSet(Nodes)
    /\ \A n \in Nodes : n \in Up[n]
    /\ \A n \in Nodes : \A k \in Kids[n] : ParentOf(k) = {n}
<1>1. G!IsFiniteSet(Nodes)
    BY SameSets, SpaceShape
<1>2. \A n \in Nodes : n \in Up[n]
    BY <1>1, G!SelfUp, SpaceShape, SpaceTruth, MaxRunningType, RefutableSound, NoTaskFresh
<1>3. ASSUME NEW n \in Nodes, NEW k \in Kids[n] PROVE ParentOf(k) = {n}
    <2>1. G!ParentOf(k) = {n}
        BY <1>1, G!OneParent, SpaceShape, SpaceTruth, MaxRunningType, RefutableSound, NoTaskFresh
    <2> QED
        BY <2>1 DEF ParentOf, G!ParentOf
<1> QED
    BY <1>1, <1>2, <1>3

(* A step the general specification allows keeps the process's invariant.  *)
LEMMA ProcessStep ==
    ASSUME G!OrderInv, [G!Next]_G!vars
    PROVE  G!OrderInv'
<1> USE InstanceFacts, SpaceShape, SpaceTruth, MaxRunningType, RefutableSound, NoTaskFresh
<1>1. G!ParentTold' /\ G!ParentAnnouncedFirst' /\ G!AnnouncedOnce'
    BY G!LinesStep, G!ParentToldStep
<1>2. G!IndInv'
    BY G!TypeStep, G!PendingStep, G!PathToldStep, G!CommandsToldStep, G!AnnouncedStep
       DEF G!IndInv, G!OrderInv
<1> QED
    BY <1>1, <1>2 DEF G!OrderInv

(* The next line is about a new node, whose parent and, with it, all       *)
(* ancestors are in the tree.                                              *)
LEMMA NextLine ==
    ASSUME RoundInv, toCoord # <<>>, Head(toCoord).op # "verdict"
    PROVE  LET n == Head(toCoord).node
           IN  /\ n \in Nodes /\ n \notin Made
               /\ \A p \in ParentOf(n) : p \in Made
               /\ Above(n) \subseteq Made
<1> DEFINE n == Head(toCoord).node
<1>1. toCoord \in Seq(Lines) /\ Head(toCoord) = toCoord[1] /\ 1 \in 1 .. Len(toCoord)
    BY DEF RoundInv, DataTypes, PartitionerTypeOK
<1>2. n \in Nodes
    BY <1>1 DEF Lines
<1>3. n \notin Made
    BY <1>1 DEF RoundInv, G!OrderInv, G!AnnouncedOnce
<1>4. \A p \in ParentOf(n) : p \in Made
    <2>1. \A p \in G!ParentOf(n) : p \in Made \/ \E j \in 1 .. 1 - 1 : toCoord[j] = G!NewNode(p)
        BY <1>1 DEF RoundInv, G!OrderInv, G!ParentAnnouncedFirst
    <2>2. 1 .. 1 - 1 = {}
        OBVIOUS
    <2>3. \A p \in G!ParentOf(n) : p \in Made
        BY <2>1, <2>2
    <2> QED
        BY <2>3 DEF ParentOf, G!ParentOf
<1>5. Above(n) \subseteq Made
    <2>1. CASE n = Root
        BY <2>1, SpaceShape DEF Above
    <2>2. CASE n # Root
        <3>1. PICK p \in Nodes : n \in Kids[p]
            BY <1>2, <2>2, SpaceShape
        <3>2. p \in Made
            BY <1>4, <3>1 DEF ParentOf
        <3>3. Up[p] \subseteq Made /\ Up[n] = Up[p] \cup {n}
            BY <3>1, <3>2, SpaceShape DEF RoundInv, UpMade
        <3> QED
            BY <3>3 DEF Above
    <2> QED
        BY <2>1, <2>2
<1> HIDE DEF n
<1> QED
    BY <1>2, <1>3, <1>4, <1>5 DEF n

-----------------------------------------------------------------------------
(* What a step does to the tree of the coordinator.                        *)

(* A node with two children in the tree has all its halves there.          *)
LEMMA BothChildren ==
    ASSUME NEW p \in Nodes, NEW c \in Seq(Kids[p]), Len(c) = 2,
           \A i, j \in DOMAIN c : i # j => c[i] # c[j]
    PROVE  Elements(c) = Kids[p]
<1>1. 1 \in DOMAIN c /\ 2 \in DOMAIN c /\ DOMAIN c = 1 .. 2
    OBVIOUS
<1>2. c[1] \in Kids[p] /\ c[2] \in Kids[p] /\ c[1] # c[2]
    BY <1>1
<1>3. PICK l, r \in Nodes : Kids[p] = {l, r}
    BY <1>2, SpaceShape
<1>4. Elements(c) = {c[1], c[2]}
    BY <1>1 DEF Elements
<1> QED
    BY <1>2, <1>3, <1>4

(* The children of every node stay different halves of it.                 *)
LEMMA ChildrenOf ==
    ASSUME RoundInv
    PROVE  \A p \in Nodes : /\ children[p] \in Seq(Kids[p])
                            /\ \A i, j \in DOMAIN children[p] : i # j => children[p][i] # children[p][j]
BY DEF RoundInv, DataTypes, TreeTypeOK, ChildrenMade

(* node_solved_unsat marks the node and nodes of the tree.                 *)
LEMMA MarksMade ==
    ASSUME NEW st \in [Nodes -> Statuses], NEW ch, NEW n \in Nodes,
           \A a \in Above(n) : st[a] # "none"
    PROVE  /\ n \in SolvedMarks(st, ch, n)
           /\ SolvedMarks(st, ch, n) \subseteq Nodes
           /\ \A m \in SolvedMarks(st, ch, n) : m = n \/ st[m] # "none"
<1>1. MarkedUp(st, ch, n) \subseteq Above(n)
    BY DEF MarkedUp
<1>2. Above(n) \subseteq Nodes
    BY SpaceShape DEF Above
<1>3. MarkedDown(st, n) \subseteq Nodes /\ \A d \in MarkedDown(st, n) : st[d] # "none"
    BY DEF MarkedDown, Below
<1> QED
    BY <1>1, <1>2, <1>3 DEF SolvedMarks

(* The status after node_solved_unsat on a tree st.                        *)
LEMMA SolvedStatus ==
    ASSUME NEW st \in [Nodes -> Statuses], NEW ch, NEW alive, NEW n \in Nodes,
           \A a \in Above(n) : st[a] # "none", NodeSolvedUnsat(st, ch, alive, n)
    PROVE  /\ status' \in [Nodes -> Statuses]
           /\ status'[n] = "unsat"
           /\ \A m \in Nodes : status'[m] # st[m] => status'[m] = "unsat" /\ (m = n \/ st[m] # "none")
           /\ \E marks \in SUBSET Nodes :
                 /\ running' = alive \ marks
                 /\ \A m \in Nodes : status'[m] = IF m \in marks THEN "unsat" ELSE st[m]
           /\ treeResult \in Results => treeResult' \in Results
<1> DEFINE marks == SolvedMarks(st, ch, n)
<1>1. /\ n \in marks /\ marks \subseteq Nodes
      /\ \A m \in marks : m = n \/ st[m] # "none"
    BY MarksMade
<1>2. /\ status' = [m \in Nodes |-> IF m \in marks THEN "unsat" ELSE st[m]]
      /\ running' = alive \ marks
      /\ treeResult' = ResultAfter(marks)
    BY DEF NodeSolvedUnsat, MarkUnsat
<1> HIDE DEF marks
<1>3. status' \in [Nodes -> Statuses]
    BY <1>2 DEF Statuses
<1>4. treeResult \in Results => treeResult' \in Results
    BY <1>2 DEF ResultAfter, Results
<1> QED
    BY <1>1, <1>2, <1>3, <1>4

(* The node that is split off is the second half of a node of the tree.    *)
LEMMA SplitMade ==
    ASSUME RoundInv, NEW n \in SplitChoices
    PROVE  n \in Made
<1>1. PICK p \in Nodes : n = children[p][2] /\ Len(children[p]) = 2
    BY DEF SplitChoices
<1>2. children[p] \in Seq(Kids[p])
    BY DEF RoundInv, DataTypes, TreeTypeOK
<1>3. n \in Elements(children[p])
    BY <1>1, <1>2 DEF Elements
<1> QED
    BY <1>3 DEF RoundInv, ChildrenMade

(* A line makes the node it names and no other.                            *)
Named == IF Head(toCoord).op = "verdict" THEN {} ELSE {Head(toCoord).node}

(* The moves of one node of the tree in one step.                          *)
TreeMoves(n) ==
    /\ status[n] # "none" => status'[n] # "none"
    /\ status[n] = "none" /\ status'[n] # "none" => ReceiveLine /\ n \in Named
    /\ ReceiveLine /\ n \in Named => status'[n] # "none"
    /\ IsEnded(status, n) => status'[n] \in {status[n], "unsat"}
    /\ status[n] = "unsat" => status'[n] = "unsat"

(* Every step of the round makes these moves only.                         *)
LEMMA TreeStep ==
    ASSUME RoundInv, [Next]_vars
    PROVE  /\ status' \in [Nodes -> Statuses]
           /\ treeResult' \in Results
           /\ \A n \in Nodes : TreeMoves(n)
<1>0. status \in [Nodes -> Statuses] /\ treeResult \in Results
    BY DEF RoundInv, DataTypes, TreeTypeOK
<1>u. \A n \in Made : \A a \in Above(n) : status[a] # "none"
    BY DEF RoundInv, UpMade, Made, Above
<1>1. CASE UNCHANGED status /\ UNCHANGED treeResult /\ ~ ReceiveLine
    BY <1>0, <1>1 DEF TreeMoves, IsEnded
<1>2. CASE ReceiveLine
    <2>1. toCoord # <<>>
        BY <1>2 DEF ReceiveLine
    <2> DEFINE l == Head(toCoord)
    <2>2. CASE ReceiveVerdict(l)
        <3>1. UNCHANGED <<status, treeResult>> /\ Named = {}
            BY <2>2 DEF ReceiveVerdict, treeVars, Named
        <3> QED
            BY <1>0, <3>1 DEF TreeMoves, IsEnded
    <2>3. ASSUME l.op # "verdict", NEW ch, NEW alive, NodeSolvedUnsat(status, ch, alive, l.node)
          PROVE  /\ status' \in [Nodes -> Statuses]
                 /\ treeResult' \in Results
                 /\ \A n \in Nodes : TreeMoves(n)
        <3>1. l.node \in Nodes /\ l.node \notin Made /\ Above(l.node) \subseteq Made
            BY <2>1, <2>3, NextLine
        <3>2. /\ status' \in [Nodes -> Statuses]
              /\ status'[l.node] = "unsat"
              /\ \A m \in Nodes : status'[m] # status[m] =>
                    status'[m] = "unsat" /\ (m = l.node \/ status[m] # "none")
              /\ treeResult' \in Results
            BY <1>0, <2>3, <3>1, SolvedStatus DEF Made
        <3>3. Named = {l.node}
            BY <2>3 DEF Named
        <3> QED
            BY <1>2, <3>2, <3>3 DEF TreeMoves, IsEnded
    <2>4. CASE ReceiveNewUnsatNode(l)
        BY <2>3, <2>4 DEF ReceiveNewUnsatNode
    <2>5. CASE ReceiveNewUnknownNode(l)
        <3>0. l.op # "verdict"
            BY <2>5 DEF ReceiveNewUnknownNode
        <3>1. CASE NodeSolvedUnsat(status, ChildrenWith(l.node), running, l.node)
            BY <2>3, <3>0, <3>1
        <3>2. CASE status' = [status EXCEPT ![l.node] = "unsolved"] /\ UNCHANGED treeResult
            <4>1. l.node \in Nodes /\ status[l.node] = "none" /\ Named = {l.node}
                BY <2>1, <3>0, NextLine DEF Made, Named
            <4> QED
                BY <1>0, <1>2, <3>2, <4>1 DEF TreeMoves, IsEnded, Statuses
        <3> QED
            BY <2>5, <3>1, <3>2 DEF ReceiveNewUnknownNode
    <2> QED
        BY <1>2, <2>2, <2>4, <2>5 DEF ReceiveLine
<1>3. ASSUME NEW n \in Nodes, PollSat(n) \/ PollGivenUp(n)
      PROVE  /\ status' \in [Nodes -> Statuses]
             /\ treeResult' \in Results
             /\ \A m \in Nodes : TreeMoves(m)
    <2>1. /\ status[n] = "solving" /\ treeResult' \in Results
          /\ \E s \in {"sat", "terminated"} : status' = [status EXCEPT ![n] = s]
        BY <1>0, <1>3 DEF PollSat, PollGivenUp, Results
    <2>2. ~ ReceiveLine
        BY <1>3 DEF PollSat, PollGivenUp, Polled, ReceiveLine
    <2> QED
        BY <1>0, <2>1, <2>2 DEF TreeMoves, IsEnded, Statuses
<1>4. ASSUME NEW n \in Nodes, PollUnsat(n)
      PROVE  /\ status' \in [Nodes -> Statuses]
             /\ treeResult' \in Results
             /\ \A m \in Nodes : TreeMoves(m)
    <2>1. status[n] = "solving" /\ NodeSolvedUnsat(status, children, running \ {n}, n) /\ ~ ReceiveLine
        BY <1>4 DEF PollUnsat, Polled, ReceiveLine
    <2>2. \A a \in Above(n) : status[a] # "none"
        BY <1>u, <2>1 DEF Made
    <2> QED
        BY <1>0, <2>1, <2>2, SolvedStatus DEF TreeMoves, IsEnded
<1>5. CASE RunTask
    <2>1. PICK i \in NextWaiting : status' = [status EXCEPT ![waitings[i]] = "solving"]
        BY <1>5 DEF RunTask
    <2>2. waitings[i] \in Nodes /\ status[waitings[i]] = "unsolved"
        BY <2>1 DEF NextWaiting, RoundInv, DataTypes, TreeTypeOK
    <2>3. ~ ReceiveLine /\ UNCHANGED treeResult
        BY <1>5 DEF RunTask, ReceiveLine
    <2> QED
        BY <1>0, <2>1, <2>2, <2>3 DEF TreeMoves, IsEnded, Statuses
<1>6. ASSUME NEW n \in Nodes, SplitOff(n)
      PROVE  /\ status' \in [Nodes -> Statuses]
             /\ treeResult' \in Results
             /\ \A m \in Nodes : TreeMoves(m)
    <2> DEFINE open == {a \in Up[n] : ~ IsEnded(status, a)}
               st == [m \in Nodes |-> IF m \in open THEN "terminated" ELSE status[m]]
    <2>1. NodeSolvedUnsat(st, children, running \ open, n) /\ n \in Made /\ ~ ReceiveLine
        BY <1>6, SplitMade DEF SplitOff, ReceiveLine
    <2>2. Up[n] \subseteq Made /\ Above(n) \subseteq Made
        BY <2>1 DEF RoundInv, UpMade, Above
    <2>3. /\ st \in [Nodes -> Statuses]
          /\ \A m \in Nodes : st[m] = "none" <=> status[m] = "none"
          /\ \A m \in Nodes : IsEnded(status, m) => st[m] = status[m]
        BY <1>0, <2>2 DEF Statuses, Made
    <2>4. \A a \in Above(n) : st[a] # "none"
        BY <2>2, <2>3 DEF Made
    <2> HIDE DEF st
    <2>5. /\ status' \in [Nodes -> Statuses]
          /\ \A m \in Nodes : status'[m] # st[m] => status'[m] = "unsat" /\ (m = n \/ st[m] # "none")
          /\ treeResult' \in Results
        BY <1>0, <2>1, <2>3, <2>4, SolvedStatus
    <2> QED
        BY <2>1, <2>3, <2>5 DEF TreeMoves, IsEnded, Made
<1> QED
    <2>1. CASE ReceiveEof \/ EndReceive \/ EndPoll \/ EndRun \/ WriteLine \/ NextPass \/ RoundDone
        <3>1. UNCHANGED status /\ UNCHANGED treeResult
            BY <2>1 DEF ReceiveEof, EndReceive, EndPoll, EndRun, WriteLine, NextPass, RoundDone, treeVars
        <3>2. ~ ReceiveLine
            BY <2>1 DEF ReceiveEof, EndReceive, EndPoll, EndRun, WriteLine, NextPass, RoundDone, ReceiveLine
        <3> QED
            BY <1>1, <3>1, <3>2
    <2>2. CASE \E n \in Nodes : PollEndedNode(n) \/ PollStillSolving(n)
        BY <1>1, <2>2 DEF PollEndedNode, PollStillSolving, Polled, ReceiveLine, treeVars
    <2>3. CASE UNCHANGED coordVars
        <3>1. CASE ReceiveLine
            BY <1>2, <3>1
        <3>2. CASE ~ ReceiveLine
            BY <1>1, <2>3, <3>2 DEF coordVars, treeVars
        <3> QED
            BY <3>1, <3>2
    <2> QED
        BY <1>2, <1>3, <1>4, <1>5, <1>6, <2>1, <2>2, <2>3 DEF Next, CoordinatorNext, PartitionerStep, vars

(* The tree grows by the node of the line that is read.                    *)
LEMMA MadeStep ==
    ASSUME RoundInv, [Next]_vars
    PROVE  Made' = IF ReceiveLine THEN Made \cup Named ELSE Made
<1>1. \A n \in Nodes : TreeMoves(n)
    BY TreeStep
<1>2. ReceiveLine => Named \subseteq Nodes
    BY NextLine DEF ReceiveLine, Named
<1>3. \A n \in Nodes : status'[n] # "none" <=> status[n] # "none" \/ (ReceiveLine /\ n \in Named)
    BY <1>1 DEF TreeMoves
<1> QED
    BY <1>2, <1>3 DEF Made

(* A command about a node of the tree is one of the general coordinator's. *)
LEMMA SendGeneral ==
    ASSUME RoundInv, NEW o \in {"unsat_node", "terminate_node"}, NEW n \in Made,
           Send(Ended(o, n)), Made' = Made
    PROVE  [G!Next]_G!vars
<1>1. CASE Checked = "running"
    <2>1. phase # "done" /\ Len(fromCoord) \in Nat
        BY <1>1 DEF Checked, RoundInv, DataTypes, PartitionerTypeOK
    <2>2. G!CoordinatorWrites(o, n)
        BY <1>1, <2>1 DEF G!CoordinatorWrites, Send, G!Ended, Ended
    <2>3. n \in Nodes
        BY DEF Made
    <2> QED
        BY <2>2, <2>3 DEF G!Next
<1>2. CASE Checked # "running"
    BY <1>2 DEF Send, G!vars, G!partitionerVars
<1> QED
    BY <1>1, <1>2

(* The coordinator is one of the general ones: each of its steps is a step *)
(* of PartitionerOpen, or none.                                            *)
LEMMA RefineStep ==
    ASSUME RoundInv, [Next]_vars
    PROVE  [G!Next]_G!vars
<1>1. CASE UNCHANGED partitionerVars /\ ~ ReceiveLine
    BY <1>1, MadeStep DEF G!vars, G!partitionerVars, partitionerVars
<1>2. CASE ReceiveLine
    <2>1. Made' = Made \cup IF Head(toCoord).op = "verdict" THEN {} ELSE {Head(toCoord).node}
        BY <1>2, MadeStep DEF Named
    <2>2. G!CoordinatorReads
        BY <1>2, <2>1 DEF ReceiveLine, G!CoordinatorReads
    <2> QED
        BY <2>2 DEF G!Next
<1>3. ASSUME NEW n \in Nodes, PollUnsat(n) \/ PollGivenUp(n) PROVE [G!Next]_G!vars
    <2>1. ~ ReceiveLine /\ n \in Made
        BY <1>3 DEF PollUnsat, PollGivenUp, Polled, ReceiveLine, Made
    <2>2. Made' = Made
        BY <2>1, MadeStep
    <2>3. \/ UNCHANGED partitionerVars
          \/ Send(Ended("unsat_node", n)) \/ Send(Ended("terminate_node", n))
        BY <1>3 DEF PollUnsat, PollGivenUp
    <2> QED
        BY <1>1, <2>1, <2>2, <2>3, SendGeneral
<1>4. CASE WriteLine
    <2>1. ~ ReceiveLine
        BY <1>4 DEF WriteLine, ReceiveLine
    <2>2. outbox \in Seq(Commands) /\ outbox # <<>> /\ Send(Head(outbox))
        BY <1>4 DEF WriteLine, RoundInv, DataTypes
    <2>3. Head(outbox) = outbox[1] /\ 1 \in DOMAIN outbox /\ Head(outbox) \in Commands
        BY <2>2
    <2>4. Head(outbox).node \in Made
        BY <2>3 DEF RoundInv, OutboxMade
    <2>5. PICK o \in {"unsat_node", "terminate_node"}, n \in Nodes :
            Head(outbox) = [op |-> o, node |-> n]
        BY <2>3 DEF Commands
    <2>6. n \in Made /\ Send(Ended(o, n))
        BY <2>2, <2>4, <2>5 DEF Ended
    <2> QED
        BY <2>1, <2>6, MadeStep, SendGeneral
<1>5. CASE PartitionerStep
    <2>1. PartitionerNext /\ UNCHANGED Made
        BY <1>5 DEF PartitionerStep, coordVars, treeVars, Made
    <2> QED
        BY <2>1, SameProcess DEF G!Next
<1> QED
    <2>1. CASE ReceiveEof \/ EndReceive \/ EndPoll \/ RunTask \/ EndRun \/ NextPass \/ RoundDone
        <3>1. UNCHANGED partitionerVars
            BY <2>1 DEF ReceiveEof, EndReceive, EndPoll, RunTask, EndRun, NextPass, RoundDone
        <3>2. ~ ReceiveLine
            BY <2>1 DEF ReceiveEof, EndReceive, EndPoll, RunTask, EndRun, NextPass, RoundDone, ReceiveLine
        <3> QED
            BY <1>1, <3>1, <3>2
    <2>2. CASE \E n \in Nodes : PollEndedNode(n) \/ PollStillSolving(n) \/ PollSat(n) \/ SplitOff(n)
        BY <1>1, <2>2 DEF PollEndedNode, PollStillSolving, PollSat, SplitOff, Polled, ReceiveLine
    <2>3. CASE UNCHANGED vars
        BY <1>1, <1>2, <2>3 DEF vars
    <2> QED
        BY <1>2, <1>3, <1>4, <1>5, <2>1, <2>2, <2>3 DEF Next, CoordinatorNext

-----------------------------------------------------------------------------
(* The new node becomes a child of its parent, which has room for it: its  *)
(* children are different halves of it.                                    *)
LEMMA ChildrenStep ==
    ASSUME RoundInv, [Next]_vars
    PROVE  /\ ChildrenMade'
           /\ \A p \in Nodes : children'[p] \in Seq(Kids[p]) /\ Len(children'[p]) <= 2
<1>0. \A p \in Nodes : children[p] \in Seq(Kids[p]) /\ Len(children[p]) <= 2
    BY DEF RoundInv, DataTypes, TreeTypeOK
<1>1. CASE UNCHANGED children /\ Made' = Made
    BY <1>0, <1>1 DEF RoundInv, ChildrenMade
<1>2. CASE ReceiveLine /\ Head(toCoord).op # "verdict"
    <2> DEFINE n == Head(toCoord).node
    <2>1. n \in Nodes /\ n \notin Made
        BY <1>2, NextLine DEF ReceiveLine
    <2>2. children' = ChildrenWith(n) /\ Made' = Made \cup {n}
        BY <1>2, MadeStep DEF ReceiveLine, ReceiveVerdict, ReceiveNewUnsatNode, ReceiveNewUnknownNode, Named
    <2> HIDE DEF n
    <2> SUFFICES ASSUME NEW p \in Nodes
                 PROVE  /\ Elements(children'[p]) = Kids[p] \cap Made'
                        /\ \A i, j \in DOMAIN children'[p] : i # j => children'[p][i] # children'[p][j]
                        /\ children'[p] \in Seq(Kids[p]) /\ Len(children'[p]) <= 2
        BY DEF ChildrenMade
    <2> DEFINE c == children[p]
    <2>3. /\ c \in Seq(Kids[p]) /\ Len(c) <= 2
          /\ Elements(c) = Kids[p] \cap Made
          /\ \A i, j \in DOMAIN c : i # j => c[i] # c[j]
        BY <1>0 DEF RoundInv, ChildrenMade
    <2>4. CASE n \in Kids[p]
        <3>1. children'[p] = Append(c, n)
            BY <2>1, <2>2, <2>4 DEF ChildrenWith, ParentOf
        <3> DEFINE d == Append(c, n)
        <3> HIDE DEF c
        <3>2. /\ d \in Seq(Kids[p]) /\ Len(d) = Len(c) + 1 /\ Len(c) \in Nat
              /\ DOMAIN d = 1 .. Len(d) /\ DOMAIN c = 1 .. Len(c)
              /\ \A i \in DOMAIN c : d[i] = c[i]
              /\ d[Len(d)] = n
            BY <2>3, <2>4
        <3> HIDE DEF d
        <3>3. Elements(d) = Elements(c) \cup {n}
            BY <3>2 DEF Elements
        <3>4. \A i \in DOMAIN c : c[i] # n
            BY <2>1, <2>3 DEF Elements
        <3>5. \A i, j \in DOMAIN d : i # j => d[i] # d[j]
            BY <2>3, <3>2, <3>4
        <3>6. Len(d) <= 2
            <4>1. PICK l, r \in Nodes : Kids[p] = {l, r}
                BY <2>4, SpaceShape
            <4>2. SUFFICES ASSUME Len(d) >= 3 PROVE FALSE
                BY <3>2
            <4>3. 1 \in DOMAIN d /\ 2 \in DOMAIN d /\ 3 \in DOMAIN d
                BY <3>2, <4>2
            <4>4. d[1] \in {l, r} /\ d[2] \in {l, r} /\ d[3] \in {l, r}
                BY <3>2, <4>1, <4>3
            <4> QED
                BY <3>5, <4>3, <4>4
        <3> QED
            BY <2>2, <2>3, <2>4, <3>1, <3>2, <3>3, <3>5, <3>6 DEF d
    <2>5. CASE n \notin Kids[p]
        <3>1. children'[p] = c
            BY <2>2, <2>5 DEF ChildrenWith, ParentOf
        <3> QED
            BY <2>2, <2>3, <2>5, <3>1
    <2> QED
        BY <2>4, <2>5
<1>3. CASE ReceiveLine /\ Head(toCoord).op = "verdict"
    <2>1. UNCHANGED children
        BY <1>3 DEF ReceiveLine, ReceiveVerdict, ReceiveNewUnsatNode, ReceiveNewUnknownNode, treeVars
    <2>2. Made' = Made
        BY <1>3, MadeStep DEF Named
    <2> QED
        BY <1>1, <2>1, <2>2
<1>4. CASE ~ ReceiveLine
    <2>1. UNCHANGED children
        BY <1>4 DEF Next, CoordinatorNext, PartitionerStep, vars, coordVars, treeVars, ReceiveEof, EndReceive,
                    PollEndedNode, PollStillSolving, PollSat, PollUnsat, PollGivenUp, EndPoll, RunTask, EndRun,
                    SplitOff, WriteLine, NextPass, RoundDone
    <2>2. Made' = Made
        BY <1>4, MadeStep
    <2> QED
        BY <1>1, <2>1, <2>2
<1> QED
    BY <1>2, <1>3, <1>4

(* The tree stays closed upwards.                                          *)
LEMMA UpStep ==
    ASSUME RoundInv, [Next]_vars
    PROVE  UpMade'
<1>1. Made' = Made \cup IF ReceiveLine THEN Named ELSE {}
    BY MadeStep
<1>2. \A n \in Made : Up[n] \subseteq Made
    BY DEF RoundInv, UpMade
<1>3. ASSUME ReceiveLine, NEW n \in Named PROVE Up[n] \subseteq Made \cup {n}
    <2>1. toCoord # <<>> /\ Head(toCoord).op # "verdict" /\ n = Head(toCoord).node
        BY <1>3 DEF ReceiveLine, Named
    <2>2. Above(n) \subseteq Made
        BY <2>1, NextLine
    <2> QED
        BY <2>2 DEF Above
<1> QED
    BY <1>1, <1>2, <1>3 DEF UpMade

(* What is still to be written is about nodes of the tree: set_node_split  *)
(* reports the path of a node of the tree.                                 *)
LEMMA OutboxStep ==
    ASSUME RoundInv, [Next]_vars
    PROVE  outbox' \in Seq(Commands) /\ OutboxMade'
<1>0. outbox \in Seq(Commands) /\ \A i \in DOMAIN outbox : outbox[i].node \in Made
    BY DEF RoundInv, DataTypes, OutboxMade
<1>1. Made \subseteq Made' /\ Made \subseteq Nodes
    BY MadeStep DEF Made
<1>2. CASE UNCHANGED outbox
    BY <1>0, <1>1, <1>2 DEF OutboxMade
<1>3. ASSUME NEW n \in Nodes, SplitOff(n) PROVE outbox' \in Seq(Commands) /\ OutboxMade'
    <2> DEFINE open == {a \in Up[n] : ~ IsEnded(status, a)}
               k == Cardinality(open)
    <2>1. n \in Made /\ Up[n] \subseteq Made
        BY <1>3, SplitMade DEF SplitOff, RoundInv, UpMade
    <2>2. open \subseteq Made /\ open \subseteq Nodes
        BY <1>1, <2>1
    <2>3. k \in Nat
        BY <2>2, SpaceShape, FS_Subset, FS_CardinalityType
    <2>4. PICK path \in [1 .. k -> open] :
            outbox' = Append([i \in DOMAIN path |-> Ended("terminate_node", path[i])], Ended("unsat_node", n))
        BY <1>3 DEF SplitOff
    <2> HIDE DEF open, k
    <2> DEFINE s == [i \in 1 .. k |-> Ended("terminate_node", path[i])]
    <2>5. s \in Seq(Commands) /\ \A i \in DOMAIN s : s[i].node \in Made
        BY <2>2, <2>3, <2>4 DEF Ended, Commands
    <2>6. Ended("unsat_node", n) \in Commands /\ Ended("unsat_node", n).node = n
        BY <1>1, <2>1 DEF Ended, Commands
    <2>7. outbox' = Append(s, Ended("unsat_node", n))
        BY <2>4
    <2> HIDE DEF s
    <2>8. outbox' \in Seq(Commands) /\ \A i \in DOMAIN outbox' : outbox'[i].node \in Made
        BY <2>1, <2>5, <2>6, <2>7
    <2> QED
        BY <1>1, <2>8 DEF OutboxMade
<1>4. CASE WriteLine
    <2>1. outbox' \in Seq(Commands) /\ \A i \in DOMAIN outbox' : outbox'[i].node \in Made
        BY <1>0, <1>4 DEF WriteLine
    <2> QED
        BY <1>1, <2>1 DEF OutboxMade
<1> QED
    BY <1>2, <1>3, <1>4
       DEF Next, CoordinatorNext, PartitionerStep, vars, coordVars, ReceiveLine, ReceiveEof, EndReceive,
           PollEndedNode, PollStillSolving, PollSat, PollUnsat, PollGivenUp, EndPoll, RunTask, EndRun,
           NextPass, RoundDone

(* The lists of the loop hold nodes, and the loop is where it can be.      *)
LEMMA ListsStep ==
    ASSUME RoundInv, [Next]_vars
    PROVE  /\ running' \subseteq Nodes /\ handed' \subseteq Nodes
           /\ solvings' \in Seq(Nodes) /\ waitings' \in Seq(Nodes)
           /\ toPoll' \in Seq(Nodes) /\ still' \in Seq(Nodes)
           /\ result' \in Results
           /\ reader' \in {"running", "process_done", "receive_done"}
<1>0. /\ running \subseteq Nodes /\ handed \subseteq Nodes
      /\ solvings \in Seq(Nodes) /\ waitings \in Seq(Nodes)
      /\ toPoll \in Seq(Nodes) /\ still \in Seq(Nodes)
      /\ result \in Results /\ treeResult \in Results
      /\ reader \in {"running", "process_done", "receive_done"}
    BY DEF RoundInv, DataTypes, TreeTypeOK
<1>r. treeResult' \in Results
    BY TreeStep
<1>s. \A t \in Results : Settled(result, t) \in Results
    BY <1>0 DEF Settled
<1>c. Checked \in {"running", "process_done", "receive_done"}
    BY <1>0 DEF Checked
<1>1. CASE ReceiveLine
    <2>1. /\ UNCHANGED <<reader, pc, toPoll, still, handed, solvings>>
          /\ running' \subseteq running
          /\ waitings' = waitings \/ (waitings' = Append(waitings, Head(toCoord).node) /\ Head(toCoord).op # "verdict")
          /\ result' = result \/ result' = Settled(result, treeResult') \/ (result' = Head(toCoord).result /\ Head(toCoord).op = "verdict" /\ result' # "unknown")
        BY <1>1 DEF ReceiveLine, ReceiveVerdict, ReceiveNewUnsatNode, ReceiveNewUnknownNode, NodeSolvedUnsat, treeVars
    <2>2. toCoord # <<>> /\ Head(toCoord) \in Lines
        BY <1>1 DEF ReceiveLine, RoundInv, DataTypes, PartitionerTypeOK
    <2>3. Head(toCoord).op # "verdict" => Head(toCoord).node \in Nodes
        BY <2>2, NextLine
    <2>4. result' \in Results
        <3>1. Head(toCoord).op = "verdict" => Head(toCoord).result \in {"sat", "unsat", "unknown"}
            BY <2>2 DEF Lines, Verdicts
        <3> QED
            BY <1>0, <1>r, <1>s, <2>1, <3>1 DEF Results
    <2>5. waitings' \in Seq(Nodes)
        <3>1. CASE waitings' = waitings
            BY <1>0, <3>1
        <3>2. CASE waitings' = Append(waitings, Head(toCoord).node) /\ Head(toCoord).node \in Nodes
            BY <1>0, <3>2
        <3> QED
            BY <2>1, <2>3, <3>1, <3>2
    <2>6. running' \subseteq Nodes
        BY <1>0, <2>1
    <2> QED
        BY <1>0, <2>1, <2>4, <2>5, <2>6
<1>3. ASSUME NEW n \in Nodes, \/ PollEndedNode(n) \/ PollStillSolving(n) \/ PollSat(n)
                               \/ PollUnsat(n) \/ PollGivenUp(n)
      PROVE  /\ running' \subseteq Nodes /\ handed' \subseteq Nodes
             /\ solvings' \in Seq(Nodes) /\ waitings' \in Seq(Nodes)
             /\ toPoll' \in Seq(Nodes) /\ still' \in Seq(Nodes)
             /\ result' \in Results
             /\ reader' \in {"running", "process_done", "receive_done"}
    <2>1. /\ running' \subseteq running /\ UNCHANGED <<solvings, waitings, handed>>
          /\ toPoll' = Tail(toPoll) /\ toPoll # <<>>
          /\ still' = still \/ still' = Append(still, n)
          /\ result' = result \/ result' = Settled(result, treeResult')
          /\ reader' = reader \/ reader' = Checked
        BY <1>3 DEF PollEndedNode, PollStillSolving, PollSat, PollUnsat, PollGivenUp, Polled, AfterPoll, Send,
                    NodeSolvedUnsat, treeVars
    <2>2. toPoll' \in Seq(Nodes)
        <3>1. toPoll \in Seq(Nodes) /\ toPoll # <<>> /\ toPoll' = Tail(toPoll)
            BY <1>0, <2>1
        <3> QED
            BY <3>1, HeadTailProperties
    <2>3. still' \in Seq(Nodes)
        <3>1. still \in Seq(Nodes) /\ (still' = still \/ still' = Append(still, n))
            BY <1>0, <2>1
        <3> QED
            BY <3>1, AppendProperties
    <2>4. result' \in Results
        BY <1>0, <1>r, <1>s, <2>1
    <2>5. reader' \in {"running", "process_done", "receive_done"}
        BY <1>0, <1>c, <2>1
    <2>6. running' \subseteq Nodes /\ UNCHANGED <<solvings, waitings, handed>>
        BY <1>0, <2>1
    <2> QED
        BY <1>0, <2>2, <2>3, <2>4, <2>5, <2>6
<1>4. CASE RunTask
    <2>1. PICK i \in DOMAIN waitings :
            /\ running' = running \cup {waitings[i]}
            /\ solvings' = Append(solvings, waitings[i])
            /\ waitings' = SubSeq(waitings, i + 1, Len(waitings))
        BY <1>4 DEF RunTask, NextWaiting
    <2>2. waitings[i] \in Nodes
        BY <1>0
    <2>3. solvings' \in Seq(Nodes)
        BY <1>0, <2>1, <2>2
    <2>4. waitings' \in Seq(Nodes)
        BY <1>0, <2>1
    <2>5. UNCHANGED <<handed, toPoll, still, result, reader>>
        BY <1>4 DEF RunTask
    <2>6. running' \subseteq Nodes
        BY <1>0, <2>1, <2>2
    <2> QED
        BY <1>0, <2>3, <2>4, <2>5, <2>6
<1>5. CASE EndPoll \/ EndReceive \/ EndRun
    <2>1. /\ UNCHANGED <<running, handed, reader>>
          /\ solvings' = solvings \/ solvings' = still
          /\ waitings' = waitings \/ waitings' = <<>>
          /\ toPoll' = toPoll \/ toPoll' = solvings
          /\ still' = still \/ still' = <<>>
          /\ result' = result \/ result' = Settled(result, treeResult)
        BY <1>5 DEF EndPoll, EndReceive, EndRun, treeVars
    <2>2. result' \in Results
        BY <1>0, <1>s, <2>1
    <2>3. <<>> \in Seq(Nodes)
        OBVIOUS
    <2> QED
        BY <1>0, <2>1, <2>2, <2>3
<1>6. ASSUME NEW n \in Nodes, SplitOff(n)
      PROVE  /\ running' \subseteq Nodes /\ handed' \subseteq Nodes
             /\ UNCHANGED <<solvings, waitings, toPoll, still, result, reader>>
    BY <1>0, <1>6 DEF SplitOff, NodeSolvedUnsat
<1>7. CASE ReceiveEof \/ WriteLine \/ NextPass \/ RoundDone
    BY <1>0, <1>c, <1>7 DEF ReceiveEof, WriteLine, NextPass, RoundDone, Send, treeVars
<1>8. CASE UNCHANGED coordVars
    BY <1>0, <1>8 DEF coordVars, treeVars
<1> QED
    BY <1>0, <1>1, <1>3, <1>4, <1>5, <1>6, <1>7, <1>8 DEF Next, CoordinatorNext, PartitionerStep, vars

-----------------------------------------------------------------------------
(* The types of the process are those of the general specification.        *)
LEMMA ProcessTypes == G!OrderInv => PartitionerTypeOK
BY DEF G!OrderInv, G!IndInv, G!TypeOK, G!PartitionerTypeOK, PartitionerTypeOK,
       G!States, States, G!Lines, Lines, G!Verdicts, Verdicts, G!Commands, Commands

(* At the start the tree is empty.                                         *)
LEMMA RoundInit == DataInit => RoundInv
<1> SUFFICES ASSUME DataInit PROVE RoundInv
    OBVIOUS
<1>1. Made = {}
    BY DEF DataInit, TreeInit, Made
<1>2. PartitionerInit <=> General!PartitionerInit
    BY DEF PartitionerInit, General!PartitionerInit, Verdict, General!Verdict
<1>3. G!OrderInv
    <2>1. G!Init
        BY <1>1, <1>2, SameNext DEF General!Init, DataInit
    <2> QED
        BY <2>1, G!InitOrder, InstanceFacts, SpaceShape, SpaceTruth, MaxRunningType, RefutableSound, NoTaskFresh
<1>4. UpMade /\ OutboxMade
    BY <1>1 DEF UpMade, OutboxMade, DataInit
<1>5. ChildrenMade
    BY <1>1 DEF ChildrenMade, DataInit, TreeInit, Elements
<1>6. DataTypes
    BY <1>3, ProcessTypes DEF DataInit, TreeInit, DataTypes, TreeTypeOK, Statuses, Results
<1> QED
    BY <1>3, <1>4, <1>5, <1>6 DEF RoundInv

(* Both directions at once: the commands are about nodes of the tree, so   *)
(* the process announces in order, so the tree grows from its root.        *)
LEMMA RoundInvStep == RoundInv /\ [Next]_vars => RoundInv'
<1> SUFFICES ASSUME RoundInv, [Next]_vars PROVE RoundInv'
    OBVIOUS
<1>1. G!OrderInv'
    BY RefineStep, ProcessStep DEF RoundInv
<1>2. PartitionerTypeOK'
    BY <1>1 DEF G!OrderInv, G!IndInv, G!TypeOK, G!PartitionerTypeOK, PartitionerTypeOK,
                G!States, States, G!Lines, Lines, G!Verdicts, Verdicts, G!Commands, Commands
<1>3. DataTypes'
    <2>1. status' \in [Nodes -> Statuses] /\ treeResult' \in Results
        BY TreeStep
    <2>2. \A p \in Nodes : children'[p] \in Seq(Kids[p]) /\ Len(children'[p]) <= 2
        BY ChildrenStep
    <2>3. TreeTypeOK'
        BY <2>1, <2>2, ListsStep DEF TreeTypeOK
    <2>4. outbox' \in Seq(Commands)
        BY OutboxStep
    <2> QED
        BY <1>2, <2>3, <2>4, ListsStep DEF DataTypes
<1> QED
    BY <1>1, <1>3, UpStep, ChildrenStep, OutboxStep DEF RoundInv

(* RoundInv is an invariant of the round.                                  *)
LEMMA RoundInductive == Spec => []RoundInv
<1>1. Init => DataInit
    BY DEF Init, DataInit
<1> QED
    BY <1>1, RoundInit, RoundInvStep, PTL DEF Spec

(* The loop stays where it can be.                                         *)
LEMMA LoopStep ==
    ASSUME LoopTypes, [Next]_vars
    PROVE  LoopTypes'
BY DEF LoopTypes, Next, CoordinatorNext, PartitionerStep, vars, coordVars, ReceiveLine, ReceiveEof, EndReceive,
       PollEndedNode, PollStillSolving, PollSat, PollUnsat, PollGivenUp, AfterPoll, EndPoll, RunTask, EndRun,
       SplitOff, WriteLine, NextPass, RoundDone

(* Every variable of the round keeps its type: lines and commands are well *)
(* formed, no node of the tree has a third child, and the lists hold nodes *)
(* (TypeOK).                                                               *)
THEOREM RoundTypeCorrect == Spec => []TypeOK
<1>1. RoundInv /\ LoopTypes => TypeOK
    BY DEF RoundInv, DataTypes, LoopTypes, TypeOK
<1>2. Init => LoopTypes
    BY DEF Init, LoopTypes
<1> QED
    BY <1>1, <1>2, LoopStep, RoundInductive, PTL DEF Spec

(* The coordinator of a round is one of the general coordinators of        *)
(* PartitionerOpen, so what is proved of the process there holds in every  *)
(* round (CoordinatorIsGeneral).                                           *)
THEOREM CoordinatorIsGeneralHolds == Spec => CoordinatorIsGeneral
<1>1. Init => General!Init
    BY DEF Init, TreeInit, Made, General!Init, PartitionerInit, General!PartitionerInit, Verdict, General!Verdict
<1>2. RoundInv /\ [Next]_vars => [General!Next]_General!vars
    <2>1. G!vars = General!vars /\ G!vars' = General!vars'
        BY DEF G!vars, General!vars, G!partitionerVars, General!partitionerVars
    <2> QED
        BY <2>1, RefineStep, SameNext
<1> QED
    BY <1>1, <1>2, RoundInductive, PTL DEF Spec, CoordinatorIsGeneral, General!Spec

(* A node that has ended is never solved again, and unsat is final,        *)
(* whichever of its lines, solver and marks comes last (EndedStaysEnded).  *)
THEOREM EndedStaysEndedHolds == Spec => EndedStaysEnded
<1>1. RoundInv /\ [Next]_vars =>
        [\A n \in Nodes :
            /\ IsEnded(status, n) => status'[n] \in {status[n], "unsat"}
            /\ status[n] = "unsat" => status'[n] = "unsat"]_vars
    BY TreeStep DEF TreeMoves
<1> QED
    BY <1>1, RoundInductive, PTL DEF Spec, EndedStaysEnded

-----------------------------------------------------------------------------
(* The solver processes and the lists.  While the list is being rebuilt    *)
(* every live process is in the part still to visit or in the new list.    *)
SolversListed ==
    /\ Len(solvings) <= Cores
    /\ running \subseteq Elements(solvings)
    /\ pc # "idle" => running = {n \in Nodes : status[n] = "solving"}
    /\ pc = "idle" => running = {}
    /\ pc = "poll" => /\ running \subseteq Elements(toPoll) \cup Elements(still)
                      /\ Len(toPoll) + Len(still) <= Cores

SolversInv == RoundInv /\ SolversListed

(* What the operations of a list do to the set of its elements.            *)
LEMMA ListElements ==
    ASSUME NEW s \in Seq(Nodes)
    PROVE  /\ Elements(<<>>) = {}
           /\ \A n \in Nodes : /\ Elements(Append(s, n)) = Elements(s) \cup {n}
                               /\ Len(Append(s, n)) = Len(s) + 1
           /\ s # <<>> => /\ Elements(s) \subseteq {Head(s)} \cup Elements(Tail(s))
                          /\ Len(Tail(s)) = Len(s) - 1 /\ Tail(s) \in Seq(Nodes)
           /\ Elements(s) \subseteq Nodes /\ Len(s) \in Nat
<1>1. Elements(<<>>) = {}
    BY DEF Elements
<1>2. ASSUME NEW n \in Nodes
      PROVE  Elements(Append(s, n)) = Elements(s) \cup {n} /\ Len(Append(s, n)) = Len(s) + 1
    <2> DEFINE t == Append(s, n)
    <2>1. /\ t \in Seq(Nodes) /\ Len(t) = Len(s) + 1 /\ Len(s) \in Nat
          /\ DOMAIN t = 1 .. Len(t) /\ DOMAIN s = 1 .. Len(s)
          /\ \A i \in 1 .. Len(s) : t[i] = s[i]
          /\ t[Len(s) + 1] = n
        BY AppendProperties
    <2> HIDE DEF t
    <2>2. Elements(t) = Elements(s) \cup {n}
        BY <2>1 DEF Elements
    <2> QED
        BY <2>1, <2>2 DEF t
<1>3. ASSUME s # <<>>
      PROVE  /\ Elements(s) \subseteq {Head(s)} \cup Elements(Tail(s))
             /\ Len(Tail(s)) = Len(s) - 1 /\ Tail(s) \in Seq(Nodes)
    <2> DEFINE t == Tail(s)
    <2>1. /\ t \in Seq(Nodes) /\ Len(t) = Len(s) - 1 /\ Len(s) \in Nat
          /\ DOMAIN t = 1 .. Len(t) /\ DOMAIN s = 1 .. Len(s)
          /\ \A i \in 1 .. Len(t) : t[i] = s[i + 1]
          /\ s[1] = Head(s)
        BY <1>3, HeadTailProperties
    <2> HIDE DEF t
    <2>2. ASSUME NEW i \in DOMAIN s, i # 1 PROVE s[i] \in Elements(t)
        <3>1. i - 1 \in DOMAIN t /\ t[i - 1] = s[i]
            BY <2>1, <2>2
        <3> QED
            BY <3>1 DEF Elements
    <2> QED
        BY <2>1, <2>2 DEF Elements, t
<1>4. Elements(s) \subseteq Nodes /\ Len(s) \in Nat
    BY DEF Elements
<1> QED
    BY <1>1, <1>2, <1>3, <1>4

(* A list has no more elements than places.                                *)
LEMMA ElementsCount ==
    ASSUME NEW s \in Seq(Nodes)
    PROVE  IsFiniteSet(Elements(s)) /\ Cardinality(Elements(s)) <= Len(s)
<1> DEFINE D == 1 .. Len(s)
           E == Elements(s)
<1>1. Len(s) \in Nat /\ DOMAIN s = D /\ s \in [D -> Nodes]
    OBVIOUS
<1>2. IsFiniteSet(D) /\ Cardinality(D) = Len(s)
    BY <1>1, FS_Interval
<1>3. (\A i \in D : s[i] \in E) /\ \A t \in E : \E i \in D : s[i] = t
    BY <1>1 DEF Elements
<1> HIDE DEF D, E
<1>4. s \in Surjection(D, E)
    BY <1>1, <1>3 DEF Surjection
<1>5. IsFiniteSet(E) /\ Cardinality(E) <= Len(s)
    BY <1>2, <1>4, FS_Surjection
<1> QED
    BY <1>5 DEF E

(* Where node_solved_unsat leaves the solvers.                             *)
LEMMA SolvedSolvers ==
    ASSUME NEW st \in [Nodes -> Statuses], NEW ch, NEW alive, NEW n \in Nodes,
           \A a \in Above(n) : st[a] # "none", NodeSolvedUnsat(st, ch, alive, n),
           alive = {m \in Nodes : st[m] = "solving"} \ {n}
    PROVE  running' \subseteq alive /\ running' = {m \in Nodes : status'[m] = "solving"}
<1>1. PICK marks \in SUBSET Nodes :
        /\ running' = alive \ marks
        /\ \A m \in Nodes : status'[m] = IF m \in marks THEN "unsat" ELSE st[m]
    BY SolvedStatus
<1>2. status'[n] = "unsat"
    BY SolvedStatus
<1> QED
    BY <1>1, <1>2

(* Every step keeps the solver processes accounted for.                    *)
LEMMA SolversStep ==
    ASSUME SolversInv, [Next]_vars
    PROVE  SolversListed'
<1> DEFINE solving == {n \in Nodes : status[n] = "solving"}
<1>0. /\ RoundInv /\ status \in [Nodes -> Statuses] /\ running \subseteq Nodes
      /\ solvings \in Seq(Nodes) /\ waitings \in Seq(Nodes)
      /\ toPoll \in Seq(Nodes) /\ still \in Seq(Nodes)
      /\ Cores \in Nat
    BY RoundConstants, MaxRunningType DEF SolversInv, RoundInv, DataTypes, TreeTypeOK
<1>i. /\ Len(solvings) <= Cores /\ running \subseteq Elements(solvings)
      /\ pc # "idle" => running = solving
      /\ pc = "idle" => running = {}
      /\ pc = "poll" => /\ running \subseteq Elements(toPoll) \cup Elements(still)
                        /\ Len(toPoll) + Len(still) <= Cores
    BY DEF SolversInv, SolversListed
<1>u. \A n \in Made : \A a \in Above(n) : status[a] # "none"
    BY <1>0 DEF RoundInv, UpMade, Made, Above
(* A step outside the poll that marks nodes or makes them.                 *)
<1>1. ASSUME UNCHANGED solvings, pc # "idle", pc' # "idle", pc' # "poll", running' \subseteq running,
             running' = {n \in Nodes : status'[n] = "solving"}
      PROVE  SolversListed'
    BY <1>i, <1>1 DEF SolversListed
<1>2. CASE ReceiveLine
    <2>0. pc = "receive" /\ pc' = "receive" /\ UNCHANGED solvings /\ toCoord # <<>>
        BY <1>2 DEF ReceiveLine, ReceiveVerdict, ReceiveNewUnsatNode, ReceiveNewUnknownNode, treeVars
    <2> DEFINE l == Head(toCoord)
    <2>1. CASE ReceiveVerdict(l)
        BY <1>1, <1>i, <2>0, <2>1 DEF ReceiveVerdict, treeVars
    <2>2. ASSUME l.op # "verdict", NEW ch, NodeSolvedUnsat(status, ch, running, l.node) PROVE SolversListed'
        <3>1. l.node \in Nodes /\ l.node \notin Made /\ Above(l.node) \subseteq Made
            BY <1>0, <2>0, <2>2, NextLine
        <3>2. running = solving \ {l.node} /\ \A a \in Above(l.node) : status[a] # "none"
            BY <1>i, <2>0, <3>1 DEF Made
        <3> QED
            BY <1>0, <1>1, <2>0, <2>2, <3>1, <3>2, SolvedSolvers
    <2>3. CASE ReceiveNewUnsatNode(l)
        BY <2>2, <2>3 DEF ReceiveNewUnsatNode
    <2>4. CASE ReceiveNewUnknownNode(l)
        <3>0. l.op # "verdict"
            BY <2>4 DEF ReceiveNewUnknownNode
        <3>1. CASE NodeSolvedUnsat(status, ChildrenWith(l.node), running, l.node)
            BY <2>2, <3>0, <3>1
        <3>2. CASE status' = [status EXCEPT ![l.node] = "unsolved"] /\ UNCHANGED running
            <4>1. l.node \in Nodes /\ status[l.node] = "none"
                BY <1>0, <2>0, <3>0, NextLine DEF Made
            <4>2. running' = {n \in Nodes : status'[n] = "solving"}
                BY <1>0, <1>i, <2>0, <3>2, <4>1
            <4> QED
                BY <1>1, <2>0, <3>2, <4>2
        <3> QED
            BY <2>4, <3>1, <3>2 DEF ReceiveNewUnknownNode
    <2> QED
        BY <1>2, <2>1, <2>3, <2>4 DEF ReceiveLine
<1>3. CASE EndReceive
    <2>1. UNCHANGED <<status, running, solvings>> /\ pc = "receive"
          /\ (pc' = "report" \/ (pc' = "poll" /\ toPoll' = solvings /\ still' = <<>>))
        BY <1>3 DEF EndReceive, treeVars
    <2>2. Elements(<<>>) = {} /\ Len(<<>>) = 0 /\ Len(solvings) \in Nat
        BY <1>0, ListElements
    <2> QED
        BY <1>0, <1>i, <2>1, <2>2 DEF SolversListed
(* One node is polled: it leaves toPoll, and running with it or not.       *)
<1>4. ASSUME NEW n \in Nodes, Polled(n), UNCHANGED solvings, pc' \in {"poll", "report"},
             running' \subseteq running, running' = {m \in Nodes : status'[m] = "solving"},
             (still' = still /\ n \notin running') \/ still' = Append(still, n)
      PROVE  SolversListed'
    <2>1. pc = "poll" /\ toPoll # <<>> /\ n = Head(toPoll) /\ toPoll' = Tail(toPoll)
        BY <1>4 DEF Polled
    <2>2. /\ Elements(toPoll) \subseteq {n} \cup Elements(toPoll') /\ Len(toPoll') = Len(toPoll) - 1
          /\ Len(toPoll) \in Nat /\ Len(still) \in Nat
          /\ still' = Append(still, n) => /\ Elements(still') = Elements(still) \cup {n}
                                          /\ Len(still') = Len(still) + 1
        <3>1. Elements(Append(still, n)) = Elements(still) \cup {n} /\ Len(Append(still, n)) = Len(still) + 1
            BY <1>0, ListElements
        <3>2. Elements(toPoll) \subseteq {n} \cup Elements(Tail(toPoll)) /\ Len(Tail(toPoll)) = Len(toPoll) - 1
            BY <1>0, <2>1, ListElements
        <3>3. Len(toPoll) \in Nat /\ Len(still) \in Nat
            BY <1>0, ListElements
        <3> QED
            BY <2>1, <3>1, <3>2, <3>3
    <2>3. running' \subseteq Elements(toPoll') \cup Elements(still')
        BY <1>4, <1>i, <2>1, <2>2
    <2>4. Len(toPoll') + Len(still') <= Cores
        BY <1>0, <1>4, <1>i, <2>1, <2>2
    <2> QED
        BY <1>4, <1>i, <2>3, <2>4 DEF SolversListed
<1>5. ASSUME NEW n \in Nodes, \/ PollEndedNode(n) \/ PollStillSolving(n) \/ PollSat(n)
                               \/ PollUnsat(n) \/ PollGivenUp(n)
      PROVE  SolversListed'
    <2>0. Polled(n) /\ pc = "poll" /\ running = solving
        BY <1>5, <1>i DEF PollEndedNode, PollStillSolving, PollSat, PollUnsat, PollGivenUp, Polled
    <2>1. UNCHANGED solvings /\ pc' \in {"poll", "report"}
        BY <1>5, <2>0 DEF PollEndedNode, PollStillSolving, PollSat, PollUnsat, PollGivenUp, AfterPoll, treeVars
    <2>2. CASE PollEndedNode(n) \/ PollStillSolving(n)
        <3>1. UNCHANGED <<status, running>> /\ ((still' = still /\ n \notin running) \/ still' = Append(still, n))
            BY <2>0, <2>2 DEF PollEndedNode, PollStillSolving, treeVars
        <3> QED
            BY <1>4, <2>0, <2>1, <3>1
    <2>3. CASE PollSat(n) \/ PollGivenUp(n)
        <3>1. /\ \E s \in {"sat", "terminated"} : status' = [status EXCEPT ![n] = s]
              /\ running' = running \ {n} /\ still' = still
            BY <2>3 DEF PollSat, PollGivenUp
        <3>2. running' = {m \in Nodes : status'[m] = "solving"}
            BY <1>0, <2>0, <3>1
        <3> QED
            BY <1>4, <2>0, <2>1, <3>1, <3>2
    <2>4. CASE PollUnsat(n)
        <3>1. status[n] = "solving" /\ NodeSolvedUnsat(status, children, running \ {n}, n) /\ still' = still
            BY <2>4 DEF PollUnsat
        <3>2. \A a \in Above(n) : status[a] # "none"
            BY <1>u, <3>1 DEF Made
        <3>3. running' \subseteq running \ {n} /\ running' = {m \in Nodes : status'[m] = "solving"}
            BY <1>0, <2>0, <3>1, <3>2, SolvedSolvers
        <3> QED
            BY <1>4, <2>0, <2>1, <3>1, <3>3
    <2> QED
        BY <1>5, <2>2, <2>3, <2>4
<1>6. CASE EndPoll
    <2>1. /\ pc = "poll" /\ pc' = "run" /\ toPoll = <<>> /\ solvings' = still
          /\ UNCHANGED <<status, running>>
        BY <1>6 DEF EndPoll
    <2>2. Elements(<<>>) = {} /\ Len(<<>>) = 0 /\ Len(still) \in Nat
        BY <1>0, ListElements
    <2> QED
        BY <1>0, <1>i, <2>1, <2>2 DEF SolversListed
<1>7. CASE RunTask
    <2>1. PICK n \in Nodes :
            /\ status' = [status EXCEPT ![n] = "solving"]
            /\ running' = running \cup {n} /\ solvings' = Append(solvings, n)
        <3>1. PICK i \in NextWaiting :
                /\ status' = [status EXCEPT ![waitings[i]] = "solving"]
                /\ running' = running \cup {waitings[i]} /\ solvings' = Append(solvings, waitings[i])
            BY <1>7 DEF RunTask
        <3>2. waitings[i] \in Nodes
            BY <1>0 DEF NextWaiting
        <3> QED
            BY <3>1, <3>2
    <2>2. pc = "run" /\ pc' = "run" /\ Len(solvings) < Cores
        BY <1>7 DEF RunTask
    <2>3. Elements(solvings') = Elements(solvings) \cup {n} /\ Len(solvings') = Len(solvings) + 1
          /\ Len(solvings) \in Nat
        BY <1>0, <2>1, ListElements
    <2>4. running' = {m \in Nodes : status'[m] = "solving"}
        BY <1>0, <1>i, <2>1, <2>2
    <2> QED
        BY <1>0, <1>i, <2>1, <2>2, <2>3, <2>4 DEF SolversListed
<1>8. ASSUME NEW n \in Nodes, SplitOff(n) PROVE SolversListed'
    <2> DEFINE open == {a \in Up[n] : ~ IsEnded(status, a)}
               st == [m \in Nodes |-> IF m \in open THEN "terminated" ELSE status[m]]
    <2>1. /\ NodeSolvedUnsat(st, children, running \ open, n) /\ n \in Made
          /\ pc = "leader" /\ pc' = "write" /\ UNCHANGED solvings
        BY <1>0, <1>8, SplitMade DEF SplitOff
    <2>2. Up[n] \subseteq Made /\ Above(n) \subseteq Made /\ n \in Up[n] /\ n \in Nodes
        BY <1>0, <2>1, InstanceFacts DEF RoundInv, UpMade, Above, Made
    <2>3. st \in [Nodes -> Statuses] /\ \A a \in Above(n) : st[a] # "none"
        BY <1>0, <2>2 DEF Statuses, Made
    <2>4. \A m \in Nodes : st[m] = "solving" <=> m \in solving \ open
        OBVIOUS
    <2>5. n \notin solving \ open
        BY <2>2 DEF IsEnded
    <2>6. running \ open = {m \in Nodes : st[m] = "solving"} \ {n}
        BY <1>i, <2>1, <2>4, <2>5
    <2> HIDE DEF st
    <2>7. running' \subseteq running \ open /\ running' = {m \in Nodes : status'[m] = "solving"}
        BY <2>1, <2>2, <2>3, <2>6, SolvedSolvers
    <2> QED
        BY <1>1, <2>1, <2>7
<1>9. CASE RoundDone
    <2>1. pc' = "idle" /\ running' = {} /\ UNCHANGED solvings
        BY <1>9, <1>i DEF RoundDone
    <2> QED
        BY <1>i, <2>1 DEF SolversListed
<1>10. CASE ReceiveEof \/ EndRun \/ WriteLine \/ NextPass
    <2>1. UNCHANGED <<status, running, solvings>> /\ pc # "idle" /\ pc' # "idle" /\ pc' # "poll"
        BY <1>10 DEF ReceiveEof, EndRun, WriteLine, NextPass, treeVars
    <2> QED
        BY <1>1, <1>i, <2>1
<1>11. CASE UNCHANGED coordVars
    BY <1>i, <1>11 DEF coordVars, treeVars, SolversListed
<1> QED
    BY <1>2, <1>3, <1>5, <1>6, <1>7, <1>8, <1>9, <1>10, <1>11 DEF Next, CoordinatorNext, PartitionerStep, vars

(* What is listed is accounted for.                                        *)
LEMMA SolversAccounted == SolversInv => ProcessesAccounted
<1> SUFFICES ASSUME SolversInv PROVE ProcessesAccounted
    OBVIOUS
<1>1. solvings \in Seq(Nodes) /\ running \in SUBSET Elements(solvings) /\ Len(solvings) <= Cores
    BY DEF SolversInv, SolversListed, RoundInv, DataTypes, TreeTypeOK
<1>2. IsFiniteSet(Elements(solvings)) /\ Cardinality(Elements(solvings)) <= Len(solvings)
    BY <1>1, ElementsCount
<1>3. IsFiniteSet(running) /\ Cardinality(running) <= Cardinality(Elements(solvings))
    BY <1>1, <1>2, FS_Subset
<1>4. /\ Cardinality(running) \in Nat /\ Cardinality(Elements(solvings)) \in Nat
      /\ Len(solvings) \in Nat /\ Cores \in Nat
    BY <1>1, <1>2, <1>3, FS_CardinalityType, RoundConstants, MaxRunningType
<1>5. Cardinality(running) <= Cores
    BY <1>1, <1>2, <1>3, <1>4
<1> QED
    BY <1>1, <1>5 DEF SolversInv, SolversListed, ProcessesAccounted

(* Whatever the partitioner announces, the solvers answer and the leader   *)
(* takes away: the live solver processes are those of the nodes being      *)
(* solved, all of them in the list round_clean_up walks, at most as many   *)
(* as cores, and none after the round (ProcessesAccounted).                *)
THEOREM ProcessesAccountedHolds == Spec => []ProcessesAccounted
<1>1. Init => SolversListed
    <2> SUFFICES ASSUME Init PROVE SolversListed
        OBVIOUS
    <2>1. running = {} /\ solvings = <<>> /\ pc = "receive" /\ \A n \in Nodes : status[n] = "none"
        BY DEF Init, TreeInit
    <2>2. Elements(<<>>) = {} /\ Len(<<>>) = 0 /\ Cores \in Nat
        BY RoundConstants, MaxRunningType DEF Elements
    <2> QED
        BY <2>1, <2>2 DEF SolversListed
<1>2. SolversInv /\ [Next]_vars => SolversListed'
    BY SolversStep
<1> QED
    BY <1>1, <1>2, SolversAccounted, RoundInductive, PTL DEF Spec, SolversInv

-----------------------------------------------------------------------------
(***************************************************************************)
(* The unsat marks of the coordinator's tree, proved for every tree of     *)
(* subproblems and every order of events: they climb to a node as soon as  *)
(* both its halves have one, and they sink to all that lies below.         *)
(*                                                                         *)
(* The argument.  A step that changes marks is one call of                 *)
(* node_solved_unsat on a node n; all others leave the marks alone.  A     *)
(* half that is newly marked lies on the path of n, where the walk goes on *)
(* upwards unless the other half stops it, or below n, where the walk came *)
(* past its parent.  What lies below a newly marked node is below n, on    *)
(* the path of n, or below a half that stopped nobody, so was unsat.       *)
(***************************************************************************)

(* The step is node_solved_unsat of n on the tree as st leaves it.         *)
Marking(n, st) ==
    /\ \A m \in Nodes : /\ st[m] = "unsat" <=> status[m] = "unsat"
                        /\ st[m] = "none" <=> status[m] = "none"
    /\ Above(n) \subseteq Made
    /\ status' = MarkUnsat(st, SolvedMarks(st, children', n))
    /\ treeResult' = ResultAfter(SolvedMarks(st, children', n))
    /\ \A q \in Nodes : Len(children'[q]) = 2 =>
          Len(children[q]) = 2 \/ (n \in Kids[q] /\ status[n] = "none")

(* The step marks nothing; it may make a node whose parent is not unsat.   *)
NoMarking ==
    /\ \A m \in Nodes : status'[m] = "unsat" <=> status[m] = "unsat"
    /\ treeResult' = "unsolved" => treeResult = "unsolved"
    /\ \A q \in Nodes : Len(children'[q]) = 2 =>
          Len(children[q]) = 2 \/ \E k \in Kids[q] : status'[k] # "unsat"
    /\ \A d \in Nodes : status[d] \in {"none", "unsat"} /\ status'[d] \notin {"none", "unsat"} =>
          Above(d) \subseteq Made /\ \A p \in ParentOf(d) : status[p] # "unsat"

(* Every step is one of the two.                                           *)
LEMMA MarkingStep ==
    ASSUME RoundInv, [Next]_vars
    PROVE  NoMarking \/ \E n \in Nodes : \E st \in [Nodes -> Statuses] : Marking(n, st)
<1>0. /\ status \in [Nodes -> Statuses] /\ treeResult \in Results
      /\ \A p \in Nodes : children[p] \in Seq(Kids[p])
    BY DEF RoundInv, DataTypes, TreeTypeOK
<1>u. \A n \in Made : Above(n) \subseteq Made
    BY DEF RoundInv, UpMade, Above
<1>1. CASE UNCHANGED <<status, treeResult, children>>
    BY <1>1 DEF NoMarking
<1>2. CASE ReceiveLine
    <2>0. toCoord # <<>>
        BY <1>2 DEF ReceiveLine
    <2> DEFINE l == Head(toCoord)
    <2>1. CASE ReceiveVerdict(l)
        BY <1>1, <2>1 DEF ReceiveVerdict, treeVars
    <2>2. ASSUME l.op # "verdict", children' = ChildrenWith(l.node)
          PROVE  /\ l.node \in Nodes /\ status[l.node] = "none" /\ Above(l.node) \subseteq Made
                 /\ \A q \in Nodes : Len(children'[q]) = 2 => Len(children[q]) = 2 \/ l.node \in Kids[q]
        <3>1. l.node \in Nodes /\ status[l.node] = "none" /\ Above(l.node) \subseteq Made
            BY <2>0, <2>2, NextLine DEF Made
        <3>2. \A q \in Nodes : q \notin ParentOf(l.node) => children'[q] = children[q]
            BY <2>2 DEF ChildrenWith
        <3> QED
            BY <3>1, <3>2 DEF ParentOf
    <2>3. ASSUME l.op # "verdict", children' = ChildrenWith(l.node),
                 NodeSolvedUnsat(status, ChildrenWith(l.node), running, l.node)
          PROVE  Marking(l.node, status)
        BY <2>2, <2>3 DEF Marking, NodeSolvedUnsat
    <2>4. CASE ReceiveNewUnsatNode(l)
        <3>1. l.op # "verdict"
            BY <2>4 DEF ReceiveNewUnsatNode
        <3> QED
            BY <1>0, <2>2, <2>3, <2>4, <3>1 DEF ReceiveNewUnsatNode
    <2>5. CASE ReceiveNewUnknownNode(l)
        <3>1. l.op # "verdict" /\ children' = ChildrenWith(l.node)
            BY <2>5 DEF ReceiveNewUnknownNode
        <3>2. CASE NodeSolvedUnsat(status, ChildrenWith(l.node), running, l.node)
            BY <1>0, <2>2, <2>3, <3>1, <3>2
        <3>3. CASE /\ \A p \in ParentOf(l.node) : status[p] # "unsat"
                   /\ status' = [status EXCEPT ![l.node] = "unsolved"] /\ UNCHANGED treeResult
            <4>1. /\ status'[l.node] = "unsolved"
                  /\ \A m \in Nodes : m # l.node => status'[m] = status[m]
                BY <1>0, <2>2, <3>1, <3>3
            <4> HIDE DEF l
            <4> QED
                BY <2>2, <3>1, <3>3, <4>1 DEF NoMarking
        <3> QED
            BY <2>5, <3>2, <3>3 DEF ReceiveNewUnknownNode
    <2> QED
        BY <1>2, <2>1, <2>4, <2>5 DEF ReceiveLine
<1>3. ASSUME NEW n \in Nodes, PollSat(n) \/ PollGivenUp(n) PROVE NoMarking
    <2>1. /\ status[n] = "solving" /\ (treeResult' = "unsolved" => treeResult = "unsolved")
          /\ \E s \in {"sat", "terminated"} : status' = [status EXCEPT ![n] = s]
          /\ UNCHANGED children
        BY <1>3 DEF PollSat, PollGivenUp
    <2>2. \A m \in Nodes : status'[m] = status[m] \/
              (status[m] \notin {"none", "unsat"} /\ status'[m] # "unsat")
        BY <1>0, <2>1
    <2> QED
        BY <2>1, <2>2 DEF NoMarking
<1>4. ASSUME NEW n \in Nodes, PollUnsat(n) PROVE Marking(n, status)
    <2>1. status[n] = "solving" /\ NodeSolvedUnsat(status, children, running \ {n}, n) /\ UNCHANGED children
        BY <1>4 DEF PollUnsat
    <2>2. Above(n) \subseteq Made
        BY <1>u, <2>1 DEF Made
    <2> QED
        BY <2>1, <2>2 DEF Marking, NodeSolvedUnsat
<1>5. CASE RunTask
    <2>1. PICK i \in NextWaiting : status' = [status EXCEPT ![waitings[i]] = "solving"]
        BY <1>5 DEF RunTask
    <2>2. waitings[i] \in Nodes /\ status[waitings[i]] = "unsolved"
        BY <2>1 DEF NextWaiting, RoundInv, DataTypes, TreeTypeOK
    <2>3. \A m \in Nodes : status'[m] = status[m] \/
              (status[m] \notin {"none", "unsat"} /\ status'[m] # "unsat")
        BY <1>0, <2>1, <2>2
    <2>4. UNCHANGED <<treeResult, children>>
        BY <1>5 DEF RunTask
    <2> QED
        BY <2>3, <2>4 DEF NoMarking
<1>6. ASSUME NEW n \in Nodes, SplitOff(n)
      PROVE  \E st \in [Nodes -> Statuses] : Marking(n, st)
    <2> DEFINE open == {a \in Up[n] : ~ IsEnded(status, a)}
               st == [m \in Nodes |-> IF m \in open THEN "terminated" ELSE status[m]]
    <2>1. NodeSolvedUnsat(st, children, running \ open, n) /\ n \in Made /\ UNCHANGED children
        BY <1>6, SplitMade DEF SplitOff
    <2>2. Up[n] \subseteq Made /\ Above(n) \subseteq Made
        BY <2>1 DEF RoundInv, UpMade, Above
    <2>3. /\ st \in [Nodes -> Statuses]
          /\ \A m \in Nodes : /\ st[m] = "unsat" <=> status[m] = "unsat"
                              /\ st[m] = "none" <=> status[m] = "none"
        BY <1>0, <2>2 DEF Statuses, Made, IsEnded
    <2> HIDE DEF st
    <2>4. Marking(n, st)
        BY <2>1, <2>2, <2>3 DEF Marking, NodeSolvedUnsat
    <2> QED
        BY <2>3, <2>4
<1> QED
    <2>1. CASE ReceiveEof \/ EndReceive \/ EndPoll \/ EndRun \/ WriteLine \/ NextPass \/ RoundDone
        BY <1>1, <2>1 DEF ReceiveEof, EndReceive, EndPoll, EndRun, WriteLine, NextPass, RoundDone, treeVars
    <2>2. CASE \E n \in Nodes : PollEndedNode(n) \/ PollStillSolving(n)
        BY <1>1, <2>2 DEF PollEndedNode, PollStillSolving, treeVars
    <2>3. CASE UNCHANGED coordVars
        BY <1>1, <2>3 DEF coordVars, treeVars
    <2> QED
        BY <1>0, <1>2, <1>3, <1>4, <1>5, <1>6, <2>1, <2>2, <2>3
           DEF Next, CoordinatorNext, PartitionerStep, vars

-----------------------------------------------------------------------------
(* Marks climb.                                                            *)

(* The children after a step: two of them are the two halves.              *)
LEMMA HalvesAfter ==
    ASSUME RoundInv, [Next]_vars, NEW q \in Nodes, Len(children'[q]) = 2
    PROVE  Elements(children'[q]) = Kids[q]
BY ChildrenStep, BothChildren DEF ChildrenMade

(* A marked half carries the mark on to its parent.                        *)
LEMMA ClimbStep ==
    ASSUME RoundInv, UnsatClimbs, [Next]_vars
    PROVE  UnsatClimbs'
<1> SUFFICES ASSUME NEW q \in Nodes, Len(children'[q]) = 2,
                    \A k \in Kids[q] : status'[k] = "unsat"
             PROVE  status'[q] = "unsat"
    BY DEF UnsatClimbs
<1>1. CASE NoMarking
    BY <1>1, SpaceShape DEF NoMarking, UnsatClimbs
<1>2. ASSUME NEW n \in Nodes, NEW st \in [Nodes -> Statuses], Marking(n, st)
      PROVE  status'[q] = "unsat"
    <2> DEFINE marks == SolvedMarks(st, children', n)
               up == {n} \cup MarkedUp(st, children', n)
    <2>1. \A m \in Nodes : status'[m] = "unsat" <=> m \in marks \/ st[m] = "unsat"
        BY <1>2 DEF Marking, MarkUnsat
    <2>2. marks = up \/ marks = up \cup MarkedDown(st, n)
        BY DEF SolvedMarks
    <2>3. up \subseteq Up[n] /\ Up[n] \subseteq Nodes
        BY SelfUp, AboveNodes DEF MarkedUp, Above
    <2>4. Elements(children'[q]) = Kids[q] /\ Kids[q] \subseteq Nodes
        BY HalvesAfter, SpaceShape
    <2> HIDE DEF marks
    <2>5. CASE \A k \in Kids[q] : st[k] = "unsat"
        <3>1. \A k \in Kids[q] : status[k] = "unsat"
            BY <1>2, <2>4, <2>5 DEF Marking
        <3>2. Len(children[q]) = 2
            BY <1>2, <3>1 DEF Marking
        <3>3. status[q] = "unsat"
            BY <3>1, <3>2 DEF UnsatClimbs
        <3> QED
            BY <1>2, <2>1, <3>3 DEF Marking
    <2>6. ASSUME NEW k \in Kids[q], k \in up, st[q] # "unsat" PROVE status'[q] = "unsat"
        <3>1. k \in Nodes /\ q \in Above(k) /\ Above(k) = Up[q] /\ k \in Up[n]
            BY <2>3, <2>6, KidFacts
        <3>2. q \in Up[n] /\ Up[k] \subseteq Up[n]
            BY <3>1, Paths DEF Above
        <3>3. q # n
            <4>1. CASE k = n
                BY <2>6, <4>1, KidFacts
            <4>2. CASE k # n
                <5>1. k \in Above(n)
                    BY <3>1, <4>2 DEF Above
                <5>2. n \notin Up[k]
                    BY <5>1, NoCycle
                <5> QED
                    BY <3>1, <5>2 DEF Above
            <4> QED
                BY <4>1, <4>2
        <3>4. q \in Above(n)
            BY <3>2, <3>3 DEF Above
        <3>5. ASSUME NEW j \in Kids[q] \ Up[n] PROVE st[j] = "unsat"
            <4>1. j \in Nodes /\ Above(j) = Up[q] /\ status'[j] = "unsat"
                BY KidFacts
            <4>2. j \notin up
                BY <2>3, <3>5
            <4>3. j \notin MarkedDown(st, n)
                <5>1. SUFFICES ASSUME n \in Up[q] PROVE FALSE
                    BY <4>1 DEF MarkedDown, Below
                <5> QED
                    BY <3>4, <5>1, NoCycle
            <4> QED
                BY <2>1, <2>2, <4>1, <4>2, <4>3
        <3>6. ASSUME NEW b \in Above(n), q \in Up[b]
              PROVE  /\ st[b] # "unsat" /\ Len(children'[b]) = 2
                     /\ \A j \in Elements(children'[b]) \ Up[n] : st[j] = "unsat"
            <4>0. b \in Up[n] /\ b \in Nodes /\ b # n
                BY AboveNodes DEF Above
            <4>1. CASE b = q
                BY <2>4, <2>6, <3>5, <4>1
            <4>2. CASE b # q
                <5>1. k \in Up[b]
                    <6>1. k \in Up[b] \/ b \in Up[k]
                        BY <3>1, <4>0, Chain
                    <6>2. SUFFICES ASSUME b \in Up[k], b # k PROVE FALSE
                        BY <4>0, <6>1, SelfUp
                    <6>3. b \in Up[q]
                        BY <3>1, <6>2 DEF Above
                    <6>4. b \in Above(q)
                        BY <4>2, <6>3 DEF Above
                    <6> QED
                        BY <3>6, <6>4, NoCycle
                <5>2. k # n
                    BY <3>6, <5>1, NoCycle
                <5> QED
                    BY <2>6, <3>6, <5>1, <5>2 DEF MarkedUp
            <4> QED
                BY <4>1, <4>2
        <3>7. q \in MarkedUp(st, children', n)
            BY <3>4, <3>6 DEF MarkedUp
        <3> QED
            BY <2>1, <2>2, <3>7
    <2>7. ASSUME NEW k \in Kids[q], k \in MarkedDown(st, n), marks = up \cup MarkedDown(st, n)
          PROVE  status'[q] = "unsat"
        <3>1. k \in Nodes /\ q \in Above(k) /\ Above(k) = Up[q] /\ Up[k] = Up[q] \cup {k}
            BY KidFacts, SpaceShape
        <3>2. /\ n \in Up[q] /\ st[k] # "none"
              /\ \A b \in Up[k] : n \in Above(b) => st[b] # "unsat"
            BY <2>7, <3>1 DEF MarkedDown, Below
        <3>3. CASE q = n
            BY <2>1, <2>7, <3>3
        <3>4. CASE q # n
            <4>1. n \in Above(q)
                BY <3>2, <3>4 DEF Above
            <4>2. status[k] # "none"
                BY <1>2, <3>1, <3>2 DEF Marking
            <4>3. st[q] # "none"
                BY <1>2, <3>1, <4>2 DEF RoundInv, UpMade, Made, Marking, Above
            <4>4. q \in MarkedDown(st, n)
                BY <3>1, <3>2, <4>1, <4>3 DEF MarkedDown, Below
            <4> QED
                BY <2>1, <2>7, <4>4
        <3> QED
            BY <3>3, <3>4
    <2>8. CASE \E k \in Kids[q] : st[k] # "unsat"
        <3>1. PICK k \in Kids[q] : st[k] # "unsat"
            BY <2>8
        <3>2. k \in marks
            BY <2>1, <2>4, <3>1
        <3> QED
            BY <2>1, <2>2, <2>6, <2>7, <3>2
    <2> QED
        BY <2>5, <2>8
<1> QED
    BY <1>1, <1>2, MarkingStep

-----------------------------------------------------------------------------
(* Marks sink.                                                             *)

(* Nothing open is left below a marked node.                               *)
LEMMA SinkStep ==
    ASSUME RoundInv, UnsatSinks, [Next]_vars
    PROVE  UnsatSinks'
<1> SUFFICES ASSUME treeResult' = "unsolved", NEW x \in Nodes, status'[x] = "unsat", NEW d \in Below(x)
             PROVE  status'[d] \in {"none", "unsat"}
    BY DEF UnsatSinks, Below, Above
<1>0. d \in Nodes /\ x \in Above(d) /\ x \in Up[d] /\ x # d
    BY DEF Below, Above
<1>1. CASE NoMarking
    <2>1. treeResult = "unsolved" /\ status[x] = "unsat"
        BY <1>1 DEF NoMarking
    <2>2. \A e \in Below(x) : status[e] \in {"none", "unsat"}
        BY <2>1 DEF UnsatSinks
    <2>3. SUFFICES ASSUME status'[d] \notin {"none", "unsat"} PROVE FALSE
        OBVIOUS
    <2>4. Above(d) \subseteq Made /\ \A p \in ParentOf(d) : status[p] # "unsat"
        BY <1>0, <1>1, <2>2, <2>3 DEF NoMarking
    <2>5. d # Root
        BY <1>0, SpaceShape DEF Above
    <2>6. PICK p \in Nodes : d \in Kids[p]
        BY <1>0, <2>5, SpaceShape
    <2>7. p \in Above(d) /\ Above(d) = Up[p] /\ p \in ParentOf(d)
        BY <2>6, KidFacts DEF ParentOf
    <2>8. x # p /\ x \in Above(p)
        BY <1>0, <2>1, <2>4, <2>7 DEF Above
    <2>9. status[p] \in {"none", "unsat"}
        BY <2>2, <2>8 DEF Below
    <2> QED
        BY <2>4, <2>7, <2>9 DEF Made
<1>2. ASSUME NEW n \in Nodes, NEW st \in [Nodes -> Statuses], Marking(n, st)
      PROVE  status'[d] \in {"none", "unsat"}
    <2> DEFINE marks == SolvedMarks(st, children', n)
    <2>1. \A m \in Nodes : status'[m] = IF m \in marks THEN "unsat" ELSE st[m]
        BY <1>2 DEF Marking, MarkUnsat
    <2>2. Root \notin marks /\ status[Root] # "unsat" /\ treeResult = "unsolved"
        BY <1>2 DEF Marking, ResultAfter
    <2>3. marks = {n} \cup MarkedUp(st, children', n) \cup MarkedDown(st, n)
        <3>1. st[Root] # "unsat"
            BY <1>2, <2>2, SpaceShape DEF Marking
        <3> QED
            BY <2>2, <3>1 DEF SolvedMarks
    <2> HIDE DEF marks
    <2>4. ASSUME NEW y \in Nodes, st[y] = "unsat", NEW e \in Nodes, y \in Up[e]
          PROVE  status'[e] \in {"none", "unsat"}
        <3>1. status[y] = "unsat"
            BY <1>2, <2>4 DEF Marking
        <3>2. status[e] \in {"none", "unsat"}
            BY <2>2, <2>4, <3>1 DEF UnsatSinks, Below, Above
        <3>3. st[e] \in {"none", "unsat"}
            BY <1>2, <3>2 DEF Marking
        <3> QED
            BY <2>1, <3>3
    <2>5. ASSUME NEW e \in Nodes, n \in Up[e] PROVE status'[e] \in {"none", "unsat"}
        <3>1. CASE e = n
            BY <2>1, <2>3, <3>1
        <3>2. CASE e # n /\ st[e] = "none"
            BY <2>1, <3>2
        <3>3. CASE e # n /\ e \in MarkedDown(st, n)
            BY <2>1, <2>3, <3>3
        <3>4. CASE e # n /\ st[e] # "none" /\ e \notin MarkedDown(st, n)
            <4>1. e \in Below(n)
                BY <2>5, <3>4 DEF Below, Above
            <4>2. PICK b \in Up[e] : n \in Above(b) /\ st[b] = "unsat"
                BY <3>4, <4>1 DEF MarkedDown
            <4>3. b \in Nodes
                BY AboveNodes
            <4> QED
                BY <2>4, <4>2, <4>3
        <3> QED
            BY <3>1, <3>2, <3>3, <3>4
    <2>6. CASE st[x] = "unsat"
        BY <1>0, <2>4, <2>6
    <2>7. CASE n \in Up[x]
        BY <1>0, <2>5, <2>7, Paths
    <2>8. CASE x \in MarkedUp(st, children', n)
        <3>1. /\ x \in Above(n)
              /\ \A b \in Above(n) : x \in Up[b] =>
                    /\ st[b] # "unsat" /\ Len(children'[b]) = 2
                    /\ \A k \in Elements(children'[b]) \ Up[n] : st[k] = "unsat"
            BY <2>8 DEF MarkedUp
        <3>2. CASE n \in Up[d]
            BY <1>0, <2>5, <3>2
        <3>3. CASE n \notin Up[d] /\ d \in Up[n]
            <4>1. d \in Above(n)
                BY <1>0, <3>3, SelfUp DEF Above
            <4>2. \A b \in Above(n) : d \in Up[b] => x \in Up[b]
                BY <1>0, AboveNodes, Paths
            <4>3. d \in MarkedUp(st, children', n)
                BY <3>1, <4>1, <4>2 DEF MarkedUp
            <4> QED
                BY <1>0, <2>1, <2>3, <4>3
        <3>4. CASE n \notin Up[d] /\ d \notin Up[n]
            <4> DEFINE T == {b \in Up[d] \cap Up[n] : x \in Up[b]}
            <4>1. x \in T /\ T \subseteq Nodes
                BY <1>0, <3>1, SelfUp, AboveNodes DEF Above
            <4>2. PICK b \in T : \A y \in T : Depth(y) <= Depth(b)
                BY <4>1, Deepest
            <4>3. b \in Nodes /\ b \in Above(n) /\ b \in Above(d) /\ x \in Up[b]
                BY <3>4, <4>1, <4>2 DEF Above
            <4>4. PICK k \in Kids[b] : k \in Up[d]
                BY <1>0, <4>3, Paths
            <4>5. k \in Nodes /\ Up[k] = Up[b] \cup {k} /\ Depth(k) = Depth(b) + 1 /\ Depth(b) \in Nat
                BY <4>3, <4>4, SpaceShape, Depths
            <4>6. k \notin Up[n]
                <5>1. SUFFICES ASSUME k \in Up[n] PROVE FALSE
                    OBVIOUS
                <5>2. k \in T
                    BY <4>3, <4>4, <4>5, <5>1
                <5> QED
                    BY <4>2, <4>5, <5>2
            <4>7. Elements(children'[b]) = Kids[b]
                BY <3>1, <4>3, HalvesAfter
            <4>8. st[k] = "unsat"
                BY <3>1, <4>3, <4>4, <4>6, <4>7
            <4> QED
                BY <1>0, <2>4, <4>4, <4>5, <4>8
        <3> QED
            BY <3>2, <3>3, <3>4
    <2> QED
        <3>1. x \in marks \/ st[x] = "unsat"
            BY <2>1
        <3>2. x \in MarkedDown(st, n) => n \in Up[x]
            BY DEF MarkedDown, Below, Above
        <3>3. n \in Up[n]
            BY SelfUp
        <3> QED
            BY <2>3, <2>6, <2>7, <2>8, <3>1, <3>2, <3>3
<1> QED
    BY <1>1, <1>2, MarkingStep

-----------------------------------------------------------------------------
(* A node both of whose halves are unsat is unsat itself: the assertions   *)
(* of select_split_node and need_terminate never fail (UnsatClimbs).       *)
THEOREM UnsatClimbsHolds == Spec => []UnsatClimbs
<1>1. Init => UnsatClimbs
    <2> SUFFICES ASSUME Init PROVE UnsatClimbs
        OBVIOUS
    <2>1. \A n \in Nodes : children[n] = <<>>
        BY DEF Init, TreeInit
    <2>2. \A n \in Nodes : Len(children[n]) = 0
        BY <2>1
    <2> QED
        BY <2>2 DEF UnsatClimbs
<1> QED
    BY <1>1, ClimbStep, RoundInductive, PTL DEF Spec

(* No task below an unsat node is open while the round is: no core is      *)
(* spent on what is already decided (UnsatSinks; unsat_push_down and the   *)
(* test of the parent in process_partitioner_msg).                         *)
THEOREM UnsatSinksHolds == Spec => []UnsatSinks
<1>1. Init => UnsatSinks
    BY DEF Init, TreeInit, UnsatSinks
<1> QED
    BY <1>1, SinkStep, RoundInductive, PTL DEF Spec

-----------------------------------------------------------------------------
(***************************************************************************)
(* The result of a solving round is right: proofs about CoordinatorRound,  *)
(* for every tree of subproblems, number of cores, set of failing solvers  *)
(* and choice of splits.                                                   *)
(*                                                                         *)
(* The argument.  A node is covered when all satisfiable leaves below it   *)
(* were handed to other coordinators.  Only covered nodes are ever marked  *)
(* unsat, on either side of the pipes: a refuted node and the node of an   *)
(* unsat answer have no satisfiable leaf, the node of a split is handed    *)
(* over, an ancestor is marked when its other halves are, a descendant     *)
(* inherits it, and a command repeats a mark.  When the heap of the        *)
(* process is empty and no task alive, the deepest node made on the way to *)
(* a leaf is unsat, or it is the leaf itself and was given up.             *)
(***************************************************************************)

MarkedCovered == \A n \in Nodes : status[n] = "unsat" => Covered(handed, n)

RefutedCovered == \A n \in Nodes : nodeState[n] = "unsat" => Covered(handed, n)

(* A command to solve a node is about a covered one.                       *)
CoveredLines(s) ==
    \A i \in DOMAIN s : s[i].op = "unsat_node" => Covered(handed, s[i].node)

CommandsCovered == CoveredLines(fromCoord) /\ CoveredLines(outbox)

LeafLost == \E l \in Leaves : nodeState[l] = "terminated"

(* What justifies a result of the round or a verdict of the process.       *)
Right(r) ==
    /\ r = "sat" => Root \in Sat
    /\ r = "unsat" => (phase = "done" /\ LeafLost) \/ Covered(handed, Root)

TreeRight ==
    /\ treeResult = "sat" => Root \in Sat
    /\ treeResult = "unsat" => Covered(handed, Root)

VerdictsRight ==
    \A i \in DOMAIN toCoord : toCoord[i].op = "verdict" =>
        phase = "done" /\ Right(toCoord[i].result)

(* The nodes the process has still to look at are in its heap, and the     *)
(* halves of an announced task exist.                                      *)
Frontier ==
    phase # "done" =>
        /\ nodeState[Root] # "none"
        /\ \A n \in Nodes : nodeState[n] = "unconverted" =>
              n \in leafHeap \/ (phase = "announce" /\ n = ptask)
        /\ \A n \in Nodes : nodeState[n] \in {"waiting", "terminated"} =>
              \A k \in Kids[n] : nodeState[k] # "none"

SoundInv ==
    /\ RoundInv
    /\ G!AliveCountsWaiting
    /\ MarkedCovered
    /\ RefutedCovered
    /\ CommandsCovered
    /\ TreeRight
    /\ VerdictsRight
    /\ Right(result)
    /\ Frontier

-----------------------------------------------------------------------------
(* Nodes that are handed over stay so, and what was covered stays covered. *)
LEMMA HandedGrows ==
    ASSUME [Next]_vars
    PROVE  /\ handed \subseteq handed'
           /\ \A n : Covered(handed, n) => Covered(handed', n)
<1>1. handed \subseteq handed'
    BY DEF Next, CoordinatorNext, PartitionerStep, vars, coordVars, ReceiveLine, ReceiveEof, EndReceive,
           PollEndedNode, PollStillSolving, PollSat, PollUnsat, PollGivenUp, EndPoll, RunTask, EndRun,
           SplitOff, WriteLine, NextPass, RoundDone
<1> QED
    BY <1>1 DEF Covered

(* The marks of the process: node_solved_unsat of a covered node.          *)
LEMMA SolvedCovered ==
    ASSUME NEW st, NEW H, NEW n \in Nodes, Covered(H, n),
           \A m \in Nodes : st[m] = "unsat" => Covered(H, m)
    PROVE  \A m \in SolvedUnsat(st, n) : m \in Nodes /\ Covered(H, m)
<1>1. ASSUME NEW a \in PushedUp(st, n) PROVE a \in Nodes /\ Covered(H, a)
    <2>1. a \in Above(n) /\ \A b \in Above(n) : a \in Up[b] =>
            \A k \in Kids[b] \ Up[n] : st[k] = "unsat"
        BY <1>1 DEF PushedUp
    <2>2. \A b \in Above(n) : a \in Up[b] => \A k \in Kids[b] \ Up[n] : Covered(H, k)
        BY <2>1, SpaceShape, AboveNodes
    <2> QED
        BY <2>1, <2>2, AboveNodes, CoveredAbove
<1>2. ASSUME NEW d \in PushedDown(st, n) PROVE d \in Nodes /\ Covered(H, d)
    BY <1>2, CoveredBelow DEF PushedDown, Below, Above
<1> QED
    BY <1>1, <1>2 DEF SolvedUnsat

(* The marks of the coordinator.                                           *)
LEMMA MarksCovered ==
    ASSUME NEW st, NEW H, NEW n \in Nodes, Covered(H, n),
           \A m \in Nodes : st[m] = "unsat" => Covered(H, m),
           NEW ch, \A p \in Nodes : /\ ch[p] \in Seq(Kids[p])
                                    /\ \A i, j \in DOMAIN ch[p] : i # j => ch[p][i] # ch[p][j]
    PROVE  \A m \in SolvedMarks(st, ch, n) : m \in Nodes /\ Covered(H, m)
<1>1. ASSUME NEW a \in MarkedUp(st, ch, n) PROVE a \in Nodes /\ Covered(H, a)
    <2>1. a \in Above(n) /\ \A b \in Above(n) : a \in Up[b] =>
            Len(ch[b]) = 2 /\ \A k \in Elements(ch[b]) \ Up[n] : st[k] = "unsat"
        BY <1>1 DEF MarkedUp
    <2>2. ASSUME NEW b \in Above(n), a \in Up[b], NEW k \in Kids[b] \ Up[n] PROVE Covered(H, k)
        <3>1. b \in Nodes /\ k \in Nodes
            BY <2>2, AboveNodes, SpaceShape
        <3>2. Elements(ch[b]) = Kids[b]
            BY <2>1, <2>2, <3>1, BothChildren
        <3> QED
            BY <2>1, <2>2, <3>1, <3>2
    <2> QED
        BY <2>1, <2>2, AboveNodes, CoveredAbove
<1>2. ASSUME NEW d \in MarkedDown(st, n) PROVE d \in Nodes /\ Covered(H, d)
    BY <1>2, CoveredBelow DEF MarkedDown, Below, Above
<1> QED
    BY <1>1, <1>2 DEF SolvedMarks

(* ... and what they make of the status and the result of the tree.        *)
LEMMA TreeCovers ==
    ASSUME SoundInv, NEW st \in [Nodes -> Statuses], NEW ch, NEW alive, NEW n \in Nodes,
           NEW H, Covered(H, n), NodeSolvedUnsat(st, ch, alive, n),
           \A m \in Nodes : st[m] = "unsat" => Covered(H, m),
           status[Root] = "unsat" => Covered(H, Root),
           \A p \in Nodes : /\ ch[p] \in Seq(Kids[p])
                            /\ \A i, j \in DOMAIN ch[p] : i # j => ch[p][i] # ch[p][j]
    PROVE  /\ \A m \in Nodes : status'[m] = "unsat" => Covered(H, m)
           /\ treeResult' = treeResult \/ (treeResult' = "unsat" /\ Covered(H, Root))
<1> DEFINE marks == SolvedMarks(st, ch, n)
<1>1. \A m \in marks : m \in Nodes /\ Covered(H, m)
    BY MarksCovered
<1>2. /\ status' = [m \in Nodes |-> IF m \in marks THEN "unsat" ELSE st[m]]
      /\ treeResult' = ResultAfter(marks)
    BY DEF NodeSolvedUnsat, MarkUnsat
<1> HIDE DEF marks
<1> QED
    BY <1>1, <1>2 DEF ResultAfter

-----------------------------------------------------------------------------
(* The tree.                                                               *)

(* Only covered nodes are marked in the tree, and its result is right.     *)
LEMMA MarkedStep ==
    ASSUME SoundInv, [Next]_vars
    PROVE  MarkedCovered' /\ TreeRight'
<1>0. RoundInv /\ status \in [Nodes -> Statuses] /\ treeResult \in Results
    BY DEF SoundInv, RoundInv, DataTypes, TreeTypeOK
<1>h. \A n : Covered(handed, n) => Covered(handed', n)
    BY HandedGrows
<1>m. \A n \in Nodes : status[n] = "unsat" => Covered(handed, n) /\ Covered(handed', n)
    BY <1>h DEF SoundInv, MarkedCovered
<1>t. /\ treeResult = "sat" => Root \in Sat
      /\ treeResult = "unsat" => Covered(handed', Root)
    BY <1>h DEF SoundInv, TreeRight
<1>r. Root \in Nodes
    BY SpaceShape
(* The conclusion from a call of node_solved_unsat.                        *)
<1>1. ASSUME \A m \in Nodes : status'[m] = "unsat" => Covered(handed', m),
             treeResult' = treeResult \/ (treeResult' = "unsat" /\ Covered(handed', Root))
      PROVE  MarkedCovered' /\ TreeRight'
    BY <1>1, <1>t DEF MarkedCovered, TreeRight
<1>2. CASE UNCHANGED <<status, treeResult>>
    BY <1>1, <1>2, <1>m
<1>3. CASE ReceiveLine
    <2>0. toCoord # <<>>
        BY <1>3 DEF ReceiveLine
    <2> DEFINE l == Head(toCoord)
    <2>1. CASE ReceiveVerdict(l)
        BY <1>2, <2>1 DEF ReceiveVerdict, treeVars
    <2>2. ASSUME l.op # "verdict", NodeSolvedUnsat(status, ChildrenWith(l.node), running, l.node),
                 children' = ChildrenWith(l.node), Covered(handed, l.node)
          PROVE  MarkedCovered' /\ TreeRight'
        <3>1. l.node \in Nodes
            BY <1>0, <2>0, <2>2, NextLine
        <3>2. \A p \in Nodes : /\ children'[p] \in Seq(Kids[p])
                               /\ \A i, j \in DOMAIN children'[p] : i # j => children'[p][i] # children'[p][j]
            BY <1>0, ChildrenStep DEF ChildrenMade
        <3>3. /\ \A m \in Nodes : status'[m] = "unsat" => Covered(handed', m)
              /\ treeResult' = treeResult \/ (treeResult' = "unsat" /\ Covered(handed', Root))
            BY <1>0, <1>h, <1>m, <1>r, <2>2, <3>1, <3>2, TreeCovers
        <3> QED
            BY <1>1, <3>3
    <2>3. CASE ReceiveNewUnsatNode(l)
        <3>1. toCoord \in Seq(Lines) /\ l = toCoord[1] /\ 1 \in 1 .. Len(toCoord)
            BY <1>0, <2>0 DEF RoundInv, DataTypes, PartitionerTypeOK
        <3>2. l.op = "new_unsat_node" /\ l.op # "verdict"
            BY <2>3 DEF ReceiveNewUnsatNode
        <3>3. nodeState[l.node] = "unsat"
            BY <1>0, <3>1, <3>2 DEF RoundInv, G!OrderInv, G!IndInv, G!AnnouncedState
        <3>4. l.node \in Nodes
            BY <1>0, <2>0, <3>2, NextLine
        <3>5. Covered(handed, l.node)
            BY <3>3, <3>4 DEF SoundInv, RefutedCovered
        <3> QED
            BY <2>2, <2>3, <3>2, <3>5 DEF ReceiveNewUnsatNode
    <2>4. CASE ReceiveNewUnknownNode(l)
        <3>0. l.op # "verdict"
            BY <2>4 DEF ReceiveNewUnknownNode
        <3>1. l.node \in Nodes /\ l.node \notin Made
            BY <1>0, <2>0, <3>0, NextLine
        <3>2. CASE /\ \E p \in ParentOf(l.node) : status[p] = "unsat"
                   /\ NodeSolvedUnsat(status, ChildrenWith(l.node), running, l.node)
            <4>1. PICK p \in Nodes : l.node \in Kids[p] /\ status[p] = "unsat"
                BY <3>2 DEF ParentOf
            <4>2. p \in Up[l.node]
                BY <4>1, SpaceShape, SelfUp
            <4>3. Covered(handed, l.node)
                BY <1>m, <3>1, <4>1, <4>2, CoveredBelow
            <4> QED
                BY <2>2, <2>4, <3>0, <3>2, <4>3 DEF ReceiveNewUnknownNode
        <3>3. CASE status' = [status EXCEPT ![l.node] = "unsolved"] /\ UNCHANGED treeResult
            BY <1>0, <1>1, <1>m, <3>1, <3>3
        <3> QED
            BY <2>4, <3>2, <3>3 DEF ReceiveNewUnknownNode
    <2> QED
        BY <1>3, <2>1, <2>3, <2>4 DEF ReceiveLine
<1>4. ASSUME NEW n \in Nodes, PollSat(n) PROVE MarkedCovered' /\ TreeRight'
    <2>1. /\ status' = [status EXCEPT ![n] = "sat"] /\ treeResult' = "sat" /\ n \in Sat
        BY <1>4 DEF PollSat
    <2>2. Root \in Sat
        BY <2>1, Paths, SpaceTruth
    <2>3. \A m \in Nodes : status'[m] = "unsat" => status[m] = "unsat"
        BY <1>0, <2>1
    <2> QED
        BY <1>m, <2>1, <2>2, <2>3 DEF MarkedCovered, TreeRight
<1>5. ASSUME NEW n \in Nodes, PollGivenUp(n) PROVE MarkedCovered' /\ TreeRight'
    <2>1. status' = [status EXCEPT ![n] = "terminated"] /\ UNCHANGED treeResult
        BY <1>5 DEF PollGivenUp
    <2>2. \A m \in Nodes : status'[m] = "unsat" => status[m] = "unsat"
        BY <1>0, <2>1
    <2> QED
        BY <1>1, <1>m, <2>1, <2>2
<1>6. ASSUME NEW n \in Nodes, PollUnsat(n) PROVE MarkedCovered' /\ TreeRight'
    <2>1. n \notin Sat /\ NodeSolvedUnsat(status, children, running \ {n}, n)
        BY <1>6 DEF PollUnsat
    <2>2. Covered(handed', n)
        BY <2>1, CoveredUnsat
    <2>3. /\ \A m \in Nodes : status'[m] = "unsat" => Covered(handed', m)
          /\ treeResult' = treeResult \/ (treeResult' = "unsat" /\ Covered(handed', Root))
        BY <1>0, <1>m, <1>r, <2>1, <2>2, ChildrenOf, TreeCovers
    <2> QED
        BY <1>1, <2>3
<1>7. CASE RunTask
    <2>1. PICK i \in NextWaiting : status' = [status EXCEPT ![waitings[i]] = "solving"]
        BY <1>7 DEF RunTask
    <2>2. (\A m \in Nodes : status'[m] = "unsat" => status[m] = "unsat") /\ UNCHANGED treeResult
        BY <1>0, <1>7, <2>1 DEF RunTask
    <2> QED
        BY <1>1, <1>m, <2>2
<1>8. ASSUME NEW n \in Nodes, SplitOff(n) PROVE MarkedCovered' /\ TreeRight'
    <2> DEFINE open == {a \in Up[n] : ~ IsEnded(status, a)}
               st == [m \in Nodes |-> IF m \in open THEN "terminated" ELSE status[m]]
    <2>1. NodeSolvedUnsat(st, children, running \ open, n) /\ n \in handed'
        BY <1>8 DEF SplitOff
    <2>2. Covered(handed', n)
        BY <2>1 DEF Covered
    <2>3. st \in [Nodes -> Statuses] /\ \A m \in Nodes : st[m] = "unsat" => status[m] = "unsat"
        BY <1>0 DEF Statuses
    <2> HIDE DEF st
    <2>4. /\ \A m \in Nodes : status'[m] = "unsat" => Covered(handed', m)
          /\ treeResult' = treeResult \/ (treeResult' = "unsat" /\ Covered(handed', Root))
        BY <1>0, <1>m, <1>r, <2>1, <2>2, <2>3, ChildrenOf, TreeCovers
    <2> QED
        BY <1>1, <2>4
<1> QED
    <2>1. CASE ReceiveEof \/ EndReceive \/ EndPoll \/ EndRun \/ WriteLine \/ NextPass \/ RoundDone
        BY <1>2, <2>1 DEF ReceiveEof, EndReceive, EndPoll, EndRun, WriteLine, NextPass, RoundDone, treeVars
    <2>2. CASE \E n \in Nodes : PollEndedNode(n) \/ PollStillSolving(n)
        BY <1>2, <2>2 DEF PollEndedNode, PollStillSolving, treeVars
    <2>3. CASE UNCHANGED coordVars
        BY <1>2, <2>3 DEF coordVars, treeVars
    <2> QED
        BY <1>3, <1>4, <1>5, <1>6, <1>7, <1>8, <2>1, <2>2, <2>3 DEF Next, CoordinatorNext, PartitionerStep, vars

-----------------------------------------------------------------------------
(* The process.                                                            *)

(* Only covered nodes are UNSAT in the process.                            *)
LEMMA RefutedStep ==
    ASSUME SoundInv, [Next]_vars
    PROVE  RefutedCovered'
<1>0. RoundInv /\ nodeState \in [Nodes -> States] /\ fromCoord \in Seq(Commands)
    BY DEF SoundInv, RoundInv, DataTypes, PartitionerTypeOK
<1>n. \A n \in Nodes : nodeState[n] = "unsat" => Covered(handed, n)
    BY DEF SoundInv, RefutedCovered
<1>1. CASE UNCHANGED nodeState
    BY <1>1, <1>n, HandedGrows DEF RefutedCovered
<1>2. SUFFICES ASSUME PartitionerStep
               PROVE  \A n \in Nodes : nodeState'[n] = "unsat" => Covered(handed, n)
    <2>1. CASE PartitionerStep
        <3>1. UNCHANGED handed
            BY <2>1 DEF PartitionerStep, coordVars
        <3> QED
            BY <1>2, <2>1, <3>1 DEF RefutedCovered
    <2>2. CASE ~ PartitionerStep
        <3>1. UNCHANGED nodeState
            BY <2>2 DEF Next, CoordinatorNext, vars, partitionerVars, ReceiveLine, ReceiveEof, EndReceive,
                   PollEndedNode, PollStillSolving, PollSat, PollUnsat, PollGivenUp, EndPoll, RunTask, EndRun,
                   SplitOff, WriteLine, NextPass, RoundDone, Send
        <3> QED
            BY <1>1, <3>1
    <2> QED
        BY <2>1, <2>2
<1>3. CASE ParseLine
    <2> DEFINE n == Head(fromCoord).node
    <2>1. /\ fromCoord # <<>> /\ Head(fromCoord) = fromCoord[1] /\ 1 \in DOMAIN fromCoord
          /\ fromCoord[1] \in Commands
        BY <1>0, <1>3 DEF ParseLine
    <2>2. n \in Nodes
        BY <2>1 DEF Commands
    <2>3. CASE Head(fromCoord).op = "unsat_node" /\ ReadUnsatNode(n)
        <3>1. Covered(handed, n)
            BY <2>1, <2>3 DEF SoundInv, CommandsCovered, CoveredLines
        <3>2. \A m \in SolvedUnsat(nodeState, n) : Covered(handed, m)
            BY <1>n, <2>2, <3>1, SolvedCovered
        <3>3. nodeState' = [m \in Nodes |-> IF m \in SolvedUnsat(nodeState, n) THEN "unsat" ELSE nodeState[m]]
            BY <2>3 DEF ReadUnsatNode
        <3> QED
            BY <1>n, <3>2, <3>3
    <2>4. CASE ReadTerminateNode(n)
        BY <1>0, <1>n, <2>2, <2>4 DEF ReadTerminateNode
    <2> QED
        BY <1>3, <2>3, <2>4 DEF ParseLine
<1>4. ASSUME NEW n \in Nodes, SkipNode(n)
      PROVE  \A m \in Nodes : nodeState'[m] = "unsat" => Covered(handed, m)
    <2>1. CASE UNCHANGED nodeState
        BY <1>n, <2>1
    <2>2. CASE /\ \E p \in ParentOf(n) : nodeState[p] = "unsat"
               /\ nodeState' = [nodeState EXCEPT ![n] = "unsat"]
        <3>1. PICK p \in Nodes : n \in Kids[p] /\ nodeState[p] = "unsat"
            BY <2>2 DEF ParentOf
        <3>2. p \in Up[n]
            BY <3>1, SpaceShape, SelfUp
        <3>3. Covered(handed, n)
            BY <1>n, <3>1, <3>2, CoveredBelow
        <3> QED
            BY <1>0, <1>n, <2>2, <3>3
    <2> QED
        BY <1>4, <2>1, <2>2 DEF SkipNode
<1>5. ASSUME NEW n \in Nodes, RefuteNode(n)
      PROVE  \A m \in Nodes : nodeState'[m] = "unsat" => Covered(handed, m)
    <2>1. n \notin Sat /\ nodeState' = [nodeState EXCEPT ![n] = "unsat"]
        BY <1>5, RefutableSound DEF RefuteNode
    <2>2. Covered(handed, n)
        BY <2>1, CoveredUnsat
    <2> QED
        BY <1>0, <1>n, <2>1, <2>2
<1>6. CASE Announce
    <2>1. PICK dead \in SUBSET (Kids[ptask] \cap Refutable) :
            nodeState' = [m \in Nodes |-> CASE m = ptask -> "waiting"
                                             [] m \in Born(dead) -> "unconverted"
                                             [] m \in dead -> "unsat"
                                             [] OTHER -> nodeState[m]]
        BY <1>6 DEF Announce
    <2>2. \A m \in Nodes : nodeState'[m] = "unsat" => m \in dead \/ nodeState[m] = "unsat"
        BY <2>1
    <2>3. \A m \in dead : m \in Nodes \ Sat
        BY RefutableSound
    <2> QED
        BY <1>n, <2>2, <2>3, CoveredUnsat
<1>7. CASE StartSelect \/ Finish \/ \E n \in Nodes : BuildTask(n)
    BY <1>n, <1>7 DEF StartSelect, Finish, BuildTask
<1> QED
    BY <1>2, <1>3, <1>4, <1>5, <1>6, <1>7 DEF PartitionerStep, PartitionerNext

(* A command to solve a node repeats a mark of the tree.                   *)
LEMMA CommandsStep ==
    ASSUME SoundInv, [Next]_vars
    PROVE  CommandsCovered'
<1>0. /\ RoundInv /\ fromCoord \in Seq(Commands) /\ outbox \in Seq(Commands)
      /\ status \in [Nodes -> Statuses]
    BY DEF SoundInv, RoundInv, DataTypes, TreeTypeOK, PartitionerTypeOK
<1>h. \A n : Covered(handed, n) => Covered(handed', n)
    BY HandedGrows
<1>c. /\ \A i \in DOMAIN fromCoord : fromCoord[i].op = "unsat_node" => Covered(handed', fromCoord[i].node)
      /\ \A i \in DOMAIN outbox : outbox[i].op = "unsat_node" => Covered(handed', outbox[i].node)
    BY <1>h DEF SoundInv, CommandsCovered, CoveredLines
<1>1. CASE UNCHANGED <<fromCoord, outbox>>
    BY <1>1, <1>c DEF CommandsCovered, CoveredLines
(* One more line in the pipe.                                              *)
<1>2. ASSUME NEW line \in Commands, line.op = "unsat_node" => Covered(handed', line.node),
             fromCoord' = fromCoord \/ fromCoord' = Append(fromCoord, line)
      PROVE  CoveredLines(fromCoord)'
    <2>1. CASE fromCoord' = fromCoord
        BY <1>c, <2>1 DEF CoveredLines
    <2>2. CASE fromCoord' = Append(fromCoord, line)
        <3> DEFINE q == Append(fromCoord, line)
        <3>1. \A i \in DOMAIN q : (i \in DOMAIN fromCoord /\ q[i] = fromCoord[i]) \/ q[i] = line
            BY <1>0, <1>2
        <3> HIDE DEF q
        <3>2. \A i \in DOMAIN q : q[i].op = "unsat_node" => Covered(handed', q[i].node)
            BY <1>2, <1>c, <3>1
        <3> QED
            BY <2>2, <3>2 DEF CoveredLines, q
    <2> QED
        BY <1>2, <2>1, <2>2
<1>3. ASSUME NEW n \in Nodes, PollUnsat(n) \/ PollGivenUp(n) PROVE CommandsCovered'
    <2>1. UNCHANGED outbox
        BY <1>3 DEF PollUnsat, PollGivenUp
    <2>2. CASE PollUnsat(n)
        <3>1. n \notin Sat /\ (Send(Ended("unsat_node", n)) \/ UNCHANGED partitionerVars)
            BY <2>2 DEF PollUnsat
        <3>2. Ended("unsat_node", n) \in Commands /\ Ended("unsat_node", n).node = n
            BY DEF Ended, Commands
        <3>3. fromCoord' = fromCoord \/ fromCoord' = Append(fromCoord, Ended("unsat_node", n))
            BY <3>1 DEF Send, partitionerVars
        <3>4. Covered(handed', n)
            BY <3>1, CoveredUnsat
        <3>5. CoveredLines(fromCoord)'
            BY <1>2, <3>2, <3>3, <3>4
        <3> QED
            BY <1>c, <2>1, <3>5 DEF CommandsCovered, CoveredLines
    <2>3. CASE PollGivenUp(n)
        <3>1. Send(Ended("terminate_node", n))
            BY <2>3 DEF PollGivenUp
        <3>2. Ended("terminate_node", n) \in Commands /\ Ended("terminate_node", n).op # "unsat_node"
            BY DEF Ended, Commands
        <3>3. fromCoord' = fromCoord \/ fromCoord' = Append(fromCoord, Ended("terminate_node", n))
            BY <3>1 DEF Send
        <3>4. CoveredLines(fromCoord)'
            BY <1>2, <3>2, <3>3
        <3> QED
            BY <1>c, <2>1, <3>4 DEF CommandsCovered, CoveredLines
    <2> QED
        BY <1>3, <2>2, <2>3
<1>4. CASE WriteLine
    <2>1. outbox # <<>> /\ Send(Head(outbox)) /\ outbox' = Tail(outbox)
        BY <1>4 DEF WriteLine
    <2>2. Head(outbox) = outbox[1] /\ 1 \in DOMAIN outbox /\ Head(outbox) \in Commands
        BY <1>0, <2>1
    <2>3. CoveredLines(fromCoord)'
        BY <1>2, <1>c, <2>1, <2>2 DEF Send
    <2>4. \A i \in DOMAIN outbox' : i + 1 \in DOMAIN outbox /\ outbox'[i] = outbox[i + 1]
        BY <1>0, <2>1
    <2>5. CoveredLines(outbox)'
        BY <1>c, <2>4 DEF CoveredLines
    <2> QED
        BY <2>3, <2>5 DEF CommandsCovered
<1>5. ASSUME NEW n \in Nodes, SplitOff(n) PROVE CommandsCovered'
    <2> DEFINE open == {a \in Up[n] : ~ IsEnded(status, a)}
               k == Cardinality(open)
    <2>1. Covered(handed', n)
        BY <1>5 DEF SplitOff, Covered
    <2>2. k \in Nat
        BY SpaceShape, FS_Subset, FS_CardinalityType
    <2>3. PICK path \in [1 .. k -> open] :
            outbox' = Append([i \in DOMAIN path |-> Ended("terminate_node", path[i])], Ended("unsat_node", n))
        BY <1>5 DEF SplitOff
    <2>4. open \subseteq Nodes
        BY SpaceShape
    <2> HIDE DEF open, k
    <2> DEFINE s == [i \in 1 .. k |-> Ended("terminate_node", path[i])]
    <2>5. s \in Seq(Commands) /\ \A i \in DOMAIN s : s[i].op # "unsat_node"
        BY <2>2, <2>3, <2>4 DEF Ended, Commands
    <2>6. Ended("unsat_node", n) \in Commands /\ Ended("unsat_node", n).node = n
        BY DEF Ended, Commands
    <2>7. outbox' = Append(s, Ended("unsat_node", n))
        BY <2>3
    <2> HIDE DEF s
    <2>8. \A i \in DOMAIN outbox' : outbox'[i].op = "unsat_node" => Covered(handed', outbox'[i].node)
        BY <2>1, <2>5, <2>6, <2>7
    <2>9. UNCHANGED fromCoord
        BY <1>5 DEF SplitOff, partitionerVars
    <2> QED
        BY <1>c, <2>8, <2>9 DEF CommandsCovered, CoveredLines
<1>6. CASE PartitionerStep
    <2>1. UNCHANGED outbox /\ PartitionerNext
        BY <1>6 DEF PartitionerStep, coordVars
    <2>2. CASE ParseLine
        <3>1. fromCoord # <<>> /\ fromCoord' = Tail(fromCoord)
            BY <2>2 DEF ParseLine
        <3>2. \A i \in DOMAIN fromCoord' : i + 1 \in DOMAIN fromCoord /\ fromCoord'[i] = fromCoord[i + 1]
            BY <1>0, <3>1
        <3> QED
            BY <1>c, <2>1, <3>2 DEF CommandsCovered, CoveredLines
    <2>3. CASE ~ ParseLine
        <3>1. UNCHANGED fromCoord
            BY <2>1, <2>3 DEF PartitionerNext, StartSelect, SkipNode, RefuteNode, BuildTask, Finish, Announce
        <3> QED
            BY <1>1, <2>1, <3>1
    <2> QED
        BY <2>2, <2>3
<1> QED
    <2>1. CASE ReceiveLine \/ ReceiveEof \/ EndReceive \/ EndPoll \/ RunTask \/ EndRun \/ NextPass \/ RoundDone
        BY <1>1, <2>1 DEF ReceiveLine, ReceiveEof, EndReceive, EndPoll, RunTask, EndRun, NextPass, RoundDone,
                          partitionerVars
    <2>2. CASE \E n \in Nodes : PollEndedNode(n) \/ PollStillSolving(n) \/ PollSat(n)
        BY <1>1, <2>2 DEF PollEndedNode, PollStillSolving, PollSat, partitionerVars
    <2>3. CASE UNCHANGED vars
        BY <1>1, <2>3 DEF vars, partitionerVars, coordVars
    <2> QED
        BY <1>3, <1>4, <1>5, <1>6, <2>1, <2>2, <2>3 DEF Next, CoordinatorNext

-----------------------------------------------------------------------------
(* The end of the process.                                                 *)

(* The process does nothing after its verdict.                             *)
LEMMA DoneStays ==
    ASSUME [Next]_vars, phase = "done"
    PROVE  phase' = "done" /\ UNCHANGED nodeState
<1>1. CASE PartitionerStep
    BY <1>1 DEF PartitionerStep, PartitionerNext, ParseLine, StartSelect, SkipNode, RefuteNode, BuildTask,
                Convertible, Finish, Announce
<1>2. CASE ~ PartitionerStep
    BY <1>2 DEF Next, CoordinatorNext, vars, partitionerVars, ReceiveLine, ReceiveEof, EndReceive,
           PollEndedNode, PollStillSolving, PollSat, PollUnsat, PollGivenUp, EndPoll, RunTask, EndRun,
           SplitOff, WriteLine, NextPass, RoundDone, Send
<1> QED
    BY <1>1, <1>2

(* So a result stays justified.                                            *)
LEMMA RightStays ==
    ASSUME [Next]_vars, NEW r, Right(r)
    PROVE  /\ r = "sat" => Root \in Sat
           /\ r = "unsat" => (phase' = "done" /\ LeafLost') \/ Covered(handed', Root)
BY DoneStays, HandedGrows DEF Right, LeafLost

(* The step of the process, seen from the general specification.           *)
LEMMA ProcessMoves ==
    ASSUME RoundInv, [Next]_vars
    PROVE  \A n \in Nodes : nodeState[n] # "none" => nodeState'[n] # "none"
<1>1. [G!Next]_G!vars
    BY RefineStep
<1>2. \A n \in Nodes : G!Moves(n)
    BY <1>1, G!MovesStep, InstanceFacts, SpaceShape, SpaceTruth, MaxRunningType, RefutableSound, NoTaskFresh
       DEF RoundInv, G!OrderInv
<1> QED
    BY <1>2 DEF G!Moves

(* The heap and the pending task keep what is still to be looked at.       *)
LEMMA FrontierStep ==
    ASSUME SoundInv, [Next]_vars
    PROVE  Frontier'
<1>0. RoundInv /\ nodeState \in [Nodes -> States] /\ fromCoord \in Seq(Commands)
    BY DEF SoundInv, RoundInv, DataTypes, PartitionerTypeOK
<1> SUFFICES ASSUME phase' # "done"
             PROVE  /\ nodeState'[Root] # "none"
                    /\ \A n \in Nodes : nodeState'[n] = "unconverted" =>
                          n \in leafHeap' \/ (phase' = "announce" /\ n = ptask')
                    /\ \A n \in Nodes : nodeState'[n] \in {"waiting", "terminated"} =>
                          \A k \in Kids[n] : nodeState'[k] # "none"
    BY DEF Frontier
<1>1. phase # "done"
    BY DoneStays
<1>2. /\ nodeState[Root] # "none"
      /\ \A n \in Nodes : nodeState[n] = "unconverted" =>
            n \in leafHeap \/ (phase = "announce" /\ n = ptask)
      /\ \A n \in Nodes : nodeState[n] \in {"waiting", "terminated"} =>
            \A k \in Kids[n] : nodeState[k] # "none"
    BY <1>1 DEF SoundInv, Frontier
<1>3. nodeState'[Root] # "none" /\ \A n \in Nodes : nodeState[n] # "none" => nodeState'[n] # "none"
    BY <1>0, <1>2, ProcessMoves, SpaceShape
(* Enough: no node becomes a task or unconverted but by an announcement.   *)
<1>4. ASSUME \A n \in Nodes : nodeState'[n] \in {"waiting", "terminated"} => nodeState[n] \in {"waiting", "terminated"},
             \A n \in Nodes : nodeState'[n] = "unconverted" =>
                 n \in leafHeap' \/ (phase' = "announce" /\ n = ptask')
      PROVE  /\ nodeState'[Root] # "none"
             /\ \A n \in Nodes : nodeState'[n] = "unconverted" =>
                   n \in leafHeap' \/ (phase' = "announce" /\ n = ptask')
             /\ \A n \in Nodes : nodeState'[n] \in {"waiting", "terminated"} =>
                   \A k \in Kids[n] : nodeState'[k] # "none"
    <2>1. ASSUME NEW n \in Nodes, nodeState'[n] \in {"waiting", "terminated"}, NEW k \in Kids[n]
          PROVE  nodeState'[k] # "none"
        BY <1>2, <1>3, <1>4, <2>1, SpaceShape
    <2> QED
        BY <1>3, <1>4, <2>1
<1>5. CASE UNCHANGED <<nodeState, leafHeap, phase, ptask>>
    BY <1>2, <1>4, <1>5
<1>6. CASE ParseLine
    <2> DEFINE n == Head(fromCoord).node
    <2>0. UNCHANGED <<leafHeap, phase, ptask>>
        BY <1>6 DEF ParseLine
    <2>1. CASE ReadUnsatNode(n)
        <3>1. \A m \in Nodes : nodeState'[m] # "unsat" => nodeState'[m] = nodeState[m]
            BY <2>1 DEF ReadUnsatNode
        <3> QED
            BY <1>2, <1>4, <2>0, <3>1
    <2>2. CASE ReadTerminateNode(n)
        <3>1. \A m \in Nodes : nodeState'[m] = nodeState[m] \/ (nodeState[m] = "waiting" /\ nodeState'[m] = "terminated")
            BY <1>0, <2>2 DEF ReadTerminateNode
        <3> QED
            BY <1>2, <1>4, <2>0, <3>1
    <2> QED
        BY <1>6, <2>1, <2>2 DEF ParseLine
<1>7. CASE StartSelect
    BY <1>2, <1>4, <1>7 DEF StartSelect
<1>8. ASSUME NEW n \in Nodes, SkipNode(n) \/ RefuteNode(n)
      PROVE  /\ nodeState'[Root] # "none"
             /\ \A m \in Nodes : nodeState'[m] = "unconverted" =>
                   m \in leafHeap' \/ (phase' = "announce" /\ m = ptask')
             /\ \A m \in Nodes : nodeState'[m] \in {"waiting", "terminated"} =>
                   \A k \in Kids[m] : nodeState'[k] # "none"
    <2>1. /\ phase = "select" /\ leafHeap' = leafHeap \ {n} /\ nodeState'[n] # "unconverted"
          /\ nodeState' = nodeState \/ nodeState' = [nodeState EXCEPT ![n] = "unsat"]
        BY <1>0, <1>8 DEF SkipNode, RefuteNode, Convertible
    <2>2. \A m \in Nodes : nodeState'[m] # "unsat" => nodeState'[m] = nodeState[m]
        BY <1>0, <2>1
    <2>3. \A m \in Nodes : nodeState'[m] = "unconverted" => m \in leafHeap'
        BY <1>2, <2>1, <2>2
    <2> QED
        BY <1>4, <2>2, <2>3
<1>9. ASSUME NEW n \in Nodes, BuildTask(n)
      PROVE  /\ nodeState'[Root] # "none"
             /\ \A m \in Nodes : nodeState'[m] = "unconverted" =>
                   m \in leafHeap' \/ (phase' = "announce" /\ m = ptask')
             /\ \A m \in Nodes : nodeState'[m] \in {"waiting", "terminated"} =>
                   \A k \in Kids[m] : nodeState'[k] # "none"
    <2>1. /\ phase = "select" /\ leafHeap' = leafHeap \ {n} /\ UNCHANGED nodeState
          /\ phase' = "announce" /\ ptask' = n
        BY <1>9 DEF BuildTask, Convertible
    <2>2. \A m \in Nodes : nodeState'[m] = "unconverted" =>
            m \in leafHeap' \/ (phase' = "announce" /\ m = ptask')
        BY <1>2, <2>1
    <2> QED
        BY <1>4, <2>1, <2>2
<1>10. CASE Announce
    <2>1. PICK dead \in SUBSET (Kids[ptask] \cap Refutable) :
            /\ nodeState' = [m \in Nodes |-> CASE m = ptask -> "waiting"
                                                [] m \in Born(dead) -> "unconverted"
                                                [] m \in dead -> "unsat"
                                                [] OTHER -> nodeState[m]]
            /\ leafHeap' = leafHeap \cup Born(dead)
        BY <1>10 DEF Announce
    <2>2. phase = "announce" /\ ptask \in Nodes
        BY <1>0, <1>10 DEF Announce, RoundInv, G!OrderInv, G!IndInv, G!Pending
    <2>3. ASSUME NEW m \in Nodes
          PROVE  /\ nodeState'[m] = "unconverted" => m \in leafHeap' \/ (phase' = "announce" /\ m = ptask')
                 /\ nodeState'[m] \in {"waiting", "terminated"} => m = ptask \/ nodeState[m] \in {"waiting", "terminated"}
        BY <1>2, <2>1
    <2>4. \A k \in Kids[ptask] : nodeState'[k] # "none"
        BY <2>1, <2>2, SpaceShape DEF Born
    <2>5. ASSUME NEW m \in Nodes, nodeState'[m] \in {"waiting", "terminated"}, NEW k \in Kids[m]
          PROVE  nodeState'[k] # "none"
        BY <1>2, <1>3, <2>3, <2>4, <2>5, SpaceShape
    <2> QED
        BY <1>3, <2>3, <2>5
<1> QED
    <2>1. CASE PartitionerStep
        <3>1. ~ Finish
            BY DEF Finish
        <3> QED
            BY <1>6, <1>7, <1>8, <1>9, <1>10, <2>1, <3>1 DEF PartitionerStep, PartitionerNext
    <2>2. CASE ~ PartitionerStep
        <3>1. UNCHANGED <<nodeState, leafHeap, phase, ptask>>
            BY <2>2 DEF Next, CoordinatorNext, vars, partitionerVars, ReceiveLine, ReceiveEof, EndReceive,
                   PollEndedNode, PollStillSolving, PollSat, PollUnsat, PollGivenUp, EndPoll, RunTask, EndRun,
                   SplitOff, WriteLine, NextPass, RoundDone, Send
        <3> QED
            BY <1>5, <3>1
    <2> QED
        BY <2>1, <2>2

(* The heap is empty and no task alive: on the way to a satisfiable leaf   *)
(* that was not handed over the deepest node made is the leaf, given up.   *)
LEMMA FinishSound ==
    ASSUME SoundInv, phase = "select", leafHeap = {}, ~ (aliveTasks > 0)
    PROVE  LeafLost \/ Covered(handed, Root)
<1> SUFFICES ASSUME NEW l \in Leaves \cap Sat, Up[l] \cap handed = {}
             PROVE  LeafLost
    BY DEF Covered
<1>1. l \in Nodes /\ Kids[l] = {}
    BY DEF Leaves
<1>2. \A a \in Up[l] : a \in Nodes /\ nodeState[a] # "unsat"
    BY <1>1, AboveNodes DEF SoundInv, RefutedCovered, Covered
<1> DEFINE T == {a \in Up[l] : nodeState[a] # "none"}
<1>3. Root \in T /\ T \subseteq Nodes
    BY <1>1, <1>2, Paths DEF SoundInv, Frontier
<1>4. PICK b \in T : \A x \in T : Depth(x) <= Depth(b)
    BY <1>3, Deepest
<1>5. nodeState[b] \in {"unconverted", "waiting", "terminated"}
    BY <1>2, <1>4 DEF SoundInv, RoundInv, DataTypes, PartitionerTypeOK, States
<1>6. nodeState[b] # "unconverted"
    BY <1>2, <1>4 DEF SoundInv, Frontier
<1>7. nodeState[b] # "waiting"
    <2>1. SUFFICES ASSUME nodeState[b] = "waiting" PROVE FALSE
        OBVIOUS
    <2> DEFINE W == {n \in Nodes : nodeState[n] = "waiting"}
    <2>2. b \in W /\ IsFiniteSet(W)
        BY <1>3, <2>1, SpaceShape, FS_Subset
    <2>3. aliveTasks = Cardinality(W)
        BY SameSets DEF SoundInv, G!AliveCountsWaiting, G!InState
    <2>4. Cardinality(W) \in Nat /\ Cardinality(W) # 0
        BY <2>2, FS_EmptySet, FS_CardinalityType
    <2> QED
        BY <2>3, <2>4
<1>8. CASE b = l
    BY <1>1, <1>5, <1>6, <1>7, <1>8 DEF LeafLost
<1>9. CASE b # l
    <2>1. PICK k \in Kids[b] : k \in Up[l]
        BY <1>1, <1>4, <1>9, Paths DEF Above
    <2>2. b \in Nodes /\ k \in Nodes /\ Depth(k) = Depth(b) + 1 /\ Depth(b) \in Nat
        BY <1>3, <2>1, SpaceShape, Depths
    <2>3. nodeState[k] # "none"
        BY <1>5, <1>6, <2>1, <2>2 DEF SoundInv, Frontier
    <2> QED
        BY <1>4, <2>1, <2>2, <2>3
<1> QED
    BY <1>8, <1>9

-----------------------------------------------------------------------------
(* The verdict and the result.                                             *)

(* The process, counted by the general specification.                      *)
LEMMA CountStep ==
    ASSUME SoundInv, [Next]_vars
    PROVE  G!AliveCountsWaiting'
<1>1. [G!Next]_G!vars
    BY RefineStep DEF SoundInv
<1>2. G!IndInv /\ G!AliveCountsWaiting
    BY DEF SoundInv, RoundInv, G!OrderInv
<1> QED
    BY <1>1, <1>2, G!AliveStep, InstanceFacts, SpaceShape, SpaceTruth, MaxRunningType, RefutableSound, NoTaskFresh

(* The lines of an announcement are the old ones and no verdict.           *)
LEMMA AnnouncesNoVerdict ==
    ASSUME RoundInv, Announce
    PROVE  \A i \in DOMAIN toCoord' : toCoord'[i].op = "verdict" =>
              i \in DOMAIN toCoord /\ toCoord'[i] = toCoord[i]
<1>1. PICK dead \in SUBSET (Kids[ptask] \cap Refutable) : toCoord' = AnnouncedLines(dead)
    BY DEF Announce
<1>2. ptask \in Nodes /\ G!TypeOK
    BY DEF Announce, RoundInv, G!OrderInv, G!IndInv, G!Pending
<1>3. dead \subseteq Nodes
    BY RefutableSound
<1> DEFINE s == Append(toCoord, NewNode(ptask)) \o BornUnsatLines(dead)
<1>4. toCoord' = s
    BY <1>1 DEF AnnouncedLines
<1>5. G!BornUnsatLines(dead) = BornUnsatLines(dead) /\ G!NewNode(ptask) = NewNode(ptask)
    BY DEF BornUnsatLines, G!BornUnsatLines, NewUnsat, G!NewUnsat, NewNode, G!NewNode
<1>6. /\ s \in Seq(G!Lines)
      /\ \A i \in 1 .. Len(s) : \/ i \in 1 .. Len(toCoord) /\ s[i] = toCoord[i]
                                \/ s[i] = NewNode(ptask)
                                \/ s[i].op = "new_unsat_node" /\ s[i].node \in dead
    BY <1>2, <1>3, <1>5, G!AnnounceLines, InstanceFacts, SpaceShape, SpaceTruth, MaxRunningType,
       RefutableSound, NoTaskFresh
<1>7. NewNode(ptask).op = "new_unknown_node"
    BY DEF NewNode
<1>8. toCoord \in Seq(Lines)
    BY DEF RoundInv, DataTypes, PartitionerTypeOK
<1> HIDE DEF s
<1>9. DOMAIN s = 1 .. Len(s) /\ DOMAIN toCoord = 1 .. Len(toCoord)
    BY <1>6, <1>8
<1> QED
    BY <1>4, <1>6, <1>7, <1>9

(* A verdict of the process in the pipe is right and comes at its end.     *)
LEMMA VerdictsStep ==
    ASSUME SoundInv, [Next]_vars
    PROVE  VerdictsRight'
<1> DEFINE R(r) == /\ r = "sat" => Root \in Sat
                   /\ r = "unsat" => (phase' = "done" /\ LeafLost') \/ Covered(handed', Root)
<1>0. RoundInv /\ toCoord \in Seq(Lines)
    BY DEF SoundInv, RoundInv, DataTypes, PartitionerTypeOK
<1>1. \A i \in DOMAIN toCoord : toCoord[i].op = "verdict" => phase' = "done" /\ R(toCoord[i].result)
    BY DoneStays, RightStays DEF SoundInv, VerdictsRight
<1>2. SUFFICES \A i \in DOMAIN toCoord' : toCoord'[i].op = "verdict" =>
                  phase' = "done" /\ R(toCoord'[i].result)
    BY DEF VerdictsRight, Right
<1> HIDE DEF R
<1>3. CASE UNCHANGED toCoord
    BY <1>1, <1>3
<1>4. CASE ReceiveLine
    <2>1. toCoord # <<>> /\ toCoord' = Tail(toCoord)
        BY <1>4 DEF ReceiveLine
    <2>2. \A i \in DOMAIN toCoord' : i + 1 \in DOMAIN toCoord /\ toCoord'[i] = toCoord[i + 1]
        BY <1>0, <2>1
    <2> QED
        BY <1>1, <2>2
<1>5. ASSUME NEW n \in Nodes, RefuteNode(n)
      PROVE  \A i \in DOMAIN toCoord' : toCoord'[i].op = "verdict" => phase' = "done" /\ R(toCoord'[i].result)
    <2>1. toCoord' = Append(toCoord, NewUnsat(n)) /\ NewUnsat(n).op # "verdict"
        BY <1>5 DEF RefuteNode, NewUnsat
    <2>2. \A i \in DOMAIN toCoord' : (i \in DOMAIN toCoord /\ toCoord'[i] = toCoord[i]) \/ toCoord'[i] = NewUnsat(n)
        BY <1>0, <2>1
    <2> QED
        BY <1>1, <2>1, <2>2
<1>6. CASE Announce
    BY <1>0, <1>1, <1>6, AnnouncesNoVerdict
<1>7. CASE PartitionerStep /\ Finish
    <2> DEFINE v == IF aliveTasks > 0 THEN "unknown" ELSE "unsat"
    <2>1. /\ phase = "select" /\ leafHeap = {} /\ phase' = "done" /\ UNCHANGED <<nodeState, handed>>
          /\ toCoord' = Append(toCoord, Verdict(v))
        BY <1>7 DEF Finish, PartitionerStep, coordVars
    <2>2. Verdict(v).result = v
        BY DEF Verdict
    <2>3. R(v)
        <3>1. CASE aliveTasks > 0
            BY <3>1 DEF R
        <3>2. CASE ~ (aliveTasks > 0)
            <4>1. LeafLost \/ Covered(handed, Root)
                BY <2>1, <3>2, FinishSound
            <4>2. (LeafLost <=> LeafLost') /\ handed' = handed
                BY <2>1 DEF LeafLost
            <4> QED
                BY <2>1, <3>2, <4>1, <4>2 DEF R
        <3> QED
            BY <3>1, <3>2
    <2> HIDE DEF v
    <2>4. \A i \in DOMAIN toCoord' : (i \in DOMAIN toCoord /\ toCoord'[i] = toCoord[i]) \/ toCoord'[i] = Verdict(v)
        BY <1>0, <2>1
    <2> QED
        BY <1>1, <2>1, <2>2, <2>3, <2>4
<1> QED
    <2>1. CASE PartitionerStep
        <3>1. CASE ParseLine \/ StartSelect \/ \E n \in Nodes : SkipNode(n) \/ BuildTask(n)
            BY <1>3, <3>1 DEF ParseLine, StartSelect, SkipNode, BuildTask
        <3> QED
            BY <1>5, <1>6, <1>7, <2>1, <3>1 DEF PartitionerStep, PartitionerNext
    <2>2. CASE ~ PartitionerStep /\ ~ ReceiveLine
        <3>1. UNCHANGED toCoord
            BY <2>2 DEF Next, CoordinatorNext, vars, partitionerVars, ReceiveEof, EndReceive,
                   PollEndedNode, PollStillSolving, PollSat, PollUnsat, PollGivenUp, EndPoll, RunTask, EndRun,
                   SplitOff, WriteLine, NextPass, RoundDone, Send
        <3> QED
            BY <1>3, <3>1
    <2> QED
        BY <1>4, <2>1, <2>2

(* The result of the round is one of these.                                *)
LEMMA ResultStep ==
    ASSUME SoundInv, [Next]_vars
    PROVE  Right(result)'
<1> DEFINE R(r) == /\ r = "sat" => Root \in Sat
                   /\ r = "unsat" => (phase' = "done" /\ LeafLost') \/ Covered(handed', Root)
<1>0. toCoord \in Seq(Lines)
    BY DEF SoundInv, RoundInv, DataTypes, PartitionerTypeOK
<1>1. R(result)
    BY RightStays DEF SoundInv
<1>2. R(treeResult')
    BY MarkedStep DEF TreeRight
<1>3. R(treeResult)
    BY HandedGrows DEF SoundInv, TreeRight
<1>4. SUFFICES R(result')
    BY DEF Right
<1> HIDE DEF R
<1>5. R(Settled(result, treeResult)) /\ R(Settled(result, treeResult'))
    BY <1>1, <1>2, <1>3 DEF Settled
<1>6. CASE UNCHANGED result
    BY <1>1, <1>6
<1>7. CASE ReceiveLine
    <2>0. toCoord # <<>> /\ Head(toCoord) = toCoord[1] /\ 1 \in DOMAIN toCoord
        BY <1>0, <1>7 DEF ReceiveLine
    <2>1. CASE ReceiveVerdict(Head(toCoord))
        <3>1. Right(Head(toCoord).result)
            BY <2>0, <2>1 DEF ReceiveVerdict, SoundInv, VerdictsRight
        <3>2. R(Head(toCoord).result)
            BY <3>1, RightStays DEF R
        <3> QED
            BY <1>1, <2>1, <3>2 DEF ReceiveVerdict
    <2>2. CASE ReceiveNewUnsatNode(Head(toCoord))
        BY <1>5, <2>2 DEF ReceiveNewUnsatNode
    <2>3. CASE ReceiveNewUnknownNode(Head(toCoord))
        BY <1>6, <2>3 DEF ReceiveNewUnknownNode
    <2> QED
        BY <1>7, <2>1, <2>2, <2>3 DEF ReceiveLine
<1>8. CASE EndReceive
    BY <1>1, <1>5, <1>8 DEF EndReceive
<1>9. CASE \E n \in Nodes : PollSat(n) \/ PollUnsat(n) \/ PollGivenUp(n)
    BY <1>5, <1>9 DEF PollSat, PollUnsat, PollGivenUp, AfterPoll
<1> QED
    <2>1. CASE PartitionerStep \/ UNCHANGED vars
        BY <1>6, <2>1 DEF PartitionerStep, vars, coordVars
    <2>2. CASE \/ ReceiveEof \/ EndPoll \/ RunTask \/ EndRun \/ WriteLine \/ NextPass \/ RoundDone
               \/ \E n \in Nodes : PollEndedNode(n) \/ PollStillSolving(n) \/ SplitOff(n)
        BY <1>6, <2>2 DEF ReceiveEof, EndPoll, RunTask, EndRun, WriteLine, NextPass, RoundDone,
                          PollEndedNode, PollStillSolving, SplitOff
    <2> QED
        BY <1>7, <1>8, <1>9, <2>1, <2>2 DEF Next, CoordinatorNext

-----------------------------------------------------------------------------
(* At the start nothing is marked, and an early verdict is right.          *)
LEMMA SoundInit == DataInit => SoundInv
<1> SUFFICES ASSUME DataInit PROVE SoundInv
    OBVIOUS
<1>1. /\ PartitionerInit /\ result = "unsolved" /\ treeResult = "unsolved"
      /\ outbox = <<>> /\ fromCoord = <<>> /\ \A n \in Nodes : status[n] = "none"
    BY DEF DataInit, TreeInit, PartitionerInit
<1>2. RoundInv
    BY RoundInit
<1>3. MarkedCovered /\ TreeRight /\ Right(result) /\ CommandsCovered
    BY <1>1 DEF MarkedCovered, TreeRight, Right, CommandsCovered, CoveredLines
<1>4. /\ \A n \in Nodes : nodeState[n] = "none" \/ (n = Root /\ nodeState[n] = "unconverted")
      /\ aliveTasks = 0
    BY <1>1 DEF PartitionerInit
<1>5. RefutedCovered
    BY <1>4 DEF RefutedCovered
<1>6. Frontier
    BY <1>1, <1>4, SpaceShape DEF PartitionerInit, Frontier
<1>7. VerdictsRight
    <2>1. CASE phase # "done"
        BY <1>1, <2>1 DEF PartitionerInit, VerdictsRight
    <2>2. CASE phase = "done"
        <3>1. PICK v : toCoord = <<Verdict(v)>> /\ (v = "sat" => Root \in Sat) /\ (v = "unsat" => Root \notin Sat)
            BY <1>1, <2>2, RefutableSound DEF PartitionerInit
        <3>2. v = "unsat" => Covered(handed, Root)
            BY <3>1, CoveredUnsat, SpaceShape
        <3>3. Right(v)
            BY <3>1, <3>2 DEF Right
        <3>4. \A i \in DOMAIN toCoord : toCoord[i] = Verdict(v)
            BY <3>1
        <3>5. Verdict(v).result = v
            BY DEF Verdict
        <3> QED
            BY <2>2, <3>3, <3>4, <3>5 DEF VerdictsRight
    <2> QED
        BY <2>1, <2>2
<1>8. G!AliveCountsWaiting
    <2>1. G!InState("waiting") = {}
        BY <1>4 DEF G!InState
    <2>2. Cardinality({}) = 0
        BY FS_EmptySet
    <2> QED
        BY <1>4, <2>1, <2>2, SameSets DEF G!AliveCountsWaiting
<1> QED
    BY <1>2, <1>3, <1>5, <1>6, <1>7, <1>8 DEF SoundInv

(* The invariant of all rounds.                                            *)
LEMMA SoundStep == SoundInv /\ [Next]_vars => SoundInv'
<1> SUFFICES ASSUME SoundInv, [Next]_vars PROVE SoundInv'
    OBVIOUS
<1>1. RoundInv'
    BY RoundInvStep DEF SoundInv
<1> QED
    BY <1>1, CountStep, MarkedStep, RefutedStep, CommandsStep, VerdictsStep, ResultStep, FrontierStep
       DEF SoundInv

LEMMA SoundInductive == Spec => []SoundInv
<1>1. Init => DataInit
    BY DEF Init, DataInit
<1> QED
    BY <1>1, SoundInit, SoundStep, PTL DEF Spec

(* The tree of the coordinator never loses a solution: a satisfiable leaf  *)
(* is under an unsat mark only when it was split off to another            *)
(* coordinator (TreeMarksCovered; node_solved_unsat, set_node_split).      *)
THEOREM TreeMarksCoveredHolds == Spec => []TreeMarksCovered
<1>1. SoundInv => TreeMarksCovered
    BY AboveNodes DEF SoundInv, MarkedCovered, Covered, TreeMarksCovered, Leaves
<1> QED
    BY <1>1, SoundInductive, PTL

(* Nor does the C++ process, whatever order the commands arrive in         *)
(* (PartitionerMarksCovered; parse_line, node_solved_unsat).               *)
THEOREM PartitionerMarksCoveredHolds == Spec => []PartitionerMarksCovered
<1>1. SoundInv => PartitionerMarksCovered
    BY AboveNodes DEF SoundInv, RefutedCovered, Covered, PartitionerMarksCovered, Leaves
<1> QED
    BY <1>1, SoundInductive, PTL

(* The invariant makes the result right.                                   *)
LEMMA ResultRight == SoundInv => ResultSoundUnlessLeafLost
<1> SUFFICES ASSUME SoundInv, Leaves \cap InState("terminated") = {} PROVE ResultSound
    BY DEF ResultSoundUnlessLeafLost
<1>1. ~ LeafLost
    BY DEF LeafLost, InState, Leaves
<1>2. result = "unsat" => Covered(handed, Root)
    BY <1>1 DEF SoundInv, Right
<1> QED
    BY <1>2, CoveredRoot DEF SoundInv, Right, ResultSound

(* The result of a round is right, wherever it came from, as long as no    *)
(* task that cannot be split was given up (ResultSoundUnlessLeafLost).     *)
THEOREM ResultSoundHolds == Spec => []ResultSoundUnlessLeafLost
<1> QED
    BY ResultRight, SoundInductive, PTL

-----------------------------------------------------------------------------
(***************************************************************************)
(* The round of the isolated coordinator (IsolatedRound).                  *)
(*                                                                         *)
(* The argument.  What it does to its tree and to the pipes are steps of   *)
(* CoordinatorRound; its own steps move the loop, the queue and the result *)
(* only.  So the invariants proved above hold here too.  Before the        *)
(* hand-over no base solver runs and no command is sent: a task in the     *)
(* tree is open or unsat, and what was announced as a task still is one.   *)
(* The queue is a cut through the tree: to expand a node keeps every leaf  *)
(* below it under a half that is queued or unsat.  A cut that were empty   *)
(* would have an unsat mark above every leaf, and marks climb to the root. *)
(***************************************************************************)

(* The variables of the isolated coordinator hold what the code puts there *)
(* and pc is where one of the two loops can be.                            *)
IsoTypes ==
    /\ pc \in {"leader", "receive", "wait", "expand", "offer", "poll", "run", "report", "idle"}
    /\ stage \in {"pre", "main"}
    /\ original \in {"solving", "ended", "none"}
    /\ subnodes \in Seq(Nodes)
    /\ offered \in Seq(Nodes)
    /\ modelDone \in BOOLEAN

IsoTypeOK == DataTypes /\ IsoTypes

(* What was announced as a task is one.                                    *)
TasksAnnounced ==
    /\ \A n \in Nodes : status[n] = "unsolved" => nodeState[n] = "waiting"
    /\ \A i \in DOMAIN toCoord : toCoord[i].op = "new_unknown_node" =>
          nodeState[toCoord[i].node] = "waiting"
    /\ \A n \in Elements(subnodes) : nodeState[n] = "waiting"

(* Nothing is solved and nothing reported before the hand-over.            *)
PreQuiet ==
    stage = "pre" =>
        /\ pc \notin {"poll", "run"}
        /\ fromCoord = <<>>
        /\ offered = <<>>
        /\ \A n \in Nodes : status[n] \in {"none", "unsolved", "unsat"}
        /\ TasksAnnounced

(* A queue is a cut through the tree.                                      *)
Apart(s) == \A i, j \in DOMAIN s : i # j => s[i] \notin Up[s[j]]

Covers(s) ==
    \A l \in Leaves : \/ Up[l] \cap Elements(s) # {}
                      \/ \E a \in Up[l] : status[a] = "unsat"

Cut(s) == s # <<>> => Len(s) <= DistCoords /\ Apart(s) /\ Covers(s)

CutsInv ==
    /\ Cut(subnodes)
    /\ Cut(offered)
    /\ pc = "expand" => stage = "pre" /\ status[Root] = "unsolved" /\ subnodes # <<>>
    /\ pc \in {"offer", "wait"} => stage = "pre"
    /\ subnodes # <<>> => status[Root] # "none"
    /\ stage = "main" => offered # <<>>
    /\ status[Root] = "unsat" => treeResult # "unsolved"

(* The process decided the formula alone: no node was ever announced.      *)
NoTree ==
    /\ phase = "done"
    /\ Made = {}
    /\ \A i \in DOMAIN toCoord : toCoord[i].op = "verdict"

(* A sat result has its model, unless it is a verdict read in a pipe that  *)
(* was not read to its end.                                                *)
ModelInv ==
    /\ reader = "receive_done" => modelDone
    /\ treeResult = "sat" => modelDone
    /\ result = "sat" /\ ~ modelDone => NoTree
    /\ \A i \in DOMAIN toCoord : toCoord[i].op = "verdict" /\ toCoord[i].result = "sat" => NoTree
    /\ ModelCompleteInMain

IsoInv ==
    /\ SoundInv
    /\ SolversListed
    /\ UnsatClimbs
    /\ UnsatSinks
    /\ handed = {}
    /\ IsoTypes
    /\ PreQuiet
    /\ CutsInv
    /\ ModelInv

-----------------------------------------------------------------------------
(* The steps.                                                              *)

(* A step of the isolated coordinator's own loops.                         *)
OwnStep ==
    /\ UNCHANGED <<partitionerVars, status, children, solvings, waitings, treeResult,
                   toPoll, still, outbox, handed>>
    /\ reader' \in {reader, Checked}
    /\ \/ result' \in {result, Settled(result, treeResult)}
       \/ result' = IF Root \in Sat THEN "sat" ELSE "unsat"
    /\ pc \notin {"poll", "idle"} /\ pc' # "poll"
    /\ running' = IF pc' = "idle" THEN running \ Elements(solvings) ELSE running

(* The steps it shares with every other coordinator.                       *)
SharedStep == [Next]_vars /\ handed' = handed /\ ~ WriteLine

LEMMA IsoSteps ==
    ASSUME [IsoNext \/ IsoPartitionerStep]_allVars
    PROVE  OwnStep \/ SharedStep
<1>1. CASE OriginalAnswers
    BY <1>1 DEF OriginalAnswers, OwnStep, treeVars
<1>2. CASE BeginPass
    BY <1>2 DEF BeginPass, OwnStep, treeVars
<1>3. CASE PrePass
    BY <1>3 DEF PrePass, OwnStep, treeVars
<1>4. CASE ExpandNode \/ EnoughSubnodes \/ Again \/ TimeOver \/ HandOver
    BY <1>4 DEF ExpandNode, EnoughSubnodes, Again, TimeOver, HandOver, OwnStep, treeVars
<1>5. CASE Terminated
    BY <1>5 DEF Terminated, OwnStep
<1>6. CASE \/ ReceiveLine \/ ReceiveEof \/ EndReceive \/ EndPoll \/ RunTask \/ EndRun \/ RoundDone
           \/ \E n \in Nodes : \/ PollSat(n) \/ PollEndedNode(n) \/ PollStillSolving(n)
                               \/ PollUnsat(n) \/ PollGivenUp(n)
    <2>1. Next
        BY <1>6 DEF Next, CoordinatorNext
    <2>2. handed' = handed /\ ~ WriteLine
        BY <1>6 DEF ReceiveLine, ReceiveEof, EndReceive, EndPoll, RunTask, EndRun, RoundDone, PollSat,
                    PollEndedNode, PollStillSolving, PollUnsat, PollGivenUp, Polled, WriteLine
    <2> QED
        BY <2>1, <2>2 DEF SharedStep
<1>7. CASE PartitionerStep \/ UNCHANGED vars
    <2>1. [Next]_vars
        BY <1>7 DEF Next
    <2>2. handed' = handed
        BY <1>7 DEF PartitionerStep, vars, coordVars
    <2>3. WriteLine => pc' = pc /\ outbox' # outbox
        BY DEF WriteLine
    <2>4. outbox' = outbox
        BY <1>7 DEF PartitionerStep, vars, coordVars
    <2> QED
        BY <2>1, <2>2, <2>3, <2>4 DEF SharedStep
<1> QED
    BY <1>1, <1>2, <1>3, <1>4, <1>5, <1>6, <1>7
       DEF IsoNext, OriginalFails, OriginalStillSolving, IsoReceive, MainPass, MainPoll, IsoReport,
           IsoPartitionerStep, allVars

-----------------------------------------------------------------------------
(* What holds of every round holds here.                                   *)

(* The own steps leave the tree and the process alone.                     *)
LEMMA OwnRound ==
    ASSUME RoundInv, OwnStep
    PROVE  RoundInv'
<1>0. /\ UNCHANGED <<nodeState, leafHeap, aliveTasks, unsolved, ptask, phase, toCoord, fromCoord,
                     status, children, solvings, waitings, treeResult, toPoll, still, outbox, handed>>
      /\ running' \subseteq running /\ reader' \in {reader, Checked}
      /\ result' \in {result, Settled(result, treeResult), "sat", "unsat"}
    BY DEF OwnStep, partitionerVars
<1>1. Made' = Made
    BY <1>0 DEF Made
<1>2. G!OrderInv'
    <2>1. [G!Next]_G!vars
        BY <1>0, <1>1 DEF G!vars, G!partitionerVars
    <2> QED
        BY <2>1, ProcessStep DEF RoundInv
<1>3. PartitionerTypeOK'
    BY <1>2 DEF G!OrderInv, G!IndInv, G!TypeOK, G!PartitionerTypeOK, PartitionerTypeOK,
                G!States, States, G!Lines, Lines, G!Verdicts, Verdicts, G!Commands, Commands
<1>4. TreeTypeOK'
    BY <1>0 DEF RoundInv, DataTypes, TreeTypeOK
<1>5. result' \in Results /\ reader' \in {"running", "process_done", "receive_done"}
    BY <1>0 DEF RoundInv, DataTypes, TreeTypeOK, Settled, Checked, Results
<1>6. DataTypes'
    BY <1>0, <1>3, <1>4, <1>5 DEF RoundInv, DataTypes
<1>7. UpMade' /\ OutboxMade'
    BY <1>0, <1>1 DEF RoundInv, UpMade, OutboxMade
<1>8. ChildrenMade'
    BY <1>0, <1>1 DEF RoundInv, ChildrenMade
<1> QED
    BY <1>2, <1>6, <1>7, <1>8 DEF RoundInv

(* The result they take over is right: the tree's, or the answer of the    *)
(* base solver on the original task.                                       *)
LEMMA OwnSound ==
    ASSUME SoundInv, OwnStep
    PROVE  SoundInv'
<1>0. /\ UNCHANGED <<nodeState, leafHeap, aliveTasks, unsolved, ptask, phase, toCoord, fromCoord,
                     status, treeResult, outbox, handed>>
      /\ \/ result' \in {result, Settled(result, treeResult)}
         \/ result' = IF Root \in Sat THEN "sat" ELSE "unsat"
    BY DEF OwnStep, partitionerVars
<1>1. RoundInv'
    BY OwnRound DEF SoundInv
<1>2. G!AliveCountsWaiting'
    BY <1>0 DEF SoundInv, G!AliveCountsWaiting, G!InState
<1>3. MarkedCovered' /\ RefutedCovered' /\ TreeRight'
    BY <1>0 DEF SoundInv, MarkedCovered, RefutedCovered, TreeRight
<1>4. CommandsCovered'
    BY <1>0 DEF SoundInv, CommandsCovered, CoveredLines
<1>5. Frontier'
    BY <1>0 DEF SoundInv, Frontier
<1>6. LeafLost' <=> LeafLost
    BY <1>0 DEF LeafLost
<1>7. ASSUME NEW r, Right(r)
      PROVE  /\ r = "sat" => Root \in Sat
             /\ r = "unsat" => (phase' = "done" /\ LeafLost') \/ Covered(handed', Root)
    BY <1>0, <1>6, <1>7 DEF Right
<1>8. VerdictsRight'
    BY <1>0, <1>6 DEF SoundInv, VerdictsRight, Right
<1>9. Right(result)'
    <2>1. Right(result) /\ Right(treeResult)
        BY DEF SoundInv, TreeRight, Right
    <2>2. Right(IF Root \in Sat THEN "sat" ELSE "unsat")
        BY CoveredUnsat, SpaceShape DEF Right
    <2>3. Right(result')
        BY <1>0, <2>1, <2>2 DEF Settled
    <2> QED
        BY <1>7, <2>3 DEF Right
<1> QED
    BY <1>1, <1>2, <1>3, <1>4, <1>5, <1>8, <1>9 DEF SoundInv

(* They end no solver but all of them.                                     *)
LEMMA OwnSolvers ==
    ASSUME SolversListed, OwnStep
    PROVE  SolversListed'
<1>1. UNCHANGED <<status, solvings, toPoll, still>> /\ pc # "poll" /\ pc' # "poll"
    BY DEF OwnStep
<1> QED
    BY <1>1 DEF OwnStep, SolversListed

(* The invariants of the other modules of proofs, in one step.             *)
LEMMA InheritedStep ==
    ASSUME SoundInv, SolversListed, UnsatClimbs, UnsatSinks, handed = {},
           [IsoNext \/ IsoPartitionerStep]_allVars
    PROVE  SoundInv' /\ SolversListed' /\ UnsatClimbs' /\ UnsatSinks' /\ handed' = {}
<1>0. RoundInv
    BY DEF SoundInv
<1>1. CASE SharedStep
    <2>1. [Next]_vars /\ handed' = {}
        BY <1>1 DEF SharedStep
    <2>2. SoundInv'
        BY <2>1, SoundStep
    <2>3. SolversListed'
        BY <1>0, <2>1, SolversStep DEF SolversInv
    <2>4. UnsatClimbs' /\ UnsatSinks'
        BY <1>0, <2>1, ClimbStep, SinkStep
    <2> QED
        BY <2>1, <2>2, <2>3, <2>4
<1>2. CASE OwnStep
    <2>1. UNCHANGED <<status, children, treeResult, handed>>
        BY <1>2 DEF OwnStep
    <2>2. SoundInv' /\ SolversListed'
        BY <1>2, OwnSound, OwnSolvers
    <2>3. UnsatClimbs' /\ UnsatSinks'
        BY <2>1 DEF UnsatClimbs, UnsatSinks
    <2> QED
        BY <2>1, <2>2, <2>3
<1> QED
    BY <1>1, <1>2, IsoSteps

-----------------------------------------------------------------------------
(* Before the hand-over.                                                   *)

(* Two sequences one after the other.                                      *)
LEMMA JoinedElements ==
    ASSUME NEW S, NEW s \in Seq(S), NEW t \in Seq(S)
    PROVE  /\ Elements(s \o t) = Elements(s) \cup Elements(t)
           /\ Elements(s) \subseteq S
<1> DEFINE u == s \o t
<1>1. /\ u \in Seq(S) /\ Len(s) \in Nat /\ Len(t) \in Nat /\ Len(u) = Len(s) + Len(t)
      /\ \A i \in 1 .. Len(s) + Len(t) : u[i] = IF i <= Len(s) THEN s[i] ELSE t[i - Len(s)]
    BY ConcatProperties
<1> HIDE DEF u
<1>2. DOMAIN u = 1 .. Len(s) + Len(t) /\ DOMAIN s = 1 .. Len(s) /\ DOMAIN t = 1 .. Len(t)
    BY <1>1
<1>3. ASSUME NEW i \in DOMAIN u PROVE u[i] \in Elements(s) \cup Elements(t)
    <2>1. CASE i <= Len(s)
        BY <1>1, <1>2, <2>1 DEF Elements
    <2>2. CASE ~ (i <= Len(s))
        <3>1. i - Len(s) \in DOMAIN t /\ u[i] = t[i - Len(s)]
            BY <1>1, <1>2, <2>2
        <3> QED
            BY <3>1 DEF Elements
    <2> QED
        BY <2>1, <2>2
<1>4. ASSUME NEW i \in DOMAIN s PROVE s[i] \in Elements(u)
    <2>1. i \in DOMAIN u /\ u[i] = s[i]
        BY <1>1, <1>2
    <2> QED
        BY <2>1 DEF Elements
<1>5. ASSUME NEW i \in DOMAIN t PROVE t[i] \in Elements(u)
    <2>1. Len(s) + i \in DOMAIN u /\ u[Len(s) + i] = t[i]
        BY <1>1, <1>2
    <2> QED
        BY <2>1 DEF Elements
<1>6. Elements(u) = Elements(s) \cup Elements(t)
    BY <1>3, <1>4, <1>5 DEF Elements
<1>7. Elements(s) \subseteq S
    BY DEF Elements
<1> QED
    BY <1>6, <1>7 DEF u

(* A node that is expanded has both its halves in the tree, and the open   *)
(* ones replace it.                                                        *)
LEMMA ExpandedOpen ==
    ASSUME RoundInv, NEW n \in Nodes, Expandable(n)
    PROVE  /\ Expanded(n) \in Seq(Nodes)
           /\ Len(Expanded(n)) <= 2
           /\ \A i, j \in DOMAIN Expanded(n) : i # j => Expanded(n)[i] # Expanded(n)[j]
           /\ Elements(Expanded(n)) = {k \in Kids[n] : status[k] = "unsolved"}
           /\ Kids[n] # {} /\ Kids[n] \subseteq Made
           /\ Len(children[n]) = 2
<1> DEFINE c == children[n]
<1>1. /\ c \in Seq(Kids[n]) /\ Len(c) = 2 /\ DOMAIN c = 1 .. 2
      /\ \A i, j \in DOMAIN c : i # j => c[i] # c[j]
    <2>1. c \in Seq(Kids[n]) /\ Len(c) <= 2 /\ Len(c) >= 2
        BY DEF RoundInv, DataTypes, TreeTypeOK, Expandable
    <2>2. \A i, j \in DOMAIN c : i # j => c[i] # c[j]
        BY DEF RoundInv, ChildrenMade
    <2>3. Len(c) \in Nat /\ DOMAIN c = 1 .. Len(c)
        BY <2>1
    <2> HIDE DEF c
    <2>4. Len(c) = 2
        BY <2>1, <2>3
    <2> QED
        BY <2>1, <2>2, <2>3, <2>4
<1>2. Elements(c) = Kids[n]
    BY <1>1, BothChildren
<1>3. Elements(c) = Kids[n] \cap Made
    BY DEF RoundInv, ChildrenMade
<1>4. Elements(c) = {c[1], c[2]} /\ c[1] # c[2]
    BY <1>1 DEF Elements
<1>5. Kids[n] \subseteq Nodes
    BY SpaceShape
<1>6. /\ Kept(n, 1) = IF status[c[1]] = "unsolved" THEN <<c[1]>> ELSE <<>>
      /\ Kept(n, 2) = IF status[c[2]] = "unsolved" THEN <<c[2]>> ELSE <<>>
    BY <1>1 DEF Kept
<1>7. Kids[n] = {c[1], c[2]} /\ c[1] \in Nodes /\ c[2] \in Nodes
    BY <1>2, <1>4, <1>5
<1>8. Kids[n] # {} /\ Kids[n] \subseteq Made /\ Len(children[n]) = 2
    BY <1>1, <1>2, <1>3, <1>7
<1> HIDE DEF c
<1>9. CASE status[c[1]] = "unsolved" /\ status[c[2]] = "unsolved"
    <2> DEFINE s == <<c[1]>>
               t == <<c[2]>>
    <2>1. s \in Seq(Nodes) /\ t \in Seq(Nodes) /\ Len(s) = 1 /\ Len(t) = 1 /\ s[1] = c[1] /\ t[1] = c[2]
        BY <1>7
    <2>2. Expanded(n) = s \o t
        BY <1>6, <1>9 DEF Expanded
    <2> HIDE DEF s, t
    <2>3. /\ Expanded(n) \in Seq(Nodes) /\ Len(Expanded(n)) = 2
          /\ Expanded(n)[1] = c[1] /\ Expanded(n)[2] = c[2]
        BY <2>1, <2>2, ConcatProperties
    <2>4. DOMAIN Expanded(n) = {1, 2}
        BY <2>3
    <2> QED
        BY <1>4, <1>7, <1>8, <1>9, <2>3, <2>4 DEF Elements
<1>10. CASE status[c[1]] = "unsolved" /\ status[c[2]] # "unsolved"
    <2> DEFINE s == <<c[1]>>
    <2>1. s \in Seq(Nodes)
        BY <1>7
    <2>2. Expanded(n) = s \o <<>>
        BY <1>6, <1>10 DEF Expanded
    <2> HIDE DEF s
    <2>3. Expanded(n) = s
        BY <2>1, <2>2, ConcatEmptySeq
    <2>4. Expanded(n) = <<c[1]>>
        BY <2>3 DEF s
    <2> QED
        BY <1>4, <1>7, <1>8, <1>10, <2>4 DEF Elements
<1>11. CASE status[c[1]] # "unsolved" /\ status[c[2]] = "unsolved"
    <2> DEFINE s == <<c[2]>>
    <2>1. s \in Seq(Nodes)
        BY <1>7
    <2>2. Expanded(n) = <<>> \o s
        BY <1>6, <1>11 DEF Expanded
    <2> HIDE DEF s
    <2>3. Expanded(n) = s
        BY <2>1, <2>2, ConcatEmptySeq
    <2>4. Expanded(n) = <<c[2]>>
        BY <2>3 DEF s
    <2> QED
        BY <1>4, <1>7, <1>8, <1>11, <2>4 DEF Elements
<1>12. CASE status[c[1]] # "unsolved" /\ status[c[2]] # "unsolved"
    <2>1. Expanded(n) = <<>>
        BY <1>6, <1>12 DEF Expanded
    <2> QED
        BY <1>4, <1>7, <1>8, <1>12, <2>1 DEF Elements
<1> QED
    BY <1>9, <1>10, <1>11, <1>12

(* The queue after one expansion.                                          *)
LEMMA QueueAfter ==
    ASSUME RoundInv, subnodes \in Seq(Nodes), ExpandNode
    PROVE  \E n \in Nodes, t \in Seq(Nodes), u \in Seq(Nodes) :
              /\ n = Head(subnodes) /\ t = Tail(subnodes) /\ subnodes' = t \o u
              /\ Elements(subnodes') = Elements(t) \cup Elements(u)
              /\ n \in Elements(subnodes) /\ Elements(t) \subseteq Elements(subnodes)
              /\ Elements(subnodes) \subseteq {n} \cup Elements(t)
              /\ \/ u = <<n>> /\ pc' = "wait"
                 \/ Expandable(n) /\ u = Expanded(n) /\ pc' = pc
<1>1. subnodes # <<>> /\ 1 \in DOMAIN subnodes /\ Head(subnodes) = subnodes[1]
    BY DEF ExpandNode
<1> DEFINE n == Head(subnodes)
           t == Tail(subnodes)
<1>2. n \in Nodes /\ t \in Seq(Nodes) /\ n \in Elements(subnodes)
    BY <1>1 DEF Elements
<1>3. /\ Elements(t) \subseteq Elements(subnodes)
      /\ Elements(subnodes) \subseteq {n} \cup Elements(t)
    <2>1. \A i \in DOMAIN t : i + 1 \in DOMAIN subnodes /\ t[i] = subnodes[i + 1]
        BY <1>1
    <2>2. Elements(t) \subseteq Elements(subnodes)
        BY <2>1 DEF Elements
    <2> QED
        BY <1>1, <2>2, ListElements
<1> HIDE DEF n, t
<1>4. CASE Expandable(n)
    <2>1. subnodes' = t \o Expanded(n) /\ pc' = pc
        BY <1>4 DEF ExpandNode, n, t
    <2>2. Expanded(n) \in Seq(Nodes)
        BY <1>2, <1>4, ExpandedOpen
    <2>3. Elements(t \o Expanded(n)) = Elements(t) \cup Elements(Expanded(n))
        BY <1>2, <2>2, JoinedElements
    <2> QED
        BY <1>2, <1>3, <1>4, <2>1, <2>2, <2>3 DEF n, t
<1>5. CASE ~ Expandable(n)
    <2>1. subnodes' = Append(t, n) /\ pc' = "wait"
        BY <1>5 DEF ExpandNode, n, t
    <2> DEFINE u == <<n>>
    <2>2. Append(t, n) = t \o u /\ u \in Seq(Nodes)
        BY <1>2
    <2> HIDE DEF u
    <2>3. Elements(t \o u) = Elements(t) \cup Elements(u)
        BY <1>2, <2>2, JoinedElements
    <2>4. u = <<n>>
        BY DEF u
    <2> QED
        BY <1>2, <1>3, <2>1, <2>2, <2>3, <2>4 DEF n, t
<1> QED
    BY <1>4, <1>5

(* A process that is told nothing ends no task.                            *)
LEMMA ProcessUntold ==
    ASSUME RoundInv, PartitionerNext, fromCoord = <<>>
    PROVE  /\ fromCoord' = <<>>
           /\ \A n \in Nodes : nodeState[n] = "waiting" => nodeState'[n] = "waiting"
           /\ \A i \in DOMAIN toCoord' : toCoord'[i].op = "new_unknown_node" =>
                 \/ i \in DOMAIN toCoord /\ toCoord'[i] = toCoord[i]
                 \/ toCoord'[i].node \in Nodes /\ nodeState'[toCoord'[i].node] = "waiting"
<1>0. nodeState \in [Nodes -> States] /\ toCoord \in Seq(Lines)
    BY DEF RoundInv, DataTypes, PartitionerTypeOK
<1>1. ~ ParseLine
    BY DEF ParseLine
<1>2. CASE StartSelect \/ \E n \in Nodes : SkipNode(n) \/ BuildTask(n)
    <2>1. UNCHANGED <<toCoord, fromCoord>>
        BY <1>2 DEF StartSelect, SkipNode, BuildTask
    <2>2. nodeState' = nodeState \/ \E n \in Nodes : nodeState[n] = "unconverted" /\ nodeState' = [nodeState EXCEPT ![n] = "unsat"]
        BY <1>2 DEF StartSelect, SkipNode, BuildTask
    <2>3. \A n \in Nodes : nodeState[n] = "waiting" => nodeState'[n] = "waiting"
        BY <1>0, <2>2
    <2> QED
        BY <2>1, <2>3
<1>3. ASSUME NEW n \in Nodes, RefuteNode(n)
      PROVE  /\ fromCoord' = <<>>
             /\ \A m \in Nodes : nodeState[m] = "waiting" => nodeState'[m] = "waiting"
             /\ \A i \in DOMAIN toCoord' : toCoord'[i].op = "new_unknown_node" =>
                   i \in DOMAIN toCoord /\ toCoord'[i] = toCoord[i]
    <2>1. /\ nodeState[n] = "unconverted" /\ nodeState' = [nodeState EXCEPT ![n] = "unsat"]
          /\ toCoord' = Append(toCoord, NewUnsat(n)) /\ UNCHANGED fromCoord
        BY <1>3 DEF RefuteNode, Convertible
    <2>2. NewUnsat(n).op # "new_unknown_node"
        BY DEF NewUnsat
    <2>3. \A i \in DOMAIN toCoord' : (i \in DOMAIN toCoord /\ toCoord'[i] = toCoord[i]) \/ toCoord'[i] = NewUnsat(n)
        BY <1>0, <2>1
    <2>4. \A m \in Nodes : nodeState[m] = "waiting" => nodeState'[m] = "waiting"
        BY <1>0, <2>1
    <2> QED
        BY <2>1, <2>2, <2>3, <2>4
<1>4. CASE Finish
    <2>1. \E v : toCoord' = Append(toCoord, Verdict(v)) /\ UNCHANGED <<nodeState, fromCoord>>
        BY <1>4 DEF Finish
    <2>2. PICK v : toCoord' = Append(toCoord, Verdict(v))
        BY <2>1
    <2>3. Verdict(v).op # "new_unknown_node"
        BY DEF Verdict
    <2>4. \A i \in DOMAIN toCoord' : (i \in DOMAIN toCoord /\ toCoord'[i] = toCoord[i]) \/ toCoord'[i] = Verdict(v)
        BY <1>0, <2>2
    <2> QED
        BY <2>1, <2>3, <2>4
<1>5. CASE Announce
    <2>1. PICK dead \in SUBSET (Kids[ptask] \cap Refutable) :
            /\ nodeState' = [m \in Nodes |-> CASE m = ptask -> "waiting"
                                                [] m \in Born(dead) -> "unconverted"
                                                [] m \in dead -> "unsat"
                                                [] OTHER -> nodeState[m]]
            /\ toCoord' = AnnouncedLines(dead)
        BY <1>5 DEF Announce
    <2>2. /\ phase = "announce" /\ ptask \in Nodes /\ fromCoord' = fromCoord
          /\ G!TypeOK /\ G!Pending /\ G!PathTold
        BY <1>5 DEF Announce, RoundInv, G!OrderInv, G!IndInv, G!Pending
    <2>3. \A k \in Kids[ptask] : nodeState[k] = "none"
        BY <2>2, G!KidsNotMade, InstanceFacts, SpaceShape, SpaceTruth, MaxRunningType, RefutableSound, NoTaskFresh
    <2>4. ASSUME NEW m \in Nodes, nodeState[m] = "waiting" PROVE nodeState'[m] = "waiting"
        <3>1. m \notin Born(dead) /\ m \notin dead
            BY <2>3, <2>4 DEF Born
        <3>2. CASE m = ptask
            BY <2>1, <3>1, <3>2
        <3>3. CASE m # ptask
            BY <2>1, <2>4, <3>1, <3>3
        <3> QED
            BY <3>2, <3>3
    <2>5. nodeState'[ptask] = "waiting"
        <3>1. ptask \notin Kids[ptask]
            BY <2>2, <2>3 DEF G!Pending
        <3>2. ptask \notin Born(dead) /\ ptask \notin dead
            BY <3>1 DEF Born
        <3> QED
            BY <2>1, <2>2, <3>2
    <2> DEFINE s == Append(toCoord, NewNode(ptask)) \o BornUnsatLines(dead)
    <2>6. toCoord' = s
        BY <2>1 DEF AnnouncedLines
    <2>7. G!BornUnsatLines(dead) = BornUnsatLines(dead) /\ G!NewNode(ptask) = NewNode(ptask)
        BY DEF BornUnsatLines, G!BornUnsatLines, NewUnsat, G!NewUnsat, NewNode, G!NewNode
    <2>8. dead \subseteq Nodes
        BY RefutableSound
    <2> DEFINE r == Append(toCoord, G!NewNode(ptask)) \o G!BornUnsatLines(dead)
    <2>8a. r \in Seq(G!Lines)
        BY <2>2, <2>8, G!AnnounceLines, InstanceFacts, SpaceShape, SpaceTruth, MaxRunningType,
           RefutableSound, NoTaskFresh
    <2>8b. \A i \in 1 .. Len(r) : \/ i \in 1 .. Len(toCoord) /\ r[i] = toCoord[i]
                                  \/ r[i] = G!NewNode(ptask)
                                  \/ r[i].op = "new_unsat_node" /\ r[i].node \in dead
        BY <2>2, <2>8, G!AnnounceLines, InstanceFacts, SpaceShape, SpaceTruth, MaxRunningType,
           RefutableSound, NoTaskFresh
    <2>8c. r = s
        BY <2>7
    <2> HIDE DEF r
    <2>9. /\ s \in Seq(G!Lines)
          /\ \A i \in 1 .. Len(s) : \/ i \in 1 .. Len(toCoord) /\ s[i] = toCoord[i]
                                    \/ s[i] = NewNode(ptask)
                                    \/ s[i].op = "new_unsat_node" /\ s[i].node \in dead
        <3> HIDE DEF s
        <3> QED
            BY <2>7, <2>8a, <2>8b, <2>8c
    <2>10. NewNode(ptask).node = ptask
        BY DEF NewNode
    <2> HIDE DEF s
    <2>11. DOMAIN s = 1 .. Len(s) /\ DOMAIN toCoord = 1 .. Len(toCoord)
        BY <1>0, <2>9
    <2>12. \A i \in DOMAIN toCoord' : toCoord'[i].op = "new_unknown_node" =>
             \/ i \in DOMAIN toCoord /\ toCoord'[i] = toCoord[i]
             \/ toCoord'[i].node \in Nodes /\ nodeState'[toCoord'[i].node] = "waiting"
        BY <2>2, <2>5, <2>6, <2>9, <2>10, <2>11
    <2> QED
        BY <2>2, <2>4, <2>12
<1> QED
    BY <1>1, <1>2, <1>3, <1>4, <1>5 DEF PartitionerNext

(* The line the coordinator reads, before the hand-over.                   *)
LEMMA ReadingBefore ==
    ASSUME RoundInv, ReceiveLine, TasksAnnounced,
           \A n \in Nodes : status[n] \in {"none", "unsolved", "unsat"}
    PROVE  /\ \A n \in Nodes : status'[n] \in {"none", "unsolved", "unsat"}
           /\ \A n \in Nodes : status'[n] = "unsolved" => nodeState[n] = "waiting"
           /\ \A i \in DOMAIN toCoord' : i + 1 \in DOMAIN toCoord /\ toCoord'[i] = toCoord[i + 1]
<1>0. status \in [Nodes -> Statuses] /\ toCoord \in Seq(Lines)
    BY DEF RoundInv, DataTypes, TreeTypeOK, PartitionerTypeOK
<1> DEFINE l == Head(toCoord)
<1>1. toCoord # <<>> /\ toCoord' = Tail(toCoord)
    BY DEF ReceiveLine
<1>2. \A i \in DOMAIN toCoord' : i + 1 \in DOMAIN toCoord /\ toCoord'[i] = toCoord[i + 1]
    BY <1>0, <1>1
<1>3. l = toCoord[1] /\ 1 \in DOMAIN toCoord
    BY <1>0, <1>1
<1>4. l.op # "verdict" => l.node \in Nodes /\ status[l.node] = "none" /\ Above(l.node) \subseteq Made
    BY <1>1, NextLine DEF Made
<1> HIDE DEF l
<1>5. ASSUME l.op # "verdict", NEW ch, NEW alive, NodeSolvedUnsat(status, ch, alive, l.node)
      PROVE  \A n \in Nodes : status'[n] \in {status[n], "unsat"}
    <2>1. l.node \in Nodes /\ \A a \in Above(l.node) : status[a] # "none"
        BY <1>4, <1>5 DEF Made
    <2> QED
        BY <1>0, <1>5, <2>1, SolvedStatus
<1>6. CASE \A n \in Nodes : status'[n] \in {status[n], "unsat"}
    BY <1>2, <1>6 DEF TasksAnnounced
<1>7. CASE ReceiveVerdict(l)
    BY <1>6, <1>7 DEF ReceiveVerdict, treeVars
<1>8. CASE ReceiveNewUnsatNode(l)
    BY <1>5, <1>6, <1>8 DEF ReceiveNewUnsatNode
<1>9. CASE ReceiveNewUnknownNode(l)
    <2>1. l.op = "new_unknown_node" /\ l.op # "verdict"
        BY <1>9 DEF ReceiveNewUnknownNode
    <2>2. CASE NodeSolvedUnsat(status, ChildrenWith(l.node), running, l.node)
        BY <1>5, <1>6, <2>1, <2>2
    <2>3. CASE status' = [status EXCEPT ![l.node] = "unsolved"]
        <3>1. nodeState[l.node] = "waiting"
            BY <1>3, <2>1 DEF TasksAnnounced
        <3>2. \A n \in Nodes : status'[n] = IF n = l.node THEN "unsolved" ELSE status[n]
            BY <1>0, <2>3
        <3> QED
            BY <1>2, <3>1, <3>2 DEF TasksAnnounced
    <2> QED
        BY <1>9, <2>2, <2>3 DEF ReceiveNewUnknownNode
<1> QED
    BY <1>7, <1>8, <1>9 DEF ReceiveLine, l

(* The variables of the isolated coordinator keep their types.             *)
LEMMA IsoTypesStep ==
    ASSUME RoundInv, IsoTypes, [IsoNext \/ IsoPartitionerStep]_allVars
    PROVE  IsoTypes'
<1>0. Root \in Nodes
    BY SpaceShape
<1> USE DEF IsoTypes
<1>1. CASE OriginalAnswers
    BY <1>1 DEF OriginalAnswers
<1>2. CASE OriginalFails \/ OriginalStillSolving
    BY <1>2 DEF OriginalFails, OriginalStillSolving, BeginPass, isoVars
<1>3. CASE IsoReceive
    BY <1>3 DEF IsoReceive, ReceiveLine, ReceiveEof, isoVars
<1>4. CASE PrePass
    <2>1. TakeRoot \in Seq(Nodes)
        BY <1>0 DEF TakeRoot
    <2> QED
        BY <1>4, <2>1 DEF PrePass
<1>5. CASE ExpandNode
    <2>0. PICK t \in Seq(Nodes), u \in Seq(Nodes) : subnodes' = t \o u /\ pc' \in {pc, "wait"}
        BY <1>5, QueueAfter
    <2>1. subnodes' \in Seq(Nodes) /\ pc' \in {pc, "wait"}
        BY <2>0, ConcatProperties
    <2> QED
        BY <1>5, <2>1 DEF ExpandNode
<1>6. CASE EnoughSubnodes \/ Again \/ TimeOver \/ Terminated
    BY <1>6 DEF EnoughSubnodes, Again, TimeOver, Terminated, isoVars
<1>7. CASE HandOver
    BY <1>0, <1>7 DEF HandOver
<1>8. CASE MainPass \/ IsoReport \/ ((RunTask \/ EndRun) /\ UNCHANGED isoVars)
    BY <1>8 DEF MainPass, EndReceive, IsoReport, RoundDone, RunTask, EndRun, isoVars
<1>9. CASE MainPoll
    BY <1>9 DEF MainPoll, PollSat, PollEndedNode, PollStillSolving, PollUnsat, PollGivenUp, AfterPoll, EndPoll, isoVars
<1>10. CASE IsoPartitionerStep \/ UNCHANGED allVars
    BY <1>10 DEF IsoPartitionerStep, PartitionerStep, coordVars, allVars, vars, isoVars
<1> QED
    BY <1>1, <1>2, <1>3, <1>4, <1>5, <1>6, <1>7, <1>8, <1>9, <1>10 DEF IsoNext

(* Until the hand-over no solver runs and the process is told nothing.     *)
LEMMA PreStep ==
    ASSUME RoundInv, IsoTypes, PreQuiet, CutsInv, [IsoNext \/ IsoPartitionerStep]_allVars
    PROVE  PreQuiet'
<1> SUFFICES ASSUME stage' = "pre"
             PROVE  /\ pc' \notin {"poll", "run"}
                    /\ fromCoord' = <<>>
                    /\ offered' = <<>>
                    /\ \A n \in Nodes : status'[n] \in {"none", "unsolved", "unsat"}
                    /\ TasksAnnounced'
    BY DEF PreQuiet
<1>0. toCoord \in Seq(Lines) /\ \A i \in DOMAIN toCoord : toCoord[i].op = "new_unknown_node" => toCoord[i].node \in Nodes
    BY DEF RoundInv, DataTypes, PartitionerTypeOK, Lines
<1>1. CASE stage # "pre"
    <2>1. stage' = stage
        BY <1>1 DEF IsoNext, OriginalAnswers, OriginalFails, OriginalStillSolving, IsoReceive, PrePass, ExpandNode,
                    EnoughSubnodes, Again, TimeOver, HandOver, Terminated, MainPass, MainPoll, IsoReport,
                    IsoPartitionerStep, allVars, isoVars
    <2> QED
        BY <1>1, <2>1
<1>2. CASE stage = "pre"
    <2>0. /\ pc \notin {"poll", "run"} /\ fromCoord = <<>> /\ offered = <<>>
          /\ \A n \in Nodes : status[n] \in {"none", "unsolved", "unsat"}
          /\ TasksAnnounced
        BY <1>2 DEF PreQuiet
    <2>1. ASSUME UNCHANGED <<nodeState, toCoord, fromCoord, status, offered>>, pc' \notin {"poll", "run"},
                 \A n \in Elements(subnodes') : nodeState[n] = "waiting"
          PROVE  /\ pc' \notin {"poll", "run"}
                 /\ fromCoord' = <<>>
                 /\ offered' = <<>>
                 /\ \A n \in Nodes : status'[n] \in {"none", "unsolved", "unsat"}
                 /\ TasksAnnounced'
        BY <2>0, <2>1 DEF TasksAnnounced
    <2>q. subnodes' = subnodes => \A n \in Elements(subnodes') : nodeState[n] = "waiting"
        BY <2>0 DEF TasksAnnounced
    <2>2. CASE \/ OriginalAnswers \/ OriginalFails \/ OriginalStillSolving \/ EnoughSubnodes \/ Again \/ TimeOver
               \/ Terminated \/ IsoReport \/ (IsoReceive /\ ReceiveEof)
        <3>1. UNCHANGED <<nodeState, toCoord, fromCoord, status, offered, subnodes>>
            BY <2>2 DEF OriginalAnswers, OriginalFails, OriginalStillSolving, BeginPass, EnoughSubnodes, Again,
                        TimeOver, Terminated, IsoReport, RoundDone, IsoReceive, ReceiveEof, partitionerVars,
                        treeVars, isoVars
        <3>2. pc' \notin {"poll", "run"}
            BY <2>2 DEF OriginalAnswers, OriginalFails, OriginalStillSolving, BeginPass, EnoughSubnodes, Again,
                        TimeOver, Terminated, IsoReport, RoundDone, IsoReceive, ReceiveEof
        <3> QED
            BY <2>1, <2>q, <3>1, <3>2
    <2>3. CASE PrePass
        <3>1. UNCHANGED <<nodeState, toCoord, fromCoord, status, offered>> /\ pc' \notin {"poll", "run"}
            BY <2>3 DEF PrePass, partitionerVars, treeVars
        <3>2. subnodes' = subnodes \/ (subnodes' = TakeRoot /\ treeResult = "unsolved")
            BY <2>3 DEF PrePass, Settled
        <3>3. CASE subnodes' = TakeRoot /\ treeResult = "unsolved" /\ subnodes' # subnodes
            <4>1. subnodes' = <<Root>> /\ status[Root] # "none" /\ status[Root] # "unsat"
                BY <3>3 DEF TakeRoot, CutsInv
            <4>2. nodeState[Root] = "waiting"
                BY <2>0, <4>1, SpaceShape DEF TasksAnnounced
            <4>3. Elements(subnodes') = {Root}
                BY <4>1 DEF Elements
            <4> QED
                BY <2>1, <3>1, <4>2, <4>3
        <3> QED
            BY <2>1, <2>q, <3>1, <3>2, <3>3
    <2>4. CASE ExpandNode
        <3>1. UNCHANGED <<nodeState, toCoord, fromCoord, status, offered>> /\ pc = "expand"
            BY <2>4 DEF ExpandNode, partitionerVars, treeVars
        <3>2. PICK n \in Nodes, t \in Seq(Nodes), u \in Seq(Nodes) :
                /\ Elements(subnodes') = Elements(t) \cup Elements(u)
                /\ n \in Elements(subnodes) /\ Elements(t) \subseteq Elements(subnodes)
                /\ \/ u = <<n>> /\ pc' = "wait"
                   \/ Expandable(n) /\ u = Expanded(n) /\ pc' = pc
            BY <2>4, QueueAfter DEF IsoTypes
        <3>3. \A k \in Elements(u) : nodeState[k] = "waiting"
            <4>1. CASE u = <<n>>
                <5>1. Elements(u) = {n}
                    BY <4>1 DEF Elements
                <5> QED
                    BY <2>0, <3>2, <5>1 DEF TasksAnnounced
            <4>2. CASE Expandable(n) /\ u = Expanded(n)
                <5>1. Elements(u) = {k \in Kids[n] : status[k] = "unsolved"} /\ Kids[n] \subseteq Nodes
                    BY <4>2, ExpandedOpen, SpaceShape
                <5> QED
                    BY <2>0, <5>1 DEF TasksAnnounced
            <4> QED
                BY <3>2, <4>1, <4>2
        <3>4. \A k \in Elements(subnodes') : nodeState[k] = "waiting"
            BY <2>0, <3>2, <3>3 DEF TasksAnnounced
        <3>5. pc' \notin {"poll", "run"}
            BY <3>1, <3>2
        <3> QED
            BY <2>1, <3>1, <3>4, <3>5
    <2>5. CASE IsoReceive /\ ReceiveLine
        <3>1. UNCHANGED <<nodeState, fromCoord, pc>>
            BY <2>5 DEF ReceiveLine
        <3>2. UNCHANGED <<subnodes, offered>>
            BY <2>5 DEF IsoReceive, isoVars
        <3>3. /\ \A n \in Nodes : status'[n] \in {"none", "unsolved", "unsat"}
              /\ \A n \in Nodes : status'[n] = "unsolved" => nodeState[n] = "waiting"
              /\ \A i \in DOMAIN toCoord' : i + 1 \in DOMAIN toCoord /\ toCoord'[i] = toCoord[i + 1]
            BY <2>0, <2>5, ReadingBefore
        <3>4. TasksAnnounced'
            BY <2>0, <3>1, <3>2, <3>3 DEF TasksAnnounced
        <3> QED
            BY <2>0, <3>1, <3>2, <3>3, <3>4
    <2>6. CASE HandOver
        BY <2>6 DEF HandOver
    <2>7. CASE MainPass \/ MainPoll \/ RunTask \/ EndRun
        BY <1>2, <2>0, <2>7 DEF MainPass, MainPoll, RunTask, EndRun, PollSat, PollEndedNode, PollStillSolving,
                                PollUnsat, PollGivenUp, Polled, EndPoll
    <2>8. CASE IsoPartitionerStep
        <3>1. PartitionerNext /\ UNCHANGED <<status, pc, subnodes, offered>>
            BY <2>8 DEF IsoPartitionerStep, PartitionerStep, coordVars, treeVars, isoVars
        <3>2. /\ fromCoord' = <<>>
              /\ \A n \in Nodes : nodeState[n] = "waiting" => nodeState'[n] = "waiting"
              /\ \A i \in DOMAIN toCoord' : toCoord'[i].op = "new_unknown_node" =>
                    \/ i \in DOMAIN toCoord /\ toCoord'[i] = toCoord[i]
                    \/ toCoord'[i].node \in Nodes /\ nodeState'[toCoord'[i].node] = "waiting"
            BY <2>0, <3>1, ProcessUntold
        <3>3. Elements(subnodes) \subseteq Nodes
            BY JoinedElements DEF IsoTypes
        <3>4. TasksAnnounced'
            <4>1. \A n \in Nodes : status'[n] = "unsolved" => nodeState'[n] = "waiting"
                BY <2>0, <3>1, <3>2 DEF TasksAnnounced
            <4>2. \A i \in DOMAIN toCoord' : toCoord'[i].op = "new_unknown_node" =>
                    nodeState'[toCoord'[i].node] = "waiting"
                BY <1>0, <2>0, <3>2 DEF TasksAnnounced
            <4>3. \A n \in Elements(subnodes') : nodeState'[n] = "waiting"
                BY <2>0, <3>1, <3>2, <3>3 DEF TasksAnnounced
            <4> QED
                BY <4>1, <4>2, <4>3 DEF TasksAnnounced
        <3> QED
            BY <2>0, <3>1, <3>2, <3>4
    <2>9. CASE UNCHANGED allVars
        BY <2>0, <2>1, <2>q, <2>9 DEF allVars, vars, isoVars, partitionerVars, coordVars, treeVars
    <2> QED
        BY <2>2, <2>3, <2>4, <2>5, <2>6, <2>7, <2>8, <2>9 DEF IsoNext, IsoReceive
<1> QED
    BY <1>1, <1>2

-----------------------------------------------------------------------------
(* The queue.                                                              *)

(* Below every node there is a leaf.                                       *)
LEMMA LeafBelow ==
    ASSUME NEW n \in Nodes
    PROVE  \E l \in Leaves : n \in Up[l]
<1> DEFINE T == {d \in Nodes : n \in Up[d]}
<1>1. n \in T
    BY SelfUp
<1>2. PICK d \in T : \A m \in T : Depth(m) <= Depth(d)
    BY <1>1, Deepest
<1>3. d \in Nodes /\ n \in Up[d]
    BY <1>2
<1>4. SUFFICES ASSUME NEW k \in Kids[d] PROVE FALSE
    BY <1>3 DEF Leaves
<1>5. k \in Nodes /\ Above(k) = Up[d]
    BY <1>3, <1>4, KidFacts
<1>6. k \in T
    BY <1>3, <1>5 DEF Above
<1>7. Depth(k) = Depth(d) + 1 /\ Depth(d) \in Nat
    BY <1>3, <1>4, Depths
<1> QED
    BY <1>2, <1>6, <1>7

(* When every leaf has an unsat mark on its way to the root, so has the    *)
(* root itself.                                                            *)
LEMMA MarksReachRoot ==
    ASSUME RoundInv, UnsatClimbs, status[Root] # "none",
           \A l \in Leaves : \E a \in Up[l] : status[a] = "unsat"
    PROVE  status[Root] = "unsat"
<1>0. Root \in Nodes /\ Up[Root] = {Root}
    BY SpaceShape
<1> DEFINE T == {m \in Nodes : status[m] # "none" /\ \A a \in Up[m] : status[a] # "unsat"}
<1>1. SUFFICES ASSUME Root \in T PROVE FALSE
    BY <1>0
<1>2. PICK n \in T : \A m \in T : Depth(m) <= Depth(n)
    BY <1>1, Deepest
<1>3. n \in Nodes /\ n \in Made /\ \A a \in Up[n] : status[a] # "unsat"
    BY <1>2 DEF Made
<1> HIDE DEF T
<1>4. ASSUME NEW k \in Kids[n] PROVE k \in Made
    <2>1. k \in Nodes /\ Up[k] = Up[n] \cup {k}
        BY <1>3, <1>4, KidFacts, SpaceShape
    <2>2. PICK l \in Leaves : k \in Up[l]
        BY <2>1, LeafBelow
    <2>3. PICK a \in Up[l] : status[a] = "unsat"
        BY <2>2
    <2>4. l \in Nodes /\ a \in Nodes
        BY <2>2, <2>3, AboveNodes DEF Leaves
    <2>5. a \in Made
        BY <2>3, <2>4 DEF Made
    <2>6. a \in Up[k] \/ k \in Up[a]
        BY <2>2, <2>3, <2>4, Chain
    <2>7. a \in Up[k] => a = k
        BY <1>3, <2>1, <2>3
    <2>8. Up[a] \subseteq Made
        BY <2>5 DEF RoundInv, UpMade
    <2> QED
        BY <2>5, <2>6, <2>7, <2>8
<1>5. Kids[n] # {}
    <2>1. n \in Leaves => \E a \in Up[n] : status[a] = "unsat"
        OBVIOUS
    <2> QED
        BY <1>3, <2>1 DEF Leaves
<1>6. Len(children[n]) = 2
    <2> DEFINE c == children[n]
    <2>1. c \in Seq(Kids[n]) /\ Len(c) <= 2 /\ Len(c) \in Nat
        BY <1>3 DEF RoundInv, DataTypes, TreeTypeOK
    <2>2. Elements(c) = Kids[n]
        BY <1>3, <1>4 DEF RoundInv, ChildrenMade
    <2>3. PICK x, y \in Nodes : Kids[n] = {x, y} /\ x # y
        BY <1>3, <1>5, SpaceShape
    <2> HIDE DEF c
    <2>4. DOMAIN c = 1 .. Len(c)
        BY <2>1
    <2>5. PICK i, j \in 1 .. Len(c) : c[i] = x /\ c[j] = y
        BY <2>2, <2>3, <2>4 DEF Elements
    <2>6. i # j
        BY <2>3, <2>5
    <2>7. Len(c) = 2
        <3> DEFINE m == Len(c)
        <3>1. m \in Nat /\ m <= 2 /\ i \in 1 .. m /\ j \in 1 .. m
            BY <2>1, <2>5
        <3> HIDE DEF m
        <3>2. m = 2
            BY <2>6, <3>1
        <3> QED
            BY <3>2 DEF m
    <2> QED
        BY <2>7 DEF c
<1>7. PICK k \in Kids[n] : status[k] # "unsat"
    BY <1>3, <1>6, SelfUp DEF UnsatClimbs
<1>8. k \in Nodes /\ Up[k] = Up[n] \cup {k} /\ k \in Made
    BY <1>3, <1>4, <1>7, KidFacts, SpaceShape
<1>9. k \in T
    BY <1>3, <1>7, <1>8 DEF T, Made
<1>10. Depth(k) = Depth(n) + 1 /\ Depth(n) \in Nat
    BY <1>3, <1>7, Depths
<1> QED
    BY <1>2, <1>9, <1>10

(* The queue of the root alone is a cut.                                   *)
LEMMA RootCut == Cut(<<Root>>)
<1> DEFINE s == <<Root>>
<1>1. Len(s) = 1 /\ DOMAIN s = {1} /\ s[1] = Root
    OBVIOUS
<1> HIDE DEF s
<1>2. 1 <= DistCoords
    BY IsolatedConstants
<1>3. Apart(s)
    BY <1>1 DEF Apart
<1>4. Elements(s) = {Root}
    BY <1>1 DEF Elements
<1>5. Covers(s)
    <2>1. \A l \in Leaves : Root \in Up[l]
        BY Paths DEF Leaves
    <2> QED
        BY <1>4, <2>1 DEF Covers
<1>6. Cut(s)
    BY <1>1, <1>2, <1>3, <1>5 DEF Cut
<1> QED
    BY <1>6 DEF s

(* Nodes in place of one of a set of nodes apart that lie below it, apart  *)
(* from one another and not below any other node of the set.               *)
LEMMA ReplacedApart ==
    ASSUME NEW s \in Seq(Nodes), s # <<>>, Apart(s),
           NEW u \in Seq(Nodes),
           \A i \in DOMAIN u : s[1] \in Up[u[i]] /\ Up[u[i]] \subseteq Up[s[1]] \cup {u[i]},
           Apart(u)
    PROVE  Apart(Tail(s) \o u)
<1> DEFINE t == Tail(s)
           q == t \o u
<1>1. /\ t \in Seq(Nodes) /\ Len(s) \in Nat /\ Len(t) = Len(s) - 1 /\ Len(u) \in Nat /\ Len(t) \in Nat
      /\ \A i \in 1 .. Len(t) : i + 1 \in 1 .. Len(s) /\ t[i] = s[i + 1]
      /\ DOMAIN s = 1 .. Len(s) /\ DOMAIN u = 1 .. Len(u) /\ 1 \in 1 .. Len(s)
    OBVIOUS
<1> HIDE DEF t
<1>2. /\ q \in Seq(Nodes) /\ Len(q) = Len(t) + Len(u) /\ DOMAIN q = 1 .. Len(t) + Len(u)
      /\ \A i \in 1 .. Len(t) + Len(u) : q[i] = IF i <= Len(t) THEN t[i] ELSE u[i - Len(t)]
    <2>1. /\ q \in Seq(Nodes) /\ Len(q) = Len(t) + Len(u)
          /\ \A i \in 1 .. Len(t) + Len(u) : q[i] = IF i <= Len(t) THEN t[i] ELSE u[i - Len(t)]
        BY <1>1, ConcatProperties
    <2> HIDE DEF q
    <2>2. DOMAIN q = 1 .. Len(q)
        BY <2>1
    <2> QED
        BY <2>1, <2>2
<1> HIDE DEF q
<1>3. ASSUME NEW i \in DOMAIN q
      PROVE  \/ i <= Len(t) /\ i + 1 \in DOMAIN s /\ i + 1 # 1 /\ q[i] = s[i + 1]
             \/ i > Len(t) /\ i - Len(t) \in DOMAIN u /\ q[i] = u[i - Len(t)]
    <2>1. i \in 1 .. Len(t) + Len(u) /\ i \in Nat
        BY <1>1, <1>2
    <2>2. CASE i <= Len(t)
        <3>1. i \in 1 .. Len(t)
            BY <1>1, <2>1, <2>2
        <3> QED
            BY <1>1, <1>2, <2>1, <2>2, <3>1
    <2>3. CASE ~ (i <= Len(t))
        <3>1. i > Len(t) /\ i - Len(t) \in 1 .. Len(u)
            BY <1>1, <2>1, <2>3
        <3> QED
            BY <1>1, <1>2, <2>1, <2>3, <3>1
    <2> QED
        BY <2>2, <2>3
<1>4. SUFFICES ASSUME NEW i \in DOMAIN q, NEW j \in DOMAIN q, i # j
               PROVE  q[i] \notin Up[q[j]]
    BY DEF Apart, q, t
<1>5. i \in Nat /\ j \in Nat
    BY <1>1, <1>2
<1>6. CASE i <= Len(t) /\ j <= Len(t)
    <2>1. /\ i + 1 \in DOMAIN s /\ q[i] = s[i + 1]
          /\ j + 1 \in DOMAIN s /\ q[j] = s[j + 1] /\ i + 1 # j + 1
        BY <1>1, <1>3, <1>4, <1>5, <1>6
    <2> QED
        BY <2>1 DEF Apart
<1>7. CASE i <= Len(t) /\ j > Len(t)
    <2>1. /\ i + 1 \in DOMAIN s /\ i + 1 # 1 /\ q[i] = s[i + 1]
          /\ j - Len(t) \in DOMAIN u /\ q[j] = u[j - Len(t)]
        BY <1>1, <1>3, <1>5, <1>7
    <2>2. s[i + 1] \notin Up[s[1]] /\ s[1] \notin Up[s[i + 1]]
        BY <1>1, <2>1 DEF Apart
    <2> QED
        BY <2>1, <2>2
<1>8. CASE i > Len(t) /\ j <= Len(t)
    <2>1. /\ j + 1 \in DOMAIN s /\ j + 1 # 1 /\ q[j] = s[j + 1] /\ q[j] \in Nodes
          /\ i - Len(t) \in DOMAIN u /\ q[i] = u[i - Len(t)]
        BY <1>1, <1>3, <1>5, <1>8
    <2>2. s[1] \notin Up[s[j + 1]]
        BY <1>1, <2>1 DEF Apart
    <2>3. s[1] \in Up[q[i]]
        BY <2>1
    <2>4. q[i] \in Up[q[j]] => Up[q[i]] \subseteq Up[q[j]]
        BY <2>1, Paths
    <2> QED
        BY <2>1, <2>2, <2>3, <2>4
<1>9. CASE i > Len(t) /\ j > Len(t)
    <2>1. /\ i - Len(t) \in DOMAIN u /\ q[i] = u[i - Len(t)]
          /\ j - Len(t) \in DOMAIN u /\ q[j] = u[j - Len(t)] /\ i - Len(t) # j - Len(t)
        BY <1>1, <1>3, <1>4, <1>5, <1>9
    <2> QED
        BY <2>1 DEF Apart
<1> QED
    BY <1>1, <1>5, <1>6, <1>7, <1>8, <1>9

(* One expansion takes a cut to a cut that is not empty.                   *)
LEMMA ExpandCut ==
    ASSUME RoundInv, UnsatClimbs, subnodes \in Seq(Nodes), Cut(subnodes), ExpandNode,
           status[Root] = "unsolved",
           \A n \in Nodes : status[n] \in {"none", "unsolved", "unsat"}
    PROVE  Cut(subnodes') /\ subnodes' # <<>>
<1>1. /\ subnodes # <<>> /\ Len(subnodes) < DistCoords /\ Apart(subnodes) /\ Covers(subnodes)
      /\ Len(subnodes) \in Nat /\ DistCoords \in Nat /\ Head(subnodes) = subnodes[1]
    BY IsolatedConstants, MaxRunningType DEF ExpandNode, Cut
<1>2. PICK n \in Nodes, t \in Seq(Nodes), u \in Seq(Nodes) :
        /\ n = Head(subnodes) /\ t = Tail(subnodes) /\ subnodes' = t \o u
        /\ Elements(subnodes') = Elements(t) \cup Elements(u)
        /\ Elements(subnodes) \subseteq {n} \cup Elements(t)
        /\ \/ u = <<n>>
           \/ Expandable(n) /\ u = Expanded(n)
    BY QueueAfter
<1> DEFINE q == t \o u
<1>3. /\ Len(q) = Len(t) + Len(u) /\ q \in Seq(Nodes) /\ Len(t) \in Nat /\ Len(u) \in Nat
    BY ConcatProperties
<1>4. Len(t) = Len(subnodes) - 1
    BY <1>1, <1>2
<1> HIDE DEF q
<1>5. /\ Len(u) <= 2
      /\ Apart(u)
      /\ \A i \in DOMAIN u : n \in Up[u[i]] /\ Up[u[i]] \subseteq Up[n] \cup {u[i]}
      /\ \A l \in Leaves : n \in Up[l] => \/ Up[l] \cap Elements(u) # {}
                                          \/ \E a \in Up[l] : status[a] = "unsat"
    <2>1. CASE u = <<n>>
        <3>1. Len(u) = 1 /\ DOMAIN u = {1} /\ u[1] = n
            BY <2>1
        <3>2. Elements(u) = {n}
            BY <3>1 DEF Elements
        <3>3. Apart(u)
            BY <3>1 DEF Apart
        <3> QED
            BY <3>1, <3>2, <3>3, SelfUp
    <2>2. CASE Expandable(n) /\ u = Expanded(n)
        <3>1. /\ Len(u) <= 2
              /\ \A i, j \in DOMAIN u : i # j => u[i] # u[j]
              /\ Elements(u) = {k \in Kids[n] : status[k] = "unsolved"}
              /\ Kids[n] # {} /\ Kids[n] \subseteq Made
            BY <2>2, ExpandedOpen
        <3>2. \A i \in DOMAIN u : u[i] \in Kids[n]
            BY <3>1 DEF Elements
        <3>3. \A k \in Kids[n] : k \in Nodes /\ k \notin Up[n] /\ Up[k] = Up[n] \cup {k}
            BY KidFacts, SpaceShape
        <3>4. Apart(u)
            BY <3>1, <3>2, <3>3 DEF Apart
        <3>5. ASSUME NEW l \in Leaves, n \in Up[l]
              PROVE  \/ Up[l] \cap Elements(u) # {}
                     \/ \E a \in Up[l] : status[a] = "unsat"
            <4>1. l \in Nodes /\ n \in Above(l)
                BY <3>1, <3>5 DEF Leaves, Above
            <4>2. PICK k \in Kids[n] : k \in Up[l]
                BY <4>1, Paths
            <4>3. k \in Nodes /\ status[k] \in {"unsolved", "unsat"}
                BY <3>1, <3>3, <4>2 DEF Made
            <4> QED
                BY <3>1, <4>2, <4>3
        <3> QED
            BY <3>1, <3>2, <3>3, <3>4, <3>5, SelfUp
    <2> QED
        BY <1>2, <2>1, <2>2
<1>6. Apart(q)
    BY <1>1, <1>2, <1>5, ReplacedApart DEF q
<1>7. Covers(q)
    <2>1. SUFFICES ASSUME NEW l \in Leaves, \A a \in Up[l] : status[a] # "unsat"
                   PROVE  Up[l] \cap Elements(q) # {}
        BY DEF Covers
    <2>2. PICK a \in Up[l] : a \in Elements(subnodes)
        BY <1>1, <2>1 DEF Covers
    <2>3. Elements(q) = Elements(t) \cup Elements(u)
        BY <1>2 DEF q
    <2>4. CASE a = n
        <3>1. Up[l] \cap Elements(u) # {}
            BY <1>5, <2>1, <2>2, <2>4
        <3> QED
            BY <2>3, <3>1
    <2>5. CASE a \in Elements(t)
        BY <2>2, <2>3, <2>5
    <2>6. a = n \/ a \in Elements(t)
        BY <1>2, <2>2
    <2> QED
        BY <2>4, <2>5, <2>6
<1>8. q # <<>>
    <2>1. SUFFICES ASSUME q = <<>> PROVE FALSE
        OBVIOUS
    <2>2. Elements(q) = {}
        BY <2>1, ListElements
    <2>3. \A l \in Leaves : \E a \in Up[l] : status[a] = "unsat"
        BY <1>7, <2>2 DEF Covers
    <2> QED
        BY <2>3, MarksReachRoot
<1>9. Len(q) <= DistCoords
    BY <1>1, <1>3, <1>4, <1>5
<1> QED
    BY <1>2, <1>6, <1>7, <1>8, <1>9 DEF Cut, q

(* Marks stay, made nodes stay made.                                       *)
LEMMA TreeStays ==
    ASSUME RoundInv, [IsoNext \/ IsoPartitionerStep]_allVars
    PROVE  /\ \A n \in Nodes : status[n] = "unsat" => status'[n] = "unsat"
           /\ \A n \in Nodes : status[n] # "none" => status'[n] # "none"
           /\ (status[Root] = "unsat" => treeResult # "unsolved")
                => (status'[Root] = "unsat" => treeResult' # "unsolved")
<1>1. CASE OwnStep
    BY <1>1 DEF OwnStep
<1>2. CASE SharedStep
    <2>1. [Next]_vars
        BY <1>2 DEF SharedStep
    <2>2. \A n \in Nodes : TreeMoves(n)
        BY <2>1, TreeStep
    <2>3. /\ \A n \in Nodes : status[n] = "unsat" => status'[n] = "unsat"
          /\ \A n \in Nodes : status[n] # "none" => status'[n] # "none"
        BY <2>2 DEF TreeMoves
    <2>4. CASE NoMarking
        BY <2>3, <2>4, SpaceShape DEF NoMarking
    <2>5. ASSUME NEW n \in Nodes, NEW st \in [Nodes -> Statuses], Marking(n, st)
          PROVE  (status[Root] = "unsat" => treeResult # "unsolved")
                   => (status'[Root] = "unsat" => treeResult' # "unsolved")
        <3> DEFINE marks == SolvedMarks(st, children', n)
        <3>1. /\ st[Root] = "unsat" <=> status[Root] = "unsat"
              /\ status' = MarkUnsat(st, marks)
              /\ treeResult' = ResultAfter(marks)
              /\ Root \in Nodes
            BY <2>5, SpaceShape DEF Marking
        <3> HIDE DEF marks
        <3>2. CASE Root \in marks
            BY <3>1, <3>2 DEF ResultAfter
        <3>3. CASE Root \notin marks
            <4>1. status'[Root] = st[Root]
                BY <3>1, <3>3 DEF MarkUnsat
            <4> QED
                BY <3>1, <3>3, <4>1 DEF ResultAfter
        <3> QED
            BY <3>2, <3>3
    <2> QED
        BY <2>1, <2>3, <2>4, <2>5, MarkingStep
<1> QED
    BY <1>1, <1>2, IsoSteps

(* A cut is one as long as marks stay.                                     *)
LEMMA CutStays ==
    ASSUME NEW s, Cut(s), UNCHANGED s, \A n \in Nodes : status[n] = "unsat" => status'[n] = "unsat"
    PROVE  Cut(s)'
<1>1. ASSUME s # <<>>, NEW l \in Leaves
      PROVE  \/ Up[l] \cap Elements(s) # {}
             \/ \E a \in Up[l] : status'[a] = "unsat"
    <2>1. CASE Up[l] \cap Elements(s) # {}
        BY <2>1
    <2>2. CASE \E a \in Up[l] : status[a] = "unsat"
        <3>1. Up[l] \subseteq Nodes
            BY AboveNodes DEF Leaves
        <3> QED
            BY <2>2, <3>1
    <2> QED
        BY <1>1, <2>1, <2>2 DEF Cut, Covers
<1>2. Elements(s)' = Elements(s)
    BY DEF Elements
<1> QED
    BY <1>1, <1>2 DEF Cut, Covers, Apart

(* The queue and what was handed over are cuts.                            *)
LEMMA CutsStep ==
    ASSUME RoundInv, UnsatClimbs, IsoTypes, PreQuiet, CutsInv, [IsoNext \/ IsoPartitionerStep]_allVars
    PROVE  CutsInv'
<1>0. /\ \A n \in Nodes : status[n] = "unsat" => status'[n] = "unsat"
      /\ \A n \in Nodes : status[n] # "none" => status'[n] # "none"
      /\ (status[Root] = "unsat" => treeResult # "unsolved")
           => (status'[Root] = "unsat" => treeResult' # "unsolved")
    BY TreeStays
<1>1. Root \in Nodes /\ status[Root] \in Statuses
    BY SpaceShape DEF RoundInv, DataTypes, TreeTypeOK
<1>2. status'[Root] = "unsat" => treeResult' # "unsolved"
    BY <1>0 DEF CutsInv
<1>3. ASSUME UNCHANGED <<subnodes, offered, stage>>,
             pc' = "expand" => pc = "expand" /\ status' = status,
             pc' \in {"offer", "wait"} => stage = "pre"
      PROVE  CutsInv'
    <2>1. Cut(subnodes)' /\ Cut(offered)'
        BY <1>0, <1>3, CutStays DEF CutsInv
    <2>2. pc' = "expand" => stage' = "pre" /\ status'[Root] = "unsolved" /\ subnodes' # <<>>
        BY <1>3 DEF CutsInv
    <2>3. pc' \in {"offer", "wait"} => stage' = "pre"
        BY <1>3
    <2>4. (subnodes' # <<>> => status'[Root] # "none") /\ (stage' = "main" => offered' # <<>>)
        BY <1>0, <1>1, <1>3 DEF CutsInv
    <2> QED
        BY <1>2, <2>1, <2>2, <2>3, <2>4 DEF CutsInv
<1>4. CASE OriginalAnswers \/ OriginalFails \/ OriginalStillSolving \/ EnoughSubnodes \/ Again \/ TimeOver \/ Terminated
    <2>1. /\ UNCHANGED <<subnodes, offered, stage>> /\ pc' # "expand"
          /\ pc' \in {"offer", "wait"} => stage = "pre"
        BY <1>4 DEF OriginalAnswers, OriginalFails, OriginalStillSolving, BeginPass, EnoughSubnodes, Again,
                    TimeOver, Terminated, isoVars, CutsInv
    <2> QED
        BY <1>3, <2>1
<1>5. CASE IsoReceive
    <2>1. UNCHANGED <<subnodes, offered, stage>> /\ pc' = "receive"
        BY <1>5 DEF IsoReceive, ReceiveLine, ReceiveEof, isoVars
    <2> QED
        BY <1>3, <2>1
<1>6. CASE MainPass \/ IsoReport \/ ((RunTask \/ EndRun) /\ UNCHANGED isoVars)
    <2>1. UNCHANGED <<subnodes, offered, stage>> /\ pc' \notin {"expand", "offer", "wait"}
        BY <1>6 DEF MainPass, EndReceive, IsoReport, RoundDone, RunTask, EndRun, isoVars
    <2> QED
        BY <1>3, <2>1
<1>7. CASE MainPoll
    <2>1. UNCHANGED <<subnodes, offered, stage>> /\ pc' \notin {"expand", "offer", "wait"}
        BY <1>7 DEF MainPoll, PollSat, PollEndedNode, PollStillSolving, PollUnsat, PollGivenUp, Polled, AfterPoll,
                    EndPoll, isoVars
    <2> QED
        BY <1>3, <2>1
<1>8. CASE IsoPartitionerStep \/ UNCHANGED allVars
    <2>1. UNCHANGED <<subnodes, offered, stage, pc, status>>
        BY <1>8 DEF IsoPartitionerStep, PartitionerStep, coordVars, treeVars, allVars, vars, isoVars
    <2> QED
        BY <1>3, <2>1 DEF CutsInv
<1>9. CASE PrePass
    <2>1. /\ UNCHANGED <<offered, stage, status>> /\ stage = "pre"
          /\ \/ subnodes' = subnodes /\ pc' \in {"offer", "report"}
             \/ /\ treeResult = "unsolved" /\ subnodes' = TakeRoot
                /\ pc' = IF subnodes' = <<>> THEN "wait" ELSE "expand"
        BY <1>9 DEF PrePass, treeVars, Settled
    <2>2. CASE subnodes' = subnodes /\ pc' \in {"offer", "report"}
        BY <1>3, <2>1, <2>2
    <2>3. CASE treeResult = "unsolved" /\ subnodes' = TakeRoot /\ pc' = IF subnodes' = <<>> THEN "wait" ELSE "expand"
        <3>1. Cut(TakeRoot) /\ (TakeRoot # <<>> => status[Root] # "none")
            BY RootCut DEF TakeRoot, CutsInv
        <3>2. Cut(subnodes)'
            <4>1. Cut(subnodes')
                BY <2>3, <3>1
            <4> QED
                BY <2>1, <4>1 DEF Cut, Covers
        <3>3. Cut(offered)'
            BY <1>0, <2>1, CutStays DEF CutsInv
        <3>4. subnodes' # <<>> => status[Root] = "unsolved"
            BY <1>1, <2>1, <2>3, <3>1 DEF PreQuiet, CutsInv
        <3> QED
            BY <1>2, <2>1, <2>3, <3>1, <3>2, <3>3, <3>4 DEF CutsInv
    <2> QED
        BY <2>1, <2>2, <2>3
<1>10. CASE ExpandNode
    <2>1. UNCHANGED <<status, offered, stage>> /\ pc = "expand" /\ pc' \in {pc, "wait"}
        BY <1>10 DEF ExpandNode, treeVars
    <2>2. stage = "pre" /\ status[Root] = "unsolved"
        BY <2>1 DEF CutsInv
    <2>3. \A n \in Nodes : status[n] \in {"none", "unsolved", "unsat"}
        BY <2>2 DEF PreQuiet
    <2>4. Cut(subnodes') /\ subnodes' # <<>>
        BY <1>10, <2>2, <2>3, ExpandCut DEF CutsInv, IsoTypes
    <2>5. Cut(subnodes)'
        BY <2>1, <2>4 DEF Cut, Covers
    <2>6. Cut(offered)'
        BY <1>0, <2>1, CutStays DEF CutsInv
    <2> QED
        BY <1>2, <2>1, <2>2, <2>4, <2>5, <2>6 DEF CutsInv
<1>11. CASE HandOver
    <2>1. /\ UNCHANGED <<status, subnodes>> /\ stage' = "main" /\ pc' = "leader"
          /\ offered' = IF subnodes = <<>> THEN <<Root>> ELSE subnodes
        BY <1>11 DEF HandOver, treeVars
    <2>2. Cut(IF subnodes = <<>> THEN <<Root>> ELSE subnodes)
        BY RootCut DEF CutsInv
    <2>3. Cut(offered)'
        <3>1. Cut(offered')
            BY <2>1, <2>2
        <3> QED
            BY <2>1, <3>1 DEF Cut, Covers
    <2>4. Cut(subnodes)'
        BY <1>0, <2>1, CutStays DEF CutsInv
    <2>5. offered' # <<>>
        BY <2>1
    <2>6. subnodes' # <<>> => status'[Root] # "none"
        BY <2>1 DEF CutsInv
    <2> QED
        BY <1>2, <2>1, <2>3, <2>4, <2>5, <2>6 DEF CutsInv
<1> QED
    BY <1>4, <1>5, <1>6, <1>7, <1>8, <1>9, <1>10, <1>11 DEF IsoNext

-----------------------------------------------------------------------------
(* The model.                                                              *)

(* A process that decided the formula alone prints nothing else.           *)
LEMMA NoTreeStays ==
    ASSUME RoundInv, NoTree, [IsoNext \/ IsoPartitionerStep]_allVars
    PROVE  NoTree'
<1>0. toCoord \in Seq(Lines)
    BY DEF RoundInv, DataTypes, PartitionerTypeOK
<1>1. ~ PartitionerNext
    BY DEF NoTree, PartitionerNext, ParseLine, StartSelect, SkipNode, RefuteNode, Convertible, BuildTask, Finish, Announce
<1>2. CASE OwnStep
    BY <1>2 DEF OwnStep, NoTree, Made, partitionerVars
<1>3. CASE SharedStep
    <2>1. [Next]_vars
        BY <1>3 DEF SharedStep
    <2>2. CASE ReceiveLine
        <3>1. toCoord # <<>> /\ toCoord' = Tail(toCoord) /\ phase' = phase
            BY <2>2 DEF ReceiveLine
        <3>2. \A i \in DOMAIN toCoord' : i + 1 \in DOMAIN toCoord /\ toCoord'[i] = toCoord[i + 1]
            BY <1>0, <3>1
        <3>3. Head(toCoord).op = "verdict"
            <4>1. 1 \in DOMAIN toCoord /\ Head(toCoord) = toCoord[1]
                BY <1>0, <3>1
            <4> QED
                BY <4>1 DEF NoTree
        <3>4. Made' = Made
            BY <2>1, <3>3, MadeStep DEF Named
        <3> QED
            BY <3>1, <3>2, <3>4 DEF NoTree
    <2>3. CASE ~ ReceiveLine
        <3>1. Made' = Made
            BY <2>1, <2>3, MadeStep
        <3>2. UNCHANGED <<phase, toCoord>>
            BY <1>1, <2>1, <2>3, <1>3
               DEF SharedStep, Next, CoordinatorNext, PartitionerStep, ReceiveEof, EndReceive, PollEndedNode,
                   PollStillSolving, PollSat, PollUnsat, PollGivenUp, Send, EndPoll, RunTask, EndRun, SplitOff,
                   WriteLine, NextPass, RoundDone, vars, coordVars, partitionerVars
        <3> QED
            BY <3>1, <3>2 DEF NoTree
    <2> QED
        BY <2>2, <2>3
<1> QED
    BY <1>2, <1>3, IsoSteps

(* A verdict sat only ever stands in the pipe of such a process.           *)
LEMMA SatLinesStep ==
    ASSUME RoundInv, [IsoNext \/ IsoPartitionerStep]_allVars,
           \A i \in DOMAIN toCoord : toCoord[i].op = "verdict" /\ toCoord[i].result = "sat" => NoTree
    PROVE  \A i \in DOMAIN toCoord' : toCoord'[i].op = "verdict" /\ toCoord'[i].result = "sat" => NoTree'
<1>0. toCoord \in Seq(Lines)
    BY DEF RoundInv, DataTypes, PartitionerTypeOK
<1> SUFFICES ASSUME NEW i \in DOMAIN toCoord', toCoord'[i].op = "verdict", toCoord'[i].result = "sat"
             PROVE  \E j \in DOMAIN toCoord : toCoord[j] = toCoord'[i]
    BY NoTreeStays
<1>1. CASE UNCHANGED toCoord
    BY <1>1
<1>2. CASE ReceiveLine
    <2>1. toCoord # <<>> /\ toCoord' = Tail(toCoord)
        BY <1>2 DEF ReceiveLine
    <2>2. i + 1 \in DOMAIN toCoord /\ toCoord'[i] = toCoord[i + 1]
        BY <1>0, <2>1
    <2> QED
        BY <2>2
<1>3. ASSUME NEW l, l.op = "verdict" => l.result # "sat", toCoord' = Append(toCoord, l)
      PROVE  \E j \in DOMAIN toCoord : toCoord[j] = toCoord'[i]
    <2>1. \A j \in DOMAIN toCoord' : (j \in DOMAIN toCoord /\ toCoord'[j] = toCoord[j]) \/ toCoord'[j] = l
        BY <1>0, <1>3
    <2> QED
        BY <1>3, <2>1
<1>4. ASSUME NEW n \in Nodes, RefuteNode(n)
      PROVE  \E j \in DOMAIN toCoord : toCoord[j] = toCoord'[i]
    <2>1. toCoord' = Append(toCoord, NewUnsat(n)) /\ NewUnsat(n).op # "verdict"
        BY <1>4 DEF RefuteNode, NewUnsat
    <2> QED
        BY <1>3, <2>1
<1>5. CASE Finish
    <2>1. /\ toCoord' = Append(toCoord, Verdict(IF aliveTasks > 0 THEN "unknown" ELSE "unsat"))
          /\ Verdict(IF aliveTasks > 0 THEN "unknown" ELSE "unsat").result # "sat"
        BY <1>5 DEF Finish, Verdict
    <2> QED
        BY <1>3, <2>1
<1>6. CASE Announce
    BY <1>6, AnnouncesNoVerdict
<1>7. CASE PartitionerNext
    BY <1>1, <1>4, <1>5, <1>6, <1>7 DEF PartitionerNext, ParseLine, StartSelect, SkipNode, BuildTask
<1>8. CASE OwnStep
    BY <1>1, <1>8 DEF OwnStep, partitionerVars
<1>9. CASE SharedStep
    BY <1>1, <1>2, <1>7, <1>9
       DEF SharedStep, Next, CoordinatorNext, PartitionerStep, ReceiveEof, EndReceive, PollEndedNode,
           PollStillSolving, PollSat, PollUnsat, PollGivenUp, Send, EndPoll, RunTask, EndRun, SplitOff,
           WriteLine, NextPass, RoundDone, vars, coordVars, partitionerVars
<1> QED
    BY <1>8, <1>9, IsoSteps

(* The result of the tree is sat only with a model.                        *)
LEMMA TreeModelStep ==
    ASSUME treeResult = "sat" => modelDone, [IsoNext \/ IsoPartitionerStep]_allVars
    PROVE  /\ modelDone => modelDone'
           /\ treeResult' = "sat" => modelDone'
<1>1. CASE \/ OriginalAnswers \/ OriginalFails \/ OriginalStillSolving \/ PrePass \/ ExpandNode \/ EnoughSubnodes
           \/ Again \/ TimeOver \/ HandOver \/ Terminated \/ MainPass \/ IsoReport \/ UNCHANGED allVars
           \/ ((RunTask \/ EndRun) /\ UNCHANGED isoVars) \/ IsoPartitionerStep
    BY <1>1 DEF OriginalAnswers, OriginalFails, OriginalStillSolving, BeginPass, PrePass, ExpandNode, EnoughSubnodes,
                Again, TimeOver, HandOver, Terminated, MainPass, EndReceive, IsoReport, RoundDone, RunTask, EndRun,
                IsoPartitionerStep, PartitionerStep, coordVars, treeVars, allVars, vars, isoVars
<1>2. CASE IsoReceive
    <2>1. modelDone => modelDone'
        BY <1>2 DEF IsoReceive, isoVars
    <2>2. treeResult' = "sat" => treeResult = "sat"
        BY <1>2 DEF IsoReceive, ReceiveLine, ReceiveEof, ReceiveVerdict, ReceiveNewUnsatNode,
                    ReceiveNewUnknownNode, NodeSolvedUnsat, ResultAfter, treeVars
    <2> QED
        BY <2>1, <2>2
<1>3. CASE MainPoll
    <2>1. CASE modelDone' = TRUE
        BY <2>1
    <2>2. CASE modelDone' # TRUE
        <3>1. UNCHANGED modelDone /\ (treeResult' = "sat" => treeResult = "sat")
            BY <1>3, <2>2 DEF MainPoll, PollEndedNode, PollStillSolving, PollUnsat, PollGivenUp, EndPoll,
                              NodeSolvedUnsat, ResultAfter, treeVars, isoVars
        <3> QED
            BY <3>1
    <2> QED
        BY <2>1, <2>2
<1> QED
    BY <1>1, <1>2, <1>3 DEF IsoNext

(* A result sat comes with its model or from such a process.               *)
LEMMA ModelStep ==
    ASSUME RoundInv, IsoTypes, ModelInv, [IsoNext \/ IsoPartitionerStep]_allVars
    PROVE  ModelInv'
<1>0. /\ modelDone => modelDone'
      /\ treeResult' = "sat" => modelDone'
      /\ NoTree => NoTree'
      /\ \A i \in DOMAIN toCoord' : toCoord'[i].op = "verdict" /\ toCoord'[i].result = "sat" => NoTree'
    BY TreeModelStep, NoTreeStays, SatLinesStep DEF ModelInv
<1>1. ASSUME reader' = "receive_done" => modelDone',
             result' = "sat" => modelDone' \/ NoTree \/ result = "sat",
             stage' = "main" /\ pc' = "report" /\ result' = "sat" => modelDone'
      PROVE  ModelInv'
    <2>1. result' = "sat" /\ ~ modelDone' => NoTree'
        BY <1>0, <1>1 DEF ModelInv
    <2>2. ModelCompleteInMain'
        BY <1>1 DEF ModelCompleteInMain, ModelComplete
    <2> QED
        BY <1>0, <1>1, <2>1, <2>2 DEF ModelInv
<1>2. CASE OriginalAnswers
    <2>1. /\ reader' = reader /\ result' = IF Root \in Sat THEN "sat" ELSE "unsat"
          /\ modelDone' = (modelDone \/ Root \in Sat)
        BY <1>2 DEF OriginalAnswers
    <2> QED
        BY <1>1, <2>1 DEF ModelInv
<1>3. CASE OriginalFails \/ OriginalStillSolving
    <2>1. reader' \in {reader, Checked} /\ result' = result /\ modelDone' = modelDone /\ pc' = "receive"
        BY <1>3 DEF OriginalFails, OriginalStillSolving, BeginPass, isoVars
    <2>2. reader' = "receive_done" => reader = "receive_done"
        BY <2>1 DEF Checked
    <2> QED
        BY <1>1, <2>1, <2>2 DEF ModelInv
<1>4. CASE IsoReceive /\ ReceiveLine
    <2>1. reader' = reader /\ pc' = "receive"
        BY <1>4 DEF ReceiveLine
    <2>2. toCoord # <<>> /\ toCoord \in Seq(Lines)
        BY <1>4 DEF ReceiveLine, RoundInv, DataTypes, PartitionerTypeOK
    <2>3. 1 \in DOMAIN toCoord /\ Head(toCoord) = toCoord[1]
        BY <2>2
    <2>4. result' = "sat" => \/ result = "sat" \/ treeResult' = "sat"
                             \/ Head(toCoord).op = "verdict" /\ Head(toCoord).result = "sat"
        BY <1>4 DEF ReceiveLine, ReceiveVerdict, ReceiveNewUnsatNode, ReceiveNewUnknownNode, Settled
    <2>5. result' = "sat" => modelDone' \/ NoTree \/ result = "sat"
        BY <1>0, <2>3, <2>4 DEF ModelInv
    <2> QED
        BY <1>0, <1>1, <2>1, <2>5 DEF ModelInv
<1>5. CASE IsoReceive /\ ReceiveEof
    <2>1. pc' = "receive" /\ result' = result
        BY <1>5 DEF ReceiveEof
    <2>2. modelDone' = TRUE
        BY <1>5 DEF IsoReceive, ReceiveLine, ReceiveEof
    <2> QED
        BY <1>1, <2>1, <2>2
<1>6. CASE PrePass
    <2>1. /\ UNCHANGED <<reader, treeResult, modelDone, stage>> /\ stage = "pre"
          /\ result' \in {result, Settled(result, treeResult)}
        BY <1>6 DEF PrePass, treeVars
    <2>2. result' = "sat" => modelDone' \/ result = "sat"
        BY <2>1 DEF Settled, ModelInv
    <2> QED
        BY <1>1, <2>1, <2>2 DEF ModelInv
<1>7. CASE ExpandNode \/ EnoughSubnodes \/ Again \/ TimeOver \/ HandOver \/ Terminated \/ IsoReport
           \/ ((RunTask \/ EndRun) /\ UNCHANGED isoVars)
    <2>1. UNCHANGED <<reader, result, modelDone>> /\ pc' # "report"
        BY <1>7 DEF ExpandNode, EnoughSubnodes, Again, TimeOver, HandOver, Terminated, IsoReport, RoundDone,
                    RunTask, EndRun, isoVars
    <2> QED
        BY <1>1, <2>1 DEF ModelInv
<1>8. CASE MainPass
    <2>1. /\ UNCHANGED <<reader, treeResult, modelDone>>
          /\ result' \in {result, Settled(result, treeResult)}
          /\ pc' = "report" => reader = "receive_done"
        BY <1>8 DEF MainPass, EndReceive, treeVars, isoVars
    <2>2. result' = "sat" => modelDone' \/ result = "sat"
        BY <2>1 DEF Settled, ModelInv
    <2> QED
        BY <1>1, <2>1, <2>2 DEF ModelInv
<1>9. CASE MainPoll
    <2>1. reader' \in {reader, Checked}
        BY <1>9 DEF MainPoll, PollSat, PollEndedNode, PollStillSolving, PollUnsat, PollGivenUp, Send, EndPoll
    <2>2. reader' = "receive_done" => modelDone'
        BY <1>0, <2>1 DEF Checked, ModelInv
    <2>3. result' = "sat" => result = "sat" \/ treeResult' = "sat"
        BY <1>9 DEF MainPoll, PollSat, PollEndedNode, PollStillSolving, PollUnsat, PollGivenUp, AfterPoll, EndPoll,
                    Settled
    <2>4. pc' = "report" => ~ NoTree
        <3>1. ASSUME pc' = "report" PROVE \E n \in Nodes : status[n] = "solving"
            BY <1>9, <3>1 DEF MainPoll, PollSat, PollEndedNode, PollStillSolving, PollUnsat, PollGivenUp, Polled, EndPoll
        <3> QED
            BY <3>1 DEF NoTree, Made
    <2>5. result' = "sat" => modelDone' \/ NoTree
        BY <1>0, <2>3 DEF ModelInv
    <2> QED
        BY <1>1, <2>2, <2>4, <2>5
<1>10. CASE IsoPartitionerStep \/ UNCHANGED allVars
    <2>1. UNCHANGED <<reader, result, modelDone, stage, pc>>
        BY <1>10 DEF IsoPartitionerStep, PartitionerStep, coordVars, allVars, vars, isoVars
    <2> QED
        BY <1>1, <2>1 DEF ModelInv, ModelCompleteInMain, ModelComplete
<1> QED
    BY <1>2, <1>3, <1>4, <1>5, <1>6, <1>7, <1>8, <1>9, <1>10 DEF IsoNext, IsoReceive

-----------------------------------------------------------------------------
(* All together.                                                           *)

LEMMA IsoInitInv == IsoInit => IsoInv
<1> SUFFICES ASSUME IsoInit PROVE IsoInv
    OBVIOUS
<1>1. DataInit
    BY DEF IsoInit, DataInit
<1>2. SoundInv
    BY <1>1, SoundInit
<1>3. /\ \A n \in Nodes : status[n] = "none" /\ children[n] = <<>>
      /\ running = {} /\ solvings = <<>> /\ treeResult = "unsolved" /\ Root \in Nodes
    BY SpaceShape DEF IsoInit, TreeInit
<1>4. SolversListed
    <2>1. Elements(<<>>) = {} /\ Len(<<>>) = 0 /\ Cores \in Nat
        BY RoundConstants, MaxRunningType DEF Elements
    <2> QED
        BY <1>3, <2>1 DEF SolversListed, IsoInit
<1>5. UnsatClimbs
    <2>1. \A n \in Nodes : Len(children[n]) = 0
        BY <1>3
    <2> QED
        BY <2>1 DEF UnsatClimbs
<1>6. UnsatSinks
    BY <1>3 DEF UnsatSinks
<1>7. handed = {} /\ IsoTypes
    <2>1. /\ handed = {} /\ pc = "leader" /\ stage = "pre" /\ original = "solving"
          /\ subnodes = <<>> /\ offered = <<>>
        BY DEF IsoInit
    <2>2. modelDone \in BOOLEAN
        BY Zenon DEF IsoInit
    <2>3. <<>> \in Seq(Nodes)
        OBVIOUS
    <2> QED
        BY <2>1, <2>2, <2>3 DEF IsoTypes
<1>8. /\ Made = {}
      /\ \A i \in DOMAIN toCoord : toCoord[i].op = "verdict"
      /\ toCoord # <<>> => phase = "done"
    <2>1. Made = {}
        BY <1>3 DEF Made
    <2>2. toCoord = <<>> \/ \E v : toCoord = <<Verdict(v)>> /\ phase = "done"
        BY DEF IsoInit, PartitionerInit
    <2>3. ASSUME NEW v, toCoord = <<Verdict(v)>>
          PROVE  \A i \in DOMAIN toCoord : toCoord[i].op = "verdict"
        BY <2>3 DEF Verdict
    <2> QED
        BY <2>1, <2>2, <2>3
<1>9. PreQuiet
    <2>1. pc = "leader" /\ fromCoord = <<>> /\ offered = <<>> /\ subnodes = <<>>
        BY DEF IsoInit, PartitionerInit
    <2>2. Elements(<<>>) = {}
        BY DEF Elements
    <2>3. TasksAnnounced
        BY <1>3, <1>8, <2>1, <2>2 DEF TasksAnnounced
    <2> QED
        BY <1>3, <2>1, <2>3 DEF PreQuiet
<1>10. CutsInv
    BY <1>3 DEF CutsInv, Cut, IsoInit
<1>11. ModelInv
    <2>1. toCoord # <<>> => NoTree
        BY <1>8 DEF NoTree
    <2>2. \A i \in DOMAIN toCoord : toCoord # <<>>
        OBVIOUS
    <2> QED
        BY <1>3, <2>1, <2>2 DEF ModelInv, ModelCompleteInMain, ModelComplete, IsoInit
<1> QED
    BY <1>2, <1>4, <1>5, <1>6, <1>7, <1>9, <1>10, <1>11 DEF IsoInv

LEMMA IsoStep == IsoInv /\ [IsoNext \/ IsoPartitionerStep]_allVars => IsoInv'
<1> SUFFICES ASSUME IsoInv, [IsoNext \/ IsoPartitionerStep]_allVars PROVE IsoInv'
    OBVIOUS
<1>1. RoundInv
    BY DEF IsoInv, SoundInv
<1>2. SoundInv' /\ SolversListed' /\ UnsatClimbs' /\ UnsatSinks' /\ handed' = {}
    BY InheritedStep DEF IsoInv
<1>3. IsoTypes'
    BY <1>1, IsoTypesStep DEF IsoInv
<1>4. PreQuiet'
    BY <1>1, PreStep DEF IsoInv
<1>5. CutsInv'
    BY <1>1, CutsStep DEF IsoInv
<1>6. ModelInv'
    BY <1>1, ModelStep DEF IsoInv
<1> QED
    BY <1>2, <1>3, <1>4, <1>5, <1>6 DEF IsoInv

LEMMA IsoInductive == IsoSpec => []IsoInv
<1> QED
    BY IsoInitInv, IsoStep, PTL DEF IsoSpec

-----------------------------------------------------------------------------
(* The theorems.                                                           *)

(* Every variable of the isolated coordinator's round ranges over what the *)
(* code can store in it (IsoTypeOK).                                       *)
THEOREM IsoTypeCorrect == IsoSpec => []IsoTypeOK
<1>1. IsoInv => IsoTypeOK
    BY DEF IsoInv, SoundInv, RoundInv, IsoTypeOK
<1> QED
    BY <1>1, IsoInductive, PTL

(* subnodes.popleft() of pre_partition (coordinator.py:496) never meets an *)
(* empty queue, for any number of coordinators and whatever is solved      *)
(* while the tree is expanded (NeverPopsEmpty).                            *)
THEOREM NeverPopsEmptyHolds == IsoSpec => []NeverPopsEmpty
<1>1. IsoInv => NeverPopsEmpty
    BY DEF IsoInv, CutsInv, NeverPopsEmpty
<1> QED
    BY <1>1, IsoInductive, PTL

(* What pre_partition offers is one part of the formula for each of at     *)
(* most as many coordinators as there are, the parts lie apart, and they   *)
(* cover all that is not known to be unsat (OfferedCovers).                *)
THEOREM OfferedCoversHolds == IsoSpec => []OfferedCovers
<1>1. IsoInv => OfferedCovers
    <2> SUFFICES ASSUME IsoInv PROVE OfferedCovers
        OBVIOUS
    <2>1. Cut(IF pc = "offer" THEN subnodes ELSE offered)
        BY DEF IsoInv, CutsInv
    <2> QED
        BY <2>1 DEF OfferedCovers, Cut, Apart, Covers
<1> QED
    BY <1>1, IsoInductive, PTL

(* Each subnode that is offered was built and announced as a task and is   *)
(* not known to the process as ended (OfferedAnnounced): it is never one   *)
(* that was only refuted, for which no task file is written.               *)
THEOREM OfferedAnnouncedHolds == IsoSpec => []OfferedAnnounced
<1>1. IsoInv => OfferedAnnounced
    BY DEF IsoInv, CutsInv, PreQuiet, TasksAnnounced, OfferedAnnounced
<1> QED
    BY <1>1, IsoInductive, PTL

(* In the loop after pre_partition a result sat is reported with its model *)
(* read to the end: the assertion of coordinator.py:443 holds there        *)
(* (ModelCompleteInMain).                                                  *)
THEOREM ModelCompleteInMainHolds == IsoSpec => []ModelCompleteInMain
<1>1. IsoInv => ModelCompleteInMain
    BY DEF IsoInv, ModelInv
<1> QED
    BY <1>1, IsoInductive, PTL

(* The hand-over loses no solution: each satisfiable leaf lies in a part   *)
(* that another coordinator got, so if all of them answer unsat            *)
(* (pre_partition, assign_node), the formula is unsat.                     *)
OfferedLosesNothing ==
    stage = "main" =>
        /\ \A l \in Leaves \cap Sat : Up[l] \cap Elements(offered) # {}
        /\ Root \in Sat => Elements(offered) \cap Sat # {}

(* So a part given away is never the last that is known of a solution.    *)
THEOREM OfferedLosesNothingHolds == IsoSpec => []OfferedLosesNothing
<1>1. IsoInv => OfferedLosesNothing
    <2> SUFFICES ASSUME IsoInv, stage = "main" PROVE OfferedLosesNothing
        BY DEF OfferedLosesNothing
    <2>1. Covers(offered) /\ handed = {} /\ MarkedCovered
        BY DEF IsoInv, CutsInv, Cut, SoundInv
    <2>2. ASSUME NEW l \in Leaves \cap Sat
          PROVE  Up[l] \cap Elements(offered) # {}
        <3>1. ASSUME NEW a \in Up[l], status[a] = "unsat" PROVE FALSE
            <4>1. a \in Nodes
                BY <3>1, AboveNodes DEF Leaves
            <4>2. Covered({}, a)
                BY <2>1, <3>1, <4>1 DEF MarkedCovered
            <4> QED
                BY <3>1, <4>2 DEF Covered
        <3> QED
            BY <2>1, <3>1 DEF Covers
    <2>3. ASSUME Root \in Sat
          PROVE  Elements(offered) \cap Sat # {}
        <3>1. PICK l \in Sat : \A m \in Sat : Depth(m) <= Depth(l)
            BY <2>3, SpaceTruth, Deepest
        <3>2. l \in Nodes
            BY SpaceTruth
        <3>3. l \in Leaves
            <4>1. SUFFICES ASSUME NEW k \in Kids[l] \cap Sat PROVE FALSE
                BY <3>2, SpaceTruth DEF Leaves
            <4>2. Depth(k) = Depth(l) + 1 /\ Depth(l) \in Nat
                BY <3>2, <4>1, Depths
            <4> QED
                BY <3>1, <4>1, <4>2
        <3>4. Up[l] \subseteq Sat
            BY SpaceTruth
        <3> QED
            BY <2>2, <3>3, <3>4
    <2> QED
        BY <2>2, <2>3 DEF OfferedLosesNothing
<1> QED
    BY <1>1, IsoInductive, PTL

(* The result of the isolated coordinator is right, from whichever of its  *)
(* partitioner, its base solvers and the base solver on the whole formula  *)
(* it came (ResultSoundUnlessLeafLost under IsoSpec).                      *)
THEOREM IsoResultSound == IsoSpec => []ResultSoundUnlessLeafLost
<1>1. IsoInv => ResultSoundUnlessLeafLost
    BY ResultRight DEF IsoInv
<1> QED
    BY <1>1, IsoInductive, PTL

(* Its base solvers on tasks are all listed for round_clean_up, no more    *)
(* than there are cores (ProcessesAccounted under IsoSpec).                *)
THEOREM IsoProcessesAccounted == IsoSpec => []ProcessesAccounted
<1>1. IsoInv => ProcessesAccounted
    BY SolversAccounted DEF IsoInv, SoundInv, SolversInv
<1> QED
    BY <1>1, IsoInductive, PTL
=============================================================================
