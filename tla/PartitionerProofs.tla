-------------------------- MODULE PartitionerProofs -------------------------
(***************************************************************************)
(* Proofs about the partitioner process at work with any coordinator       *)
(* (PartitionerOpen), for every tree of subproblems, every set of nodes    *)
(* propagation can refute and every bound on tasks.                        *)
(*                                                                         *)
(* The argument.  None of the counters can be followed without knowing     *)
(* which nodes a command may name and where the halves of a task being     *)
(* announced stand.  PathTold carries both: above any created node there   *)
(* are announced nodes only, so the halves of a node that is not announced *)
(* yet do not exist, and a command, which names an announced node, finds   *)
(* all the ancestors it may push to.                                       *)
(***************************************************************************)
EXTENDS PartitionerOpen, SpaceProofs, SequenceTheorems

(* The states of a node the coordinator has been told of.                  *)
Told == {"waiting", "unsat", "terminated"}

(* A task that has been written but not announced is UNCONVERTED.          *)
Pending == phase = "announce" => ptask \in Nodes /\ nodeState[ptask] = "unconverted"

(* Above a created node everything has been announced.                     *)
PathTold ==
    \A n \in Nodes : nodeState[n] # "none" =>
        \A a \in Above(n) : nodeState[a] \in Told

(* Commands name announced nodes.                                          *)
CommandsTold == \A i \in 1 .. Len(fromCoord) : nodeState[fromCoord[i].node] \in Told

IndInv == TypeOK /\ Pending /\ PathTold /\ AnnouncedState /\ CommandsTold

-----------------------------------------------------------------------------
(* The tree of subproblems.                                                *)

(* A node has finitely many halves.                                        *)
LEMMA KidsFinite ==
    ASSUME NEW n \in Nodes
    PROVE  Kids[n] \subseteq Nodes /\ IsFiniteSet(Kids[n])
<1>1. Kids[n] \subseteq Nodes /\ IsFiniteSet(Nodes)
    BY SpaceShape
<1> QED
    BY <1>1, FS_Subset

-----------------------------------------------------------------------------
(* Counting.                                                               *)

(* The nodes in one state form a finite set of nodes.                      *)
LEMMA StateSets == \A s : InState(s) \subseteq Nodes /\ IsFiniteSet(InState(s))
<1> SUFFICES ASSUME NEW s PROVE InState(s) \subseteq Nodes /\ IsFiniteSet(InState(s))
    OBVIOUS
<1>1. InState(s) \subseteq Nodes
    BY DEF InState
<1> QED
    BY <1>1, SpaceShape, FS_Subset

(* Taking a part T out of a finite set.                                    *)
LEMMA CountMinus ==
    ASSUME NEW S, IsFiniteSet(S), NEW T, T \subseteq S
    PROVE  /\ IsFiniteSet(T)
           /\ Cardinality(S \ T) = Cardinality(S) - Cardinality(T)
           /\ Cardinality(S) \in Nat /\ Cardinality(T) \in Nat
           /\ Cardinality(T) <= Cardinality(S)
<1>1. IsFiniteSet(T) /\ Cardinality(T) <= Cardinality(S)
    BY FS_Subset
<1>2. Cardinality(S \ T) = Cardinality(S) - Cardinality(S \cap T)
    BY FS_Difference
<1>3. S \cap T = T
    OBVIOUS
<1>4. Cardinality(S) \in Nat /\ Cardinality(T) \in Nat
    BY <1>1, FS_CardinalityType
<1> QED
    BY <1>1, <1>2, <1>3, <1>4

-----------------------------------------------------------------------------
(* What a step does to the state of a node.                                *)

(* unsat_node for an announced node marks created nodes only, and none     *)
(* that is UNSAT already.                                                  *)
LEMMA SolvedOpen ==
    ASSUME PathTold, NEW n \in Nodes, nodeState[n] \in Told
    PROVE  /\ SolvedUnsat(nodeState, n) \subseteq Nodes
           /\ \A m \in SolvedUnsat(nodeState, n) : nodeState[m] \notin {"none", "unsat"}
<1>1. CASE nodeState[n] = "unsat"
    BY <1>1 DEF SolvedUnsat
<1>2. CASE nodeState[n] # "unsat"
    <2>1. SolvedUnsat(nodeState, n)
            = {n} \cup PushedUp(nodeState, n) \cup PushedDown(nodeState, n)
        BY <1>2 DEF SolvedUnsat
    <2>2. nodeState[n] \notin {"none", "unsat"}
        BY <1>2 DEF Told
    <2>3. ASSUME NEW a \in PushedUp(nodeState, n)
          PROVE  a \in Nodes /\ nodeState[a] \notin {"none", "unsat"}
        <3>1. a \in Above(n) /\ a \in Nodes /\ a \in Up[a]
            BY <2>3, AboveNodes, SelfUp DEF PushedUp
        <3>2. nodeState[a] # "unsat"
            BY <2>3, <3>1 DEF PushedUp
        <3>3. nodeState[a] \in Told
            BY <3>1, <2>2 DEF PathTold
        <3> QED
            BY <3>1, <3>2, <3>3 DEF Told
    <2>4. ASSUME NEW d \in PushedDown(nodeState, n)
          PROVE  d \in Nodes /\ nodeState[d] \notin {"none", "unsat"}
        <3>1. d \in Nodes /\ d \in Up[d] /\ n \in Above(d)
            BY <2>4, SelfUp DEF PushedDown, Below
        <3> QED
            BY <2>4, <3>1 DEF PushedDown
    <2> QED
        BY <2>1, <2>2, <2>3, <2>4
<1> QED
    BY <1>1, <1>2

(* The node of a command is an announced one.                              *)
LEMMA CommandNode ==
    ASSUME TypeOK, CommandsTold, fromCoord # <<>>
    PROVE  /\ Head(fromCoord) \in Commands
           /\ Head(fromCoord).node \in Nodes
           /\ nodeState[Head(fromCoord).node] \in Told
           /\ Tail(fromCoord) \in Seq(Commands)
<1>1. fromCoord \in Seq(Commands)
    BY DEF TypeOK, PartitionerTypeOK
<1>2. Head(fromCoord) = fromCoord[1] /\ 1 \in 1 .. Len(fromCoord)
    BY <1>1
<1>3. Head(fromCoord) \in Commands /\ Tail(fromCoord) \in Seq(Commands)
    BY <1>1
<1>4. nodeState[fromCoord[1].node] \in Told
    BY <1>2 DEF CommandsTold
<1> QED
    BY <1>2, <1>3, <1>4 DEF Commands

(* The halves of a task that is being announced do not exist yet.          *)
LEMMA KidsNotMade ==
    ASSUME Pending, PathTold, TypeOK, phase = "announce"
    PROVE  \A k \in Kids[ptask] : nodeState[k] = "none"
<1> SUFFICES ASSUME NEW k \in Kids[ptask], nodeState[k] # "none" PROVE FALSE
    OBVIOUS
<1>1. ptask \in Nodes /\ nodeState[ptask] = "unconverted"
    BY DEF Pending
<1>2. k \in Nodes /\ ptask \in Above(k)
    BY <1>1, KidFacts
<1>3. nodeState[ptask] \in Told
    BY <1>2 DEF PathTold
<1> QED
    BY <1>1, <1>3 DEF Told

(* An announcement, node by node.                                          *)
LEMMA AnnounceEffect ==
    ASSUME IndInv, Announce
    PROVE  /\ phase = "announce" /\ ptask \in Nodes
           /\ nodeState[ptask] = "unconverted" /\ nodeState'[ptask] = "waiting"
           /\ aliveTasks' = aliveTasks + 1
           /\ \E dead \in SUBSET (Kids[ptask] \cap Refutable) :
                 /\ \A k \in dead : nodeState[k] = "none" /\ nodeState'[k] = "unsat"
                 /\ \A k \in Kids[ptask] \ dead :
                       nodeState[k] = "none" /\ nodeState'[k] = "unconverted"
                 /\ \A m \in Nodes \ (Kids[ptask] \cup {ptask}) : nodeState'[m] = nodeState[m]
                 /\ toCoord' = Append(toCoord, NewNode(ptask)) \o BornUnsatLines(dead)
                 /\ unsolved' = unsolved + Cardinality(Kids[ptask] \ dead)
                 /\ nodeState' \in [Nodes -> States]
<1>0. nodeState \in [Nodes -> States]
    BY DEF IndInv, TypeOK, PartitionerTypeOK
<1>1. phase = "announce" /\ ptask \in Nodes /\ nodeState[ptask] = "unconverted"
    BY DEF Announce, IndInv, Pending
<1>2. Kids[ptask] \subseteq Nodes /\ \A k \in Kids[ptask] : nodeState[k] = "none" /\ k # ptask
    BY <1>1, KidsNotMade, KidFacts DEF IndInv
<1>3. PICK dead \in SUBSET (Kids[ptask] \cap Refutable) :
        /\ nodeState' = [m \in Nodes |-> CASE m = ptask -> "waiting"
                                            [] m \in Kids[ptask] \ dead -> "unconverted"
                                            [] m \in dead -> "unsat"
                                            [] OTHER -> nodeState[m]]
        /\ toCoord' = Append(toCoord, NewNode(ptask)) \o BornUnsatLines(dead)
        /\ unsolved' = unsolved + Cardinality(Kids[ptask] \ dead)
    BY DEF Announce, AnnouncedLines, Born
<1>4. nodeState'[ptask] = "waiting"
    BY <1>1, <1>2, <1>3
<1>5. \A k \in dead : nodeState'[k] = "unsat"
    BY <1>2, <1>3
<1>6. \A k \in Kids[ptask] \ dead : nodeState'[k] = "unconverted"
    BY <1>2, <1>3
<1>7. \A m \in Nodes \ (Kids[ptask] \cup {ptask}) : nodeState'[m] = nodeState[m]
    BY <1>2, <1>3
<1>8. nodeState' \in [Nodes -> States]
    <2>1. \A m \in Nodes : nodeState'[m] \in States
        BY <1>0, <1>4, <1>5, <1>6, <1>7 DEF States
    <2> QED
        BY <2>1, <1>3
<1>9. aliveTasks' = aliveTasks + 1
    BY DEF Announce
<1> QED
    BY <1>1, <1>2, <1>3, <1>4, <1>5, <1>6, <1>7, <1>8, <1>9

(* The moves of one node in one step: announced nodes stay announced, what *)
(* is UNSAT stays so, and only an announcement makes nodes.                *)
Moves(n) ==
    /\ nodeState'[n] \in States
    /\ nodeState[n] = "none" =>
          nodeState'[n] = "none" \/ (phase = "announce" /\ n \in Kids[ptask])
    /\ nodeState[n] # "none" => nodeState'[n] # "none"
    /\ nodeState[n] \in Told => nodeState'[n] \in Told
    /\ nodeState[n] = "unsat" => nodeState'[n] = "unsat"
    /\ nodeState[n] = "terminated" => nodeState'[n] \in {"terminated", "unsat"}

(* No step of the process revives a node, whatever the commands are.       *)
LEMMA MovesStep ==
    ASSUME IndInv, [Next]_vars
    PROVE  nodeState' \in [Nodes -> States] /\ \A n \in Nodes : Moves(n)
<1>0. nodeState \in [Nodes -> States]
    BY DEF IndInv, TypeOK, PartitionerTypeOK
<1> USE DEF Moves, States, Told
<1>1. CASE UNCHANGED nodeState
    BY <1>0, <1>1
<1>2. CASE ParseLine
    <2>1. fromCoord # <<>>
        BY <1>2 DEF ParseLine
    <2> DEFINE n == Head(fromCoord).node
    <2>2. n \in Nodes /\ nodeState[n] \in Told
        BY <2>1, CommandNode DEF IndInv
    <2>3. CASE ReadUnsatNode(n)
        <3>1. /\ SolvedUnsat(nodeState, n) \subseteq Nodes
              /\ \A m \in SolvedUnsat(nodeState, n) : nodeState[m] \notin {"none", "unsat"}
            BY <2>2, SolvedOpen DEF IndInv
        <3> QED
            BY <2>3, <3>1, <1>0 DEF ReadUnsatNode
    <2>4. CASE ReadTerminateNode(n)
        BY <2>4, <2>2, <1>0 DEF ReadTerminateNode
    <2> QED
        BY <1>2, <2>3, <2>4 DEF ParseLine
<1>3. ASSUME NEW n \in Nodes, SkipNode(n)
      PROVE  nodeState' \in [Nodes -> States] /\ \A m \in Nodes : Moves(m)
    BY <1>0, <1>3 DEF SkipNode
<1>4. ASSUME NEW n \in Nodes, RefuteNode(n)
      PROVE  nodeState' \in [Nodes -> States] /\ \A m \in Nodes : Moves(m)
    BY <1>0, <1>4 DEF RefuteNode, Convertible
<1>5. CASE Announce
    <2>1. PICK dead \in SUBSET (Kids[ptask] \cap Refutable) :
            /\ \A k \in dead : nodeState[k] = "none" /\ nodeState'[k] = "unsat"
            /\ \A k \in Kids[ptask] \ dead : nodeState[k] = "none" /\ nodeState'[k] = "unconverted"
            /\ \A m \in Nodes \ (Kids[ptask] \cup {ptask}) : nodeState'[m] = nodeState[m]
            /\ nodeState' \in [Nodes -> States]
        BY <1>5, AnnounceEffect
    <2>2. /\ phase = "announce" /\ ptask \in Nodes
          /\ nodeState[ptask] = "unconverted" /\ nodeState'[ptask] = "waiting"
        BY <1>5, AnnounceEffect
    <2>3. ASSUME NEW m \in Nodes PROVE Moves(m)
        BY <1>0, <2>1, <2>2
    <2> QED
        BY <2>1, <2>3
<1> QED
    <2>1. CASE StartSelect \/ (\E n \in Nodes : BuildTask(n)) \/ Finish
        BY <2>1, <1>1 DEF StartSelect, BuildTask, Finish
    <2>2. CASE CoordinatorReads \/ \E n \in Nodes, o \in {"unsat_node", "terminate_node"} : CoordinatorWrites(o, n)
        BY <2>2, <1>1 DEF CoordinatorReads, CoordinatorWrites
    <2>3. CASE UNCHANGED vars
        BY <2>3, <1>1 DEF vars, partitionerVars
    <2> QED
        BY <1>2, <1>3, <1>4, <1>5, <2>1, <2>2, <2>3 DEF Next, PartitionerNext

-----------------------------------------------------------------------------
(* The lines in the pipes.                                                 *)

(* The lines for the refuted halves name those halves, as refuted.         *)
LEMMA BornLines ==
    ASSUME NEW dead, dead \subseteq Nodes
    PROVE  /\ BornUnsatLines(dead) \in Seq(Lines)
           /\ \A i \in 1 .. Len(BornUnsatLines(dead)) :
                 /\ BornUnsatLines(dead)[i].op = "new_unsat_node"
                 /\ BornUnsatLines(dead)[i].node \in dead
<1> DEFINE lines(S) == IF S = {} THEN <<>> ELSE <<NewUnsat(CHOOSE n \in S : TRUE)>>
<1>1. ASSUME NEW S, S \subseteq dead
      PROVE  /\ lines(S) \in Seq(Lines)
             /\ Len(lines(S)) \in Nat
             /\ \A i \in 1 .. Len(lines(S)) :
                   lines(S)[i].op = "new_unsat_node" /\ lines(S)[i].node \in dead
    <2>1. CASE S = {}
        BY <2>1
    <2>2. CASE S # {}
        <3>1. PICK n : n \in dead /\ n \in Nodes /\ lines(S) = <<NewUnsat(n)>>
            BY <1>1, <2>2
        <3>2. NewUnsat(n) \in Lines
            BY <3>1 DEF NewUnsat, Lines
        <3>3. NewUnsat(n).op = "new_unsat_node" /\ NewUnsat(n).node = n
            BY DEF NewUnsat
        <3> HIDE DEF lines
        <3> QED
            BY <3>1, <3>2, <3>3
    <2> QED
        BY <2>1, <2>2
<1> DEFINE l == lines(dead \cap LeftKids)
           r == lines(dead \ LeftKids)
<1>2. BornUnsatLines(dead) = l \o r
    BY DEF BornUnsatLines
<1>3. /\ l \in Seq(Lines) /\ r \in Seq(Lines)
      /\ \A i \in 1 .. Len(l) : l[i].op = "new_unsat_node" /\ l[i].node \in dead
      /\ \A i \in 1 .. Len(r) : r[i].op = "new_unsat_node" /\ r[i].node \in dead
    BY <1>1
<1> HIDE DEF l, r
<1>4. l \o r \in Seq(Lines)
    BY <1>3
<1>5. ASSUME NEW i \in 1 .. Len(l \o r)
      PROVE  (l \o r)[i].op = "new_unsat_node" /\ (l \o r)[i].node \in dead
    BY <1>3, <1>5
<1> QED
    BY <1>2, <1>4, <1>5

(* The lines an announcement writes, as one sequence after the old ones.   *)
LEMMA AnnounceLines ==
    ASSUME TypeOK, NEW p \in Nodes, NEW dead, dead \subseteq Nodes
    PROVE  LET s == Append(toCoord, NewNode(p)) \o BornUnsatLines(dead)
           IN  /\ s \in Seq(Lines)
               /\ \A i \in 1 .. Len(s) :
                     \/ i \in 1 .. Len(toCoord) /\ s[i] = toCoord[i]
                     \/ s[i] = NewNode(p)
                     \/ s[i].op = "new_unsat_node" /\ s[i].node \in dead
<1> DEFINE b == BornUnsatLines(dead)
           a == Append(toCoord, NewNode(p))
<1>1. NewNode(p) \in Lines /\ toCoord \in Seq(Lines)
    BY DEF NewNode, Lines, TypeOK, PartitionerTypeOK
<1>2. b \in Seq(Lines) /\ \A i \in 1 .. Len(b) : b[i].op = "new_unsat_node" /\ b[i].node \in dead
    BY BornLines
<1>3. a \in Seq(Lines) /\ Len(a) = Len(toCoord) + 1
      /\ \A i \in 1 .. Len(a) : (i \in 1 .. Len(toCoord) /\ a[i] = toCoord[i]) \/ a[i] = NewNode(p)
    BY <1>1
<1> HIDE DEF a, b
<1>4. a \o b \in Seq(Lines)
    BY <1>2, <1>3
<1>5. ASSUME NEW i \in 1 .. Len(a \o b)
      PROVE  \/ i \in 1 .. Len(a) /\ (a \o b)[i] = a[i]
             \/ i - Len(a) \in 1 .. Len(b) /\ (a \o b)[i] = b[i - Len(a)]
    BY <1>2, <1>3
<1>6. \A i \in 1 .. Len(a \o b) :
         \/ i \in 1 .. Len(toCoord) /\ (a \o b)[i] = toCoord[i]
         \/ (a \o b)[i] = NewNode(p)
         \/ (a \o b)[i].op = "new_unsat_node" /\ (a \o b)[i].node \in dead
    BY <1>2, <1>3, <1>5
<1> QED
    BY <1>4, <1>6 DEF a, b

-----------------------------------------------------------------------------
(* The invariant is inductive, one lemma per conjunct.                     *)

(* The inductive invariant holds when the process starts.                  *)
LEMMA InitInd == Init => IndInv
<1> SUFFICES ASSUME Init PROVE IndInv
    OBVIOUS
<1> USE DEF Init, PartitionerInit
<1>1. Root \in Nodes /\ Above(Root) = {}
    BY SpaceShape DEF Above
<1>2. TypeOK
    <2>1. \A v \in Verdicts : Verdict(v) \in Lines /\ <<Verdict(v)>> \in Seq(Lines)
        BY DEF Verdict, Lines
    <2>2. <<>> \in Seq(Lines) /\ <<>> \in Seq(Commands)
        OBVIOUS
    <2>2a. "sat" \in Verdicts /\ "unsat" \in Verdicts
        BY DEF Verdicts
    <2>3. nodeState \in [Nodes -> States]
        BY DEF States
    <2>4. leafHeap \subseteq Nodes /\ known \subseteq Nodes
        BY <1>1
    <2>5. aliveTasks \in Int /\ unsolved \in Int /\ ptask \in Nodes \cup {NoTask}
          /\ phase \in {"announce", "loop", "select", "done"}
        OBVIOUS
    <2>6. toCoord \in Seq(Lines) /\ fromCoord \in Seq(Commands)
        BY <2>1, <2>2, <2>2a
    <2> QED
        BY <2>3, <2>4, <2>5, <2>6 DEF TypeOK, PartitionerTypeOK
<1>3. Pending
    BY DEF Pending
<1>4. PathTold
    BY <1>1 DEF PathTold
<1>5. AnnouncedState
    BY DEF AnnouncedState, Verdict
<1>6. CommandsTold
    BY DEF CommandsTold
<1> QED
    BY <1>2, <1>3, <1>4, <1>5, <1>6 DEF IndInv

(* Every step keeps the types.                                             *)
LEMMA TypeStep ==
    ASSUME IndInv, [Next]_vars
    PROVE  TypeOK'
<1>0. /\ nodeState \in [Nodes -> States] /\ leafHeap \subseteq Nodes
      /\ aliveTasks \in Int /\ unsolved \in Int
      /\ ptask \in Nodes \cup {NoTask}
      /\ phase \in {"announce", "loop", "select", "done"}
      /\ toCoord \in Seq(Lines) /\ fromCoord \in Seq(Commands) /\ known \subseteq Nodes
    BY DEF IndInv, TypeOK, PartitionerTypeOK
<1>s. nodeState' \in [Nodes -> States]
    BY MovesStep
<1> USE DEF TypeOK, PartitionerTypeOK
<1>1. CASE ParseLine /\ UNCHANGED known
    <2> DEFINE n == Head(fromCoord).node
    <2>1. n \in Nodes /\ nodeState[n] \in Told /\ Tail(fromCoord) \in Seq(Commands)
        BY <1>1, CommandNode DEF IndInv, ParseLine
    <2>2. aliveTasks' \in Int /\ unsolved' \in Int
        <3>1. CASE ReadUnsatNode(n)
            <4> DEFINE solved == SolvedUnsat(nodeState, n)
                       w == {m \in solved : nodeState[m] = "waiting"}
            <4>1. solved \subseteq Nodes
                BY <2>1, SolvedOpen DEF IndInv
            <4> HIDE DEF solved
            <4>2. w \subseteq Nodes
                BY <4>1
            <4> HIDE DEF w
            <4>3. Cardinality(solved) \in Nat /\ Cardinality(w) \in Nat
                BY <4>1, <4>2, SpaceShape, FS_Subset, FS_CardinalityType
            <4>4. aliveTasks' = aliveTasks - Cardinality(w) /\ unsolved' = unsolved - Cardinality(solved)
                BY <3>1 DEF ReadUnsatNode, solved, w
            <4> QED
                BY <1>0, <4>3, <4>4
        <3>2. CASE ReadTerminateNode(n)
            BY <1>0, <3>2 DEF ReadTerminateNode
        <3> QED
            BY <1>1, <3>1, <3>2 DEF ParseLine
    <2> QED
        BY <1>0, <1>1, <1>s, <2>1, <2>2 DEF ParseLine
<1>2. CASE StartSelect /\ UNCHANGED known
    BY <1>0, <1>s, <1>2 DEF StartSelect
<1>3. ASSUME NEW n \in Nodes, SkipNode(n) \/ BuildTask(n), UNCHANGED known
      PROVE  TypeOK'
    BY <1>0, <1>s, <1>3 DEF SkipNode, BuildTask
<1>4. ASSUME NEW n \in Nodes, RefuteNode(n), UNCHANGED known
      PROVE  TypeOK'
    <2>1. NewUnsat(n) \in Lines
        BY DEF NewUnsat, Lines
    <2>2. Append(toCoord, NewUnsat(n)) \in Seq(Lines)
        BY <1>0, <2>1
    <2> QED
        BY <1>0, <1>s, <1>4, <2>2 DEF RefuteNode
<1>5. CASE Finish /\ UNCHANGED known
    <2>1. \A v \in Verdicts : Verdict(v) \in Lines
        BY DEF Verdict, Lines
    <2>2. \A v \in Verdicts : Append(toCoord, Verdict(v)) \in Seq(Lines)
        BY <1>0, <2>1
    <2>3. toCoord' \in Seq(Lines)
        BY <1>5, <2>2 DEF Finish, Verdicts
    <2> QED
        BY <1>0, <1>s, <1>5, <2>3 DEF Finish
<1>6. CASE Announce /\ UNCHANGED known
    <2>1. ptask \in Nodes
        BY <1>6 DEF Announce, IndInv, Pending
    <2>2. PICK dead \in SUBSET (Kids[ptask] \cap Refutable) :
            /\ toCoord' = Append(toCoord, NewNode(ptask)) \o BornUnsatLines(dead)
            /\ leafHeap' = leafHeap \cup (Kids[ptask] \ dead)
            /\ unsolved' = unsolved + Cardinality(Kids[ptask] \ dead)
        BY <1>6 DEF Announce, AnnouncedLines, Born
    <2>3. dead \subseteq Nodes /\ Kids[ptask] \ dead \subseteq Nodes /\ IsFiniteSet(Kids[ptask] \ dead)
        BY <2>1, KidsFinite, FS_Subset
    <2>4. toCoord' \in Seq(Lines)
        BY <2>1, <2>2, <2>3, AnnounceLines DEF IndInv
    <2>5. unsolved' \in Int
        BY <1>0, <2>2, <2>3, FS_CardinalityType
    <2> QED
        BY <1>0, <1>s, <1>6, <2>2, <2>3, <2>4, <2>5 DEF Announce
<1>7. CASE CoordinatorReads
    <2>1. Head(toCoord) \in Lines /\ Tail(toCoord) \in Seq(Lines)
        BY <1>0, <1>7 DEF CoordinatorReads
    <2>2. Head(toCoord).op # "verdict" => Head(toCoord).node \in Nodes
        BY <2>1 DEF Lines
    <2> QED
        BY <1>0, <1>s, <1>7, <2>1, <2>2 DEF CoordinatorReads
<1>8. ASSUME NEW n \in Nodes, NEW o \in {"unsat_node", "terminate_node"}, CoordinatorWrites(o, n)
      PROVE  TypeOK'
    <2>1. Ended(o, n) \in Commands
        BY DEF Ended, Commands
    <2>2. Append(fromCoord, Ended(o, n)) \in Seq(Commands)
        BY <1>0, <2>1
    <2> QED
        BY <1>0, <1>s, <1>8, <2>2 DEF CoordinatorWrites
<1>9. CASE UNCHANGED vars
    BY <1>0, <1>9 DEF vars, partitionerVars
<1> QED
    BY <1>1, <1>2, <1>3, <1>4, <1>5, <1>6, <1>7, <1>8, <1>9 DEF Next, PartitionerNext

(* Every step keeps the pending task UNCONVERTED until it is announced.    *)
LEMMA PendingStep ==
    ASSUME IndInv, [Next]_vars
    PROVE  Pending'
<1>0. nodeState \in [Nodes -> States]
    BY DEF IndInv, TypeOK, PartitionerTypeOK
<1> USE DEF Pending
<1>1. ASSUME NEW n \in Nodes, BuildTask(n) PROVE Pending'
    BY <1>0, <1>1 DEF BuildTask, Convertible
<1>2. CASE Announce \/ Finish \/ StartSelect
    BY <1>2 DEF Announce, Finish, StartSelect
<1>3. CASE ParseLine
    BY <1>3 DEF ParseLine
<1>4. ASSUME NEW n \in Nodes, SkipNode(n) \/ RefuteNode(n) PROVE Pending'
    BY <1>4 DEF SkipNode, RefuteNode, Convertible
<1>5. CASE CoordinatorReads
    BY <1>5 DEF CoordinatorReads, IndInv
<1>6. ASSUME NEW n \in Nodes, NEW o \in {"unsat_node", "terminate_node"}, CoordinatorWrites(o, n)
      PROVE  Pending'
    BY <1>6 DEF CoordinatorWrites, IndInv
<1>7. CASE UNCHANGED vars
    BY <1>7 DEF vars, partitionerVars, IndInv
<1> QED
    BY <1>1, <1>2, <1>3, <1>4, <1>5, <1>6, <1>7 DEF Next, PartitionerNext

(* Only an announcement makes nodes, and it announces their parent.        *)
LEMMA PathToldStep ==
    ASSUME IndInv, [Next]_vars
    PROVE  PathTold'
<1>1. \A n \in Nodes : Moves(n)
    BY MovesStep
<1>2. SUFFICES ASSUME NEW n \in Nodes, nodeState'[n] # "none", NEW a \in Above(n)
               PROVE  nodeState'[a] \in Told
    BY DEF PathTold
<1>3. a \in Nodes
    BY AboveNodes
<1>4. CASE nodeState[n] # "none"
    <2>1. nodeState[a] \in Told
        BY <1>4 DEF IndInv, PathTold
    <2> QED
        BY <1>1, <1>3, <2>1 DEF Moves
<1>5. CASE nodeState[n] = "none"
    <2>1. phase = "announce" /\ n \in Kids[ptask] /\ nodeState' # nodeState
        BY <1>1, <1>2, <1>5 DEF Moves
    <2>2. ptask \in Nodes /\ nodeState[ptask] = "unconverted"
        BY <2>1 DEF IndInv, Pending
    <2>3. a \in Up[ptask]
        BY <2>1, <2>2, KidFacts
    <2>4. CASE a = ptask
        <3>1. CASE Announce
            <4>2. nodeState'[ptask] = "waiting"
                BY <3>1, AnnounceEffect
            <4> QED
                BY <2>4, <4>2 DEF Told
        <3>2. CASE ~ Announce
            <4>1. ~ ParseLine /\ ~ StartSelect /\ ~ Finish
                BY <2>1 DEF ParseLine, StartSelect, Finish
            <4>2. \A m \in Nodes : ~ SkipNode(m) /\ ~ RefuteNode(m) /\ ~ BuildTask(m)
                BY <2>1 DEF SkipNode, RefuteNode, BuildTask, Convertible
            <4>3. CoordinatorReads => UNCHANGED nodeState
                BY DEF CoordinatorReads
            <4>4. \A m \in Nodes, o \in {"unsat_node", "terminate_node"} :
                    CoordinatorWrites(o, m) => UNCHANGED nodeState
                BY DEF CoordinatorWrites
            <4>5. UNCHANGED vars => UNCHANGED nodeState
                BY DEF vars, partitionerVars
            <4>6. UNCHANGED nodeState
                BY <3>2, <4>1, <4>2, <4>3, <4>4, <4>5 DEF Next, PartitionerNext
            <4> QED
                BY <2>1, <4>6
        <3> QED
            BY <3>1, <3>2
    <2>5. CASE a # ptask
        <3>1. a \in Above(ptask)
            BY <2>3, <2>5 DEF Above
        <3>2. nodeState[a] \in Told
            BY <2>2, <3>1 DEF IndInv, PathTold
        <3> QED
            BY <1>1, <1>3, <3>2 DEF Moves
    <2> QED
        BY <2>4, <2>5
<1> QED
    BY <1>4, <1>5

(* Every command in the pipe names a node the coordinator was told of.     *)
LEMMA CommandsToldStep ==
    ASSUME IndInv, [Next]_vars
    PROVE  CommandsTold'
<1>1. /\ \A n \in Nodes : nodeState[n] \in Told => nodeState'[n] \in Told
      /\ fromCoord \in Seq(Commands)
    BY MovesStep DEF Moves, IndInv, TypeOK, PartitionerTypeOK
<1>2. \A i \in 1 .. Len(fromCoord) : fromCoord[i].node \in Nodes /\ nodeState[fromCoord[i].node] \in Told
    <2>1. \A i \in 1 .. Len(fromCoord) : fromCoord[i] \in Commands
        BY <1>1
    <2> QED
        BY <2>1 DEF IndInv, CommandsTold, Commands
<1>3. CASE UNCHANGED fromCoord
    BY <1>1, <1>2, <1>3 DEF CommandsTold
<1>4. CASE ParseLine
    <2>1. fromCoord # <<>> /\ fromCoord' = Tail(fromCoord)
        BY <1>4 DEF ParseLine
    <2>2. \A i \in 1 .. Len(Tail(fromCoord)) :
            i + 1 \in 1 .. Len(fromCoord) /\ Tail(fromCoord)[i] = fromCoord[i + 1]
        BY <1>1, <2>1
    <2> QED
        BY <1>1, <1>2, <2>1, <2>2 DEF CommandsTold
<1>5. ASSUME NEW n \in Nodes, NEW o \in {"unsat_node", "terminate_node"}, CoordinatorWrites(o, n)
      PROVE  CommandsTold'
    <2>1. n \in known /\ fromCoord' = Append(fromCoord, Ended(o, n)) /\ UNCHANGED nodeState
        BY <1>5 DEF CoordinatorWrites
    <2>2. nodeState[n] \in Told
        BY <2>1 DEF IndInv, AnnouncedState, Told
    <2>3. \A i \in 1 .. Len(Append(fromCoord, Ended(o, n))) :
            \/ i \in 1 .. Len(fromCoord) /\ Append(fromCoord, Ended(o, n))[i] = fromCoord[i]
            \/ Append(fromCoord, Ended(o, n))[i] = Ended(o, n)
        BY <1>1
    <2>4. Ended(o, n).node = n
        BY DEF Ended
    <2> QED
        BY <1>2, <2>1, <2>2, <2>3, <2>4 DEF CommandsTold
<1> QED
    <2>1. CASE StartSelect \/ Finish \/ Announce \/ CoordinatorReads
        BY <2>1, <1>3 DEF StartSelect, Finish, Announce, CoordinatorReads
    <2>2. ASSUME NEW n \in Nodes, SkipNode(n) \/ RefuteNode(n) \/ BuildTask(n) PROVE CommandsTold'
        BY <2>2, <1>3 DEF SkipNode, RefuteNode, BuildTask
    <2>3. CASE UNCHANGED vars
        BY <2>3, <1>3 DEF vars, partitionerVars
    <2> QED
        BY <1>4, <1>5, <2>1, <2>2, <2>3 DEF Next, PartitionerNext

(* A line that is in the pipe already keeps what it promises.              *)
LineHolds(st, l) ==
    /\ l.op = "new_unsat_node" => st[l.node] = "unsat"
    /\ l.op = "new_unknown_node" => st[l.node] \in Told

(* Every step keeps the announced nodes in an announced state.             *)
LEMMA AnnouncedStep ==
    ASSUME IndInv, [Next]_vars
    PROVE  AnnouncedState'
<1>1. \A n \in Nodes : Moves(n)
    BY MovesStep
<1>2. toCoord \in Seq(Lines) /\ known \subseteq Nodes /\ toCoord' \in Seq(Lines)
    BY TypeStep DEF IndInv, TypeOK, PartitionerTypeOK
<1>3. \A l \in Lines : LineHolds(nodeState, l) => LineHolds(nodeState', l)
    <2> SUFFICES ASSUME NEW l \in Lines, LineHolds(nodeState, l) PROVE LineHolds(nodeState', l)
        OBVIOUS
    <2>1. l.op = "verdict" \/ l.node \in Nodes
        BY DEF Lines
    <2> QED
        BY <1>1, <2>1 DEF LineHolds, Moves
<1>4. \A i \in 1 .. Len(toCoord) : toCoord[i] \in Lines /\ LineHolds(nodeState', toCoord[i])
    <2>1. \A i \in 1 .. Len(toCoord) : toCoord[i] \in Lines /\ LineHolds(nodeState, toCoord[i])
        BY <1>2 DEF IndInv, AnnouncedState, LineHolds, Told
    <2> QED
        BY <1>3, <2>1
<1>5. \A n \in known : nodeState'[n] \in Told
    BY <1>1, <1>2 DEF IndInv, AnnouncedState, Moves, Told
<1>6. ASSUME \A n \in known' : nodeState'[n] \in Told,
             \A i \in 1 .. Len(toCoord') : LineHolds(nodeState', toCoord'[i])
      PROVE  AnnouncedState'
    BY <1>6 DEF AnnouncedState, LineHolds, Told
<1>7. CASE UNCHANGED <<toCoord, known>>
    BY <1>4, <1>5, <1>6, <1>7
<1>8. ASSUME NEW l, toCoord' = Append(toCoord, l), UNCHANGED known, LineHolds(nodeState', l)
      PROVE  AnnouncedState'
    <2>1. \A i \in 1 .. Len(Append(toCoord, l)) :
            (i \in 1 .. Len(toCoord) /\ Append(toCoord, l)[i] = toCoord[i]) \/ Append(toCoord, l)[i] = l
        BY <1>2
    <2>2. \A i \in 1 .. Len(toCoord') : LineHolds(nodeState', toCoord'[i])
        BY <1>4, <1>8, <2>1
    <2> QED
        BY <1>5, <1>6, <1>8, <2>2
<1>9. ASSUME NEW n \in Nodes, RefuteNode(n), UNCHANGED known
      PROVE  AnnouncedState'
    <2>1. nodeState'[n] = "unsat" /\ toCoord' = Append(toCoord, NewUnsat(n))
        BY <1>9 DEF RefuteNode, IndInv, TypeOK, PartitionerTypeOK
    <2>2. LineHolds(nodeState', NewUnsat(n))
        BY <2>1 DEF LineHolds, NewUnsat
    <2> QED
        BY <1>8, <1>9, <2>1, <2>2
<1>10. CASE Finish /\ UNCHANGED known
    <2>1. \A v : LineHolds(nodeState', Verdict(v))
        BY DEF LineHolds, Verdict
    <2> QED
        BY <1>8, <1>10, <2>1 DEF Finish
<1>11. CASE Announce /\ UNCHANGED known
    <2>1. ptask \in Nodes /\ nodeState'[ptask] = "waiting"
        BY <1>11, AnnounceEffect
    <2>2. PICK dead \in SUBSET (Kids[ptask] \cap Refutable) :
            /\ \A k \in dead : nodeState'[k] = "unsat"
            /\ toCoord' = Append(toCoord, NewNode(ptask)) \o BornUnsatLines(dead)
        BY <1>11, AnnounceEffect
    <2>3. dead \subseteq Nodes
        BY <2>1, KidsFinite
    <2>4. \A i \in 1 .. Len(toCoord') :
            \/ i \in 1 .. Len(toCoord) /\ toCoord'[i] = toCoord[i]
            \/ toCoord'[i] = NewNode(ptask)
            \/ toCoord'[i].op = "new_unsat_node" /\ toCoord'[i].node \in dead
        BY <2>1, <2>2, <2>3, AnnounceLines DEF IndInv
    <2>5. LineHolds(nodeState', NewNode(ptask))
        BY <2>1 DEF LineHolds, NewNode, Told
    <2>6. ASSUME NEW l, l.op = "new_unsat_node", l.node \in dead PROVE LineHolds(nodeState', l)
        BY <2>2, <2>6 DEF LineHolds
    <2>7. \A i \in 1 .. Len(toCoord') : LineHolds(nodeState', toCoord'[i])
        BY <1>4, <2>4, <2>5, <2>6
    <2> QED
        BY <1>5, <1>6, <1>11, <2>7
<1>12. CASE CoordinatorReads
    <2>1. toCoord # <<>> /\ toCoord' = Tail(toCoord)
          /\ known' = known \cup (IF Head(toCoord).op = "verdict" THEN {} ELSE {Head(toCoord).node})
        BY <1>12 DEF CoordinatorReads
    <2>2. Head(toCoord) = toCoord[1] /\ 1 \in 1 .. Len(toCoord)
        BY <1>2, <2>1
    <2>3. \A i \in 1 .. Len(Tail(toCoord)) :
            i + 1 \in 1 .. Len(toCoord) /\ Tail(toCoord)[i] = toCoord[i + 1]
        BY <1>2, <2>1
    <2>4. toCoord[1].op # "verdict" => nodeState'[toCoord[1].node] \in Told
        <3>1. toCoord[1] \in Lines /\ LineHolds(nodeState', toCoord[1])
            BY <1>4, <2>2
        <3> QED
            BY <3>1 DEF LineHolds, Lines, Told
    <2>5. \A n \in known' : nodeState'[n] \in Told
        BY <1>5, <2>1, <2>2, <2>4
    <2>6. \A i \in 1 .. Len(toCoord') : LineHolds(nodeState', toCoord'[i])
        BY <1>4, <2>1, <2>3
    <2> QED
        BY <1>6, <2>5, <2>6
<1> QED
    <2>1. CASE (ParseLine \/ StartSelect) /\ UNCHANGED known
        BY <2>1, <1>7 DEF ParseLine, StartSelect
    <2>2. ASSUME NEW n \in Nodes, SkipNode(n) \/ BuildTask(n), UNCHANGED known PROVE AnnouncedState'
        BY <2>2, <1>7 DEF SkipNode, BuildTask
    <2>3. ASSUME NEW n \in Nodes, NEW o \in {"unsat_node", "terminate_node"}, CoordinatorWrites(o, n)
          PROVE  AnnouncedState'
        BY <2>3, <1>7 DEF CoordinatorWrites
    <2>4. CASE UNCHANGED vars
        BY <2>4, <1>7 DEF vars, partitionerVars
    <2> QED
        BY <1>9, <1>10, <1>11, <1>12, <2>1, <2>2, <2>3, <2>4 DEF Next, PartitionerNext

(* The inductive invariant of the process.                                 *)
THEOREM Inductive == Spec => []IndInv
<1>1. IndInv /\ [Next]_vars => IndInv'
    BY TypeStep, PendingStep, PathToldStep, CommandsToldStep, AnnouncedStep DEF IndInv
<1> QED
    BY InitInd, <1>1, PTL DEF Spec

(* Every variable keeps its type: no command and no bookkeeping of the     *)
(* process indexes a node that does not exist.                             *)
THEOREM TypeCorrect == Spec => []TypeOK
BY Inductive, PTL DEF IndInv

(* The coordinator's picture is never ahead of the process: what it was    *)
(* told is refuted is UNSAT, what it was told is a task is no longer       *)
(* UNCONVERTED (AnnouncedState).                                           *)
THEOREM AnnouncedStateHolds == Spec => []AnnouncedState
BY Inductive, PTL DEF IndInv

(* Late, repeated and reordered commands never revive a node that is UNSAT *)
(* or was given up (NeverRevived).                                         *)
THEOREM NeverRevivedHolds == Spec => NeverRevived
<1>1. IndInv /\ [Next]_vars =>
        [\A n \in Nodes :
            /\ nodeState[n] = "unsat" => nodeState'[n] = "unsat"
            /\ nodeState[n] = "terminated" => nodeState'[n] \in {"terminated", "unsat"}]_vars
    BY MovesStep DEF Moves
<1> QED
    BY Inductive, <1>1, PTL DEF Spec, NeverRevived

-----------------------------------------------------------------------------
(* The two counters.                                                       *)

(* The nodes m_unsolved_task_num has to cover.                             *)
Open == InState("unconverted") \cup InState("waiting") \cup InState("terminated")

(* The open nodes are a finite set of nodes.                               *)
LEMMA OpenSet ==
    /\ Open \subseteq Nodes /\ IsFiniteSet(Open)
    /\ \A m \in Nodes : m \in Open <=> nodeState[m] \in {"unconverted", "waiting", "terminated"}
<1>1. Open \subseteq Nodes
    BY StateSets DEF Open
<1>2. IsFiniteSet(Open)
    BY <1>1, SpaceShape, FS_Subset
<1> QED
    BY <1>1, <1>2 DEF Open, InState

(* Reading unsat_node takes the same nodes out of the sets and, by number, *)
(* out of the counters.                                                    *)
LEMMA UnsatNodeCounts ==
    ASSUME IndInv, NEW n \in Nodes, nodeState[n] \in Told, ReadUnsatNode(n)
    PROVE  /\ \E w \in SUBSET InState("waiting") :
                 /\ InState("waiting")' = InState("waiting") \ w
                 /\ aliveTasks' = aliveTasks - Cardinality(w)
           /\ \E o \in SUBSET Open :
                 /\ Open' = Open \ o
                 /\ unsolved' = unsolved - Cardinality(o)
<1> DEFINE solved == SolvedUnsat(nodeState, n)
<1>0. nodeState \in [Nodes -> States]
    BY DEF IndInv, TypeOK, PartitionerTypeOK
<1>1. solved \subseteq Nodes /\ \A m \in solved : nodeState[m] \notin {"none", "unsat"}
    BY SolvedOpen DEF IndInv
<1>2. /\ nodeState' = [m \in Nodes |-> IF m \in solved THEN "unsat" ELSE nodeState[m]]
      /\ aliveTasks' = aliveTasks - Cardinality({m \in solved : nodeState[m] = "waiting"})
      /\ unsolved' = unsolved - Cardinality(solved)
    BY DEF ReadUnsatNode
<1> HIDE DEF solved
<1>3. InState("waiting")' = InState("waiting") \ {m \in solved : nodeState[m] = "waiting"}
    BY <1>0, <1>1, <1>2 DEF InState
<1>4. {m \in solved : nodeState[m] = "waiting"} \in SUBSET InState("waiting")
    BY <1>1 DEF InState
<1>5. solved \subseteq Open
    BY <1>0, <1>1 DEF Open, InState, States
<1>6. Open' = Open \ solved
    BY <1>0, <1>1, <1>2 DEF Open, InState
<1> QED
    BY <1>2, <1>3, <1>4, <1>5, <1>6

(* Every step changes m_alive_task_num as it changes the WAITING nodes.    *)
LEMMA AliveStep ==
    ASSUME IndInv, AliveCountsWaiting, [Next]_vars
    PROVE  AliveCountsWaiting'
<1> USE DEF AliveCountsWaiting
<1>0. /\ nodeState \in [Nodes -> States] /\ aliveTasks \in Int
      /\ IsFiniteSet(InState("waiting"))
    BY StateSets DEF IndInv, TypeOK, PartitionerTypeOK
<1>1. CASE UNCHANGED <<nodeState, aliveTasks>>
    BY <1>1 DEF InState
<1>2. CASE ParseLine
    <2> DEFINE n == Head(fromCoord).node
    <2>1. n \in Nodes /\ nodeState[n] \in Told
        BY <1>2, CommandNode DEF IndInv, ParseLine
    <2>2. CASE ReadUnsatNode(n)
        <3>1. PICK w \in SUBSET InState("waiting") :
                InState("waiting")' = InState("waiting") \ w
                    /\ aliveTasks' = aliveTasks - Cardinality(w)
            BY <2>1, <2>2, UnsatNodeCounts
        <3>2. Cardinality(InState("waiting") \ w) = Cardinality(InState("waiting")) - Cardinality(w)
            BY <1>0, CountMinus
        <3> QED
            BY <3>1, <3>2
    <2>3. CASE ReadTerminateNode(n)
        <3>1. CASE nodeState[n] = "waiting"
            <4>1. nodeState' = [nodeState EXCEPT ![n] = "terminated"] /\ aliveTasks' = aliveTasks - 1
                BY <2>3, <3>1 DEF ReadTerminateNode
            <4>2. InState("waiting")' = InState("waiting") \ {n} /\ n \in InState("waiting")
                BY <1>0, <2>1, <3>1, <4>1 DEF InState
            <4>3. Cardinality(InState("waiting") \ {n}) = Cardinality(InState("waiting")) - 1
                BY <1>0, <4>2, FS_RemoveElement
            <4> QED
                BY <4>1, <4>2, <4>3
        <3>2. CASE nodeState[n] # "waiting"
            BY <1>1, <2>3, <3>2 DEF ReadTerminateNode
        <3> QED
            BY <3>1, <3>2
    <2> QED
        BY <1>2, <2>2, <2>3 DEF ParseLine
<1>3. ASSUME NEW n \in Nodes, SkipNode(n) \/ RefuteNode(n)
      PROVE  AliveCountsWaiting'
    <2>1. UNCHANGED aliveTasks
        BY <1>3 DEF SkipNode, RefuteNode
    <2>2. \/ UNCHANGED nodeState
          \/ nodeState[n] = "unconverted" /\ nodeState' = [nodeState EXCEPT ![n] = "unsat"]
        BY <1>3 DEF SkipNode, RefuteNode, Convertible
    <2>3. InState("waiting")' = InState("waiting")
        BY <1>0, <2>2 DEF InState
    <2> QED
        BY <2>1, <2>3
<1>4. CASE Announce
    <2>1. /\ ptask \in Nodes /\ nodeState[ptask] = "unconverted" /\ nodeState'[ptask] = "waiting"
          /\ aliveTasks' = aliveTasks + 1
        BY <1>4, AnnounceEffect
    <2>2. PICK dead \in SUBSET (Kids[ptask] \cap Refutable) :
            /\ \A k \in dead : nodeState[k] = "none" /\ nodeState'[k] = "unsat"
            /\ \A k \in Kids[ptask] \ dead : nodeState[k] = "none" /\ nodeState'[k] = "unconverted"
            /\ \A m \in Nodes \ (Kids[ptask] \cup {ptask}) : nodeState'[m] = nodeState[m]
        BY <1>4, AnnounceEffect
    <2>3. InState("waiting")' = InState("waiting") \cup {ptask} /\ ptask \notin InState("waiting")
        BY <2>1, <2>2 DEF InState
    <2>4. Cardinality(InState("waiting") \cup {ptask}) = Cardinality(InState("waiting")) + 1
        BY <1>0, <2>3, FS_AddElement
    <2> QED
        BY <2>1, <2>3, <2>4
<1> QED
    <2>1. CASE StartSelect \/ (\E n \in Nodes : BuildTask(n)) \/ Finish \/ CoordinatorReads
        BY <2>1, <1>1 DEF StartSelect, BuildTask, Finish, CoordinatorReads
    <2>2. CASE \E n \in Nodes, o \in {"unsat_node", "terminate_node"} : CoordinatorWrites(o, n)
        BY <2>2, <1>1 DEF CoordinatorWrites
    <2>3. CASE UNCHANGED vars
        BY <2>3, <1>1 DEF vars, partitionerVars
    <2> QED
        BY <1>2, <1>3, <1>4, <2>1, <2>2, <2>3 DEF Next, PartitionerNext

(* m_alive_task_num counts the WAITING nodes whatever the coordinator      *)
(* sends: the throttle and the final verdict read a true number.           *)
THEOREM AliveCountsWaitingHolds == Spec => []AliveCountsWaiting
<1>1. Init => AliveCountsWaiting
    <2> SUFFICES ASSUME Init PROVE AliveCountsWaiting
        OBVIOUS
    <2>1. InState("waiting") = {} /\ aliveTasks = 0
        BY DEF Init, PartitionerInit, InState
    <2> QED
        BY <2>1, FS_EmptySet DEF AliveCountsWaiting
<1>2. IndInv /\ AliveCountsWaiting /\ [Next]_vars => AliveCountsWaiting'
    BY AliveStep
<1> QED
    BY <1>1, <1>2, Inductive, PTL DEF Spec

(* The throttle is read before every selection and nothing announces a     *)
(* task between the reading and the next announcement.                     *)
Throttled ==
    /\ AliveBounded
    /\ phase \in {"select", "announce"} => aliveTasks <= MaxAlive

(* m_max_alive_tasks is a natural number.                                  *)
LEMMA MaxAliveNat == MaxAlive \in Nat
BY MaxRunningType DEF MaxAlive

(* The throttle test before a selection bounds the announcement after it.  *)
LEMMA ThrottledStep ==
    ASSUME IndInv, Throttled, [Next]_vars
    PROVE  Throttled'
<1> USE MaxAliveNat DEF Throttled, AliveBounded
<1>0. aliveTasks \in Int
    BY DEF IndInv, TypeOK, PartitionerTypeOK
<1>1. CASE UNCHANGED <<phase, aliveTasks>>
    BY <1>1
<1>2. CASE ParseLine
    <2> DEFINE n == Head(fromCoord).node
    <2>1. n \in Nodes /\ nodeState[n] \in Told /\ phase = "loop" /\ UNCHANGED phase
        BY <1>2, CommandNode DEF IndInv, ParseLine
    <2>2. aliveTasks' \in Int /\ aliveTasks' <= aliveTasks
        <3>1. CASE ReadUnsatNode(n)
            <4>1. PICK w \in SUBSET InState("waiting") : aliveTasks' = aliveTasks - Cardinality(w)
                BY <2>1, <3>1, UnsatNodeCounts
            <4>2. Cardinality(w) \in Nat
                BY StateSets, CountMinus
            <4> QED
                BY <1>0, <4>1, <4>2
        <3>2. CASE ReadTerminateNode(n)
            BY <1>0, <3>2 DEF ReadTerminateNode
        <3> QED
            BY <1>2, <3>1, <3>2 DEF ParseLine
    <2> QED
        BY <1>0, <2>1, <2>2
<1>3. CASE StartSelect
    BY <1>3 DEF StartSelect
<1>4. ASSUME NEW n \in Nodes, SkipNode(n) \/ RefuteNode(n)
      PROVE  Throttled'
    BY <1>1, <1>4 DEF SkipNode, RefuteNode
<1>5. ASSUME NEW n \in Nodes, BuildTask(n)
      PROVE  Throttled'
    BY <1>5 DEF BuildTask, Convertible
<1>6. CASE Finish
    BY <1>0, <1>6 DEF Finish
<1>7. CASE Announce
    BY <1>0, <1>7 DEF Announce
<1> QED
    <2>1. CASE CoordinatorReads \/ \E n \in Nodes, o \in {"unsat_node", "terminate_node"} : CoordinatorWrites(o, n)
        BY <2>1, <1>1 DEF CoordinatorReads, CoordinatorWrites
    <2>2. CASE UNCHANGED vars
        BY <2>2, <1>1 DEF vars, partitionerVars
    <2> QED
        BY <1>2, <1>3, <1>4, <1>5, <1>6, <1>7, <2>1, <2>2 DEF Next, PartitionerNext

(* However the commands arrive, the process never has more than            *)
(* m_max_alive_tasks + 1 tasks announced and alive (AliveBounded).         *)
THEOREM AliveBoundedHolds == Spec => []AliveBounded
<1>1. Init => Throttled
    BY MaxAliveNat DEF Init, PartitionerInit, Throttled, AliveBounded
<1>2. IndInv /\ Throttled /\ [Next]_vars => Throttled'
    BY ThrottledStep
<1> QED
    BY <1>1, <1>2, Inductive, PTL DEF Spec, Throttled

-----------------------------------------------------------------------------
(* UnsolvedCoversOpen in terms of the open nodes.                          *)
LEMMA CoversOpen == UnsolvedCoversOpen <=> (phase # "done" => unsolved >= Cardinality(Open))
BY DEF UnsolvedCoversOpen, Open

(* No step lets m_unsolved_task_num fall below the number of open nodes.   *)
LEMMA CoversStep ==
    ASSUME IndInv, phase # "done" => unsolved >= Cardinality(Open), [Next]_vars
    PROVE  (phase # "done" => unsolved >= Cardinality(Open))'
<1>0. /\ nodeState \in [Nodes -> States] /\ unsolved \in Int
      /\ IsFiniteSet(Open) /\ Cardinality(Open) \in Nat
    BY OpenSet, FS_CardinalityType DEF IndInv, TypeOK, PartitionerTypeOK
<1>1. CASE UNCHANGED <<nodeState, unsolved, phase>>
    BY <1>1 DEF Open, InState
<1>2. CASE ParseLine
    <2> DEFINE n == Head(fromCoord).node
    <2>1. n \in Nodes /\ nodeState[n] \in Told /\ phase = "loop"
        BY <1>2, CommandNode DEF IndInv, ParseLine
    <2>2. CASE ReadUnsatNode(n)
        <3>1. PICK o \in SUBSET Open :
                Open' = Open \ o /\ unsolved' = unsolved - Cardinality(o)
            BY <2>1, <2>2, UnsatNodeCounts
        <3>2. Cardinality(Open \ o) = Cardinality(Open) - Cardinality(o) /\ Cardinality(o) \in Nat
            BY <1>0, CountMinus
        <3> QED
            BY <1>0, <2>1, <3>1, <3>2
    <2>3. CASE ReadTerminateNode(n)
        <3>1. Open' = Open /\ UNCHANGED unsolved
            BY <1>0, <2>1, <2>3 DEF ReadTerminateNode, Open, InState
        <3> QED
            BY <2>1, <3>1
    <2> QED
        BY <1>2, <2>2, <2>3 DEF ParseLine
<1>3. ASSUME NEW n \in Nodes, SkipNode(n) \/ RefuteNode(n)
      PROVE  (phase # "done" => unsolved >= Cardinality(Open))'
    <2>1. UNCHANGED unsolved /\ phase = "select"
        BY <1>3 DEF SkipNode, RefuteNode, Convertible
    <2>2. \/ UNCHANGED nodeState
          \/ nodeState[n] = "unconverted" /\ nodeState' = [nodeState EXCEPT ![n] = "unsat"]
        BY <1>3 DEF SkipNode, RefuteNode, Convertible
    <2>3. Open' \subseteq Open
        BY <1>0, <2>2 DEF Open, InState
    <2>4. Cardinality(Open') <= Cardinality(Open) /\ Cardinality(Open') \in Nat
        BY <1>0, <2>3, CountMinus
    <2> QED
        BY <1>0, <2>1, <2>4
<1>4. CASE Announce
    <2>1. phase = "announce" /\ ptask \in Nodes
          /\ nodeState[ptask] = "unconverted" /\ nodeState'[ptask] = "waiting"
        BY <1>4, AnnounceEffect
    <2>2. PICK dead \in SUBSET (Kids[ptask] \cap Refutable) :
            /\ \A k \in dead : nodeState[k] = "none" /\ nodeState'[k] = "unsat"
            /\ \A k \in Kids[ptask] \ dead : nodeState[k] = "none" /\ nodeState'[k] = "unconverted"
            /\ \A m \in Nodes \ (Kids[ptask] \cup {ptask}) : nodeState'[m] = nodeState[m]
            /\ unsolved' = unsolved + Cardinality(Kids[ptask] \ dead)
        BY <1>4, AnnounceEffect
    <2> DEFINE born == Kids[ptask] \ dead
    <2>3. born \subseteq Nodes /\ IsFiniteSet(born)
        BY <2>1, KidsFinite, FS_Subset
    <2>4. Open' = Open \cup born /\ Open \cap born = {}
        <3>1. \A m \in Nodes : m \in Open' <=> nodeState'[m] \in {"unconverted", "waiting", "terminated"}
            BY DEF Open, InState
        <3>2. Open' \subseteq Nodes
            BY DEF Open, InState
        <3>3. \A m \in Nodes : m \in Open' <=> m \in Open \cup born
            BY <2>1, <2>2, <3>1, OpenSet
        <3> QED
            BY <2>2, <2>3, <3>2, <3>3, OpenSet
    <2>5. Cardinality(Open \cup born) = Cardinality(Open) + Cardinality(born) /\ Cardinality(born) \in Nat
        <3>1. Cardinality(born) \in Nat
            BY <2>3, FS_CardinalityType
        <3>2. Cardinality(Open \cup born)
                = Cardinality(Open) + Cardinality(born) - Cardinality(Open \cap born)
            BY <1>0, <2>3, FS_Union
        <3>3. Cardinality(Open \cap born) = 0
            BY <2>4, FS_EmptySet
        <3> QED
            BY <1>0, <3>1, <3>2, <3>3
    <2>6. unsolved >= Cardinality(Open) /\ unsolved' = unsolved + Cardinality(born)
        BY <2>1, <2>2
    <2>7. Cardinality(Open') = Cardinality(Open) + Cardinality(born)
        BY <2>4, <2>5
    <2> HIDE DEF born
    <2> QED
        BY <1>0, <2>5, <2>6, <2>7
<1>5. CASE StartSelect \/ \E n \in Nodes : BuildTask(n)
    <2>1. UNCHANGED <<nodeState, unsolved>> /\ phase # "done"
        BY <1>5 DEF StartSelect, BuildTask, Convertible
    <2>2. Open' = Open
        BY <2>1 DEF Open, InState
    <2> QED
        BY <2>1, <2>2
<1> QED
    <2>1. CASE Finish
        <3>1. phase' = "done"
            BY <2>1 DEF Finish
        <3> QED
            BY <3>1
    <2>2. CASE CoordinatorReads \/ \E n \in Nodes, o \in {"unsat_node", "terminate_node"} : CoordinatorWrites(o, n)
        BY <2>2, <1>1 DEF CoordinatorReads, CoordinatorWrites
    <2>3. CASE UNCHANGED vars
        BY <2>3, <1>1 DEF vars, partitionerVars
    <2> QED
        BY <1>2, <1>3, <1>4, <1>5, <2>1, <2>2, <2>3 DEF Next, PartitionerNext

(* m_unsolved_task_num, unsigned, never wraps below the number of nodes    *)
(* still open, though some drops are never subtracted: the division of     *)
(* select_best_var is never by zero (UnsolvedCoversOpen).                  *)
THEOREM UnsolvedCoversOpenHolds == Spec => []UnsolvedCoversOpen
<1>1. Init => (phase # "done" => unsolved >= Cardinality(Open))
    <2> SUFFICES ASSUME Init, phase # "done" PROVE unsolved >= Cardinality(Open)
        OBVIOUS
    <2>1. Open = {Root} /\ unsolved = 1
        BY SpaceShape DEF Init, PartitionerInit, Open, InState
    <2>2. Cardinality({Root}) = 1
        BY FS_Singleton, Zenon
    <2> QED
        BY <2>1, <2>2
<1>2. IndInv /\ (phase # "done" => unsolved >= Cardinality(Open)) /\ [Next]_vars
        => (phase # "done" => unsolved >= Cardinality(Open))'
    BY CoversStep
<1>3. UnsolvedCoversOpen <=> (phase # "done" => unsolved >= Cardinality(Open))
    BY CoversOpen
<1> QED
    BY <1>1, <1>2, <1>3, Inductive, PTL DEF Spec

-----------------------------------------------------------------------------
(* The order of the announcements: every line names a node nobody has been *)
(* told of yet, and its parent's line came before it.                      *)
(*                                                                         *)
(* The argument.  What was announced is in an announced state              *)
(* (AnnouncedState), so a node that is UNCONVERTED or does not exist has   *)
(* no line: these are the only nodes a line is written for.  A node exists *)
(* only once its parent was announced as a task (ParentTold): split_node   *)
(* makes the halves in the step that announces their parent.               *)

(* The node p was announced as a task: the line is read or in the pipe.    *)
TaskTold(p) == p \in known \/ \E j \in 1 .. Len(toCoord) : toCoord[j] = NewNode(p)

(* The parents of all nodes that exist were announced as tasks.            *)
ParentTold ==
    \A n \in Nodes : nodeState[n] # "none" => \A p \in ParentOf(n) : TaskTold(p)

(* A node without a line.                                                  *)
Fresh(n) ==
    /\ n \notin known
    /\ \A i \in 1 .. Len(toCoord) : toCoord[i].op # "verdict" => toCoord[i].node # n

(* The lines s name different nodes, none of which has a line yet.         *)
NewLines(s) ==
    \A i \in 1 .. Len(s) : s[i].op # "verdict" =>
        /\ Fresh(s[i].node)
        /\ \A j \in 1 .. Len(s) : j # i /\ s[j].op # "verdict" => s[j].node # s[i].node

(* The parent of every node in s is announced before, in s or earlier.     *)
ParentsBefore(s) ==
    \A i \in 1 .. Len(s) : s[i].op # "verdict" =>
        \A p \in ParentOf(s[i].node) :
            TaskTold(p) \/ \E j \in 1 .. i - 1 : s[j] = NewNode(p)

OrderInv == IndInv /\ ParentTold /\ ParentAnnouncedFirst /\ AnnouncedOnce

-----------------------------------------------------------------------------
(* A node that was not announced has no line.                              *)
LEMMA UntoldFresh ==
    ASSUME IndInv, NEW n \in Nodes, nodeState[n] \in {"none", "unconverted"}
    PROVE  Fresh(n)
<1>1. toCoord \in Seq(Lines)
    BY DEF IndInv, TypeOK, PartitionerTypeOK
<1>2. \A i \in 1 .. Len(toCoord) :
        toCoord[i].op \in {"verdict", "new_unsat_node", "new_unknown_node"}
    BY <1>1 DEF Lines
<1>3. \A i \in 1 .. Len(toCoord) :
        toCoord[i].op # "verdict" => nodeState[toCoord[i].node] \in {"waiting", "unsat", "terminated"}
    BY <1>2 DEF IndInv, AnnouncedState
<1>4. n \notin known
    BY DEF IndInv, AnnouncedState
<1> QED
    BY <1>3, <1>4 DEF Fresh

(* Where a line of two sequences put together comes from.                  *)
LEMMA Joined ==
    ASSUME NEW s \in Seq(Lines), NEW t \in Seq(Lines)
    PROVE  /\ s \o t \in Seq(Lines) /\ Len(s \o t) = Len(s) + Len(t)
           /\ \A i \in 1 .. Len(s) : (s \o t)[i] = s[i]
           /\ \A i \in 1 .. Len(t) : (s \o t)[Len(s) + i] = t[i]
           /\ \A i \in 1 .. Len(s \o t) :
                 \/ i \in 1 .. Len(s) /\ (s \o t)[i] = s[i]
                 \/ i - Len(s) \in 1 .. Len(t) /\ (s \o t)[i] = t[i - Len(s)]
OBVIOUS

(* New lines at the end of the pipe keep the announcements single ...      *)
LEMMA OnceAfter ==
    ASSUME toCoord \in Seq(Lines), AnnouncedOnce,
           NEW s \in Seq(Lines), NewLines(s), toCoord' = toCoord \o s, known' = known
    PROVE  AnnouncedOnce'
<1> DEFINE q == toCoord \o s
           d == Len(toCoord)
<1>1. /\ d \in Nat
      /\ \A i \in 1 .. Len(q) :
           \/ i \in 1 .. d /\ q[i] = toCoord[i]
           \/ i - d \in 1 .. Len(s) /\ q[i] = s[i - d]
    BY Joined
<1>2. SUFFICES ASSUME NEW i \in 1 .. Len(q), q[i].op # "verdict"
               PROVE  /\ q[i].node \notin known
                      /\ \A j \in 1 .. Len(q) : j # i /\ q[j].op # "verdict" => q[j].node # q[i].node
    BY DEF AnnouncedOnce
<1> HIDE DEF q, d
<1>3. CASE i \in 1 .. d /\ q[i] = toCoord[i]
    <2>1. toCoord[i].node \notin known
        BY <1>2, <1>3 DEF AnnouncedOnce, d
    <2>2. ASSUME NEW j \in 1 .. Len(q), j # i, q[j].op # "verdict" PROVE q[j].node # q[i].node
        <3>1. CASE j \in 1 .. d /\ q[j] = toCoord[j]
            BY <1>2, <1>3, <2>2, <3>1 DEF AnnouncedOnce, d
        <3>2. CASE j - d \in 1 .. Len(s) /\ q[j] = s[j - d]
            BY <1>2, <1>3, <2>2, <3>2 DEF NewLines, Fresh, d
        <3> QED
            BY <1>1, <3>1, <3>2
    <2> QED
        BY <1>3, <2>1, <2>2
<1>4. CASE i - d \in 1 .. Len(s) /\ q[i] = s[i - d]
    <2>1. Fresh(s[i - d].node)
        BY <1>2, <1>4 DEF NewLines
    <2>2. ASSUME NEW j \in 1 .. Len(q), j # i, q[j].op # "verdict" PROVE q[j].node # q[i].node
        <3>1. CASE j \in 1 .. d /\ q[j] = toCoord[j]
            BY <1>2, <1>4, <2>1, <2>2, <3>1 DEF Fresh, d
        <3>2. CASE j - d \in 1 .. Len(s) /\ q[j] = s[j - d]
            <4>1. j - d # i - d
                BY <1>1, <2>2
            <4> QED
                BY <1>2, <1>4, <2>2, <3>2, <4>1 DEF NewLines
        <3> QED
            BY <1>1, <3>1, <3>2
    <2> QED
        BY <1>4, <2>1, <2>2 DEF Fresh
<1> QED
    BY <1>1, <1>3, <1>4

(* ... and the parents first.                                              *)
LEMMA FirstAfter ==
    ASSUME toCoord \in Seq(Lines), ParentAnnouncedFirst,
           NEW s \in Seq(Lines), ParentsBefore(s), toCoord' = toCoord \o s, known' = known
    PROVE  ParentAnnouncedFirst'
<1> DEFINE q == toCoord \o s
           d == Len(toCoord)
<1>1. /\ d \in Nat
      /\ \A i \in 1 .. d : q[i] = toCoord[i]
      /\ \A i \in 1 .. Len(s) : q[d + i] = s[i]
      /\ \A i \in 1 .. Len(q) :
           \/ i \in 1 .. d /\ q[i] = toCoord[i]
           \/ i - d \in 1 .. Len(s) /\ q[i] = s[i - d]
    BY Joined
<1>2. SUFFICES ASSUME NEW i \in 1 .. Len(q), q[i].op # "verdict", NEW p \in ParentOf(q[i].node)
               PROVE  p \in known \/ \E j \in 1 .. i - 1 : q[j] = NewNode(p)
    BY DEF ParentAnnouncedFirst
<1> HIDE DEF q, d
<1>3. CASE i \in 1 .. d /\ q[i] = toCoord[i]
    <2>1. p \in known \/ \E j \in 1 .. i - 1 : toCoord[j] = NewNode(p)
        BY <1>2, <1>3 DEF ParentAnnouncedFirst, d
    <2>2. \A j \in 1 .. i - 1 : j \in 1 .. d
        BY <1>1, <1>3
    <2> QED
        BY <1>1, <2>1, <2>2
<1>4. CASE i - d \in 1 .. Len(s) /\ q[i] = s[i - d]
    <2>1. TaskTold(p) \/ \E j \in 1 .. (i - d) - 1 : s[j] = NewNode(p)
        BY <1>2, <1>4 DEF ParentsBefore
    <2>2. CASE TaskTold(p)
        <3>1. p \in known \/ \E j \in 1 .. d : toCoord[j] = NewNode(p)
            BY <2>2 DEF TaskTold, d
        <3>2. \A j \in 1 .. d : j \in 1 .. i - 1
            BY <1>1, <1>4
        <3> QED
            BY <1>1, <3>1, <3>2
    <2>3. ASSUME NEW j \in 1 .. (i - d) - 1, s[j] = NewNode(p)
          PROVE  \E k \in 1 .. i - 1 : q[k] = NewNode(p)
        <3>1. d + j \in 1 .. i - 1 /\ j \in 1 .. Len(s)
            BY <1>1, <1>4
        <3> QED
            BY <1>1, <2>3, <3>1
    <2> QED
        BY <2>1, <2>2, <2>3
<1> QED
    BY <1>1, <1>3, <1>4

(* A task stays announced when more lines are written, and a new task line *)
(* announces its node.                                                     *)
LEMMA ToldAfter ==
    ASSUME toCoord \in Seq(Lines), NEW s \in Seq(Lines), toCoord' = toCoord \o s, known' = known
    PROVE  \A p : TaskTold(p) \/ (\E i \in 1 .. Len(s) : s[i] = NewNode(p)) => TaskTold(p)'
<1> DEFINE d == Len(toCoord)
           q == toCoord \o s
<1>1. /\ d \in Nat /\ Len(s) \in Nat /\ Len(q) = d + Len(s)
      /\ \A i \in 1 .. d : q[i] = toCoord[i]
      /\ \A i \in 1 .. Len(s) : q[d + i] = s[i]
    BY Joined
<1>2. toCoord' = q
    OBVIOUS
<1> HIDE DEF q, d
<1> SUFFICES ASSUME NEW p, TaskTold(p) \/ \E i \in 1 .. Len(s) : s[i] = NewNode(p)
             PROVE  p \in known \/ \E j \in 1 .. Len(q) : q[j] = NewNode(p)
    BY <1>2 DEF TaskTold
<1>3. ASSUME NEW j \in 1 .. Len(toCoord), toCoord[j] = NewNode(p)
      PROVE  \E k \in 1 .. Len(q) : q[k] = NewNode(p)
    <2>1. j \in 1 .. d /\ j \in 1 .. Len(q)
        BY <1>1, <1>3 DEF d
    <2> QED
        BY <1>1, <1>3, <2>1
<1>4. ASSUME NEW i \in 1 .. Len(s), s[i] = NewNode(p)
      PROVE  \E k \in 1 .. Len(q) : q[k] = NewNode(p)
    <2>1. d + i \in 1 .. Len(q)
        BY <1>1, <1>4
    <2> QED
        BY <1>1, <1>4, <2>1
<1> QED
    BY <1>3, <1>4 DEF TaskTold

-----------------------------------------------------------------------------
(* The lines each step writes.                                             *)

(* split_node reports a refuted left half and a refuted right half: two    *)
(* lines about different nodes.                                            *)
LEMMA BornDistinct ==
    ASSUME NEW dead, dead \subseteq Nodes
    PROVE  \A i, j \in 1 .. Len(BornUnsatLines(dead)) :
              i # j => BornUnsatLines(dead)[i].node # BornUnsatLines(dead)[j].node
<1> DEFINE lines(S) == IF S = {} THEN <<>> ELSE <<NewUnsat(CHOOSE n \in S : TRUE)>>
<1>1. ASSUME NEW S, S \subseteq dead
      PROVE  /\ lines(S) \in Seq(Lines) /\ Len(lines(S)) \in 0 .. 1
             /\ \A i \in 1 .. Len(lines(S)) : lines(S)[i].node \in S
    <2>1. CASE S = {}
        BY <2>1
    <2>2. CASE S # {}
        <3>1. PICK n : n \in S /\ n \in Nodes /\ lines(S) = <<NewUnsat(n)>>
            BY <1>1, <2>2
        <3>2. NewUnsat(n) \in Lines /\ NewUnsat(n).node = n
            BY <3>1 DEF NewUnsat, Lines
        <3> HIDE DEF lines
        <3> QED
            BY <3>1, <3>2
    <2> QED
        BY <2>1, <2>2
<1> DEFINE l == lines(dead \cap LeftKids)
           r == lines(dead \ LeftKids)
           b == l \o r
<1>2. BornUnsatLines(dead) = b
    BY DEF BornUnsatLines
<1>3. /\ l \in Seq(Lines) /\ Len(l) \in 0 .. 1 /\ \A i \in 1 .. Len(l) : l[i].node \in LeftKids
      /\ r \in Seq(Lines) /\ Len(r) \in 0 .. 1 /\ \A i \in 1 .. Len(r) : r[i].node \notin LeftKids
    BY <1>1
<1> HIDE DEF l, r
<1>4. /\ Len(b) = Len(l) + Len(r)
      /\ \A i \in 1 .. Len(b) :
            \/ i \in 1 .. Len(l) /\ b[i] = l[i]
            \/ i - Len(l) \in 1 .. Len(r) /\ b[i] = r[i - Len(l)]
    BY <1>3, Joined
<1> HIDE DEF b
<1>5. \A i, j \in 1 .. Len(b) : i # j => b[i].node # b[j].node
    BY <1>3, <1>4
<1> QED
    BY <1>2, <1>5

(* The parent of a half is the node it was split from, and no other.       *)
LEMMA OneParent ==
    ASSUME NEW n \in Nodes, NEW k \in Kids[n]
    PROVE  ParentOf(k) = {n}
<1>1. k \in Nodes /\ k # n /\ n \in Above(k)
    BY KidFacts
<1>2. k # Root
    BY <1>1, SpaceShape DEF Above
<1> QED
    BY <1>1, <1>2, SpaceShape DEF ParentOf

(* What an announcement adds to the pipe: lines about nodes without one,   *)
(* each after its parent's.                                                *)
LEMMA AnnounceWrites ==
    ASSUME IndInv, ParentTold, Announce
    PROVE  \E s \in Seq(Lines) :
              /\ toCoord' = toCoord \o s /\ NewLines(s) /\ ParentsBefore(s)
              /\ s # <<>> /\ s[1] = NewNode(ptask)
<1>1. ptask \in Nodes /\ nodeState[ptask] = "unconverted"
    BY AnnounceEffect
<1>2. PICK dead \in SUBSET (Kids[ptask] \cap Refutable) :
        /\ \A k \in dead : nodeState[k] = "none"
        /\ toCoord' = Append(toCoord, NewNode(ptask)) \o BornUnsatLines(dead)
    BY AnnounceEffect
<1>3. dead \subseteq Nodes /\ ptask \notin dead
    BY <1>1, <1>2, KidFacts
<1> DEFINE b == BornUnsatLines(dead)
           s == <<NewNode(ptask)>> \o b
<1>4. /\ b \in Seq(Lines)
      /\ \A i \in 1 .. Len(b) : b[i].op = "new_unsat_node" /\ b[i].node \in dead
      /\ \A i, j \in 1 .. Len(b) : i # j => b[i].node # b[j].node
    BY <1>3, BornLines, BornDistinct
<1>5. /\ NewNode(ptask) \in Lines /\ <<NewNode(ptask)>> \in Seq(Lines)
      /\ NewNode(ptask).op = "new_unknown_node" /\ NewNode(ptask).node = ptask
    BY <1>1 DEF NewNode, Lines
<1>6. toCoord \in Seq(Lines)
    BY DEF IndInv, TypeOK, PartitionerTypeOK
<1> HIDE DEF b
<1>7. toCoord' = toCoord \o s
    <2>1. Append(toCoord, NewNode(ptask)) = toCoord \o <<NewNode(ptask)>>
        BY <1>5, <1>6, AppendIsConcat
    <2> QED
        BY <1>2, <1>4, <1>5, <1>6, <2>1, ConcatAssociative DEF b
<1>8. /\ s \in Seq(Lines) /\ s # <<>> /\ s[1] = NewNode(ptask)
      /\ \A i \in 1 .. Len(s) : i = 1 \/ (i - 1 \in 1 .. Len(b) /\ s[i] = b[i - 1])
    BY <1>4, <1>5
<1> HIDE DEF s
<1>9. Fresh(ptask) /\ \A k \in dead : Fresh(k)
    BY <1>1, <1>2, <1>3, UntoldFresh
<1>10. NewLines(s)
    <2> SUFFICES ASSUME NEW i \in 1 .. Len(s)
                 PROVE  /\ Fresh(s[i].node)
                        /\ \A j \in 1 .. Len(s) : j # i => s[j].node # s[i].node
        BY DEF NewLines
    <2>1. CASE i = 1
        BY <1>3, <1>4, <1>5, <1>8, <1>9, <2>1
    <2>2. CASE i - 1 \in 1 .. Len(b) /\ s[i] = b[i - 1]
        <3>1. ASSUME NEW j \in 1 .. Len(s), j # i PROVE s[j].node # s[i].node
            <4>1. CASE j = 1
                BY <1>3, <1>4, <1>5, <1>8, <2>2, <4>1
            <4>2. CASE j - 1 \in 1 .. Len(b) /\ s[j] = b[j - 1]
                BY <1>4, <2>2, <3>1, <4>2
            <4> QED
                BY <1>8, <4>1, <4>2
        <3> QED
            BY <1>4, <1>9, <2>2, <3>1
    <2> QED
        BY <1>8, <2>1, <2>2
<1>11. ParentsBefore(s)
    <2> SUFFICES ASSUME NEW i \in 1 .. Len(s), NEW p \in ParentOf(s[i].node)
                 PROVE  TaskTold(p) \/ \E j \in 1 .. i - 1 : s[j] = NewNode(p)
        BY DEF ParentsBefore
    <2>1. CASE i = 1
        BY <1>1, <1>5, <1>8, <2>1 DEF ParentTold
    <2>2. CASE i - 1 \in 1 .. Len(b) /\ s[i] = b[i - 1]
        <3>1. p = ptask
            BY <1>1, <1>2, <1>4, <2>2, OneParent
        <3>2. 1 \in 1 .. i - 1
            BY <2>2
        <3> QED
            BY <1>8, <3>1, <3>2
    <2> QED
        BY <1>8, <2>1, <2>2
<1> QED
    BY <1>7, <1>8, <1>10, <1>11

(* One line is enough for the other steps: a node in the heap has none.    *)
LEMMA RefuteWrites ==
    ASSUME IndInv, ParentTold, NEW n \in Nodes, RefuteNode(n)
    PROVE  \E s \in Seq(Lines) :
              toCoord' = toCoord \o s /\ NewLines(s) /\ ParentsBefore(s)
<1>1. nodeState[n] = "unconverted" /\ toCoord' = Append(toCoord, NewUnsat(n))
    BY DEF RefuteNode, Convertible
<1>2. NewUnsat(n) \in Lines /\ <<NewUnsat(n)>> \in Seq(Lines) /\ NewUnsat(n).node = n
    BY DEF NewUnsat, Lines
<1>3. toCoord \in Seq(Lines)
    BY DEF IndInv, TypeOK, PartitionerTypeOK
<1>4. toCoord' = toCoord \o <<NewUnsat(n)>>
    BY <1>1, <1>2, <1>3, AppendIsConcat
<1>5. Fresh(n) /\ \A p \in ParentOf(n) : TaskTold(p)
    BY <1>1, UntoldFresh DEF ParentTold
<1>6. NewLines(<<NewUnsat(n)>>)
    BY <1>2, <1>5 DEF NewLines
<1>7. ParentsBefore(<<NewUnsat(n)>>)
    BY <1>2, <1>5 DEF ParentsBefore
<1> QED
    BY <1>2, <1>4, <1>6, <1>7

(* The verdict names no node.                                              *)
LEMMA FinishWrites ==
    ASSUME IndInv, Finish
    PROVE  \E s \in Seq(Lines) :
              toCoord' = toCoord \o s /\ NewLines(s) /\ ParentsBefore(s)
<1>1. PICK v \in Verdicts : toCoord' = Append(toCoord, Verdict(v))
    BY DEF Finish, Verdicts
<1>2. Verdict(v) \in Lines /\ <<Verdict(v)>> \in Seq(Lines) /\ Verdict(v).op = "verdict"
    BY DEF Verdict, Lines
<1>3. toCoord \in Seq(Lines)
    BY DEF IndInv, TypeOK, PartitionerTypeOK
<1>4. toCoord' = toCoord \o <<Verdict(v)>>
    BY <1>1, <1>2, <1>3, AppendIsConcat
<1>5. NewLines(<<Verdict(v)>>) /\ ParentsBefore(<<Verdict(v)>>)
    BY <1>2 DEF NewLines, ParentsBefore
<1> QED
    BY <1>2, <1>4, <1>5

-----------------------------------------------------------------------------
(* The coordinator takes the first line: what it announced becomes known,  *)
(* and the others move up.                                                 *)
LEMMA ReadStep ==
    ASSUME IndInv, ParentAnnouncedFirst, AnnouncedOnce, CoordinatorReads
    PROVE  ParentAnnouncedFirst' /\ AnnouncedOnce' /\ \A p : TaskTold(p) => TaskTold(p)'
<1> DEFINE q == Tail(toCoord)
<1>1. /\ toCoord \in Seq(Lines) /\ toCoord # <<>> /\ toCoord' = q
      /\ 1 \in 1 .. Len(toCoord) /\ Head(toCoord) = toCoord[1]
      /\ q \in Seq(Lines) /\ Len(q) = Len(toCoord) - 1
      /\ \A i \in 1 .. Len(q) : q[i] = toCoord[i + 1] /\ i + 1 \in 1 .. Len(toCoord)
    BY DEF CoordinatorReads, IndInv, TypeOK, PartitionerTypeOK
<1>2. known' = known \cup IF toCoord[1].op = "verdict" THEN {} ELSE {toCoord[1].node}
    BY <1>1 DEF CoordinatorReads
<1> HIDE DEF q
<1>3. \A p : toCoord[1] = NewNode(p) => p \in known'
    BY <1>2 DEF NewNode
<1>4. AnnouncedOnce'
    <2> SUFFICES ASSUME NEW i \in 1 .. Len(q), q[i].op # "verdict"
                 PROVE  /\ q[i].node \notin known'
                        /\ \A j \in 1 .. Len(q) : j # i /\ q[j].op # "verdict" => q[j].node # q[i].node
        BY <1>1 DEF AnnouncedOnce
    <2>1. i + 1 \in 1 .. Len(toCoord) /\ q[i] = toCoord[i + 1] /\ i + 1 # 1
        BY <1>1
    <2>2. q[i].node \notin known
        BY <2>1 DEF AnnouncedOnce
    <2>3. toCoord[1].op # "verdict" => toCoord[1].node # q[i].node
        BY <1>1, <2>1 DEF AnnouncedOnce
    <2>4. ASSUME NEW j \in 1 .. Len(q), j # i, q[j].op # "verdict" PROVE q[j].node # q[i].node
        <3>1. j + 1 \in 1 .. Len(toCoord) /\ q[j] = toCoord[j + 1] /\ j + 1 # i + 1
            BY <1>1, <2>4
        <3> QED
            BY <2>1, <2>4, <3>1 DEF AnnouncedOnce
    <2> QED
        BY <1>2, <2>2, <2>3, <2>4
<1>5. ParentAnnouncedFirst'
    <2> SUFFICES ASSUME NEW i \in 1 .. Len(q), q[i].op # "verdict", NEW p \in ParentOf(q[i].node)
                 PROVE  p \in known' \/ \E j \in 1 .. i - 1 : q[j] = NewNode(p)
        BY <1>1 DEF ParentAnnouncedFirst
    <2>1. i + 1 \in 1 .. Len(toCoord) /\ q[i] = toCoord[i + 1]
        BY <1>1
    <2>2. p \in known \/ \E j \in 1 .. (i + 1) - 1 : toCoord[j] = NewNode(p)
        BY <2>1 DEF ParentAnnouncedFirst
    <2>3. ASSUME NEW j \in 1 .. (i + 1) - 1, toCoord[j] = NewNode(p), j # 1
          PROVE  \E k \in 1 .. i - 1 : q[k] = NewNode(p)
        <3>1. j - 1 \in 1 .. i - 1 /\ j - 1 \in 1 .. Len(q) /\ (j - 1) + 1 = j
            BY <2>3
        <3> QED
            BY <1>1, <2>3, <3>1
    <2> QED
        BY <1>2, <1>3, <2>2, <2>3
<1>6. ASSUME NEW p, TaskTold(p) PROVE TaskTold(p)'
    <2>1. SUFFICES p \in known' \/ \E k \in 1 .. Len(q) : q[k] = NewNode(p)
        BY <1>1 DEF TaskTold
    <2>2. CASE p \in known
        BY <1>2, <2>2
    <2>3. ASSUME NEW j \in 1 .. Len(toCoord), toCoord[j] = NewNode(p), j # 1
          PROVE  \E k \in 1 .. Len(q) : q[k] = NewNode(p)
        <3>1. j - 1 \in 1 .. Len(q) /\ (j - 1) + 1 = j
            BY <1>1, <2>3
        <3> QED
            BY <1>1, <2>3, <3>1
    <2> QED
        BY <1>3, <1>6, <2>2, <2>3 DEF TaskTold
<1> QED
    BY <1>4, <1>5, <1>6

(* Every step keeps the order of the announcements.                        *)
LEMMA LinesStep ==
    ASSUME OrderInv, [Next]_vars
    PROVE  /\ ParentAnnouncedFirst' /\ AnnouncedOnce'
           /\ \A p : TaskTold(p) => TaskTold(p)'
           /\ \A p : Announce /\ p = ptask => TaskTold(p)'
<1> USE DEF OrderInv
<1>0. toCoord \in Seq(Lines)
    BY DEF IndInv, TypeOK, PartitionerTypeOK
<1>1. CASE UNCHANGED <<toCoord, known>> /\ ~ Announce
    BY <1>1 DEF ParentAnnouncedFirst, AnnouncedOnce, TaskTold
<1>2. ASSUME NEW n \in Nodes, RefuteNode(n), UNCHANGED known, ~ Announce
      PROVE  ParentAnnouncedFirst' /\ AnnouncedOnce' /\ \A p : TaskTold(p) => TaskTold(p)'
    <2>1. PICK s \in Seq(Lines) : toCoord' = toCoord \o s /\ NewLines(s) /\ ParentsBefore(s)
        BY <1>2, RefuteWrites
    <2> QED
        BY <1>0, <1>2, <2>1, OnceAfter, FirstAfter, ToldAfter
<1>3. CASE Finish /\ UNCHANGED known
    <2>1. PICK s \in Seq(Lines) : toCoord' = toCoord \o s /\ NewLines(s) /\ ParentsBefore(s)
        BY <1>3, FinishWrites
    <2>2. ~ Announce
        BY <1>3 DEF Finish, Announce
    <2> QED
        BY <1>0, <1>3, <2>1, <2>2, OnceAfter, FirstAfter, ToldAfter
<1>4. CASE Announce /\ UNCHANGED known
    <2>1. PICK s \in Seq(Lines) :
            /\ toCoord' = toCoord \o s /\ NewLines(s) /\ ParentsBefore(s)
            /\ s # <<>> /\ s[1] = NewNode(ptask)
        BY <1>4, AnnounceWrites
    <2>2. 1 \in 1 .. Len(s)
        BY <2>1
    <2> QED
        BY <1>0, <1>4, <2>1, <2>2, OnceAfter, FirstAfter, ToldAfter
<1>5. CASE CoordinatorReads
    <2>1. ~ Announce
        BY <1>5 DEF CoordinatorReads, Announce, IndInv, Pending
    <2> QED
        BY <1>5, <2>1, ReadStep
<1> QED
    <2>1. CASE PartitionerNext /\ UNCHANGED known
        <3>1. CASE ParseLine \/ StartSelect \/ \E n \in Nodes : SkipNode(n) \/ BuildTask(n)
            <4>1. UNCHANGED toCoord /\ ~ Announce
                BY <3>1 DEF ParseLine, StartSelect, SkipNode, BuildTask, Convertible, Announce
            <4> QED
                BY <1>1, <2>1, <4>1
        <3>2. ASSUME NEW n \in Nodes, RefuteNode(n) PROVE ~ Announce
            BY <3>2 DEF RefuteNode, Convertible, Announce
        <3> QED
            BY <1>2, <1>3, <1>4, <2>1, <3>1, <3>2 DEF PartitionerNext
    <2>2. CASE \E n \in Nodes, o \in {"unsat_node", "terminate_node"} : CoordinatorWrites(o, n)
        <3>1. UNCHANGED <<toCoord, known, ptask>>
            BY <2>2 DEF CoordinatorWrites
        <3>2. ~ Announce
            BY <2>2 DEF CoordinatorWrites, Announce, IndInv, Pending
        <3> QED
            BY <1>1, <3>1, <3>2
    <2>3. CASE UNCHANGED vars
        <3>1. UNCHANGED <<toCoord, known>> /\ ~ Announce
            BY <2>3 DEF vars, partitionerVars, Announce, IndInv, Pending
        <3> QED
            BY <1>1, <3>1
    <2> QED
        BY <1>5, <2>1, <2>2, <2>3 DEF Next

(* A node is made in the step that announces its parent as a task.         *)
LEMMA ParentToldStep ==
    ASSUME OrderInv, [Next]_vars
    PROVE  ParentTold'
<1>1. \A n \in Nodes : Moves(n)
    BY MovesStep DEF OrderInv
<1>2. /\ \A p : TaskTold(p) => TaskTold(p)'
      /\ \A p : Announce /\ p = ptask => TaskTold(p)'
    BY LinesStep
<1> SUFFICES ASSUME NEW n \in Nodes, nodeState'[n] # "none", NEW p \in ParentOf(n)
             PROVE  TaskTold(p)'
    BY DEF ParentTold
<1>3. CASE nodeState[n] # "none"
    BY <1>2, <1>3 DEF OrderInv, ParentTold
<1>4. CASE nodeState[n] = "none"
    <2>1. phase = "announce" /\ n \in Kids[ptask]
        BY <1>1, <1>4 DEF Moves
    <2>2. ptask \in Nodes /\ p = ptask
        BY <2>1, OneParent DEF OrderInv, IndInv, Pending
    <2>3. nodeState' # nodeState
        BY <1>4
    <2>4. Announce
        <3>1. ~ ParseLine /\ ~ StartSelect /\ ~ Finish
            BY <2>1 DEF ParseLine, StartSelect, Finish
        <3>2. \A m \in Nodes : ~ SkipNode(m) /\ ~ RefuteNode(m) /\ ~ BuildTask(m)
            BY <2>1 DEF SkipNode, RefuteNode, BuildTask, Convertible
        <3>3. ~ CoordinatorReads /\ ~ UNCHANGED vars
              /\ \A m \in Nodes, o \in {"unsat_node", "terminate_node"} : ~ CoordinatorWrites(o, m)
            BY <2>3 DEF CoordinatorReads, CoordinatorWrites, vars, partitionerVars
        <3> QED
            BY <3>1, <3>2, <3>3 DEF Next, PartitionerNext
    <2> QED
        BY <1>2, <2>2, <2>4
<1> QED
    BY <1>3, <1>4

(* At the start nothing is announced, or only the verdict.                 *)
LEMMA InitOrder == Init => OrderInv
<1> SUFFICES ASSUME Init PROVE ParentTold /\ ParentAnnouncedFirst /\ AnnouncedOnce
    BY InitInd DEF OrderInv
<1>1. ASSUME NEW n \in Nodes, nodeState[n] # "none" PROVE ParentOf(n) = {}
    <2>1. n = Root
        BY <1>1 DEF Init, PartitionerInit
    <2>2. \A p \in Nodes : Root \notin Kids[p]
        BY SpaceShape, SelfUp
    <2> QED
        BY <2>1, <2>2 DEF ParentOf
<1>2. \A i \in 1 .. Len(toCoord) : toCoord[i].op = "verdict"
    BY DEF Init, PartitionerInit, Verdict
<1> QED
    BY <1>1, <1>2 DEF ParentTold, ParentAnnouncedFirst, AnnouncedOnce

(* The order of the announcements is an invariant of the process.          *)
LEMMA OrderInductive == Spec => []OrderInv
<1>2. OrderInv /\ [Next]_vars => ParentTold' /\ ParentAnnouncedFirst' /\ AnnouncedOnce'
    BY LinesStep, ParentToldStep
<1> QED
    BY <1>2, InitOrder, Inductive, PTL DEF Spec, OrderInv

(* Whatever the coordinator sends and whenever it reads, the line of a     *)
(* half comes after the line of the node it was split from: make_node      *)
(* always finds the parent (ParentAnnouncedFirst).                         *)
THEOREM ParentAnnouncedFirstHolds == Spec => []ParentAnnouncedFirst
<1>1. OrderInv => ParentAnnouncedFirst
    BY DEF OrderInv
<1> QED
    BY <1>1, OrderInductive, PTL

(* No node is announced twice, neither as a task and refuted nor after the *)
(* coordinator has read its line (AnnouncedOnce).                          *)
THEOREM AnnouncedOnceHolds == Spec => []AnnouncedOnce
<1>1. OrderInv => AnnouncedOnce
    BY DEF OrderInv
<1> QED
    BY <1>1, OrderInductive, PTL

=============================================================================
