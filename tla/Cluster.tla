------------------------------ MODULE Cluster -------------------------------
(***************************************************************************)
(* The leader (leader.py), its distributed tree (partition_tree.py:        *)
(* DistributedTree) and the coordinators seen from outside                 *)
(* (coordinator.py: interactive_solve, isolated_solve, __call__).          *)
(*                                                                         *)
(* A subproblem is a set of candidate points, perhaps none; it is          *)
(* satisfiable when it holds a point of SatPoints.  A coordinator that     *)
(* splits gives a part of its region away; one that finishes reports the   *)
(* truth about what it has left.  Messages are MPI messages: in order      *)
(* between two processes, nothing between different pairs.  A control      *)
(* message (tag 1) and the payload its handler receives next (tag 2) are   *)
(* one record; instances travel between coordinators on channels of their  *)
(* own.                                                                    *)
(***************************************************************************)
EXTENDS Integers, Sequences, FiniteSets

CONSTANTS
    N,              \* num_dist_coords
    Points,         \* candidate points of the input formula
    SatPoints,      \* its solutions
    MaxNodes,       \* bound on the distributed tree: no splits beyond it
    Failing,        \* the coordinators that may raise an exception
    PromptReplies,  \* TRUE: split_tabu outlasts the way of a pending answer
    WithTimeout     \* TRUE: a time limit is set

ASSUME ClusterConstants ==
    /\ N \in Nat \ {0}
    /\ IsFiniteSet(Points)
    /\ MaxNodes \in Nat
    /\ SatPoints \subseteq Points
    /\ PromptReplies \in BOOLEAN
    /\ WithTimeout \in BOOLEAN

Coords == 0 .. N - 1
Iso == N                 \* isolated_rank
Ranks == 0 .. N
NoRank == -1
NoNode == 0

ASSUME FailingType == Failing \subseteq Ranks

VARIABLES
    phase,      \* the leader: "init", "run", "ended"
    result,     \* what the leader prints
    tree,       \* DistributedTree.nodes
    info,       \* coordinators[rank].status
    assigned,   \* coordinators[rank].assigned, an index of tree
    idle,       \* idle_coordinators
    nextSplit,  \* next_split_rank
    state,      \* where each coordinator is
    region,     \* what is left to it of its subproblem
    splitNode,  \* coordinator.split_node: its region and for whom it was split
    source,     \* whom a coordinator in "receive" waits for
    cut,        \* subnodes of the isolated coordinator's pre_partition
    toCoord,    \* leader to coordinator
    toLeader,   \* coordinator to leader
    instance    \* coordinator to coordinator

leaderVars == <<phase, result, tree, info, assigned, idle, nextSplit>>
coordVars == <<state, region, splitNode, source, cut>>
channels == <<toCoord, toLeader, instance>>
vars == <<leaderVars, coordVars, channels>>

Msg(t) == [type |-> t]
MsgRank(t, r) == [type |-> t, rank |-> r]
MsgResult(r) == [type |-> "notify_result", result |-> r]

NoSplitNode == [part |-> {}, target |-> NoRank]
Truth(R) == IF R \cap SatPoints # {} THEN "sat" ELSE "unsat"

(* A node of the distributed tree keeps the set of its ancestors and       *)
(* itself in place of node.parent.                                         *)
TreeNode(up) == [up |-> up, partial |-> "unsolved", status |-> "unsolved"]
ChildOf(t, p) == Append(t, TreeNode(t[p].up \cup {Len(t) + 1}))

Init ==
    /\ phase = "init"
    /\ result = "none"
    /\ tree = <<TreeNode({1})>>
    /\ info = [c \in Ranks |-> IF c = Iso THEN "solving" ELSE "idle"]
    /\ assigned = [c \in Ranks |-> IF c = Iso THEN 1 ELSE NoNode]
    /\ idle = <<>>
    /\ nextSplit = 0
    /\ state = [c \in Ranks |-> IF c = Iso THEN "prePartition" ELSE "idle"]
    /\ region = [c \in Ranks |-> IF c = Iso THEN Points ELSE {}]
    /\ splitNode = [c \in Ranks |-> NoSplitNode]
    /\ source = [c \in Ranks |-> NoRank]
    /\ cut = <<>>
    /\ toCoord = [c \in Ranks |-> <<>>]
    /\ toLeader = [c \in Ranks |-> <<>>]
    /\ instance = [p \in Ranks \X Ranks |-> <<>>]

-----------------------------------------------------------------------------
(* The coordinators.                                                       *)

Tell(c, m) == toLeader' = [toLeader EXCEPT ![c] = Append(@, m)]
Goes(c, s) == state' = [state EXCEPT ![c] = s]

(* receive_message_from_leader: only between two passes of the loop, so    *)
(* not while the coordinator waits for an instance or has failed.          *)
Takes(c, t) ==
    /\ state[c] \in {"idle", "solving"}
    /\ toCoord[c] # <<>>
    /\ Head(toCoord[c]).type = t
    /\ toCoord' = [toCoord EXCEPT ![c] = Tail(@)]

(* process_split_message with nothing to give.                             *)
SplitFails(c) ==
    /\ Takes(c, "request_split")
    /\ Tell(c, MsgRank("split_failed", Head(toCoord[c]).rank))
    /\ UNCHANGED <<leaderVars, coordVars, instance>>

(* process_split_message with a node to give: the node is marked unsat     *)
(* here and kept in split_node until transfer_node arrives.                *)
SplitSucceeds(c) ==
    /\ Takes(c, "request_split")
    /\ state[c] = "solving"
    /\ Len(tree) < MaxNodes
    /\ \E part \in SUBSET region[c] :
          /\ splitNode' = [splitNode EXCEPT ![c] =
                              [part |-> part, target |-> Head(toCoord[c]).rank]]
          /\ region' = [region EXCEPT ![c] = @ \ part]
    /\ Tell(c, MsgRank("split_succeed", Head(toCoord[c]).rank))
    /\ UNCHANGED <<leaderVars, state, source, cut, instance>>

(* process_transfer_message: sends whatever split_node is now.             *)
Transfer(c) ==
    /\ Takes(c, "transfer_node")
    /\ instance' = [instance EXCEPT ![<<c, Head(toCoord[c]).rank>>] =
                        Append(@, splitNode[c].part)]
    /\ UNCHANGED <<leaderVars, coordVars, toLeader>>

(* process_assign_message, up to the blocking receive of the instance.     *)
TakeAssignment(c) ==
    /\ Takes(c, "assign_node")
    /\ Goes(c, "receive")
    /\ source' = [source EXCEPT ![c] = Head(toCoord[c]).rank]
    /\ UNCHANGED <<leaderVars, region, splitNode, cut, toLeader, instance>>

(* receive_node_from_coordinator and start_solving.                        *)
ReceiveInstance(c) ==
    /\ state[c] = "receive"
    /\ instance[<<source[c], c>>] # <<>>
    /\ Goes(c, "solving")
    /\ region' = [region EXCEPT ![c] = Head(instance[<<source[c], c>>])]
    /\ splitNode' = [splitNode EXCEPT ![c] = NoSplitNode]
    /\ instance' = [instance EXCEPT ![<<source[c], c>>] = Tail(@)]
    /\ UNCHANGED <<leaderVars, source, cut, toCoord, toLeader>>

(* Fault: split_node is cleared when the round ends.                       *)
SolveForgets(c) ==
    /\ state[c] = "solving"
    /\ Tell(c, MsgResult(Truth(region[c])))
    /\ Goes(c, "idle")
    /\ splitNode' = [splitNode EXCEPT ![c] = NoSplitNode]
    /\ UNCHANGED <<leaderVars, region, source, cut, toCoord, instance>>

(* parallel_solving returned True: solving_round_done.                     *)
Solve(c) ==
    /\ state[c] = "solving"
    /\ Tell(c, MsgResult(Truth(region[c])))
    /\ Goes(c, "idle")
    /\ UNCHANGED <<leaderVars, region, splitNode, source, cut, toCoord, instance>>

(* An exception in a coordinator at work.                                  *)
Fail(c) ==
    /\ c \in Failing
    /\ state[c] \in {"solving", "prePartition", "handover"}
    /\ Tell(c, Msg("notify_error"))
    /\ Goes(c, "error")
    /\ UNCHANGED <<leaderVars, region, splitNode, source, cut, toCoord, instance>>

(* terminate_coordinator, in the loop or in the handler of the exception,  *)
(* which throws every other message away; then MPI Barrier ("failed" is    *)
(* the barrier after an exception).                                        *)
Terminate(c) ==
    /\ state[c] \in {"idle", "solving", "handover", "error"}
    /\ toCoord[c] # <<>>
    /\ Head(toCoord[c]).type = "terminate_coordinator"
    /\ toCoord' = [toCoord EXCEPT ![c] = Tail(@)]
    /\ Goes(c, IF state[c] = "error" THEN "failed" ELSE "barrier")
    /\ UNCHANGED <<leaderVars, region, splitNode, source, cut, toLeader, instance>>

Discard(c) ==
    /\ state[c] = "error"
    /\ toCoord[c] # <<>>
    /\ Head(toCoord[c]).type # "terminate_coordinator"
    /\ toCoord' = [toCoord EXCEPT ![c] = Tail(@)]
    /\ UNCHANGED <<leaderVars, coordVars, toLeader, instance>>

(* The isolated coordinator answers in pre_partition, by the base solver   *)
(* on the whole input or by its own partitioner.                           *)
IsolatedSolvesEarly ==
    /\ state[Iso] = "prePartition"
    /\ Tell(Iso, MsgResult(Truth(Points)))
    /\ Goes(Iso, "idle")
    /\ UNCHANGED <<leaderVars, region, splitNode, source, cut, toCoord, instance>>

(* pre_partition: the chosen subnodes are disjoint and leave out nothing   *)
(* but refuted parts; there may be none, when not even the root is known.  *)
Cuts == {s \in UNION {[1 .. k -> SUBSET Points] : k \in 0 .. N} :
            /\ \A i, j \in DOMAIN s : i # j => s[i] \cap s[j] = {}
            /\ s = <<>> \/ SatPoints \subseteq UNION {s[i] : i \in DOMAIN s}}

PrePartition ==
    /\ state[Iso] = "prePartition"
    /\ cut' \in Cuts
    /\ Tell(Iso, MsgRank("pre_partition_done", Len(cut')))
    /\ Goes(Iso, "handover")
    /\ UNCHANGED <<leaderVars, region, splitNode, source, toCoord, instance>>

(* assign_node from the leader: subnode i goes to coordinator i, or the    *)
(* whole input to coordinator 0.                                           *)
HandOver ==
    /\ state[Iso] = "handover"
    /\ toCoord[Iso] # <<>>
    /\ Head(toCoord[Iso]).type = "assign_node"
    /\ toCoord' = [toCoord EXCEPT ![Iso] = Tail(@)]
    /\ LET parts == IF cut = <<>> THEN <<Points>> ELSE cut
       IN  instance' = [p \in Ranks \X Ranks |->
                IF p[1] = Iso /\ p[2] + 1 \in DOMAIN parts
                THEN Append(instance[p], parts[p[2] + 1]) ELSE instance[p]]
    /\ Goes(Iso, "solving")
    /\ UNCHANGED <<leaderVars, region, splitNode, source, cut, toLeader>>

CoordinatorNext(c) ==
    \/ SplitFails(c) \/ SplitSucceeds(c) \/ Transfer(c) \/ TakeAssignment(c)
    \/ ReceiveInstance(c) \/ Solve(c) \/ Fail(c) \/ Terminate(c) \/ Discard(c)

IsolatedMoves ==
    IsolatedSolvesEarly \/ PrePartition \/ HandOver \/ Terminate(Iso) \/ Discard(Iso)

IsolatedNext == IsolatedMoves \/ Solve(Iso) \/ Fail(Iso)

-----------------------------------------------------------------------------
(* The leader.                                                             *)

Post(q, c, m) == [q EXCEPT ![c] = Append(@, m)]

(* Fault: off by one, the isolated coordinator is not terminated.          *)
EndsCoords(r, q) ==
    /\ phase' = "ended"
    /\ result' = r
    /\ toCoord' = [c \in Ranks |-> IF c < N THEN Append(q[c], Msg("terminate_coordinator"))
                                             ELSE q[c]]

(* The end of solve(), by a result or an exception: the result is printed, *)
(* then terminate_coordinators writes to every rank.                       *)
Ends(r, q) ==
    /\ phase' = "ended"
    /\ result' = r
    /\ toCoord' = [c \in Ranks |-> Append(q[c], Msg("terminate_coordinator"))]

(* Iprobe and recv on tag 1: while init_coord_isolated runs, only from the *)
(* isolated coordinator, then from any source.                             *)
Hears(c, t) ==
    /\ phase = "run" \/ (phase = "init" /\ c = Iso)
    /\ toLeader[c] # <<>>
    /\ Head(toLeader[c]).type = t
    /\ toLeader' = [toLeader EXCEPT ![c] = Tail(@)]

(* node_partial_solved_unsat: the nodes unsat_push_up makes unsat, from n  *)
(* upwards while the node is partially unsat and its children are unsat.   *)
ChildrenOf(t, b) == {k \in DOMAIN t : k # b /\ t[k].up = t[b].up \cup {k}}

(* Faults: the children are not looked at; the node's own rest is not;     *)
(* only the node itself is raised.                                         *)
PartialUnsatChildless(t, n) ==
    LET u == [t EXCEPT ![n].partial = "unsat"]
    IN  [k \in DOMAIN u |->
            IF k \in u[n].up /\ u[k].partial = "unsat" THEN [u[k] EXCEPT !.status = "unsat"]
                                                      ELSE u[k]]

PartialUnsatRestless(t, n) ==
    LET u == [t EXCEPT ![n].partial = "unsat"]
        raised == {a \in u[n].up : \A b \in u[n].up : a \in u[b].up =>
                      \A k \in ChildrenOf(u, b) \ u[n].up : u[k].status = "unsat"}
    IN  [k \in DOMAIN u |-> IF k \in raised THEN [u[k] EXCEPT !.status = "unsat"] ELSE u[k]]

PartialUnsatFlat(t, n) ==
    [t EXCEPT ![n].partial = "unsat",
              ![n].status = IF ChildrenOf(t, n) = {} THEN "unsat" ELSE @]

PartialUnsat(t, n) ==
    LET u == [t EXCEPT ![n].partial = "unsat"]
        raised == {a \in u[n].up : \A b \in u[n].up : a \in u[b].up =>
                      /\ u[b].partial = "unsat"
                      /\ \A k \in ChildrenOf(u, b) \ u[n].up : u[k].status = "unsat"}
    IN  [k \in DOMAIN u |-> IF k \in raised THEN [u[k] EXCEPT !.status = "unsat"] ELSE u[k]]

(* update_split_assign_info: its three assertions, else the exception that *)
(* ends the leader.  The two messages are sent before they are checked.    *)
MayAssign(c, t) == assigned[c] # NoNode /\ info[t] = "idle" /\ info[c] = "splitting"

(* Faults: the target instead of the source is told of the transfer's      *)
(* rank; the source is not told at all.                                    *)
SplitMessagesSwapped(c, t) ==
    Post(Post(toCoord, t, MsgRank("assign_node", c)), c, MsgRank("transfer_node", c))
SplitMessagesAssignOnly(c, t) == Post(toCoord, t, MsgRank("assign_node", c))

SplitMessages(c, t) ==
    Post(Post(toCoord, t, MsgRank("assign_node", c)), c, MsgRank("transfer_node", t))

HearSplitSucceed(c) ==
    /\ Hears(c, "split_succeed")
    /\ LET t == Head(toLeader[c]).rank
           sent == SplitMessages(c, t)
       IN  \/ /\ MayAssign(c, t)
              /\ tree' = ChildOf(tree, assigned[c])
              /\ assigned' = [assigned EXCEPT ![t] = Len(tree) + 1]
              /\ info' = [info EXCEPT ![t] = "solving", ![c] = "solving"]
              /\ toCoord' = sent
              /\ UNCHANGED <<phase, result>>
           \/ /\ ~ MayAssign(c, t)
              /\ Ends("Leader-Error", sent)
              /\ UNCHANGED <<tree, assigned, info>>
    /\ UNCHANGED <<idle, nextSplit, coordVars, instance>>

(* The target is free again; the source, if still marked as splitting, is  *)
(* solving again, whichever request the answer belongs to.                 *)
HearSplitFailed(c) ==
    /\ Hears(c, "split_failed")
    /\ idle' = Append(idle, Head(toLeader[c]).rank)
    /\ info' = [info EXCEPT ![c] = IF @ = "splitting" THEN "solving" ELSE @]
    /\ UNCHANGED <<phase, result, tree, assigned, nextSplit, coordVars, toCoord, instance>>

(* process_notified_result, original_solved for the isolated coordinator.  *)
HearOriginalResult ==
    /\ Hears(Iso, "notify_result")
    /\ Ends(Head(toLeader[Iso]).result, toCoord)
    /\ UNCHANGED <<tree, info, assigned, idle, nextSplit, coordVars, instance>>

HearResult(c) ==
    /\ c # Iso
    /\ Hears(c, "notify_result")
    /\ \/ /\ Head(toLeader[c]).result = "sat"
          /\ Ends("sat", toCoord)
          /\ UNCHANGED <<tree, info, assigned, idle>>
       \/ /\ Head(toLeader[c]).result = "unsat"
          /\ tree' = PartialUnsat(tree, assigned[c])
          /\ IF tree'[1].status = "unsat"
             THEN /\ Ends("unsat", toCoord)
                  /\ UNCHANGED <<info, assigned, idle>>
             ELSE /\ info' = [info EXCEPT ![c] = "idle"]
                  /\ assigned' = [assigned EXCEPT ![c] = NoNode]
                  /\ idle' = Append(idle, c)
                  /\ UNCHANGED <<phase, result, toCoord>>
    /\ UNCHANGED <<nextSplit, coordVars, instance>>

HearError(c) ==
    /\ Hears(c, "notify_error")
    /\ Ends("Coordinator-Error", toCoord)
    /\ UNCHANGED <<tree, info, assigned, idle, nextSplit, coordVars, instance>>

(* The coordinators left over by pre_partition.  Fault: off by one.        *)
IdleAfterBusy(k) == [i \in 1 .. N - k + 1 |-> k + i - 2]
IdleAfter(k) == [i \in 1 .. N - k |-> k + i - 1]

(* The leader's pre_partition: the first k coordinators get a child of the *)
(* root each, the rest is idle, and the root itself has nothing left.      *)
HearPrePartition ==
    /\ Hears(Iso, "pre_partition_done")
    /\ LET told == Head(toLeader[Iso]).rank
           k == IF told = 0 THEN 1 ELSE told
           grown == [i \in 1 .. k + 1 |-> IF i = 1 THEN tree[1] ELSE TreeNode({1, i})]
       IN  /\ tree' = PartialUnsat(grown, 1)
           /\ info' = [c \in Ranks |-> IF c < k \/ c = Iso THEN "solving" ELSE "idle"]
           /\ assigned' = [c \in Ranks |-> CASE c = Iso -> 1
                                              [] c < k -> c + 2
                                              [] OTHER -> NoNode]
           /\ idle' = IdleAfter(k)
           /\ toCoord' = [c \in Ranks |->
                  IF c < k \/ c = Iso
                  THEN Append(toCoord[c], MsgRank("assign_node", Iso)) ELSE toCoord[c]]
    /\ phase' = "run"
    /\ UNCHANGED <<result, nextSplit, coordVars, instance>>

(* assign_node_to_idle_coordinator.  split_tabu (three seconds since the   *)
(* coordinator was assigned or split) is a choice; with PromptReplies it   *)
(* outlasts the way of an answer that is still owed or on its way.         *)
Unanswered(c) ==
    \/ \E i \in DOMAIN toCoord[c] : toCoord[c][i].type = "request_split"
    \/ \E i \in DOMAIN toLeader[c] : toLeader[c][i].type = "split_failed"

TabuOverAtOnce(c) == TRUE    \* fault: no split_tabu
TabuOver(c) == PromptReplies => ~ Unanswered(c)

RequestSplit ==
    /\ phase = "run"
    /\ idle # <<>>
    /\ nextSplit' = (nextSplit + 1) % N
    /\ \/ /\ info[nextSplit] = "solving"
          /\ TabuOver(nextSplit)
          /\ info' = [info EXCEPT ![nextSplit] = "splitting"]
          /\ idle' = Tail(idle)
          /\ toCoord' = Post(toCoord, nextSplit, MsgRank("request_split", Head(idle)))
       \/ /\ idle' = Append(Tail(idle), Head(idle))
          /\ UNCHANGED <<info, toCoord>>
    /\ UNCHANGED <<phase, result, tree, assigned, coordVars, toLeader, instance>>

TimesOut ==
    /\ WithTimeout
    /\ phase = "run"
    /\ Ends("timeout", toCoord)
    /\ UNCHANGED <<tree, info, assigned, idle, nextSplit, coordVars, toLeader, instance>>

LeaderHears(c) ==
    \/ c = Iso /\ (HearOriginalResult \/ HearPrePartition)
    \/ HearSplitSucceed(c) \/ HearSplitFailed(c) \/ HearResult(c) \/ HearError(c)

Next ==
    \/ \E c \in Ranks : LeaderHears(c)
    \/ RequestSplit
    \/ TimesOut
    \/ IsolatedNext
    \/ \E c \in Coords : CoordinatorNext(c)

Spec == Init /\ [][Next]_vars

(* Every process runs its loop: the leader takes up what any coordinator   *)
(* has sent it (Iprobe with ANY_SOURCE goes by order of arrival), a        *)
(* coordinator its own messages, and a coordinator that keeps solving      *)
(* comes to a result.  The isolated one, which has the whole input to      *)
(* itself, need not: no progress may rest on it.                           *)
FairSpec ==
    /\ Spec
    /\ \A c \in Ranks : WF_vars(LeaderHears(c))
    /\ WF_vars(IsolatedMoves)
    /\ \A c \in Coords : WF_vars(CoordinatorNext(c)) /\ WF_vars(Solve(c))

-----------------------------------------------------------------------------
(* The printed answer is right: no part of the input is forgotten between  *)
(* coordinators, however splits, transfers and results overlap.            *)
AnswerSound ==
    /\ result = "unsat" => SatPoints = {}
    /\ result = "sat" => SatPoints # {}

(* Where a point of the input still is while the leader waits: in the      *)
(* region of a coordinator at work or whose result is on its way, in an    *)
(* instance on its way, or in a split_node whose transfer is to come.      *)
Waits(c) == \E i \in DOMAIN toLeader[c] : toLeader[c][i].type = "notify_result"
TransferDue(c) ==
    \/ \E i \in DOMAIN toLeader[c] : toLeader[c][i].type = "split_succeed"
    \/ \E i \in DOMAIN toCoord[c] : toCoord[c][i].type = "transfer_node"
Held(p) ==
    \/ \E c \in Coords : p \in region[c] /\ (state[c] = "solving" \/ Waits(c))
    \/ \E q \in Ranks \X Ranks : \E i \in DOMAIN instance[q] : p \in instance[q][i]
    \/ \E c \in Coords : p \in splitNode[c].part /\ TransferDue(c)
    \/ state[Iso] = "handover"

(* No solution of the input is ever without a holder while the leader is   *)
(* still waiting (interactive part, coordinators that do not fail).        *)
SolutionHeld ==
    phase = "run" => \A p \in SatPoints : Held(p)

(* transfer_node finds in split_node the node that was split for its       *)
(* target, although the coordinator may have gone idle or been asked to    *)
(* split again since.                                                      *)
TransferMatches ==
    \A c \in Coords :
        state[c] \in {"idle", "solving"} /\ toCoord[c] # <<>>
            /\ Head(toCoord[c]).type = "transfer_node"
        => splitNode[c].target = Head(toCoord[c]).rank

(* assert(self.status.is_idle()) at coordinator.py:632.                    *)
AssignFindsIdle ==
    \A c \in Coords :
        state[c] \in {"idle", "solving"} /\ toCoord[c] # <<>>
            /\ Head(toCoord[c]).type = "assign_node"
        => state[c] = "idle"

(* The queue of idle coordinators holds nobody twice and nobody who has    *)
(* work: a coordinator promised to one split is not promised to another.   *)
IdleQueueSound ==
    phase = "run" =>
        /\ \A i, j \in DOMAIN idle : i # j => idle[i] # idle[j]
        /\ \A i \in DOMAIN idle :
              /\ info[idle[i]] = "idle"
              /\ \A c \in Coords : \A j \in DOMAIN toCoord[c] :
                    toCoord[c][j].type \in {"request_split", "transfer_node"}
                        => toCoord[c][j].rank # idle[i]

(* Each coordinator the leader thinks is at work has a node of its own     *)
(* that is still open: the assertions at leader.py:146 and                 *)
(* partition_tree.py:413.                                                  *)
AssignedOpen ==
    phase = "run" =>
        \A c \in Coords : info[c] # "idle" =>
            /\ assigned[c] # NoNode
            /\ tree[assigned[c]].partial = "unsolved"
            /\ \A a \in tree[assigned[c]].up : tree[a].status # "unsat"
            /\ \A d \in Coords \ {c} : assigned[d] # assigned[c]

(* A coordinator that blocks in the receive of an instance gets one: it is *)
(* on its way, or its sender still has the transfer_node that makes it     *)
(* send, or hands over its pre-partition.  Nothing else wakes it up, not   *)
(* even terminate_coordinator (coordinator.py:538).                        *)
ReceiverServed ==
    \A c \in Coords : state[c] = "receive" =>
        LET s == source[c]
        IN  \/ instance[<<s, c>>] # <<>>
            \/ /\ state[s] \in {"idle", "receive", "solving"}
               /\ \E i \in DOMAIN toCoord[s] : toCoord[s][i] = MsgRank("transfer_node", c)
            \/ s = Iso /\ state[Iso] = "handover"

(* No assertion of the leader fails (leader.py:32, 41 and 146).            *)
LeaderNeverFails == result # "Leader-Error"

(* Once the leader has ended, every coordinator is terminated and reaches  *)
(* the barrier ("terminate coordinator {rank}", control_message.py:20);    *)
(* the only exception is one that waits for an instance whose sender has   *)
(* failed.                                                                 *)
AtBarrier(c) == state[c] \in {"barrier", "failed"}
AllTerminateOrWait ==
    (phase = "ended") ~>
        (\A c \in Ranks : \/ AtBarrier(c)
                          \/ state[c] = "receive" /\ state[source[c]] = "failed")

(* The leader comes to an end on the results of the coordinators it gave   *)
(* parts to, although they refuse splits, go idle and wait for each other. *)
LeaderEnds == <>(phase = "ended")
=============================================================================
