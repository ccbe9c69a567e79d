--------------------------- MODULE IsolatedRound ----------------------------
(***************************************************************************)
(* The round of the isolated coordinator (coordinator.py: isolated_solve,  *)
(* pre_partition, check_original_task).  It works on the whole formula     *)
(* with a partitioner of its own and a base solver on the original task.   *)
(* First it runs no task: it expands the tree of announced tasks into a    *)
(* queue of at least num_dist_coords subnodes, offers their number to the  *)
(* leader and sends the files to the other coordinators.  Then it goes on  *)
(* with the loop of CoordinatorRound, which is asked for no split.         *)
(***************************************************************************)
EXTENDS CoordinatorRound

CONSTANTS
    DistCoords,      \* num_dist_coords
    OriginalGivenUp  \* whether the base solver may fail on the original task

ASSUME IsolatedConstants ==
    /\ DistCoords \in 1 .. MaxRunning
    /\ OriginalGivenUp \in BOOLEAN

VARIABLES
    stage,       \* "pre": inside pre_partition, "main": in the loop after it
    original,    \* original_process: "solving", "ended" or "none"
    subnodes,    \* the deque of pre_partition
    offered,     \* the tasks sent to the other coordinators
    modelDone    \* get_model_done: a model was read to its end

isoVars == <<stage, original, subnodes, offered, modelDone>>
allVars == <<vars, isoVars>>

(* solve_leader_root and solve_original_task have run.                     *)
IsoInit ==
    /\ PartitionerInit
    /\ TreeInit
    /\ result = "unsolved"
    /\ reader = "running"
    /\ pc = "leader"
    /\ toPoll = <<>> /\ still = <<>> /\ outbox = <<>> /\ handed = {}
    /\ stage = "pre"
    /\ original = "solving"
    /\ subnodes = <<>>
    /\ offered = <<>>
    /\ modelDone = FALSE

-----------------------------------------------------------------------------
(* The beginning of a pass, check_running.  The process exits some time    *)
(* after it has printed its verdict and the model that follows a sat, so   *)
(* it may still be running when the verdict is in the pipe.                *)
BeginPass ==
    /\ pc = "leader"
    /\ pc' = "receive"
    /\ reader' \in {reader, Checked}
    /\ UNCHANGED <<partitionerVars, treeVars, result, toPoll, still, outbox, handed>>

(* The head of both loops: check_original_task.  An answer ends the round; *)
(* an error is forgotten and the loop goes on.                             *)
OriginalAnswers ==
    /\ pc = "leader"
    /\ original = "solving"
    /\ original' = "ended"
    /\ result' = IF Root \in Sat THEN "sat" ELSE "unsat"
    /\ modelDone' = (modelDone \/ Root \in Sat)
    /\ pc' = "report"
    /\ UNCHANGED <<partitionerVars, treeVars, reader, toPoll, still, outbox, handed,
                   stage, subnodes, offered>>

OriginalFails ==
    /\ original = "solving"
    /\ OriginalGivenUp
    /\ original' = "none"
    /\ BeginPass
    /\ UNCHANGED <<stage, subnodes, offered, modelDone>>

OriginalStillSolving == BeginPass /\ UNCHANGED isoVars

-----------------------------------------------------------------------------
(* receive_partitioner_messages; the end of the pipe completes the model   *)
(* that follows a sat verdict.                                             *)
IsoReceive ==
    \/ ReceiveLine /\ UNCHANGED isoVars
    \/ ReceiveEof /\ modelDone' = TRUE /\ UNCHANGED <<stage, original, subnodes, offered>>

(* The part of pre_partition between the receiving and the expansion.      *)
TakeRoot ==
    IF subnodes = <<>> /\ status[Root] # "none" THEN <<Root>> ELSE subnodes

(* The pass is over.  The end of the pipe is looked at before the result,  *)
(* so a partitioner that has decided the formula and is read to its end    *)
(* still makes pre_partition offer what it has.                            *)
PrePass ==
    /\ stage = "pre"
    /\ pc = "receive"
    /\ reader # "process_done"
    /\ IF reader = "receive_done"
       THEN pc' = "offer" /\ UNCHANGED <<result, subnodes>>
       ELSE /\ result' = Settled(result, treeResult)
            /\ IF result' # "unsolved"
               THEN pc' = "report" /\ UNCHANGED subnodes
               ELSE /\ subnodes' = TakeRoot
                    /\ pc' = IF subnodes' = <<>> THEN "wait" ELSE "expand"
    /\ UNCHANGED <<partitionerVars, treeVars, reader, toPoll, still, outbox, handed,
                   stage, original, offered, modelDone>>

(* Faults of the expansion: children are taken whatever their status; a    *)
(* node is expanded before its second half is there.                       *)
ExpandedAll(n) == children[n]
ExpandableEarly(n) == Len(children[n]) >= 1
Expandable(n) == Len(children[n]) >= 2

(* The children that replace their parent in the queue, the first and the  *)
(* second (a node has no third).                                           *)
Kept(n, i) ==
    IF i \in DOMAIN children[n] /\ status[children[n][i]] = "unsolved" THEN <<children[n][i]>>
                                                                      ELSE <<>>

(* Fault: the second child is not queued.                                  *)
ExpandedFirst(n) == Kept(n, 1)

Expanded(n) == Kept(n, 1) \o Kept(n, 2)

(* Fault: the loop is not left when the node cannot be expanded.           *)
ExpandNodeUnbroken ==
    /\ pc = "expand"
    /\ subnodes # <<>>
    /\ Len(subnodes) < DistCoords
    /\ LET n == Head(subnodes)
       IN  subnodes' = Tail(subnodes) \o (IF Expandable(n) THEN Expanded(n) ELSE <<n>>)
    /\ UNCHANGED <<partitionerVars, treeVars, result, reader, pc, toPoll, still, outbox, handed,
                   stage, original, offered, modelDone>>

(* One popleft of the inner loop.  A node without two children goes back   *)
(* to the end of the queue and the loop is left.                           *)
ExpandNode ==
    /\ pc = "expand"
    /\ subnodes # <<>>
    /\ Len(subnodes) < DistCoords
    /\ LET n == Head(subnodes)
       IN  IF Expandable(n)
           THEN subnodes' = Tail(subnodes) \o Expanded(n) /\ UNCHANGED pc
           ELSE subnodes' = Append(Tail(subnodes), n) /\ pc' = "wait"
    /\ UNCHANGED <<partitionerVars, treeVars, result, reader, toPoll, still, outbox, handed,
                   stage, original, offered, modelDone>>

EnoughSubnodes ==
    /\ pc = "expand"
    /\ Len(subnodes) >= DistCoords
    /\ pc' = "offer"
    /\ UNCHANGED <<partitionerVars, treeVars, result, reader, toPoll, still, outbox, handed, isoVars>>

(* The pass ends with fewer subnodes: another pass, or the 20 seconds are  *)
(* over.                                                                   *)
Again ==
    /\ pc = "wait"
    /\ pc' = "leader"
    /\ UNCHANGED <<partitionerVars, treeVars, result, reader, toPoll, still, outbox, handed, isoVars>>

TimeOver ==
    /\ pc = "wait"
    /\ pc' = "offer"
    /\ UNCHANGED <<partitionerVars, treeVars, result, reader, toPoll, still, outbox, handed, isoVars>>

(* pre_partition_done is sent and the leader answers assign_node: the      *)
(* subnodes, or the root task if there are none, go to coordinators        *)
(* 0, 1, ...                                                               *)
HandOver ==
    /\ pc = "offer"
    /\ offered' = IF subnodes = <<>> THEN <<Root>> ELSE subnodes
    /\ stage' = "main"
    /\ pc' = "leader"
    /\ UNCHANGED <<partitionerVars, treeVars, result, reader, toPoll, still, outbox, handed,
                   original, subnodes, modelDone>>

(* terminate_coordinator, received in place of assign_node or by the       *)
(* Iprobe of the main loop: clean_up ends the round.                       *)
Terminated ==
    /\ pc = "offer" \/ (stage = "main" /\ pc = "leader")
    /\ pc' = "idle"
    /\ running' = running \ Elements(solvings)
    /\ UNCHANGED <<partitionerVars, status, children, solvings, waitings, treeResult,
                   result, reader, toPoll, still, outbox, handed, isoVars>>

-----------------------------------------------------------------------------
(* Fault: is_done is asked before the end of the pipe.                     *)
MainPassEager ==
    /\ stage = "main"
    /\ pc = "receive"
    /\ reader # "process_done"
    /\ result' = Settled(result, treeResult)
    /\ pc' = IF result' # "unsolved" THEN "report" ELSE "poll"
    /\ toPoll' = solvings
    /\ still' = <<>>
    /\ UNCHANGED <<partitionerVars, treeVars, reader, outbox, handed, isoVars>>

(* parallel_solving in the main loop, and solving_round_done.              *)
MainPass == stage = "main" /\ EndReceive /\ UNCHANGED isoVars

(* A base solver that answers sat prints its model with the answer.        *)
MainPoll ==
    \/ \E n \in Nodes : PollSat(n) /\ modelDone' = TRUE
                        /\ UNCHANGED <<stage, original, subnodes, offered>>
    \/ /\ \/ \E n \in Nodes : PollEndedNode(n) \/ PollStillSolving(n)
                              \/ PollUnsat(n) \/ PollGivenUp(n)
          \/ EndPoll
       /\ UNCHANGED isoVars

IsoReport == RoundDone /\ UNCHANGED isoVars

IsoNext ==
    \/ OriginalAnswers \/ OriginalFails \/ OriginalStillSolving
    \/ IsoReceive
    \/ PrePass \/ ExpandNode \/ EnoughSubnodes \/ Again \/ TimeOver \/ HandOver
    \/ Terminated
    \/ MainPass
    \/ MainPoll
    \/ (RunTask \/ EndRun) /\ UNCHANGED isoVars
    \/ IsoReport

IsoPartitionerStep == PartitionerStep /\ UNCHANGED isoVars

IsoSpec == IsoInit /\ [][IsoNext \/ IsoPartitionerStep]_allVars

(* The coordinator's loop keeps running and its clock passes 20 seconds.   *)
IsoFairSpec == IsoSpec /\ WF_allVars(IsoNext) /\ SF_allVars(TimeOver)

-----------------------------------------------------------------------------
(* subnodes.popleft() (coordinator.py:496) is never called on an empty     *)
(* queue although the inner loop does not look: while the root is not      *)
(* solved some subnode has an unsolved part, whichever of the subnodes     *)
(* were solved after they were queued.                                     *)
NeverPopsEmpty == pc = "expand" => subnodes # <<>>

(* The tasks other coordinators get are different parts of the formula, no *)
(* more than there are coordinators, and together cover every leaf that    *)
(* the coordinator does not know to be unsat: if all of them are unsat, so *)
(* is the formula.                                                         *)
OfferedCovers ==
    LET pieces == IF pc = "offer" THEN subnodes ELSE offered
    IN  pieces # <<>> =>
          /\ Len(pieces) <= DistCoords
          /\ \A i, j \in DOMAIN pieces : i # j => pieces[i] \notin Up[pieces[j]]
          /\ \A l \in Leaves : \/ Up[l] \cap Elements(pieces) # {}
                              \/ \E a \in Up[l] : status[a] = "unsat"

(* Every subnode that is offered was built and announced as a task and is  *)
(* still taken for open by the process, never only refuted: its file       *)
(* task-<pid>.smt2, which send_split_node_to_coordinator opens, was        *)
(* written unless the task is empty (subpaving_tactic.cpp:454).            *)
OfferedAnnounced ==
    pc = "offer" => \A n \in Elements(subnodes) : nodeState[n] = "waiting"

(* "assert(self.get_model_done)" (coordinator.py:443): a sat result is     *)
(* reported with its whole model.                                          *)
ModelComplete == pc = "report" /\ result = "sat" => modelDone

(* It holds for the rounds that got past pre_partition.                    *)
ModelCompleteInMain == stage = "main" => ModelComplete

(* Without a reply from the partitioner, or with a tree too small,         *)
(* pre_partition ends all the same: the leader is waiting for its answer   *)
(* and has no time limit of its own there (leader.py:249).                 *)
PrePartitionEnds == <>(stage = "main" \/ pc \in {"report", "idle"})
=============================================================================
