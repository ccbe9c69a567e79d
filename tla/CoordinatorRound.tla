-------------------------- MODULE CoordinatorRound --------------------------
(***************************************************************************)
(* One solving round of a coordinator (coordinator.py: parallel_solving    *)
(* and what it calls, process_split_message, solving_round_done) with the  *)
(* partitioner process it started and the base solvers it runs.            *)
(*                                                                         *)
(* The coordinator is one thread; the partitioner runs at the same time    *)
(* and the two talk through the pipes toCoord and fromCoord.  A base       *)
(* solver is a process that at some poll turns out to have answered; what  *)
(* it answers is the truth, or nothing usable (error, unknown, crash).     *)
(***************************************************************************)
EXTENDS Partitioner, ParallelTree

CONSTANTS
    Cores,       \* available_cores, the limit on solver processes
    GivenUp,     \* the nodes whose solver may fail or run past the thresholds
    MaxSplits    \* bound on the split requests that succeed in the round

ASSUME RoundConstants ==
    /\ Cores \in 1 .. MaxRunning
    /\ GivenUp \subseteq Nodes
    /\ MaxSplits \in Nat

VARIABLES
    result,      \* coordinator.result
    reader,      \* partitioner.status, the reader's view of the process
    pc,          \* where the loop is
    toPoll,      \* solvings still to visit in check_solvings_status
    still,       \* still_solvings
    outbox,      \* lines set_node_split has still to write
    handed       \* the nodes split off to other coordinators

coordVars == <<treeVars, result, reader, pc, toPoll, still, outbox, handed>>
vars == <<partitionerVars, coordVars>>

Init ==
    /\ PartitionerInit
    /\ TreeInit
    /\ result = "unsolved"
    /\ reader = "running"
    /\ pc = "receive"
    /\ toPoll = <<>>
    /\ still = <<>>
    /\ outbox = <<>>
    /\ handed = {}

-----------------------------------------------------------------------------
(* is_done: the coordinator's own result wins over the tree's.             *)
Settled(r, t) == IF r # "unsolved" THEN r ELSE t

(* check_running.                                                          *)
Checked == IF reader = "running" /\ phase = "done" THEN "process_done" ELSE reader

(* Fault: the line is written without check_running.                       *)
SendUnchecked(line) ==
    /\ fromCoord' = Append(fromCoord, line)
    /\ UNCHANGED <<nodeState, leafHeap, aliveTasks, unsolved, ptask, phase, toCoord, reader>>

(* send_partitioner_message: dropped once the process is seen to have      *)
(* ended.                                                                  *)
Send(line) ==
    /\ reader' = Checked
    /\ fromCoord' = IF Checked = "running" THEN Append(fromCoord, line) ELSE fromCoord
    /\ UNCHANGED <<nodeState, leafHeap, aliveTasks, unsolved, ptask, phase, toCoord>>

(* Fault: the solvers of the nodes marked on the way are not terminated.   *)
NodeSolvedUnsatAlive(st, ch, alive, n) ==
    LET marks == SolvedMarks(st, ch, n)
    IN  /\ status' = MarkUnsat(st, marks)
        /\ running' = alive
        /\ treeResult' = ResultAfter(marks)

(* node_solved_unsat on the tree as st and alive leave it.                 *)
NodeSolvedUnsat(st, ch, alive, n) ==
    LET marks == SolvedMarks(st, ch, n)
    IN  /\ status' = MarkUnsat(st, marks)
        /\ running' = alive \ marks
        /\ treeResult' = ResultAfter(marks)

-----------------------------------------------------------------------------
(* receive_partitioner_messages.                                           *)

(* process_partitioner_msg, the verdict lines.  unknown changes nothing.   *)
ReceiveVerdict(line) ==
    /\ line.op = "verdict"
    /\ result' = IF line.result = "unknown" THEN result ELSE line.result
    /\ UNCHANGED treeVars

ReceiveNewUnsatNode(line) ==
    /\ line.op = "new_unsat_node"
    /\ children' = ChildrenWith(line.node)
    /\ NodeSolvedUnsat(status, ChildrenWith(line.node), running, line.node)
    /\ result' = Settled(result, treeResult')
    /\ UNCHANGED <<solvings, waitings>>

(* A task under a parent that is unsat by now is unsat without being run;  *)
(* is_done is not asked in this branch.                                    *)
ReceiveNewUnknownNode(line) ==
    /\ line.op = "new_unknown_node"
    /\ children' = ChildrenWith(line.node)
    /\ \/ /\ \E p \in ParentOf(line.node) : status[p] = "unsat"
          /\ NodeSolvedUnsat(status, ChildrenWith(line.node), running, line.node)
          /\ UNCHANGED waitings
       \/ /\ \A p \in ParentOf(line.node) : status[p] # "unsat"
          /\ status' = [status EXCEPT ![line.node] = "unsolved"]
          /\ waitings' = Append(waitings, line.node)
          /\ UNCHANGED <<running, treeResult>>
    /\ UNCHANGED <<solvings, result>>

ReceiveLine ==
    /\ pc = "receive"
    /\ reader # "receive_done"
    /\ toCoord # <<>>
    /\ \/ ReceiveVerdict(Head(toCoord))
       \/ ReceiveNewUnsatNode(Head(toCoord))
       \/ ReceiveNewUnknownNode(Head(toCoord))
    /\ toCoord' = Tail(toCoord)
    /\ UNCHANGED <<nodeState, leafHeap, aliveTasks, unsolved, ptask, phase, fromCoord,
                   reader, pc, toPoll, still, outbox, handed>>

(* An empty read after the process has ended.                              *)
ReceiveEof ==
    /\ pc = "receive"
    /\ reader # "receive_done"
    /\ toCoord = <<>>
    /\ phase = "done"
    /\ reader' = "receive_done"
    /\ UNCHANGED <<partitionerVars, treeVars, result, pc, toPoll, still, outbox, handed>>

(* A pass reads at most 32 lines, debug lines included, so it may stop     *)
(* before any line; once the process is known to have ended it reads on.   *)
(* Only a closed pipe makes parallel_solving ask is_done here.             *)
EndReceive ==
    /\ pc = "receive"
    /\ reader # "process_done"
    /\ IF reader = "receive_done" /\ Settled(result, treeResult) # "unsolved"
       THEN /\ pc' = "report"
            /\ result' = Settled(result, treeResult)
            /\ UNCHANGED <<toPoll, still>>
       ELSE /\ pc' = "poll"
            /\ toPoll' = solvings
            /\ still' = <<>>
            /\ UNCHANGED result
    /\ UNCHANGED <<partitionerVars, treeVars, reader, outbox, handed>>

-----------------------------------------------------------------------------
(* check_solvings_status, one node per step.                               *)
Polled(n) ==
    /\ pc = "poll"
    /\ toPoll # <<>>
    /\ n = Head(toPoll)
    /\ toPoll' = Tail(toPoll)

PollEndedNode(n) ==
    /\ Polled(n)
    /\ status[n] # "solving"
    /\ UNCHANGED <<partitionerVars, treeVars, result, reader, pc, still, outbox, handed>>

PollStillSolving(n) ==
    /\ Polled(n)
    /\ status[n] = "solving"
    /\ still' = Append(still, n)
    /\ UNCHANGED <<partitionerVars, treeVars, result, reader, pc, outbox, handed>>

(* After a node that ended the pass returns when the round is decided,     *)
(* leaving tree.solvings as it was.                                        *)
AfterPoll ==
    /\ result' = Settled(result, treeResult')
    /\ pc' = IF result' # "unsolved" THEN "report" ELSE "poll"

PollSat(n) ==
    /\ Polled(n)
    /\ status[n] = "solving"
    /\ n \in Sat
    /\ status' = [status EXCEPT ![n] = "sat"]
    /\ running' = running \ {n}
    /\ treeResult' = "sat"
    /\ AfterPoll
    /\ UNCHANGED <<partitionerVars, children, solvings, waitings, reader, still, outbox, handed>>

(* The partitioner is told only when the answer does not end the round,    *)
(* and only of this node: nodes marked on the way are not reported.        *)
PollUnsat(n) ==
    /\ Polled(n)
    /\ status[n] = "solving"
    /\ n \notin Sat
    /\ NodeSolvedUnsat(status, children, running \ {n}, n)
    /\ AfterPoll
    /\ IF result' = "unsolved"
       THEN Send(Ended("unsat_node", n))
       ELSE UNCHANGED <<partitionerVars, reader>>
    /\ UNCHANGED <<children, solvings, waitings, still, outbox, handed>>

(* The solver failed, or need_terminate found it over its threshold.       *)
PollGivenUp(n) ==
    /\ Polled(n)
    /\ status[n] = "solving"
    /\ n \in GivenUp
    /\ status' = [status EXCEPT ![n] = "terminated"]
    /\ running' = running \ {n}
    /\ UNCHANGED treeResult
    /\ AfterPoll
    /\ Send(Ended("terminate_node", n))
    /\ UNCHANGED <<children, solvings, waitings, still, outbox, handed>>

EndPoll ==
    /\ pc = "poll"
    /\ toPoll = <<>>
    /\ solvings' = still
    /\ pc' = "run"
    /\ UNCHANGED <<partitionerVars, status, children, running, waitings, treeResult,
                   result, reader, toPoll, still, outbox, handed>>

-----------------------------------------------------------------------------
(* run_waiting_tasks, one solver process per step.                         *)
RunTask ==
    /\ pc = "run"
    /\ Len(solvings) < Cores
    /\ \E i \in NextWaiting :
          /\ status' = [status EXCEPT ![waitings[i]] = "solving"]
          /\ running' = running \cup {waitings[i]}
          /\ solvings' = Append(solvings, waitings[i])
          /\ waitings' = SubSeq(waitings, i + 1, Len(waitings))
    /\ UNCHANGED <<partitionerVars, children, treeResult, result, reader, pc, toPoll, still,
                   outbox, handed>>

(* Fault: the queue is cleared at the end of every pass, also of the nodes *)
(* that found no free core.                                                *)
EndRunForgets ==
    /\ pc = "run"
    /\ Len(solvings) >= Cores \/ NextWaiting = {}
    /\ waitings' = <<>>
    /\ pc' = "leader"
    /\ UNCHANGED <<partitionerVars, status, children, running, solvings, treeResult,
                   result, reader, toPoll, still, outbox, handed>>

(* The while loop ends: the cores are taken, or the queue holds no node    *)
(* that is unsolved and was emptied in the search.                         *)
EndRun ==
    /\ pc = "run"
    /\ Len(solvings) >= Cores \/ NextWaiting = {}
    /\ waitings' = IF Len(solvings) < Cores THEN <<>> ELSE waitings
    /\ pc' = "leader"
    /\ UNCHANGED <<partitionerVars, status, children, running, solvings, treeResult,
                   result, reader, toPoll, still, outbox, handed>>

-----------------------------------------------------------------------------
(* receive_message_from_leader.                                            *)

(* The handler is done, or there was no request: the loop goes on with     *)
(* receive_partitioner_messages, which begins with check_running.          *)
NextPass ==
    /\ pc \in {"leader", "write"}
    /\ outbox = <<>>
    /\ pc' = "receive"
    /\ reader' = Checked
    /\ UNCHANGED <<partitionerVars, treeVars, result, toPoll, still, outbox, handed>>

(* set_node_split: every node of the path to the root that has not ended   *)
(* is terminated and reported, n first, then n is marked unsat and         *)
(* reported.  The tree is the coordinator's own; the process may read      *)
(* between two of the lines.                                               *)
SplitOff(n) ==
    LET open == {a \in Up[n] : ~ IsEnded(status, a)}
        st == [m \in Nodes |-> IF m \in open THEN "terminated" ELSE status[m]]
    IN  /\ pc = "leader"
        /\ n \in SplitChoices
        /\ Cardinality(handed) < MaxSplits
        /\ NodeSolvedUnsat(st, children, running \ open, n)
        /\ \E path \in [1 .. Cardinality(open) -> open] :
              /\ \A i, j \in DOMAIN path : i < j => path[j] \in Above(path[i])
              /\ outbox' = Append([i \in DOMAIN path |-> Ended("terminate_node", path[i])],
                                  Ended("unsat_node", n))
        /\ handed' = handed \cup {n}
        /\ pc' = "write"
        /\ UNCHANGED <<partitionerVars, children, solvings, waitings, result, reader,
                       toPoll, still>>

WriteLine ==
    /\ pc = "write"
    /\ outbox # <<>>
    /\ Send(Head(outbox))
    /\ outbox' = Tail(outbox)
    /\ UNCHANGED <<treeVars, result, pc, toPoll, still, handed>>

-----------------------------------------------------------------------------
(* solving_round_done: the result goes to the leader, round_clean_up ends  *)
(* the partitioner and the processes of the nodes in tree.solvings.        *)
RoundDone ==
    /\ pc = "report"
    /\ pc' = "idle"
    /\ running' = running \ Elements(solvings)
    /\ UNCHANGED <<partitionerVars, status, children, solvings, waitings, treeResult,
                   result, reader, toPoll, still, outbox, handed>>

CoordinatorNext ==
    \/ ReceiveLine
    \/ ReceiveEof
    \/ EndReceive
    \/ \E n \in Nodes : \/ PollEndedNode(n)
                        \/ PollStillSolving(n)
                        \/ PollSat(n)
                        \/ PollUnsat(n)
                        \/ PollGivenUp(n)
    \/ EndPoll
    \/ RunTask
    \/ EndRun
    \/ \E n \in Nodes : SplitOff(n)
    \/ WriteLine
    \/ NextPass
    \/ RoundDone

PartitionerStep ==
    /\ pc # "idle"
    /\ PartitionerNext
    /\ UNCHANGED coordVars

Next == CoordinatorNext \/ PartitionerStep

Spec == Init /\ [][Next]_vars

(* The coordinator's loop and the partitioner process keep running; a pass *)
(* over the pipe reads 32 lines, so the finitely many debug lines between  *)
(* two messages do not keep it from the next one for ever; and a base      *)
(* solver that is polled again and again answers or is given up.           *)
PollAnswered(n) == PollSat(n) \/ PollUnsat(n) \/ PollGivenUp(n)

FairSpec ==
    /\ Spec
    /\ WF_vars(CoordinatorNext)
    /\ WF_vars(PartitionerStep)
    /\ SF_vars(ReceiveLine)
    /\ SF_vars(\E n \in Nodes : PollAnswered(n))

-----------------------------------------------------------------------------
(* Type invariant of the whole round.                                      *)
TypeOK ==
    /\ PartitionerTypeOK
    /\ TreeTypeOK
    /\ result \in Results
    /\ reader \in {"running", "process_done", "receive_done"}
    /\ pc \in {"receive", "poll", "run", "leader", "write", "report", "idle"}
    /\ toPoll \in Seq(Nodes)
    /\ still \in Seq(Nodes)
    /\ outbox \in Seq(Commands)
    /\ handed \subseteq Nodes

(* Every live solver process belongs to a node that is being solved and is *)
(* listed in tree.solvings, never more than available_cores of them: the   *)
(* list is what round_clean_up walks (coordinator.py:603), so a process    *)
(* outside it would outlive the round and hold a core.                     *)
ProcessesAccounted ==
    /\ running \subseteq Elements(solvings)
    /\ Cardinality(running) <= Cores
    /\ pc # "idle" => running = {n \in Nodes : status[n] = "solving"}
    /\ pc = "idle" => running = {}

(* What select_split_node asserts on its walk (partition_tree.py:269) and  *)
(* need_terminate on a polled node (coordinator.py:309): a node both of    *)
(* whose children are unsat is unsat itself, whichever of the four ways    *)
(* they became unsat and in whichever order.                               *)
UnsatClimbs ==
    \A n \in Nodes :
        Len(children[n]) = 2 /\ (\A k \in Kids[n] : status[k] = "unsat")
            => status[n] = "unsat"

(* While the round is open everything announced below an unsat node is     *)
(* unsat as well, so no core is spent there.                               *)
UnsatSinks ==
    treeResult = "unsolved" =>
        \A n \in Nodes : status[n] = "unsat" =>
            \A d \in Below(n) : status[d] \in {"none", "unsat"}

(* A satisfiable leaf is only ever under an unsat mark of the tree when it *)
(* was split off to another coordinator: no solution is lost.              *)
TreeMarksCovered ==
    \A l \in Leaves \cap Sat :
        (\E a \in Up[l] : status[a] = "unsat") => Up[l] \cap handed # {}

(* The same of the C++ process, whose marks come from the commands, from   *)
(* propagation and from its own pushes.                                    *)
PartitionerMarksCovered ==
    \A l \in Leaves \cap Sat :
        (\E a \in Up[l] : nodeState[a] = "unsat") => Up[l] \cap handed # {}

(* The result of the round is right, whichever of the partitioner's        *)
(* verdict, its announcements and the base solvers it came from: sat needs *)
(* a solution, unsat needs every satisfiable leaf to be split off.         *)
ResultSound ==
    /\ result = "sat" => Root \in Sat
    /\ result = "unsat" => \A l \in Leaves \cap Sat : Up[l] \cap handed # {}

(* The same as long as no task that cannot be split was given up.          *)
ResultSoundUnlessLeafLost ==
    Leaves \cap InState("terminated") = {} => ResultSound

(* The coordinator is one of those the partitioner is verified against     *)
(* (PartitionerOpen): it only ever names nodes whose line it has read, one *)
(* line at a time and never after the process was seen to end.             *)
General == INSTANCE PartitionerOpen WITH known <- Made, PipeRoom <- Nat

CoordinatorIsGeneral == General!Spec

(* A node that has ended is never solved again, and what is unsat stays    *)
(* unsat (partition_tree.py:8-15 lists the transitions).                   *)
EndedStaysEnded ==
    [][\A n \in Nodes :
        /\ IsEnded(status, n) => status'[n] \in {status[n], "unsat"}
        /\ status[n] = "unsat" => status'[n] = "unsat"]_vars

(* Every round ends: a result is reported and the coordinator is idle.     *)
RoundEnds == <>(pc = "idle")

(* The same up to two ways out: the partitioner is throttled for good by   *)
(* tasks the coordinator has long closed, or it has ended and a task that  *)
(* cannot be split any further was given up.                               *)
RoundEndsUnlessStuck ==
    \/ RoundEnds
    \/ <>[]( /\ phase = "loop" /\ aliveTasks > MaxAlive
            /\ \A n \in InState("waiting") : IsEnded(status, n))
    \/ <>[]( /\ reader = "receive_done"
            /\ \E l \in Leaves : status[l] = "terminated")
=============================================================================
