# AriParti: TLA+ models and proofs

AriParti solves an SMT formula by dividing it.  A *leader* process and a number of
*coordinator* processes talk over MPI.  Every coordinator runs a *partitioner*
process (C++, built on Z3's subpaving library), which splits the coordinator's
formula into a binary tree of subproblems and writes them to files, and a number of
*base solver* processes on those files.  The leader moves subproblems from busy to
idle coordinators.  One more coordinator, the *isolated* one, works on the whole
input with one base solver and makes the first division.

Python sources are under `src/src/`, the C++ loop in
`src/src/partitioner/src/math/subpaving/subpaving_t_def.h`.

## 1. Inventory

| Component | State | Operations | Hard behaviour | What makes it correct |
|---|---|---|---|---|
| Leader (`leader.py`) | status and node of each coordinator, queue of idle coordinators, `next_split_rank` | hear a C2L message, ask for a split, time out, end | messages of different coordinators in any order; an answer for an old request | the printed answer is right; its assertions hold; it ends |
| Distributed tree (`partition_tree.py`) | node, `partial_status`, `status` | split, partial result, push-up | results while children are still being split off | root unsat only if every part is |
| Coordinator, life cycle (`coordinator.py`) | status, `split_node` | L2C handlers, blocking receive of an instance, exception handler, barrier | the handler sends first and works later; nothing wakes the receive | no part of the input is lost; everybody reaches the barrier |
| Coordinator, round (`coordinator.py`) | `result`, `tree`, `partitioner` | read the partitioner, poll solvers, start solvers, split off a node | two pipes and the solvers run concurrently with the loop | the result is right; no solver process is lost; the round ends |
| Isolated coordinator, pre-partition (`coordinator.py`) | `subnodes`, the process on the original task, `get_model_done` | poll the original task, expand a node into its halves, hand the subnodes over, go on with the loop | a refuted half, a time limit of 20 s and a verdict meet while subnodes are collected | the subnodes cover the input and were announced as tasks; the queue never runs empty; a model is complete when sat is reported |
| Parallel tree (`partition_tree.py`) | status, children, `assign_to`, `solvings`, `waitings` | make, solve, terminate, push up and down | unsat comes from four directions | an unsat mark is justified by children, ancestor, answer or split |
| Partitioner loop (`subpaving_t_def.h`) | node states, heap, `m_alive_task_num`, `m_unsolved_task_num` | announce, split, select, read a command, throttle, finish | commands cross announcements; counters; throttle | counters are true; parent before child; the verdict is right |
| Partitioner arithmetic (`subpaving_t_def.h`) | bounds with timestamps, values of atoms, queue of new bounds, split candidates | assert units, propagate a clause, sum or product, normalise a bound, simplify a clause, drop dominated clauses, split | strict and closed ends, integer rounding, relaxed denominators, stale visits, clauses that imply each other | no model is lost; a task has no model the formula has not; the halves are narrower |
| Pipe readers (`partitioner.py`, `subpaving_t_def.h`) | `status`, buffer, partial line | read, end of file, close after the process has ended | a line cut anywhere; last data after the process has ended; a crash in a line | whole lines, once, in order; at a clean end all of them |
| Launcher, dispatcher | none | start `mpiexec` | none | ranks and core list agree |
| Z3 libraries, base solvers | | | | third-party |

Interaction: leader and coordinators by MPI (tag 1 control, tag 2 payload),
coordinator to coordinator by MPI (tag 2, an instance), coordinator and partitioner
by two pipes and by task files, coordinator and base solver by process exit and
stdout.

## 2. Modules

    PartitionSpace            the tree of subproblems one partitioner can create
      SpaceProofs             paths, depths and covering in that tree (TLAPS)
      Partitioner             the C++ main loop
        PartitionerOpen       ... with the most general coordinator
          PartitionerProofs   counters, states, order of the announcements (TLAPS)
      ParallelTree            the tree of the coordinator
        CoordinatorRound      Partitioner + ParallelTree + coordinator loop,
                              refines PartitionerOpen
          IsolatedRound       the round of the isolated coordinator
            RoundProofs       a round: types, refinement, ended nodes, processes,
                              unsat marks and the result, how unsat climbs and
                              sinks; the isolated round: types, subnodes, files,
                              model, result (TLAPS)
    LineChannel               whole lines, once and in order
      PipeReaders             both pipe readers, refines LineChannel
        PipeProofs            the refinement, the clean end (TLAPS)
    Intervals                 exact rationals and intervals
      Boxes                   nodes of the partitioner with their bounds; tasks
        Subpaving             propagation and splitting
          PropagationProofs   numbers, intervals, atoms; what one propagation
                              step preserves (TLAPS)
            SubpavingProofs   tasks, cuts; no model is lost or added, nothing is
                              missed (TLAPS)
    Folding                   what a fold computes, for any operator (TLAPS)
    Cluster                   leader, distributed tree, coordinators
      ClusterProofs           all its safety properties (TLAPS)
    MCSpace, MCPartitionerOpen, MCRound, MCIsolated, MCPipe, MCSubpaving,
    MCCluster                 instances for TLC

**PartitionSpace** fixes, as constants, a tree of possible subproblems and which of
them are satisfiable.  Which part of the tree is ever created, and which
unsatisfiable nodes propagation happens to refute, is left to the actions.  Its two
assumptions say that `mk_node` builds a tree and that the two bounds of `split_node`
are complementary.  That the arithmetic really is of this kind (a refuted node has
no model, no model falls between the halves) is what **Subpaving** checks and
**SubpavingProofs** proves for sums.

**Partitioner** translates `context_t::operator()`.  The unit of atomicity is what
the process does between two reads or writes of its pipes that matter: `ParseLine`
is one line of `communicate_with_coordinator`, `SkipNode`, `RefuteNode` and
`BuildTask` are the three outcomes of one iteration of `create_new_task`, `Announce`
is the next call of `operator()` with the pending task (write the line, then
`split_node` with its lines and heap entries), `StartSelect` is the throttle test,
`Finish` the verdict.  The recursive `unsat_push_up` and `unsat_push_down` are given
by the set of nodes they write. `phase` is where the loop is.  `MaxAlive` is
computed as in `init_partition`. The driver in `subpaving_tactic.cpp` (`solve`,
`process`) is part of `BuildTask`, `PartitionerInit` and `Finish`.

**PartitionerOpen** closes the module with an environment that reads the lines in
order and sends any command about any node it has been told of, at any time.
`PipeRoom` says with how many unread commands another still fits.

**ParallelTree** is `ParallelTree` of `partition_tree.py`, its walks given as sets
as above.  **CoordinatorRound** is one round: `parallel_solving` with `pc` for its
place in the loop (receive, poll, run, leader, write, report, idle); the split
handler `set_node_split` queues the lines it writes in `outbox` and writes them one
by one, as the process may read between two of them.  A base solver is the choice,
at a poll, between still running, the true answer (`PollSat`, `PollUnsat`) and, for
nodes in `GivenUp`, an error or a run past the threshold (`PollGivenUp`).
Thresholds and the limit of 32 lines become choices.

**IsolatedRound** extends it by what rank `num_dist_coords` does first.  `stage` is
`"pre"` inside `pre_partition` and `"main"` after it.  One turn of the loop of
`pre_partition` is `OriginalAnswers`, `OriginalFails` or `OriginalStillSolving` (the
poll of `check_original_task`), `PrePass` (`receive_partitioner_messages` and the
test `is_done`), `ExpandNode` (pop a subnode, replace it by its halves or put it
back) and `EnoughSubnodes`, `Again` or `TimeOver`.  `HandOver` sends the files and
marks what was sent.  The rest is the loop of the base module, reached through
`MainPass` and `MainPoll`.

**PipeReaders** is one pipe with its reader; `side` chooses which.  For `"python"`
it is `receive_message`, `read_from_process` and `check_p_status`: `TakeLine` finds
a newline in the buffer, `CheckRunning` polls the process and closes its stdout
through `communicate`, `ReceiveBuffered`, `ReceiveFresh`, `ReceiveEnd` and
`ReceiveRaises` are the ways a read ends.  For `"cpp"` it is
`read_line_from_coordinator` (`ReadCommand`).  A line is a sequence of characters
that the writer puts into the pipe in pieces of any length (`WritePiece`) as far as
`Room` allows, the Python reader takes all there is and the C++ reader at most
`ReadSize`.  The process may close its end, exit, or crash in the middle of a line.
**LineChannel** is what the reader promises: the lines written, whole, once, in
order; only the last line of a crashed process may be cut.

**Intervals** has the rationals of `mpq` as pairs in lowest terms and the interval
operations the propagation uses, with open and infinite ends; `ISquareRoot` rounds
outwards as `nth_root` does.  **Boxes** is a node: its bounds and values, the atoms
(`mk_atom` turns a disequality into two strict inequalities and rounds the bounds of
integers), `Normalize` (integer rounding and the relaxation of large denominators),
`Relevant`, the value of an atom at a node, and `ToTask`, which is
`convert_node_to_task`: clauses that are true are dropped, atoms that are false
removed, inequalities merged (`simplify_ineqs_in_clause`: `AllOf` in a conjunction,
`AnyOf` in a disjunction), and clauses implied by another removed
(`remove_dominated_clauses`); `Refuted` is its result `true`.  At its end the module says
what a problem means: `IsPoint`, `IsModel`, `InBox`.  **Subpaving** is the run:
`AssertUnits`, `Visit` (one constraint of the bound being propagated), `TakeBound`,
`TimeUp`, `RootDone`, `CreateTask`, `SplitNode`, `LeftDone`, `RightDone`,
`NoVariable`.  The floating-point score that ranks the candidates in
`select_best_var` is a choice among them.

**Cluster** abstracts a subproblem to the set of candidate points it contains. A
split gives a part of the region away, a finished round reports the truth about what
is left, so that an answer can be checked against the input.  Each pair of processes
has its own FIFO channel.  The isolated coordinator's choice of subnodes is any
disjoint family that misses only refuted parts (`Cuts`), which `OfferedCovers` of
**IsolatedRound** justifies.  `Solve` stands for a whole round of
**CoordinatorRound**.

Operators marked *Fault* in the modules are wrong variants of the definition next to
them (a dropped guard, an off-by-one, a swapped order).  No specification uses them;
each is put in the place of its original to confirm that the run notices.

## 3. Runs

| Run (config) | Instance | Checks | States |
|---|---|---|---|
| `partitioner_open` (`MCPartitionerOpen`) | 7 nodes, all refutable, 1 core (3 alive tasks) | `TypeOK`, `AliveCountsWaiting`, `AliveBounded`, `UnsolvedCoversOpen`, `AnnouncedState`, `ParentAnnouncedFirst`, `AnnouncedOnce`, `NeverRevived` | 646 000 |
| `round` (`MCRoundDeep`) | a tree three splits deep, 2 cores, one split, tasks that are given up, refuted halves | `ProcessesAccounted`, `UnsatClimbs`, `UnsatSinks`, `TreeMarksCovered`, `PartitionerMarksCovered`, `ResultSoundUnlessLeafLost`, `EndedStaysEnded`, `CoordinatorIsGeneral`, `RoundEndsUnlessStuck` | 69 000 |
| `round_throttled` (`MCRoundThrottled`) | 9 nodes on a chain, 1 core | `RoundEnds`, violated (finding 2) | |
| `round_leaf_lost` (`MCRoundLeafLost`) | 5 nodes, any task may be given up | `ResultSound`, violated (finding 1) | |
| `isolated` (`MCIsolated`) | 7 nodes, 3 coordinators to serve, 1 core | `NeverPopsEmpty`, `OfferedCovers`, `OfferedAnnounced`, `ModelCompleteInMain`, `PrePartitionEnds` | 486 000 |
| `isolated_model` (`MCIsolatedModel`) | 3 nodes | `ModelComplete`, violated (finding 4) | |
| `pipe` (`MCPipe`) | both readers, 3 lines of 1 or 3 characters, a pipe of 3, reads of 2 (C++) | `CleanEndComplete`, `ReaderIsChannel`, `EverythingArrives` | 2 350 |
| `subpaving` (`MCSubpaving`) | about 450 problems of 1 to 4 variables | `NoModelLost`, `TaskKeepsModels`, `TaskHasOnlyModelsUnlessRelaxed`, `SplitNarrows`, `PropagationComplete` | 151 000 |
| `subpaving_relaxed` (`MCSubpavingRelaxed`) | a unit `x >= 1/5` with denominators up to 3 | `TaskHasOnlyModels`, violated (finding 5) | |
| `cluster_safe` (`MCClusterSafe`) | 3 coordinators, 5 tree nodes, 1 solution, time limit | `AnswerSound`, `SolutionHeld`, `TransferMatches`, `IdleQueueSound`, `AssignedOpen`, `LeaderNeverFails`, `AssignFindsIdle`, `ReceiverServed` | 3 970 000 |
| `cluster_live` (`MCClusterLive`) | 2 coordinators, unsatisfiable input of 2 points, two ranks may fail, time limit | `AllTerminateOrWait`, `LeaderEnds` | 215 000 |
| `cluster_late_answer` (`MCClusterLateAnswer`) | 3 coordinators, answers of any delay | `LeaderNeverFails`, violated (finding 3) | |

Why the bounds are enough.

*Partitioner.*  Seven nodes are the smallest tree with a node that has both an uncle
and nephews, so a push-up of two levels meets a push-down in the other branch.  With
one core three tasks may be alive, so the throttle acts.  The command pipe holds one
unread line: two commands read one after the other without another step between them
are the same behaviour as two fillings of that pipe, and the proofs (section 5) hold
for any room.

*Round.*  The tree has one branch that is three splits deep, so a mark climbs two
levels and sinks two levels while the rest is open; two cores and one split let a
node be given away while a sibling is being solved.  The command pipe is unbounded.
The chain of `round_throttled` is the smallest tree on which refuted halves can
close the root while more than three tasks are alive.  The safety properties of the
round are proved for every tree (section 5).

*Isolated.*  The safety properties are proved for every tree and number of
coordinators; for liveness, three coordinators are the fewest for which one expansion of the root
is not enough, and seven nodes give two different ways to reach four leaves; one
subnode may be refuted while another is expanded.

*Pipe.*  The safety properties are proved for lines, pipes and reads of any size.  In
the instance the longer line with its newline does not fit the pipe, nor a read of two
characters the pipe, so lines are cut in every place: within the line, before and
after the newline, and at the end of the buffer; the shorter one fits with the
beginning of the next.  Three lines give one in the buffer, one in the pipe and one
being written.

*Subpaving.*  The problems are enumerated, not sampled: every clause of three
literals over one variable with two constants, pairs of clauses that do or do not
imply each other, chains of clauses with units and equations, and the five shapes of
definition (sum, difference, product, square, mixed power) with bounds of every
sign.  `points` is a grid that is finer than the constants, so the two ends of an
open interval are told apart.  Constants are scaled: `MaxDenominator` 3 for 10^9,
`AdjustDenominator` 2 for 10^6, `MaxBound` 4 for 10^10, `SplitDelta` 2 for 128,
`RootPrec` 4 for 8192 and `Epsilon` 1/20.

*Cluster.*  The safety properties are proved for every number of coordinators, of tree
nodes and of points.  In the instance three coordinators are the fewest with a source, a target and a third
one that crosses them; five tree nodes allow a pre-partition into three and another
split.  One candidate point is enough for safety, as a lost region is lost with a
point in it; a region may also be empty.

Deadlock is not checked: every one of these systems stops when its work is done.

Fairness.  The coordinator's loop and the partitioner process keep running (weak
fairness each).  A pass over the pipe ends after 32 lines, debug lines included, so
one pass may read none of the lines that matter, but there are finitely many debug
lines between two of them (strong fairness of `ReceiveLine`).  A base solver that is
polled for ever answers or is given up (strong fairness of `PollAnswered`;
thresholds in `need_terminate` give up every task but the root).  The isolated
coordinator's loop keeps running, and a loop that turns for ever passes the limit of
20 s (strong fairness of `TimeOver`); nothing is assumed of the base solver on the
original task.  In the pipe the writer writes on while there is room and comes to
its end, and the reader reads on; the C++ reader is only weakly fair in
`ReadCommand`, as it reads once per turn of its loop.  In the cluster `Iprobe` with
`ANY_SOURCE` takes messages in the order they arrive, so nobody's message waits for
ever (weak fairness of `LeaderHears(c)` for each rank), a coordinator keeps taking
its messages, and a coordinator that is solving comes to a result (`Solve(c)`): that
is the claim about `CoordinatorRound`, an assumption here.  The isolated coordinator
keeps taking its messages and handing out its subnodes (`IsolatedMoves`, which
`PrePartitionEnds` supports), but need not solve the whole input itself.  Nothing is
assumed of the leader's time limit, failures or refused splits.

## 4. What the runs show

*Partitioner.*  The slot of a task is given back exactly once, whatever mixture of
solved, terminated and inherited unsat reaches it; the alive count never exceeds
`m_max_alive_tasks + 1`; the unsigned `m_unsolved_task_num` leaks upwards but never
falls below the open nodes; a parent is announced before its children and nobody
twice, which is what `make_node` needs.

*Round.*  No satisfiable leaf ends under an unsat mark of either tree unless it was
handed to another coordinator; both children unsat implies the parent unsat at every
step (the assertion in `select_split_node`); nothing below an unsat node is open;
every solver process is in `tree.solvings`; the coordinator is one of the
environments of `PartitionerOpen` (`CoordinatorIsGeneral`), so all that is proved
there holds here.

*Isolated.*  The subnodes handed out are disjoint, no more than there are
coordinators, and cover every leaf that is not under an unsat mark; each has a task
file (a refuted half is never handed out as an empty file name), `popleft` never
meets an empty queue, and the pre-partition ends although the process may refute,
throttle or end under it.

*Pipes.*  Both readers implement a channel of whole lines.  After a clean end
nothing is missing (`CleanEndComplete`), although the last read may find the process
gone and its stdout closed.  After a crash only the line in progress can be cut; if
`check_running` sees the crash first the unread lines are gone, but then the reader
raises and never reports the end of the pipe.

*Arithmetic.*  Propagation, integer rounding, relaxed denominators, merging of
inequalities and dropping of clauses lose no model (`NoModelLost`,
`TaskKeepsModels`).  A model in the box of a task is meant to be one that also satisfies
the atoms derived there: a half whose bound is relaxed for its denominator is wider than
its parent (`Widened`), has points in its box the parent had excluded, and its task keeps
only those of them that satisfy the atoms the parent derived.  None of the leaf's own
models is among the rest, which is why `NoModelLost` asks of a leaf that is out as a task
that the task itself has the model.  But for finding 5 a task has no model the formula has not.  A
split makes both halves strictly narrower, and a propagation that was not cut by its
time limit leaves no clause with a single undecided atom, in spite of the timestamps
that suppress visits.

*Cluster.*  The answer is right, every solution of the input has a holder while the
leader waits, `transfer_node` finds in `split_node` what was promised, an assigned
coordinator is idle, and one that blocks in a receive is owed an instance.

Findings:

1. *A lost leaf* (`round_leaf_lost`).  A task without a split variable that was given
   up counts as neither alive nor open.  When the heap is empty the process answers
   `l_false`, unsat (`subpaving_t_def.h:3953`), though `subpaving_tactic.cpp:493`
   reads "l_false: unsat" and lists exhausted splits under `l_undef`.
2. *A throttled end* (`round_throttled`).  Refuted halves close the tree on the Python
   side; the ancestors marked there are not reported to the process
   (`partition_tree.py:281-291`), whose alive count stays above the limit, so it sleeps
   for ever, and the coordinator asks `is_done` only at the end of the pipe.
   `RoundEndsUnlessStuck` shows that a round that fails to end on these instances is
   either throttled by tasks the coordinator has all closed, or its reader is at the
   end of the pipe and a leaf was given up.
3. *A late refusal* (`cluster_late_answer`).  `split_failed` does not say which request it
   answers.  One that takes longer than `split_tabu` makes a later request look
   answered; `assert(self.status.is_splitting())` (`leader.py:41`) fails.  With prompt
   answers (`PromptReplies`) `LeaderNeverFails` holds.  Nor does the answer stay right: on
   the same instance `AnswerSound` has a counterexample of 46 states on which no assertion
   fails on the way; the late refusal makes a second split overwrite `split_node` before
   `transfer_node`, the part in it is lost and `unsat` is printed of a satisfiable input.
4. *A verdict before its model* (`isolated_model`).  `pre_partition` asks `is_done()` after
   each pass over the pipe (`coordinator.py:487`); a pass may end between the line `sat` and
   the end of the model, and `assert(self.get_model_done)` (`coordinator.py:443`) fails.
   `parallel_solving` waits for the end of the pipe first (`coordinator.py:452-454`), and in
   the main stage `ModelCompleteInMain` holds.
5. *A relaxed unit* (`subpaving_relaxed`).  `normalize_bound` relaxes a bound of a real
   variable with a large denominator (`subpaving_t_def.h:1193`), units included; the task
   drops such a unit because the bound of the node stands for it, and so may have a model
   the formula has not.  The sat of its solver is taken for the answer
   (`coordinator.py:333-338`).

Remarks on the code that no run is needed for:

- The second disjunct of `AllTerminateOrWait` does occur: a coordinator that fails between
  `split_succeed` and `transfer_node` (`coordinator.py:716`, `538`) leaves its target in a
  blocking receive, which never reaches the barrier.
- A monomial is integer for the code if any of its variables is (`subpaving_t_def.h:607-613`)
  though its comment says "all" (`604-606`); for a sum the code does ask all of them
  (`615-627`).  The two differ for mixed problems only, and the documented logics are pure.
- `test_dominated` compares the kinds of two atoms before their variables, so it misses some
  dominated clauses; it drops none it should keep.

## 5. Proofs

Eight modules of theorems.  Those about the process, the round and the isolated
coordinator hold for every tree that satisfies the assumptions, every set of refutable
and of satisfiable nodes, every number of cores, splits and coordinators and every pipe
capacity; those about the pipe for all lines, pipe and read sizes; those about the
cluster for every number of coordinators and tree nodes and every input; those about the
arithmetic for every set of problems, tree and limit on denominators.

Assumptions: `SpaceShape` (a binary tree with one root), `SpaceTruth` and
`RefutableSound` (a node is satisfiable when a half is, a refuted node is not),
`NoTaskFresh`, `MaxRunningType`, `PipeRoomType`, `RoundConstants` (`Cores \in 1 ..
MaxRunning`), `IsolatedConstants` (at least one coordinator to serve),
`PipeConstants` (a line is a nonempty sequence of characters without newline),
`ClusterConstants` (at least one coordinator, finitely many points), `FailingType`,
`BoxConstants` and `SubpavingConstants` (the limits are positive numbers, `Null` is neither
a number nor a record) and `ProblemsSound` (the problems are well formed, their `models`
are models and all the models among their `points`).
TLC evaluates them on the instances.  The theorems about the cluster have the
hypothesis `PromptReplies`; without it `LeaderNeverFails` and `AnswerSound` are false (finding 3).
`SolutionHeldHolds` and `ReceiverServedHolds` also suppose that nobody fails, because a
failed coordinator does lose its region; `AnswerSoundHolds` does not.

**The process** (`PartitionerProofs`).  `AnnouncedState` is not inductive: that a
command does not touch a node that was never created needs to know that commands
name announced nodes and that every ancestor of a created node was announced.  The
inductive invariant is

    IndInv == TypeOK /\ Pending /\ PathTold /\ AnnouncedState /\ CommandsTold

where `Pending` ties `ptask` to `phase` and to an unconverted node, `PathTold` says
that only the halves of nodes that were announced exist, and `CommandsTold` that a
command in the pipe names an announced node.  There is one lemma per conjunct with
one step per action.  On top of it the counters: `AliveStep` and `CoversStep` follow
the sets of WAITING and of open nodes through each action with the library's facts
on cardinality; `ThrottledStep` strengthens `AliveBounded` by the bound that holds
between the throttle test and the announcement.

**The announcements** (`PartitionerProofs`).  `ParentAnnouncedFirst` and
`AnnouncedOnce` speak of positions in the sequence of lines.  They follow from
`IndInv` with `ParentTold` and `OrderInv`: what is not yet told is at no position,
so an appended line cannot repeat one or come before its parent's.

**The round** (`RoundProofs`).  The coordinator and the process justify each other:
the process keeps its states because commands name announced nodes, and the
coordinator sends only such commands because its tree holds only announced nodes.
`RoundInv` carries both halves through one induction.  Its consequence
`CoordinatorIsGeneralHolds` is the refinement of `PartitionerOpen!Spec`: every step
of a round is a step of the process with its most general coordinator, or a stutter,
so the theorems above hold in a round.  From the same invariant come
`EndedStaysEnded` and, with `SolversListed`, `ProcessesAccounted`.  `RoundInv` does not
speak of `pc`, so it also holds of the isolated coordinator, whose loop is another.

**The result** (`RoundProofs`).  A satisfiable leaf may end under an unsat mark
only if it was split off.  That is not inductive alone, since marks travel through
lines, commands, the answers of solvers and two trees.  `SoundInv` says of each of
these that what it carries is covered: the marks of the tree and of the process
(`MarkedCovered`), refuted halves in the pipe (`RefutedCovered`), commands in the
pipe (`CommandsCovered`), verdicts in the pipe (`VerdictsRight`), the result
(`Right`).  `Frontier` says that while the process works every unconverted node is
in the heap or about to be announced and every converted one has its halves, which
is why an empty heap with no task alive or given up means unsat.  `SoundInv` implies
`TreeMarksCovered`, `PartitionerMarksCovered` and `ResultSoundUnlessLeafLost`.

**The tree** (`RoundProofs`).  `UnsatClimbs` and `UnsatSinks` for the push-up and
push-down of `partition_tree.py`: `MarkingStep` describes any step by the nodes it
marks and shows once what a closed set of marks does; `ClimbStep` and `SinkStep`
check that the set each action marks is closed.

**The isolated coordinator** (`RoundProofs`, second half).  `OwnStep` and `SharedStep` divide the
steps: those that move only the loop, the queue and the result, and those of
`CoordinatorRound`, for which the lemmas of the round are used as they are.  `PreQuiet`
says that before the hand-over no solver runs and no command is sent, so a task in the
tree is open or unsat.  `CutsInv` says that the queue is a cut through the tree: its nodes
lie apart, every leaf is below one of them or under an unsat mark, and in the main stage
the same of what was offered.  Expanding a node keeps this because its halves, announced
after it, are in the tree or unsat.  An empty queue would then have every leaf under an
unsat mark; `MarksReachRoot` takes a deepest unmarked node to show that the root is
marked, which ends `pre_partition` before the next pop: `NeverPopsEmpty`.  `OfferedCovers`
and `OfferedAnnounced` are `CutsInv` at the hand-over, `OfferedLosesNothing` adds
`TreeMarksCovered`: if everybody answers unsat so is the formula, which is what the leader
of `Cluster` takes for granted.  `ModelInv` follows the verdict of the original task, of
the process and of the solvers to the report: `ModelCompleteInMain`.  The result itself is
right from all four sources (`IsoResultSound`).

**The cluster** (`ClusterProofs`).  `AnswerSound` at `unsat` needs that no solution is left
with anybody; where solutions are is spread over regions, two kinds of messages, nodes
split off and results under way.  `Carried` says that every solution is with somebody the
leader still waits for.  It is kept only because the protocol fits together:

    ClusterInv == TypeOK /\ Protocol /\ Known /\ Promises /\ Shape /\ Justified
                  /\ Open /\ Carried /\ AnswerSound /\ LeaderNeverFails

`Protocol` says what a channel may hold in each state of a coordinator: at most one
message of a type, an answer only to a request and in order (`OneRequest`,
`Conversation`), a split node is kept until its transfer (`Kept`), a receiver is owed an
instance by a source that has it (`Served`, `Expected`, `PartsAwaited`), a result is true
of the region it is about (`Truthful`).  `Known` compares the leader's table with the
states of the coordinators, `Promises` says that an idle coordinator is promised to one
source at most, `Shape` that the distributed tree is a tree, `Justified` that its marks
are, `Open` that each busy coordinator has a node to itself.  `LeaderNeverFails`,
`TransferMatches`, `AssignFindsIdle`, `IdleQueueSound` and `AssignedOpen` are
consequences; `SolutionHeld` and `ReceiverServed` follow when nobody fails.  With failures
`ServedOrOrphanedHolds` remains: a blocked receiver is owed an instance or waits for a
coordinator that has failed, which is the second disjunct of `AllTerminateOrWait`.

**The pipe** (`PipeProofs`).  What was read of a line, the buffer, the pipe and what is not
written yet, put behind each other, are the lines not handed out, each with its newline
(`Streams`).  A recursive concatenation is avoided by supposing the whole output and the
places where its lines end (`Framed`) and saying that what is ahead goes on at one of
them (`Follows`).  Moving a character changes nothing; `NextLine` shows that the first
newline ahead ends the next line, so `TakeLine` hands out that line and goes on at the
next place.  `communicate()` takes characters from the middle, so after a crash that
`check_running` saw the sequence between the buffer and the rest of the last line is
existentially quantified.  From it follow the refinement `ReaderIsChannelHolds`, for both
readers, and `CleanEndCompleteHolds`.

**The space** (`SpaceProofs`) has the facts about paths the others use.  The depth
of a node is the number of its ancestors, and every set of nodes has a shallowest one
because the natural numbers are well ordered (`WFMin`); from it follow that there are
no cycles (`NoCycle`) and that the ancestors of a node form a chain (`Chain`).

**The arithmetic** (`PropagationProofs`, then `SubpavingProofs`).  Five properties, from two
questions asked of every operator: does it exclude a point it must keep, and does it miss
something it must find?  The proof goes up from the numbers.

- *Numbers and intervals.*  `Gcd` is Euclid's recursion; that it is the greatest common
  divisor gives that equal quotients are equal pairs (`SameNumber`), so that numbers can be
  compared, added and multiplied over a common denominator (`Denominator`, `AtCompare`).  The
  ends of a sum and of a multiple of an interval let through what they should (`AddContains`,
  `ScaleContains`).
- *Atoms and bounds.*  `ValueSound`: an atom that is true or false at a node is so at each
  point of its box; `ValueStays`: it stays so at a node that knows more, unless that one is in
  conflict.  `NormalizeKeeps`: rounding a bound of an integer, and relaxing one with a large
  denominator, exclude no number; `NormalizeTight`: a bound that is not relaxed does not get
  worse.
- *Propagation.*  `Good(s, e)` says what every step preserves of the state `s` of a propagation
  in the surroundings `e`: the models of `e` stay in the box and satisfy `m_up_atoms`; while no
  bound is relaxed, the node only narrows, a point that satisfies its plain bounds and its
  derived atoms is in its box (`Back`), and every clause is satisfied or has two undecided
  atoms, or is still to be visited, or the queue holds a bound of one of its variables that
  its last visit did not see (`Tracked`).  It is shown of one bound, one atom, one clause, one sum and their
  folds (`MadeGood` to `PropagateGood`).
- *The task.*  `RefutedSound` and `TaskSound`: the conjunctions and disjunctions that
  `convert_node_to_task` forms of bounds and literals of one variable hold wherever their parts
  do (`AnyOfHolds`, `NotContradictory`), so a node refuted on them has no model, and the task
  has every model of the node.  The converse, `TaskPointSound`: a merged conjunction
  implies its parts (`ConjoinedHolds`), a clause dropped as a tautology holds everywhere
  (`TautologyHolds`), one dropped as dominated is implied by one that stays
  (`RemoveDominatedCovers`, by induction on the length of the clauses, as the code goes through
  them shortest first), so a point of the task is a model when the plain bounds and the derived
  atoms tell the whole box.
- *The cut.*  `MiddleInside`: the value a node is cut at lies strictly inside its bounds, or the
  node is unbounded there; so the literal and its negation are undecided (`CutUndecided`,
  `OtherUndecided`) and each half gets a bound it did not have (`CutBetter`).

`NoModelLost` is not inductive: while the second half of a node is still to be made its models
may have nowhere to be but in the node itself, and a leaf's box says nothing of the atoms
asserted with it, which `Refuted` uses.  The invariant

    Inv == Typed /\ TasksTyped /\ HalvesTyped /\ Childless /\ ModelsKept /\ HalfKept

has `ModelsKept` (a model is kept by a leaf that is not refuted, or by the node in division),
`HalfKept` (what the bound still to come would exclude is in the first half, `HalvesCover`) and
`Childless` (only childless nodes are in the heap, in propagation or about to be divided).
`TasksKept` adds that a node that is out as a task never changes again and that its task is
`ToTask` of it.  `NoModelLost` and `TaskKeepsModels` follow.

The other three properties need to know what a node says *exactly*.  That is the second
invariant, proved on top of the first:

    ExactInv == Running /\ Stamped /\ AllExact /\ Undecided

`Stamped`: no bound and no visit is younger than the clock, and both bounds of a variable admit
something.  `AllExact`, while no bound was relaxed: the plain bounds and the derived atoms of a
node tell its box (`Reads`), its units are true once they were asserted, a half is narrower than its parent and
somewhere strictly so (`Stricter`), and a node that is settled, neither cut short nor below
one that was, has missed no clause (`AllDone`).  `Running` is `Good` for the node in
propagation.  `Undecided` says that the second bound of a division is undecided at the node as
long as it waits, and is why the second half is strict as well.
`TaskHasOnlyModelsUnlessRelaxed`, `SplitNarrows` and `PropagationComplete` follow.  All
conjuncts of both invariants were checked by TLC on the instances of `subpaving` first.

`SplitNarrows` and `PropagationComplete` speak of every node, not only of those TLC reaches.
The second is about timestamps that all nodes share: a clause is visited again only if a bound
of one of its variables is younger than its last visit, which may have been at another node.
It holds because a half takes its bounds over from its parent, for which it held, and the
clock never goes back.  If the parent's propagation was cut short it may fail, so `cut` is
inherited.

Induction along a sequence goes through **Folding**: the folded operator is a constant of that
module, which shows that the recursion of `FoldLeft` over the subsets of the domain has a run of
intermediate results (`FoldRuns`).  Each folded operator has its instance, and a property of the
fold follows by ordinary induction along the run (`UpTo`), so that none of the library's
induction rules is needed with an operator for a parameter.

The five theorems have the hypothesis `OnlySums`: every definition is a sum.
Everything else, Boolean, integer and real variables, equations, strict and weak inequalities,
clauses of any length, is covered.  Products (`PropagateMonomial`) are not: `Power` uses `^`,
which no prover knows, and `ApproxRoot` is Newton's iteration, whose end is a fact of its
convergence.

So every invariant, action property and refinement that a passing run checks is proved.
Only model-checked are:

- liveness (`RoundEndsUnlessStuck`, `PrePartitionEnds`, `EverythingArrives`, `LeaderEnds`,
  `AllTerminateOrWait`): fairness and ENABLED are out of the prover's reach;
- the five properties of `subpaving` for problems with products, for the reason above.

## 6. Not modelled

- Z3 itself: expressions, numerals, parser, preprocessing tactics, arithmetic and bit-vector
  rewriters.  It is vendored and makes up nearly all of the lines under
  `src/src/partitioner`; AriParti's own C++ is in `math/subpaving`.
- The base solvers (binaries without source), the dispatcher (it picks a class by rank), the
  benchmarks and result tables.
- The launcher: a sequential script that reads a configuration and divides cores among ranks.
  A worker with a single core is left with `available_cores == 0` (`coordinator.py:61`) and would
  never start a solver; `RoundConstants` assumes at least one.
- Real time: thresholds, `split_tabu` and limits are choices.  The floating-point score of
  `select_best_var` is a choice.
- Contents of models (only whether one is complete), statistics, logs, debug output
  (`write_debug_ss_line` clears its stream only when debugging is on, which it is:
  `subpaving_t_def.h:2381`).
- `process` reads `res` uninitialised after a `z3_exception` (`subpaving_tactic.cpp:568`): which
  exceptions Z3 raises is out of the models.
- Both pipes full at once: the process writes and the coordinator writes and neither reads.  The
  command pipe of the round is unbounded; the lines are short against 64 kB.
- `MPI.COMM_WORLD.send` is taken as buffered.  An instance above the eager limit is sent only when
  the target receives it; a target that failed before never does, and its source would block
  (`coordinator.py:559`, `716`).
- Delay: a pass that reads debug lines postpones the polls and the leader's messages
  (`coordinator.py:196`); `RoundEndsUnlessStuck` only says that the round ends.
- Two shortcuts on sizes in `Boxes`: above 10 000 clauses `remove_dominated_clauses` passes them
  all on (`subpaving_t_def.h:2543`), where `RemoveDominated` would drop some; and a clause is taken
  to have no atom twice, so that its literals are a set, while the code may put out a Boolean
  literal or an equation as often as it was given.
- A base solver whose output exceeds its pipe, and a task file that was not written because the
  task was empty (`subpaving_tactic.cpp:454`).
- `Leader.init_coord_0` is never called.

## 7. Plan

1. Products in `PropagationProofs`: `Power` as a recursive function, the product of two
   intervals and its quotient, the convergence of `ApproxRoot`; then `OnlySums` can go.
2. An abstract `Solver` (a formula, an answer that is right, given at most once) that
   `Cluster` implements, and an abstract round that `CoordinatorRound` implements and
   `Cluster` uses for `Solve`.
