----------------------------- MODULE Subpaving ------------------------------
(***************************************************************************)
(* The arithmetic of the partitioner process (subpaving_t_def.h): bounds   *)
(* are propagated at a node until nothing changes or the time is up, the   *)
(* node is converted to a task, and split in two halves which are          *)
(* propagated in their turn.  The messages, the verdicts of the base       *)
(* solvers and the throttle are in Partitioner.tla; here a task is never   *)
(* answered, and the heap hands out its nodes in any order.                *)
(***************************************************************************)
EXTENDS Boxes

CONSTANTS
    Problems,     \* the problems, each with its points and models (for the properties)
    MaxNodes(_),  \* bound on the nodes of a problem's tree
    SplitDelta,   \* 128
    RootPrec      \* nth_root_precision, 8192

ASSUME SubpavingConstants ==
    /\ \A p \in Problems : MaxNodes(p) \in Nat
    /\ SplitDelta \in Nat \ {0} /\ RootPrec \in Nat \ {0}
    /\ Null \notin [node : Nat, from : Nat,
                    lit : [kind : {"ineq"}, x : Nat, lower : BOOLEAN, val : Int \X Int, open : BOOLEAN]]

ASSUME ProblemsSound ==
    \A p \in Problems :
        /\ IsProblem(p)
        /\ \A m \in p.models : IsModel(p, m)
        /\ \A m \in p.points : IsPoint(p, m) /\ (IsModel(p, m) => m \in p.models)

VARIABLES
    problem,     \* m_is_int, m_is_bool, m_defs, m_unit_clauses, m_clauses
    nodes,       \* m_nodes: the bounds, values and m_up_atoms of each
    parent,      \* node::m_parent, Null for the root
    nstate,      \* m_nodes_state
    heap,        \* m_leaf_heap
    task,        \* m_ptask, Null after a reset
    candidates,  \* m_var_split_candidates
    pc,          \* "init", "propagating", "creating", "splitting", "refuted"
    at,          \* the node in propagation
    halves,      \* what split_node still has to do: the right half and its bound
    queue,       \* m_queue from m_qhead on
    todo,        \* the constraints the first bound of the queue is still to visit
    since,       \* its timestamp
    clock,       \* m_timestamp
    visited,     \* constraint::m_timestamp
    tasks,       \* history: the task of each node
    cut,         \* history: the nodes whose propagation, or an ancestor's, ran out of time
    relaxed      \* history: a bound was relaxed for its denominator

treeVars == <<problem, nodes, parent, nstate, heap, candidates, tasks>>
propVars == <<at, halves, queue, todo, since, clock, visited, cut, relaxed>>
vars == <<treeVars, task, pc, propVars>>

Constraints == [def : {TRUE}, id : DOMAIN problem.defs] \cup [def : {FALSE}, id : DOMAIN problem.clauses]
VarSeq == [x \in 1 .. Cardinality(problem.vars) |-> [def |-> TRUE, id |-> x]]
ClauseSeq == [i \in DOMAIN problem.clauses |-> [def |-> FALSE, id |-> i]]

DefSeq == Those(VarSeq, Constraints)

(* m_wlist: the definitions and clauses x occurs in; x's own definition is *)
(* visited after them.                                                     *)
Watchers(x) ==
    Those(DefSeq, {c \in Constraints : c.def /\ x \in ToSet(problem.defs[c.id].xs)})
    \o Those(ClauseSeq, {c \in Constraints : ~ c.def /\ \E a \in ToSet(problem.clauses[c.id]) : a.x = x})
    \o Those(DefSeq, {c \in Constraints : c.id = x})

-----------------------------------------------------------------------------
(* One step of propagation works on a state s: the node, the queue, the    *)
(* clock, the visits and whether a bound was relaxed.                      *)
Current == [n |-> nodes[at], q |-> queue, t |-> clock, v |-> visited, r |-> relaxed]

Made(s, x, b, lower) ==
    [s EXCEPT !.n = Pushed(@, x, [val |-> b.val, open |-> b.open, ts |-> s.t], lower),
              !.q = Append(@, [x |-> x, ts |-> s.t]),
              !.t = @ + 1]

Improved(s, x, b, lower) ==
    IF Improves(s.n, x, b.val, lower, b.open) THEN Made(s, x, b, lower) ELSE s

AddBound(s, x, val, lower, open) ==
    Improved([s EXCEPT !.r = @ \/ TooFine(problem, x, val)],
             x, Normalize(problem, x, val, lower, open), lower)

AddUnlessConflict(s, x, val, lower) ==
    IF s.n.conflict THEN s ELSE AddBound(s, x, val, lower, FALSE)

AddValue(s, x, val) == AddUnlessConflict(AddBound(s, x, val, TRUE, FALSE), x, val, FALSE)

AddBool(s, x, neg) ==
    IF s.n.bval[x] = (IF neg THEN "false" ELSE "true") THEN s
    ELSE [s EXCEPT !.n = PushedBool(@, x, neg), !.q = Append(@, [x |-> x, ts |-> s.t]), !.t = @ + 1]

AssertAtom(s, a) ==
    CASE a.kind = "bool" -> AddBool(s, a.x, a.lower)
      [] a.kind = "eq"   -> IF a.lower THEN s ELSE AddValue(s, a.x, a.val)
      [] a.kind = "ineq" -> AddBound(s, a.x, a.val, a.lower, a.open)

AssertUnlessConflict(s, a) == IF s.n.conflict THEN s ELSE AssertAtom(s, a)

(* The bounds y gets from the interval r.                                  *)
DeduceEnd(s, y, e, lower) ==
    IF s.n.conflict \/ e.inf # 0 \/ ~ Relevant(s.n, y, e.val, lower, e.open) THEN s
    ELSE AddBound(s, y, e.val, lower, e.open)

Deduce(s, y, r) == DeduceEnd(DeduceEnd(s, y, r.lo, TRUE), y, r.up, FALSE)

Visited(s, c) == [s EXCEPT !.v[c] = s.t]

PropagateClause(s, c) ==
    LET atoms == problem.clauses[c.id]
        worth(i) == Value(problem, s.n, atoms[i])
        undef == {i \in DOMAIN atoms : worth(i) = "undef"}
        j == IF undef = {} THEN 1 ELSE CHOOSE i \in undef : TRUE
        s1 == IF undef = {} THEN s ELSE [s EXCEPT !.n.up = Append(@, atoms[j])]
    IN  IF (\E i \in DOMAIN atoms : worth(i) = "true") \/ Cardinality(undef) > 1
        THEN Visited(s, c)
        ELSE Visited(AssertAtom(s1, atoms[j]), c)

-----------------------------------------------------------------------------
(* Definitions.                                                            *)
Range1(n, x) ==
    [lo |-> IF n.low[x] = Null THEN Infinite(-1) ELSE Finite(n.low[x].val, n.low[x].open),
     up |-> IF n.upp[x] = Null THEN Infinite(1) ELSE Finite(n.upp[x].val, n.upp[x].open)]

Unbounded(n, x) == n.low[x] = Null /\ n.upp[x] = Null
IsZero(n, x) == Fixed(n, x) /\ n.low[x].val = Zero /\ ~ n.low[x].open /\ ~ n.upp[x].open

(* The sum of all but one (number 0: none) of the summands.                *)
Summand(n, d, i) == IScale(d.as[i], Range1(n, d.xs[i]))
AddSummand(n, d, but, r, i) == IF i = but THEN r ELSE IAdd(r, Summand(n, d, i))
SumOf(n, d, but) ==
    FoldLeftDomain(LAMBDA r, i : AddSummand(n, d, but, r, i),
                   [lo |-> Finite(Zero, FALSE), up |-> Finite(Zero, FALSE)], d.xs)

(* propagate_polynomial(x, n, y): y is x, or one of its summands.          *)
PropagateSumTo(s, x, y) ==
    LET d == problem.defs[x]
        i == CHOOSE j \in DOMAIN d.xs : d.xs[j] = y
    IN  Deduce(s, y, IF y = x THEN SumOf(s.n, d, 0)
                     ELSE IScale(Reciprocal(d.as[i]), ISub(Range1(s.n, x), SumOf(s.n, d, i))))

SumUnlessConflict(x, s, y) == IF s.n.conflict THEN s ELSE PropagateSumTo(s, x, y)

PropagatePolynomial(s, x) ==
    LET ys == <<x>> \o problem.defs[x].xs
        unbounded == {y \in ToSet(ys) : Unbounded(s.n, y)}
    IN  IF Cardinality(unbounded) > 1 THEN s
        ELSE IF unbounded # {} THEN PropagateSumTo(s, x, CHOOSE y \in unbounded : TRUE)
        ELSE FoldLeft(LAMBDA t, y : SumUnlessConflict(x, t, y), s, ys)

(* The product of all but one of the powers.                               *)
Factor(n, d, i) == IPower(Range1(n, d.xs[i]), d.degs[i])
MultiplyFactor(n, d, but, r, i) == IF i = but THEN r ELSE IMul(r, Factor(n, d, i))
ProductOf(n, d, but) ==
    FoldLeftDomain(LAMBDA r, i : MultiplyFactor(n, d, but, r, i),
                   [lo |-> Finite(One, FALSE), up |-> Finite(One, FALSE)], d.xs)

(* propagate_monomial_upward *)
PropagateMonomialUp(s, x) ==
    LET d == problem.defs[x]
    IN  IF \E i \in DOMAIN d.xs : d.degs[i] % 2 = 1 /\ Unbounded(s.n, d.xs[i]) THEN s
        ELSE Deduce(s, x, ProductOf(s.n, d, 0))

(* The values of one power of a product in i, when the others are in j.    *)
Divided(i, j) ==
    IF ContainsZero(j) THEN [lo |-> Infinite(-1), up |-> Infinite(1)] ELSE IDiv(i, j)

(* The lower bound is asserted even when relevant_new_bound would not      *)
(* bother.                                                                 *)
DeduceFactor(s, y, q) ==
    DeduceEnd(IF q.lo.inf = 0 THEN AddBound(s, y, q.lo.val, TRUE, q.lo.open) ELSE s,
              y, q.up, FALSE)

(* propagate_monomial_downward *)
PropagateMonomialDown(s, x, j) ==
    LET d == problem.defs[x]
        r == IF Len(d.xs) = 1 THEN Range1(s.n, x)
             ELSE Divided(Range1(s.n, x), ProductOf(s.n, d, j))
    IN  IF d.degs[j] > 2 \/ (d.degs[j] = 2 /\ Sign(r.lo) = -1) THEN s
        ELSE DeduceFactor(s, d.xs[j], IF d.degs[j] = 1 THEN r ELSE ISquareRoot(r, RootPrec))

PropagateFactors(s, x) ==
    LET d == problem.defs[x]
        bad == {i \in DOMAIN d.xs : ContainsZero(Range1(s.n, d.xs[i]))}
        step(s1, i) == IF s1.n.conflict THEN s1 ELSE PropagateMonomialDown(s1, x, i)
    IN  IF s.n.conflict \/ Cardinality(bad) > 1 THEN s
        ELSE FoldLeft(step, s, SetToSortSeq(IF bad = {} THEN DOMAIN d.xs ELSE bad, <))

PropagateMonomial(s, x) ==
    IF \E y \in ToSet(problem.defs[x].xs) : IsZero(s.n, y)
    THEN IF IsZero(s.n, x) THEN s ELSE AddValue(s, x, Zero)
    ELSE IF Unbounded(s.n, x) THEN PropagateMonomialUp(s, x)
    ELSE PropagateFactors(PropagateMonomialUp(s, x), x)

Propagate(s, c) ==
    IF ~ c.def THEN PropagateClause(s, c)
    ELSE IF problem.defs[c.id].kind = "monomial" THEN PropagateMonomial(Visited(s, c), c.id)
    ELSE PropagatePolynomial(Visited(s, c), c.id)

-----------------------------------------------------------------------------
(* The run of a propagation.                                               *)
With(f, k, v) == [x \in DOMAIN f \cup {k} |-> IF x = k THEN v ELSE f[x]]

StartAt(n, s, visits) ==
    /\ at' = n
    /\ queue' = s.q /\ clock' = s.t /\ visited' = s.v /\ relaxed' = s.r
    /\ todo' = visits
    /\ since' = s.t
    /\ pc' = "propagating"

Init ==
    /\ problem \in Problems
    /\ nodes = [n \in {0} |-> EmptyNode(problem)]
    /\ parent = [n \in {0} |-> Null] /\ nstate = [n \in {0} |-> "unconverted"]
    /\ heap = {} /\ task = Null /\ candidates = {}
    /\ pc = "init" /\ at = 0 /\ halves = Null
    /\ queue = <<>> /\ todo = <<>> /\ since = 0 /\ clock = 0
    /\ visited = [c \in Constraints |-> 0]
    /\ tasks = <<>> /\ cut = {} /\ relaxed = FALSE

(* init: assert_units; propagate_all_definitions are the first visits.     *)
AssertUnits ==
    /\ pc = "init"
    /\ \E s \in {FoldLeft(LAMBDA t, a : AssertUnlessConflict(t, a), Current, problem.units)} :
           /\ nodes' = [nodes EXCEPT ![0] = s.n]
           /\ StartAt(0, s, DefSeq)
    /\ UNCHANGED <<problem, parent, nstate, heap, candidates, tasks, task, halves, cut>>

Propagating == pc = "propagating" /\ ~ nodes[at].conflict

(* Fault: a constraint visited at the time of the bound is not visited.    *)
MayPropagateStrictly(c) == since > visited[c]

(* may_propagate                                                           *)
MayPropagate(c) == since >= visited[c]

Visit ==
    /\ Propagating
    /\ todo # <<>>
    /\ todo' = Tail(todo)
    /\ \E s \in {IF MayPropagate(Head(todo)) THEN Propagate(Current, Head(todo)) ELSE Current} :
           /\ nodes' = [nodes EXCEPT ![at] = s.n]
           /\ queue' = s.q /\ clock' = s.t /\ visited' = s.v /\ relaxed' = s.r
    /\ UNCHANGED <<problem, parent, nstate, heap, candidates, tasks, task, pc, at, halves, since, cut>>

(* is_latest_bound *)
IsLatestBound(b) ==
    \A lower \in BOOLEAN : LET o == Own(nodes[at], b.x, lower) IN o = Null \/ o.ts <= b.ts

(* propagate(n, b), propagate_bvar: every constraint of a Boolean variable *)
(* is visited, whatever its timestamp.                                     *)
TakeBound ==
    /\ Propagating
    /\ todo = <<>>
    /\ queue # <<>>
    /\ queue' = Tail(queue)
    /\ LET b == Head(queue)
       IN  IF b.x \in problem.bool THEN todo' = Watchers(b.x) /\ since' = clock
           ELSE IF IsLatestBound(b) THEN todo' = Watchers(b.x) /\ since' = b.ts
           ELSE UNCHANGED <<todo, since>>
    /\ UNCHANGED <<treeVars, task, pc, at, halves, clock, visited, cut, relaxed>>

(* The time limit is looked at before every bound.                         *)
TimeUp ==
    /\ Propagating
    /\ todo = <<>>
    /\ queue # <<>>
    /\ queue' = <<>>
    /\ cut' = cut \cup {at}
    /\ UNCHANGED <<treeVars, task, pc, at, halves, todo, since, clock, visited, relaxed>>

Propagated ==
    /\ pc = "propagating"
    /\ nodes[at].conflict \/ (todo = <<>> /\ queue = <<>>)

(* The node is in conflict, or it goes to the heap.                        *)
Settle ==
    /\ nstate' = [nstate EXCEPT ![at] = IF nodes[at].conflict THEN "unsat" ELSE @]
    /\ heap' = IF nodes[at].conflict THEN heap ELSE heap \cup {at}

RootDone ==
    /\ Propagated
    /\ halves = Null
    /\ Settle
    /\ pc' = IF nodes[at].conflict THEN "refuted" ELSE "creating"
    /\ queue' = <<>> /\ todo' = <<>>
    /\ UNCHANGED <<problem, nodes, parent, candidates, tasks, task, at, halves, since, clock, visited, cut, relaxed>>

(* create_new_task: one turn of its loop.  A refuted parent is known only  *)
(* from a base solver (Partitioner.tla).                                   *)
CreateTask ==
    /\ pc = "creating"
    /\ \E n \in heap :
          /\ heap' = heap \ {n}
          /\ IF Refuted(problem, nodes[n])
             THEN /\ nstate' = [nstate EXCEPT ![n] = "unsat"]
                  /\ UNCHANGED <<task, tasks, pc>>
             ELSE /\ nstate' = [nstate EXCEPT ![n] = "waiting"]
                  /\ tasks' = With(tasks, n, ToTask(problem, nodes[n]))
                  /\ task' = [node |-> n, clauses |-> tasks'[n].clauses, bounds |-> tasks'[n].bounds]
                  /\ pc' = "splitting"
    /\ UNCHANGED <<problem, nodes, parent, candidates, propVars>>

-----------------------------------------------------------------------------
(* split_node.                                                             *)
TaskLits == UNION {ToSet(c) : c \in ToSet(task.clauses)}

(* collect_task_var_info: the variables with an occurrence, through the    *)
(* definitions of those that have one.                                     *)
Occurring ==
    LET direct == {a.x : a \in TaskLits \cup task.bounds} \ problem.bool
        below(X) == UNION {ToSet(problem.defs[x].xs) : x \in X \cap DOMAIN problem.defs}
    IN  direct \cup below(direct) \cup below(below(direct))

Eligible(n) == {x \in Plain(problem) \ problem.bool : x \in Occurring /\ ~ Fixed(n, x)}

(* m_cz: there are negative and positive numbers.                          *)
AcrossZero(n, x) ==
    /\ n.low[x] = Null \/ Lt(n.low[x].val, Zero)
    /\ n.upp[x] = Null \/ Lt(Zero, n.upp[x].val)

(* Fault: a variable without an upper bound is cut below its lower one.    *)
MiddleBeyond(n, x) ==
    LET l == n.low[x]
        u == n.upp[x]
        mid == Times(Ratio(1, 2), Plus(l.val, u.val))
    IN  IF AcrossZero(n, x) THEN Zero
        ELSE IF l = Null THEN Minus(Floor(u.val), Whole(SplitDelta))
        ELSE IF u = Null THEN Minus(Ceil(l.val), Whole(SplitDelta))
        ELSE IF Lt(Whole(10), Minus(u.val, l.val)) THEN Ceil(mid) ELSE mid

Middle(n, x) ==
    LET l == n.low[x]
        u == n.upp[x]
        mid == Times(Ratio(1, 2), Plus(l.val, u.val))
    IN  IF AcrossZero(n, x) THEN Zero
        ELSE IF l = Null THEN Minus(Floor(u.val), Whole(SplitDelta))
        ELSE IF u = Null THEN Plus(Ceil(l.val), Whole(SplitDelta))
        ELSE IF Lt(Whole(10), Minus(u.val, l.val)) THEN Ceil(mid) ELSE mid

(* A random inequality of x in the task, or x <= its middle.               *)
Cuts(n, x) ==
    LET lits == {a \in TaskLits : a.x = x /\ a.kind # "eq"}
    IN  IF lits # {} THEN {Ineq(x, a.val, a.lower, a.open) : a \in lits}
        ELSE {Ineq(x, Middle(n, x), FALSE, FALSE)}

(* Fault: both halves leave out the number at which they meet.             *)
OtherHalfOpen(a) == Ineq(a.x, a.val, ~ a.lower, TRUE)

OtherHalf(a) == Ineq(a.x, a.val, ~ a.lower, ~ a.open)

(* The half of n with the bound a: mk_bound, whatever the bound was.       *)
BeginHalf(n, half, a) ==
    LET b == Normalize(problem, a.x, a.val, a.lower, a.open)
        s0 == [n |-> nodes[n], q |-> <<>>, t |-> clock, v |-> visited,
               r |-> relaxed \/ TooFine(problem, a.x, a.val)]
        s == Made(s0, a.x, b, a.lower)
    IN  /\ nodes' = With(nodes, half, s.n)
        /\ StartAt(half, s, <<>>)
        /\ cut' = IF n \in cut THEN cut \cup {half} ELSE cut

(* The score of a variable (floating-point) is not modelled: any of them.  *)
SplitNode ==
    /\ pc = "splitting"
    /\ Cardinality(DOMAIN nodes) + 2 <= MaxNodes(problem)
    /\ LET n == task.node
           left == Cardinality(DOMAIN nodes)
           known == IF candidates = {} THEN Eligible(nodes[n]) ELSE candidates
       IN  /\ candidates' = known
           /\ \E x \in known \cap Eligible(nodes[n]) : \E a \in Cuts(nodes[n], x) :
                 /\ halves' = [node |-> left + 1, from |-> n, lit |-> OtherHalf(a)]
                 /\ parent' = With(With(parent, left, n), left + 1, n)
                 /\ nstate' = With(With(nstate, left, "unconverted"), left + 1, "unconverted")
                 /\ BeginHalf(n, left, a)
    /\ UNCHANGED <<problem, heap, tasks, task>>

LeftDone ==
    /\ Propagated
    /\ halves # Null
    /\ at < halves.node
    /\ Settle
    /\ BeginHalf(halves.from, halves.node, halves.lit)
    /\ UNCHANGED <<problem, parent, candidates, tasks, task, halves>>

RightDone ==
    /\ Propagated
    /\ halves # Null
    /\ at = halves.node
    /\ Settle
    /\ pc' = "creating"
    /\ task' = Null /\ halves' = Null
    /\ queue' = <<>> /\ todo' = <<>>
    /\ UNCHANGED <<problem, nodes, parent, candidates, tasks, at, since, clock, visited, cut, relaxed>>

NoVariable ==
    /\ pc = "splitting"
    /\ LET n == nodes[task.node]
       IN  (IF candidates = {} THEN Eligible(n) ELSE candidates) \cap Eligible(n) = {}
    /\ task' = Null
    /\ pc' = "creating"
    /\ UNCHANGED <<treeVars, propVars>>

Next ==
    \/ AssertUnits \/ Visit \/ TakeBound \/ TimeUp \/ RootDone
    \/ CreateTask \/ SplitNode \/ LeftDone \/ RightDone \/ NoVariable

Spec == Init /\ [][Next]_vars

-----------------------------------------------------------------------------
(* Properties.                                                             *)
InTask(m, t) ==
    /\ \A a \in t.bounds : Holds(m, a)
    /\ \A c \in ToSet(t.clauses) : \E a \in ToSet(c) : Holds(m, a)

(* The nodes without both their halves.                                    *)
Leaf(n) == Cardinality({k \in DOMAIN nodes : parent[k] = n}) < 2

(* No solution is lost: whatever was propagated, refuted and split, every  *)
(* model of the problem lies in a leaf that is not refuted and, if the     *)
(* leaf is out as a task, in that task.  This is what makes an unsat of    *)
(* all the tasks an unsat of the problem.                                  *)
NoModelLost ==
    \A m \in problem.models : \E n \in DOMAIN nodes :
        /\ Leaf(n) /\ nstate[n] # "unsat" /\ ~ nodes[n].conflict /\ InBox(problem, m, nodes[n])
        /\ n \in DOMAIN tasks => InTask(m, tasks[n])

(* The task of a node has every model of the node, one in its box that     *)
(* satisfies the atoms it has derived: nothing that convert_node_to_task   *)
(* drops, merges or adds excludes one.                                     *)
TaskKeepsModels ==
    \A n \in DOMAIN tasks : \A m \in problem.models :
        (InBox(problem, m, nodes[n]) /\ \A a \in ToSet(nodes[n].up) : Holds(m, a)) => InTask(m, tasks[n])

(* What satisfies a task satisfies the problem, so that a sat of the base  *)
(* solver is one: the clauses left out and the bounds of plain variables,  *)
(* which stand for their unit clauses, lose no constraint.                 *)
TaskHasOnlyModels ==
    \A n \in DOMAIN tasks : \A m \in problem.points :
        InTask(m, tasks[n]) => m \in problem.models

(* The code guarantees it as long as no bound was relaxed.                 *)
TaskHasOnlyModelsUnlessRelaxed == relaxed \/ TaskHasOnlyModels

(* Both halves of a node are smaller than the node: no bound is given up,  *)
(* and one is better, unless a bound was relaxed.                          *)
AtLeast(b, c, lower) ==
    c = Null \/ (b # Null /\ (Less(c.val, b.val, lower) \/ (c.val = b.val /\ (c.open => b.open))))

SplitNarrows ==
    relaxed \/ \A n \in DOMAIN nodes \ {0} :
        LET up == nodes[parent[n]]
            better(x, lower) == ~ AtLeast(Own(up, x, lower), Own(nodes[n], x, lower), lower)
        IN  /\ \A x \in Plain(problem) \ problem.bool, lower \in BOOLEAN :
                  AtLeast(Own(nodes[n], x, lower), Own(up, x, lower), lower)
            /\ \E x \in Plain(problem) \ problem.bool, lower \in BOOLEAN : better(x, lower)

(* A propagation that comes to its end, at a node whose ancestors all came *)
(* to theirs, has missed no clause: each one is satisfied or has two       *)
(* undecided atoms.  This relates the timestamps of bounds and clauses,    *)
(* over all the nodes that share the clauses.                              *)
ClauseDone(n, c) ==
    LET worth(i) == Value(problem, n, c[i])
    IN  \/ \E i \in DOMAIN c : worth(i) = "true"
        \/ Cardinality({i \in DOMAIN c : worth(i) = "undef"}) > 1

PropagationComplete ==
    (Propagated /\ ~ nodes[at].conflict /\ ~ relaxed /\ at \notin cut) =>
        \A i \in DOMAIN problem.clauses : ClauseDone(nodes[at], problem.clauses[i])
=============================================================================
