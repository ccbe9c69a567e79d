---------------------------- MODULE ClusterProofs ----------------------------
(***************************************************************************)
(* Proofs about the leader and its coordinators (Cluster), for any number  *)
(* of coordinators, any input and any set of coordinators that may fail.   *)
(*                                                                         *)
(* The argument.  Unsat is printed when the root of the distributed tree   *)
(* is unsat, so every node is, and nobody works any more.  Sound it is     *)
(* only if a solution is always with somebody the leader still waits for   *)
(* (Carried): in a region, in an instance on its way, in a result not yet  *)
(* heard, or in a node split off for somebody who awaits it.  A split      *)
(* passes it on over four messages, and the steps fit together only        *)
(* because a pair of leader and coordinator has at most one request, one   *)
(* answer and one assignment under way (Protocol), the leader is right     *)
(* about who is idle (Known), promises an idle coordinator once            *)
(* (Promises), and each coordinator at work has an open node to itself     *)
(* (Open).                                                                 *)
(***************************************************************************)
EXTENDS Cluster, SequenceTheorems, WellFoundedInduction, TLAPS

-----------------------------------------------------------------------------
(* What a channel holds.                                                   *)
Has(q, t) == \E i \in 1 .. Len(q) : q[i].type = t
At(q, t, r) == \E i \in 1 .. Len(q) : q[i].type = t /\ q[i].rank = r
Says(q, r) == \E i \in 1 .. Len(q) : q[i].type = "notify_result" /\ q[i].result = r
Before(q, t, u) == \A i, j \in 1 .. Len(q) : q[i].type = t /\ q[j].type = u => i < j
Distinct(q) == \A i, j \in 1 .. Len(q) : q[i].type = q[j].type => i = j
First(q, t) == \A i \in 1 .. Len(q) : q[i].type = t => i = 1
Last(q, t) == \A i \in 1 .. Len(q) : q[i].type = t => i = Len(q)

Orders ==
    [type : {"assign_node"}, rank : Ranks]
    \cup [type : {"request_split", "transfer_node"}, rank : Coords]
    \cup [type : {"terminate_coordinator"}]

Reports ==
    [type : {"split_succeed", "split_failed"}, rank : Coords]
    \cup [type : {"pre_partition_done"}, rank : 0 .. N]
    \cup [type : {"notify_result"}, result : {"sat", "unsat"}]
    \cup [type : {"notify_error"}]

Verdicts == {"unsolved", "unsat"}
Results == {"none", "sat", "unsat", "timeout", "Coordinator-Error", "Leader-Error"}
States == {"idle", "receive", "solving", "prePartition", "handover", "error", "failed", "barrier"}

TypeOK ==
    /\ phase \in {"init", "run", "ended"}
    /\ result \in Results
    /\ tree \in Seq([up : SUBSET Nat, partial : Verdicts, status : Verdicts])
    /\ info \in [Ranks -> {"idle", "solving", "splitting"}]
    /\ assigned \in [Ranks -> Nat]
    /\ idle \in Seq(Coords)
    /\ nextSplit \in Coords
    /\ state \in [Ranks -> States]
    /\ region \in [Ranks -> SUBSET Points]
    /\ splitNode \in [Ranks -> [part : SUBSET Points, target : Coords \cup {NoRank}]]
    /\ source \in [Ranks -> Ranks \cup {NoRank}]
    /\ cut \in Cuts
    /\ toCoord \in [Ranks -> Seq(Orders)]
    /\ toLeader \in [Ranks -> Seq(Reports)]
    /\ instance \in [Ranks \X Ranks -> Seq(SUBSET Points)]

(* Which states and messages belong to which rank.                         *)
Roles ==
    /\ \A c \in Coords :
          /\ state[c] \in {"idle", "receive", "solving", "error", "failed", "barrier"}
          /\ ~ Has(toLeader[c], "pre_partition_done")
    /\ state[Iso] # "receive"
    /\ \A t \in {"request_split", "transfer_node"} : ~ Has(toCoord[Iso], t)
    /\ \A t \in {"split_succeed", "split_failed"} : ~ Has(toLeader[Iso], t)

(* No message is ever in a channel together with another of its type; a    *)
(* transfer_node is the first one, terminate_coordinator the last.         *)
InOrder(q) ==
    Distinct(q) /\ First(q, "transfer_node") /\ Last(q, "terminate_coordinator")
ReportsInOrder(q) ==
    /\ Distinct(q)
    /\ Before(q, "split_succeed", "notify_result")
    /\ Before(q, "pre_partition_done", "notify_error")

Channels ==
    \A c \in Ranks :
        /\ InOrder(toCoord[c]) /\ ReportsInOrder(toLeader[c])
        /\ phase # "ended" => ~ Has(toCoord[c], "terminate_coordinator")

Dead(c) == state[c] \in {"error", "failed"}

(* A coordinator that was assigned a node and has not received it.         *)
Awaits(c, s) ==
    \/ At(toCoord[c], "assign_node", s)
    \/ state[c] = "receive" /\ source[c] = s

(* At most one request for a split is unanswered.                          *)
OneRequest ==
    \A c \in Coords :
        /\ ~ (Has(toCoord[c], "request_split") /\ Has(toLeader[c], "split_failed"))
        /\ ~ (Has(toCoord[c], "request_split") /\ Has(toLeader[c], "split_succeed"))
        /\ ~ (Has(toLeader[c], "split_failed") /\ Has(toLeader[c], "split_succeed"))

(* What a coordinator has said and been told, by where it is.              *)
Conversation ==
    /\ \A c \in Coords :
          /\ Has(toCoord[c], "assign_node") => state[c] = "idle"
          /\ Has(toCoord[c], "assign_node") \/ state[c] = "receive" =>
                /\ ~ Has(toLeader[c], "split_succeed")
                /\ ~ Has(toLeader[c], "notify_result")
                /\ ~ Has(toLeader[c], "notify_error")
          /\ state[c] = "receive" => ~ Has(toCoord[c], "transfer_node") /\ source[c] # NoRank
    /\ \A c \in Ranks :
          /\ Has(toLeader[c], "notify_result") => state[c] \in {"idle", "barrier"}
          /\ Has(toLeader[c], "notify_error") => Dead(c)
    /\ \A c \in Ranks : Dead(c) => c \in Failing

(* A node that was split off is kept until it is sent.                     *)
Kept ==
    \A c, t \in Coords :
        At(toLeader[c], "split_succeed", t) \/ At(toCoord[c], "transfer_node", t)
            => splitNode[c].target = t

(* The isolated coordinator answers with its subnodes once.                *)
Parts == IF cut = <<>> THEN <<Points>> ELSE cut
IsolatedSays ==
    /\ phase = "init" /\ state[Iso] = "prePartition" => toLeader[Iso] = <<>>
    /\ phase # "init" => state[Iso] # "prePartition" /\ ~ Has(toLeader[Iso], "pre_partition_done")
    /\ \A k \in 0 .. N : At(toLeader[Iso], "pre_partition_done", k) =>
          /\ state[Iso] \in {"handover", "error"}
          /\ k = Len(cut)
    /\ region[Iso] = Points

(* Every coordinator that waits for a node has one to come: on its way,    *)
(* kept for it by its sender, or one of the isolated coordinator's parts.  *)
Sent(s, c) == instance[<<s, c>>] # <<>>
WillCome(s, c) ==
    \/ Sent(s, c)
    \/ At(toCoord[s], "transfer_node", c)
    \/ s = Iso /\ state[Iso] = "handover" /\ Has(toCoord[Iso], "assign_node")
               /\ c + 1 \in DOMAIN Parts
    \/ Dead(s)

Served == \A s \in Ranks, c \in Coords : Awaits(c, s) => WillCome(s, c)

(* Nothing else comes, and nothing twice.                                  *)
Expected ==
    /\ \A s, c \in Ranks : Sent(s, c) =>
          c \in Coords /\ Awaits(c, s) /\ Len(instance[<<s, c>>]) = 1
    /\ \A s, c \in Coords : At(toCoord[s], "transfer_node", c) => Awaits(c, s) /\ ~ Sent(s, c)

(* The isolated coordinator's parts are not on their way before it is told *)
(* to send them.                                                           *)
PartsAwaited ==
    /\ Has(toCoord[Iso], "assign_node") =>
          \A c \in Coords : ~ Sent(Iso, c) /\ (c + 1 \in DOMAIN Parts => Awaits(c, Iso))
    /\ state[Iso] \in {"prePartition", "handover"} => \A c \in Coords : ~ Sent(Iso, c)

(* Results are true.                                                       *)
Truthful ==
    \A c \in Ranks : \A r : Says(toLeader[c], r) => r = Truth(region[c])

(* Who has passed the last barrier was told by a leader that has ended.    *)
Stopped ==
    \A c \in Ranks : state[c] \in {"barrier", "failed"} => phase = "ended" /\ toCoord[c] = <<>>

(* Nobody has heard of the other coordinators yet.                         *)
Fresh ==
    phase = "init" =>
        /\ tree = <<TreeNode({1})>>
        /\ toCoord[Iso] = <<>>
        /\ \A c \in Coords :
              state[c] = "idle" /\ toCoord[c] = <<>> /\ toLeader[c] = <<>>
        /\ \A s, c \in Ranks : ~ Sent(s, c)

Protocol ==
    /\ Roles /\ Channels /\ OneRequest /\ Conversation /\ Kept
    /\ IsolatedSays /\ Served /\ Expected /\ PartsAwaited /\ Truthful /\ Fresh /\ Stopped

-----------------------------------------------------------------------------
(* What the leader knows while it waits.                                   *)

(* A coordinator it holds for idle is.                                     *)
IdleKnown ==
    \A c \in Coords : info[c] = "idle" =>
        /\ state[c] = "idle"
        /\ assigned[c] = NoNode
        /\ ~ Has(toCoord[c], "assign_node")
        /\ ~ Has(toLeader[c], "split_succeed")
        /\ ~ Has(toLeader[c], "notify_result")
        /\ ~ Has(toLeader[c], "notify_error")

(* It awaits the answer of one that has split; a request sent to one it    *)
(* has given up as a source meets it idle.                                 *)
SplitKnown ==
    \A c \in Coords : Has(toLeader[c], "split_succeed") =>
        info[c] = "splitting" /\ toCoord[c] = <<>>
RequestKnown ==
    \A c \in Coords : Has(toCoord[c], "request_split") /\ info[c] # "splitting" =>
        state[c] = "idle" /\ Before(toCoord[c], "request_split", "assign_node")

Known == phase = "run" => IdleKnown /\ SplitKnown /\ RequestKnown

(* The target of a split is promised to one source.                        *)
Promise(c, t) ==
    \/ At(toCoord[c], "request_split", t)
    \/ At(toLeader[c], "split_failed", t)
    \/ At(toLeader[c], "split_succeed", t)
Queued(q, t) == \E i \in 1 .. Len(q) : q[i] = t
Once(q) == \A i, j \in 1 .. Len(q) : q[i] = q[j] => i = j
Waiting(t) == Queued(idle, t)

Promises ==
    phase = "run" =>
        /\ Once(idle)
        /\ \A t \in Coords : Waiting(t) => info[t] = "idle"
        /\ \A c, t \in Coords : Promise(c, t) => info[t] = "idle" /\ ~ Waiting(t)
        /\ \A c, d, t \in Coords : Promise(c, t) /\ Promise(d, t) => c = d

(* The distributed tree: a node knows its ancestors, and is unsat only     *)
(* when what was left of it and all its children are.                      *)
ShapeOf(t) ==
    /\ Len(t) > 0
    /\ \A n \in 1 .. Len(t) :
          /\ t[n].up \subseteq 1 .. n
          /\ n \in t[n].up /\ 1 \in t[n].up
          /\ \A a \in t[n].up : t[a].up \subseteq t[n].up
          /\ n # 1 => \E b \in 1 .. n - 1 : n \in ChildrenOf(t, b)

JustifiedOf(t) ==
    \A n \in 1 .. Len(t) : t[n].status = "unsat" =>
        t[n].partial = "unsat" /\ \A k \in ChildrenOf(t, n) : t[k].status = "unsat"

Shape == ShapeOf(tree)
Justified == JustifiedOf(tree)

Open ==
    phase = "run" => \A c \in Coords : info[c] # "idle" =>
        /\ assigned[c] \in 1 .. Len(tree)
        /\ tree[assigned[c]].partial = "unsolved"
        /\ \A d \in Coords \ {c} : assigned[d] # assigned[c]

(* Where a solution is: with a coordinator the leader still waits for.     *)
Comes(s, c, p) ==
    \/ Sent(s, c) /\ p \in instance[<<s, c>>][1]
    \/ At(toCoord[s], "transfer_node", c) /\ p \in splitNode[s].part
    \/ s = Iso /\ state[Iso] = "handover" /\ c + 1 \in DOMAIN Parts /\ p \in Parts[c + 1]
    \/ Dead(s) /\ ~ Sent(s, c)

Carries(c, p) ==
    \/ state[c] = "solving" /\ p \in region[c]
    \/ Has(toLeader[c], "notify_result") /\ p \in region[c]
    \/ Has(toLeader[c], "split_succeed") /\ p \in splitNode[c].part
    \/ Dead(c)
    \/ \E s \in Ranks : Awaits(c, s) /\ Comes(s, c, p)

Carried == phase = "run" => \A p \in SatPoints : \E c \in Coords : Carries(c, p)

ClusterInv ==
    /\ TypeOK /\ Protocol
    /\ Known /\ Promises
    /\ Shape /\ Justified /\ Open
    /\ Carried /\ AnswerSound /\ LeaderNeverFails
Popped(ch, c) == [ch EXCEPT ![c] = Tail(@)]

(* The effect of taking message h from channel q, of adding m to it.       *)
Taken(q, r, h) ==
    /\ Has(q, h.type) /\ At(q, h.type, h.rank)
    /\ \A u, v : Before(q, u, v) => Before(r, u, v)
    /\ \A u, v : Before(q, u, v) /\ v = h.type /\ u # v => ~ Has(q, u)
    /\ \A u : First(q, u) => ~ Has(r, u) /\ First(r, u)
    /\ \A u : Last(q, u) => Last(r, u)
    /\ \A u : Last(q, u) /\ u = h.type => Len(r) = 0
    /\ Distinct(q) =>
          /\ Distinct(r)
          /\ \A u : Has(r, u) <=> Has(q, u) /\ u # h.type
          /\ \A u, x : At(r, u, x) <=> At(q, u, x) /\ u # h.type
          /\ \A x : At(q, h.type, x) => x = h.rank
    /\ \A x : Says(r, x) => Says(q, x)
    /\ h.type = "notify_result" => Says(q, h.result)

Added(q, r, m) ==
    /\ \A u : Has(r, u) <=> Has(q, u) \/ u = m.type
    /\ \A u, x : At(r, u, x) <=> At(q, u, x) \/ (u = m.type /\ x = m.rank)
    /\ Distinct(q) /\ ~ Has(q, m.type) => Distinct(r)
    /\ \A u, v : Before(q, u, v) /\ (u = m.type => ~ Has(q, v) /\ u # v) => Before(r, u, v)
    /\ \A u : First(q, u) /\ (u = m.type => q = <<>>) => First(r, u)
    /\ \A u : ~ Has(q, u) => Last(r, u)
    /\ \A x : Says(r, x) <=> Says(q, x) \/ (m.type = "notify_result" /\ x = m.result)

(* What is left of a channel whose first message was taken.                *)
LEMMA TailFacts ==
    ASSUME NEW S, NEW q \in Seq(S), NEW r \in Seq(S), NEW h,
           Len(q) >= 1, Len(r) = Len(q) - 1, h = q[1], \A i \in 1 .. Len(r) : r[i] = q[i + 1]
    PROVE  Taken(q, r, h)
<1>1. Len(q) \in Nat /\ Len(r) \in Nat
    OBVIOUS
<1>2. Has(q, h.type) /\ At(q, h.type, h.rank)
    <2>1. Has(q, h.type)
        BY <1>1 DEF Has
    <2>2. At(q, h.type, h.rank)
        BY <1>1 DEF At
    <2> QED
        BY <2>1, <2>2
<1>3. ASSUME NEW u, NEW v, Before(q, u, v) PROVE Before(r, u, v)
    <2>1. \A i \in 1 .. Len(r) : i + 1 \in 1 .. Len(q)
        BY <1>1
    <2>2. \A i, j \in 1 .. Len(r) : i + 1 < j + 1 => i < j
        BY <1>1
    <2> QED
        BY <1>3, <2>1, <2>2 DEF Before
<1>4. \A u, v : Before(q, u, v) /\ v = h.type /\ u # v => ~ Has(q, u)
    BY <1>1 DEF Before, Has
<1>5. ASSUME NEW u, First(q, u) PROVE ~ Has(r, u) /\ First(r, u)
    <2>1. \A i \in 1 .. Len(r) : i + 1 \in 1 .. Len(q) /\ r[i].type # u
        BY <1>1, <1>5 DEF First
    <2> QED
        BY <2>1 DEF First, Has
<1>6. ASSUME NEW u, Last(q, u) PROVE Last(r, u) /\ (u = h.type => Len(r) = 0)
    BY <1>1, <1>6 DEF Last
<1>7. ASSUME Distinct(q)
      PROVE  /\ Distinct(r)
             /\ \A u : Has(r, u) <=> Has(q, u) /\ u # h.type
             /\ \A u, x : At(r, u, x) <=> At(q, u, x) /\ u # h.type
             /\ \A x : At(q, h.type, x) => x = h.rank
    <2>1. \A i \in 1 .. Len(r) : i + 1 \in 1 .. Len(q) /\ q[i + 1].type # h.type
        BY <1>1, <1>7 DEF Distinct
    <2>2. Distinct(r)
        BY <1>1, <1>7, <2>1 DEF Distinct
    <2>3. \A i \in 1 .. Len(q) : q[i].type # h.type => i - 1 \in 1 .. Len(r) /\ r[i - 1] = q[i]
        BY <1>1
    <2>4. ASSUME NEW u PROVE Has(r, u) <=> Has(q, u) /\ u # h.type
        <3>1. Has(r, u) => Has(q, u) /\ u # h.type
            BY <1>1, <2>1 DEF Has
        <3>2. Has(q, u) /\ u # h.type => Has(r, u)
            BY <2>3 DEF Has
        <3> QED
            BY <3>1, <3>2
    <2>5. ASSUME NEW u, NEW x PROVE At(r, u, x) <=> At(q, u, x) /\ u # h.type
        <3>1. At(r, u, x) => At(q, u, x) /\ u # h.type
            BY <1>1, <2>1 DEF At
        <3>2. At(q, u, x) /\ u # h.type => At(r, u, x)
            BY <2>3 DEF At
        <3> QED
            BY <3>1, <3>2
    <2>6. \A x : At(q, h.type, x) => x = h.rank
        BY <1>1, <1>7 DEF At, Distinct
    <2> QED
        BY <2>2, <2>4, <2>5, <2>6
<1>8. (\A x : Says(r, x) => Says(q, x)) /\ (h.type = "notify_result" => Says(q, h.result))
    <2>1. \A x : Says(r, x) => Says(q, x)
        BY <1>1 DEF Says
    <2>2. h.type = "notify_result" => Says(q, h.result)
        BY <1>1 DEF Says
    <2> QED
        BY <2>1, <2>2
<1> QED
    BY <1>2, <1>3, <1>4, <1>5, <1>6, <1>7, <1>8 DEF Taken

(* What a channel holds after a message was put at its end.                *)
LEMMA AppendFacts ==
    ASSUME NEW S, NEW q \in Seq(S), NEW r \in Seq(S), NEW m,
           Len(r) = Len(q) + 1, r[Len(r)] = m, \A i \in 1 .. Len(q) : r[i] = q[i]
    PROVE  Added(q, r, m)
<1>1. /\ Len(q) \in Nat /\ Len(r) \in 1 .. Len(r)
      /\ \A i \in 1 .. Len(r) : i = Len(r) \/ i \in 1 .. Len(q)
      /\ \A i \in 1 .. Len(q) : i \in 1 .. Len(r) /\ i < Len(r)
    OBVIOUS
<1>2. ASSUME NEW u PROVE Has(r, u) <=> Has(q, u) \/ u = m.type
    <2>1. Has(r, u) => Has(q, u) \/ u = m.type
        BY <1>1 DEF Has
    <2>2. Has(q, u) => Has(r, u)
        BY <1>1 DEF Has
    <2>3. u = m.type => Has(r, u)
        BY <1>1 DEF Has
    <2> QED
        BY <2>1, <2>2, <2>3
<1>3. ASSUME NEW u, NEW x PROVE At(r, u, x) <=> At(q, u, x) \/ (u = m.type /\ x = m.rank)
    <2>1. At(r, u, x) => At(q, u, x) \/ (u = m.type /\ x = m.rank)
        BY <1>1 DEF At
    <2>2. At(q, u, x) => At(r, u, x)
        BY <1>1 DEF At
    <2>3. u = m.type /\ x = m.rank => At(r, u, x)
        BY <1>1 DEF At
    <2> QED
        BY <2>1, <2>2, <2>3
<1>4. Distinct(q) /\ ~ Has(q, m.type) => Distinct(r)
    BY <1>1 DEF Distinct, Has
<1>5. ASSUME NEW u, NEW v, Before(q, u, v), u = m.type => ~ Has(q, v) /\ u # v
      PROVE  Before(r, u, v)
    BY <1>1, <1>5 DEF Before, Has
<1>6. ASSUME NEW u, First(q, u), u = m.type => q = <<>> PROVE First(r, u)
    <2>1. q = <<>> => Len(r) = 1
        OBVIOUS
    <2> QED
        BY <1>1, <1>6, <2>1 DEF First
<1>7. \A u : ~ Has(q, u) => Last(r, u)
    BY <1>1 DEF Last, Has
<1>8. ASSUME NEW x
      PROVE  Says(r, x) <=> Says(q, x) \/ (m.type = "notify_result" /\ x = m.result)
    <2>1. Says(r, x) => Says(q, x) \/ (m.type = "notify_result" /\ x = m.result)
        BY <1>1 DEF Says
    <2>2. Says(q, x) => Says(r, x)
        BY <1>1 DEF Says
    <2>3. m.type = "notify_result" /\ x = m.result => Says(r, x)
        BY <1>1 DEF Says
    <2> QED
        BY <2>1, <2>2, <2>3
<1> QED
    BY <1>2, <1>3, <1>4, <1>5, <1>6, <1>7, <1>8 DEF Added

LEMMA TakingFacts ==
    ASSUME NEW S, NEW ch \in [Ranks -> Seq(S)], NEW c \in Ranks, ch[c] # <<>>,
           NEW new, new = Popped(ch, c)
    PROVE  /\ new \in [Ranks -> Seq(S)] /\ Head(ch[c]) \in S
           /\ Taken(ch[c], new[c], Head(ch[c]))
           /\ Len(new[c]) = 0 => new[c] = <<>>
           /\ \A d \in Ranks \ {c} : new[d] = ch[d]
<1> DEFINE q == ch[c]
           r == Tail(q)
<1>1. /\ q \in Seq(S) /\ q # <<>>
      /\ new \in [Ranks -> Seq(S)] /\ new[c] = r /\ \A d \in Ranks \ {c} : new[d] = ch[d]
    BY HeadTailProperties DEF Popped
<1>2. /\ Len(q) >= 1 /\ Len(r) = Len(q) - 1
      /\ Head(q) = q[1] /\ Head(q) \in S
      /\ r \in Seq(S)
      /\ \A i \in 1 .. Len(r) : r[i] = q[i + 1]
    BY <1>1, HeadTailProperties, EmptySeq
<1>3. Len(r) = 0 => r = <<>>
    BY <1>2, EmptySeq
<1> DEFINE h == Head(q)
<1> HIDE DEF q, r, h
<1>4. Taken(q, r, h)
    BY <1>1, <1>2, TailFacts DEF h
<1> QED
    BY <1>1, <1>2, <1>3, <1>4, Zenon DEF q, r, h

LEMMA PostFacts ==
    ASSUME NEW S, NEW ch \in [Ranks -> Seq(S)], NEW c \in Ranks, NEW m \in S,
           NEW new, new = Post(ch, c, m)
    PROVE  /\ new \in [Ranks -> Seq(S)]
           /\ Added(ch[c], new[c], m)
           /\ \A d \in Ranks \ {c} : new[d] = ch[d]
<1> DEFINE q == ch[c]
           r == Append(q, m)
<1>1. /\ q \in Seq(S) /\ r \in Seq(S)
      /\ new \in [Ranks -> Seq(S)] /\ new[c] = r /\ \A d \in Ranks \ {c} : new[d] = ch[d]
    BY AppendProperties DEF Post
<1>2. /\ Len(r) = Len(q) + 1
      /\ r[Len(r)] = m
      /\ \A i \in 1 .. Len(q) : r[i] = q[i]
    BY <1>1, AppendProperties
<1> HIDE DEF q, r
<1>3. Added(q, r, m)
    BY <1>1, <1>2, AppendFacts
<1> QED
    BY <1>1, <1>3, Zenon DEF q, r

(* The message at the head of channel c leaves it; m comes into it.        *)
Gone(ch, new, c, t) ==
    /\ \A d \in Ranks : \A u : Has(new[d], u) <=> Has(ch[d], u) /\ ~ (d = c /\ u = t)
    /\ \A d \in Ranks : \A u, x : At(new[d], u, x) <=> At(ch[d], u, x) /\ ~ (d = c /\ u = t)
    /\ \A d \in Ranks : \A x : Says(new[d], x) => Says(ch[d], x)
    /\ \A d \in Ranks : \A u, v : Before(ch[d], u, v) => Before(new[d], u, v)
    /\ \A d \in Ranks \ {c} : new[d] = ch[d]

Come(ch, new, c, m) ==
    /\ \A d \in Ranks : \A u : Has(new[d], u) <=> Has(ch[d], u) \/ (d = c /\ u = m.type)
    /\ \A d \in Ranks : \A u, x :
          At(new[d], u, x) <=> At(ch[d], u, x) \/ (d = c /\ u = m.type /\ x = m.rank)
    /\ \A d \in Ranks : \A x :
          Says(new[d], x) <=> Says(ch[d], x) \/ (d = c /\ m.type = "notify_result" /\ x = m.result)
    /\ \A u, v : Before(ch[c], u, v) /\ (u = m.type => ~ Has(ch[c], v) /\ u # v)
                    => Before(new[c], u, v)
    /\ \A d \in Ranks \ {c} : new[d] = ch[d]

LEMMA HeadGone ==
    ASSUME NEW S, NEW ch \in [Ranks -> Seq(S)], NEW c \in Ranks, ch[c] # <<>>,
           Distinct(ch[c]), NEW new, new = Popped(ch, c)
    PROVE  /\ new \in [Ranks -> Seq(S)] /\ Head(ch[c]) \in S
           /\ Gone(ch, new, c, Head(ch[c]).type)
           /\ Distinct(new[c])
           /\ Taken(ch[c], new[c], Head(ch[c]))
           /\ Len(new[c]) = 0 => new[c] = <<>>
<1> DEFINE h == Head(ch[c])
<1>1. /\ new \in [Ranks -> Seq(S)] /\ h \in S
      /\ Taken(ch[c], new[c], h)
      /\ Len(new[c]) = 0 => new[c] = <<>>
      /\ \A d \in Ranks \ {c} : new[d] = ch[d]
    BY TakingFacts
<1> HIDE DEF h
<1>2. ASSUME NEW d \in Ranks
      PROVE  /\ \A u : Has(new[d], u) <=> Has(ch[d], u) /\ ~ (d = c /\ u = h.type)
             /\ \A u, x : At(new[d], u, x) <=> At(ch[d], u, x) /\ ~ (d = c /\ u = h.type)
             /\ \A x : Says(new[d], x) => Says(ch[d], x)
             /\ \A u, v : Before(ch[d], u, v) => Before(new[d], u, v)
    <2>1. CASE d = c
        BY <1>1, <2>1 DEF Taken
    <2>2. CASE d # c
        BY <1>1, <2>2
    <2> QED
        BY <2>1, <2>2
<1> QED
    BY <1>1, <1>2 DEF Gone, Taken, h

LEMMA PostCome ==
    ASSUME NEW S, NEW ch \in [Ranks -> Seq(S)], NEW c \in Ranks, NEW m \in S,
           NEW new, new = Post(ch, c, m)
    PROVE  /\ new \in [Ranks -> Seq(S)]
           /\ Come(ch, new, c, m)
           /\ Added(ch[c], new[c], m)
<1>1. /\ new \in [Ranks -> Seq(S)]
      /\ Added(ch[c], new[c], m)
      /\ \A d \in Ranks \ {c} : new[d] = ch[d]
    BY PostFacts
<1>2. ASSUME NEW d \in Ranks
      PROVE  /\ \A u : Has(new[d], u) <=> Has(ch[d], u) \/ (d = c /\ u = m.type)
             /\ \A u, x : At(new[d], u, x) <=> At(ch[d], u, x) \/ (d = c /\ u = m.type /\ x = m.rank)
             /\ \A x : Says(new[d], x) <=>
                          Says(ch[d], x) \/ (d = c /\ m.type = "notify_result" /\ x = m.result)
    <2>1. CASE d = c
        BY <1>1, <2>1 DEF Added
    <2>2. CASE d # c
        BY <1>1, <2>2
    <2> QED
        BY <2>1, <2>2
<1> QED
    BY <1>1, <1>2 DEF Come, Added

(* terminate_coordinator was the only message left.                        *)
Emptied(q, r) == r = <<>> /\ \A u : u # "terminate_coordinator" => ~ Has(q, u)

(* The leader's messages to the coordinators.                              *)
LEMMA OrderGone ==
    ASSUME NEW ch \in [Ranks -> Seq(Orders)], \A d \in Ranks : InOrder(ch[d]),
           NEW c \in Ranks, ch[c] # <<>>,
           NEW new, new = Popped(ch, c)
    PROVE  /\ new \in [Ranks -> Seq(Orders)] /\ Head(ch[c]) \in Orders
           /\ Gone(ch, new, c, Head(ch[c]).type)
           /\ \A d \in Ranks : InOrder(new[d])
           /\ Has(ch[c], Head(ch[c]).type)
           /\ At(ch[c], Head(ch[c]).type, Head(ch[c]).rank)
           /\ \A x : At(ch[c], Head(ch[c]).type, x) => x = Head(ch[c]).rank
           /\ Head(ch[c]).type # "transfer_node" => ~ Has(ch[c], "transfer_node")
           /\ Head(ch[c]).type = "terminate_coordinator" => Emptied(ch[c], new[c])
           /\ Head(ch[c]).type = "assign_node" /\ Before(ch[c], "request_split", "assign_node")
                 => ~ Has(ch[c], "request_split")
<1> DEFINE h == Head(ch[c])
<1>1. /\ new \in [Ranks -> Seq(Orders)] /\ h \in Orders
      /\ Gone(ch, new, c, h.type)
      /\ Distinct(new[c])
      /\ Taken(ch[c], new[c], h)
      /\ Len(new[c]) = 0 => new[c] = <<>>
    BY HeadGone DEF InOrder
<1> HIDE DEF h
<1>2. InOrder(ch[c])
    OBVIOUS
<1>3. InOrder(new[c])
    BY <1>1, <1>2 DEF InOrder, Taken
<1>4. ~ Has(new[c], "transfer_node")
    BY <1>1, <1>2 DEF InOrder, Taken
<1>5. ASSUME h.type = "terminate_coordinator"
      PROVE  Emptied(ch[c], new[c])
    <2>1. Len(new[c]) = 0
        BY <1>1, <1>2, <1>5 DEF InOrder, Taken
    <2>2. \A u : ~ Has(new[c], u)
        BY <2>1 DEF Has
    <2> QED
        BY <1>1, <1>2, <1>5, <2>1, <2>2 DEF InOrder, Taken, Emptied
<1>6. \A d \in Ranks : InOrder(new[d])
    BY <1>1, <1>3 DEF Gone
<1>7. /\ Has(ch[c], h.type) /\ At(ch[c], h.type, h.rank)
      /\ \A x : At(ch[c], h.type, x) => x = h.rank
      /\ h.type # "transfer_node" => ~ Has(ch[c], "transfer_node")
      /\ h.type = "assign_node" /\ Before(ch[c], "request_split", "assign_node")
            => ~ Has(ch[c], "request_split")
    BY <1>1, <1>2, <1>4 DEF InOrder, Taken
<1> QED
    BY <1>1, <1>5, <1>6, <1>7 DEF h

LEMMA OrderCome ==
    ASSUME NEW ch \in [Ranks -> Seq(Orders)], \A d \in Ranks : InOrder(ch[d]),
           NEW c \in Ranks, NEW m \in Orders, ~ Has(ch[c], m.type),
           m.type = "transfer_node" => ch[c] = <<>>, 
           ~ Has(ch[c], "terminate_coordinator"),
           NEW new, new = Post(ch, c, m)
    PROVE  /\ new \in [Ranks -> Seq(Orders)]
           /\ Come(ch, new, c, m)
           /\ \A d \in Ranks : InOrder(new[d])
<1>1. /\ new \in [Ranks -> Seq(Orders)]
      /\ Come(ch, new, c, m)
      /\ Added(ch[c], new[c], m)
    BY PostCome
<1>2. Distinct(new[c]) /\ First(new[c], "transfer_node") /\ Last(new[c], "terminate_coordinator")
    BY <1>1 DEF InOrder, Added
<1> QED
    BY <1>1, <1>2 DEF InOrder, Come

(* The coordinators' messages to the leader.                               *)
LEMMA ReportGone ==
    ASSUME NEW ch \in [Ranks -> Seq(Reports)], \A d \in Ranks : ReportsInOrder(ch[d]),
           NEW c \in Ranks, ch[c] # <<>>,
           NEW new, new = Popped(ch, c)
    PROVE  /\ new \in [Ranks -> Seq(Reports)] /\ Head(ch[c]) \in Reports
           /\ Gone(ch, new, c, Head(ch[c]).type)
           /\ \A d \in Ranks : ReportsInOrder(new[d])
           /\ Has(ch[c], Head(ch[c]).type)
           /\ At(ch[c], Head(ch[c]).type, Head(ch[c]).rank)
           /\ \A x : At(ch[c], Head(ch[c]).type, x) => x = Head(ch[c]).rank
           /\ Head(ch[c]).type = "notify_result" =>
                 Says(ch[c], Head(ch[c]).result) /\ ~ Has(ch[c], "split_succeed")
           /\ Head(ch[c]).type = "notify_error" => ~ Has(ch[c], "pre_partition_done")
<1> DEFINE h == Head(ch[c])
<1>1. /\ new \in [Ranks -> Seq(Reports)] /\ h \in Reports
      /\ Gone(ch, new, c, h.type)
      /\ Distinct(new[c])
      /\ Taken(ch[c], new[c], h)
    BY HeadGone DEF ReportsInOrder
<1> HIDE DEF h
<1>2. ReportsInOrder(ch[c])
    OBVIOUS
<1>3. ReportsInOrder(new[c])
    BY <1>1, <1>2 DEF ReportsInOrder, Taken
<1>4. \A d \in Ranks : ReportsInOrder(new[d])
    BY <1>1, <1>3 DEF Gone
<1>5. /\ Has(ch[c], h.type) /\ At(ch[c], h.type, h.rank)
      /\ \A x : At(ch[c], h.type, x) => x = h.rank
      /\ h.type = "notify_result" => Says(ch[c], h.result) /\ ~ Has(ch[c], "split_succeed")
      /\ h.type = "notify_error" => ~ Has(ch[c], "pre_partition_done")
    BY <1>1, <1>2 DEF ReportsInOrder, Taken
<1> QED
    BY <1>1, <1>4, <1>5 DEF h

LEMMA ReportCome ==
    ASSUME NEW ch \in [Ranks -> Seq(Reports)], \A d \in Ranks : ReportsInOrder(ch[d]),
           NEW c \in Ranks, NEW m \in Reports, ~ Has(ch[c], m.type),
           m.type = "split_succeed" => ~ Has(ch[c], "notify_result"),
           m.type = "pre_partition_done" => ~ Has(ch[c], "notify_error"),
           NEW new, new = Post(ch, c, m)
    PROVE  /\ new \in [Ranks -> Seq(Reports)]
           /\ Come(ch, new, c, m)
           /\ \A d \in Ranks : ReportsInOrder(new[d])
<1>1. /\ new \in [Ranks -> Seq(Reports)]
      /\ Come(ch, new, c, m)
      /\ Added(ch[c], new[c], m)
    BY PostCome
<1>2. /\ Distinct(new[c])
      /\ Before(new[c], "split_succeed", "notify_result")
      /\ Before(new[c], "pre_partition_done", "notify_error")
    BY <1>1 DEF ReportsInOrder, Added
<1> QED
    BY <1>1, <1>2 DEF ReportsInOrder, Come

-----------------------------------------------------------------------------
(* The steps of a coordinator.                                             *)
LEMMA TakesFacts ==
    ASSUME TypeOK, Channels, NEW c \in Ranks, NEW t, Takes(c, t)
    PROVE  /\ state[c] \in {"idle", "solving"} /\ toCoord[c] # <<>>
           /\ Head(toCoord[c]) \in Orders /\ Head(toCoord[c]).type = t
           /\ toCoord' \in [Ranks -> Seq(Orders)]
           /\ Gone(toCoord, toCoord', c, t)
           /\ \A d \in Ranks : InOrder(toCoord'[d])
           /\ Has(toCoord[c], t) /\ At(toCoord[c], t, Head(toCoord[c]).rank)
           /\ \A x : At(toCoord[c], t, x) => x = Head(toCoord[c]).rank
           /\ t # "transfer_node" => ~ Has(toCoord[c], "transfer_node")
           /\ t = "assign_node" /\ Before(toCoord[c], "request_split", "assign_node")
                 => ~ Has(toCoord[c], "request_split")
<1>1. /\ state[c] \in {"idle", "solving"} /\ toCoord[c] # <<>> /\ Head(toCoord[c]).type = t
      /\ toCoord' = Popped(toCoord, c)
    BY DEF Takes, Popped
<1>2. toCoord \in [Ranks -> Seq(Orders)] /\ \A d \in Ranks : InOrder(toCoord[d])
    BY DEF TypeOK, Channels
<1> QED
    BY <1>1, <1>2, OrderGone

LEMMA TellFacts ==
    ASSUME TypeOK, Channels, NEW c \in Ranks, NEW m \in Reports, Tell(c, m),
           ~ Has(toLeader[c], m.type),
           m.type = "split_succeed" => ~ Has(toLeader[c], "notify_result"),
           m.type = "pre_partition_done" => ~ Has(toLeader[c], "notify_error")
    PROVE  /\ toLeader' \in [Ranks -> Seq(Reports)]
           /\ Come(toLeader, toLeader', c, m)
           /\ \A d \in Ranks : ReportsInOrder(toLeader'[d])
<1>1. toLeader' = Post(toLeader, c, m)
    BY DEF Tell, Post
<1>2. toLeader \in [Ranks -> Seq(Reports)] /\ \A d \in Ranks : ReportsInOrder(toLeader[d])
    BY DEF TypeOK, Channels
<1> QED
    BY <1>1, <1>2, ReportCome

LEMMA HeardFacts ==
    ASSUME TypeOK, Channels, NEW c \in Ranks, NEW t, Hears(c, t)
    PROVE  /\ phase = "run" \/ (phase = "init" /\ c = Iso)
           /\ toLeader[c] # <<>>
           /\ Head(toLeader[c]) \in Reports /\ Head(toLeader[c]).type = t
           /\ toLeader' \in [Ranks -> Seq(Reports)]
           /\ Gone(toLeader, toLeader', c, t)
           /\ \A d \in Ranks : ReportsInOrder(toLeader'[d])
           /\ Has(toLeader[c], t) /\ At(toLeader[c], t, Head(toLeader[c]).rank)
           /\ \A x : At(toLeader[c], t, x) => x = Head(toLeader[c]).rank
           /\ t = "notify_result" =>
                 Says(toLeader[c], Head(toLeader[c]).result) /\ ~ Has(toLeader[c], "split_succeed")
           /\ t = "notify_error" => ~ Has(toLeader[c], "pre_partition_done")
<1>1. /\ phase = "run" \/ (phase = "init" /\ c = Iso)
      /\ toLeader[c] # <<>> /\ Head(toLeader[c]).type = t
      /\ toLeader' = Popped(toLeader, c)
    BY DEF Hears, Popped
<1>2. toLeader \in [Ranks -> Seq(Reports)] /\ \A d \in Ranks : ReportsInOrder(toLeader[d])
    BY DEF TypeOK, Channels
<1> QED
    BY <1>1, <1>2, ReportGone

LEMMA RankFacts == Coords \subseteq Ranks /\ Iso \in Ranks /\ Iso \notin Coords /\ Ranks = Coords \cup {Iso}
BY ClusterConstants DEF Coords, Ranks, Iso

(* Having a message, and which.                                            *)
LEMMA AtHas == \A q, t, r : At(q, t, r) => Has(q, t)
BY DEF At, Has

LEMMA LeaderFrame ==
    ASSUME Shape, Justified, Open, AnswerSound, LeaderNeverFails, UNCHANGED leaderVars
    PROVE  Shape' /\ Justified' /\ Open' /\ AnswerSound' /\ LeaderNeverFails'
<1>1. Shape' /\ Justified'
    BY DEF Shape, Justified, ShapeOf, JustifiedOf, leaderVars
<1>2. Open'
    BY DEF Open, leaderVars
<1> QED
    BY <1>1, <1>2 DEF AnswerSound, LeaderNeverFails, leaderVars

LEMMA SplitFailsStep ==
    ASSUME ClusterInv, NEW c \in Coords, SplitFails(c)
    PROVE  ClusterInv'
<1> DEFINE t == Head(toCoord[c]).rank
<1> USE DEF ClusterInv, Protocol
<1>1. /\ state[c] \in {"idle", "solving"} /\ toCoord[c] # <<>>
      /\ toCoord' \in [Ranks -> Seq(Orders)]
      /\ Gone(toCoord, toCoord', c, "request_split")
      /\ \A d \in Ranks : InOrder(toCoord'[d])
      /\ Has(toCoord[c], "request_split") /\ At(toCoord[c], "request_split", t)
      /\ \A x : At(toCoord[c], "request_split", x) => x = t
      /\ t \in Coords
    <2>1. Takes(c, "request_split")
        BY DEF SplitFails
    <2>2. Head(toCoord[c]) \in Orders /\ Head(toCoord[c]).type = "request_split"
        BY <2>1, TakesFacts, RankFacts
    <2>3. t \in Coords
        BY <2>2 DEF Orders
    <2> QED
        BY <2>1, <2>3, TakesFacts, RankFacts
<1>2. UNCHANGED <<leaderVars, coordVars, instance>>
    BY DEF SplitFails
<1>3. ~ Has(toLeader[c], "split_failed") /\ ~ Has(toLeader[c], "split_succeed")
    BY <1>1 DEF OneRequest
<1>4. /\ toLeader' \in [Ranks -> Seq(Reports)]
      /\ Come(toLeader, toLeader', c, MsgRank("split_failed", t))
      /\ \A d \in Ranks : ReportsInOrder(toLeader'[d])
    <2>1. MsgRank("split_failed", t) \in Reports /\ MsgRank("split_failed", t).type = "split_failed"
        BY <1>1 DEF MsgRank, Reports
    <2>2. Tell(c, MsgRank("split_failed", t))
        BY DEF SplitFails
    <2> QED
        BY <1>3, <2>1, <2>2, TellFacts, RankFacts
<1>5. /\ \A d \in Ranks : \A u : Has(toCoord'[d], u) <=> Has(toCoord[d], u) /\ ~ (d = c /\ u = "request_split")
      /\ \A d \in Ranks : \A u, x : At(toCoord'[d], u, x) <=> At(toCoord[d], u, x) /\ ~ (d = c /\ u = "request_split")
      /\ \A d \in Ranks : \A u, v : Before(toCoord[d], u, v) => Before(toCoord'[d], u, v)
      /\ \A d \in Ranks \ {c} : toCoord'[d] = toCoord[d]
    BY <1>1 DEF Gone
<1>6. /\ \A d \in Ranks : \A u : Has(toLeader'[d], u) <=> Has(toLeader[d], u) \/ (d = c /\ u = "split_failed")
      /\ \A d \in Ranks : \A u, x : At(toLeader'[d], u, x) <=> At(toLeader[d], u, x) \/ (d = c /\ u = "split_failed" /\ x = t)
      /\ \A d \in Ranks : \A x : Says(toLeader'[d], x) <=> Says(toLeader[d], x)
      /\ \A d \in Ranks \ {c} : toLeader'[d] = toLeader[d]
    BY <1>4 DEF Come, MsgRank
<1> USE RankFacts
<1> TypeOK'
    BY <1>1, <1>2, <1>4 DEF TypeOK, leaderVars, coordVars
<1> Roles'
    BY <1>2, <1>5, <1>6 DEF Roles, coordVars
<1> Channels'
    BY <1>1, <1>2, <1>4, <1>5 DEF Channels, leaderVars
<1> OneRequest'
    BY <1>3, <1>5, <1>6 DEF OneRequest
<1> Conversation'
    BY <1>2, <1>5, <1>6 DEF Conversation, coordVars, Dead
<1> Kept'
    BY <1>2, <1>5, <1>6 DEF Kept, coordVars
<1> IsolatedSays'
    BY <1>2, <1>5, <1>6 DEF IsolatedSays, coordVars, leaderVars
<1>7. /\ \A d \in Coords, s \in Ranks : Awaits(d, s)' <=> Awaits(d, s)
      /\ \A d \in Ranks, s \in Ranks : Sent(s, d)' <=> Sent(s, d)
      /\ \A s \in Ranks : Dead(s)' <=> Dead(s)
      /\ Parts' = Parts
    BY <1>2, <1>5 DEF Awaits, Sent, Dead, Parts, coordVars
<1> Served'
    BY <1>2, <1>5, <1>7 DEF Served, WillCome, coordVars
<1> Expected'
    BY <1>2, <1>5, <1>7 DEF Expected
<1> PartsAwaited'
    BY <1>2, <1>5, <1>7 DEF PartsAwaited, coordVars
<1> Truthful'
    BY <1>2, <1>5, <1>6 DEF Truthful, coordVars
<1> Fresh'
    BY <1>1, <1>2, <1>5, <1>6 DEF Fresh, coordVars, leaderVars, Sent
<1> Stopped'
    BY <1>1, <1>2, <1>5, <1>6 DEF Stopped, coordVars, leaderVars
<1> Known'
    <2> SUFFICES ASSUME phase = "run" PROVE IdleKnown' /\ SplitKnown' /\ RequestKnown'
        BY <1>2 DEF Known, leaderVars
    <2> IdleKnown /\ SplitKnown /\ RequestKnown
        BY DEF Known
    <2>1. IdleKnown'
        BY <1>2, <1>5, <1>6 DEF IdleKnown, coordVars, leaderVars
    <2>2. SplitKnown'
        BY <1>1, <1>2, <1>5, <1>6 DEF SplitKnown, leaderVars
    <2>3. RequestKnown'
        BY <1>2, <1>5 DEF RequestKnown, coordVars, leaderVars
    <2> QED
        BY <2>1, <2>2, <2>3
<1> Promises'
    <2>1. \A d \in Coords : \A x : Promise(d, x)' <=> Promise(d, x)
        BY <1>1, <1>5, <1>6 DEF Promise
    <2> QED
        BY <1>2, <2>1 DEF Promises, Waiting, leaderVars
<1> Carried'
    <2>0. \A s \in Ranks, d \in Coords : \A p : Comes(s, d, p) => Comes(s, d, p)'
        BY <1>2, <1>5, <1>7 DEF Comes, coordVars
    <2>1. \A d \in Coords : \A p : Carries(d, p) => Carries(d, p)'
        BY <1>2, <1>6, <1>7, <2>0 DEF Carries, coordVars
    <2> QED
        BY <1>2, <2>1 DEF Carried, leaderVars
<1> QED
    BY <1>2, LeaderFrame

LEMMA EmptyOrders ==
    ASSUME NEW q \in Seq(Orders), \A u : ~ Has(q, u)
    PROVE  q = <<>>
<1>1. Len(q) \in Nat
    OBVIOUS
<1>2. ASSUME Len(q) # 0 PROVE FALSE
    <2>1. 1 \in 1 .. Len(q)
        BY <1>1, <1>2
    <2>2. Has(q, q[1].type)
        BY <2>1 DEF Has
    <2> QED
        BY <2>2
<1> QED
    BY <1>2, EmptySeq

LEMMA OrderTypes == \A q \in Seq(Orders) : \A u : Has(q, u) =>
    u \in {"assign_node", "request_split", "transfer_node", "terminate_coordinator"}
BY DEF Has, Orders

LEMMA SaysHas == \A q, x : Says(q, x) => Has(q, "notify_result")
BY DEF Says, Has

LEMMA SplitSucceedsStep ==
    ASSUME ClusterInv, NEW c \in Coords, SplitSucceeds(c)
    PROVE  ClusterInv'
<1> DEFINE t == Head(toCoord[c]).rank
<1> USE DEF ClusterInv, Protocol
<1> USE RankFacts
<1>1. /\ toCoord[c] # <<>>
      /\ toCoord' \in [Ranks -> Seq(Orders)]
      /\ Gone(toCoord, toCoord', c, "request_split")
      /\ \A d \in Ranks : InOrder(toCoord'[d])
      /\ Has(toCoord[c], "request_split") /\ At(toCoord[c], "request_split", t)
      /\ \A x : At(toCoord[c], "request_split", x) => x = t
      /\ ~ Has(toCoord[c], "transfer_node")
      /\ t \in Coords
    <2>1. Takes(c, "request_split")
        BY DEF SplitSucceeds
    <2>2. Head(toCoord[c]) \in Orders /\ Head(toCoord[c]).type = "request_split"
        BY <2>1, TakesFacts
    <2>3. t \in Coords
        BY <2>2 DEF Orders
    <2> QED
        BY <2>1, <2>3, TakesFacts
<1>2. /\ UNCHANGED <<leaderVars, state, source, cut, instance>>
      /\ state[c] = "solving"
    BY DEF SplitSucceeds
<1>3. PICK part \in SUBSET region[c] :
          /\ splitNode' = [splitNode EXCEPT ![c] = [part |-> part, target |-> t]]
          /\ region' = [region EXCEPT ![c] = @ \ part]
    BY DEF SplitSucceeds
<1>4. /\ splitNode'[c].part = part /\ splitNode'[c].target = t
      /\ \A d \in Ranks \ {c} : splitNode'[d] = splitNode[d] /\ region'[d] = region[d]
      /\ region'[c] = region[c] \ part
    BY <1>3 DEF TypeOK
<1>5. /\ ~ Has(toLeader[c], "split_failed") /\ ~ Has(toLeader[c], "split_succeed")
      /\ ~ Has(toLeader[c], "notify_result")
      /\ ~ Has(toCoord[c], "assign_node")
    BY <1>1, <1>2 DEF OneRequest, Conversation
<1>6. /\ toLeader' \in [Ranks -> Seq(Reports)]
      /\ Come(toLeader, toLeader', c, MsgRank("split_succeed", t))
      /\ \A d \in Ranks : ReportsInOrder(toLeader'[d])
    <2>1. MsgRank("split_succeed", t) \in Reports /\ MsgRank("split_succeed", t).type = "split_succeed"
        BY <1>1 DEF MsgRank, Reports
    <2>2. Tell(c, MsgRank("split_succeed", t))
        BY DEF SplitSucceeds
    <2> QED
        BY <1>5, <2>1, <2>2, TellFacts
<1>7. /\ \A d \in Coords, s \in Ranks : Awaits(d, s)' <=> Awaits(d, s)
      /\ \A d \in Ranks, s \in Ranks : Sent(s, d)' <=> Sent(s, d)
      /\ \A s \in Ranks : Dead(s)' <=> Dead(s)
      /\ Parts' = Parts
    BY <1>1, <1>2 DEF Gone, Awaits, Sent, Dead, Parts
<1> TypeOK'
    BY <1>1, <1>2, <1>3, <1>6 DEF TypeOK, leaderVars
<1> Roles'
    BY <1>1, <1>2, <1>6 DEF Gone, Come, MsgRank, Roles
<1> Channels'
    BY <1>1, <1>2, <1>6 DEF Gone, Channels, leaderVars
<1> OneRequest'
    BY <1>1, <1>5, <1>6 DEF Gone, Come, MsgRank, OneRequest
<1> Conversation'
    BY <1>1, <1>2, <1>5, <1>6 DEF Gone, Come, MsgRank, Conversation, Dead
<1> Kept'
    <2>1. ~ At(toLeader[c], "split_succeed", t) /\ \A x : ~ At(toCoord[c], "transfer_node", x)
        BY <1>1, <1>5, AtHas
    <2>2. \A x : At(toLeader'[c], "split_succeed", x) => x = t
        BY <1>5, <1>6, AtHas DEF Come, MsgRank
    <2>3. \A x : ~ At(toCoord'[c], "transfer_node", x)
        BY <1>1, <2>1 DEF Gone
    <2>4. \A d \in Coords \ {c} : toLeader'[d] = toLeader[d] /\ toCoord'[d] = toCoord[d]
        BY <1>1, <1>6 DEF Gone, Come
    <2> QED
        BY <1>4, <2>2, <2>3, <2>4 DEF Kept
<1> IsolatedSays'
    BY <1>1, <1>2, <1>4, <1>6 DEF Gone, Come, MsgRank, IsolatedSays, leaderVars
<1> Served'
    BY <1>1, <1>2, <1>7 DEF Gone, Served, WillCome
<1> Expected'
    BY <1>1, <1>2, <1>7 DEF Gone, Expected
<1> PartsAwaited'
    BY <1>1, <1>2, <1>7 DEF Gone, PartsAwaited
<1> Truthful'
    <2>1. \A d \in Ranks : \A x : Says(toLeader'[d], x) => Says(toLeader[d], x) /\ d # c
        BY <1>5, <1>6, SaysHas DEF Come, MsgRank
    <2> QED
        BY <1>4, <2>1 DEF Truthful, Truth
<1> Fresh'
    BY <1>1, <1>2 DEF Fresh, leaderVars
<1> Stopped'
    BY <1>1, <1>2 DEF Gone, Stopped, leaderVars
<1> Known'
    <2> SUFFICES ASSUME phase = "run" PROVE IdleKnown' /\ SplitKnown' /\ RequestKnown'
        BY <1>2 DEF Known, leaderVars
    <2> IdleKnown /\ SplitKnown /\ RequestKnown
        BY DEF Known
    <2>1. IdleKnown'
        BY <1>1, <1>2, <1>6 DEF Gone, Come, MsgRank, IdleKnown, leaderVars
    <2>2. toCoord'[c] = <<>>
        <3>1. ~ Has(toCoord[c], "terminate_coordinator")
            BY DEF Channels
        <3>2. \A u : ~ Has(toCoord'[c], u)
            <4>1. toCoord[c] \in Seq(Orders)
                BY DEF TypeOK
            <4>2. \A u : Has(toCoord[c], u) => u = "request_split"
                BY <1>1, <1>5, <3>1, <4>1, OrderTypes
            <4> QED
                BY <1>1, <4>2 DEF Gone
        <3> QED
            BY <1>1, <3>2, EmptyOrders
    <2>3. info[c] = "splitting"
        BY <1>1, <1>2 DEF RequestKnown
    <2>4. SplitKnown'
        BY <1>1, <1>2, <1>6, <2>2, <2>3 DEF Gone, Come, MsgRank, SplitKnown, leaderVars
    <2>5. RequestKnown'
        BY <1>1, <1>2 DEF Gone, RequestKnown, leaderVars
    <2> QED
        BY <2>1, <2>4, <2>5
<1> Promises'
    <2>1. \A d \in Coords : \A x : Promise(d, x)' <=> Promise(d, x)
        BY <1>1, <1>6 DEF Gone, Come, MsgRank, Promise
    <2> QED
        BY <1>2, <2>1 DEF Promises, Waiting, leaderVars
<1> Carried'
    <2>1. \A s \in Ranks, d \in Coords : \A p : Comes(s, d, p) => Comes(s, d, p)'
        BY <1>1, <1>2, <1>4, <1>7, AtHas DEF Gone, Comes
    <2>2. \A d \in Coords : \A p : Carries(d, p) => Carries(d, p)'
        BY <1>2, <1>4, <1>5, <1>6, <1>7, <2>1 DEF Come, MsgRank, Carries
    <2> QED
        BY <1>2, <2>2 DEF Carried, leaderVars
<1> QED
    BY <1>2, LeaderFrame

(* A node put on the way, where none was, and one taken.                   *)
WithInstance(ins, c, t, part) == [ins EXCEPT ![<<c, t>>] = Append(@, part)]
WithoutInstance(ins, s, c) == [ins EXCEPT ![<<s, c>>] = Tail(@)]

OnTheWay(ins, new, c, t, part) ==
    /\ new \in [Ranks \X Ranks -> Seq(SUBSET Points)]
    /\ new[<<c, t>>] # <<>> /\ Len(new[<<c, t>>]) = 1 /\ new[<<c, t>>][1] = part
    /\ \A s, d \in Ranks : ~ (s = c /\ d = t) => new[<<s, d>>] = ins[<<s, d>>]

Arrived(ins, new, s, c) ==
    /\ new \in [Ranks \X Ranks -> Seq(SUBSET Points)]
    /\ new[<<s, c>>] = <<>>
    /\ Head(ins[<<s, c>>]) = ins[<<s, c>>][1] /\ Head(ins[<<s, c>>]) \in SUBSET Points
    /\ \A a, d \in Ranks : ~ (a = s /\ d = c) => new[<<a, d>>] = ins[<<a, d>>]

LEMMA InstanceSent ==
    ASSUME NEW ins \in [Ranks \X Ranks -> Seq(SUBSET Points)], NEW part \in SUBSET Points,
           NEW c \in Ranks, NEW t \in Ranks, ins[<<c, t>>] = <<>>,
           NEW new, new = WithInstance(ins, c, t, part)
    PROVE  OnTheWay(ins, new, c, t, part)
<1>1. Append(<<>>, part) = <<part>> /\ <<part>> \in Seq(SUBSET Points)
    OBVIOUS
<1>2. new[<<c, t>>] = <<part>>
    BY <1>1 DEF WithInstance
<1>3. new \in [Ranks \X Ranks -> Seq(SUBSET Points)]
    BY <1>1 DEF WithInstance
<1>4. \A s, d \in Ranks : ~ (s = c /\ d = t) => new[<<s, d>>] = ins[<<s, d>>]
    BY DEF WithInstance
<1> QED
    BY <1>2, <1>3, <1>4 DEF OnTheWay

LEMMA InstanceTaken ==
    ASSUME NEW ins \in [Ranks \X Ranks -> Seq(SUBSET Points)],
           NEW s \in Ranks, NEW c \in Ranks,
           ins[<<s, c>>] # <<>>, Len(ins[<<s, c>>]) = 1,
           NEW new, new = WithoutInstance(ins, s, c)
    PROVE  Arrived(ins, new, s, c)
<1> DEFINE q == ins[<<s, c>>]
<1>1. q \in Seq(SUBSET Points) /\ q # <<>> /\ Len(q) = 1
    OBVIOUS
<1>2. Tail(q) = <<>> /\ Head(q) = q[1] /\ Head(q) \in SUBSET Points /\ Tail(q) \in Seq(SUBSET Points)
    <2> HIDE DEF q
    <2>2. Tail(q) \in Seq(SUBSET Points) /\ Len(Tail(q)) = 0 /\ Head(q) \in SUBSET Points
        BY <1>1, HeadTailProperties
    <2>3. Head(q) = q[1]
        BY <1>1
    <2> QED
        BY <2>2, <2>3, EmptySeq
<1>3. new \in [Ranks \X Ranks -> Seq(SUBSET Points)] /\ new[<<s, c>>] = Tail(q)
    BY <1>2 DEF WithoutInstance
<1>4. \A a, d \in Ranks : ~ (a = s /\ d = c) => new[<<a, d>>] = ins[<<a, d>>]
    BY DEF WithoutInstance
<1> QED
    BY <1>2, <1>3, <1>4 DEF Arrived

LEMMA TransferStep ==
    ASSUME ClusterInv, NEW c \in Coords, Transfer(c)
    PROVE  ClusterInv'
<1> DEFINE t == Head(toCoord[c]).rank
<1> USE DEF ClusterInv, Protocol
<1> USE RankFacts
<1>1. /\ state[c] \in {"idle", "solving"} /\ toCoord[c] # <<>>
      /\ toCoord' \in [Ranks -> Seq(Orders)]
      /\ Gone(toCoord, toCoord', c, "transfer_node")
      /\ \A d \in Ranks : InOrder(toCoord'[d])
      /\ Has(toCoord[c], "transfer_node") /\ At(toCoord[c], "transfer_node", t)
      /\ \A x : At(toCoord[c], "transfer_node", x) => x = t
      /\ t \in Coords
    <2>1. Takes(c, "transfer_node")
        BY DEF Transfer
    <2>2. Head(toCoord[c]) \in Orders /\ Head(toCoord[c]).type = "transfer_node"
        BY <2>1, TakesFacts
    <2>3. t \in Coords
        BY <2>2 DEF Orders
    <2> QED
        BY <2>1, <2>3, TakesFacts
<1>2. UNCHANGED <<leaderVars, coordVars, toLeader>>
    BY DEF Transfer
<1>3. Awaits(t, c) /\ ~ Sent(c, t)
    BY <1>1 DEF Expected
<1>4. /\ instance' \in [Ranks \X Ranks -> Seq(SUBSET Points)]
      /\ instance'[<<c, t>>] # <<>> /\ Len(instance'[<<c, t>>]) = 1
      /\ instance'[<<c, t>>][1] = splitNode[c].part
      /\ \A s, d \in Ranks : ~ (s = c /\ d = t) => instance'[<<s, d>>] = instance[<<s, d>>]
    <2>1. instance' = WithInstance(instance, c, t, splitNode[c].part)
        BY DEF Transfer, WithInstance
    <2>2. splitNode[c].part \in SUBSET Points /\ instance \in [Ranks \X Ranks -> Seq(SUBSET Points)]
        BY DEF TypeOK
    <2>3. instance[<<c, t>>] = <<>> /\ c \in Ranks /\ t \in Ranks
        BY <1>1, <1>3 DEF Sent
    <2>4. OnTheWay(instance, instance', c, t, splitNode[c].part)
        BY <2>1, <2>2, <2>3, InstanceSent
    <2> QED
        BY <2>4 DEF OnTheWay
<1>5. /\ \A d \in Coords, s \in Ranks : Awaits(d, s)' <=> Awaits(d, s)
      /\ \A d \in Ranks, s \in Ranks : Sent(s, d)' <=> Sent(s, d) \/ (s = c /\ d = t)
      /\ \A s \in Ranks : Dead(s)' <=> Dead(s)
      /\ Parts' = Parts
    <2>1. \A d \in Ranks, s \in Ranks : Sent(s, d)' <=> Sent(s, d) \/ (s = c /\ d = t)
        BY <1>4 DEF Sent
    <2> QED
        BY <1>1, <1>2, <2>1 DEF Gone, Awaits, Dead, Parts, coordVars
<1> TypeOK'
    BY <1>1, <1>2, <1>4 DEF TypeOK, leaderVars, coordVars
<1> Roles'
    BY <1>1, <1>2 DEF Gone, Roles, coordVars
<1> Channels'
    BY <1>1, <1>2 DEF Gone, Channels, leaderVars
<1> OneRequest'
    BY <1>1, <1>2 DEF Gone, OneRequest
<1> Conversation'
    BY <1>1, <1>2 DEF Gone, Conversation, Dead, coordVars
<1> Kept'
    BY <1>1, <1>2 DEF Gone, Kept, coordVars
<1> IsolatedSays'
    BY <1>1, <1>2 DEF Gone, IsolatedSays, leaderVars, coordVars
<1> Served'
    BY <1>1, <1>2, <1>5 DEF Gone, Served, WillCome, coordVars
<1> Expected'
    <2>1. \A s, d \in Ranks : Sent(s, d)' =>
              d \in Coords /\ Awaits(d, s)' /\ Len(instance'[<<s, d>>]) = 1
        BY <1>1, <1>3, <1>4, <1>5 DEF Expected
    <2>2. \A s, d \in Coords : At(toCoord'[s], "transfer_node", d) => Awaits(d, s)' /\ ~ Sent(s, d)'
        BY <1>1, <1>5 DEF Gone, Expected
    <2> QED
        BY <2>1, <2>2 DEF Expected
<1> PartsAwaited'
    BY <1>1, <1>2, <1>5 DEF Gone, PartsAwaited, coordVars
<1> Truthful'
    BY <1>2 DEF Truthful, Truth, coordVars
<1> Fresh'
    BY <1>1, <1>2 DEF Fresh, leaderVars
<1> Stopped'
    BY <1>1, <1>2 DEF Gone, Stopped, leaderVars, coordVars
<1> Known'
    <2> SUFFICES ASSUME phase = "run" PROVE IdleKnown' /\ SplitKnown' /\ RequestKnown'
        BY <1>2 DEF Known, leaderVars
    <2> IdleKnown /\ SplitKnown /\ RequestKnown
        BY DEF Known
    <2>1. IdleKnown'
        BY <1>1, <1>2 DEF Gone, IdleKnown, leaderVars, coordVars
    <2>2. SplitKnown'
        BY <1>1, <1>2 DEF Gone, SplitKnown, leaderVars
    <2>3. RequestKnown'
        BY <1>1, <1>2 DEF Gone, RequestKnown, leaderVars, coordVars
    <2> QED
        BY <2>1, <2>2, <2>3
<1> Promises'
    <2>1. \A d \in Coords : \A x : Promise(d, x)' <=> Promise(d, x)
        BY <1>1, <1>2 DEF Gone, Promise
    <2> QED
        BY <1>2, <2>1 DEF Promises, Waiting, leaderVars
<1> Carried'
    <2>1. \A s \in Ranks, d \in Coords : \A p : Comes(s, d, p) => Comes(s, d, p)'
        <3> SUFFICES ASSUME NEW s \in Ranks, NEW d \in Coords, NEW p, Comes(s, d, p)
                     PROVE  Comes(s, d, p)'
            OBVIOUS
        <3>1. CASE s = c /\ d = t
            <4>1. p \in splitNode[c].part
                BY <1>1, <1>3, <3>1 DEF Comes, Dead
            <4> QED
                BY <1>4, <1>5, <3>1, <4>1 DEF Comes
        <3>2. CASE ~ (s = c /\ d = t)
            BY <1>1, <1>2, <1>4, <1>5, <3>2 DEF Gone, Comes, coordVars
        <3> QED
            BY <3>1, <3>2
    <2>2. \A d \in Coords : \A p : Carries(d, p) => Carries(d, p)'
        BY <1>2, <1>5, <2>1 DEF Carries, coordVars
    <2> QED
        BY <1>2, <2>2 DEF Carried, leaderVars
<1> QED
    BY <1>2, LeaderFrame

LEMMA TakeAssignmentStep ==
    ASSUME ClusterInv, NEW c \in Coords, TakeAssignment(c)
    PROVE  ClusterInv'
<1> DEFINE r == Head(toCoord[c]).rank
<1> USE DEF ClusterInv, Protocol
<1> USE RankFacts
<1>1. /\ toCoord[c] # <<>>
      /\ toCoord' \in [Ranks -> Seq(Orders)]
      /\ Gone(toCoord, toCoord', c, "assign_node")
      /\ \A d \in Ranks : InOrder(toCoord'[d])
      /\ Has(toCoord[c], "assign_node") /\ At(toCoord[c], "assign_node", r)
      /\ \A x : At(toCoord[c], "assign_node", x) => x = r
      /\ ~ Has(toCoord[c], "transfer_node")
      /\ Before(toCoord[c], "request_split", "assign_node") => ~ Has(toCoord[c], "request_split")
      /\ r \in Ranks
    <2>1. Takes(c, "assign_node")
        BY DEF TakeAssignment
    <2>2. Head(toCoord[c]) \in Orders /\ Head(toCoord[c]).type = "assign_node"
        BY <2>1, TakesFacts
    <2>3. r \in Ranks
        BY <2>2 DEF Orders
    <2>4. Before(toCoord[c], "request_split", "assign_node") => ~ Has(toCoord[c], "request_split")
        BY <2>1, TakesFacts
    <2>5. /\ toCoord[c] # <<>>
          /\ toCoord' \in [Ranks -> Seq(Orders)]
          /\ Gone(toCoord, toCoord', c, "assign_node")
          /\ \A d \in Ranks : InOrder(toCoord'[d])
          /\ ~ Has(toCoord[c], "transfer_node")
        BY <2>1, TakesFacts
    <2>6. /\ Has(toCoord[c], "assign_node") /\ At(toCoord[c], "assign_node", r)
          /\ \A x : At(toCoord[c], "assign_node", x) => x = r
        BY <2>1, TakesFacts
    <2> QED
        BY <2>3, <2>4, <2>5, <2>6
<1>2. UNCHANGED <<leaderVars, region, splitNode, cut, toLeader, instance>>
    BY DEF TakeAssignment
<1>3. /\ state' = [state EXCEPT ![c] = "receive"] /\ source' = [source EXCEPT ![c] = r]
      /\ state'[c] = "receive" /\ source'[c] = r
      /\ \A d \in Ranks \ {c} : state'[d] = state[d] /\ source'[d] = source[d]
    BY DEF TakeAssignment, Goes, TypeOK
<1>4. /\ state[c] = "idle"
      /\ ~ Has(toLeader[c], "split_succeed") /\ ~ Has(toLeader[c], "notify_result")
      /\ ~ Has(toLeader[c], "notify_error")
    BY <1>1 DEF Conversation
<1>5. /\ \A d \in Coords, s \in Ranks : Awaits(d, s)' <=> Awaits(d, s)
      /\ \A d \in Ranks, s \in Ranks : Sent(s, d)' <=> Sent(s, d)
      /\ \A s \in Ranks : Dead(s)' <=> Dead(s)
      /\ Parts' = Parts
    <2>1. \A s \in Ranks : Awaits(c, s)' <=> Awaits(c, s)
        BY <1>1, <1>3, <1>4 DEF Gone, Awaits
    <2>2. \A d \in Coords \ {c}, s \in Ranks : Awaits(d, s)' <=> Awaits(d, s)
        BY <1>1, <1>3 DEF Gone, Awaits
    <2> QED
        BY <1>2, <1>3, <1>4, <2>1, <2>2 DEF Sent, Dead, Parts
<1> TypeOK'
    BY <1>1, <1>2, <1>3 DEF TypeOK, leaderVars, States
<1> Roles'
    BY <1>1, <1>2, <1>3 DEF Gone, Roles
<1> Channels'
    BY <1>1, <1>2 DEF Gone, Channels, leaderVars
<1> OneRequest'
    BY <1>1, <1>2 DEF Gone, OneRequest
<1> Conversation'
    <2>1. ~ Has(toCoord'[c], "assign_node") /\ ~ Has(toCoord'[c], "transfer_node") /\ r # NoRank
        BY <1>1, ClusterConstants DEF Gone, NoRank, Ranks
    <2> QED
        BY <1>1, <1>2, <1>3, <1>4, <1>5, <2>1 DEF Gone, Conversation
<1> Kept'
    BY <1>1, <1>2 DEF Gone, Kept
<1> IsolatedSays'
    BY <1>1, <1>2, <1>3 DEF Gone, IsolatedSays, leaderVars
<1> Served'
    <2>1. \A s \in Ranks, d \in Coords : WillCome(s, d) => WillCome(s, d)'
        <3>1. \A s \in Ranks : state[s] = state'[s] \/ s = c
            BY <1>3
        <3> QED
            BY <1>1, <1>2, <1>5, <3>1 DEF Gone, WillCome
    <2> QED
        BY <1>5, <2>1 DEF Served
<1> Expected'
    BY <1>1, <1>2, <1>5 DEF Gone, Expected
<1> PartsAwaited'
    BY <1>1, <1>2, <1>3, <1>5 DEF Gone, PartsAwaited
<1> Truthful'
    BY <1>2 DEF Truthful, Truth
<1> Fresh'
    BY <1>1, <1>2 DEF Fresh, leaderVars
<1> Stopped'
    BY <1>1, <1>2, <1>3 DEF Gone, Stopped, leaderVars
<1> Known'
    <2> SUFFICES ASSUME phase = "run" PROVE IdleKnown' /\ SplitKnown' /\ RequestKnown'
        BY <1>2 DEF Known, leaderVars
    <2> IdleKnown /\ SplitKnown /\ RequestKnown
        BY DEF Known
    <2>1. IdleKnown'
        BY <1>1, <1>2, <1>3 DEF Gone, IdleKnown, leaderVars
    <2>2. SplitKnown'
        BY <1>1, <1>2 DEF Gone, SplitKnown, leaderVars
    <2>3. RequestKnown'
        BY <1>1, <1>2, <1>3 DEF Gone, RequestKnown, leaderVars
    <2> QED
        BY <2>1, <2>2, <2>3
<1> Promises'
    <2>1. \A d \in Coords : \A x : Promise(d, x)' <=> Promise(d, x)
        BY <1>1, <1>2 DEF Gone, Promise
    <2> QED
        BY <1>2, <2>1 DEF Promises, Waiting, leaderVars
<1> Carried'
    <2>1. \A s \in Ranks, d \in Coords : \A p : Comes(s, d, p) => Comes(s, d, p)'
        BY <1>1, <1>2, <1>3, <1>5 DEF Gone, Comes
    <2>2. \A d \in Coords : \A p : Carries(d, p) => Carries(d, p)'
        BY <1>2, <1>3, <1>4, <1>5, <2>1 DEF Carries
    <2> QED
        BY <1>2, <2>2 DEF Carried, leaderVars
<1> QED
    BY <1>2, LeaderFrame

LEMMA ReceiveInstanceStep ==
    ASSUME ClusterInv, NEW c \in Coords, ReceiveInstance(c)
    PROVE  ClusterInv'
<1> DEFINE s == source[c]
<1> USE DEF ClusterInv, Protocol
<1> USE RankFacts
<1>1. /\ state[c] = "receive" /\ Sent(s, c)
      /\ state' = [state EXCEPT ![c] = "solving"]
      /\ region' = [region EXCEPT ![c] = Head(instance[<<s, c>>])]
      /\ splitNode' = [splitNode EXCEPT ![c] = NoSplitNode]
      /\ instance' = WithoutInstance(instance, s, c)
      /\ UNCHANGED <<leaderVars, source, cut, toCoord, toLeader>>
    BY DEF ReceiveInstance, Goes, Sent, WithoutInstance
<1>2. s \in Ranks
    BY <1>1 DEF TypeOK, Conversation
<1>3. Len(instance[<<s, c>>]) = 1 /\ Awaits(c, s)
    BY <1>1, <1>2 DEF Expected
<1>4. /\ instance' \in [Ranks \X Ranks -> Seq(SUBSET Points)]
      /\ instance'[<<s, c>>] = <<>>
      /\ Head(instance[<<s, c>>]) = instance[<<s, c>>][1]
      /\ Head(instance[<<s, c>>]) \in SUBSET Points
      /\ \A a, d \in Ranks : ~ (a = s /\ d = c) => instance'[<<a, d>>] = instance[<<a, d>>]
    <2>1. instance \in [Ranks \X Ranks -> Seq(SUBSET Points)] /\ instance[<<s, c>>] # <<>>
        BY <1>1 DEF TypeOK, Sent
    <2>2. Arrived(instance, instance', s, c)
        BY <1>1, <1>2, <1>3, <2>1, InstanceTaken
    <2> QED
        BY <2>2 DEF Arrived
<1>5. /\ state'[c] = "solving" /\ region'[c] = instance[<<s, c>>][1]
      /\ \A d \in Ranks \ {c} :
            state'[d] = state[d] /\ region'[d] = region[d] /\ splitNode'[d] = splitNode[d]
    BY <1>1, <1>4 DEF TypeOK
<1>6. /\ ~ Has(toCoord[c], "assign_node") /\ ~ Has(toCoord[c], "transfer_node")
      /\ ~ Has(toLeader[c], "split_succeed") /\ ~ Has(toLeader[c], "notify_result")
      /\ ~ Has(toLeader[c], "notify_error")
    BY <1>1 DEF Conversation
<1>7. /\ \A d \in Coords, a \in Ranks : Awaits(d, a)' <=> Awaits(d, a) /\ d # c
      /\ \A d \in Ranks, a \in Ranks : Sent(a, d)' <=> Sent(a, d) /\ ~ (a = s /\ d = c)
      /\ \A a \in Ranks : Awaits(c, a) => a = s
      /\ \A a \in Ranks : Dead(a)' <=> Dead(a)
      /\ Parts' = Parts
    <2>1. \A d \in Ranks, a \in Ranks : Sent(a, d)' <=> Sent(a, d) /\ ~ (a = s /\ d = c)
        BY <1>4 DEF Sent
    <2>2. \A a \in Ranks : ~ At(toCoord[c], "assign_node", a)
        BY <1>6, AtHas
    <2> QED
        BY <1>1, <1>5, <2>1, <2>2 DEF Awaits, Dead, Parts
<1>8. ~ At(toCoord[s], "transfer_node", c)
    BY <1>1, <1>2, AtHas DEF Expected, Roles
<1> TypeOK'
    <2>1. NoSplitNode \in [part : SUBSET Points, target : Coords \cup {NoRank}]
        BY DEF NoSplitNode
    <2> QED
        BY <1>1, <1>4, <2>1 DEF TypeOK, leaderVars, States
<1> Roles'
    BY <1>1, <1>5 DEF Roles
<1> Channels'
    BY <1>1 DEF Channels, leaderVars
<1> OneRequest'
    BY <1>1 DEF OneRequest
<1> Conversation'
    BY <1>1, <1>5, <1>6, <1>7 DEF Conversation
<1> Kept'
    <2>1. \A x : ~ At(toLeader[c], "split_succeed", x) /\ ~ At(toCoord[c], "transfer_node", x)
        BY <1>6, AtHas
    <2> QED
        BY <1>1, <1>5, <2>1 DEF Kept
<1> IsolatedSays'
    BY <1>1, <1>5 DEF IsolatedSays, leaderVars
<1> Served'
    BY <1>1, <1>5, <1>7 DEF Served, WillCome
<1> Expected'
    <2>1. \A a, d \in Ranks : Sent(a, d)' =>
              d \in Coords /\ Awaits(d, a)' /\ Len(instance'[<<a, d>>]) = 1
        BY <1>4, <1>7 DEF Expected
    <2>2. \A a, d \in Coords : At(toCoord'[a], "transfer_node", d) => Awaits(d, a)' /\ ~ Sent(a, d)'
        BY <1>1, <1>7, <1>8 DEF Expected
    <2> QED
        BY <2>1, <2>2 DEF Expected
<1> PartsAwaited'
    BY <1>1, <1>5, <1>7 DEF PartsAwaited
<1> Truthful'
    BY <1>1, <1>5, <1>6, SaysHas DEF Truthful, Truth
<1> Fresh'
    BY <1>1 DEF Fresh, leaderVars
<1> Stopped'
    BY <1>1, <1>5 DEF Stopped, leaderVars
<1> Known'
    <2> SUFFICES ASSUME phase = "run" PROVE IdleKnown' /\ SplitKnown' /\ RequestKnown'
        BY <1>1 DEF Known, leaderVars
    <2> IdleKnown /\ SplitKnown /\ RequestKnown
        BY DEF Known
    <2>1. IdleKnown'
        BY <1>1, <1>5 DEF IdleKnown, leaderVars
    <2>2. SplitKnown'
        BY <1>1 DEF SplitKnown, leaderVars
    <2>3. RequestKnown'
        BY <1>1, <1>5 DEF RequestKnown, leaderVars
    <2> QED
        BY <2>1, <2>2, <2>3
<1> Promises'
    BY <1>1 DEF Promises, Promise, Waiting, leaderVars
<1> Carried'
    <2>1. \A a \in Ranks, d \in Coords : \A p :
              Comes(a, d, p) /\ ~ (a = s /\ d = c) => Comes(a, d, p)'
        <3>1. \A a \in Ranks, d \in Coords : \A p :
                  At(toCoord[a], "transfer_node", d) /\ p \in splitNode[a].part
                      => p \in splitNode'[a].part
            BY <1>5, <1>6, AtHas
        <3> QED
            BY <1>1, <1>4, <1>5, <1>7, <3>1 DEF Comes
    <2>2. \A p : Comes(s, c, p) => p \in region'[c]
        BY <1>1, <1>2, <1>5, <1>8 DEF Comes, PartsAwaited
    <2>3. \A d \in Coords : \A p : Carries(d, p) => Carries(d, p)'
        <3> SUFFICES ASSUME NEW d \in Coords, NEW p, Carries(d, p) PROVE Carries(d, p)'
            OBVIOUS
        <3>1. CASE d = c
            BY <1>1, <1>5, <1>6, <1>7, <2>2, <3>1 DEF Carries, Dead
        <3>2. CASE d # c
            BY <1>1, <1>5, <1>7, <2>1, <3>2 DEF Carries
        <3> QED
            BY <3>1, <3>2
    <2> QED
        BY <1>1, <2>3 DEF Carried, leaderVars
<1> QED
    BY <1>1, LeaderFrame

LEMMA SolveStep ==
    ASSUME ClusterInv, NEW c \in Ranks, Solve(c)
    PROVE  ClusterInv'
<1> DEFINE r == Truth(region[c])
<1> USE DEF ClusterInv, Protocol
<1> USE RankFacts
<1>1. /\ state[c] = "solving"
      /\ state' = [state EXCEPT ![c] = "idle"]
      /\ UNCHANGED <<leaderVars, region, splitNode, source, cut, toCoord, instance>>
    BY DEF Solve, Goes
<1>2. /\ state'[c] = "idle" /\ \A d \in Ranks \ {c} : state'[d] = state[d]
    BY <1>1 DEF TypeOK
<1>3. ~ Has(toLeader[c], "notify_result") /\ ~ Has(toLeader[c], "notify_error")
    BY <1>1 DEF Conversation, Dead
<1>4. c \in Coords => ~ Has(toCoord[c], "assign_node")
    BY <1>1 DEF Conversation
<1>5. /\ toLeader' \in [Ranks -> Seq(Reports)]
      /\ Come(toLeader, toLeader', c, MsgResult(r))
      /\ \A d \in Ranks : ReportsInOrder(toLeader'[d])
    <2>1. MsgResult(r) \in Reports /\ MsgResult(r).type = "notify_result"
        BY DEF MsgResult, Reports, Truth
    <2>2. Tell(c, MsgResult(r))
        BY DEF Solve
    <2> QED
        BY <1>3, <2>1, <2>2, TellFacts
<1>6. /\ \A d \in Ranks, s \in Ranks : Awaits(d, s)' <=> Awaits(d, s)
      /\ \A d \in Ranks, s \in Ranks : Sent(s, d)' <=> Sent(s, d)
      /\ \A s \in Ranks : Dead(s)' <=> Dead(s)
      /\ Parts' = Parts
    BY <1>1, <1>2 DEF Awaits, Sent, Dead, Parts
<1>7. \A d \in Ranks : \A u, x : u # "notify_result" =>
          /\ Has(toLeader'[d], u) <=> Has(toLeader[d], u)
          /\ At(toLeader'[d], u, x) <=> At(toLeader[d], u, x)
    BY <1>5 DEF Come, MsgResult
<1> TypeOK'
    BY <1>1, <1>5 DEF TypeOK, leaderVars, States
<1> Roles'
    BY <1>1, <1>2, <1>7 DEF Roles
<1> Channels'
    BY <1>1, <1>5 DEF Channels, leaderVars
<1> OneRequest'
    BY <1>1, <1>7 DEF OneRequest
<1> Conversation'
    <2>1. \A d \in Ranks : Has(toLeader'[d], "notify_result") <=>
                              Has(toLeader[d], "notify_result") \/ d = c
        BY <1>5 DEF Come, MsgResult
    <2> QED
        BY <1>1, <1>2, <1>3, <1>4, <1>6, <1>7, <2>1 DEF Conversation
<1> Kept'
    BY <1>1, <1>7 DEF Kept
<1> IsolatedSays'
    BY <1>1, <1>2, <1>5, <1>7 DEF Come, IsolatedSays, leaderVars
<1> Served'
    BY <1>1, <1>2, <1>6 DEF Served, WillCome
<1> Expected'
    BY <1>1, <1>6 DEF Expected
<1> PartsAwaited'
    BY <1>1, <1>2, <1>6 DEF PartsAwaited
<1> Truthful'
    BY <1>1, <1>5 DEF Come, MsgResult, Truthful, Truth
<1> Fresh'
    BY <1>1, <1>2, <1>5, <1>6 DEF Come, Fresh, leaderVars
<1> Stopped'
    BY <1>1, <1>2 DEF Stopped, leaderVars
<1> Known'
    <2> SUFFICES ASSUME phase = "run" PROVE IdleKnown' /\ SplitKnown' /\ RequestKnown'
        BY <1>1 DEF Known, leaderVars
    <2> IdleKnown /\ SplitKnown /\ RequestKnown
        BY DEF Known
    <2>1. IdleKnown'
        BY <1>1, <1>2, <1>5 DEF Come, IdleKnown, leaderVars
    <2>2. SplitKnown'
        BY <1>1, <1>7 DEF SplitKnown, leaderVars
    <2>3. RequestKnown'
        BY <1>1, <1>2 DEF RequestKnown, leaderVars
    <2> QED
        BY <2>1, <2>2, <2>3
<1> Promises'
    <2>1. \A d \in Coords : \A x : Promise(d, x)' <=> Promise(d, x)
        BY <1>1, <1>7 DEF Promise
    <2> QED
        BY <1>1, <2>1 DEF Promises, Waiting, leaderVars
<1> Carried'
    <2>1. \A s \in Ranks, d \in Coords : \A p : Comes(s, d, p) => Comes(s, d, p)'
        BY <1>1, <1>2, <1>6 DEF Comes
    <2>2. \A d \in Coords : \A p : Carries(d, p) => Carries(d, p)'
        BY <1>1, <1>2, <1>5, <1>6, <2>1 DEF Come, MsgResult, Carries
    <2> QED
        BY <1>1, <2>2 DEF Carried, leaderVars
<1> QED
    BY <1>1, LeaderFrame

LEMMA FailStep ==
    ASSUME ClusterInv, NEW c \in Ranks, Fail(c)
    PROVE  ClusterInv'
<1> USE DEF ClusterInv, Protocol
<1> USE RankFacts
<1>1. /\ c \in Failing
      /\ state[c] \in {"solving", "prePartition", "handover"}
      /\ state' = [state EXCEPT ![c] = "error"]
      /\ UNCHANGED <<leaderVars, region, splitNode, source, cut, toCoord, instance>>
    BY DEF Fail, Goes
<1>2. /\ state'[c] = "error" /\ \A d \in Ranks \ {c} : state'[d] = state[d]
    BY <1>1 DEF TypeOK
<1>3. ~ Has(toLeader[c], "notify_result") /\ ~ Has(toLeader[c], "notify_error")
    BY <1>1 DEF Conversation, Dead
<1>4. c \in Coords => ~ Has(toCoord[c], "assign_node") /\ state[c] = "solving"
    BY <1>1 DEF Conversation, Roles
<1>5. /\ toLeader' \in [Ranks -> Seq(Reports)]
      /\ Come(toLeader, toLeader', c, Msg("notify_error"))
      /\ \A d \in Ranks : ReportsInOrder(toLeader'[d])
    <2>1. Msg("notify_error") \in Reports /\ Msg("notify_error").type = "notify_error"
        BY DEF Msg, Reports
    <2>2. Tell(c, Msg("notify_error"))
        BY DEF Fail
    <2> QED
        BY <1>3, <2>1, <2>2, TellFacts
<1>6. /\ \A d \in Ranks, s \in Ranks : Awaits(d, s)' <=> Awaits(d, s)
      /\ \A d \in Ranks, s \in Ranks : Sent(s, d)' <=> Sent(s, d)
      /\ \A s \in Ranks : Dead(s)' <=> Dead(s) \/ s = c
      /\ Parts' = Parts
    BY <1>1, <1>2 DEF Awaits, Sent, Dead, Parts
<1>7. \A d \in Ranks : \A u, x : u # "notify_error" =>
          /\ Has(toLeader'[d], u) <=> Has(toLeader[d], u)
          /\ At(toLeader'[d], u, x) <=> At(toLeader[d], u, x)
    BY <1>5 DEF Come, Msg
<1> TypeOK'
    BY <1>1, <1>5 DEF TypeOK, leaderVars, States
<1> Roles'
    BY <1>1, <1>2, <1>7 DEF Roles
<1> Channels'
    BY <1>1, <1>5 DEF Channels, leaderVars
<1> OneRequest'
    BY <1>1, <1>7 DEF OneRequest
<1> Conversation'
    <2>1. \A d \in Ranks : Has(toLeader'[d], "notify_error") <=>
                              Has(toLeader[d], "notify_error") \/ d = c
        BY <1>5 DEF Come, Msg
    <2> QED
        BY <1>1, <1>2, <1>3, <1>4, <1>6, <1>7, <2>1 DEF Conversation
<1> Kept'
    BY <1>1, <1>7 DEF Kept
<1> IsolatedSays'
    BY <1>1, <1>2, <1>5, <1>7 DEF Come, IsolatedSays, leaderVars
<1> Served'
    BY <1>1, <1>2, <1>6 DEF Served, WillCome
<1> Expected'
    BY <1>1, <1>6 DEF Expected
<1> PartsAwaited'
    BY <1>1, <1>2, <1>6 DEF PartsAwaited
<1> Truthful'
    BY <1>1, <1>5 DEF Come, Msg, Truthful, Truth
<1> Fresh'
    BY <1>1, <1>2, <1>4, <1>5, <1>6 DEF Come, Fresh, leaderVars
<1> Stopped'
    BY <1>1, <1>2 DEF Stopped, leaderVars
<1> Known'
    <2> SUFFICES ASSUME phase = "run" PROVE IdleKnown' /\ SplitKnown' /\ RequestKnown'
        BY <1>1 DEF Known, leaderVars
    <2> IdleKnown /\ SplitKnown /\ RequestKnown
        BY DEF Known
    <2>1. IdleKnown'
        BY <1>1, <1>2, <1>4, <1>5 DEF Come, IdleKnown, leaderVars
    <2>2. SplitKnown'
        BY <1>1, <1>7 DEF SplitKnown, leaderVars
    <2>3. RequestKnown'
        BY <1>1, <1>2, <1>4 DEF RequestKnown, leaderVars
    <2> QED
        BY <2>1, <2>2, <2>3
<1> Promises'
    <2>1. \A d \in Coords : \A x : Promise(d, x)' <=> Promise(d, x)
        BY <1>1, <1>7 DEF Promise
    <2> QED
        BY <1>1, <2>1 DEF Promises, Waiting, leaderVars
<1> Carried'
    <2>1. \A s \in Ranks, d \in Coords : \A p : Comes(s, d, p) => Comes(s, d, p)'
        BY <1>1, <1>2, <1>6 DEF Comes, PartsAwaited
    <2>2. \A d \in Coords : \A p : Carries(d, p) => Carries(d, p)'
        BY <1>1, <1>2, <1>6, <1>7, <2>1 DEF Carries
    <2> QED
        BY <1>1, <2>2 DEF Carried, leaderVars
<1> QED
    BY <1>1, LeaderFrame

LEMMA TerminateStep ==
    ASSUME ClusterInv, NEW c \in Ranks, Terminate(c)
    PROVE  ClusterInv'
<1> USE DEF ClusterInv, Protocol
<1> USE RankFacts
<1>1. /\ state[c] \in {"idle", "solving", "handover", "error"}
      /\ toCoord[c] # <<>> /\ Head(toCoord[c]).type = "terminate_coordinator"
      /\ toCoord' = Popped(toCoord, c)
      /\ state' = [state EXCEPT ![c] = IF state[c] = "error" THEN "failed" ELSE "barrier"]
      /\ UNCHANGED <<leaderVars, region, splitNode, source, cut, toLeader, instance>>
    BY DEF Terminate, Goes, Popped
<1>2. /\ toCoord' \in [Ranks -> Seq(Orders)]
      /\ Gone(toCoord, toCoord', c, "terminate_coordinator")
      /\ \A d \in Ranks : InOrder(toCoord'[d])
      /\ Has(toCoord[c], "terminate_coordinator")
      /\ toCoord'[c] = <<>>
      /\ \A u : u # "terminate_coordinator" => ~ Has(toCoord[c], u)
    <2>1. toCoord \in [Ranks -> Seq(Orders)] /\ \A d \in Ranks : InOrder(toCoord[d])
        BY DEF TypeOK, Channels
    <2>2. /\ toCoord' \in [Ranks -> Seq(Orders)]
          /\ Gone(toCoord, toCoord', c, Head(toCoord[c]).type)
          /\ \A d \in Ranks : InOrder(toCoord'[d])
          /\ Has(toCoord[c], Head(toCoord[c]).type)
        BY <1>1, <2>1, OrderGone
    <2>3. Emptied(toCoord[c], toCoord'[c])
        BY <1>1, <2>1, OrderGone
    <2> QED
        BY <1>1, <2>2, <2>3 DEF Emptied
<1>3. phase = "ended"
    BY <1>2 DEF Channels
<1>4. /\ state'[c] \in {"barrier", "failed"} /\ (state'[c] = "failed" <=> state[c] = "error")
      /\ \A d \in Ranks \ {c} : state'[d] = state[d]
    BY <1>1 DEF TypeOK
<1>5. /\ \A d \in Ranks, s \in Ranks : Awaits(d, s)' <=> Awaits(d, s)
      /\ \A s \in Ranks : ~ Awaits(c, s)
      /\ \A d \in Ranks, s \in Ranks : Sent(s, d)' <=> Sent(s, d)
      /\ \A s \in Ranks : Dead(s)' <=> Dead(s)
      /\ Parts' = Parts
    <2>1. \A s \in Ranks : ~ Awaits(c, s) /\ ~ Awaits(c, s)'
        BY <1>1, <1>2, <1>4, AtHas DEF Awaits, Gone
    <2> QED
        BY <1>1, <1>2, <1>4, <2>1 DEF Gone, Awaits, Sent, Dead, Parts
<1> TypeOK'
    BY <1>1, <1>2 DEF TypeOK, leaderVars, States
<1> Roles'
    BY <1>1, <1>2, <1>4 DEF Gone, Roles
<1> Channels'
    BY <1>1, <1>2, <1>3 DEF Channels, leaderVars
<1> OneRequest'
    BY <1>1, <1>2 DEF Gone, OneRequest
<1> Conversation'
    <2>1. \A u : ~ Has(toCoord'[c], u)
        BY <1>2 DEF Gone
    <2>2. \A d \in Ranks : Has(toLeader[d], "notify_result") => state'[d] \in {"idle", "barrier"}
        BY <1>1, <1>4 DEF Conversation
    <2>3. \A d \in Coords : state'[d] = "receive" \/ Has(toCoord'[d], "assign_node") => d # c
        BY <1>4, <2>1
    <2>4. \A d \in Ranks \ {c} : toCoord'[d] = toCoord[d]
        BY <1>2 DEF Gone
    <2> QED
        BY <1>1, <1>4, <1>5, <2>2, <2>3, <2>4 DEF Conversation
<1> Kept'
    BY <1>1, <1>2 DEF Gone, Kept
<1> IsolatedSays'
    BY <1>1, <1>3, <1>4, AtHas DEF IsolatedSays, leaderVars
<1> Served'
    BY <1>1, <1>2, <1>4, <1>5, AtHas DEF Gone, Served, WillCome
<1> Expected'
    <2>1. \A s, d \in Coords : At(toCoord'[s], "transfer_node", d) => At(toCoord[s], "transfer_node", d)
        BY <1>2 DEF Gone
    <2> QED
        BY <1>1, <1>5, <2>1 DEF Expected
<1> PartsAwaited'
    BY <1>1, <1>2, <1>4, <1>5 DEF Gone, PartsAwaited
<1> Truthful'
    BY <1>1 DEF Truthful, Truth
<1> Fresh'
    BY <1>1, <1>3 DEF Fresh, leaderVars
<1> Stopped'
    BY <1>1, <1>2, <1>3, <1>4 DEF Gone, Stopped, leaderVars
<1> Known' /\ Promises' /\ Carried'
    BY <1>1, <1>3 DEF Known, Promises, Carried, leaderVars
<1> QED
    BY <1>1, LeaderFrame

LEMMA DiscardStep ==
    ASSUME ClusterInv, NEW c \in Ranks, Discard(c)
    PROVE  ClusterInv'
<1> DEFINE t == Head(toCoord[c]).type
<1> USE DEF ClusterInv, Protocol
<1> USE RankFacts
<1>1. /\ state[c] = "error" /\ toCoord[c] # <<>>
      /\ toCoord' = Popped(toCoord, c)
      /\ UNCHANGED <<leaderVars, coordVars, toLeader, instance>>
    BY DEF Discard, Popped
<1>2. /\ toCoord' \in [Ranks -> Seq(Orders)]
      /\ Gone(toCoord, toCoord', c, t)
      /\ \A d \in Ranks : InOrder(toCoord'[d])
    <2>1. toCoord \in [Ranks -> Seq(Orders)] /\ \A d \in Ranks : InOrder(toCoord[d])
        BY DEF TypeOK, Channels
    <2> QED
        BY <1>1, <2>1, OrderGone
<1> HIDE DEF t
<1>3. Dead(c) /\ (c \in Coords => ~ Has(toCoord[c], "assign_node"))
    BY <1>1 DEF Dead, Conversation
<1>4. /\ \A d \in Coords, s \in Ranks : Awaits(d, s)' <=> Awaits(d, s)
      /\ \A d \in Ranks, s \in Ranks : Sent(s, d)' <=> Sent(s, d)
      /\ \A s \in Ranks : Dead(s)' <=> Dead(s)
      /\ Parts' = Parts
    <2>1. \A d \in Coords, s \in Ranks :
              At(toCoord'[d], "assign_node", s) <=> At(toCoord[d], "assign_node", s)
        BY <1>2, <1>3, AtHas DEF Gone
    <2> QED
        BY <1>1, <2>1 DEF Awaits, Sent, Dead, Parts, coordVars
<1>5. \A d \in Ranks : \A u, x : /\ Has(toCoord'[d], u) => Has(toCoord[d], u)
                                 /\ At(toCoord'[d], u, x) => At(toCoord[d], u, x)
    BY <1>2 DEF Gone
<1> TypeOK'
    BY <1>1, <1>2 DEF TypeOK, leaderVars, coordVars
<1> Roles'
    BY <1>1, <1>5 DEF Roles, coordVars
<1> Channels'
    BY <1>1, <1>2, <1>5 DEF Channels, leaderVars
<1> OneRequest'
    BY <1>1, <1>5 DEF OneRequest
<1> Conversation'
    BY <1>1, <1>4, <1>5 DEF Conversation, coordVars
<1> Kept'
    BY <1>1, <1>5 DEF Kept, coordVars
<1> IsolatedSays'
    BY <1>1 DEF IsolatedSays, leaderVars, coordVars
<1> Served'
    BY <1>1, <1>2, <1>3, <1>4 DEF Gone, Served, WillCome, coordVars
<1> Expected'
    BY <1>1, <1>4, <1>5 DEF Expected
<1> PartsAwaited'
    BY <1>1, <1>4, <1>5 DEF PartsAwaited, coordVars
<1> Truthful'
    BY <1>1 DEF Truthful, Truth, coordVars
<1> Fresh'
    BY <1>1 DEF Fresh, leaderVars
<1> Stopped'
    BY <1>1, <1>2 DEF Gone, Stopped, leaderVars, coordVars
<1> Known'
    <2> SUFFICES ASSUME phase = "run" PROVE IdleKnown' /\ SplitKnown' /\ RequestKnown'
        BY <1>1 DEF Known, leaderVars
    <2> IdleKnown /\ SplitKnown /\ RequestKnown
        BY DEF Known
    <2>1. IdleKnown'
        BY <1>1, <1>5 DEF IdleKnown, leaderVars, coordVars
    <2>2. SplitKnown'
        BY <1>1, <1>2 DEF Gone, SplitKnown, leaderVars
    <2>3. RequestKnown'
        BY <1>1, <1>2 DEF Gone, RequestKnown, leaderVars, coordVars
    <2> QED
        BY <2>1, <2>2, <2>3
<1> Promises'
    <2>1. \A d \in Coords : \A x : Promise(d, x)' => Promise(d, x)
        BY <1>1, <1>5 DEF Promise
    <2> QED
        BY <1>1, <2>1 DEF Promises, Waiting, leaderVars
<1> Carried'
    <2>1. \A s \in Ranks, d \in Coords : \A p : Comes(s, d, p) => Comes(s, d, p)'
        <3>1. \A s \in Ranks, d \in Coords : At(toCoord[s], "transfer_node", d) =>
                  At(toCoord'[s], "transfer_node", d) \/ (Dead(s) /\ ~ Sent(s, d))
            <4>1. \A d \in Coords : At(toCoord[c], "transfer_node", d) => ~ Sent(c, d)
                BY AtHas DEF Expected, Roles
            <4> QED
                BY <1>2, <1>3, <4>1 DEF Gone
        <3> QED
            BY <1>1, <1>4, <3>1 DEF Comes, coordVars
    <2>2. \A d \in Coords : \A p : Carries(d, p) => Carries(d, p)'
        BY <1>1, <1>4, <2>1 DEF Carries, coordVars
    <2> QED
        BY <1>1, <2>2 DEF Carried, leaderVars
<1> QED
    BY <1>1, LeaderFrame

LEMMA IsolatedSolvesEarlyStep ==
    ASSUME ClusterInv, IsolatedSolvesEarly
    PROVE  ClusterInv'
<1> USE DEF ClusterInv, Protocol
<1> USE RankFacts
<1>1. /\ state[Iso] = "prePartition"
      /\ state' = [state EXCEPT ![Iso] = "idle"]
      /\ UNCHANGED <<leaderVars, region, splitNode, source, cut, toCoord, instance>>
    BY DEF IsolatedSolvesEarly, Goes
<1>2. /\ state'[Iso] = "idle" /\ \A d \in Ranks \ {Iso} : state'[d] = state[d]
    BY <1>1 DEF TypeOK
<1>3. phase = "init"
    BY <1>1 DEF IsolatedSays
<1>4. /\ ~ Has(toLeader[Iso], "notify_result") /\ ~ Has(toLeader[Iso], "notify_error")
      /\ Truth(Points) = Truth(region[Iso])
    BY <1>1 DEF Conversation, Dead, IsolatedSays
<1>5. /\ toLeader' \in [Ranks -> Seq(Reports)]
      /\ Come(toLeader, toLeader', Iso, MsgResult(Truth(Points)))
      /\ \A d \in Ranks : ReportsInOrder(toLeader'[d])
    <2>1. /\ MsgResult(Truth(Points)) \in Reports
          /\ MsgResult(Truth(Points)).type = "notify_result"
        BY DEF MsgResult, Reports, Truth
    <2>2. Tell(Iso, MsgResult(Truth(Points)))
        BY DEF IsolatedSolvesEarly
    <2> QED
        BY <1>4, <2>1, <2>2, TellFacts
<1>6. /\ \A d \in Ranks, s \in Ranks : Awaits(d, s)' <=> Awaits(d, s)
      /\ \A d \in Ranks, s \in Ranks : Sent(s, d)' <=> Sent(s, d)
      /\ \A s \in Ranks : Dead(s)' <=> Dead(s)
      /\ Parts' = Parts
    BY <1>1, <1>2 DEF Awaits, Sent, Dead, Parts
<1>7. \A d \in Ranks : \A u, x : u # "notify_result" =>
          /\ Has(toLeader'[d], u) <=> Has(toLeader[d], u)
          /\ At(toLeader'[d], u, x) <=> At(toLeader[d], u, x)
    BY <1>5 DEF Come, MsgResult
<1> TypeOK'
    BY <1>1, <1>5 DEF TypeOK, leaderVars, States
<1> Roles'
    BY <1>1, <1>2, <1>7 DEF Roles
<1> Channels'
    BY <1>1, <1>5 DEF Channels, leaderVars
<1> OneRequest'
    BY <1>1, <1>7 DEF OneRequest
<1> Conversation'
    <2>1. \A d \in Ranks : Has(toLeader'[d], "notify_result") <=>
                              Has(toLeader[d], "notify_result") \/ d = Iso
        BY <1>5 DEF Come, MsgResult
    <2> QED
        BY <1>1, <1>2, <1>6, <1>7, <2>1 DEF Conversation
<1> Kept'
    BY <1>1, <1>7 DEF Kept
<1> IsolatedSays'
    BY <1>1, <1>2, <1>3, <1>7 DEF IsolatedSays, leaderVars
<1> Served'
    BY <1>1, <1>2, <1>6 DEF Served, WillCome
<1> Expected'
    BY <1>1, <1>6 DEF Expected
<1> PartsAwaited'
    BY <1>1, <1>2, <1>6 DEF PartsAwaited
<1> Truthful'
    BY <1>1, <1>4, <1>5 DEF Come, MsgResult, Truthful, Truth
<1> Fresh'
    BY <1>1, <1>2, <1>5, <1>6 DEF Come, Fresh, leaderVars
<1> Stopped'
    BY <1>1, <1>2 DEF Stopped, leaderVars
<1> Known' /\ Promises' /\ Carried'
    BY <1>1, <1>3 DEF Known, Promises, Carried, leaderVars
<1> QED
    BY <1>1, LeaderFrame

LEMMA CutsType ==
    ASSUME NEW s \in Cuts
    PROVE  /\ s \in Seq(SUBSET Points) /\ Len(s) \in 0 .. N
           /\ DOMAIN s = 1 .. Len(s) /\ \A i \in 1 .. Len(s) : s[i] \in SUBSET Points
<1>1. PICK k \in 0 .. N : s \in [1 .. k -> SUBSET Points]
    BY DEF Cuts
<1>2. k \in Nat
    BY ClusterConstants
<1>3. s \in Seq(SUBSET Points) /\ Len(s) = k /\ DOMAIN s = 1 .. k
    BY <1>1, <1>2
<1> QED
    BY <1>1, <1>2, <1>3

(* What the leader assigns is what the isolated coordinator hands over.    *)
LEMMA PartsFacts ==
    ASSUME cut \in Cuts
    PROVE  /\ DOMAIN Parts = 1 .. (IF Len(cut) = 0 THEN 1 ELSE Len(cut))
           /\ \A i \in DOMAIN Parts : Parts[i] \in SUBSET Points
           /\ \A c \in Ranks : c + 1 \in DOMAIN Parts <=>
                 c < (IF Len(cut) = 0 THEN 1 ELSE Len(cut))
           /\ \A c \in Ranks : c + 1 \in DOMAIN Parts => c \in Coords
<1>1. N \in Nat \ {0}
    BY ClusterConstants
<1>2. cut \in Seq(SUBSET Points) /\ Len(cut) \in 0 .. N /\ DOMAIN cut = 1 .. Len(cut)
      /\ \A i \in 1 .. Len(cut) : cut[i] \in SUBSET Points
    BY CutsType
<1>3. DOMAIN <<Points>> = 1 .. 1 /\ <<Points>>[1] = Points
    OBVIOUS
<1>4. CASE cut = <<>>
    <2>1. Len(cut) = 0 /\ Parts = <<Points>>
        BY <1>4 DEF Parts
    <2>2. DOMAIN Parts = 1 .. 1 /\ \A i \in DOMAIN Parts : Parts[i] \in SUBSET Points
        BY <1>3, <2>1
    <2> QED
        BY <1>1, <2>1, <2>2 DEF Ranks, Coords
<1>5. CASE cut # <<>>
    <2>1. Len(cut) # 0 /\ Parts = cut
        BY <1>2, <1>5, EmptySeq DEF Parts
    <2> QED
        BY <1>1, <1>2, <2>1 DEF Ranks, Coords
<1> QED
    BY <1>4, <1>5

LEMMA PrePartitionStep ==
    ASSUME ClusterInv, PrePartition
    PROVE  ClusterInv'
<1> USE DEF ClusterInv, Protocol
<1> USE RankFacts
<1>1. /\ state[Iso] = "prePartition" /\ cut' \in Cuts
      /\ state' = [state EXCEPT ![Iso] = "handover"]
      /\ UNCHANGED <<leaderVars, region, splitNode, source, toCoord, instance>>
    BY DEF PrePartition, Goes
<1>2. /\ state'[Iso] = "handover" /\ \A d \in Ranks \ {Iso} : state'[d] = state[d]
    BY <1>1 DEF TypeOK
<1>3. phase = "init"
    BY <1>1 DEF IsolatedSays
<1>4. /\ toLeader[Iso] = <<>> /\ toCoord[Iso] = <<>>
      /\ \A u, x : ~ Has(toLeader[Iso], u) /\ ~ At(toLeader[Iso], u, x) /\ ~ Has(toCoord[Iso], u)
    BY <1>1, <1>3, AtHas DEF IsolatedSays, Fresh, Has
<1>5. /\ toLeader' \in [Ranks -> Seq(Reports)]
      /\ Come(toLeader, toLeader', Iso, MsgRank("pre_partition_done", Len(cut')))
      /\ \A d \in Ranks : ReportsInOrder(toLeader'[d])
    <2>1. /\ MsgRank("pre_partition_done", Len(cut')) \in Reports
          /\ MsgRank("pre_partition_done", Len(cut')).type = "pre_partition_done"
        BY <1>1, CutsType DEF MsgRank, Reports
    <2>2. Tell(Iso, MsgRank("pre_partition_done", Len(cut')))
        BY DEF PrePartition
    <2> QED
        BY <1>4, <2>1, <2>2, TellFacts
<1>6. /\ \A d \in Ranks, s \in Ranks : Awaits(d, s)' <=> Awaits(d, s)
      /\ \A d \in Ranks, s \in Ranks : Sent(s, d)' <=> Sent(s, d)
      /\ \A s \in Ranks : Dead(s)' <=> Dead(s)
    BY <1>1, <1>2 DEF Awaits, Sent, Dead
<1>7. \A d \in Ranks : \A u, x : u # "pre_partition_done" =>
          /\ Has(toLeader'[d], u) <=> Has(toLeader[d], u)
          /\ At(toLeader'[d], u, x) <=> At(toLeader[d], u, x)
    BY <1>5 DEF Come, MsgRank
<1>8. \A d \in Coords : toLeader'[d] = toLeader[d]
    BY <1>5 DEF Come
<1> TypeOK'
    BY <1>1, <1>5 DEF TypeOK, leaderVars, States
<1> Roles'
    BY <1>1, <1>2, <1>7, <1>8 DEF Roles
<1> Channels'
    BY <1>1, <1>5 DEF Channels, leaderVars
<1> OneRequest'
    BY <1>1, <1>7 DEF OneRequest
<1> Conversation'
    BY <1>1, <1>2, <1>6, <1>7 DEF Conversation
<1> Kept'
    BY <1>1, <1>7 DEF Kept
<1> IsolatedSays'
    <2>1. \A x : At(toLeader'[Iso], "pre_partition_done", x) => x = Len(cut')
        <3>1. \A x : At(toLeader'[Iso], "pre_partition_done", x) <=>
                  At(toLeader[Iso], "pre_partition_done", x) \/ x = Len(cut')
            BY <1>5 DEF Come, MsgRank
        <3> QED
            BY <1>4, <3>1
    <2> QED
        BY <1>1, <1>2, <1>3, <2>1 DEF IsolatedSays, leaderVars
<1> Served'
    BY <1>1, <1>2, <1>4, <1>6 DEF Served, WillCome
<1> Expected'
    BY <1>1, <1>6 DEF Expected
<1> PartsAwaited'
    BY <1>1, <1>2, <1>4, <1>6 DEF PartsAwaited
<1> Truthful'
    <2>1. \A d \in Ranks : \A x : Says(toLeader'[d], x) <=> Says(toLeader[d], x)
        BY <1>5 DEF Come, MsgRank
    <2> QED
        BY <1>1, <2>1 DEF Truthful, Truth
<1> Fresh'
    BY <1>1, <1>2, <1>6, <1>8 DEF Fresh, leaderVars
<1> Stopped'
    BY <1>1, <1>2 DEF Stopped, leaderVars
<1> Known' /\ Promises' /\ Carried'
    BY <1>1, <1>3 DEF Known, Promises, Carried, leaderVars
<1> QED
    BY <1>1, LeaderFrame

LEMMA HandOverStep ==
    ASSUME ClusterInv, HandOver
    PROVE  ClusterInv'
<1> USE DEF ClusterInv, Protocol
<1> USE RankFacts
<1>1. /\ state[Iso] = "handover" /\ toCoord[Iso] # <<>>
      /\ Head(toCoord[Iso]).type = "assign_node"
      /\ toCoord' = Popped(toCoord, Iso)
      /\ instance' = [p \in Ranks \X Ranks |->
                IF p[1] = Iso /\ p[2] + 1 \in DOMAIN Parts
                THEN Append(instance[p], Parts[p[2] + 1]) ELSE instance[p]]
      /\ state' = [state EXCEPT ![Iso] = "solving"]
      /\ UNCHANGED <<leaderVars, region, splitNode, source, cut, toLeader>>
    BY DEF HandOver, Popped, Goes, Parts
<1>2. /\ toCoord' \in [Ranks -> Seq(Orders)]
      /\ Gone(toCoord, toCoord', Iso, "assign_node")
      /\ \A d \in Ranks : InOrder(toCoord'[d])
      /\ Has(toCoord[Iso], "assign_node")
    <2>1. toCoord \in [Ranks -> Seq(Orders)] /\ \A d \in Ranks : InOrder(toCoord[d])
        BY DEF TypeOK, Channels
    <2>2. /\ toCoord' \in [Ranks -> Seq(Orders)]
          /\ Gone(toCoord, toCoord', Iso, Head(toCoord[Iso]).type)
          /\ \A d \in Ranks : InOrder(toCoord'[d])
          /\ Has(toCoord[Iso], Head(toCoord[Iso]).type)
        BY <1>1, <2>1, OrderGone
    <2> QED
        BY <1>1, <2>2
<1>3. phase # "init"
    BY <1>1 DEF Fresh
<1>4. /\ state'[Iso] = "solving" /\ \A d \in Ranks \ {Iso} : state'[d] = state[d]
    BY <1>1 DEF TypeOK
<1>5. /\ \A d \in Ranks : d + 1 \in DOMAIN Parts => d \in Coords /\ Parts[d + 1] \in SUBSET Points
      /\ \A d \in Coords : ~ Sent(Iso, d)
    BY <1>1, PartsFacts DEF TypeOK, PartsAwaited
<1>6. \A s, d \in Ranks : ~ (s = Iso /\ d + 1 \in DOMAIN Parts) =>
          instance'[<<s, d>>] = instance[<<s, d>>]
    BY <1>1
<1>7. \A d \in Ranks : d + 1 \in DOMAIN Parts => instance'[<<Iso, d>>] = <<Parts[d + 1]>>
    <2> SUFFICES ASSUME NEW d \in Ranks, d + 1 \in DOMAIN Parts
                 PROVE  instance'[<<Iso, d>>] = <<Parts[d + 1]>>
        OBVIOUS
    <2>1. instance[<<Iso, d>>] = <<>>
        BY <1>5 DEF Sent
    <2>2. instance'[<<Iso, d>>] = Append(instance[<<Iso, d>>], Parts[d + 1])
        BY <1>1
    <2> QED
        BY <2>1, <2>2
<1>8. instance' \in [Ranks \X Ranks -> Seq(SUBSET Points)]
    <2>1. \A p \in Ranks \X Ranks : instance[p] \in Seq(SUBSET Points)
        BY DEF TypeOK
    <2>2. \A p \in Ranks \X Ranks : p[1] = Iso /\ p[2] + 1 \in DOMAIN Parts =>
              Append(instance[p], Parts[p[2] + 1]) \in Seq(SUBSET Points)
        BY <1>5, <2>1
    <2> QED
        BY <1>1, <2>1, <2>2
<1>9. /\ \A d \in Coords, s \in Ranks : Awaits(d, s)' <=> Awaits(d, s)
      /\ \A d \in Ranks, s \in Ranks :
            Sent(s, d)' <=> Sent(s, d) \/ (s = Iso /\ d + 1 \in DOMAIN Parts)
      /\ \A s \in Ranks : Dead(s)' <=> Dead(s)
      /\ Parts' = Parts
    <2>1. \A d \in Ranks, s \in Ranks :
            Sent(s, d)' <=> Sent(s, d) \/ (s = Iso /\ d + 1 \in DOMAIN Parts)
        BY <1>6, <1>7 DEF Sent
    <2> QED
        BY <1>1, <1>2, <1>4, <2>1 DEF Gone, Awaits, Dead, Parts
<1>10. ~ Has(toLeader[Iso], "notify_result") /\ ~ Has(toLeader[Iso], "notify_error")
       /\ ~ Has(toCoord'[Iso], "assign_node")
    BY <1>1, <1>2 DEF Conversation, Dead, Gone
<1> TypeOK'
    BY <1>1, <1>2, <1>8 DEF TypeOK, leaderVars, States
<1> Roles'
    BY <1>1, <1>2, <1>4 DEF Gone, Roles
<1> Channels'
    BY <1>1, <1>2 DEF Gone, Channels, leaderVars
<1> OneRequest'
    BY <1>1, <1>2 DEF Gone, OneRequest
<1> Conversation'
    BY <1>1, <1>2, <1>4, <1>9, <1>10 DEF Gone, Conversation
<1> Kept'
    BY <1>1, <1>2 DEF Gone, Kept
<1> IsolatedSays'
    BY <1>1, <1>3, <1>4, AtHas DEF IsolatedSays, leaderVars
<1> Served'
    BY <1>1, <1>2, <1>4, <1>9 DEF Gone, Served, WillCome
<1> Expected'
    <2>1. \A s, d \in Ranks : Sent(s, d)' =>
              d \in Coords /\ Awaits(d, s)' /\ Len(instance'[<<s, d>>]) = 1
        <3>1. \A d \in Ranks : d + 1 \in DOMAIN Parts =>
                  d \in Coords /\ Awaits(d, Iso)' /\ Len(instance'[<<Iso, d>>]) = 1
            <4>1. \A d \in Ranks : d + 1 \in DOMAIN Parts => Len(instance'[<<Iso, d>>]) = 1
                BY <1>7
            <4> QED
                BY <1>2, <1>5, <1>9, <4>1 DEF PartsAwaited
        <3> QED
            BY <1>6, <1>9, <3>1 DEF Expected
    <2>2. \A s, d \in Coords : At(toCoord'[s], "transfer_node", d) => Awaits(d, s)' /\ ~ Sent(s, d)'
        BY <1>2, <1>9 DEF Gone, Expected
    <2> QED
        BY <2>1, <2>2 DEF Expected
<1> PartsAwaited'
    BY <1>1, <1>4, <1>10 DEF PartsAwaited
<1> Truthful'
    BY <1>1 DEF Truthful, Truth
<1> Fresh'
    BY <1>1, <1>3 DEF Fresh, leaderVars
<1> Stopped'
    BY <1>1, <1>2, <1>4 DEF Gone, Stopped, leaderVars
<1> Known'
    <2> SUFFICES ASSUME phase = "run" PROVE IdleKnown' /\ SplitKnown' /\ RequestKnown'
        BY <1>1 DEF Known, leaderVars
    <2> IdleKnown /\ SplitKnown /\ RequestKnown
        BY DEF Known
    <2>1. IdleKnown'
        BY <1>1, <1>2, <1>4 DEF Gone, IdleKnown, leaderVars
    <2>2. SplitKnown'
        BY <1>1, <1>2 DEF Gone, SplitKnown, leaderVars
    <2>3. RequestKnown'
        BY <1>1, <1>2, <1>4 DEF Gone, RequestKnown, leaderVars
    <2> QED
        BY <2>1, <2>2, <2>3
<1> Promises'
    <2>1. \A d \in Coords : \A x : Promise(d, x)' <=> Promise(d, x)
        BY <1>1, <1>2 DEF Gone, Promise
    <2> QED
        BY <1>1, <2>1 DEF Promises, Waiting, leaderVars
<1> Carried'
    <2>1. \A s \in Ranks, d \in Coords : \A p : Comes(s, d, p) => Comes(s, d, p)'
        <3> SUFFICES ASSUME NEW s \in Ranks, NEW d \in Coords, NEW p, Comes(s, d, p)
                     PROVE  Comes(s, d, p)'
            OBVIOUS
        <3>1. CASE s = Iso /\ d + 1 \in DOMAIN Parts
            <4>1. p \in Parts[d + 1]
                BY <1>1, <1>5, <3>1, AtHas DEF Comes, Roles, Dead
            <4>2. instance'[<<Iso, d>>][1] = Parts[d + 1]
                BY <1>7, <3>1
            <4> QED
                BY <1>9, <3>1, <4>1, <4>2 DEF Comes
        <3>2. CASE ~ (s = Iso /\ d + 1 \in DOMAIN Parts)
            BY <1>1, <1>2, <1>4, <1>6, <1>9, <3>2 DEF Gone, Comes
        <3> QED
            BY <3>1, <3>2
    <2>2. \A d \in Coords : \A p : Carries(d, p) => Carries(d, p)'
        BY <1>1, <1>4, <1>9, <2>1 DEF Carries
    <2> QED
        BY <1>1, <2>2 DEF Carried, leaderVars
<1> QED
    BY <1>1, LeaderFrame

-----------------------------------------------------------------------------
(* The distributed tree.                                                   *)
TreeNodes == [up : SUBSET Nat, partial : Verdicts, status : Verdicts]

LEMMA Least ==
    ASSUME NEW D, D \subseteq Nat, D # {}
    PROVE  \E m \in D : \A d \in D : m <= d
<1>1. PICK m \in D : \A d \in D : <<d, m>> \notin OpToRel(<, Nat)
    BY NatLessThanWellFounded, WFMin
<1>2. ASSUME NEW d \in D, d < m PROVE FALSE
    <2>1. <<d, m>> \in Nat \X Nat /\ <<d, m>>[1] < <<d, m>>[2]
        BY <1>2
    <2>2. <<d, m>> \in OpToRel(<, Nat)
        BY <2>1, Zenon DEF OpToRel
    <2> QED
        BY <1>1, <2>2
<1>3. \A d \in D : m <= d
    BY <1>2
<1> QED
    BY <1>3

(* Below an unsat node every node is unsat.                                *)
LEMMA UnsatBelow ==
    ASSUME NEW t \in Seq(TreeNodes), ShapeOf(t), JustifiedOf(t),
           NEW a \in 1 .. Len(t), t[a].status = "unsat",
           NEW d \in 1 .. Len(t), a \in t[d].up
    PROVE  t[d].status = "unsat"
<1> DEFINE D == {k \in 1 .. Len(t) : a \in t[k].up /\ t[k].status # "unsat"}
<1> SUFFICES ASSUME D # {} PROVE FALSE
    OBVIOUS
<1>1. Len(t) \in Nat /\ D \subseteq Nat
    OBVIOUS
<1>2. PICK m \in D : \A k \in D : m <= k
    BY <1>1, Least
<1>3. m # 1 /\ m # a
    <2>1. t[1].up \subseteq 1 .. 1
        BY <1>1 DEF ShapeOf
    <2> QED
        BY <1>2, <2>1
<1>4. PICK b \in 1 .. m - 1 : m \in ChildrenOf(t, b)
    BY <1>2, <1>3 DEF ShapeOf
<1>5. a \in t[b].up /\ b \in 1 .. Len(t) /\ b < m
    BY <1>1, <1>2, <1>3, <1>4 DEF ChildrenOf
<1>6. t[b].status = "unsat"
    BY <1>1, <1>2, <1>5
<1> QED
    BY <1>2, <1>4, <1>5, <1>6 DEF JustifiedOf

(* node_partial_solved_unsat keeps the nodes and makes a node unsat only   *)
(* together with everything below it.                                      *)
Raises(t, n, new) ==
    /\ new \in Seq(TreeNodes) /\ Len(new) = Len(t)
    /\ \A k \in 1 .. Len(t) :
          /\ new[k].up = t[k].up
          /\ new[k].partial = IF k = n THEN "unsat" ELSE t[k].partial
          /\ t[k].status = "unsat" => new[k].status = "unsat"
    /\ ShapeOf(new) /\ JustifiedOf(new)

LEMMA PartialUnsatFacts ==
    ASSUME NEW t \in Seq(TreeNodes), ShapeOf(t), JustifiedOf(t), NEW n \in 1 .. Len(t)
    PROVE  Raises(t, n, PartialUnsat(t, n))
<1> DEFINE u == [t EXCEPT ![n].partial = "unsat"]
           raised == {a \in u[n].up : \A b \in u[n].up : a \in u[b].up =>
                         /\ u[b].partial = "unsat"
                         /\ \A k \in ChildrenOf(u, b) \ u[n].up : u[k].status = "unsat"}
           new == PartialUnsat(t, n)
<1>1. Len(t) \in Nat /\ DOMAIN t = 1 .. Len(t) /\ \A k \in 1 .. Len(t) : t[k] \in TreeNodes
    OBVIOUS
<1>2. DOMAIN u = 1 .. Len(t)
    BY <1>1
<1>3. \A k \in 1 .. Len(t) :
          /\ u[k].up = t[k].up /\ u[k].status = t[k].status
          /\ u[k].partial = (IF k = n THEN "unsat" ELSE t[k].partial)
          /\ u[k] \in TreeNodes
    BY <1>1 DEF TreeNodes, Verdicts
<1>4. new = [k \in 1 .. Len(t) |-> IF k \in raised THEN [u[k] EXCEPT !.status = "unsat"] ELSE u[k]]
    BY <1>2 DEF PartialUnsat
<1>5. \A b \in 1 .. Len(t) : ChildrenOf(u, b) = ChildrenOf(t, b)
    BY <1>1, <1>2, <1>3 DEF ChildrenOf
<1>6. \A a, b \in 1 .. Len(t) : a \in raised /\ b \in t[n].up /\ a \in t[b].up =>
          /\ u[b].partial = "unsat"
          /\ \A k \in ChildrenOf(t, b) \ t[n].up : t[k].status = "unsat"
    <2>1. \A k \in 1 .. Len(t), b \in 1 .. Len(t) : k \in ChildrenOf(t, b) => u[k].status = t[k].status
        BY <1>3
    <2>2. \A b : ChildrenOf(t, b) \subseteq 1 .. Len(t)
        BY <1>1 DEF ChildrenOf
    <2> QED
        BY <1>3, <1>5, <2>1, <2>2
<1>7. \A a \in t[n].up :
          (\A b \in t[n].up : a \in t[b].up =>
              /\ u[b].partial = "unsat"
              /\ \A k \in ChildrenOf(t, b) \ t[n].up : t[k].status = "unsat")
          => a \in raised
    <2>1. t[n].up \subseteq 1 .. Len(t)
        BY <1>1 DEF ShapeOf
    <2>2. \A b : ChildrenOf(t, b) \subseteq 1 .. Len(t)
        BY <1>1 DEF ChildrenOf
    <2> QED
        BY <1>3, <1>5, <2>1, <2>2
<1>8. raised \subseteq t[n].up
    BY <1>3
<1> HIDE DEF u, raised
<1>9. \A k \in 1 .. Len(t) :
          /\ new[k].up = t[k].up
          /\ new[k].partial = (IF k = n THEN "unsat" ELSE t[k].partial)
          /\ new[k].status = "unsat" <=> t[k].status = "unsat" \/ k \in raised
          /\ new[k] \in TreeNodes
    <2> SUFFICES ASSUME NEW k \in 1 .. Len(t)
                 PROVE  /\ new[k].up = t[k].up
                        /\ new[k].partial = (IF k = n THEN "unsat" ELSE t[k].partial)
                        /\ new[k].status = "unsat" <=> t[k].status = "unsat" \/ k \in raised
                        /\ new[k] \in TreeNodes
        OBVIOUS
    <2>1. u[k] \in TreeNodes
        BY <1>3
    <2>2. CASE k \in raised
        <3>1. new[k] = [u[k] EXCEPT !.status = "unsat"]
            BY <1>4, <2>2
        <3>2. new[k].up = u[k].up /\ new[k].partial = u[k].partial /\ new[k].status = "unsat"
              /\ new[k] \in TreeNodes
            BY <2>1, <3>1 DEF TreeNodes, Verdicts
        <3> QED
            BY <1>3, <2>2, <3>2
    <2>3. CASE k \notin raised
        BY <1>3, <1>4, <2>1, <2>3
    <2> QED
        BY <2>2, <2>3
<1>10. new \in Seq(TreeNodes) /\ Len(new) = Len(t) /\ DOMAIN new = 1 .. Len(t)
    <2>1. new \in [1 .. Len(t) -> TreeNodes]
        BY <1>4, <1>9
    <2> QED
        BY <1>1, <2>1
<1> HIDE DEF new
<1>11. \A b \in 1 .. Len(t) : ChildrenOf(new, b) = ChildrenOf(t, b)
    BY <1>1, <1>9, <1>10 DEF ChildrenOf
<1>12. ShapeOf(new)
    <2>1. \A k \in 1 .. Len(t) : 1 .. k - 1 \subseteq 1 .. Len(t) /\ t[k].up \subseteq 1 .. Len(t)
        BY <1>1 DEF ShapeOf
    <2> QED
        BY <1>1, <1>9, <1>10, <1>11, <2>1 DEF ShapeOf
<1>13. JustifiedOf(new)
    <2> SUFFICES ASSUME NEW k \in 1 .. Len(t), new[k].status = "unsat",
                        NEW j \in ChildrenOf(t, k)
                 PROVE  new[k].partial = "unsat" /\ new[j].status = "unsat"
        <3>1. \A k \in 1 .. Len(t) : new[k].status = "unsat" => new[k].partial = "unsat"
            <4> SUFFICES ASSUME NEW k \in 1 .. Len(t), new[k].status = "unsat"
                         PROVE  new[k].partial = "unsat"
                OBVIOUS
            <4>1. CASE t[k].status = "unsat"
                BY <1>9, <4>1 DEF JustifiedOf
            <4>2. CASE k \in raised
                <5>1. k \in t[n].up /\ k \in t[k].up
                    BY <1>8, <4>2 DEF ShapeOf
                <5> QED
                    BY <1>3, <1>6, <1>9, <4>2, <5>1
            <4> QED
                BY <1>9, <4>1, <4>2
        <3> QED
            BY <1>10, <1>11, <3>1 DEF JustifiedOf
    <2>1. j \in 1 .. Len(t) /\ k \in t[j].up /\ j \in t[j].up
        <3>1. j \in 1 .. Len(t) /\ t[j].up = t[k].up \cup {j}
            BY <1>1 DEF ChildrenOf
        <3> QED
            BY <3>1 DEF ShapeOf
    <2>2. CASE t[k].status = "unsat"
        BY <1>9, <2>1, <2>2 DEF JustifiedOf
    <2>3. CASE k \in raised
        <3>1. k \in t[n].up /\ k \in t[k].up
            BY <1>8, <2>3 DEF ShapeOf
        <3>2. new[k].partial = "unsat"
            BY <1>3, <1>6, <1>9, <2>3, <3>1
        <3>3. CASE j \in t[n].up
            <4>1. \A b \in t[n].up : j \in t[b].up => b \in 1 .. Len(t) /\ k \in t[b].up
                <5>1. t[n].up \subseteq 1 .. Len(t)
                    BY <1>1 DEF ShapeOf
                <5> QED
                    BY <2>1, <5>1 DEF ShapeOf
            <4>2. j \in raised
                BY <1>6, <1>7, <2>3, <3>3, <4>1
            <4> QED
                BY <1>9, <2>1, <3>2, <4>2
        <3>4. CASE j \notin t[n].up
            BY <1>6, <1>9, <2>1, <2>3, <3>1, <3>2, <3>4
        <3> QED
            BY <3>3, <3>4
    <2> QED
        BY <1>9, <2>2, <2>3
<1> QED
    BY <1>9, <1>10, <1>12, <1>13 DEF Raises, new

(* A split adds a child to an open node.                                   *)
Grows(t, a, new) ==
    /\ new \in Seq(TreeNodes) /\ Len(new) = Len(t) + 1
    /\ \A k \in 1 .. Len(t) : new[k] = t[k]
    /\ new[Len(t) + 1].partial = "unsolved"
    /\ ShapeOf(new) /\ JustifiedOf(new)

LEMMA ChildFacts ==
    ASSUME NEW t \in Seq(TreeNodes), ShapeOf(t), JustifiedOf(t),
           NEW a \in 1 .. Len(t), t[a].partial # "unsat"
    PROVE  Grows(t, a, ChildOf(t, a))
<1> DEFINE n == Len(t) + 1
           x == TreeNode(t[a].up \cup {n})
           new == Append(t, x)
<1>1. Len(t) \in Nat /\ n \in Nat /\ DOMAIN t = 1 .. Len(t)
      /\ \A k \in 1 .. Len(t) : t[k] \in TreeNodes
    OBVIOUS
<1>2. /\ x.up = t[a].up \cup {n} /\ x.partial = "unsolved" /\ x.status = "unsolved"
      /\ x \in TreeNodes
    BY <1>1 DEF TreeNode, TreeNodes, Verdicts
<1> HIDE DEF x
<1>3. /\ new \in Seq(TreeNodes) /\ Len(new) = n /\ DOMAIN new = 1 .. n
      /\ new[n] = x /\ \A k \in 1 .. Len(t) : new[k] = t[k]
    BY <1>1, <1>2
<1> HIDE DEF new
<1>4. \A k \in 1 .. n : k = n \/ k \in 1 .. Len(t)
    BY <1>1
<1>5. \A k \in 1 .. Len(t) : t[k].up \subseteq 1 .. Len(t) /\ n \notin t[k].up /\ k # n
    BY <1>1 DEF ShapeOf
<1>6. \A b \in 1 .. Len(t) : ChildrenOf(new, b) = ChildrenOf(t, b) \cup (IF b = a THEN {n} ELSE {})
    <2> SUFFICES ASSUME NEW b \in 1 .. Len(t)
                 PROVE  ChildrenOf(new, b) = ChildrenOf(t, b) \cup (IF b = a THEN {n} ELSE {})
        OBVIOUS
    <2>1. \A k \in 1 .. Len(t) : k \in ChildrenOf(new, b) <=> k \in ChildrenOf(t, b)
        BY <1>1, <1>3, <1>4 DEF ChildrenOf
    <2>2. n \in ChildrenOf(new, b) <=> b = a
        <3>1. n \in ChildrenOf(new, b) <=> t[a].up \cup {n} = t[b].up \cup {n}
            BY <1>1, <1>2, <1>3, <1>5 DEF ChildrenOf
        <3>2. t[a].up \cup {n} = t[b].up \cup {n} => t[a].up = t[b].up
            BY <1>5
        <3>3. t[a].up = t[b].up => a = b
            <4>1. a \in t[a].up /\ b \in t[b].up /\ t[a].up \subseteq 1 .. a /\ t[b].up \subseteq 1 .. b
                BY DEF ShapeOf
            <4> QED
                BY <1>1, <4>1
        <3> QED
            BY <3>1, <3>2, <3>3
    <2>3. ChildrenOf(new, b) \subseteq 1 .. n /\ ChildrenOf(t, b) \subseteq 1 .. Len(t)
        BY <1>1, <1>3 DEF ChildrenOf
    <2> QED
        BY <1>4, <1>5, <2>1, <2>2, <2>3
<1>7. ShapeOf(new)
    <2>1. ASSUME NEW k \in 1 .. Len(t)
          PROVE  /\ new[k].up \subseteq 1 .. k
                 /\ k \in new[k].up /\ 1 \in new[k].up
                 /\ \A e \in new[k].up : new[e].up \subseteq new[k].up
                 /\ k # 1 => \E b \in 1 .. k - 1 : k \in ChildrenOf(new, b)
        <3>1. \A e \in t[k].up : e \in 1 .. Len(t)
            BY <1>5
        <3>2. 1 .. k - 1 \subseteq 1 .. Len(t)
            BY <1>1
        <3> QED
            BY <1>3, <1>6, <3>1, <3>2 DEF ShapeOf
    <2>2. /\ new[n].up \subseteq 1 .. n
          /\ n \in new[n].up /\ 1 \in new[n].up
          /\ \A e \in new[n].up : new[e].up \subseteq new[n].up
          /\ \E b \in 1 .. n - 1 : n \in ChildrenOf(new, b)
        <3>1. new[n].up = t[a].up \cup {n}
            BY <1>2, <1>3
        <3>2. t[a].up \subseteq 1 .. Len(t) /\ 1 \in t[a].up
            BY <1>5 DEF ShapeOf
        <3>3. \A e \in t[a].up : new[e].up \subseteq t[a].up
            BY <1>3, <3>2 DEF ShapeOf
        <3>4. n \in ChildrenOf(new, a) /\ a \in 1 .. n - 1
            BY <1>1, <1>6
        <3> QED
            BY <1>1, <3>1, <3>2, <3>3, <3>4
    <2> QED
        BY <1>1, <1>3, <1>4, <2>1, <2>2 DEF ShapeOf
<1>8. JustifiedOf(new)
    <2> SUFFICES ASSUME NEW k \in 1 .. n, new[k].status = "unsat"
                 PROVE  new[k].partial = "unsat"
                        /\ \A j \in ChildrenOf(new, k) : new[j].status = "unsat"
        BY <1>3 DEF JustifiedOf
    <2>1. k \in 1 .. Len(t) /\ t[k].status = "unsat"
        BY <1>2, <1>3, <1>4
    <2>2. k # a
        BY <2>1 DEF JustifiedOf
    <2>3. ChildrenOf(new, k) = ChildrenOf(t, k) /\ ChildrenOf(t, k) \subseteq 1 .. Len(t)
        BY <1>1, <1>6, <2>1, <2>2 DEF ChildrenOf
    <2> QED
        BY <1>3, <2>1, <2>3 DEF JustifiedOf
<1>9. ChildOf(t, a) = new
    BY DEF ChildOf, new, x
<1> QED
    BY <1>2, <1>3, <1>7, <1>8, <1>9 DEF Grows

-----------------------------------------------------------------------------
(* The steps of the leader.                                                *)
LEMMA AppendAdded ==
    ASSUME NEW S, NEW q \in Seq(S), NEW m \in S
    PROVE  Append(q, m) \in Seq(S) /\ Added(q, Append(q, m), m)
<1> DEFINE r == Append(q, m)
<1>1. r \in Seq(S) /\ Len(r) = Len(q) + 1 /\ r[Len(r)] = m /\ \A i \in 1 .. Len(q) : r[i] = q[i]
    BY AppendProperties
<1> HIDE DEF r
<1>2. Added(q, r, m)
    BY <1>1, AppendFacts
<1> QED
    BY <1>1, <1>2 DEF r

(* The leader ends, on a report of c or by itself: everybody is told, and  *)
(* nothing else changes.                                                   *)
LEMMA EndStep ==
    ASSUME ClusterInv, NEW r \in Results \ {"Leader-Error"}, Ends(r, toCoord), phase # "ended",
           toLeader' \in [Ranks -> Seq(Reports)],
           \A d \in Ranks : ReportsInOrder(toLeader'[d]),
           \A d \in Ranks : \A u : Has(toLeader'[d], u) => Has(toLeader[d], u),
           \A d \in Ranks : \A u, x : At(toLeader'[d], u, x) => At(toLeader[d], u, x),
           \A d \in Ranks : \A x : Says(toLeader'[d], x) => Says(toLeader[d], x),
           state[Iso] # "prePartition", ~ Has(toLeader[Iso], "pre_partition_done"),
           tree' \in Seq(TreeNodes), Shape', Justified',
           r = "unsat" => SatPoints = {}, r = "sat" => SatPoints # {},
           UNCHANGED <<info, assigned, idle, nextSplit, coordVars, instance>>
    PROVE  ClusterInv'
<1> DEFINE m == Msg("terminate_coordinator")
<1> USE DEF ClusterInv, Protocol
<1> USE RankFacts
<1>1. /\ phase' = "ended" /\ result' = r
      /\ toCoord' = [d \in Ranks |-> Append(toCoord[d], m)]
    BY DEF Ends
<1>2. m \in Orders /\ m.type = "terminate_coordinator"
    BY DEF Msg, Orders
<1> HIDE DEF m
<1>3. \A d \in Ranks : ~ Has(toCoord[d], "terminate_coordinator") /\ InOrder(toCoord[d])
    BY DEF Channels
<1>4. ASSUME NEW d \in Ranks
      PROVE  /\ toCoord'[d] \in Seq(Orders) /\ InOrder(toCoord'[d])
             /\ \A u : u # "terminate_coordinator" => (Has(toCoord'[d], u) <=> Has(toCoord[d], u))
             /\ \A u, x : u # "terminate_coordinator" =>
                    (At(toCoord'[d], u, x) <=> At(toCoord[d], u, x))
    <2>1. toCoord[d] \in Seq(Orders)
        BY DEF TypeOK
    <2>2. toCoord'[d] \in Seq(Orders) /\ Added(toCoord[d], toCoord'[d], m)
        BY <1>1, <1>2, <2>1, AppendAdded
    <2> QED
        BY <1>2, <1>3, <2>2 DEF Added, InOrder
<1>5. /\ \A d \in Ranks, s \in Ranks : Awaits(d, s)' <=> Awaits(d, s)
      /\ \A d \in Ranks, s \in Ranks : Sent(s, d)' <=> Sent(s, d)
      /\ \A s \in Ranks : Dead(s)' <=> Dead(s)
      /\ Parts' = Parts
    BY <1>4 DEF Awaits, Sent, Dead, Parts, coordVars
<1> TypeOK'
    <2>1. toCoord' \in [Ranks -> Seq(Orders)]
        BY <1>1, <1>4
    <2> QED
        BY <1>1, <2>1 DEF TypeOK, coordVars, TreeNodes
<1> Roles'
    BY <1>4 DEF Roles, coordVars
<1> Channels'
    BY <1>1, <1>4 DEF Channels
<1> OneRequest'
    BY <1>4 DEF OneRequest
<1> Conversation'
    BY <1>4, <1>5 DEF Conversation, coordVars
<1> Kept'
    BY <1>4 DEF Kept, coordVars
<1> IsolatedSays'
    BY <1>1, AtHas DEF IsolatedSays, coordVars
<1> Served'
    BY <1>4, <1>5 DEF Served, WillCome, coordVars
<1> Expected'
    BY <1>4, <1>5 DEF Expected
<1> PartsAwaited'
    BY <1>4, <1>5 DEF PartsAwaited, coordVars
<1> Truthful'
    BY DEF Truthful, Truth, coordVars
<1> Fresh'
    BY <1>1 DEF Fresh
<1> Stopped'
    BY <1>1 DEF Stopped, coordVars
<1> Known' /\ Promises' /\ Carried' /\ Open'
    BY <1>1 DEF Known, Promises, Carried, Open
<1> AnswerSound' /\ LeaderNeverFails'
    BY <1>1 DEF AnswerSound, LeaderNeverFails
<1> QED
    OBVIOUS

LEMMA TimesOutStep ==
    ASSUME ClusterInv, TimesOut
    PROVE  ClusterInv'
<1>1. /\ phase = "run" /\ Ends("timeout", toCoord)
      /\ UNCHANGED <<tree, info, assigned, idle, nextSplit, coordVars, toLeader, instance>>
    BY DEF TimesOut
<1>2. /\ toLeader' \in [Ranks -> Seq(Reports)] /\ \A d \in Ranks : ReportsInOrder(toLeader'[d])
      /\ state[Iso] # "prePartition" /\ ~ Has(toLeader[Iso], "pre_partition_done")
      /\ tree' \in Seq(TreeNodes) /\ Shape' /\ Justified'
    <2>1. Shape' /\ Justified'
        BY <1>1 DEF ClusterInv, Shape, Justified, ShapeOf, JustifiedOf
    <2> QED
        BY <1>1, <2>1 DEF ClusterInv, Protocol, TypeOK, TreeNodes, Channels, IsolatedSays
<1>3. "timeout" \in Results \ {"Leader-Error"}
    BY DEF Results
<1> QED
    BY <1>1, <1>2, <1>3, EndStep

(* A report that ends the leader without a look at the tree.               *)
LEMMA LastReportStep ==
    ASSUME ClusterInv, NEW c \in Ranks, NEW t \in {"notify_result", "notify_error"}, Hears(c, t),
           NEW r \in Results \ {"Leader-Error"}, Ends(r, toCoord),
           r = "unsat" => SatPoints = {}, r = "sat" => SatPoints # {},
           UNCHANGED <<info, assigned, idle, nextSplit, coordVars, instance>>,
           tree' \in Seq(TreeNodes), Shape', Justified'
    PROVE  ClusterInv'
<1> USE RankFacts
<1>1. TypeOK /\ Channels
    BY DEF ClusterInv, Protocol
<1>2. /\ phase = "run" \/ (phase = "init" /\ c = Iso)
      /\ toLeader' \in [Ranks -> Seq(Reports)]
      /\ Gone(toLeader, toLeader', c, t)
      /\ \A d \in Ranks : ReportsInOrder(toLeader'[d])
      /\ Has(toLeader[c], t)
      /\ t = "notify_error" => ~ Has(toLeader[c], "pre_partition_done")
    BY <1>1, HeardFacts
<1>3. state[Iso] # "prePartition" /\ ~ Has(toLeader[Iso], "pre_partition_done")
    <2>1. CASE phase = "run"
        BY <2>1 DEF ClusterInv, Protocol, IsolatedSays
    <2>2. CASE c = Iso
        <3>1. state[Iso] # "prePartition"
            BY <1>2, <2>2 DEF ClusterInv, Protocol, Conversation, Dead
        <3>2. CASE t = "notify_result"
            <4>1. \A k : ~ At(toLeader[Iso], "pre_partition_done", k)
                <5>1. \A k : At(toLeader[Iso], "pre_partition_done", k) => k \in 0 .. N
                    <6>1. toLeader[Iso] \in Seq(Reports)
                        BY <1>1 DEF TypeOK
                    <6> QED
                        BY <6>1 DEF At, Reports
                <5> QED
                    BY <1>2, <2>2, <3>2, <5>1 DEF ClusterInv, Protocol, Conversation, IsolatedSays
            <4> QED
                BY <3>1, <4>1 DEF Has, At
        <3> QED
            BY <1>2, <2>2, <3>1, <3>2
    <2> QED
        BY <1>2, <2>1, <2>2
<1>4. /\ \A d \in Ranks : \A u : Has(toLeader'[d], u) => Has(toLeader[d], u)
      /\ \A d \in Ranks : \A u, x : At(toLeader'[d], u, x) => At(toLeader[d], u, x)
      /\ \A d \in Ranks : \A x : Says(toLeader'[d], x) => Says(toLeader[d], x)
    BY <1>2 DEF Gone
<1>5. phase # "ended"
    BY <1>2
<1> QED
    BY <1>2, <1>3, <1>4, <1>5, EndStep

LEMMA HearErrorStep ==
    ASSUME ClusterInv, NEW c \in Ranks, HearError(c)
    PROVE  ClusterInv'
<1>1. /\ Hears(c, "notify_error") /\ Ends("Coordinator-Error", toCoord)
      /\ UNCHANGED <<tree, info, assigned, idle, nextSplit, coordVars, instance>>
    BY DEF HearError
<1>2. "Coordinator-Error" \in Results \ {"Leader-Error"}
    BY DEF Results
<1>3. tree' \in Seq(TreeNodes) /\ Shape' /\ Justified'
    BY <1>1 DEF ClusterInv, TypeOK, TreeNodes, Shape, Justified, ShapeOf, JustifiedOf
<1> QED
    BY <1>1, <1>2, <1>3, LastReportStep

LEMMA HearOriginalResultStep ==
    ASSUME ClusterInv, HearOriginalResult
    PROVE  ClusterInv'
<1> DEFINE r == Head(toLeader[Iso]).result
<1>1. /\ Hears(Iso, "notify_result") /\ Ends(r, toCoord)
      /\ UNCHANGED <<tree, info, assigned, idle, nextSplit, coordVars, instance>>
    BY DEF HearOriginalResult
<1>2. r = Truth(Points)
    <2>1. Says(toLeader[Iso], r)
        BY <1>1, RankFacts, HeardFacts DEF ClusterInv, Protocol
    <2> QED
        BY <2>1, RankFacts DEF ClusterInv, Protocol, Truthful, IsolatedSays
<1> HIDE DEF r
<1>3. /\ r \in Results \ {"Leader-Error"}
      /\ r = "unsat" => SatPoints = {}
      /\ r = "sat" => SatPoints # {}
    BY <1>2, ClusterConstants DEF Truth, Results
<1>4. tree' \in Seq(TreeNodes) /\ Shape' /\ Justified'
    BY <1>1 DEF ClusterInv, TypeOK, TreeNodes, Shape, Justified, ShapeOf, JustifiedOf
<1> QED
    BY <1>1, <1>3, <1>4, RankFacts, LastReportStep

LEMMA HearSplitSucceedStep ==
    ASSUME ClusterInv, NEW c \in Ranks, HearSplitSucceed(c)
    PROVE  ClusterInv'
<1> DEFINE t == Head(toLeader[c]).rank
           a == assigned[c]
           mid == Post(toCoord, t, MsgRank("assign_node", c))
<1> USE DEF ClusterInv, Protocol
<1> USE RankFacts
<1>1. /\ phase = "run" \/ (phase = "init" /\ c = Iso)
      /\ toLeader' \in [Ranks -> Seq(Reports)]
      /\ Gone(toLeader, toLeader', c, "split_succeed")
      /\ \A d \in Ranks : ReportsInOrder(toLeader'[d])
      /\ Has(toLeader[c], "split_succeed") /\ At(toLeader[c], "split_succeed", t)
      /\ t \in Coords
    <2>1. Hears(c, "split_succeed")
        BY DEF HearSplitSucceed
    <2>2. Head(toLeader[c]) \in Reports /\ Head(toLeader[c]).type = "split_succeed"
        BY <2>1, HeardFacts
    <2>3. t \in Coords
        BY <2>2 DEF Reports
    <2> QED
        BY <2>1, <2>3, HeardFacts
<1>2. c \in Coords /\ phase = "run"
    BY <1>1 DEF Roles
<1>3. IdleKnown /\ SplitKnown /\ RequestKnown
    BY <1>2 DEF Known
<1>4. /\ info[c] = "splitting" /\ toCoord[c] = <<>>
      /\ info[t] = "idle" /\ ~ Waiting(t) /\ t # c
      /\ \A d \in Coords : Promise(d, t) => d = c
    <2>1. info[c] = "splitting" /\ toCoord[c] = <<>>
        BY <1>1, <1>2, <1>3 DEF SplitKnown
    <2>2. Promise(c, t)
        BY <1>1 DEF Promise
    <2> QED
        BY <1>1, <1>2, <2>1, <2>2 DEF Promises
<1>5. /\ state[t] = "idle" /\ assigned[t] = NoNode
      /\ ~ Has(toCoord[t], "assign_node")
      /\ ~ Has(toLeader[t], "split_succeed") /\ ~ Has(toLeader[t], "notify_result")
      /\ ~ Has(toLeader[t], "notify_error")
      /\ \A s \in Ranks : ~ Awaits(t, s)
    <2>1. /\ state[t] = "idle" /\ assigned[t] = NoNode
          /\ ~ Has(toCoord[t], "assign_node")
          /\ ~ Has(toLeader[t], "split_succeed") /\ ~ Has(toLeader[t], "notify_result")
          /\ ~ Has(toLeader[t], "notify_error")
        BY <1>1, <1>3, <1>4 DEF IdleKnown
    <2> QED
        BY <2>1, AtHas DEF Awaits
<1>6. a \in 1 .. Len(tree) /\ tree[a].partial = "unsolved" /\ a # NoNode
      /\ \A d \in Coords \ {c} : assigned[d] # a
    BY <1>2, <1>4 DEF Open, NoNode
<1>7. /\ tree' = ChildOf(tree, a)
      /\ assigned' = [assigned EXCEPT ![t] = Len(tree) + 1]
      /\ info' = [info EXCEPT ![t] = "solving", ![c] = "solving"]
      /\ toCoord' = SplitMessages(c, t)
      /\ UNCHANGED <<phase, result, idle, nextSplit, coordVars, instance>>
    <2>1. MayAssign(c, t)
        BY <1>4, <1>6 DEF MayAssign
    <2> QED
        BY <2>1 DEF HearSplitSucceed
<1>8. /\ info'[t] = "solving" /\ info'[c] = "solving"
      /\ assigned'[t] = Len(tree) + 1
      /\ \A d \in Ranks \ {t} : assigned'[d] = assigned[d]
      /\ \A d \in Ranks \ {t, c} : info'[d] = info[d]
    BY <1>1, <1>2, <1>4, <1>7 DEF TypeOK
<1>9. Grows(tree, a, tree')
    BY <1>6, <1>7, ChildFacts DEF TypeOK, TreeNodes, Shape, Justified
<1>10. /\ mid \in [Ranks -> Seq(Orders)] /\ \A d \in Ranks : InOrder(mid[d])
       /\ Come(toCoord, mid, t, MsgRank("assign_node", c))
    <2>1. MsgRank("assign_node", c) \in Orders /\ MsgRank("assign_node", c).type = "assign_node"
        BY DEF MsgRank, Orders
    <2>2. toCoord \in [Ranks -> Seq(Orders)] /\ \A d \in Ranks : InOrder(toCoord[d])
          /\ ~ Has(toCoord[t], "terminate_coordinator")
        BY <1>1, <1>2 DEF TypeOK, Channels
    <2> QED
        BY <1>1, <1>5, <2>1, <2>2, OrderCome
<1>11. /\ toCoord' \in [Ranks -> Seq(Orders)] /\ \A d \in Ranks : InOrder(toCoord'[d])
       /\ Come(mid, toCoord', c, MsgRank("transfer_node", t))
    <2>1. MsgRank("transfer_node", t) \in Orders /\ MsgRank("transfer_node", t).type = "transfer_node"
        BY <1>1 DEF MsgRank, Orders
    <2>2. mid[c] = toCoord[c] /\ mid[c] = <<>> /\ \A u : ~ Has(mid[c], u)
        BY <1>2, <1>4, <1>10 DEF Come, Has
    <2>3. toCoord' = Post(mid, c, MsgRank("transfer_node", t))
        BY <1>7 DEF SplitMessages
    <2> HIDE DEF mid
    <2> QED
        BY <1>10, <2>1, <2>2, <2>3, OrderCome
<1> HIDE DEF mid, t, a
<1>12. /\ \A d \in Ranks : \A u : Has(toCoord'[d], u) <=>
             Has(toCoord[d], u) \/ (d = t /\ u = "assign_node") \/ (d = c /\ u = "transfer_node")
       /\ \A d \in Ranks : \A u, x : At(toCoord'[d], u, x) <=>
             \/ At(toCoord[d], u, x)
             \/ d = t /\ u = "assign_node" /\ x = c
             \/ d = c /\ u = "transfer_node" /\ x = t
       /\ \A d \in Ranks \ {t, c} : toCoord'[d] = toCoord[d]
       /\ \A u, x : ~ Has(toCoord[c], u) /\ ~ At(toCoord[c], u, x)
    <2>1. \A u, x : ~ Has(toCoord[c], u) /\ ~ At(toCoord[c], u, x)
        BY <1>4, AtHas DEF Has
    <2>2. /\ \A d \in Ranks : \A u : Has(mid[d], u) <=> Has(toCoord[d], u) \/ (d = t /\ u = "assign_node")
          /\ \A d \in Ranks : \A u, x : At(mid[d], u, x) <=>
                At(toCoord[d], u, x) \/ (d = t /\ u = "assign_node" /\ x = c)
          /\ \A d \in Ranks \ {t} : mid[d] = toCoord[d]
        BY <1>10 DEF Come, MsgRank
    <2>3. /\ \A d \in Ranks : \A u : Has(toCoord'[d], u) <=> Has(mid[d], u) \/ (d = c /\ u = "transfer_node")
          /\ \A d \in Ranks : \A u, x : At(toCoord'[d], u, x) <=>
                At(mid[d], u, x) \/ (d = c /\ u = "transfer_node" /\ x = t)
          /\ \A d \in Ranks \ {c} : toCoord'[d] = mid[d]
        BY <1>11 DEF Come, MsgRank
    <2>4. \A d \in Ranks : \A u : Has(toCoord'[d], u) <=>
              Has(toCoord[d], u) \/ (d = t /\ u = "assign_node") \/ (d = c /\ u = "transfer_node")
        BY <2>2, <2>3
    <2>5. \A d \in Ranks : \A u, x : At(toCoord'[d], u, x) <=>
              \/ At(toCoord[d], u, x)
              \/ d = t /\ u = "assign_node" /\ x = c
              \/ d = c /\ u = "transfer_node" /\ x = t
        BY <2>2, <2>3
    <2> QED
        BY <2>1, <2>2, <2>3, <2>4, <2>5
<1>13. Before(toCoord'[t], "request_split", "assign_node")
    <2>1. Before(mid[t], "request_split", "assign_node")
        <3>1. Before(toCoord[t], "request_split", "assign_node")
            BY <1>5 DEF Before, Has
        <3> QED
            BY <1>10, <3>1 DEF Come, MsgRank
    <2> QED
        BY <1>1, <1>2, <1>4, <1>11, <2>1 DEF Come
<1>14. /\ \A d \in Coords, s \in Ranks : Awaits(d, s)' <=> Awaits(d, s) \/ (d = t /\ s = c)
       /\ \A d \in Ranks, s \in Ranks : Sent(s, d)' <=> Sent(s, d)
       /\ \A s \in Ranks : Dead(s)' <=> Dead(s)
       /\ Parts' = Parts
    BY <1>7, <1>12 DEF Awaits, Sent, Dead, Parts, coordVars
<1>15. tree \in Seq(TreeNodes) /\ Len(tree) \in Nat
    <2>1. tree \in Seq(TreeNodes)
        BY DEF TypeOK, TreeNodes
    <2> QED
        BY <2>1
<1> TypeOK'
    <2>1. assigned' \in [Ranks -> Nat]
        <3>1. assigned \in [Ranks -> Nat] /\ Len(tree) + 1 \in Nat
            BY <1>15 DEF TypeOK
        <3> QED
            BY <1>7, <3>1
    <2>2. info' \in [Ranks -> {"idle", "solving", "splitting"}]
        BY <1>7 DEF TypeOK
    <2> QED
        BY <1>1, <1>7, <1>9, <1>11, <2>1, <2>2 DEF TypeOK, coordVars, Grows, TreeNodes
<1> Roles'
    BY <1>1, <1>2, <1>7, <1>12 DEF Gone, Roles, coordVars
<1> Channels'
    BY <1>1, <1>2, <1>7, <1>11, <1>12 DEF Channels
<1> OneRequest'
    BY <1>1, <1>12 DEF Gone, OneRequest
<1> Conversation'
    <2>1. state[c] # "receive"
        BY <1>1, <1>2 DEF Conversation
    <2> QED
        BY <1>1, <1>5, <1>7, <1>12, <1>14, <2>1 DEF Gone, Conversation, coordVars
<1> Kept'
    <2>1. splitNode[c].target = t
        BY <1>1, <1>2 DEF Kept
    <2> QED
        BY <1>1, <1>7, <1>12, <2>1 DEF Gone, Kept, coordVars
<1> IsolatedSays'
    BY <1>1, <1>2, <1>7 DEF Gone, IsolatedSays, coordVars
<1> Served'
    BY <1>2, <1>7, <1>12, <1>14 DEF Served, WillCome, coordVars
<1> Expected'
    <2>1. \A s, d \in Ranks : Sent(s, d)' =>
              d \in Coords /\ Awaits(d, s)' /\ Len(instance'[<<s, d>>]) = 1
        BY <1>7, <1>14 DEF Expected
    <2>2. ~ Sent(c, t)
        BY <1>1, <1>2, <1>5 DEF Expected
    <2>3. \A s, d \in Coords : At(toCoord'[s], "transfer_node", d) => Awaits(d, s)' /\ ~ Sent(s, d)'
        BY <1>12, <1>14, <2>2 DEF Expected
    <2> QED
        BY <2>1, <2>3 DEF Expected
<1> PartsAwaited'
    BY <1>1, <1>2, <1>7, <1>12, <1>14 DEF PartsAwaited, coordVars
<1> Truthful'
    BY <1>1, <1>7 DEF Gone, Truthful, Truth, coordVars
<1> Fresh'
    BY <1>2, <1>7 DEF Fresh
<1> Stopped'
    BY <1>2, <1>7 DEF Stopped, coordVars
<1> Known'
    <2>1. IdleKnown'
        BY <1>1, <1>3, <1>4, <1>7, <1>8, <1>12 DEF Gone, IdleKnown, coordVars
    <2>2. SplitKnown'
        <3>1. \A d \in Coords : Has(toLeader'[d], "split_succeed") =>
                  Has(toLeader[d], "split_succeed") /\ d \notin {t, c}
            BY <1>1, <1>5 DEF Gone
        <3> QED
            BY <1>3, <1>8, <1>12, <3>1 DEF SplitKnown
    <2>3. RequestKnown'
        <3> SUFFICES ASSUME NEW d \in Coords, Has(toCoord'[d], "request_split"), info'[d] # "splitting"
                     PROVE  state[d] = "idle" /\ Before(toCoord'[d], "request_split", "assign_node")
            BY <1>7 DEF RequestKnown, coordVars
        <3>1. d # c
            BY <1>12
        <3>2. CASE d = t
            BY <1>5, <1>13, <3>2
        <3>3. CASE d # t
            BY <1>3, <1>8, <1>12, <3>1, <3>3 DEF RequestKnown
        <3> QED
            BY <3>2, <3>3
    <2> QED
        BY <2>1, <2>2, <2>3 DEF Known
<1> Promises'
    <2>1. \A d \in Coords : \A x : Promise(d, x)' => Promise(d, x) /\ (x \in Coords => x # t)
        <3>1. \A d \in Coords : \A x : Promise(d, x)' => Promise(d, x) /\ ~ (d = c /\ x = t)
            <4>1. ~ Has(toLeader[c], "split_failed") /\ ~ At(toLeader[c], "split_failed", t)
                BY <1>1, <1>2, AtHas DEF OneRequest
            <4>2. /\ \A x : ~ At(toLeader'[c], "split_succeed", x)
                  /\ ~ At(toLeader'[c], "split_failed", t)
                  /\ \A x : ~ At(toCoord'[c], "request_split", x)
                <5>1. \A x : ~ At(toLeader'[c], "split_succeed", x)
                    BY <1>1, <1>2 DEF Gone
                <5>2. ~ At(toLeader'[c], "split_failed", t)
                    BY <1>1, <1>2, <4>1 DEF Gone
                <5>3. \A x : ~ At(toCoord'[c], "request_split", x)
                    BY <1>2, <1>12
                <5> QED
                    BY <5>1, <5>2, <5>3
            <4>3. \A d \in Coords : \A x : Promise(d, x)' => Promise(d, x)
                BY <1>1, <1>12 DEF Gone, Promise
            <4>4. \A x : x = t => ~ Promise(c, x)'
                BY <4>2 DEF Promise
            <4> QED
                BY <4>3, <4>4
        <3> QED
            BY <1>4, <3>1
    <2>2. \A x \in Coords : Waiting(x) => x # t /\ x # c
        BY <1>2, <1>4 DEF Promises
    <2>3. \A d, x \in Coords : Promise(d, x) => x # c
        BY <1>2, <1>4 DEF Promises
    <2>4. \A x \in Coords : Waiting(x)' => Waiting(x)
        BY <1>7 DEF Waiting
    <2>5. Once(idle')
        BY <1>2, <1>7 DEF Promises
    <2>6. \A x \in Coords : Waiting(x)' => info'[x] = "idle"
        BY <1>2, <1>8, <2>2, <2>4 DEF Promises
    <2>7. \A d, x \in Coords : Promise(d, x)' => info'[x] = "idle" /\ ~ Waiting(x)'
        <3>1. \A x : Waiting(x)' <=> Waiting(x)
            BY <1>7 DEF Waiting
        <3> QED
            BY <1>2, <1>8, <2>1, <2>3, <3>1 DEF Promises
    <2>8. \A d, e, x \in Coords : Promise(d, x)' /\ Promise(e, x)' => d = e
        BY <1>2, <2>1 DEF Promises
    <2> QED
        BY <2>5, <2>6, <2>7, <2>8 DEF Promises
<1> Shape' /\ Justified'
    BY <1>9 DEF Grows, Shape, Justified
<1> Open'
    <2>1. \A d \in Coords \ {t} : info'[d] # "idle" =>
              /\ info[d] # "idle" /\ assigned'[d] = assigned[d] /\ assigned[d] \in 1 .. Len(tree)
              /\ tree[assigned[d]].partial = "unsolved"
              /\ \A e \in Coords \ {d} : assigned[e] # assigned[d]
        BY <1>2, <1>4, <1>8 DEF Open
    <2>2. \A d \in Coords \ {t} : assigned[d] # Len(tree) + 1
        <3>1. \A d \in Coords : info[d] = "idle" => assigned[d] = NoNode
            BY <1>3 DEF IdleKnown
        <3>2. \A d \in Coords : info[d] # "idle" => assigned[d] \in 1 .. Len(tree)
            BY <1>2 DEF Open
        <3>3. NoNode # Len(tree) + 1 /\ Len(tree) + 1 \notin 1 .. Len(tree)
            BY <1>15 DEF NoNode
        <3> QED
            BY <3>1, <3>2, <3>3
    <2>3. /\ \A k \in 1 .. Len(tree) : k \in 1 .. Len(tree') /\ tree'[k] = tree[k] /\ k # Len(tree) + 1
          /\ Len(tree) + 1 \in 1 .. Len(tree') /\ tree'[Len(tree) + 1].partial = "unsolved"
        BY <1>9, <1>15 DEF Grows
    <2>4. \A d \in Coords \ {t} : info'[d] # "idle" =>
              /\ assigned'[d] \in 1 .. Len(tree')
              /\ tree'[assigned'[d]].partial = "unsolved"
              /\ \A e \in Coords \ {d} : assigned'[e] # assigned'[d]
        BY <1>8, <2>1, <2>3
    <2> QED
        BY <1>8, <2>2, <2>3, <2>4 DEF Open
<1> Carried'
    <2>1. \A s \in Ranks, d \in Coords : \A p : Comes(s, d, p) => Comes(s, d, p)'
        BY <1>7, <1>12, <1>14 DEF Comes, coordVars
    <2>2. \A d \in Coords : \A p : d = t /\ p \in splitNode[c].part => Comes(c, d, p)' /\ Awaits(d, c)'
        BY <1>1, <1>2, <1>7, <1>12, <1>14 DEF Comes, coordVars
    <2>3. \A d \in Coords : \A p : d = t /\ p \in splitNode[c].part => Carries(d, p)'
        BY <1>2, <2>2 DEF Carries
    <2>4. \A d \in Coords : \A p : Carries(d, p) => Carries(d, p)' \/ (d = c /\ p \in splitNode[c].part)
        BY <1>1, <1>7, <1>14, <2>1 DEF Gone, Carries, coordVars
    <2> QED
        BY <1>1, <1>2, <1>7, <2>3, <2>4 DEF Carried
<1> AnswerSound' /\ LeaderNeverFails'
    BY <1>7 DEF AnswerSound, LeaderNeverFails
<1> QED
    OBVIOUS

(* The queue of idle coordinators.                                         *)
LEMMA QueueAppend ==
    ASSUME NEW q \in Seq(Coords), NEW c \in Coords
    PROVE  /\ Append(q, c) \in Seq(Coords)
           /\ \A x : Queued(Append(q, c), x) <=> Queued(q, x) \/ x = c
           /\ Once(q) /\ ~ Queued(q, c) => Once(Append(q, c))
<1> DEFINE r == Append(q, c)
<1>1. /\ r \in Seq(Coords) /\ Len(r) = Len(q) + 1 /\ r[Len(r)] = c
      /\ \A i \in 1 .. Len(q) : r[i] = q[i]
    BY AppendProperties
<1> HIDE DEF r
<1>2. /\ Len(q) \in Nat /\ Len(r) \in 1 .. Len(r)
      /\ \A i \in 1 .. Len(r) : i = Len(r) \/ i \in 1 .. Len(q)
      /\ \A i \in 1 .. Len(q) : i \in 1 .. Len(r) /\ i < Len(r)
    BY <1>1
<1>3. \A x : Queued(r, x) <=> Queued(q, x) \/ x = c
    <2>1. \A x : Queued(r, x) => Queued(q, x) \/ x = c
        BY <1>1, <1>2 DEF Queued
    <2>2. \A x : Queued(q, x) => Queued(r, x)
        BY <1>1, <1>2 DEF Queued
    <2>3. Queued(r, c)
        BY <1>1, <1>2 DEF Queued
    <2> QED
        BY <2>1, <2>2, <2>3
<1>4. Once(q) /\ ~ Queued(q, c) => Once(r)
    BY <1>1, <1>2 DEF Once, Queued
<1> QED
    BY <1>1, <1>3, <1>4 DEF r

LEMMA QueueTail ==
    ASSUME NEW q \in Seq(Coords), q # <<>>, Once(q)
    PROVE  /\ Head(q) \in Coords /\ Queued(q, Head(q))
           /\ Tail(q) \in Seq(Coords) /\ Once(Tail(q))
           /\ \A x : Queued(Tail(q), x) <=> Queued(q, x) /\ x # Head(q)
<1> DEFINE r == Tail(q)
           h == Head(q)
<1>1. /\ Len(q) >= 1 /\ Len(r) = Len(q) - 1
      /\ h = q[1] /\ h \in Coords
      /\ r \in Seq(Coords)
      /\ \A i \in 1 .. Len(r) : r[i] = q[i + 1]
    BY HeadTailProperties, EmptySeq
<1> HIDE DEF r, h
<1>2. /\ Len(q) \in Nat /\ Len(r) \in Nat
      /\ \A i \in 1 .. Len(r) : i + 1 \in 1 .. Len(q) /\ i + 1 # 1
      /\ \A i \in 1 .. Len(q) : i = 1 \/ (i - 1 \in 1 .. Len(r) /\ r[i - 1] = q[i])
      /\ 1 \in 1 .. Len(q)
    BY <1>1
<1>3. Queued(q, h)
    BY <1>1, <1>2 DEF Queued
<1>4. Once(r)
    BY <1>1, <1>2 DEF Once
<1>5. ASSUME NEW x PROVE Queued(r, x) <=> Queued(q, x) /\ x # h
    <2>1. Queued(r, x) => Queued(q, x)
        BY <1>1, <1>2 DEF Queued
    <2>2. Queued(r, x) => x # h
        BY <1>1, <1>2 DEF Queued, Once
    <2>3. Queued(q, x) /\ x # h => Queued(r, x)
        BY <1>1, <1>2 DEF Queued
    <2> QED
        BY <2>1, <2>2, <2>3
<1> QED
    BY <1>1, <1>3, <1>4, <1>5 DEF r, h

LEMMA HearSplitFailedStep ==
    ASSUME ClusterInv, NEW c \in Ranks, HearSplitFailed(c)
    PROVE  ClusterInv'
<1> DEFINE t == Head(toLeader[c]).rank
<1> USE DEF ClusterInv, Protocol
<1> USE RankFacts
<1>1. /\ phase = "run" \/ (phase = "init" /\ c = Iso)
      /\ toLeader' \in [Ranks -> Seq(Reports)]
      /\ Gone(toLeader, toLeader', c, "split_failed")
      /\ \A d \in Ranks : ReportsInOrder(toLeader'[d])
      /\ Has(toLeader[c], "split_failed") /\ At(toLeader[c], "split_failed", t)
      /\ t \in Coords
    <2>1. Hears(c, "split_failed")
        BY DEF HearSplitFailed
    <2>2. Head(toLeader[c]) \in Reports /\ Head(toLeader[c]).type = "split_failed"
        BY <2>1, HeardFacts
    <2>3. t \in Coords
        BY <2>2 DEF Reports
    <2> QED
        BY <2>1, <2>3, HeardFacts
<1>2. c \in Coords /\ phase = "run"
    BY <1>1 DEF Roles
<1>3. IdleKnown /\ SplitKnown /\ RequestKnown
    BY <1>2 DEF Known
<1>4. /\ idle' = Append(idle, t)
      /\ info' = [info EXCEPT ![c] = IF info[c] = "splitting" THEN "solving" ELSE info[c]]
      /\ UNCHANGED <<phase, result, tree, assigned, nextSplit, coordVars, toCoord, instance>>
    BY DEF HearSplitFailed
<1>5. /\ info[t] = "idle" /\ ~ Waiting(t)
      /\ \A d \in Coords : Promise(d, t) => d = c
    <2>1. Promise(c, t)
        BY <1>1 DEF Promise
    <2> QED
        BY <1>1, <1>2, <2>1 DEF Promises
<1>6. /\ ~ Has(toCoord[c], "request_split") /\ ~ Has(toLeader[c], "split_succeed")
    BY <1>1, <1>2 DEF OneRequest
<1>7. /\ \A d \in Ranks : info'[d] = "idle" <=> info[d] = "idle"
      /\ \A d \in Ranks \ {c} : info'[d] = info[d]
    BY <1>4 DEF TypeOK
<1>8. /\ idle' \in Seq(Coords) /\ Once(idle')
      /\ \A x : Queued(idle', x) <=> Queued(idle, x) \/ x = t
    <2>1. idle \in Seq(Coords) /\ Once(idle) /\ ~ Queued(idle, t)
        BY <1>2, <1>5 DEF TypeOK, Promises, Waiting
    <2>2. /\ Append(idle, t) \in Seq(Coords) /\ Once(Append(idle, t))
          /\ \A x : Queued(Append(idle, t), x) <=> Queued(idle, x) \/ x = t
        BY <1>1, <2>1, QueueAppend
    <2> QED
        BY <1>4, <2>2
<1> HIDE DEF t
<1>9. /\ \A d \in Coords, s \in Ranks : Awaits(d, s)' <=> Awaits(d, s)
      /\ \A d \in Ranks, s \in Ranks : Sent(s, d)' <=> Sent(s, d)
      /\ \A s \in Ranks : Dead(s)' <=> Dead(s)
      /\ Parts' = Parts
    BY <1>4 DEF Awaits, Sent, Dead, Parts, coordVars
<1> TypeOK'
    BY <1>1, <1>4, <1>8 DEF TypeOK, coordVars
<1> Roles'
    BY <1>1, <1>4 DEF Gone, Roles, coordVars
<1> Channels'
    BY <1>1, <1>4 DEF Channels
<1> OneRequest'
    BY <1>1, <1>4 DEF Gone, OneRequest
<1> Conversation'
    BY <1>1, <1>4, <1>9 DEF Gone, Conversation, coordVars
<1> Kept'
    BY <1>1, <1>4 DEF Gone, Kept, coordVars
<1> IsolatedSays'
    BY <1>1, <1>2, <1>4 DEF Gone, IsolatedSays, coordVars
<1> Served'
    BY <1>4, <1>9 DEF Served, WillCome, coordVars
<1> Expected'
    BY <1>4, <1>9 DEF Expected
<1> PartsAwaited'
    BY <1>4, <1>9 DEF PartsAwaited, coordVars
<1> Truthful'
    BY <1>1, <1>4 DEF Gone, Truthful, Truth, coordVars
<1> Fresh'
    BY <1>2, <1>4 DEF Fresh
<1> Stopped'
    BY <1>4 DEF Stopped, coordVars
<1> Known'
    <2>1. IdleKnown'
        BY <1>1, <1>3, <1>4, <1>7 DEF Gone, IdleKnown, coordVars
    <2>2. SplitKnown'
        BY <1>1, <1>3, <1>4, <1>6, <1>7 DEF Gone, SplitKnown
    <2>3. RequestKnown'
        BY <1>3, <1>4, <1>6, <1>7 DEF RequestKnown, coordVars
    <2> QED
        BY <2>1, <2>2, <2>3 DEF Known
<1> Promises'
    <2>1. \A d \in Coords : \A x : Promise(d, x)' => Promise(d, x)
        BY <1>1, <1>4 DEF Gone, Promise
    <2>2. \A d, x \in Coords : Promise(d, x)' => x # t
        <3>1. \A x : ~ Promise(c, x)'
            BY <1>1, <1>4, <1>6, AtHas DEF Gone, Promise
        <3> QED
            BY <1>5, <2>1, <3>1
    <2>3. \A x \in Coords : Waiting(x)' <=> Waiting(x) \/ x = t
        BY <1>8 DEF Waiting
    <2> QED
        BY <1>2, <1>5, <1>7, <1>8, <2>1, <2>2, <2>3 DEF Promises
<1> Shape' /\ Justified'
    BY <1>4 DEF Shape, Justified, ShapeOf, JustifiedOf
<1> Open'
    BY <1>4, <1>7 DEF Open
<1> Carried'
    <2>1. \A s \in Ranks, d \in Coords : \A p : Comes(s, d, p) => Comes(s, d, p)'
        BY <1>4, <1>9 DEF Comes, coordVars
    <2>2. \A d \in Coords : \A p : Carries(d, p) => Carries(d, p)'
        BY <1>1, <1>4, <1>9, <2>1 DEF Gone, Carries, coordVars
    <2> QED
        BY <1>4, <2>2 DEF Carried
<1> AnswerSound' /\ LeaderNeverFails'
    BY <1>4 DEF AnswerSound, LeaderNeverFails
<1> QED
    OBVIOUS

LEMMA RequestSplitStep ==
    ASSUME ClusterInv, PromptReplies, RequestSplit
    PROVE  ClusterInv'
<1> DEFINE c == nextSplit
           t == Head(idle)
<1> USE DEF ClusterInv, Protocol
<1> USE RankFacts
<1>1. /\ phase = "run" /\ idle # <<>> /\ nextSplit' = (nextSplit + 1) % N
      /\ UNCHANGED <<phase, result, tree, assigned, coordVars, toLeader, instance>>
    BY DEF RequestSplit
<1>2. /\ idle \in Seq(Coords) /\ Once(idle) /\ c \in Coords
      /\ t \in Coords /\ Waiting(t)
      /\ Tail(idle) \in Seq(Coords) /\ Once(Tail(idle))
      /\ \A x : Queued(Tail(idle), x) <=> Queued(idle, x) /\ x # t
    BY <1>1, QueueTail DEF TypeOK, Promises, Waiting
<1>3. nextSplit' \in Coords
    BY <1>1, <1>2, ClusterConstants DEF Coords
<1>4. IdleKnown /\ SplitKnown /\ RequestKnown
    BY <1>1 DEF Known
<1>5. Shape' /\ Justified' /\ AnswerSound' /\ LeaderNeverFails'
    BY <1>1 DEF Shape, Justified, ShapeOf, JustifiedOf, AnswerSound, LeaderNeverFails
<1>6. CASE /\ idle' = Append(Tail(idle), t)
           /\ UNCHANGED <<info, toCoord>>
    <2>1. /\ idle' \in Seq(Coords) /\ Once(idle')
          /\ \A x \in Coords : Waiting(x)' <=> Waiting(x)
        BY <1>2, <1>6, QueueAppend DEF Waiting
    <2>2. /\ \A d \in Coords, s \in Ranks : Awaits(d, s)' <=> Awaits(d, s)
          /\ \A d \in Ranks, s \in Ranks : Sent(s, d)' <=> Sent(s, d)
          /\ \A s \in Ranks : Dead(s)' <=> Dead(s)
          /\ Parts' = Parts
        BY <1>1, <1>6 DEF Awaits, Sent, Dead, Parts, coordVars
    <2> TypeOK'
        BY <1>1, <1>3, <1>6, <2>1 DEF TypeOK, coordVars
    <2> Protocol'
        <3>1. Roles' /\ Channels' /\ OneRequest' /\ Conversation' /\ Kept'
            BY <1>1, <1>6, <2>2 DEF Roles, Channels, OneRequest, Conversation, Kept, coordVars
        <3>2. IsolatedSays' /\ Served' /\ Expected' /\ PartsAwaited'
            BY <1>1, <1>6, <2>2 DEF IsolatedSays, Served, WillCome, Expected, PartsAwaited, coordVars
        <3>3. Truthful' /\ Fresh' /\ Stopped'
            BY <1>1, <1>6 DEF Truthful, Truth, Fresh, Stopped, coordVars
        <3> QED
            BY <3>1, <3>2, <3>3
    <2> Known'
        BY <1>1, <1>6 DEF Known, IdleKnown, SplitKnown, RequestKnown, coordVars
    <2> Promises'
        <3>1. \A d \in Coords : \A x : Promise(d, x)' <=> Promise(d, x)
            BY <1>1, <1>6 DEF Promise
        <3> QED
            BY <1>1, <1>6, <2>1, <3>1 DEF Promises
    <2> Open'
        BY <1>1, <1>6 DEF Open
    <2> Carried'
        <3>1. \A s \in Ranks, d \in Coords : \A p : Comes(s, d, p) => Comes(s, d, p)'
            BY <1>1, <1>6, <2>2 DEF Comes, coordVars
        <3>2. \A d \in Coords : \A p : Carries(d, p) => Carries(d, p)'
            BY <1>1, <1>6, <2>2, <3>1 DEF Carries, coordVars
        <3> QED
            BY <1>1, <3>2 DEF Carried
    <2> QED
        BY <1>5
<1>7. CASE /\ info[c] = "solving" /\ TabuOver(c)
           /\ info' = [info EXCEPT ![c] = "splitting"]
           /\ idle' = Tail(idle)
           /\ toCoord' = Post(toCoord, c, MsgRank("request_split", t))
    <2>1. /\ ~ Has(toCoord[c], "request_split")
          /\ ~ Has(toLeader[c], "split_failed") /\ ~ Has(toLeader[c], "split_succeed")
        <3>1. DOMAIN toCoord[c] = 1 .. Len(toCoord[c]) /\ DOMAIN toLeader[c] = 1 .. Len(toLeader[c])
            BY <1>2 DEF TypeOK
        <3>2. ~ Has(toCoord[c], "request_split") /\ ~ Has(toLeader[c], "split_failed")
            BY <1>7, <3>1 DEF TabuOver, Unanswered, Has
        <3> QED
            BY <1>2, <1>4, <1>7, <3>2 DEF SplitKnown
    <2>2. /\ toCoord' \in [Ranks -> Seq(Orders)]
          /\ Come(toCoord, toCoord', c, MsgRank("request_split", t))
          /\ \A d \in Ranks : InOrder(toCoord'[d])
        <3>1. MsgRank("request_split", t) \in Orders /\ MsgRank("request_split", t).type = "request_split"
            BY <1>2 DEF MsgRank, Orders
        <3>2. toCoord \in [Ranks -> Seq(Orders)] /\ \A d \in Ranks : InOrder(toCoord[d])
              /\ ~ Has(toCoord[c], "terminate_coordinator")
            BY <1>1, <1>2 DEF TypeOK, Channels
        <3> QED
            BY <1>2, <1>7, <2>1, <3>1, <3>2, OrderCome
    <2>3. /\ info'[c] = "splitting" /\ \A d \in Ranks \ {c} : info'[d] = info[d]
          /\ info[t] = "idle" /\ t # c
          /\ \A d \in Coords : ~ Promise(d, t)
        BY <1>1, <1>2, <1>7 DEF TypeOK, Promises
    <2> HIDE DEF c, t
    <2>4. /\ \A d \in Ranks : \A u : Has(toCoord'[d], u) <=>
                Has(toCoord[d], u) \/ (d = c /\ u = "request_split")
          /\ \A d \in Ranks : \A u, x : At(toCoord'[d], u, x) <=>
                At(toCoord[d], u, x) \/ (d = c /\ u = "request_split" /\ x = t)
          /\ \A d \in Ranks \ {c} : toCoord'[d] = toCoord[d]
        BY <2>2 DEF Come, MsgRank
    <2>5. /\ \A d \in Coords, s \in Ranks : Awaits(d, s)' <=> Awaits(d, s)
          /\ \A d \in Ranks, s \in Ranks : Sent(s, d)' <=> Sent(s, d)
          /\ \A s \in Ranks : Dead(s)' <=> Dead(s)
          /\ Parts' = Parts
        BY <1>1, <2>4 DEF Awaits, Sent, Dead, Parts, coordVars
    <2> TypeOK'
        BY <1>1, <1>2, <1>3, <1>7, <2>2 DEF TypeOK, coordVars
    <2> Roles'
        BY <1>1, <1>2, <2>4 DEF Roles, coordVars
    <2> Channels'
        BY <1>1, <2>2, <2>4 DEF Channels
    <2> OneRequest'
        BY <1>1, <2>1, <2>4 DEF OneRequest
    <2> Conversation'
        BY <1>1, <2>4, <2>5 DEF Conversation, coordVars
    <2> Kept'
        BY <1>1, <2>4 DEF Kept, coordVars
    <2> IsolatedSays'
        BY <1>1 DEF IsolatedSays, coordVars
    <2> Served'
        BY <1>1, <2>4, <2>5 DEF Served, WillCome, coordVars
    <2> Expected'
        BY <1>1, <2>4, <2>5 DEF Expected
    <2> PartsAwaited'
        BY <1>1, <2>4, <2>5 DEF PartsAwaited, coordVars
    <2> Truthful'
        BY <1>1 DEF Truthful, Truth, coordVars
    <2> Fresh'
        BY <1>1 DEF Fresh
    <2> Stopped'
        BY <1>1 DEF Stopped, coordVars
    <2> Known'
        <3>1. IdleKnown'
            BY <1>1, <1>4, <2>3, <2>4 DEF IdleKnown, coordVars
        <3>2. SplitKnown'
            BY <1>1, <1>4, <2>1, <2>3, <2>4 DEF SplitKnown
        <3>3. RequestKnown'
            BY <1>1, <1>4, <2>3, <2>4 DEF RequestKnown, coordVars
        <3> QED
            BY <3>1, <3>2, <3>3 DEF Known
    <2> Promises'
        <3>1. \A d \in Coords : \A x : Promise(d, x)' <=> Promise(d, x) \/ (d = c /\ x = t)
            BY <1>1, <2>4 DEF Promise
        <3>2. \A x \in Coords : Waiting(x)' <=> Waiting(x) /\ x # t
            BY <1>2, <1>7 DEF Waiting, t
        <3>3. \A x \in Coords : info[x] = "idle" => info'[x] = "idle"
            BY <1>7, <2>3 DEF c
        <3>4. Once(idle')
            BY <1>2, <1>7
        <3>5. \A d, x \in Coords : Promise(d, x)' => info'[x] = "idle" /\ ~ Waiting(x)'
            BY <1>1, <2>3, <3>1, <3>2, <3>3 DEF Promises
        <3>6. \A d, e, x \in Coords : Promise(d, x)' /\ Promise(e, x)' => d = e
            BY <1>1, <2>3, <3>1 DEF Promises
        <3>7. \A x \in Coords : Waiting(x)' => info'[x] = "idle"
            BY <1>1, <3>2, <3>3 DEF Promises
        <3> QED
            BY <3>4, <3>5, <3>6, <3>7 DEF Promises
    <2> Open'
        <3>1. \A d \in Coords : info'[d] # "idle" => info[d] # "idle"
            BY <1>7, <2>3 DEF c
        <3> QED
            BY <1>1, <3>1 DEF Open
    <2> Carried'
        <3>1. \A s \in Ranks, d \in Coords : \A p : Comes(s, d, p) => Comes(s, d, p)'
            BY <1>1, <2>4, <2>5 DEF Comes, coordVars
        <3>2. \A d \in Coords : \A p : Carries(d, p) => Carries(d, p)'
            BY <1>1, <2>5, <3>1 DEF Carries, coordVars
        <3> QED
            BY <1>1, <3>2 DEF Carried
    <2> QED
        BY <1>5
<1> QED
    BY <1>6, <1>7 DEF RequestSplit


(* Whoever still carries a point is at work for the leader, and a          *)
(* coordinator that reports unsat carries no solution.                     *)
LEMMA CarriersWork ==
    ASSUME ClusterInv, phase = "run", NEW d \in Coords, NEW p, Carries(d, p)
    PROVE  info[d] # "idle"
<1>1. IdleKnown
    BY DEF ClusterInv, Known
<1> SUFFICES ASSUME info[d] = "idle" PROVE FALSE
    OBVIOUS
<1>2. /\ state[d] = "idle" /\ ~ Has(toCoord[d], "assign_node")
      /\ ~ Has(toLeader[d], "split_succeed") /\ ~ Has(toLeader[d], "notify_result")
    BY <1>1 DEF IdleKnown
<1>3. \A s : ~ Awaits(d, s)
    BY <1>2, AtHas DEF Awaits
<1> QED
    BY <1>2, <1>3 DEF Carries, Dead

LEMMA RefutedCarriesNothing ==
    ASSUME ClusterInv, NEW c \in Coords, Has(toLeader[c], "notify_result"),
           ~ Has(toLeader[c], "split_succeed"), Truth(region[c]) = "unsat",
           NEW p \in SatPoints
    PROVE  ~ Carries(c, p)
<1> USE DEF ClusterInv, Protocol
<1> USE RankFacts
<1>1. state[c] \in {"idle", "barrier"}
    BY DEF Conversation
<1>2. p \notin region[c]
    BY DEF Truth
<1>3. \A s : ~ Awaits(c, s)
    BY <1>1, AtHas DEF Conversation, Awaits
<1> QED
    BY <1>1, <1>2, <1>3 DEF Carries, Dead

LEMMA HearResultStep ==
    ASSUME ClusterInv, NEW c \in Ranks, HearResult(c)
    PROVE  ClusterInv'
<1> DEFINE r == Head(toLeader[c]).result
           a == assigned[c]
<1> USE DEF ClusterInv, Protocol
<1> USE RankFacts
<1>1. c \in Coords /\ Hears(c, "notify_result") /\ UNCHANGED <<nextSplit, coordVars, instance>>
    BY DEF HearResult
<1>2. /\ phase = "run"
      /\ toLeader' \in [Ranks -> Seq(Reports)]
      /\ Gone(toLeader, toLeader', c, "notify_result")
      /\ \A d \in Ranks : ReportsInOrder(toLeader'[d])
      /\ Has(toLeader[c], "notify_result") /\ Says(toLeader[c], r)
      /\ ~ Has(toLeader[c], "split_succeed")
    BY <1>1, HeardFacts
<1>3. r = Truth(region[c])
    BY <1>2 DEF Truthful
<1> HIDE DEF r
<1>4. tree \in Seq(TreeNodes) /\ Shape /\ Justified
    BY DEF TypeOK, TreeNodes
<1>5. CASE r = "sat" /\ Ends("sat", toCoord) /\ UNCHANGED <<tree, info, assigned, idle>>
    <2>1. SatPoints # {}
        BY <1>3, <1>5 DEF Truth
    <2>2. tree' \in Seq(TreeNodes) /\ Shape' /\ Justified'
        BY <1>4, <1>5 DEF Shape, Justified, ShapeOf, JustifiedOf
    <2>3. "sat" \in Results \ {"Leader-Error"}
        BY DEF Results
    <2> QED
        BY <1>1, <1>5, <2>1, <2>2, <2>3, LastReportStep
<1>6. CASE r = "unsat" /\ tree' = PartialUnsat(tree, a)
    <2>1. info[c] # "idle"
        BY <1>1, <1>2 DEF Known, IdleKnown
    <2>2. /\ a \in 1 .. Len(tree) /\ tree[a].partial = "unsolved"
          /\ \A d \in Coords \ {c} : assigned[d] # a
        BY <1>1, <1>2, <2>1 DEF Open
    <2>3. Raises(tree, a, tree')
        BY <1>4, <1>6, <2>2, PartialUnsatFacts DEF Shape, Justified
    <2> HIDE DEF a
    <2>4. tree' \in Seq(TreeNodes) /\ Shape' /\ Justified'
        BY <2>3 DEF Raises, Shape, Justified
    <2>5. \A d \in Coords \ {c} : info[d] # "idle" =>
              /\ assigned[d] \in 1 .. Len(tree')
              /\ tree'[assigned[d]].partial = "unsolved"
              /\ \A e \in Coords \ {d} : assigned[e] # assigned[d]
        BY <1>1, <1>2, <2>2, <2>3 DEF Open, Raises
    <2>6. \A p \in SatPoints : \E d \in Coords \ {c} : Carries(d, p) /\ info[d] # "idle"
        <3> SUFFICES ASSUME NEW p \in SatPoints
                     PROVE  \E d \in Coords \ {c} : Carries(d, p) /\ info[d] # "idle"
            OBVIOUS
        <3>1. PICK d \in Coords : Carries(d, p)
            BY <1>2 DEF Carried
        <3>2. ~ Carries(c, p)
            BY <1>1, <1>2, <1>3, <1>6, RefutedCarriesNothing
        <3> QED
            BY <1>2, <3>1, <3>2, CarriersWork
    <2>7. CASE tree'[1].status = "unsat" /\ Ends("unsat", toCoord) /\ UNCHANGED <<info, assigned, idle>>
        <3>1. ASSUME NEW p \in SatPoints PROVE FALSE
            <4>1. PICK d \in Coords \ {c} : info[d] # "idle"
                BY <2>6
            <4> DEFINE k == assigned[d]
            <4>2. k \in 1 .. Len(tree') /\ tree'[k].partial = "unsolved"
                BY <2>5, <4>1
            <4> HIDE DEF k
            <4>3. 1 \in 1 .. Len(tree') /\ 1 \in tree'[k].up
                BY <2>4, <4>2 DEF Shape, ShapeOf
            <4>4. tree'[k].status = "unsat"
                BY <2>4, <2>7, <4>2, <4>3, UnsatBelow DEF Shape, Justified
            <4> QED
                BY <2>4, <4>2, <4>4 DEF Justified, JustifiedOf
        <3>2. SatPoints = {}
            BY <3>1
        <3>3. "unsat" \in Results \ {"Leader-Error"}
            BY DEF Results
        <3> QED
            BY <1>1, <2>4, <2>7, <3>2, <3>3, LastReportStep
    <2>8. CASE /\ info' = [info EXCEPT ![c] = "idle"]
               /\ assigned' = [assigned EXCEPT ![c] = NoNode]
               /\ idle' = Append(idle, c)
               /\ UNCHANGED <<phase, result, toCoord>>
        <3>1. /\ info'[c] = "idle" /\ \A d \in Ranks \ {c} : info'[d] = info[d]
              /\ assigned'[c] = NoNode /\ \A d \in Ranks \ {c} : assigned'[d] = assigned[d]
            BY <1>1, <2>8 DEF TypeOK
        <3>2. /\ ~ Queued(idle, c) /\ Once(idle) /\ idle \in Seq(Coords)
              /\ \A d \in Coords : ~ Promise(d, c)
            BY <1>1, <1>2, <2>1 DEF Promises, Waiting, TypeOK
        <3>3. /\ idle' \in Seq(Coords) /\ Once(idle')
              /\ \A x : Queued(idle', x) <=> Queued(idle, x) \/ x = c
            <4>1. /\ Append(idle, c) \in Seq(Coords) /\ Once(Append(idle, c))
                  /\ \A x : Queued(Append(idle, c), x) <=> Queued(idle, x) \/ x = c
                BY <1>1, <3>2, QueueAppend
            <4> QED
                BY <2>8, <4>1
        <3>4. /\ \A d \in Coords, s \in Ranks : Awaits(d, s)' <=> Awaits(d, s)
              /\ \A d \in Ranks, s \in Ranks : Sent(s, d)' <=> Sent(s, d)
              /\ \A s \in Ranks : Dead(s)' <=> Dead(s)
              /\ Parts' = Parts
            BY <1>1, <2>8 DEF Awaits, Sent, Dead, Parts, coordVars
        <3>5. /\ state[c] = "idle" /\ ~ Has(toCoord[c], "assign_node")
              /\ ~ Has(toLeader[c], "notify_error")
            BY <1>1, <1>2 DEF Conversation, Dead, Stopped
        <3>6. NoNode \in Nat /\ NoNode \notin 1 .. Len(tree')
            BY DEF NoNode
        <3> TypeOK'
            <4>1. /\ info' \in [Ranks -> {"idle", "solving", "splitting"}]
                  /\ assigned' \in [Ranks -> Nat]
                BY <2>8, <3>6 DEF TypeOK
            <4> QED
                BY <1>1, <1>2, <2>4, <2>8, <3>3, <4>1 DEF TypeOK, coordVars, TreeNodes
        <3> Roles'
            BY <1>1, <1>2, <2>8 DEF Gone, Roles, coordVars
        <3> Channels'
            BY <1>2, <2>8 DEF Channels
        <3> OneRequest'
            BY <1>2, <2>8 DEF Gone, OneRequest
        <3> Conversation'
            BY <1>1, <1>2, <2>8, <3>4 DEF Gone, Conversation, coordVars
        <3> Kept'
            BY <1>1, <1>2, <2>8 DEF Gone, Kept, coordVars
        <3> IsolatedSays'
            BY <1>1, <1>2, <2>8 DEF Gone, IsolatedSays, coordVars
        <3> Served'
            BY <1>1, <2>8, <3>4 DEF Served, WillCome, coordVars
        <3> Expected'
            BY <1>1, <2>8, <3>4 DEF Expected
        <3> PartsAwaited'
            BY <1>1, <2>8, <3>4 DEF PartsAwaited, coordVars
        <3> Truthful'
            BY <1>1, <1>2, <2>8 DEF Gone, Truthful, Truth, coordVars
        <3> Fresh'
            BY <1>2, <2>8 DEF Fresh
        <3> Stopped'
            BY <1>1, <2>8 DEF Stopped, coordVars
        <3> Known'
            <4>1. IdleKnown /\ SplitKnown /\ RequestKnown
                BY <1>2 DEF Known
            <4>2. IdleKnown'
                BY <1>1, <1>2, <2>8, <3>1, <3>5, <4>1 DEF Gone, IdleKnown, coordVars
            <4>3. SplitKnown'
                BY <1>1, <1>2, <2>8, <3>1, <4>1 DEF Gone, SplitKnown
            <4>4. RequestKnown'
                <5>1. Before(toCoord[c], "request_split", "assign_node")
                    BY <3>5 DEF Before, Has
                <5> QED
                    BY <1>1, <2>8, <3>1, <3>5, <4>1, <5>1 DEF RequestKnown, coordVars
            <4> QED
                BY <4>2, <4>3, <4>4 DEF Known
        <3> Promises'
            <4>1. \A d \in Coords : \A x : Promise(d, x)' => Promise(d, x)
                BY <1>2, <2>8 DEF Gone, Promise
            <4>2. \A x \in Coords : Waiting(x)' <=> Waiting(x) \/ x = c
                BY <3>3 DEF Waiting
            <4>3. \A x \in Coords : info[x] = "idle" => info'[x] = "idle"
                BY <3>1
            <4> QED
                BY <1>2, <3>1, <3>2, <3>3, <4>1, <4>2, <4>3 DEF Promises
        <3> Open'
            BY <2>5, <3>1, <3>6 DEF Open
        <3> Carried'
            <4>1. \A s \in Ranks, d \in Coords : \A p : Comes(s, d, p) => Comes(s, d, p)'
                BY <1>1, <2>8, <3>4 DEF Comes, coordVars
            <4>2. \A d \in Coords \ {c} : \A p : Carries(d, p) => Carries(d, p)'
                BY <1>1, <1>2, <2>8, <3>4, <4>1 DEF Gone, Carries, coordVars
            <4> QED
                BY <2>6, <4>2 DEF Carried
        <3> AnswerSound' /\ LeaderNeverFails'
            BY <2>8 DEF AnswerSound, LeaderNeverFails
        <3> QED
            BY <2>4
    <2> QED
        BY <1>6, <2>7, <2>8 DEF HearResult, r, a
<1> QED
    BY <1>5, <1>6 DEF HearResult, r

(* The isolated coordinator's parts leave no solution out.                 *)
LEMMA PartsCover ==
    ASSUME cut \in Cuts, NEW p \in SatPoints
    PROVE  \E c \in Coords : c + 1 \in DOMAIN Parts /\ p \in Parts[c + 1]
<1>1. cut \in Seq(SUBSET Points) /\ Len(cut) \in 0 .. N /\ DOMAIN cut = 1 .. Len(cut)
    BY CutsType
<1>2. \A c \in Ranks : c + 1 \in DOMAIN Parts => c \in Coords
    BY PartsFacts
<1>3. N \in Nat \ {0}
    BY ClusterConstants
<1>4. CASE cut = <<>>
    <2>1. 0 \in Coords /\ 0 + 1 \in DOMAIN Parts /\ Parts[0 + 1] = Points
        BY <1>3, <1>4 DEF Parts, Coords
    <2> QED
        BY <2>1, ClusterConstants
<1>5. CASE cut # <<>>
    <2>1. PICK i \in 1 .. Len(cut) : p \in cut[i]
        BY <1>1, <1>5 DEF Cuts
    <2>2. i - 1 \in Ranks /\ (i - 1) + 1 = i /\ i \in DOMAIN Parts /\ Parts[i] = cut[i]
        BY <1>1, <1>3, <1>5 DEF Parts, Ranks
    <2> QED
        BY <1>2, <2>1, <2>2
<1> QED
    BY <1>4, <1>5

(* The coordinators that are not given a part, in order.                   *)
LEMMA IdleAfterFacts ==
    ASSUME NEW k \in 1 .. N
    PROVE  /\ IdleAfter(k) \in Seq(Coords) /\ Once(IdleAfter(k))
           /\ \A c \in Coords : Queued(IdleAfter(k), c) <=> ~ (c < k)
<1>1. N \in Nat /\ N - k \in Nat /\ k \in Nat
    BY ClusterConstants
<1> DEFINE q == IdleAfter(k)
<1>2. q = [i \in 1 .. N - k |-> k + i - 1]
    BY DEF IdleAfter
<1>3. \A i \in 1 .. N - k : k + i - 1 \in Coords
    BY <1>1 DEF Coords
<1>4. q \in Seq(Coords) /\ Len(q) = N - k /\ \A i \in 1 .. N - k : q[i] = k + i - 1
    <2>1. q \in [1 .. N - k -> Coords]
        BY <1>2, <1>3
    <2> HIDE DEF q
    <2>2. q \in Seq(Coords) /\ Len(q) = N - k
        BY <1>1, <2>1
    <2> QED
        BY <1>2, <2>2
<1> HIDE DEF q
<1>5. Once(q)
    BY <1>1, <1>4 DEF Once
<1>6. \A c \in Coords : Queued(q, c) => ~ (c < k)
    BY <1>1, <1>4 DEF Queued, Coords
<1>7. ASSUME NEW c \in Coords, ~ (c < k) PROVE Queued(q, c)
    <2>1. c - k + 1 \in 1 .. N - k /\ k + (c - k + 1) - 1 = c
        BY <1>1, <1>7 DEF Coords
    <2>2. c - k + 1 \in 1 .. Len(q) /\ q[c - k + 1] = c
        BY <1>4, <2>1
    <2> QED
        BY <2>2 DEF Queued
<1> QED
    BY <1>4, <1>5, <1>6, <1>7 DEF q

(* The root with k children.                                               *)
Star(k) == [i \in 1 .. k + 1 |-> TreeNode({1, i})]

LEMMA StarFacts ==
    ASSUME NEW k \in Nat
    PROVE  /\ Star(k) \in Seq(TreeNodes) /\ Len(Star(k)) = k + 1
           /\ \A i \in 1 .. k + 1 : Star(k)[i].partial = "unsolved"
           /\ ShapeOf(Star(k)) /\ JustifiedOf(Star(k))
<1> DEFINE t == Star(k)
<1>1. \A i \in 1 .. k + 1 :
          /\ TreeNode({1, i}) \in TreeNodes
          /\ TreeNode({1, i}).up = {1, i}
          /\ TreeNode({1, i}).partial = "unsolved" /\ TreeNode({1, i}).status = "unsolved"
    BY DEF TreeNode, TreeNodes, Verdicts
<1>2. t \in Seq(TreeNodes) /\ Len(t) = k + 1
      /\ \A i \in 1 .. k + 1 : t[i] = TreeNode({1, i})
    <2>1. t \in [1 .. k + 1 -> TreeNodes]
        BY <1>1 DEF Star
    <2>2. \A i \in 1 .. k + 1 : t[i] = TreeNode({1, i})
        BY DEF Star
    <2> HIDE DEF t
    <2> QED
        BY <2>1, <2>2
<1> HIDE DEF t
<1>3. /\ DOMAIN t = 1 .. Len(t) /\ Len(t) \in Nat /\ Len(t) > 0 /\ 1 \in 1 .. Len(t)
      /\ \A i \in 1 .. Len(t) :
            t[i].up = {1, i} /\ t[i].partial = "unsolved" /\ t[i].status = "unsolved"
    <2>1. DOMAIN t = 1 .. Len(t) /\ Len(t) \in Nat
        BY <1>2
    <2>2. Len(t) > 0 /\ 1 \in 1 .. Len(t) /\ Len(t) = k + 1
        BY <1>2
    <2>3. \A i \in 1 .. Len(t) : t[i] = TreeNode({1, i}) /\ i \in 1 .. k + 1
        BY <1>2
    <2>4. \A i \in 1 .. Len(t) :
              t[i].up = {1, i} /\ t[i].partial = "unsolved" /\ t[i].status = "unsolved"
        BY <1>1, <2>3
    <2> QED
        BY <2>1, <2>2, <2>4
<1>4. \A n \in 1 .. Len(t) : n # 1 => 1 \in 1 .. n - 1 /\ n \in ChildrenOf(t, 1)
    BY <1>3 DEF ChildrenOf
<1>5. ShapeOf(t)
    BY <1>3, <1>4 DEF ShapeOf
<1>6. JustifiedOf(t)
    BY <1>3 DEF JustifiedOf
<1> QED
    BY <1>2, <1>3, <1>5, <1>6 DEF t

LEMMA HearPrePartitionStep ==
    ASSUME ClusterInv, HearPrePartition
    PROVE  ClusterInv'
<1> DEFINE told == Head(toLeader[Iso]).rank
           k == IF told = 0 THEN 1 ELSE told
           m == MsgRank("assign_node", Iso)
<1> USE DEF ClusterInv, Protocol
<1> USE RankFacts
<1>1. /\ phase = "run" \/ phase = "init"
      /\ toLeader' \in [Ranks -> Seq(Reports)]
      /\ Gone(toLeader, toLeader', Iso, "pre_partition_done")
      /\ \A d \in Ranks : ReportsInOrder(toLeader'[d])
      /\ Has(toLeader[Iso], "pre_partition_done") /\ At(toLeader[Iso], "pre_partition_done", told)
      /\ told \in 0 .. N
    <2>1. Hears(Iso, "pre_partition_done")
        BY DEF HearPrePartition
    <2>2. Head(toLeader[Iso]) \in Reports /\ Head(toLeader[Iso]).type = "pre_partition_done"
        BY <2>1, HeardFacts
    <2>3. told \in 0 .. N
        BY <2>2 DEF Reports
    <2> QED
        BY <2>1, <2>3, HeardFacts
<1>2. /\ phase = "init" /\ state[Iso] \in {"handover", "error"} /\ told = Len(cut)
    BY <1>1 DEF IsolatedSays
<1>3. k \in 1 .. N /\ k \in Nat /\ N \in Nat
    BY <1>1, ClusterConstants
<1>4. /\ tree = <<TreeNode({1})>> /\ toCoord[Iso] = <<>>
      /\ \A c \in Coords : state[c] = "idle" /\ toCoord[c] = <<>> /\ toLeader[c] = <<>>
      /\ \A s, c \in Ranks : ~ Sent(s, c)
    BY <1>2 DEF Fresh
<1>5. /\ phase' = "run"
      /\ tree' = PartialUnsat(Star(k), 1)
      /\ info' = [c \in Ranks |-> IF c < k \/ c = Iso THEN "solving" ELSE "idle"]
      /\ assigned' = [c \in Ranks |-> CASE c = Iso -> 1
                                         [] c < k -> c + 2
                                         [] OTHER -> NoNode]
      /\ idle' = IdleAfter(k)
      /\ toCoord' = [c \in Ranks |->
             IF c < k \/ c = Iso THEN Append(toCoord[c], m) ELSE toCoord[c]]
      /\ UNCHANGED <<result, nextSplit, coordVars, instance>>
    <2>1. [i \in 1 .. k + 1 |-> IF i = 1 THEN tree[1] ELSE TreeNode({1, i})] = Star(k)
        <3>1. tree[1] = TreeNode({1, 1})
            BY <1>4
        <3> QED
            BY <3>1, Zenon DEF Star
    <2> QED
        BY <2>1 DEF HearPrePartition
<1>6. /\ \A c \in Ranks : c + 1 \in DOMAIN Parts <=> c < k
      /\ \A c \in Ranks : c < k => c \in Coords
    <2>1. cut \in Cuts
        BY DEF TypeOK
    <2>2. k = IF Len(cut) = 0 THEN 1 ELSE Len(cut)
        BY <1>2
    <2>3. /\ \A c \in Ranks : c + 1 \in DOMAIN Parts <=>
                c < (IF Len(cut) = 0 THEN 1 ELSE Len(cut))
          /\ \A c \in Ranks : c + 1 \in DOMAIN Parts => c \in Coords
        BY <2>1, PartsFacts
    <2> HIDE DEF k
    <2> QED
        BY <2>2, <2>3
<1>7. /\ \A c \in Coords : info'[c] = IF c < k THEN "solving" ELSE "idle"
      /\ \A c \in Coords : assigned'[c] = IF c < k THEN c + 2 ELSE NoNode
    BY <1>5, <1>6
<1> HIDE DEF told, k
<1>8. Raises(Star(k), 1, tree')
    BY <1>3, <1>5, StarFacts, PartialUnsatFacts
<1>9. m \in Orders /\ m.type = "assign_node" /\ m.rank = Iso
    BY DEF MsgRank, Orders
<1> HIDE DEF m
<1>10. \A u, x : \A c \in Ranks : ~ Has(toCoord[c], u) /\ ~ At(toCoord[c], u, x)
    BY <1>4, AtHas DEF Has
<1>11. ASSUME NEW c \in Ranks
       PROVE  /\ toCoord'[c] \in Seq(Orders) /\ InOrder(toCoord'[c])
              /\ \A u : Has(toCoord'[c], u) <=> u = "assign_node" /\ (c < k \/ c = Iso)
              /\ \A u, x : At(toCoord'[c], u, x) <=>
                     u = "assign_node" /\ x = Iso /\ (c < k \/ c = Iso)
    <2>1. toCoord[c] \in Seq(Orders) /\ InOrder(toCoord[c])
        BY DEF TypeOK, Channels
    <2>2. CASE c < k \/ c = Iso
        <3>1. toCoord'[c] \in Seq(Orders) /\ Added(toCoord[c], toCoord'[c], m)
            BY <1>5, <1>9, <2>1, <2>2, AppendAdded
        <3>2. InOrder(toCoord'[c])
            BY <1>9, <1>10, <2>1, <3>1 DEF Added, InOrder
        <3>3. ASSUME NEW u
              PROVE  Has(toCoord'[c], u) <=> u = "assign_node"
            <4>1. Has(toCoord'[c], u) <=> Has(toCoord[c], u) \/ u = m.type
                BY <3>1 DEF Added
            <4>2. ~ Has(toCoord[c], u)
                BY <1>10
            <4> QED
                BY <1>9, <4>1, <4>2
        <3>4. ASSUME NEW u, NEW x
              PROVE  At(toCoord'[c], u, x) <=> u = "assign_node" /\ x = Iso
            <4>1. At(toCoord'[c], u, x) <=> At(toCoord[c], u, x) \/ (u = m.type /\ x = m.rank)
                BY <3>1 DEF Added
            <4>2. ~ At(toCoord[c], u, x)
                BY <1>10
            <4> QED
                BY <1>9, <4>1, <4>2
        <3> QED
            BY <2>2, <3>1, <3>2, <3>3, <3>4
    <2>3. CASE ~ (c < k \/ c = Iso)
        BY <1>5, <1>10, <2>1, <2>3
    <2> QED
        BY <2>2, <2>3
<1>12. /\ \A c \in Coords, s \in Ranks : Awaits(c, s)' <=> s = Iso /\ c < k
       /\ \A s, c \in Ranks : ~ Sent(s, c)'
       /\ \A s \in Ranks : Dead(s)' <=> Dead(s)
       /\ Parts' = Parts
    <2>1. \A c \in Coords, s \in Ranks : Awaits(c, s)' <=> s = Iso /\ c < k
        BY <1>4, <1>5, <1>11 DEF Awaits, coordVars
    <2> QED
        BY <1>4, <1>5, <2>1 DEF Sent, Dead, Parts, coordVars
<1>13. \A c \in Coords : toLeader'[c] = <<>> /\ \A u, x : ~ Has(toLeader'[c], u) /\ ~ At(toLeader'[c], u, x)
    BY <1>1, <1>4, AtHas DEF Gone, Has
<1>14. \A c \in Coords : state'[c] = "idle"
    BY <1>4, <1>5 DEF coordVars
<1> TypeOK'
    <2>1. tree' \in Seq([up : SUBSET Nat, partial : Verdicts, status : Verdicts])
        BY <1>8 DEF Raises, TreeNodes
    <2>2. toCoord' \in [Ranks -> Seq(Orders)]
        BY <1>5, <1>11
    <2>3. idle' \in Seq(Coords)
        BY <1>3, <1>5, IdleAfterFacts
    <2>4. assigned' \in [Ranks -> Nat]
        <3>1. \A c \in Ranks : c + 2 \in Nat
            BY <1>3 DEF Ranks
        <3> QED
            BY <1>5, <3>1 DEF NoNode
    <2>5. info' \in [Ranks -> {"idle", "solving", "splitting"}]
        BY <1>5
    <2> QED
        BY <1>1, <1>5, <2>1, <2>2, <2>3, <2>4, <2>5 DEF TypeOK, coordVars
<1> Roles'
    BY <1>5, <1>1, <1>11, <1>13, <1>14 DEF Gone, Roles, coordVars
<1> Channels'
    BY <1>1, <1>11 DEF Channels
<1> OneRequest'
    BY <1>13 DEF OneRequest
<1> Conversation'
    BY <1>1, <1>5, <1>12, <1>13, <1>14 DEF Gone, Conversation, coordVars
<1> Kept'
    BY <1>11, <1>13 DEF Kept
<1> IsolatedSays'
    BY <1>1, <1>2, <1>5, AtHas DEF Gone, IsolatedSays, coordVars
<1> Served'
    <2>1. Has(toCoord'[Iso], "assign_node")
        BY <1>11
    <2>2. state'[Iso] = "handover" \/ Dead(Iso)'
        BY <1>2, <1>5 DEF Dead, coordVars
    <2> QED
        BY <1>6, <1>12, <2>1, <2>2 DEF Served, WillCome
<1> Expected'
    BY <1>11, <1>12 DEF Expected
<1> PartsAwaited'
    BY <1>6, <1>12 DEF PartsAwaited
<1> Truthful'
    BY <1>1, <1>5 DEF Gone, Truthful, Truth, coordVars
<1> Fresh'
    BY <1>5 DEF Fresh
<1> Stopped'
    BY <1>2, <1>5 DEF Stopped, coordVars
<1> Known'
    <2>1. IdleKnown'
        BY <1>7, <1>11, <1>13, <1>14 DEF IdleKnown
    <2>2. SplitKnown' /\ RequestKnown'
        BY <1>11, <1>13 DEF SplitKnown, RequestKnown
    <2> QED
        BY <2>1, <2>2 DEF Known
<1> Promises'
    <2>1. \A c, x \in Coords : ~ Promise(c, x)'
        <3> SUFFICES ASSUME NEW c \in Coords, NEW x \in Coords
                     PROVE  ~ Promise(c, x)'
            OBVIOUS
        <3>1. ~ At(toCoord'[c], "request_split", x)
            BY <1>11, AtHas
        <3>2. ~ At(toLeader'[c], "split_failed", x) /\ ~ At(toLeader'[c], "split_succeed", x)
            BY <1>13
        <3> QED
            BY <3>1, <3>2 DEF Promise
    <2>2. Once(idle') /\ \A c \in Coords : Waiting(c)' => ~ (c < k)
        BY <1>3, <1>5, IdleAfterFacts DEF Waiting
    <2> QED
        BY <1>7, <2>1, <2>2 DEF Promises
<1> Shape' /\ Justified'
    BY <1>8 DEF Raises, Shape, Justified
<1> Open'
    <2>1. /\ Len(tree') = k + 1
          /\ \A i \in 1 .. k + 1 : i # 1 => tree'[i].partial = "unsolved"
        BY <1>3, <1>8, StarFacts DEF Raises
    <2>2. \A c \in Coords : c < k => c + 2 \in 1 .. k + 1 /\ c + 2 # 1
        BY <1>3 DEF Coords
    <2>3. \A c, d \in Coords : c # d => c + 2 # d + 2 /\ c + 2 # NoNode
        BY <1>3 DEF Coords, NoNode
    <2> QED
        BY <1>7, <2>1, <2>2, <2>3 DEF Open
<1> Carried'
    <2> SUFFICES ASSUME NEW p \in SatPoints
                 PROVE  \E c \in Coords : Carries(c, p)'
        BY DEF Carried
    <2>1. PICK c \in Coords : c + 1 \in DOMAIN Parts /\ p \in Parts[c + 1]
        BY PartsCover DEF TypeOK
    <2>2. Awaits(c, Iso)'
        BY <1>6, <1>12, <2>1
    <2>3. Comes(Iso, c, p)'
        BY <1>2, <1>5, <1>12, <2>1 DEF Comes, Dead, coordVars
    <2> QED
        BY <2>2, <2>3 DEF Carries
<1> AnswerSound' /\ LeaderNeverFails'
    BY <1>5 DEF AnswerSound, LeaderNeverFails
<1> QED
    OBVIOUS

-----------------------------------------------------------------------------
(* Every state.                                                            *)
LEMMA EmptyHas == \A t, x : ~ Has(<<>>, t) /\ ~ At(<<>>, t, x) /\ ~ Says(<<>>, x)
BY DEF Has, At, Says

LEMMA ClusterInit == Init => ClusterInv
<1> SUFFICES ASSUME Init PROVE ClusterInv
    OBVIOUS
<1> USE RankFacts, EmptyHas DEF Init
<1>1. N \in Nat \ {0} /\ 0 \in Coords
    BY ClusterConstants DEF Coords
<1>2. TreeNode({1}) \in TreeNodes
    BY DEF TreeNode, TreeNodes, Verdicts
<1>3. \A c \in Coords : c # Iso
    OBVIOUS
<1>4. TypeOK
    <2>1. tree \in Seq(TreeNodes)
        BY <1>2
    <2>2. <<>> \in Cuts
        <3>1. <<>> \in [1 .. 0 -> SUBSET Points] /\ 0 \in 0 .. N
            BY <1>1
        <3> QED
            BY <3>1 DEF Cuts
    <2>3. /\ region \in [Ranks -> SUBSET Points]
          /\ splitNode \in [Ranks -> [part : SUBSET Points, target : Coords \cup {NoRank}]]
          /\ state \in [Ranks -> States]
        BY DEF States, NoSplitNode
    <2>4. /\ toCoord \in [Ranks -> Seq(Orders)]
          /\ toLeader \in [Ranks -> Seq(Reports)]
          /\ instance \in [Ranks \X Ranks -> Seq(SUBSET Points)]
        <3>1. \A S : <<>> \in Seq(S)
            OBVIOUS
        <3> QED
            BY <3>1
    <2>5. /\ info \in [Ranks -> {"idle", "solving", "splitting"}]
          /\ assigned \in [Ranks -> Nat]
          /\ idle \in Seq(Coords)
          /\ nextSplit \in Coords
        BY <1>1 DEF NoNode
    <2>6. source \in [Ranks -> Ranks \cup {NoRank}]
        OBVIOUS
    <2>7. phase \in {"init", "run", "ended"} /\ result \in Results
        BY DEF Results
    <2> QED
        BY <2>1, <2>2, <2>3, <2>4, <2>5, <2>6, <2>7 DEF TypeOK, TreeNodes
<1>5. /\ \A c \in Ranks : state[c] \in {"idle", "prePartition"} /\ toCoord[c] = <<>> /\ toLeader[c] = <<>>
      /\ state[Iso] = "prePartition" /\ \A c \in Coords : state[c] = "idle"
      /\ \A s, c \in Ranks : ~ Sent(s, c)
      /\ \A s, c \in Ranks : ~ Awaits(c, s)
      /\ \A c \in Ranks : ~ Dead(c)
    BY DEF Sent, Awaits, Dead
<1>6. Protocol
    <2>1. Roles /\ OneRequest /\ Conversation /\ Kept
        BY <1>5 DEF Roles, OneRequest, Conversation, Kept
    <2>2. Channels
        <3>1. InOrder(<<>>) /\ ReportsInOrder(<<>>)
            BY DEF InOrder, ReportsInOrder, Distinct, First, Last, Before
        <3> QED
            BY <1>5, <3>1 DEF Channels
    <2>3. IsolatedSays /\ Served /\ Expected /\ PartsAwaited
        BY <1>5 DEF IsolatedSays, Served, Expected, PartsAwaited
    <2>4. Truthful /\ Fresh /\ Stopped
        BY <1>5 DEF Truthful, Fresh, Stopped
    <2> QED
        BY <2>1, <2>2, <2>3, <2>4 DEF Protocol
<1>7. Known /\ Promises /\ Open /\ Carried
    BY DEF Known, Promises, Open, Carried
<1>8. Shape /\ Justified
    <2>1. Len(tree) = 1 /\ tree[1].up = {1} /\ tree[1].status = "unsolved" /\ 1 .. 1 = {1}
        BY DEF TreeNode
    <2> QED
        BY <2>1 DEF Shape, ShapeOf, Justified, JustifiedOf
<1>9. AnswerSound /\ LeaderNeverFails
    BY DEF AnswerSound, LeaderNeverFails
<1> QED
    BY <1>4, <1>6, <1>7, <1>8, <1>9 DEF ClusterInv

LEMMA ClusterStays == ClusterInv /\ UNCHANGED vars => ClusterInv'
<1> SUFFICES ASSUME ClusterInv, UNCHANGED vars PROVE ClusterInv'
    OBVIOUS
<1> USE DEF vars, leaderVars, coordVars, channels
<1>1. TypeOK' /\ Shape' /\ Justified' /\ Open' /\ AnswerSound' /\ LeaderNeverFails'
    <2>1. TypeOK'
        BY DEF ClusterInv, TypeOK
    <2> QED
        BY <2>1, LeaderFrame DEF ClusterInv
<1>2. /\ \A c, s : Awaits(c, s)' <=> Awaits(c, s)
      /\ \A c, s : Sent(s, c)' <=> Sent(s, c)
      /\ \A s : Dead(s)' <=> Dead(s)
      /\ Parts' = Parts
    BY DEF Awaits, Sent, Dead, Parts
<1>3. Protocol'
    <2>1. Roles' /\ Channels' /\ OneRequest' /\ Conversation' /\ Kept'
        BY <1>2 DEF ClusterInv, Protocol, Roles, Channels, OneRequest, Conversation, Kept
    <2>2. IsolatedSays' /\ Served' /\ Expected' /\ PartsAwaited'
        BY <1>2 DEF ClusterInv, Protocol, IsolatedSays, Served, WillCome, Expected, PartsAwaited
    <2>3. Truthful' /\ Fresh' /\ Stopped'
        BY <1>2 DEF ClusterInv, Protocol, Truthful, Truth, Fresh, Stopped
    <2> QED
        BY <2>1, <2>2, <2>3 DEF Protocol
<1>4. Known' /\ Promises'
    <2>1. \A c, t : (Promise(c, t)' <=> Promise(c, t)) /\ (Waiting(t)' <=> Waiting(t))
        BY DEF Promise, Waiting
    <2> QED
        BY <2>1 DEF ClusterInv, Known, IdleKnown, SplitKnown, RequestKnown, Promises
<1>5. Carried'
    <2>1. \A s, c, p : Comes(s, c, p) => Comes(s, c, p)'
        BY <1>2 DEF Comes
    <2>2. \A c, p : Carries(c, p) => Carries(c, p)'
        BY <1>2, <2>1 DEF Carries
    <2> QED
        BY <2>2 DEF ClusterInv, Carried
<1> QED
    BY <1>1, <1>3, <1>4, <1>5 DEF ClusterInv

LEMMA ClusterStep == PromptReplies /\ ClusterInv /\ [Next]_vars => ClusterInv'
<1> SUFFICES ASSUME PromptReplies, ClusterInv, [Next]_vars PROVE ClusterInv'
    OBVIOUS
<1> USE RankFacts
<1>1. CASE \E c \in Ranks : LeaderHears(c)
    <2> PICK c \in Ranks : LeaderHears(c)
        BY <1>1
    <2>1. CASE HearOriginalResult
        BY <2>1, HearOriginalResultStep
    <2>2. CASE HearPrePartition
        BY <2>2, HearPrePartitionStep
    <2>3. CASE HearSplitSucceed(c)
        BY <2>3, HearSplitSucceedStep
    <2>4. CASE HearSplitFailed(c)
        BY <2>4, HearSplitFailedStep
    <2>5. CASE HearResult(c)
        BY <2>5, HearResultStep
    <2>6. CASE HearError(c)
        BY <2>6, HearErrorStep
    <2> QED
        BY <2>1, <2>2, <2>3, <2>4, <2>5, <2>6 DEF LeaderHears
<1>2. CASE RequestSplit
    BY <1>2, RequestSplitStep
<1>3. CASE TimesOut
    BY <1>3, TimesOutStep
<1>4. CASE IsolatedNext
    <2>1. CASE IsolatedSolvesEarly
        BY <2>1, IsolatedSolvesEarlyStep
    <2>2. CASE PrePartition
        BY <2>2, PrePartitionStep
    <2>3. CASE HandOver
        BY <2>3, HandOverStep
    <2>4. CASE Terminate(Iso)
        BY <2>4, TerminateStep
    <2>5. CASE Discard(Iso)
        BY <2>5, DiscardStep
    <2>6. CASE Solve(Iso)
        BY <2>6, SolveStep
    <2>7. CASE Fail(Iso)
        BY <2>7, FailStep
    <2> QED
        BY <1>4, <2>1, <2>2, <2>3, <2>4, <2>5, <2>6, <2>7 DEF IsolatedNext, IsolatedMoves
<1>5. CASE \E c \in Coords : CoordinatorNext(c)
    <2> PICK c \in Coords : CoordinatorNext(c)
        BY <1>5
    <2>1. CASE SplitFails(c)
        BY <2>1, SplitFailsStep
    <2>2. CASE SplitSucceeds(c)
        BY <2>2, SplitSucceedsStep
    <2>3. CASE Transfer(c)
        BY <2>3, TransferStep
    <2>4. CASE TakeAssignment(c)
        BY <2>4, TakeAssignmentStep
    <2>5. CASE ReceiveInstance(c)
        BY <2>5, ReceiveInstanceStep
    <2>6. CASE Solve(c)
        BY <2>6, SolveStep
    <2>7. CASE Fail(c)
        BY <2>7, FailStep
    <2>8. CASE Terminate(c)
        BY <2>8, TerminateStep
    <2>9. CASE Discard(c)
        BY <2>9, DiscardStep
    <2> QED
        BY <2>1, <2>2, <2>3, <2>4, <2>5, <2>6, <2>7, <2>8, <2>9 DEF CoordinatorNext
<1>6. CASE UNCHANGED vars
    BY <1>6, ClusterStays
<1> QED
    BY <1>1, <1>2, <1>3, <1>4, <1>5, <1>6 DEF Next

(* In every state of the leader and its coordinators ClusterInv holds, if  *)
(* an answer arrives before the coordinator is asked again (split_tabu).   *)
THEOREM ClusterInvHolds ==
    ASSUME PromptReplies
    PROVE  Spec => []ClusterInv
<1>1. Init => ClusterInv
    BY ClusterInit
<1>2. ClusterInv /\ [Next]_vars => ClusterInv'
    BY ClusterStep
<1> QED
    BY <1>1, <1>2, PTL DEF Spec

(* The types of the leader's and the coordinators' state and messages.     *)
THEOREM ClusterTypeCorrect ==
    ASSUME PromptReplies
    PROVE  Spec => []TypeOK
<1>1. ClusterInv => TypeOK
    BY DEF ClusterInv
<1> QED
    BY <1>1, ClusterInvHolds, PTL

(* The answer the leader prints (Leader.solve) is right, whichever         *)
(* coordinators fail and however splits, transfers and results overlap.    *)
THEOREM AnswerSoundHolds ==
    ASSUME PromptReplies
    PROVE  Spec => []AnswerSound
<1>1. ClusterInv => AnswerSound
    BY DEF ClusterInv
<1> QED
    BY <1>1, ClusterInvHolds, PTL

(* The assertions of the leader (leader.py:32, 41 and 146) never fail.     *)
THEOREM LeaderNeverFailsHolds ==
    ASSUME PromptReplies
    PROVE  Spec => []LeaderNeverFails
<1>1. ClusterInv => LeaderNeverFails
    BY DEF ClusterInv
<1> QED
    BY <1>1, ClusterInvHolds, PTL

LEMMA ChannelDomains ==
    ASSUME TypeOK, NEW c \in Ranks
    PROVE  /\ DOMAIN toCoord[c] = 1 .. Len(toCoord[c])
           /\ DOMAIN toLeader[c] = 1 .. Len(toLeader[c])
           /\ DOMAIN idle = 1 .. Len(idle)
           /\ \A s \in Ranks : Sent(s, c) => 1 \in DOMAIN instance[<<s, c>>]
           /\ toCoord[c] # <<>> => At(toCoord[c], Head(toCoord[c]).type, Head(toCoord[c]).rank)
<1>1. toCoord[c] \in Seq(Orders) /\ toLeader[c] \in Seq(Reports) /\ idle \in Seq(Coords)
    BY DEF TypeOK
<1>2. ASSUME NEW s \in Ranks, Sent(s, c) PROVE 1 \in DOMAIN instance[<<s, c>>]
    <2>1. instance[<<s, c>>] \in Seq(SUBSET Points) /\ instance[<<s, c>>] # <<>>
        BY <1>2 DEF TypeOK, Sent
    <2> QED
        BY <2>1, EmptySeq
<1>3. ASSUME toCoord[c] # <<>>
      PROVE  At(toCoord[c], Head(toCoord[c]).type, Head(toCoord[c]).rank)
    <2> DEFINE q == toCoord[c]
    <2>1. Len(q) >= 1 /\ Len(q) \in Nat /\ Head(q) = q[1]
        BY <1>1, <1>3, HeadTailProperties, EmptySeq
    <2> HIDE DEF q
    <2>2. At(q, Head(q).type, Head(q).rank)
        BY <2>1 DEF At
    <2> QED
        BY <2>2 DEF q
<1> QED
    BY <1>1, <1>2, <1>3

(* process_transfer_message sends the node that was split off for the rank *)
(* it is given, although the coordinator may have gone idle, finished or   *)
(* taken another node since.                                               *)
THEOREM TransferMatchesHolds ==
    ASSUME PromptReplies
    PROVE  Spec => []TransferMatches
<1>1. ASSUME ClusterInv PROVE TransferMatches
    <2> SUFFICES ASSUME NEW c \in Coords, toCoord[c] # <<>>,
                        Head(toCoord[c]).type = "transfer_node"
                 PROVE  splitNode[c].target = Head(toCoord[c]).rank
        BY DEF TransferMatches
    <2>1. At(toCoord[c], "transfer_node", Head(toCoord[c]).rank)
        BY <1>1, RankFacts, ChannelDomains DEF ClusterInv
    <2>2. Head(toCoord[c]).rank \in Coords
        <3>1. Head(toCoord[c]) \in Orders
            BY <1>1, RankFacts, HeadTailProperties DEF ClusterInv, TypeOK
        <3> QED
            BY <3>1 DEF Orders
    <2> QED
        BY <1>1, <2>1, <2>2 DEF ClusterInv, Protocol, Kept
<1>2. ClusterInv => TransferMatches
    BY <1>1
<1> QED
    BY <1>2, ClusterInvHolds, PTL

(* The assertion of process_assign_message (coordinator.py:632) holds.     *)
THEOREM AssignFindsIdleHolds ==
    ASSUME PromptReplies
    PROVE  Spec => []AssignFindsIdle
<1>1. ASSUME ClusterInv PROVE AssignFindsIdle
    <2>1. ASSUME NEW c \in Coords, toCoord[c] # <<>>, Head(toCoord[c]).type = "assign_node"
          PROVE  Has(toCoord[c], "assign_node")
        BY <1>1, <2>1, RankFacts, ChannelDomains, AtHas DEF ClusterInv
    <2> QED
        BY <1>1, <2>1 DEF AssignFindsIdle, ClusterInv, Protocol, Conversation
<1>2. ClusterInv => AssignFindsIdle
    BY <1>1
<1> QED
    BY <1>2, ClusterInvHolds, PTL

(* idle_coordinators holds nobody twice, nobody who is at work and nobody  *)
(* who was promised to a split that is not settled.                        *)
THEOREM IdleQueueSoundHolds ==
    ASSUME PromptReplies
    PROVE  Spec => []IdleQueueSound
<1>1. ASSUME ClusterInv PROVE IdleQueueSound
    <2> SUFFICES ASSUME phase = "run"
                 PROVE  /\ \A i, j \in DOMAIN idle : i # j => idle[i] # idle[j]
                        /\ \A i \in DOMAIN idle :
                              /\ info[idle[i]] = "idle"
                              /\ \A c \in Coords : \A j \in DOMAIN toCoord[c] :
                                    toCoord[c][j].type \in {"request_split", "transfer_node"}
                                        => toCoord[c][j].rank # idle[i]
        BY DEF IdleQueueSound
    <2>1. /\ DOMAIN idle = 1 .. Len(idle)
          /\ \A c \in Coords : DOMAIN toCoord[c] = 1 .. Len(toCoord[c])
        BY <1>1, RankFacts, ChannelDomains DEF ClusterInv
    <2>2. \A i, j \in DOMAIN idle : i # j => idle[i] # idle[j]
        BY <1>1, <2>1 DEF ClusterInv, Promises, Once
    <2>3. ASSUME NEW i \in DOMAIN idle
          PROVE  /\ idle[i] \in Coords /\ Waiting(idle[i]) /\ info[idle[i]] = "idle"
                 /\ \A s : ~ Awaits(idle[i], s)
        <3>1. idle[i] \in Coords /\ Waiting(idle[i])
            <4>1. idle \in Seq(Coords)
                BY <1>1 DEF ClusterInv, TypeOK
            <4> QED
                BY <2>1, <4>1 DEF Waiting, Queued
        <3>2. info[idle[i]] = "idle"
            BY <1>1, <3>1 DEF ClusterInv, Promises
        <3>3. \A s : ~ Awaits(idle[i], s)
            BY <1>1, <3>1, <3>2, AtHas DEF ClusterInv, Known, IdleKnown, Awaits
        <3> QED
            BY <3>1, <3>2, <3>3
    <2>4. ASSUME NEW i \in DOMAIN idle, NEW c \in Coords, NEW j \in DOMAIN toCoord[c],
                 toCoord[c][j].type \in {"request_split", "transfer_node"},
                 toCoord[c][j].rank = idle[i]
          PROVE  FALSE
        <3>1. CASE toCoord[c][j].type = "request_split"
            <4>1. At(toCoord[c], "request_split", idle[i])
                BY <2>1, <2>4, <3>1 DEF At
            <4>2. Promise(c, idle[i])
                BY <4>1 DEF Promise
            <4> QED
                BY <1>1, <2>3, <4>2 DEF ClusterInv, Promises
        <3>2. CASE toCoord[c][j].type = "transfer_node"
            <4>1. At(toCoord[c], "transfer_node", idle[i])
                BY <2>1, <2>4, <3>2 DEF At
            <4> QED
                BY <1>1, <2>3, <4>1 DEF ClusterInv, Protocol, Expected
        <3> QED
            BY <2>4, <3>1, <3>2
    <2> QED
        BY <2>2, <2>3, <2>4
<1>2. ClusterInv => IdleQueueSound
    BY <1>1
<1> QED
    BY <1>2, ClusterInvHolds, PTL

(* Every coordinator the leader holds for busy has an open node of the     *)
(* distributed tree to itself, and no ancestor of that node is unsat (the  *)
(* assertions at leader.py:146 and partition_tree.py:413).                 *)
THEOREM AssignedOpenHolds ==
    ASSUME PromptReplies
    PROVE  Spec => []AssignedOpen
<1>1. ASSUME ClusterInv PROVE AssignedOpen
    <2> SUFFICES ASSUME phase = "run", NEW c \in Coords, info[c] # "idle"
                 PROVE  /\ assigned[c] # NoNode
                        /\ tree[assigned[c]].partial = "unsolved"
                        /\ \A a \in tree[assigned[c]].up : tree[a].status # "unsat"
                        /\ \A d \in Coords \ {c} : assigned[d] # assigned[c]
        BY DEF AssignedOpen
    <2> DEFINE n == assigned[c]
    <2>1. /\ n \in 1 .. Len(tree) /\ tree[n].partial = "unsolved"
          /\ \A d \in Coords \ {c} : assigned[d] # n
        BY <1>1 DEF ClusterInv, Open
    <2> HIDE DEF n
    <2>2. tree \in Seq(TreeNodes) /\ ShapeOf(tree) /\ JustifiedOf(tree)
        BY <1>1 DEF ClusterInv, TypeOK, TreeNodes, Shape, Justified
    <2>3. ASSUME NEW a \in tree[n].up PROVE tree[a].status # "unsat"
        <3>1. a \in 1 .. Len(tree)
            <4>1. tree[n].up \subseteq 1 .. n /\ Len(tree) \in Nat
                BY <2>1, <2>2 DEF ShapeOf
            <4> QED
                BY <2>1, <4>1
        <3>2. tree[n].status # "unsat"
            BY <2>1, <2>2 DEF JustifiedOf
        <3> QED
            BY <2>1, <2>2, <3>1, <3>2, UnsatBelow
    <2> QED
        BY <2>1, <2>3 DEF n, NoNode
<1>2. ClusterInv => AssignedOpen
    BY <1>1
<1> QED
    BY <1>2, ClusterInvHolds, PTL

(* While the leader waits, no solution of the input is without a holder,   *)
(* as long as no coordinator fails.                                        *)
THEOREM SolutionHeldHolds ==
    ASSUME PromptReplies, Failing = {}
    PROVE  Spec => []SolutionHeld
<1>1. ASSUME ClusterInv PROVE SolutionHeld
    <2> SUFFICES ASSUME phase = "run", NEW p \in SatPoints
                 PROVE  Held(p)
        BY DEF SolutionHeld
    <2> USE RankFacts
    <2>1. \A c \in Ranks : ~ Dead(c)
        BY <1>1 DEF ClusterInv, Protocol, Conversation
    <2>2. \A c \in Ranks : DOMAIN toCoord[c] = 1 .. Len(toCoord[c])
                           /\ DOMAIN toLeader[c] = 1 .. Len(toLeader[c])
                           /\ \A s \in Ranks : Sent(s, c) => 1 \in DOMAIN instance[<<s, c>>]
        BY <1>1, ChannelDomains DEF ClusterInv
    <2>3. PICK c \in Coords : Carries(c, p)
        BY <1>1 DEF ClusterInv, Carried
    <2>4. CASE state[c] = "solving" /\ p \in region[c]
        BY <2>4 DEF Held
    <2>5. CASE Has(toLeader[c], "notify_result") /\ p \in region[c]
        <3>1. Waits(c)
            BY <2>2, <2>5 DEF Waits, Has
        <3> QED
            BY <2>5, <3>1 DEF Held
    <2>6. CASE Has(toLeader[c], "split_succeed") /\ p \in splitNode[c].part
        <3>1. TransferDue(c)
            BY <2>2, <2>6 DEF TransferDue, Has
        <3> QED
            BY <2>6, <3>1 DEF Held
    <2>7. CASE \E s \in Ranks : Awaits(c, s) /\ Comes(s, c, p)
        <3>1. PICK s \in Ranks : Comes(s, c, p)
            BY <2>7
        <3>2. CASE Sent(s, c) /\ p \in instance[<<s, c>>][1]
            <4>1. <<s, c>> \in Ranks \X Ranks /\ 1 \in DOMAIN instance[<<s, c>>]
                BY <2>2, <3>2
            <4> QED
                BY <3>2, <4>1 DEF Held
        <3>3. CASE At(toCoord[s], "transfer_node", c) /\ p \in splitNode[s].part
            <4>1. s \in Coords
                BY <1>1, <3>3, AtHas DEF ClusterInv, Protocol, Roles
            <4>2. TransferDue(s)
                BY <2>2, <3>3 DEF TransferDue, At
            <4> QED
                BY <3>3, <4>1, <4>2 DEF Held
        <3>4. CASE s = Iso /\ state[Iso] = "handover"
            BY <3>4 DEF Held
        <3> QED
            BY <2>1, <3>1, <3>2, <3>3, <3>4 DEF Comes
    <2> QED
        BY <2>1, <2>3, <2>4, <2>5, <2>6, <2>7 DEF Carries
<1>2. ClusterInv => SolutionHeld
    BY <1>1
<1> QED
    BY <1>2, ClusterInvHolds, PTL

(* A coordinator in the blocking receive of an instance is served, or its  *)
(* sender has failed: the only way it can be left there for ever.          *)
ServedOrOrphaned ==
    \A c \in Coords : state[c] = "receive" =>
        LET s == source[c]
        IN  \/ instance[<<s, c>>] # <<>>
            \/ /\ state[s] \in {"idle", "receive", "solving"}
               /\ \E i \in DOMAIN toCoord[s] : toCoord[s][i] = MsgRank("transfer_node", c)
            \/ s = Iso /\ state[Iso] = "handover"
            \/ state[s] \in {"error", "failed"}

LEMMA ServedNow == ClusterInv => ServedOrOrphaned
<1> SUFFICES ASSUME ClusterInv, NEW c \in Coords, state[c] = "receive"
             PROVE  LET s == source[c]
                    IN  \/ instance[<<s, c>>] # <<>>
                        \/ /\ state[s] \in {"idle", "receive", "solving"}
                           /\ \E i \in DOMAIN toCoord[s] : toCoord[s][i] = MsgRank("transfer_node", c)
                        \/ s = Iso /\ state[Iso] = "handover"
                        \/ state[s] \in {"error", "failed"}
    BY DEF ServedOrOrphaned
<1> DEFINE s == source[c]
<1> USE RankFacts
<1>1. s \in Ranks /\ Awaits(c, s)
    BY DEF ClusterInv, TypeOK, Protocol, Conversation, Awaits
<1> HIDE DEF s
<1>2. WillCome(s, c)
    BY <1>1 DEF ClusterInv, Protocol, Served
<1>3. CASE At(toCoord[s], "transfer_node", c) /\ ~ Dead(s)
    <2>1. toCoord[s] \in Seq(Orders) /\ DOMAIN toCoord[s] = 1 .. Len(toCoord[s])
        BY <1>1, ChannelDomains DEF ClusterInv, TypeOK
    <2>2. PICK i \in 1 .. Len(toCoord[s]) : toCoord[s][i].type = "transfer_node" /\ toCoord[s][i].rank = c
        BY <1>3 DEF At
    <2>3. toCoord[s][i] = MsgRank("transfer_node", c)
        <3> DEFINE m == toCoord[s][i]
        <3>1. m \in Orders /\ m.type = "transfer_node" /\ m.rank = c
            BY <2>1, <2>2
        <3> HIDE DEF m
        <3>2. m \in [type : {"request_split", "transfer_node"}, rank : Coords]
            BY <3>1 DEF Orders
        <3>3. m = [type |-> "transfer_node", rank |-> c]
            BY <3>1, <3>2
        <3> QED
            BY <3>3 DEF m, MsgRank
    <2>4. s \in Coords /\ toCoord[s] # <<>>
        <3>1. Has(toCoord[s], "transfer_node")
            BY <1>3, AtHas
        <3>2. toCoord[s] # <<>>
            BY <2>2
        <3> QED
            BY <1>1, <3>1, <3>2 DEF ClusterInv, Protocol, Roles
    <2>5. state[s] \in {"idle", "receive", "solving"}
        BY <1>3, <2>4 DEF ClusterInv, Protocol, Roles, Stopped, Dead
    <2> QED
        BY <2>1, <2>2, <2>3, <2>5 DEF s
<1> QED
    BY <1>2, <1>3 DEF WillCome, Sent, Dead, s

(* Nobody who blocks in receive_node_from_coordinator is forgotten, also   *)
(* when coordinators fail: what it waits for is on its way or still to be  *)
(* sent, unless its sender has failed.                                     *)
THEOREM ServedOrOrphanedHolds ==
    ASSUME PromptReplies
    PROVE  Spec => []ServedOrOrphaned
BY ServedNow, ClusterInvHolds, PTL

(* Without failures nobody blocks in that receive for nothing.             *)
THEOREM ReceiverServedHolds ==
    ASSUME PromptReplies, Failing = {}
    PROVE  Spec => []ReceiverServed
<1>1. ASSUME ClusterInv PROVE ReceiverServed
    <2>1. \A c \in Ranks : state[c] \notin {"error", "failed"}
        BY <1>1 DEF ClusterInv, Protocol, Conversation, Dead
    <2>2. \A c \in Coords : state[c] = "receive" => source[c] \in Ranks
        BY <1>1, RankFacts DEF ClusterInv, TypeOK, Protocol, Conversation
    <2> QED
        BY <1>1, <2>1, <2>2, ServedNow DEF ServedOrOrphaned, ReceiverServed
<1>2. ClusterInv => ReceiverServed
    BY <1>1
<1> QED
    BY <1>2, ClusterInvHolds, PTL
=============================================================================
