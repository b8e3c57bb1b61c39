---------------------- MODULE ResidentProgress_proofs -----------------------
(***************************************************************************)
(* What holds of the work of the resident search on its graph, for any     *)
(* domain, any capacities, path depth and number of pieces of work.        *)
(*                                                                         *)
(* The invariant is kept as accounts: Books(x, k) says what a situation x  *)
(* still holds when the first k occurrences of its path have let go, so    *)
(* the disposal of a piece of work goes from Books(x, 0) to                *)
(* Books(x, Len(path)) one occurrence at a time.  Kempt is what holds of   *)
(* the records between two steps, IInv relates it to where the thread is.  *)
(* Operators on situations are dealt with first, the actions after them.   *)
(***************************************************************************)
EXTENDS ResidentProgress, GraphStore_proofs, SequenceTheorems

-----------------------------------------------------------------------------
(* The accounts and the invariant.                                         *)

\* The ranges of the records of Progress and of the Policy's.
Occurrences == [node: Slots, gen: Gens, edge: Bases \cup {NoEdge}, edgeGen: Gens, prepared: BOOLEAN]
Causes == {0, 2, 6, 8, 11, 14}
Records == [graph: Graphs, path: Seq(Occurrences), work: 0 .. MaxWork, begun: 0 .. MaxWork,
            ended: Int, loose: Bases \cup {NoEdge}, looseGen: Gens,
            cur: Handles \cup {NoHandle}, asked: Handles \cup {NoHandle},
            protections: Int, evaluations: Int, leases: Int,
            stop: Causes, first: Causes, drain: Causes, final: BOOLEAN]
Policies == [prepared: [Slots -> Int], reserved: [Bases -> Int]]
Situations == [m: Records, policy: Policies]

\* Occurrences from k + 1 on: those at a node, those that hold an edge, those
\* that hold a certain edge and those that are prepared at a node.
Ahead(path, k) == k + 1 .. Len(path)
At(path, k, n) == {i \in Ahead(path, k) : path[i].node = n}
Leasing(path, k) == {i \in Ahead(path, k) : path[i].edge # NoEdge}
Over(path, k, e) == {i \in Ahead(path, k) : path[i].edge = e}
Ready(path, k, n) == {i \in Ahead(path, k) : path[i].prepared /\ path[i].node = n}

\* The occurrences from k + 1 on are live, each is counted by its node, and
\* nothing else is protected but the node under evaluation.
Guarded(x, k) ==
    LET g == x.m.graph
        path == x.m.path
    IN
    /\ \A n \in Slots :
          /\ g.nodes[n].pin = 0 /\ g.nodes[n].path = Cardinality(At(path, k, n))
          /\ g.nodes[n].eval = IF x.m.asked # NoHandle /\ x.m.asked.node = n THEN 1 ELSE 0
    /\ x.m.evaluations = IF x.m.asked # NoHandle THEN 1 ELSE 0
    /\ x.m.asked # NoHandle => Valid(g, x.m.asked.node, x.m.asked.gen)
    /\ x.m.protections = Len(path) - k
    /\ \A i \in Ahead(path, k) : Valid(g, path[i].node, path[i].gen)

\* They and the loose edge hold different edges, each leased by this work, and
\* the totals and the Policy's ledger count them.
Lent(x, k) ==
    LET path == x.m.path
        loose == x.m.loose
    IN
    /\ \A i \in Leasing(path, k) : Leased(x, path[i].edge, path[i].edgeGen) /\ path[i].edge # loose
    /\ \A i, j \in Leasing(path, k) : path[i].edge = path[j].edge => i = j
    /\ loose # NoEdge => Leased(x, loose, x.m.looseGen)
    /\ x.m.leases = Cardinality(Leasing(path, k)) + (IF loose = NoEdge THEN 0 ELSE 1)
    /\ \A e \in Bases : /\ x.m.graph.edges[e].lease <= MaxWork
                        /\ x.policy.reserved[e] = Cardinality(Over(path, k, e))
                                                    + (IF loose = e THEN 1 ELSE 0)

\* The Policy counts as prepared what is prepared on the path.
Noted(x, k) == \A n \in Slots : x.policy.prepared[n] = Cardinality(Ready(x.m.path, k, n))

\* The accounts balance from the k-th occurrence on; the path is within its bound and
\* only a piece of work holds anything.
Books(x, k) ==
    /\ x \in Situations /\ GraphInv(x.m.graph) /\ k \in 0 .. Len(x.m.path)
    /\ Len(x.m.path) <= PathDepth
    /\ x.m.work = 0 => x.m.path = <<>> /\ x.m.loose = NoEdge
    /\ Guarded(x, k) /\ Lent(x, k) /\ Noted(x, k)

\* The edge of an occurrence is a candidate of the one before.
Threaded(x) ==
    LET g == x.m.graph
        path == x.m.path
    IN
    /\ \A i \in Leasing(path, 0) : i > 1 /\ path[i].edge \in Candidates(g, path[i - 1].node)
    /\ x.m.loose # NoEdge => path # <<>> /\ x.m.loose \in Candidates(g, path[Len(path)].node)

\* An edge leads to a node.  The edges of the path do, and the loose one leads to the
\* node to go to.
Toward(g, e, n, gen) == g.edges[e].child = n /\ g.edges[e].childGen = gen

Followed(x) ==
    \A i \in Leasing(x.m.path, 0) :
        Toward(x.m.graph, x.m.path[i].edge, x.m.path[i].node, x.m.path[i].gen)

Joined(x) ==
    Followed(x) /\ (x.m.loose # NoEdge => Toward(x.m.graph, x.m.loose, x.m.cur.node, x.m.cur.gen))

\* The focus is live.
Rooted(x) == Valid(x.m.graph, x.m.graph.root, x.m.graph.rootGen)

\* What holds of the records whenever the device thread is between two steps.
Kempt(x) ==
    /\ Books(x, 0) /\ Threaded(x) /\ Rooted(x)
    /\ \A i \in DOMAIN x.m.path : ~x.m.path[i].prepared
    /\ x.m.begun = x.m.ended + (IF x.m.work = 0 THEN 0 ELSE 1)

\* The inductive invariant: the records are kept, and where the thread is says what
\* is pending: work is left over exactly for a request that was not taken back.
IInv ==
    /\ Kempt(X)
    /\ pc \in {"control", "body", "controller", "advance", "descend", "repeat", "over"}
    /\ request \in {"free", "queued", "ready", "failed", "cancelled"} /\ cancel \in BOOLEAN
    /\ request = "free" <=> m.asked = NoHandle
    /\ pc = "descend" => m.asked = NoHandle /\ m.work # 0
    /\ pc # "descend" => /\ m.work # 0 <=> m.asked # NoHandle
                         /\ m.loose = NoEdge
    /\ pc = "over" => m.asked = NoHandle
    /\ m.asked # NoHandle => m.path # <<>>

-----------------------------------------------------------------------------
(* Causes, frames and counts.                                              *)

\* Two situations that differ in causes, cursors and totals of the work at most.
Alike(x, y) ==
    /\ y \in Situations /\ y.policy = x.policy /\ y.m.graph = x.m.graph /\ y.m.path = x.m.path
    /\ y.m.work = x.m.work /\ y.m.loose = x.m.loose /\ y.m.looseGen = x.m.looseGen
    /\ y.m.asked = x.m.asked /\ y.m.protections = x.m.protections
    /\ y.m.evaluations = x.m.evaluations /\ y.m.leases = x.m.leases

\* Alike situations have the same accounts.
LEMMA AlikeBooks ==
    ASSUME NEW x, NEW y, Alike(x, y), NEW k
    PROVE  /\ Books(x, k) => Books(y, k)
           /\ Threaded(x) => Threaded(y)
           /\ Rooted(x) => Rooted(y)
<1>1. Guarded(x, k) => Guarded(y, k)
  BY DEF Alike, Guarded
<1>2. Lent(x, k) => Lent(y, k)
  BY ZenonT(60) DEF Alike, Lent, Leased
<1>3. Noted(x, k) => Noted(y, k)
  BY DEF Alike, Noted
<1>4. Books(x, k) => Books(y, k)
  BY <1>1, <1>2, <1>3 DEF Alike, Books
<1>5. Threaded(x) => Threaded(y)
  BY DEF Alike, Threaded
<1>6. Rooted(x) => Rooted(y)
  BY DEF Alike, Rooted
<1> QED
  BY <1>4, <1>5, <1>6

\* A cause is noted.
LEMMA StopLemma ==
    ASSUME NEW x \in Situations, NEW cause \in Causes
    PROVE  LET y == Stop(x, cause) IN
           Alike(x, y) /\ y.m.begun = x.m.begun /\ y.m.ended = x.m.ended /\ y.m.cur = x.m.cur
<1> DEFINE first == IF x.m.first = 0 THEN cause ELSE x.m.first
           drain == IF x.m.final /\ x.m.drain = 0 THEN cause ELSE x.m.drain
           y == Stop(x, cause)
<1>1. x.m \in Records /\ x.policy \in Policies
  BY DEF Situations
<1>2. first \in Causes /\ drain \in Causes
  BY <1>1 DEF Records
<1>3. y = [x EXCEPT !.m.first = first, !.m.drain = drain, !.m.stop = cause]
  BY DEF Stop
<1> HIDE DEF first, drain, y
<1>4. y.m = [x.m EXCEPT !.first = first, !.drain = drain, !.stop = cause] /\ y.policy = x.policy
      /\ y = [m |-> y.m, policy |-> y.policy]
  BY <1>3 DEF Situations
<1>5. /\ y.m \in Records /\ y.m.graph = x.m.graph /\ y.m.path = x.m.path
      /\ y.m.work = x.m.work /\ y.m.loose = x.m.loose /\ y.m.looseGen = x.m.looseGen
      /\ y.m.asked = x.m.asked /\ y.m.protections = x.m.protections
      /\ y.m.evaluations = x.m.evaluations /\ y.m.leases = x.m.leases
      /\ y.m.begun = x.m.begun /\ y.m.ended = x.m.ended /\ y.m.cur = x.m.cur
  BY ZenonT(60), <1>1, <1>2, <1>4 DEF Records
<1>6. y \in Situations
  BY <1>1, <1>4, <1>5 DEF Situations
<1> QED
  BY <1>4, <1>5, <1>6 DEF Alike, y

\* What letting go leaves alone: everything but leases, protections and counts.
Frame(x, y) ==
    LET f == x.m.graph
        g == y.m.graph
    IN
    /\ y \in Situations /\ y.m.path = x.m.path /\ y.m.work = x.m.work /\ y.m.begun = x.m.begun
    /\ y.m.ended = x.m.ended /\ y.m.loose = x.m.loose /\ y.m.looseGen = x.m.looseGen
    /\ y.m.cur = x.m.cur /\ y.m.asked = x.m.asked /\ y.m.evaluations = x.m.evaluations
    /\ y.m.stop = x.m.stop /\ y.m.first = x.m.first /\ y.m.drain = x.m.drain /\ y.m.final = x.m.final
    /\ GraphInv(g) /\ LiveOf(g) = LiveOf(f) /\ g.root = f.root /\ g.rootGen = f.rootGen
    /\ g.high = f.high
    /\ \A n \in Slots : /\ Candidates(g, n) = Candidates(f, n)
                        /\ g.nodes[n].pub = f.nodes[n].pub /\ g.nodes[n].gen = f.nodes[n].gen
                        /\ g.nodes[n].state = f.nodes[n].state

\* What is left alone twice is left alone.
LEMMA FrameTwice ==
    ASSUME NEW x, NEW y, NEW z, Frame(x, y), Frame(y, z)
    PROVE  Frame(x, z)
  BY ZenonT(60) DEF Frame

\* Nodes are as valid as they were.
LEMMA FrameValid ==
    ASSUME NEW x \in Situations, NEW y, GraphInv(x.m.graph), Frame(x, y), NEW n, NEW gen
    PROVE  Valid(y.m.graph, n, gen) <=> Valid(x.m.graph, n, gen)
<1>1. x.m.graph.high \in 0 .. NodeCapacity /\ NodeCapacity \in Nat
  BY GraphConstants DEF GraphInv, Graphs
<1>2. n \in 0 .. x.m.graph.high - 1 => n \in Slots
  BY <1>1 DEF Slots
<1> QED
  BY <1>2 DEF Valid, Frame

\* A path is made of occurrences.
LEMMA PathType ==
    ASSUME NEW x \in Situations
    PROVE  LET path == x.m.path IN
           /\ path \in Seq(Occurrences) /\ Len(path) \in Nat /\ DOMAIN path = 1 .. Len(path)
           /\ \A i \in 1 .. Len(path) : path[i] \in Occurrences
           /\ \A k \in 0 .. Len(path) : Ahead(path, k) \subseteq 1 .. Len(path)
<1>1. x.m.path \in Seq(Occurrences)
  BY DEF Situations, Records
<1> DEFINE path == x.m.path
<1> HIDE DEF path
<1>2. path \in Seq(Occurrences)
  BY <1>1 DEF path
<1>3. Len(path) \in Nat /\ DOMAIN path = 1 .. Len(path)
  BY <1>2
<1>4. \A i \in 1 .. Len(path) : path[i] \in Occurrences
  BY <1>2
<1>5. \A k \in 0 .. Len(path) : Ahead(path, k) \subseteq 1 .. Len(path)
  BY <1>3 DEF Ahead
<1> QED
  BY <1>2, <1>3, <1>4, <1>5 DEF path

\* What is ahead of k is k + 1 and what is ahead of it.
LEMMA Steps ==
    ASSUME NEW x \in Situations, NEW k \in 0 .. Len(x.m.path) - 1
    PROVE  LET path == x.m.path IN
           /\ k + 1 \in 1 .. Len(path) /\ Ahead(path, k) = Ahead(path, k + 1) \cup {k + 1}
           /\ k + 1 \notin Ahead(path, k + 1)
           /\ \A S \in SUBSET Ahead(path, k + 1) :
                 /\ Cardinality(S) \in Nat /\ Cardinality(S \cup {k + 1}) = Cardinality(S) + 1
<1> DEFINE path == x.m.path
<1>1. Len(path) \in Nat
  BY PathType
<1> HIDE DEF path
<1>2. k \in 0 .. Len(path) - 1
  BY DEF path
<1>3. /\ k + 1 \in 1 .. Len(path) /\ Ahead(path, k) = Ahead(path, k + 1) \cup {k + 1}
      /\ k + 1 \notin Ahead(path, k + 1)
  BY <1>1, <1>2 DEF Ahead
<1>4. IsFiniteSet(Ahead(path, k + 1))
  BY <1>1, <1>2, FS_Interval DEF Ahead
<1>5. ASSUME NEW S \in SUBSET Ahead(path, k + 1)
      PROVE  Cardinality(S) \in Nat /\ Cardinality(S \cup {k + 1}) = Cardinality(S) + 1
  <2>1. IsFiniteSet(S)
    BY <1>4, FS_Subset
  <2>2. k + 1 \notin S
    BY <1>3
  <2> QED
    BY <2>1, <2>2, FS_AddElement, FS_CardinalityType
<1> QED
  BY <1>3, <1>5 DEF path

\* What each count loses with the occurrence k + 1.
LEMMA Counts ==
    ASSUME NEW x \in Situations, NEW k \in 0 .. Len(x.m.path) - 1
    PROVE  LET path == x.m.path
               r == path[k + 1]
           IN
           /\ \A n : Cardinality(At(path, k, n)) =
                        Cardinality(At(path, k + 1, n)) + (IF r.node = n THEN 1 ELSE 0)
           /\ Cardinality(Leasing(path, k)) =
                 Cardinality(Leasing(path, k + 1)) + (IF r.edge # NoEdge THEN 1 ELSE 0)
           /\ \A e : Cardinality(Over(path, k, e)) =
                        Cardinality(Over(path, k + 1, e)) + (IF r.edge = e THEN 1 ELSE 0)
           /\ \A n : Cardinality(Ready(path, k, n)) =
                        Cardinality(Ready(path, k + 1, n)) + (IF r.prepared /\ r.node = n THEN 1 ELSE 0)
           /\ \A n : /\ Cardinality(At(path, k + 1, n)) \in Nat
                     /\ Cardinality(Ready(path, k + 1, n)) \in Nat
                     /\ Cardinality(Over(path, k + 1, n)) \in Nat
           /\ Cardinality(Leasing(path, k + 1)) \in Nat
<1> DEFINE path == x.m.path
           j == k + 1
           r == path[j]
<1>1. /\ Ahead(path, k) = Ahead(path, j) \cup {j}
      /\ \A S \in SUBSET Ahead(path, j) :
            /\ Cardinality(S) \in Nat /\ Cardinality(S \cup {j}) = Cardinality(S) + 1
  BY Steps
<1> HIDE DEF path, j
<1>2. ASSUME NEW n
      PROVE  /\ Cardinality(At(path, k, n)) =
                  Cardinality(At(path, j, n)) + (IF r.node = n THEN 1 ELSE 0)
             /\ Cardinality(At(path, j, n)) \in Nat
  <2> DEFINE S == At(path, j, n)
  <2>1. At(path, j, n) \in SUBSET Ahead(path, j)
    BY DEF At
  <2>2. At(path, k, n) = IF r.node = n THEN At(path, j, n) \cup {j} ELSE At(path, j, n)
    BY <1>1 DEF At
  <2>3. Cardinality(S) \in Nat /\ Cardinality(S \cup {j}) = Cardinality(S) + 1
    BY <2>1, <1>1
  <2> HIDE DEF S
  <2> QED
    BY <2>2, <2>3 DEF S
<1>3. /\ Cardinality(Leasing(path, k)) =
           Cardinality(Leasing(path, j)) + (IF r.edge # NoEdge THEN 1 ELSE 0)
      /\ Cardinality(Leasing(path, j)) \in Nat
  <2> DEFINE S == Leasing(path, j)
  <2>1. Leasing(path, j) \in SUBSET Ahead(path, j)
    BY DEF Leasing
  <2>2. Leasing(path, k) = IF r.edge # NoEdge THEN Leasing(path, j) \cup {j}
                           ELSE Leasing(path, j)
    BY <1>1 DEF Leasing
  <2>3. Cardinality(S) \in Nat /\ Cardinality(S \cup {j}) = Cardinality(S) + 1
    BY <2>1, <1>1
  <2> HIDE DEF S
  <2> QED
    BY <2>2, <2>3 DEF S
<1>4. ASSUME NEW e
      PROVE  /\ Cardinality(Over(path, k, e)) =
                  Cardinality(Over(path, j, e)) + (IF r.edge = e THEN 1 ELSE 0)
             /\ Cardinality(Over(path, j, e)) \in Nat
  <2> DEFINE S == Over(path, j, e)
  <2>1. Over(path, j, e) \in SUBSET Ahead(path, j)
    BY DEF Over
  <2>2. Over(path, k, e) = IF r.edge = e THEN Over(path, j, e) \cup {j} ELSE Over(path, j, e)
    BY <1>1 DEF Over
  <2>3. Cardinality(S) \in Nat /\ Cardinality(S \cup {j}) = Cardinality(S) + 1
    BY <2>1, <1>1
  <2> HIDE DEF S
  <2> QED
    BY <2>2, <2>3 DEF S
<1>5. ASSUME NEW n
      PROVE  /\ Cardinality(Ready(path, k, n)) =
                  Cardinality(Ready(path, j, n)) + (IF r.prepared /\ r.node = n THEN 1 ELSE 0)
             /\ Cardinality(Ready(path, j, n)) \in Nat
  <2> DEFINE S == Ready(path, j, n)
  <2>1. Ready(path, j, n) \in SUBSET Ahead(path, j)
    BY DEF Ready
  <2>2. Ready(path, k, n) = IF r.prepared /\ r.node = n THEN Ready(path, j, n) \cup {j}
                            ELSE Ready(path, j, n)
    BY <1>1 DEF Ready
  <2>3. Cardinality(S) \in Nat /\ Cardinality(S \cup {j}) = Cardinality(S) + 1
    BY <2>1, <1>1
  <2> HIDE DEF S
  <2> QED
    BY <2>2, <2>3 DEF S
<1> QED
  BY <1>2, <1>3, <1>4, <1>5 DEF path, j

-----------------------------------------------------------------------------
(* Records and leases are given back.                                      *)

\* The part of the accounts that does not depend on how many occurrences are left.
Sound(x) ==
    /\ x \in Situations /\ GraphInv(x.m.graph) /\ Len(x.m.path) <= PathDepth
    /\ x.m.work = 0 => x.m.path = <<>> /\ x.m.loose = NoEdge

\* The guards and the leases of a situation follow it through a change of the
\* other accounts.
LEMMA GuardedAfter ==
    ASSUME NEW x, NEW y, NEW k, Sound(x), Frame(x, y), Guarded(x, k),
           y.m.graph.nodes = x.m.graph.nodes, y.m.protections = x.m.protections
    PROVE  Guarded(y, k)
<1>1. /\ y.m.path = x.m.path /\ y.m.asked = x.m.asked /\ y.m.evaluations = x.m.evaluations
      /\ y.m.graph.high = x.m.graph.high
  BY DEF Frame
<1>2. \A n, gen : Valid(y.m.graph, n, gen) <=> Valid(x.m.graph, n, gen)
  BY <1>1 DEF Valid
<1>3. \A n : y.m.graph.nodes[n] = x.m.graph.nodes[n]
  OBVIOUS
<1> QED
  BY <1>1, <1>2, <1>3 DEF Guarded

\* The leases follow in the same way.
LEMMA LentAfter ==
    ASSUME NEW x, NEW y, NEW k, Sound(x), Frame(x, y), Lent(x, k),
           y.m.graph.edges = x.m.graph.edges, y.m.leases = x.m.leases,
           y.policy.reserved = x.policy.reserved
    PROVE  Lent(y, k)
<1>1. /\ y.m.path = x.m.path /\ y.m.loose = x.m.loose /\ y.m.looseGen = x.m.looseGen
      /\ y.m.work = x.m.work
  BY DEF Frame
<1> QED
  BY ZenonT(60), <1>1 DEF Lent, Leased

\* So does the rest.
LEMMA SoundAfter ==
    ASSUME NEW x, NEW y, Sound(x), Frame(x, y)
    PROVE  Sound(y)
  BY DEF Sound, Frame

\* The record of an occurrence is completed or abandoned.
LEMMA ForgetLemma ==
    ASSUME NEW x, Sound(x), NEW k \in 0 .. Len(x.m.path) - 1, Noted(x, k)
    PROVE  LET y == Forget(x, x.m.path[k + 1]) IN
           /\ Frame(x, y) /\ Noted(y, k + 1) /\ y.m = x.m /\ y.policy.reserved = x.policy.reserved
<1> DEFINE path == x.m.path
           r == path[k + 1]
           y == Forget(x, r)
           prepared == [x.policy.prepared EXCEPT ![r.node] = @ - 1]
<1>1. x \in Situations /\ x.policy \in Policies /\ x.policy.prepared \in [Slots -> Int]
  BY DEF Sound, Situations, Policies
<1>2. r \in Occurrences /\ r.node \in Slots /\ r.prepared \in BOOLEAN
  <2>1. k + 1 \in 1 .. Len(x.m.path)
    BY <1>1, Steps
  <2> QED
    BY <1>1, <2>1, PathType DEF Occurrences
<1>3. \A n : /\ Cardinality(Ready(path, k, n)) =
                  Cardinality(Ready(path, k + 1, n)) + (IF r.prepared /\ r.node = n THEN 1 ELSE 0)
             /\ Cardinality(Ready(path, k + 1, n)) \in Nat
  BY ZenonT(60), <1>1, Counts
<1> HIDE DEF path
<1>4. CASE r.prepared
  <2>1. y = [x EXCEPT !.policy.prepared = prepared]
    BY <1>1, <1>4 DEF Forget
  <2>2. \A n \in Slots : prepared[n] = x.policy.prepared[n] - (IF r.node = n THEN 1 ELSE 0)
    BY <1>1, <1>2
  <2>3. prepared \in [Slots -> Int]
    BY <1>1, <1>2
  <2> HIDE DEF prepared, y, r
  <2>4. y.m = x.m /\ y.policy = [x.policy EXCEPT !.prepared = prepared] /\ y = [m |-> y.m, policy |-> y.policy]
    BY <2>1, <1>1 DEF Situations
  <2>5. y.policy \in Policies /\ y.policy.prepared = prepared /\ y.policy.reserved = x.policy.reserved
    BY <2>3, <2>4, <1>1 DEF Policies
  <2>6. y \in Situations
    BY <2>4, <2>5, <1>1 DEF Situations
  <2>7. Noted(y, k + 1)
    <3>1. ASSUME NEW n \in Slots PROVE prepared[n] = Cardinality(Ready(path, k + 1, n))
      <4>1. x.policy.prepared[n] = Cardinality(Ready(path, k, n))
        BY DEF Noted, path
      <4>2. CASE r.node = n
        BY <4>1, <4>2, <2>2, <1>3, <1>4
      <4>3. CASE r.node # n
        BY <4>1, <4>3, <2>2, <1>3, <1>4
      <4> QED
        BY <4>2, <4>3
    <3> QED
      BY <3>1, <2>4, <2>5 DEF Noted, path
  <2> QED
    BY <2>4, <2>5, <2>6, <2>7 DEF Frame, Sound, y, r, path
<1>5. CASE ~r.prepared
  <2>1. y = x
    BY <1>5 DEF Forget
  <2>2. Noted(x, k + 1)
    <3>1. ASSUME NEW n \in Slots PROVE x.policy.prepared[n] = Cardinality(Ready(path, k + 1, n))
      <4>1. x.policy.prepared[n] = Cardinality(Ready(path, k, n))
        BY DEF Noted, path
      <4> HIDE DEF r
      <4> QED
        BY <4>1, <1>3, <1>5
    <3> QED
      BY <3>1 DEF Noted, path
  <2> QED
    BY <2>1, <2>2 DEF Frame, Sound, path
<1> QED
  BY <1>4, <1>5

\* What giving a lease back changes: the edge, the total and the ledger.
Repaid(x, y, e) ==
    /\ Frame(x, y) /\ y.m.graph.nodes = x.m.graph.nodes
    /\ y.m.protections = x.m.protections /\ y.policy.prepared = x.policy.prepared
    /\ \A b \in Bases : /\ y.m.graph.edges[b].gen = x.m.graph.edges[b].gen
                        /\ b # e => y.m.graph.edges[b] = x.m.graph.edges[b]
    /\ y.m.graph.edges[e].lease = 0 /\ y.m.leases = x.m.leases - 1
    /\ \A b \in Bases : y.policy.reserved[b] = x.policy.reserved[b] - (IF b = e THEN 1 ELSE 0)

\* A lease that is held goes back.
LEMMA ReleaseLemma ==
    ASSUME NEW x, Sound(x), NEW e \in Bases, NEW gen, Leased(x, e, gen)
    PROVE  Repaid(x, Release(x, e, gen), e)
<1> DEFINE g == x.m.graph
           h == [g EXCEPT !.edges[e].lease = 0]
           leases == x.m.leases - 1
           reserved == [x.policy.reserved EXCEPT ![e] = @ - 1]
           y == Release(x, e, gen)
<1>1. /\ x \in Situations /\ x.m \in Records /\ x.policy \in Policies /\ x.m.leases \in Int
      /\ x.policy.reserved \in [Bases -> Int] /\ GraphInv(g)
  BY DEF Sound, Situations, Records, Policies
<1>2. y = [x EXCEPT !.m.graph = h, !.m.leases = leases, !.policy.reserved = reserved]
  BY <1>1 DEF Release
<1>3. /\ reserved \in [Bases -> Int] /\ leases \in Int
      /\ \A b \in Bases : reserved[b] = x.policy.reserved[b] - (IF b = e THEN 1 ELSE 0)
  BY <1>1
<1>4. /\ GraphInv(h) /\ LiveOf(h) = LiveOf(g)
      /\ \A k \in Slots : Candidates(h, k) = Candidates(g, k)
      /\ h.root = g.root /\ h.rootGen = g.rootGen /\ h.nodes = g.nodes /\ h.high = g.high
      /\ \A b \in Bases : h.edges[b].gen = g.edges[b].gen /\ (b # e => h.edges[b] = g.edges[b])
      /\ h.edges[e].lease = 0
  <2>1. h = [g EXCEPT !.edges[e].lease = 0] /\ 0 \in Nat
    OBVIOUS
  <2> HIDE DEF g, h
  <2>2. Loaned(g, h, e, 0)
    BY <1>1, <2>1, LeaseEdit
  <2> QED
    BY <2>2 DEF Loaned
<1> HIDE DEF h, leases, reserved, y
<1>5. /\ y.m = [x.m EXCEPT !.graph = h, !.leases = leases]
      /\ y.policy = [x.policy EXCEPT !.reserved = reserved] /\ y = [m |-> y.m, policy |-> y.policy]
  BY <1>1, <1>2 DEF Situations
<1>6. /\ y.m \in Records /\ y.m.graph = h /\ y.m.leases = leases /\ y.m.path = x.m.path
      /\ y.m.work = x.m.work /\ y.m.begun = x.m.begun /\ y.m.ended = x.m.ended
      /\ y.m.loose = x.m.loose /\ y.m.looseGen = x.m.looseGen /\ y.m.cur = x.m.cur
      /\ y.m.asked = x.m.asked /\ y.m.protections = x.m.protections
      /\ y.m.evaluations = x.m.evaluations /\ y.m.stop = x.m.stop /\ y.m.first = x.m.first
      /\ y.m.drain = x.m.drain /\ y.m.final = x.m.final
  <2>1. h \in Graphs
    BY <1>4 DEF GraphInv
  <2> QED
    BY ZenonT(60), <2>1, <1>1, <1>3, <1>5 DEF Records
<1>7. y.policy \in Policies /\ y.policy.reserved = reserved /\ y.policy.prepared = x.policy.prepared
  BY <1>1, <1>3, <1>5 DEF Policies
<1>8. y \in Situations
  BY <1>5, <1>6, <1>7 DEF Situations
<1>9. Frame(x, y)
  BY <1>4, <1>6, <1>8 DEF Frame
<1> QED
  BY <1>3, <1>4, <1>6, <1>7, <1>9 DEF Repaid, y, leases

-----------------------------------------------------------------------------
(* Protections are given back.                                             *)

\* The ledger of prepared records follows a situation likewise.
LEMMA NotedAfter ==
    ASSUME NEW x, NEW y, NEW k, Frame(x, y), Noted(x, k), y.policy.prepared = x.policy.prepared
    PROVE  Noted(y, k)
  BY DEF Frame, Noted

\* A lease goes back: the occurrence that held it holds none.
LEMMA LeaseBack ==
    ASSUME NEW x, Sound(x), NEW k \in 0 .. Len(x.m.path) - 1, Lent(x, k)
    PROVE  LET r == x.m.path[k + 1]
               y == Release(x, r.edge, r.edgeGen)
           IN  /\ r.edge = NoEdge => Lent(x, k + 1)
               /\ r.edge # NoEdge => Repaid(x, y, r.edge) /\ Lent(y, k + 1)
<1> DEFINE path == x.m.path
           j == k + 1
           r == path[j]
           e == r.edge
           y == Release(x, e, r.edgeGen)
<1>1. x \in Situations /\ x.m \in Records /\ x.m.loose \in Bases \cup {NoEdge}
  BY DEF Sound, Situations, Records
<1>2. r \in Occurrences /\ e \in Bases \cup {NoEdge}
  <2>1. j \in 1 .. Len(path)
    BY <1>1, Steps
  <2> QED
    BY <1>1, <2>1, PathType DEF Occurrences
<1>3. /\ Ahead(path, k) = Ahead(path, j) \cup {j} /\ j \notin Ahead(path, j)
  BY <1>1, Steps
<1>4. /\ Cardinality(Leasing(path, k)) = Cardinality(Leasing(path, j)) + (IF e # NoEdge THEN 1 ELSE 0)
      /\ \A b : /\ Cardinality(Over(path, k, b)) =
                     Cardinality(Over(path, j, b)) + (IF e = b THEN 1 ELSE 0)
                /\ Cardinality(Over(path, j, b)) \in Nat
      /\ Cardinality(Leasing(path, j)) \in Nat
  BY ZenonT(60), <1>1, Counts
<1>5. NoEdge \notin Bases
  BY DEF NoEdge, Bases
<1> HIDE DEF path, j
<1>6. Leasing(path, k) = IF e # NoEdge THEN Leasing(path, j) \cup {j} ELSE Leasing(path, j)
  BY <1>3 DEF Leasing
<1>7. /\ \A i \in Leasing(path, k) : Leased(x, path[i].edge, path[i].edgeGen) /\ path[i].edge # x.m.loose
      /\ \A i, l \in Leasing(path, k) : path[i].edge = path[l].edge => i = l
      /\ x.m.loose # NoEdge => Leased(x, x.m.loose, x.m.looseGen)
      /\ x.m.leases = Cardinality(Leasing(path, k)) + (IF x.m.loose = NoEdge THEN 0 ELSE 1)
      /\ \A b \in Bases : /\ x.m.graph.edges[b].lease <= MaxWork
                          /\ x.policy.reserved[b] = Cardinality(Over(path, k, b))
                                                      + (IF x.m.loose = b THEN 1 ELSE 0)
  BY DEF Lent, path
<1>8. ASSUME e = NoEdge PROVE Lent(x, j)
  <2>1. /\ Leasing(path, j) = Leasing(path, k)
        /\ \A b \in Bases : Cardinality(Over(path, k, b)) = Cardinality(Over(path, j, b))
    <3>1. \A b \in Bases : e # b
      BY <1>5, <1>8
    <3> HIDE DEF e
    <3>2. \A b \in Bases : Cardinality(Over(path, k, b)) = Cardinality(Over(path, j, b))
      BY <3>1, <1>4
    <3> QED
      BY <3>2, <1>6, <1>8
  <2> QED
    BY <2>1, <1>7 DEF Lent, path
<1>9. ASSUME e # NoEdge PROVE Repaid(x, y, e) /\ Lent(y, j)
  <2>1. e \in Bases
    BY <1>2, <1>9
  <2>2. j \in Leasing(path, k) /\ Leasing(path, k) = Leasing(path, j) \cup {j} /\ j \notin Leasing(path, j)
    BY <1>6, <1>9, <1>3 DEF Leasing
  <2>3. Leased(x, e, r.edgeGen) /\ e # x.m.loose
    BY <2>2, <1>7
  <2>4. Repaid(x, y, e)
    BY <2>1, <2>3, ReleaseLemma
  <2>5. \A i \in Leasing(path, j) : path[i].edge # e /\ path[i].edge \in Bases
    <3>1. ASSUME NEW i \in Leasing(path, j) PROVE path[i].edge # e /\ path[i].edge \in Bases
      <4>1. i # j /\ i \in Leasing(path, k)
        BY <2>2
      <4>2. path[i].edge # NoEdge /\ path[i] \in Occurrences
        <5>1. k \in 0 .. Len(path) /\ i \in Ahead(path, k)
          BY SMTT(30), <4>1, <1>1, PathType DEF Leasing, path
        <5> QED
          BY <4>1, <5>1, <1>1, PathType DEF Leasing, path
      <4> QED
        BY <4>1, <4>2, <2>2, <1>7 DEF Occurrences
    <3> QED
      BY <3>1
  <2> HIDE DEF y, e
  <2>6. /\ y.m.path = path /\ y.m.loose = x.m.loose /\ y.m.looseGen = x.m.looseGen /\ y.m.work = x.m.work
        /\ \A b \in Bases : /\ y.m.graph.edges[b].gen = x.m.graph.edges[b].gen
                            /\ b # e => y.m.graph.edges[b] = x.m.graph.edges[b]
        /\ y.m.graph.edges[e].lease = 0 /\ y.m.leases = x.m.leases - 1
        /\ \A b \in Bases : y.policy.reserved[b] = x.policy.reserved[b] - (IF b = e THEN 1 ELSE 0)
    BY <2>4 DEF Repaid, Frame, path
  <2>7. \A b \in Bases : \A gen : b # e /\ Leased(x, b, gen) => Leased(y, b, gen)
    BY <2>6 DEF Leased
  <2>8. \A i \in Leasing(path, j) : Leased(y, path[i].edge, path[i].edgeGen) /\ path[i].edge # y.m.loose
    BY <2>2, <2>5, <2>6, <2>7, <1>7
  <2>9. \A i, l \in Leasing(path, j) : path[i].edge = path[l].edge => i = l
    BY <2>2, <1>7
  <2>10. y.m.loose # NoEdge => Leased(y, y.m.loose, y.m.looseGen)
    BY <2>3, <2>6, <2>7, <1>1, <1>7
  <2>11. y.m.leases = Cardinality(Leasing(path, j)) + (IF y.m.loose = NoEdge THEN 0 ELSE 1)
    BY <2>6, <1>4, <1>7, <1>9
  <2>12. \A b \in Bases : /\ y.m.graph.edges[b].lease <= MaxWork
                          /\ y.policy.reserved[b] = Cardinality(Over(path, j, b))
                                                      + (IF y.m.loose = b THEN 1 ELSE 0)
    <3>1. ASSUME NEW b \in Bases PROVE y.m.graph.edges[b].lease <= MaxWork
      <4>1. 0 <= MaxWork
        BY ProgressAssumption
      <4> QED
        BY <4>1, <2>6, <1>7
    <3>2. ASSUME NEW b \in Bases
          PROVE  y.policy.reserved[b] = Cardinality(Over(path, j, b)) + (IF y.m.loose = b THEN 1 ELSE 0)
      BY <2>6, <1>4, <1>7
    <3> QED
      BY <3>1, <3>2
  <2>13. Lent(y, j)
    BY SMTT(30), <2>6, <2>8, <2>9, <2>10, <2>11, <2>12 DEF Lent
  <2> QED
    BY <2>4, <2>13
<1> QED
  BY <1>8, <1>9 DEF path, j

\* What letting a node go changes: its protections and the total.
Freed(x, y, n) ==
    /\ Frame(x, y) /\ y.policy = x.policy /\ y.m.graph.edges = x.m.graph.edges
    /\ y.m.leases = x.m.leases /\ y.m.protections = x.m.protections - 1
    /\ \A k \in Slots :
          /\ y.m.graph.nodes[k].path = x.m.graph.nodes[k].path - (IF k = n THEN 1 ELSE 0)
          /\ y.m.graph.nodes[k].eval = x.m.graph.nodes[k].eval
          /\ y.m.graph.nodes[k].pin = x.m.graph.nodes[k].pin

\* A protection that is held is taken off.
LEMMA UnprotectLemma ==
    ASSUME NEW x, Sound(x), NEW r, Valid(x.m.graph, r.node, r.gen), r.node \in Slots,
           x.m.graph.nodes[r.node].path # 0
    PROVE  Freed(x, Unprotect(x, r), r.node)
<1> DEFINE g == x.m.graph
           n == r.node
           less == g.nodes[n].path - 1
           q == [g.nodes[n] EXCEPT !.path = less]
           h == [g EXCEPT !.nodes = [g.nodes EXCEPT ![n] = q]]
           protections == x.m.protections - 1
           y == Unprotect(x, r)
<1>1. /\ x \in Situations /\ x.m \in Records /\ x.policy \in Policies /\ x.m.protections \in Int
      /\ GraphInv(g) /\ g \in Graphs /\ g.nodes \in [Slots -> Nodes] /\ n \in Slots
      /\ g.nodes[n] \in Nodes /\ g.nodes[n].pub
  BY DEF Sound, Situations, Records, GraphInv, Graphs, Valid
<1>2. y = [x EXCEPT !.m.graph = h, !.m.protections = protections]
  BY <1>1 DEF Unprotect
<1>3. less \in Nat /\ n \in LiveOf(g) /\ protections \in Int
  BY SMTT(30), <1>1 DEF Nodes, LiveOf
<1>4. /\ q \in Nodes /\ q.pub = g.nodes[n].pub /\ q.gen = g.nodes[n].gen /\ q.state = g.nodes[n].state
      /\ q.span = g.nodes[n].span /\ q.count = g.nodes[n].count /\ q.next = g.nodes[n].next
      /\ q.eval = g.nodes[n].eval /\ q.pin = g.nodes[n].pin /\ q.path = less
  <2> HIDE DEF less
  <2> QED
    BY <1>1, <1>3 DEF Nodes
<1>5. h = [g EXCEPT !.nodes = [g.nodes EXCEPT ![n] = q]]
  OBVIOUS
<1> HIDE DEF q, h, y, protections
<1>6. Dressed(g, h, n, q)
  <2>1. GraphInv(g) /\ n \in LiveOf(g) /\ q \in Nodes
    BY <1>1, <1>3, <1>4
  <2> HIDE DEF g, n
  <2> QED
    BY ONLY SMTT(30), <2>1, <1>4, <1>5, NodeEdit
<1>7. /\ y.m = [x.m EXCEPT !.graph = h, !.protections = protections] /\ y.policy = x.policy
      /\ y = [m |-> y.m, policy |-> y.policy]
  BY <1>1, <1>2 DEF Situations
<1>8. /\ y.m \in Records /\ y.m.graph = h /\ y.m.protections = protections /\ y.m.path = x.m.path
      /\ y.m.work = x.m.work /\ y.m.begun = x.m.begun /\ y.m.ended = x.m.ended
      /\ y.m.loose = x.m.loose /\ y.m.looseGen = x.m.looseGen /\ y.m.cur = x.m.cur
      /\ y.m.asked = x.m.asked /\ y.m.leases = x.m.leases
      /\ y.m.evaluations = x.m.evaluations /\ y.m.stop = x.m.stop /\ y.m.first = x.m.first
      /\ y.m.drain = x.m.drain /\ y.m.final = x.m.final
  <2>1. h \in Graphs
    BY <1>6 DEF Dressed, GraphInv
  <2>2. x.m \in Records /\ protections \in Int
    BY <1>1, <1>3
  <2> QED
    BY ONLY ZenonT(60), <2>1, <2>2, <1>7 DEF Records
<1>9. y \in Situations
  BY SMTT(30), <1>1, <1>7, <1>8 DEF Situations
<1>10. /\ GraphInv(h) /\ LiveOf(h) = LiveOf(g) /\ \A k \in Slots : Candidates(h, k) = Candidates(g, k)
       /\ h.root = g.root /\ h.rootGen = g.rootGen /\ h.edges = g.edges /\ h.high = g.high
       /\ \A k \in Slots : k # n => h.nodes[k] = g.nodes[k]
       /\ h.nodes[n] = q
       /\ \A k \in Slots : /\ h.nodes[k].pub = g.nodes[k].pub /\ h.nodes[k].gen = g.nodes[k].gen
                           /\ h.nodes[k].state = g.nodes[k].state
  BY SMTT(30), <1>6 DEF Dressed
<1>11. Frame(x, y)
  BY <1>8, <1>9, <1>10 DEF Frame
<1>12. ASSUME NEW k \in Slots
       PROVE  /\ h.nodes[k].path = g.nodes[k].path - (IF k = n THEN 1 ELSE 0)
              /\ h.nodes[k].eval = g.nodes[k].eval /\ h.nodes[k].pin = g.nodes[k].pin
  <2>1. g.nodes[k].path \in Int
    BY SMTT(30), <1>1 DEF Nodes
  <2>2. CASE k = n
    BY ZenonT(60), <2>2, <1>4, <1>10
  <2>3. CASE k # n
    BY <2>1, <2>3, <1>10
  <2> QED
    BY <2>2, <2>3
<1> QED
  BY SMTT(30), <1>7, <1>8, <1>10, <1>11, <1>12 DEF Freed, protections, y

-----------------------------------------------------------------------------
(* One occurrence lets go.                                                 *)

\* A protection goes back: the node is guarded by the occurrences that follow.
LEMMA GuardBack ==
    ASSUME NEW x, Sound(x), NEW k \in 0 .. Len(x.m.path) - 1, Guarded(x, k)
    PROVE  LET r == x.m.path[k + 1]
               y == Unprotect(x, r)
           IN  Freed(x, y, r.node) /\ Guarded(y, k + 1)
<1> DEFINE path == x.m.path
           j == k + 1
           r == path[j]
           n == r.node
           g == x.m.graph
           y == Unprotect(x, r)
<1>1. x \in Situations /\ Len(path) \in Nat /\ k \in Int
  BY PathType DEF Sound
<1>2. n \in Slots
  <2>1. j \in 1 .. Len(path)
    BY <1>1, Steps
  <2> QED
    BY <1>1, <2>1, PathType DEF Occurrences
<1>3. Ahead(path, k) = Ahead(path, j) \cup {j}
  BY <1>1, Steps
<1>4. \A b : /\ Cardinality(At(path, k, b)) = Cardinality(At(path, j, b)) + (IF n = b THEN 1 ELSE 0)
             /\ Cardinality(At(path, j, b)) \in Nat
  BY ZenonT(60), <1>1, Counts
<1>5. x.m.protections = Len(path) - k
  BY DEF Guarded
<1> HIDE DEF path
<1>6. /\ \A b \in Slots :
            /\ g.nodes[b].pin = 0 /\ g.nodes[b].path = Cardinality(At(path, k, b))
            /\ g.nodes[b].eval = IF x.m.asked # NoHandle /\ x.m.asked.node = b THEN 1 ELSE 0
      /\ x.m.evaluations = IF x.m.asked # NoHandle THEN 1 ELSE 0
      /\ x.m.asked # NoHandle => Valid(g, x.m.asked.node, x.m.asked.gen)
      /\ \A i \in Ahead(path, k) : Valid(g, path[i].node, path[i].gen)
  BY DEF Guarded, path
<1>7. Valid(g, n, r.gen)
  BY <1>3, <1>6
<1>8. g.nodes[n].path # 0
  <2> HIDE DEF n, j
  <2> QED
    BY <1>2, <1>4, <1>6
<1>9. Freed(x, y, n)
  <2> HIDE DEF r
  <2> QED
    BY <1>2, <1>7, <1>8, UnprotectLemma
<1> HIDE DEF y, n
<1>10. Frame(x, y)
  BY <1>9 DEF Freed
<1>11. y.m.path = path /\ y.m.asked = x.m.asked /\ y.m.evaluations = x.m.evaluations
  BY <1>10 DEF Frame, path
<1>12. \A b, gen : Valid(y.m.graph, b, gen) <=> Valid(g, b, gen)
  BY SMTT(30), <1>1, <1>10, FrameValid DEF Sound
<1>13. ASSUME NEW b \in Slots
       PROVE  /\ y.m.graph.nodes[b].pin = 0
              /\ y.m.graph.nodes[b].path = Cardinality(At(path, j, b))
              /\ y.m.graph.nodes[b].eval = IF x.m.asked # NoHandle /\ x.m.asked.node = b THEN 1 ELSE 0
  <2>1. /\ y.m.graph.nodes[b].path = g.nodes[b].path - (IF b = n THEN 1 ELSE 0)
        /\ y.m.graph.nodes[b].eval = g.nodes[b].eval
        /\ y.m.graph.nodes[b].pin = g.nodes[b].pin
    BY <1>9 DEF Freed
  <2> HIDE DEF j
  <2> QED
    BY SMTT(30), <2>1, <1>4, <1>6
<1>14. y.m.protections = Len(path) - j
  BY <1>1, <1>5, <1>9 DEF Freed, path
<1>15. \A i \in Ahead(path, j) : Valid(y.m.graph, path[i].node, path[i].gen)
  BY <1>3, <1>6, <1>12
<1>16. x.m.asked # NoHandle => Valid(y.m.graph, x.m.asked.node, x.m.asked.gen)
  BY SMTT(30), <1>6, <1>12
<1>17. Guarded(y, j)
  BY <1>6, <1>11, <1>13, <1>14, <1>15, <1>16 DEF Guarded
<1> QED
  BY <1>9, <1>17 DEF y, n, path

\* What a situation holds from the occurrence k + 1 on.
Held(x, k) == Sound(x) /\ Guarded(x, k) /\ Lent(x, k) /\ Noted(x, k)

\* One occurrence lets go.
LEMMA LetGoLemma ==
    ASSUME NEW x, NEW k \in 0 .. Len(x.m.path) - 1, Held(x, k)
    PROVE  LET y == LetGo(x, x.m.path[k + 1]) IN Frame(x, y) /\ Held(y, k + 1)
<1> DEFINE r == x.m.path[k + 1]
           f == Forget(x, r)
           u == IF r.edge = NoEdge THEN f ELSE Release(f, r.edge, r.edgeGen)
           y == Unprotect(u, r)
<1>1. Sound(x) /\ Guarded(x, k) /\ Lent(x, k) /\ Noted(x, k)
  BY DEF Held
<1>2. Frame(x, f) /\ Noted(f, k + 1) /\ f.m = x.m /\ f.policy.reserved = x.policy.reserved
  BY <1>1, ForgetLemma
<1>3. LetGo(x, r) = y
  BY DEF LetGo
<1> HIDE DEF f
<1>4. Sound(f) /\ Guarded(f, k) /\ Lent(f, k) /\ k \in 0 .. Len(f.m.path) - 1 /\ f.m.path[k + 1] = r
  BY <1>1, <1>2, GuardedAfter, LentAfter, SoundAfter
<1>5. /\ r.edge = NoEdge => Lent(f, k + 1)
      /\ r.edge # NoEdge => Repaid(f, Release(f, r.edge, r.edgeGen), r.edge)
                            /\ Lent(Release(f, r.edge, r.edgeGen), k + 1)
  BY <1>4, LeaseBack
<1> HIDE DEF r
<1>6. Frame(f, u) /\ Sound(u) /\ Guarded(u, k) /\ Lent(u, k + 1) /\ Noted(u, k + 1)
  <2>1. CASE r.edge = NoEdge
    <3>1. u = f /\ Frame(f, f)
      BY <2>1, <1>4 DEF Frame, Sound
    <3> QED
      BY <2>1, <3>1, <1>2, <1>4, <1>5
  <2>2. CASE r.edge # NoEdge
    <3> DEFINE v == Release(f, r.edge, r.edgeGen)
    <3>1. u = v
      BY <2>2
    <3>2. Repaid(f, v, r.edge) /\ Lent(v, k + 1)
      BY <2>2, <1>5
    <3> HIDE DEF v, u
    <3>3. /\ Frame(f, v) /\ v.m.graph.nodes = f.m.graph.nodes
          /\ v.m.protections = f.m.protections /\ v.policy.prepared = f.policy.prepared
      BY <3>2 DEF Repaid
    <3>4. Sound(v) /\ Guarded(v, k) /\ Noted(v, k + 1)
      BY <3>3, <1>2, <1>4, GuardedAfter, NotedAfter, SoundAfter
    <3> QED
      BY <3>1, <3>2, <3>3, <3>4
  <2> QED
    BY <2>1, <2>2
<1> HIDE DEF u
<1>7. k \in 0 .. Len(u.m.path) - 1 /\ u.m.path[k + 1] = r
  BY <1>4, <1>6 DEF Frame
<1>8. Freed(u, y, r.node) /\ Guarded(y, k + 1)
  BY <1>6, <1>7, GuardBack
<1> HIDE DEF y
<1>9. /\ Frame(u, y) /\ y.policy = u.policy /\ y.m.graph.edges = u.m.graph.edges
      /\ y.m.leases = u.m.leases
  BY <1>8 DEF Freed
<1>10. Sound(y) /\ Lent(y, k + 1) /\ Noted(y, k + 1)
  BY <1>6, <1>9, LentAfter, NotedAfter, SoundAfter
<1>11. Frame(x, y)
  BY <1>2, <1>6, <1>9, FrameTwice
<1> QED
  BY <1>3, <1>8, <1>10, <1>11 DEF Held, r

\* The edge that is not on the path yet goes back.
LEMMA LooseLemma ==
    ASSUME NEW x, NEW k \in 0 .. Len(x.m.path), Held(x, k)
    PROVE  LET y == Loosened(x) IN
           /\ Frame(x, y) /\ Sound(y) /\ Guarded(y, k) /\ Noted(y, k)
           /\ y.m.leases = Cardinality(Leasing(x.m.path, k))
           /\ \A e \in Bases : y.policy.reserved[e] = Cardinality(Over(x.m.path, k, e))
           /\ \A e \in Bases : y.m.graph.edges[e].lease <= MaxWork
<1> DEFINE e == x.m.loose
           y == Loosened(x)
<1>1. Sound(x) /\ Guarded(x, k) /\ Lent(x, k) /\ Noted(x, k) /\ x \in Situations
  BY DEF Held, Sound
<1>2. e \in Bases \cup {NoEdge} /\ NoEdge \notin Bases
  BY <1>1 DEF Situations, Records, NoEdge, Bases
<1>3. IsFiniteSet(Ahead(x.m.path, k)) /\ Len(x.m.path) \in Nat
  <2>1. Len(x.m.path) \in Nat /\ Ahead(x.m.path, k) \subseteq 1 .. Len(x.m.path)
    BY <1>1, PathType
  <2>2. 1 \in Int /\ Len(x.m.path) \in Int
    BY <2>1
  <2>3. IsFiniteSet(1 .. Len(x.m.path))
    BY ONLY <2>2, FS_Interval
  <2> QED
    BY ONLY <2>1, <2>3, FS_Subset
<1>4. /\ Cardinality(Leasing(x.m.path, k)) \in Nat
      /\ \A b : Cardinality(Over(x.m.path, k, b)) \in Nat
  BY <1>3, FS_Subset, FS_CardinalityType DEF Leasing, Over
<1>5. /\ e # NoEdge => Leased(x, e, x.m.looseGen)
      /\ x.m.leases = Cardinality(Leasing(x.m.path, k)) + (IF e = NoEdge THEN 0 ELSE 1)
      /\ \A b \in Bases : /\ x.m.graph.edges[b].lease <= MaxWork
                          /\ x.policy.reserved[b] = Cardinality(Over(x.m.path, k, b))
                                                      + (IF e = b THEN 1 ELSE 0)
  BY <1>1 DEF Lent
<1>6. CASE e = NoEdge
  <2>1. y = x /\ Frame(x, x)
    BY <1>1, <1>6 DEF Loosened, Frame, Sound
  <2> HIDE DEF e
  <2>2. \A b \in Bases : e # b
    BY <1>2, <1>6
  <2> QED
    BY <2>1, <2>2, <1>1, <1>4, <1>5, <1>6
<1>7. CASE e # NoEdge
  <2>1. y = Release(x, e, x.m.looseGen)
    BY <1>7 DEF Loosened
  <2>2. Repaid(x, y, e)
    BY <1>1, <1>2, <1>5, <1>7, <2>1, ReleaseLemma
  <2> HIDE DEF y, e
  <2>3. /\ Frame(x, y) /\ y.m.graph.nodes = x.m.graph.nodes
        /\ y.m.protections = x.m.protections /\ y.policy.prepared = x.policy.prepared
    BY <2>2 DEF Repaid
  <2>4. Sound(y) /\ Guarded(y, k) /\ Noted(y, k)
    BY <2>3, <1>1, GuardedAfter, NotedAfter, SoundAfter
  <2>5. y.m.leases = Cardinality(Leasing(x.m.path, k))
    BY <2>2, <1>4, <1>5, <1>7 DEF Repaid
  <2>6. \A b \in Bases : y.policy.reserved[b] = Cardinality(Over(x.m.path, k, b))
    BY <2>2, <1>4, <1>5 DEF Repaid
  <2>7. \A b \in Bases : y.m.graph.edges[b].lease <= MaxWork
    <3>1. 0 <= MaxWork
      BY ProgressAssumption
    <3> QED
      BY <3>1, <2>2, <1>5 DEF Repaid
  <2> QED
    BY <2>3, <2>4, <2>5, <2>6, <2>7 DEF y
<1> QED
  BY <1>6, <1>7

-----------------------------------------------------------------------------
(* The work is disposed of.                                                *)

\* The occurrences let go one after the other, up to the n-th.
Lefts(f, x, n) ==
    f = [j \in 0 .. n |-> IF j = 0 THEN x ELSE LetGo(f[j - 1], x.m.path[j])]

\* There is such a function, so that the recursion has a value.
LEMMA LeftsExist ==
    ASSUME NEW x, NEW N \in Nat
    PROVE  \E f : Lefts(f, x, N)
<1> DEFINE S == {n \in Nat : ~\E f : Lefts(f, x, n)}
<1>1. SUFFICES ASSUME N \in S PROVE FALSE
  OBVIOUS
<1>2. PICK n \in S : \A k \in S : n <= k
  <2>1. S \subseteq Nat /\ S # {}
    BY <1>1
  <2> HIDE DEF S
  <2> QED
    BY <2>1, Least
<1>3. CASE n = 0
  <2>1. Lefts([j \in 0 .. 0 |-> x], x, 0)
    BY DEF Lefts
  <2> QED
    BY <2>1, <1>2, <1>3
<1>4. CASE n # 0
  <2>1. n - 1 \in Nat /\ n - 1 \notin S
    BY <1>2, <1>4
  <2>2. PICK f : Lefts(f, x, n - 1)
    BY <2>1
  <2> DEFINE d == [j \in 0 .. n |-> IF j = n THEN LetGo(f[n - 1], x.m.path[n]) ELSE f[j]]
  <2>3. n \in Nat /\ n > 0
    BY <1>2, <1>4
  <2>4. ASSUME NEW j \in 0 .. n
        PROVE  d[j] = IF j = 0 THEN x ELSE LetGo(d[j - 1], x.m.path[j])
    <3>1. CASE j = n
      <4>1. d[j - 1] = f[n - 1] /\ d[j] = LetGo(f[n - 1], x.m.path[n]) /\ j # 0
        BY <2>3, <3>1
      <4> QED
        BY <4>1, <3>1
    <3>2. CASE j # n
      <4>1. j \in 0 .. n - 1 /\ d[j] = f[j]
        BY <2>3, <3>2
      <4>2. f[j] = IF j = 0 THEN x ELSE LetGo(f[j - 1], x.m.path[j])
        BY <4>1, <2>2 DEF Lefts
      <4>3. j # 0 => d[j - 1] = f[j - 1]
        BY <2>3, <4>1
      <4> QED
        BY <4>1, <4>2, <4>3
    <3> QED
      BY <3>1, <3>2
  <2>5. d = [j \in 0 .. n |-> d[j]]
    OBVIOUS
  <2> HIDE DEF d
  <2>6. Lefts(d, x, n)
    BY <2>4, <2>5 DEF Lefts
  <2> QED
    BY <2>6, <1>2
<1> QED
  BY <1>3, <1>4

\* All occurrences let go, each once.
LEMMA LetAllGoLemma ==
    ASSUME NEW x, Held(x, 0)
    PROVE  Frame(x, LetAllGo(x)) /\ Held(LetAllGo(x), Len(x.m.path))
<1> DEFINE N == Len(x.m.path)
           left == CHOOSE f : Lefts(f, x, N)
<1>1. x \in Situations /\ N \in Nat /\ Sound(x)
  BY PathType DEF Held, Sound
<1>2. LetAllGo(x) = left[N]
  BY DEF LetAllGo, Lefts
<1>3. Lefts(left, x, N)
  <2>1. \E f : Lefts(f, x, N)
    BY <1>1, LeftsExist
  <2> QED
    BY <2>1
<1> HIDE DEF left
<1> DEFINE T == {j \in 0 .. N : ~(Frame(x, left[j]) /\ Held(left[j], j))}
<1>4. SUFFICES ASSUME T # {} PROVE FALSE
  <2>1. N \in 0 .. N
    BY <1>1
  <2> QED
    BY <2>1, <1>2, <1>4
<1>5. PICK n \in T : \A k \in T : n <= k
  <2>1. T \subseteq Nat
    BY <1>1
  <2> HIDE DEF T
  <2> QED
    BY <2>1, <1>4, Least
<1>6. n \in 0 .. N /\ left[n] = IF n = 0 THEN x ELSE LetGo(left[n - 1], x.m.path[n])
  BY <1>3, <1>5 DEF Lefts
<1>7. CASE n = 0
  <2>1. left[n] = x /\ Frame(x, x)
    BY <1>1, <1>6, <1>7 DEF Frame, Sound
  <2> QED
    BY <2>1, <1>5, <1>7
<1>8. CASE n # 0
  <2> DEFINE k == n - 1
             z == left[k]
  <2>1. k \in 0 .. N /\ k \in 0 .. N - 1 /\ k + 1 = n /\ k \notin T
    BY <1>1, <1>5, <1>6, <1>8
  <2>2. Frame(x, z) /\ Held(z, k)
    BY <2>1
  <2>3. left[n] = LetGo(z, x.m.path[n])
    BY <1>6, <1>8
  <2> HIDE DEF z, k, T
  <2>4. z.m.path = x.m.path
    BY <2>2 DEF Frame
  <2>5. Frame(z, LetGo(z, z.m.path[k + 1])) /\ Held(LetGo(z, z.m.path[k + 1]), k + 1)
    <3>1. k \in 0 .. Len(z.m.path) - 1
      BY <2>1, <2>4
    <3> QED
      BY <2>2, <3>1, LetGoLemma
  <2>6. Frame(x, left[n]) /\ Held(left[n], n)
    BY SMTT(30), <2>1, <2>2, <2>3, <2>4, <2>5, FrameTwice
  <2> QED
    BY <2>6, <1>5 DEF T
<1> QED
  BY <1>7, <1>8

\* Work that ended holds nothing; the rest of the records is as it was.
Disposed(x, y) ==
    LET f == x.m.graph
        g == y.m.graph
    IN
    /\ Books(y, 0) /\ y.m.path = <<>> /\ y.m.work = 0 /\ y.m.loose = NoEdge
    /\ y.m.begun = x.m.begun /\ y.m.ended = x.m.ended + 1
    /\ y.m.asked = x.m.asked /\ y.m.evaluations = x.m.evaluations
    /\ y.m.stop = x.m.stop /\ y.m.first = x.m.first /\ y.m.drain = x.m.drain /\ y.m.final = x.m.final
    /\ y.m.protections = 0 /\ y.m.leases = 0
    /\ g.root = f.root /\ g.rootGen = f.rootGen
    /\ \A n, gen : Valid(g, n, gen) <=> Valid(f, n, gen)

\* The work ends: everything it holds is given back.
LEMMA DisposeLemma ==
    ASSUME NEW x, Held(x, 0), x.m.work # 0
    PROVE  Disposed(x, Dispose(x))
<1> DEFINE N == Len(x.m.path)
           u == LetAllGo(x)
           v == Loosened(u)
           ended == v.m.ended + 1
           y == Dispose(x)
<1>1. x \in Situations /\ N \in Nat /\ Sound(x)
  BY PathType DEF Held, Sound
<1>2. Frame(x, u) /\ Held(u, N)
  BY LetAllGoLemma
<1>3. y = [v EXCEPT !.m.path = <<>>, !.m.loose = NoEdge, !.m.work = 0, !.m.ended = ended]
  BY DEF Dispose
<1> HIDE DEF u, y, N
<1>4. u.m.path = x.m.path /\ N = Len(u.m.path)
  BY <1>2 DEF Frame, N
<1>5. /\ Frame(u, v) /\ Sound(v) /\ Guarded(v, N) /\ Noted(v, N)
      /\ v.m.leases = Cardinality(Leasing(u.m.path, N))
      /\ \A e \in Bases : v.policy.reserved[e] = Cardinality(Over(u.m.path, N, e))
      /\ \A e \in Bases : v.m.graph.edges[e].lease <= MaxWork
  <2>1. N \in 0 .. Len(u.m.path)
    BY <1>1, <1>4
  <2> QED
    BY <2>1, <1>2, LooseLemma
<1> HIDE DEF v
<1>6. Frame(x, v) /\ v \in Situations /\ v.m \in Records /\ v.policy \in Policies /\ ended \in Int
  <2>1. Frame(x, v)
    BY <1>2, <1>5, FrameTwice
  <2> QED
    BY <2>1, <1>5 DEF Sound, Situations, Records
<1> HIDE DEF ended
<1>7. /\ y.m = [v.m EXCEPT !.path = <<>>, !.loose = NoEdge, !.work = 0, !.ended = ended]
      /\ y.policy = v.policy /\ y = [m |-> y.m, policy |-> y.policy]
  BY <1>3, <1>6 DEF Situations
<1>8. <<>> \in Seq(Occurrences) /\ 0 \in 0 .. MaxWork
  <2>1. MaxWork \in Nat
    BY ProgressAssumption
  <2> QED
    BY <2>1
<1>9. /\ y.m \in Records /\ y.m.path = <<>> /\ y.m.work = 0 /\ y.m.loose = NoEdge
      /\ y.m.ended = ended /\ y.m.begun = v.m.begun /\ y.m.asked = v.m.asked
      /\ y.m.evaluations = v.m.evaluations /\ y.m.stop = v.m.stop /\ y.m.first = v.m.first
      /\ y.m.drain = v.m.drain /\ y.m.final = v.m.final /\ y.m.graph = v.m.graph
      /\ y.m.protections = v.m.protections /\ y.m.leases = v.m.leases
  <2>1. v.m \in Records /\ ended \in Int
    BY <1>6
  <2> QED
    BY ONLY ZenonT(60), <2>1, <1>7, <1>8 DEF Records
<1>10. y \in Situations
  BY <1>6, <1>7, <1>9 DEF Situations
<1>11. v.m.path = x.m.path /\ v.m.path = u.m.path /\ Len(v.m.path) = N
  BY <1>4, <1>6 DEF Frame, N
<1>12. Ahead(x.m.path, N) = {} /\ Ahead(<<>>, 0) = {}
  BY <1>1 DEF Ahead, N
<1>13. /\ \A n : At(x.m.path, N, n) = {} /\ At(<<>>, 0, n) = {}
       /\ \A n : Ready(x.m.path, N, n) = {} /\ Ready(<<>>, 0, n) = {}
       /\ \A e : Over(x.m.path, N, e) = {} /\ Over(<<>>, 0, e) = {}
       /\ Leasing(x.m.path, N) = {} /\ Leasing(<<>>, 0) = {}
  BY <1>12 DEF At, Ready, Over, Leasing
<1>14. Cardinality({}) = 0
  BY FS_EmptySet
<1>15. Guarded(y, 0)
  <2>1. /\ \A n \in Slots :
             /\ v.m.graph.nodes[n].pin = 0
             /\ v.m.graph.nodes[n].path = 0
             /\ v.m.graph.nodes[n].eval = IF v.m.asked # NoHandle /\ v.m.asked.node = n THEN 1 ELSE 0
        /\ v.m.evaluations = IF v.m.asked # NoHandle THEN 1 ELSE 0
        /\ v.m.asked # NoHandle => Valid(v.m.graph, v.m.asked.node, v.m.asked.gen)
    BY ZenonT(60), <1>5, <1>11, <1>13, <1>14 DEF Guarded
  <2>2. v.m.protections = 0
    <3>1. v.m.protections = Len(v.m.path) - N
      BY <1>5 DEF Guarded
    <3> QED
      BY <3>1, <1>1, <1>11
  <2>3. Len(<<>>) - 0 = 0
    OBVIOUS
  <2> QED
    BY ZenonT(60), <2>1, <2>2, <2>3, <1>9, <1>12, <1>13, <1>14 DEF Guarded
<1>16. Lent(y, 0)
  <2>1. v.m.leases = 0 /\ \A e \in Bases : v.policy.reserved[e] = 0
    BY <1>4, <1>5, <1>13, <1>14
  <2>2. \A e \in Bases : NoEdge # e
    BY DEF NoEdge, Bases
  <2>3. \A e \in Bases : y.m.graph.edges[e].lease <= MaxWork
    BY <1>5, <1>9
  <2>4. y.m.leases = 0 /\ \A e \in Bases : y.policy.reserved[e] = 0
    BY <2>1, <1>7, <1>9
  <2>5. y.m.loose = NoEdge
    BY <1>9
  <2>6. /\ Leasing(y.m.path, 0) = {} /\ Cardinality(Leasing(y.m.path, 0)) = 0
        /\ \A e : Cardinality(Over(y.m.path, 0, e)) = 0
    BY <1>9, <1>13, <1>14
  <2> QED
    BY ONLY <2>2, <2>3, <2>4, <2>5, <2>6 DEF Lent
<1>17. Noted(y, 0)
  <2>1. \A n \in Slots : v.policy.prepared[n] = 0
    BY <1>5, <1>11, <1>13, <1>14 DEF Noted
  <2> QED
    BY ZenonT(60), <2>1, <1>7, <1>9, <1>13, <1>14 DEF Noted
<1>18. Books(y, 0)
  <2>1. Len(<<>>) = 0 /\ 0 \in 0 .. Len(<<>>) /\ 0 <= PathDepth
    BY ProgressAssumption
  <2>2. GraphInv(y.m.graph)
    BY <1>5, <1>9 DEF Sound
  <2> QED
    BY <2>1, <2>2, <1>9, <1>10, <1>15, <1>16, <1>17 DEF Books
<1>19. y.m.protections = 0 /\ y.m.leases = 0
  <2>1. y.m.protections = Len(<<>>) - 0
    BY <1>9, <1>15 DEF Guarded
  <2>2. y.m.leases = 0
    BY <1>4, <1>5, <1>9, <1>13, <1>14
  <2> QED
    BY <2>1, <2>2
<1>20. \A n, gen : Valid(v.m.graph, n, gen) <=> Valid(x.m.graph, n, gen)
  BY <1>1, <1>6, FrameValid DEF Sound
<1> QED
  BY <1>6, <1>9, <1>18, <1>19, <1>20 DEF Disposed, Frame, ended, y

-----------------------------------------------------------------------------
(* A call of the graph.                                                    *)

\* Only the graph is another one.
Regraph(x, y, h) ==
    /\ y \in Situations /\ y.m.graph = h /\ y.policy = x.policy /\ y.m.path = x.m.path
    /\ y.m.work = x.m.work /\ y.m.begun = x.m.begun /\ y.m.ended = x.m.ended
    /\ y.m.loose = x.m.loose /\ y.m.looseGen = x.m.looseGen
    /\ y.m.cur = x.m.cur /\ y.m.asked = x.m.asked /\ y.m.protections = x.m.protections
    /\ y.m.evaluations = x.m.evaluations /\ y.m.leases = x.m.leases
    /\ y.m.stop = x.m.stop /\ y.m.first = x.m.first /\ y.m.drain = x.m.drain /\ y.m.final = x.m.final

\* A graph is put in the place of the one there is.
LEMMA RegraphLemma ==
    ASSUME NEW x \in Situations, NEW h \in Graphs, NEW y, y = [x EXCEPT !.m.graph = h]
    PROVE  Regraph(x, y, h)
<1>1. x.m \in Records /\ x.policy \in Policies
  BY DEF Situations
<1>2. y.m = [x.m EXCEPT !.graph = h] /\ y.policy = x.policy /\ y = [m |-> y.m, policy |-> y.policy]
  BY DEF Situations
<1>3. /\ y.m \in Records /\ y.m.graph = h /\ y.m.path = x.m.path
      /\ y.m.work = x.m.work /\ y.m.begun = x.m.begun /\ y.m.ended = x.m.ended
      /\ y.m.loose = x.m.loose /\ y.m.looseGen = x.m.looseGen
      /\ y.m.cur = x.m.cur /\ y.m.asked = x.m.asked /\ y.m.protections = x.m.protections
      /\ y.m.evaluations = x.m.evaluations /\ y.m.leases = x.m.leases
      /\ y.m.stop = x.m.stop /\ y.m.first = x.m.first /\ y.m.drain = x.m.drain
      /\ y.m.final = x.m.final
  BY ONLY ZenonT(60), <1>1, <1>2, h \in Graphs DEF Records
<1>4. y \in Situations
  BY <1>1, <1>2, <1>3 DEF Situations
<1> QED
  BY <1>2, <1>3, <1>4 DEF Regraph

\* What a call of the graph keeps is enough for everything the search holds: the
\* nodes on the path, their leases and the focus.
LEMMA KeptBooks ==
    ASSUME NEW x, Books(x, 0), Threaded(x), Rooted(x), NEW h, GraphInv(h), Tended(x.m.graph, h),
           NEW y, Regraph(x, y, h)
    PROVE  Books(y, 0) /\ Threaded(y) /\ Rooted(y)
<1> DEFINE g == x.m.graph
           path == x.m.path
<1>1. /\ x \in Situations /\ GraphInv(g) /\ Len(path) <= PathDepth /\ 0 \in 0 .. Len(path)
      /\ (x.m.work = 0 => path = <<>> /\ x.m.loose = NoEdge)
      /\ Guarded(x, 0) /\ Lent(x, 0) /\ Noted(x, 0)
  BY DEF Books
<1>2. /\ Len(path) \in Nat /\ Ahead(path, 0) = 1 .. Len(path)
      /\ \A i \in 1 .. Len(path) : path[i] \in Occurrences
      /\ IsFiniteSet(Ahead(path, 0))
  BY SMTT(30), <1>1, PathType, FS_Interval DEF Ahead
<1>3. \A n, gen : n \in Slots /\ Valid(g, n, gen) /\ Protected(g, n) =>
         /\ Valid(h, n, gen) /\ Candidates(h, n) = Candidates(g, n)
         /\ \A e \in Candidates(g, n) : /\ h.edges[e].lease = g.edges[e].lease
                                        /\ h.edges[e].gen = g.edges[e].gen
  <2>1. ASSUME NEW n \in Slots, NEW gen, Valid(g, n, gen), Protected(g, n)
        PROVE  /\ Valid(h, n, gen) /\ Candidates(h, n) = Candidates(g, n)
               /\ \A e \in Candidates(g, n) : /\ h.edges[e].lease = g.edges[e].lease
                                              /\ h.edges[e].gen = g.edges[e].gen
    <3>1. g.nodes[n].pub /\ g.nodes[n].gen = gen /\ gen # 0
      BY SMTT(30), <2>1 DEF Valid
    <3>2. /\ h.nodes[n].pub /\ h.nodes[n].gen = g.nodes[n].gen
          /\ h.nodes[n].span = g.nodes[n].span /\ h.nodes[n].count = g.nodes[n].count
          /\ \A e \in Candidates(g, n) : /\ h.edges[e].lease = g.edges[e].lease
                                         /\ h.edges[e].gen = g.edges[e].gen
      BY SMTT(30), <2>1, <3>1 DEF Tended
    <3>3. n \in LiveOf(h) /\ n < h.high /\ h.high \in Nat /\ n \in Nat
      BY <3>2, GraphConstants DEF LiveOf, GraphInv, Slotted, Graphs, Slots
    <3>4. Valid(h, n, gen)
      BY SMTT(30), <3>1, <3>2, <3>3 DEF Valid
    <3> QED
      BY <3>2, <3>4 DEF Candidates
  <2> QED
    BY <2>1
<1>4. ASSUME NEW i \in Ahead(path, 0)
      PROVE  /\ path[i].node \in Slots /\ Valid(g, path[i].node, path[i].gen)
             /\ Protected(g, path[i].node)
  <2>1. path[i].node \in Slots
    BY <1>2 DEF Occurrences
  <2> DEFINE n == path[i].node
             S == At(path, 0, n)
  <2>2. i \in S /\ IsFiniteSet(S)
    BY <1>2, FS_Subset DEF At
  <2>3. g.nodes[n].path = Cardinality(S) /\ Valid(g, n, path[i].gen)
    BY <1>1, <2>1 DEF Guarded
  <2> HIDE DEF S
  <2>4. Cardinality(S) # 0
    BY <2>2, FS_EmptySet
  <2> QED
    BY ZenonT(60), <2>1, <2>3, <2>4 DEF Protected
<1>5. /\ \A i \in Leasing(path, 0) : i > 1 /\ path[i].edge \in Candidates(g, path[i - 1].node)
      /\ x.m.loose # NoEdge => path # <<>> /\ x.m.loose \in Candidates(g, path[Len(path)].node)
  BY DEF Threaded
<1>6. y.m.path = path /\ y.m.graph = h /\ y.policy = x.policy /\ y.m.loose = x.m.loose
      /\ y.m.looseGen = x.m.looseGen /\ y.m.work = x.m.work /\ y.m.leases = x.m.leases
      /\ y.m.asked = x.m.asked /\ y.m.evaluations = x.m.evaluations
      /\ y.m.protections = x.m.protections /\ y \in Situations
  BY DEF Regraph
<1>7. path # <<>> => Len(path) \in Ahead(path, 0)
  <2>1. path \in Seq(Occurrences)
    BY <1>1, PathType
  <2> HIDE DEF path
  <2> QED
    BY <2>1, <1>2
<1> HIDE DEF path
<1>8. ASSUME NEW i \in Leasing(path, 0)
      PROVE  i - 1 \in Ahead(path, 0) /\ path[i].edge \in Candidates(g, path[i - 1].node)
  <2>1. i \in 1 .. Len(path) /\ i > 1
    BY <1>2, <1>5 DEF Leasing
  <2> QED
    BY <2>1, <1>2, <1>5
<1> HIDE DEF g
<1>9. Threaded(y)
  <2>1. ASSUME NEW i \in Leasing(path, 0)
        PROVE  i > 1 /\ path[i].edge \in Candidates(h, path[i - 1].node)
    BY <1>3, <1>4, <1>5, <1>8
  <2>2. ASSUME x.m.loose # NoEdge
        PROVE  path # <<>> /\ x.m.loose \in Candidates(h, path[Len(path)].node)
    BY <2>2, <1>3, <1>4, <1>5, <1>7
  <2> QED
    BY <1>6, <2>1, <2>2 DEF Threaded
<1>10. Lent(y, 0)
  <2>1. /\ \A i \in Leasing(path, 0) : Leased(x, path[i].edge, path[i].edgeGen) /\ path[i].edge # x.m.loose
        /\ \A i, j \in Leasing(path, 0) : path[i].edge = path[j].edge => i = j
        /\ x.m.loose # NoEdge => Leased(x, x.m.loose, x.m.looseGen)
        /\ x.m.leases = Cardinality(Leasing(path, 0)) + (IF x.m.loose = NoEdge THEN 0 ELSE 1)
        /\ \A e \in Bases : /\ g.edges[e].lease <= MaxWork
                            /\ x.policy.reserved[e] = Cardinality(Over(path, 0, e))
                                                        + (IF x.m.loose = e THEN 1 ELSE 0)
    BY <1>1 DEF Lent, path, g
  <2>2. ASSUME NEW i \in Leasing(path, 0) PROVE Leased(y, path[i].edge, path[i].edgeGen)
    <3>1. /\ h.edges[path[i].edge].lease = g.edges[path[i].edge].lease
          /\ h.edges[path[i].edge].gen = g.edges[path[i].edge].gen
      BY <1>3, <1>4, <1>8
    <3> QED
      BY ZenonT(60), <2>1, <3>1, <1>6 DEF Leased, g
  <2>3. ASSUME x.m.loose # NoEdge PROVE Leased(y, x.m.loose, x.m.looseGen)
    <3>1. /\ h.edges[x.m.loose].lease = g.edges[x.m.loose].lease
          /\ h.edges[x.m.loose].gen = g.edges[x.m.loose].gen
      BY <2>3, <1>3, <1>4, <1>5, <1>7
    <3> QED
      BY <2>1, <2>3, <3>1, <1>6 DEF Leased, g
  <2>4. ASSUME NEW e \in Bases PROVE h.edges[e].lease <= MaxWork
    <3>1. h.edges[e].lease \in {0, g.edges[e].lease} /\ MaxWork \in Nat
      BY ProgressAssumption DEF Tended, g
    <3> QED
      BY SMTT(30), <3>1, <2>1
  <2> QED
    BY <1>6, <2>1, <2>2, <2>3, <2>4 DEF Lent
<1>11. Guarded(y, 0)
  <2>1. /\ \A n \in Slots :
              /\ g.nodes[n].pin = 0 /\ g.nodes[n].path = Cardinality(At(path, 0, n))
              /\ g.nodes[n].eval = IF x.m.asked # NoHandle /\ x.m.asked.node = n THEN 1 ELSE 0
        /\ x.m.evaluations = IF x.m.asked # NoHandle THEN 1 ELSE 0
        /\ x.m.asked # NoHandle => Valid(g, x.m.asked.node, x.m.asked.gen)
        /\ x.m.protections = Len(path) - 0
    BY SMTT(30), <1>1 DEF Guarded, path, g
  <2>2. \A n \in Slots : /\ h.nodes[n].path = g.nodes[n].path /\ h.nodes[n].eval = g.nodes[n].eval
                         /\ h.nodes[n].pin = g.nodes[n].pin
    BY DEF Tended, g
  <2>3. x.m.asked # NoHandle => Valid(h, x.m.asked.node, x.m.asked.gen)
    <3>1. SUFFICES ASSUME x.m.asked # NoHandle PROVE Valid(h, x.m.asked.node, x.m.asked.gen)
      OBVIOUS
    <3>2. x.m.asked.node \in Slots
      BY <1>1, <3>1 DEF Situations, Records, Handles
    <3>3. Protected(g, x.m.asked.node)
      BY <2>1, <3>1, <3>2 DEF Protected
    <3> QED
      BY <3>1, <3>2, <3>3, <2>1, <1>3
  <2>4. \A i \in Ahead(path, 0) : Valid(h, path[i].node, path[i].gen)
    BY <1>3, <1>4
  <2> QED
    BY <1>6, <2>1, <2>2, <2>3, <2>4 DEF Guarded
<1>12. Noted(y, 0)
  BY <1>1, <1>6 DEF Noted, path
<1>13. Rooted(y)
  <2>1. Valid(g, g.root, g.rootGen) /\ h.root = g.root /\ h.rootGen = g.rootGen /\ Protected(g, g.root)
    BY DEF Rooted, Tended, Protected, g
  <2>2. g.root \in Slots
    <3>1. g.high \in 0 .. NodeCapacity /\ NodeCapacity \in Nat
      BY <1>1, GraphConstants DEF GraphInv, Graphs
    <3>2. g.root \in 0 .. g.high - 1
      BY <2>1 DEF Valid
    <3> QED
      BY <3>1, <3>2 DEF Slots
  <2>3. Valid(h, h.root, h.rootGen)
    BY <2>1, <2>2, <1>3
  <2> QED
    BY SMTT(30), <1>6, <2>3 DEF Rooted
<1>14. Books(y, 0)
  BY <1>1, <1>6, <1>10, <1>11, <1>12 DEF Books, path
<1> QED
  BY <1>9, <1>13, <1>14

-----------------------------------------------------------------------------
(* Backup.                                                                 *)

\* What can be disposed of, and what is left then.
Owed(x) ==
    /\ Books(x, 0) /\ Rooted(x)
    /\ x.m.begun = x.m.ended + (IF x.m.work = 0 THEN 0 ELSE 1)

\* No occurrence of the path is prepared.
Unprepared(x) == \A i \in DOMAIN x.m.path : ~x.m.path[i].prepared

\* The work is done: nothing is held, and a request is as it was.
Done(x, y) == Kempt(y) /\ y.m.work = 0 /\ y.m.path = <<>> /\ y.m.asked = x.m.asked

\* A disposal gives back everything that is owed.
LEMMA DisposeDone ==
    ASSUME NEW x, Owed(x)
    PROVE  Done(x, Dispose(x))
<1> DEFINE y == Dispose(x)
<1>1. /\ Books(x, 0) /\ Rooted(x) /\ x.m.begun = x.m.ended + (IF x.m.work = 0 THEN 0 ELSE 1)
      /\ x.m.begun \in Int /\ x.m.ended \in Int
  BY ProgressAssumption DEF Owed, Books, Situations, Records
<1>2. Held(x, 0)
  BY <1>1 DEF Books, Held, Sound
<1>3. CASE x.m.work = 0
  <2>1. y = x /\ x.m.path = <<>> /\ x.m.loose = NoEdge
    BY <1>1, <1>3 DEF Dispose, Books
  <2>2. Leasing(<<>>, 0) = {} /\ DOMAIN <<>> = {}
    BY DEF Leasing, Ahead
  <2>3. Kempt(x)
    BY <1>1, <2>1, <2>2 DEF Kempt, Threaded
  <2> QED
    BY <1>3, <2>1, <2>3 DEF Done
<1>4. CASE x.m.work # 0
  <2>1. Disposed(x, y)
    BY <1>2, <1>4, DisposeLemma
  <2> HIDE DEF y
  <2>2. /\ Books(y, 0) /\ y.m.path = <<>> /\ y.m.work = 0 /\ y.m.loose = NoEdge
        /\ y.m.begun = x.m.begun /\ y.m.ended = x.m.ended + 1 /\ y.m.asked = x.m.asked
        /\ y.m.graph.root = x.m.graph.root /\ y.m.graph.rootGen = x.m.graph.rootGen
        /\ \A n, gen : Valid(y.m.graph, n, gen) <=> Valid(x.m.graph, n, gen)
    BY <2>1 DEF Disposed
  <2>3. Rooted(y)
    BY <1>1, <2>2 DEF Rooted
  <2>4. Leasing(<<>>, 0) = {} /\ DOMAIN <<>> = {}
    BY DEF Leasing, Ahead
  <2>5. Threaded(y)
    BY <2>2, <2>4 DEF Threaded
  <2>6. y.m.begun = y.m.ended + 0
    BY <1>1, <1>4, <2>2
  <2>7. Kempt(y)
    BY <2>2, <2>3, <2>4, <2>5, <2>6 DEF Kempt
  <2> QED
    BY <2>2, <2>7 DEF Done, y
<1> QED
  BY <1>3, <1>4

\* A cause changes nothing of that.
LEMMA StopOwed ==
    ASSUME NEW x, Owed(x), NEW cause \in Causes
    PROVE  LET y == Stop(x, cause) IN
           /\ Owed(y) /\ y.m.path = x.m.path /\ y.m.asked = x.m.asked
           /\ Kempt(x) => Kempt(y)
<1> DEFINE y == Stop(x, cause)
<1>1. x \in Situations /\ Books(x, 0) /\ Rooted(x)
  BY DEF Owed, Books
<1>2. Alike(x, y) /\ y.m.begun = x.m.begun /\ y.m.ended = x.m.ended
  BY <1>1, StopLemma
<1> HIDE DEF y
<1>3. Books(y, 0) /\ Rooted(y) /\ (Threaded(x) => Threaded(y))
  BY <1>1, <1>2, AlikeBooks
<1>4. y.m.work = x.m.work /\ y.m.path = x.m.path /\ y.m.asked = x.m.asked
  BY <1>2 DEF Alike
<1>5. Owed(y)
  BY <1>2, <1>3, <1>4 DEF Owed
<1>6. Kempt(x) => Kempt(y)
  BY <1>2, <1>3, <1>4 DEF Kempt
<1> QED
  BY <1>4, <1>5, <1>6 DEF y

\* Work that failed is disposed of.
LEMMA BrokenDone ==
    ASSUME NEW x, Owed(x), NEW cause \in Causes
    PROVE  Done(x, Broken(x, cause))
<1>1. Owed(Stop(x, cause)) /\ Stop(x, cause).m.asked = x.m.asked
  BY StopOwed
<1>2. Done(Stop(x, cause), Dispose(Stop(x, cause)))
  BY <1>1, DisposeDone
<1> QED
  BY <1>1, <1>2 DEF Broken, Done

\* The Policy prepares the nodes of some occurrences.
LEMMA PreparedLemma ==
    ASSUME NEW x, Owed(x), Unprepared(x), NEW S \in SUBSET (1 .. Len(x.m.path))
    PROVE  Owed(Prepared(x, S)) /\ Prepared(x, S).m.asked = x.m.asked
<1> DEFINE path == x.m.path
           road == [j \in DOMAIN path |-> [path[j] EXCEPT !.prepared = j \in S]]
           noted == [n \in Slots |-> x.policy.prepared[n] + Cardinality({j \in S : path[j].node = n})]
           y == Prepared(x, S)
<1>1. /\ Books(x, 0) /\ Rooted(x) /\ x \in Situations /\ x.m \in Records /\ x.policy \in Policies
      /\ GraphInv(x.m.graph) /\ Guarded(x, 0) /\ Lent(x, 0) /\ Noted(x, 0)
      /\ x.m.begun = x.m.ended + (IF x.m.work = 0 THEN 0 ELSE 1)
      /\ Len(path) <= PathDepth /\ 0 \in 0 .. Len(path)
      /\ (x.m.work = 0 => path = <<>> /\ x.m.loose = NoEdge)
  BY DEF Owed, Books, Situations
<1>2. /\ Len(path) \in Nat /\ DOMAIN path = 1 .. Len(path) /\ Ahead(path, 0) = 1 .. Len(path)
      /\ \A j \in 1 .. Len(path) : path[j] \in Occurrences
  BY <1>1, PathType DEF Ahead
<1>3. \A j \in 1 .. Len(path) : ~path[j].prepared
  BY <1>2 DEF Unprepared
<1>4. y = [x EXCEPT !.m.path = road, !.policy.prepared = noted]
  BY DEF Prepared
<1>5. \A n \in Slots : x.policy.prepared[n] = 0
  <2>1. ASSUME NEW n \in Slots PROVE x.policy.prepared[n] = 0
    <3>1. Ready(path, 0, n) = {}
      BY <1>2, <1>3 DEF Ready
    <3>2. x.policy.prepared[n] = Cardinality(Ready(path, 0, n))
      BY <1>1 DEF Noted
    <3> QED
      BY <3>1, <3>2, FS_EmptySet
  <2> QED
    BY <2>1
<1> HIDE DEF path
<1>6. \A j \in 1 .. Len(path) :
         /\ road[j] \in Occurrences /\ road[j].node = path[j].node /\ road[j].gen = path[j].gen
         /\ road[j].edge = path[j].edge /\ road[j].edgeGen = path[j].edgeGen
         /\ road[j].prepared <=> j \in S
  <2>1. ASSUME NEW j \in 1 .. Len(path)
        PROVE  /\ road[j] \in Occurrences /\ road[j].node = path[j].node /\ road[j].gen = path[j].gen
               /\ road[j].edge = path[j].edge /\ road[j].edgeGen = path[j].edgeGen
               /\ road[j].prepared <=> j \in S
    <3>1. PICK r \in Occurrences : r = path[j]
      BY <1>2
    <3> DEFINE prepared == j \in S
    <3>2. road[j] = [r EXCEPT !.prepared = prepared]
      BY <1>2, <3>1
    <3>3. prepared \in BOOLEAN /\ (prepared <=> j \in S)
      OBVIOUS
    <3> HIDE DEF road, prepared
    <3>4. /\ road[j] \in Occurrences /\ road[j].node = r.node /\ road[j].gen = r.gen
          /\ road[j].edge = r.edge /\ road[j].edgeGen = r.edgeGen /\ (road[j].prepared <=> prepared)
      BY ONLY r \in Occurrences, <3>2, <3>3 DEF Occurrences
    <3> QED
      BY <3>1, <3>3, <3>4
  <2> QED
    BY <2>1
<1>7. road \in Seq(Occurrences) /\ Len(road) = Len(path) /\ DOMAIN road = 1 .. Len(path)
  <2>1. road = [j \in 1 .. Len(path) |-> road[j]]
    BY <1>2
  <2>2. \A j \in 1 .. Len(path) : road[j] \in Occurrences
    BY <1>6
  <2> HIDE DEF road
  <2> QED
    BY <2>1, <2>2, <1>2
<1>8. \A n \in Slots : noted[n] = Cardinality(Ready(road, 0, n)) /\ noted[n] \in Int
  <2>1. ASSUME NEW n \in Slots
        PROVE  noted[n] = Cardinality(Ready(road, 0, n)) /\ noted[n] \in Int
    <3> DEFINE R == {j \in S : path[j].node = n}
    <3>1. S \in SUBSET (1 .. Len(path)) /\ Ahead(road, 0) = 1 .. Len(path)
      BY <1>7 DEF path, Ahead
    <3>2. R = Ready(road, 0, n)
      <4> HIDE DEF road
      <4> QED
        BY <1>6, <3>1 DEF Ready
    <3>3. IsFiniteSet(R)
      <4>1. R \in SUBSET (1 .. Len(path)) /\ IsFiniteSet(1 .. Len(path))
        <5>1. IsFiniteSet(1 .. Len(path))
          BY ONLY <1>2, FS_Interval
        <5>2. R \in SUBSET (1 .. Len(path))
          BY ONLY <3>1
        <5> QED
          BY <5>1, <5>2
      <4> HIDE DEF R
      <4> QED
        BY <4>1, FS_Subset
    <3>4. noted[n] = 0 + Cardinality(R)
      BY <1>5
    <3> HIDE DEF R, noted
    <3>5. Cardinality(R) \in Nat
      BY <3>3, FS_CardinalityType
    <3> QED
      BY <3>2, <3>4, <3>5
  <2> QED
    BY <2>1
<1>9. noted \in [Slots -> Int]
  BY <1>8
<1> HIDE DEF road, noted, y
<1>10. /\ y.m = [x.m EXCEPT !.path = road] /\ y.policy = [x.policy EXCEPT !.prepared = noted]
       /\ y = [m |-> y.m, policy |-> y.policy]
  BY <1>1, <1>4 DEF Situations
<1>11. /\ y.m \in Records /\ y.m.graph = x.m.graph /\ y.m.path = road
       /\ y.m.work = x.m.work /\ y.m.begun = x.m.begun /\ y.m.ended = x.m.ended
       /\ y.m.loose = x.m.loose /\ y.m.looseGen = x.m.looseGen /\ y.m.asked = x.m.asked
       /\ y.m.protections = x.m.protections /\ y.m.evaluations = x.m.evaluations
       /\ y.m.leases = x.m.leases
  <2>1. x.m \in Records
    BY <1>1
  <2> QED
    BY ONLY ZenonT(60), <2>1, <1>7, <1>10 DEF Records
<1>12. y.policy \in Policies /\ y.policy.prepared = noted /\ y.policy.reserved = x.policy.reserved
  BY <1>1, <1>9, <1>10 DEF Policies
<1>13. y \in Situations
  BY <1>10, <1>11, <1>12 DEF Situations
<1>14. /\ Ahead(road, 0) = Ahead(path, 0) /\ Leasing(road, 0) = Leasing(path, 0)
       /\ \A n : At(road, 0, n) = At(path, 0, n)
       /\ \A e : Over(road, 0, e) = Over(path, 0, e)
  BY <1>2, <1>6, <1>7 DEF Ahead, At, Over, Leasing
<1>15. Guarded(y, 0)
  <2>1. /\ \A n \in Slots :
              /\ x.m.graph.nodes[n].pin = 0
              /\ x.m.graph.nodes[n].path = Cardinality(At(path, 0, n))
              /\ x.m.graph.nodes[n].eval = IF x.m.asked # NoHandle /\ x.m.asked.node = n THEN 1 ELSE 0
        /\ x.m.evaluations = IF x.m.asked # NoHandle THEN 1 ELSE 0
        /\ x.m.asked # NoHandle => Valid(x.m.graph, x.m.asked.node, x.m.asked.gen)
        /\ x.m.protections = Len(path) - 0
        /\ \A i \in Ahead(path, 0) : Valid(x.m.graph, path[i].node, path[i].gen)
    BY <1>1 DEF Guarded, path
  <2>2. \A i \in Ahead(road, 0) : Valid(y.m.graph, road[i].node, road[i].gen)
    BY <2>1, <1>2, <1>6, <1>11, <1>14
  <2> QED
    BY <2>1, <2>2, <1>7, <1>11, <1>14 DEF Guarded
<1>16. Lent(y, 0)
  <2>1. /\ \A i \in Leasing(path, 0) : Leased(x, path[i].edge, path[i].edgeGen) /\ path[i].edge # x.m.loose
        /\ \A i, j \in Leasing(path, 0) : path[i].edge = path[j].edge => i = j
        /\ x.m.loose # NoEdge => Leased(x, x.m.loose, x.m.looseGen)
        /\ x.m.leases = Cardinality(Leasing(path, 0)) + (IF x.m.loose = NoEdge THEN 0 ELSE 1)
        /\ \A e \in Bases : /\ x.m.graph.edges[e].lease <= MaxWork
                            /\ x.policy.reserved[e] = Cardinality(Over(path, 0, e))
                                                        + (IF x.m.loose = e THEN 1 ELSE 0)
    BY <1>1 DEF Lent, path
  <2>2. \A i \in Leasing(path, 0) : i \in 1 .. Len(path)
    BY <1>2 DEF Leasing
  <2>3. \A e, gen : Leased(x, e, gen) => Leased(y, e, gen)
    BY <1>11 DEF Leased
  <2>4. \A i \in Leasing(path, 0) : Leased(y, road[i].edge, road[i].edgeGen) /\ road[i].edge # y.m.loose
    BY <2>1, <2>2, <2>3, <1>6, <1>11
  <2>5. \A i, j \in Leasing(path, 0) : road[i].edge = road[j].edge => i = j
    BY <2>1, <2>2, <1>6
  <2> QED
    BY <2>1, <2>3, <2>4, <2>5, <1>11, <1>12, <1>14 DEF Lent
<1>17. Noted(y, 0)
  BY <1>8, <1>11, <1>12 DEF Noted
<1>18. Books(y, 0)
  <2>1. y.m.work = 0 => y.m.path = <<>> /\ y.m.loose = NoEdge
    <3>1. path = <<>> => road = <<>>
      BY <1>7
    <3> QED
      BY <3>1, <1>1, <1>11 DEF path
  <2>2. Len(y.m.path) <= PathDepth /\ 0 \in 0 .. Len(y.m.path)
    BY <1>1, <1>7, <1>11 DEF path
  <2> QED
    BY <2>1, <2>2, <1>1, <1>11, <1>13, <1>15, <1>16, <1>17 DEF Books
<1>19. Rooted(y)
  BY <1>1, <1>11 DEF Rooted
<1> QED
  BY <1>1, <1>11, <1>18, <1>19 DEF Owed, y

\* However a backup ends, the work is done.
LEMMA BackupLemma ==
    ASSUME NEW x, Owed(x), Unprepared(x), NEW y \in Backup(x)
    PROVE  Done(x, y)
<1> DEFINE firsts == Firsts(x.m.path)
           ready == Prepared(x, firsts)
<1>1. x \in Situations
  BY DEF Owed, Books
<1>2. firsts \in SUBSET (1 .. Len(x.m.path)) /\ 8 \in Causes /\ 11 \in Causes
  BY <1>1, PathType DEF Firsts, Causes
<1>3. Owed(ready) /\ ready.m.asked = x.m.asked
  BY <1>2, PreparedLemma
<1>4. \/ \E j \in firsts : y = Broken(Prepared(x, {k \in firsts : k < j}), 8)
      \/ y = Broken(ready, 11)
      \/ y = Dispose(ready)
  BY DEF Backup
<1> HIDE DEF firsts, ready
<1>5. ASSUME NEW j \in firsts, y = Broken(Prepared(x, {k \in firsts : k < j}), 8) PROVE Done(x, y)
  <2> DEFINE S == {k \in firsts : k < j}
             z == Prepared(x, S)
  <2>1. S \in SUBSET (1 .. Len(x.m.path)) /\ y = Broken(z, 8)
    BY <1>2, <1>5
  <2> HIDE DEF S
  <2>2. Owed(z) /\ z.m.asked = x.m.asked
    BY <2>1, PreparedLemma
  <2> HIDE DEF z
  <2>3. Done(z, y)
    BY <2>1, <2>2, <1>2, BrokenDone
  <2> QED
    BY <2>2, <2>3 DEF Done
<1>6. ASSUME y = Broken(ready, 11) PROVE Done(x, y)
  <2>1. Done(ready, y)
    BY <1>2, <1>3, <1>6, BrokenDone
  <2> QED
    BY <2>1, <1>3 DEF Done
<1>7. ASSUME y = Dispose(ready) PROVE Done(x, y)
  <2>1. Done(ready, y)
    BY <1>3, <1>7, DisposeDone
  <2> QED
    BY <2>1, <1>3 DEF Done
<1> QED
  BY <1>4, <1>5, <1>6, <1>7

-----------------------------------------------------------------------------
(* The answer is taken.                                                    *)

\* The pin of the evaluation is let go.
LEMMA AnsweredLemma ==
    ASSUME NEW x, Kempt(x), x.m.asked # NoHandle
    PROVE  LET y == Answered(x) IN
           Owed(y) /\ Unprepared(y) /\ y.m.asked = NoHandle
<1> DEFINE g == x.m.graph
           n == x.m.asked.node
           less == g.nodes[n].eval - 1
           q == [g.nodes[n] EXCEPT !.eval = less]
           h == [g EXCEPT !.nodes = [g.nodes EXCEPT ![n] = q]]
           evaluations == x.m.evaluations - 1
           y == Answered(x)
<1>1. /\ Books(x, 0) /\ Threaded(x) /\ Rooted(x) /\ (\A i \in DOMAIN x.m.path : ~x.m.path[i].prepared)
      /\ x.m.begun = x.m.ended + (IF x.m.work = 0 THEN 0 ELSE 1)
  BY DEF Kempt
<1>2. /\ x \in Situations /\ x.m \in Records /\ x.policy \in Policies /\ x.m.evaluations \in Int
      /\ GraphInv(g) /\ g \in Graphs /\ g.nodes \in [Slots -> Nodes]
      /\ Len(x.m.path) <= PathDepth /\ 0 \in 0 .. Len(x.m.path)
      /\ (x.m.work = 0 => x.m.path = <<>> /\ x.m.loose = NoEdge)
      /\ Guarded(x, 0) /\ Lent(x, 0) /\ Noted(x, 0)
  BY <1>1 DEF Books, Situations, Records, GraphInv, Graphs
<1>3. x.m.asked \in Handles /\ n \in Slots
  BY <1>2 DEF Records, Handles
<1>4. /\ \A k \in Slots :
            /\ g.nodes[k].pin = 0 /\ g.nodes[k].path = Cardinality(At(x.m.path, 0, k))
            /\ g.nodes[k].eval = IF k = n THEN 1 ELSE 0
      /\ x.m.evaluations = 1 /\ Valid(g, n, x.m.asked.gen)
      /\ x.m.protections = Len(x.m.path) - 0
      /\ \A i \in Ahead(x.m.path, 0) : Valid(g, x.m.path[i].node, x.m.path[i].gen)
  BY SMTT(30), <1>2 DEF Guarded
<1>5. Settled(x) = [x EXCEPT !.m.graph = h, !.m.evaluations = evaluations]
  <2>1. g.nodes[n].eval # 0 /\ x.m.evaluations # 0 /\ Valid(g, n, x.m.asked.gen)
    BY SMTT(30), <1>3, <1>4
  <2>2. Settled(x) = [x EXCEPT !.m.graph.nodes[n].eval = @ - 1, !.m.evaluations = @ - 1]
    BY ONLY ZenonT(60), <2>1 DEF Settled
  <2> QED
    BY ONLY ZenonT(60), <2>2, <1>2, <1>3 DEF Situations, Records, Graphs
<1>6. y = [Settled(x) EXCEPT !.m.asked = NoHandle]
  BY DEF Answered
<1>7. less = 0 /\ less \in Nat /\ evaluations = 0 /\ evaluations \in Int /\ n \in LiveOf(g)
      /\ g.nodes[n] \in Nodes
  <2>1. g.nodes[n].eval = 1 /\ g.nodes[n].pub /\ g.nodes[n] \in Nodes
    BY ZenonT(60), <1>2, <1>3, <1>4 DEF Valid
  <2> HIDE DEF g, n
  <2> QED
    BY SMTT(30), <2>1, <1>3, <1>4 DEF LiveOf
<1>8. /\ q \in Nodes /\ q.pub = g.nodes[n].pub /\ q.gen = g.nodes[n].gen /\ q.state = g.nodes[n].state
      /\ q.span = g.nodes[n].span /\ q.count = g.nodes[n].count /\ q.next = g.nodes[n].next
      /\ q.path = g.nodes[n].path /\ q.pin = g.nodes[n].pin /\ q.eval = less
  <2>1. g.nodes[n] \in Nodes /\ less \in Nat
    BY <1>7
  <2> HIDE DEF less
  <2> QED
    BY ONLY ZenonT(60), <2>1 DEF Nodes, q
<1>9. h = [g EXCEPT !.nodes = [g.nodes EXCEPT ![n] = q]]
  OBVIOUS
<1> HIDE DEF q, h, y, evaluations, less
<1>10. Dressed(g, h, n, q)
  <2>1. GraphInv(g) /\ n \in LiveOf(g) /\ q \in Nodes
    BY <1>2, <1>7, <1>8
  <2> HIDE DEF g, n
  <2> QED
    BY ONLY SMTT(30), <2>1, <1>8, <1>9, NodeEdit
<1>11. /\ y.m = [x.m EXCEPT !.graph = h, !.evaluations = evaluations, !.asked = NoHandle]
       /\ y.policy = x.policy /\ y = [m |-> y.m, policy |-> y.policy]
  BY <1>2, <1>5, <1>6 DEF Situations
<1>12. /\ GraphInv(h) /\ h.root = g.root /\ h.rootGen = g.rootGen /\ h.edges = g.edges /\ h.high = g.high
       /\ \A k \in Slots : k # n => h.nodes[k] = g.nodes[k]
       /\ h.nodes[n] = q
       /\ \A k \in Slots : /\ h.nodes[k].pub = g.nodes[k].pub /\ h.nodes[k].gen = g.nodes[k].gen
  BY <1>10 DEF Dressed
<1>13. /\ y.m \in Records /\ y.m.graph = h /\ y.m.path = x.m.path
       /\ y.m.work = x.m.work /\ y.m.begun = x.m.begun /\ y.m.ended = x.m.ended
       /\ y.m.loose = x.m.loose /\ y.m.looseGen = x.m.looseGen /\ y.m.asked = NoHandle
       /\ y.m.protections = x.m.protections /\ y.m.evaluations = evaluations
       /\ y.m.leases = x.m.leases
  <2>1. x.m \in Records /\ h \in Graphs /\ evaluations \in Int
    BY <1>2, <1>7, <1>12 DEF GraphInv
  <2> QED
    BY ONLY ZenonT(60), <2>1, <1>11 DEF Records
<1>14. y \in Situations
  BY <1>2, <1>11, <1>13 DEF Situations
<1>15. \A k, gen : Valid(g, k, gen) => Valid(h, k, gen)
  <2>1. g.high \in 0 .. NodeCapacity /\ NodeCapacity \in Nat
    BY <1>2, GraphConstants DEF Graphs
  <2>2. \A k : k \in 0 .. g.high - 1 => k \in Slots
    BY <2>1 DEF Slots
  <2> QED
    BY <2>2, <1>12 DEF Valid
<1>16. ASSUME NEW k \in Slots
       PROVE  h.nodes[k].pin = 0 /\ h.nodes[k].eval = 0 /\ h.nodes[k].path = Cardinality(At(x.m.path, 0, k))
  <2>1. CASE k = n
    BY ZenonT(60), <2>1, <1>4, <1>7, <1>8, <1>12
  <2>2. CASE k # n
    BY <2>2, <1>4, <1>12
  <2> QED
    BY <2>1, <2>2
<1>17. Guarded(y, 0)
  <2>1. \A i \in Ahead(x.m.path, 0) : Valid(h, x.m.path[i].node, x.m.path[i].gen)
    BY <1>4, <1>15
  <2> HIDE DEF g
  <2> QED
    BY <2>1, <1>4, <1>7, <1>13, <1>16 DEF Guarded
<1>18. Lent(y, 0)
  <2>1. /\ y.m.graph.edges = x.m.graph.edges /\ y.m.path = x.m.path /\ y.m.loose = x.m.loose
        /\ y.m.looseGen = x.m.looseGen /\ y.m.work = x.m.work /\ y.m.leases = x.m.leases
        /\ y.policy = x.policy
    BY <1>11, <1>12, <1>13
  <2>2. Lent(x, 0)
    BY <1>2
  <2>3. \A e, gen : Leased(x, e, gen) <=> Leased(y, e, gen)
    BY <2>1 DEF Leased
  <2> QED
    BY ONLY <2>1, <2>2, <2>3 DEF Lent
<1>19. Noted(y, 0)
  BY <1>2, <1>11, <1>13 DEF Noted
<1>20. Books(y, 0)
  BY <1>2, <1>12, <1>13, <1>14, <1>17, <1>18, <1>19 DEF Books
<1>21. Rooted(y)
  BY <1>1, <1>12, <1>13, <1>15 DEF Rooted
<1>22. Owed(y) /\ Unprepared(y)
  BY <1>1, <1>13, <1>20, <1>21 DEF Owed, Unprepared
<1> QED
  BY <1>13, <1>22 DEF y

\* What the controller makes of the request: nothing, or the work is done.
Fetched(x, state, c) ==
    \/ c.x = x /\ c.request = state /\ (x.m.asked = NoHandle \/ state = "queued")
    \/ Kempt(c.x) /\ c.x.m.work = 0 /\ c.x.m.asked = NoHandle /\ c.request = "free"

\* Whatever the state of the request, one of the two comes of it.
LEMMA ConsumedLemma ==
    ASSUME NEW x, Kempt(x), NEW state, NEW c \in Consumed(x, state)
    PROVE  Fetched(x, state, c)
<1>1. CASE x.m.asked = NoHandle \/ state = "queued"
  BY <1>1 DEF Consumed, Fetched
<1>2. CASE ~(x.m.asked = NoHandle \/ state = "queued")
  <2>1. PICK y : /\ c = [x |-> y, request |-> "free"]
                 /\ \/ y \in Backup(Answered(x))
                    \/ y = Dispose(Answered(Stop(x, 8)))
                    \/ y = Dispose(Answered(x))
    BY <1>2 DEF Consumed
  <2>2. Owed(Answered(x)) /\ Unprepared(Answered(x)) /\ Answered(x).m.asked = NoHandle
    BY <1>2, AnsweredLemma
  <2>3. Owed(Answered(Stop(x, 8))) /\ Answered(Stop(x, 8)).m.asked = NoHandle
    <3>1. 8 \in Causes /\ Owed(x)
      BY DEF Causes, Kempt, Owed
    <3>2. Kempt(Stop(x, 8)) /\ Stop(x, 8).m.asked = x.m.asked
      BY <3>1, StopOwed
    <3> QED
      BY <1>2, <3>2, AnsweredLemma
  <2>4. Done(Answered(x), y) \/ Done(Answered(Stop(x, 8)), y)
    BY <2>1, <2>2, <2>3, BackupLemma, DisposeDone
  <2>5. Kempt(y) /\ y.m.work = 0 /\ y.m.asked = NoHandle
    BY <2>2, <2>3, <2>4 DEF Done
  <2> QED
    BY <2>1, <2>5 DEF Fetched
<1> QED
  BY <1>1, <1>2

\* The latch notes a first cause and nothing else.
LEMMA LatchedLemma ==
    ASSUME NEW x \in Situations, NEW cancelled
    PROVE  Alike(x, Latched(x, cancelled)) /\ Latched(x, cancelled).m.begun = x.m.begun
           /\ Latched(x, cancelled).m.ended = x.m.ended
<1> DEFINE first == IF x.m.first # 0 THEN x.m.first ELSE IF x.m.stop # 0 THEN x.m.stop
                    ELSE IF cancelled THEN 2 ELSE 0
           y == Latched(x, cancelled)
<1>1. x.m \in Records /\ x.policy \in Policies /\ first \in Causes
  BY DEF Situations, Records, Causes
<1>2. y = [x EXCEPT !.m.first = first]
  BY DEF Latched
<1> HIDE DEF first, y
<1>3. y.m = [x.m EXCEPT !.first = first] /\ y.policy = x.policy /\ y = [m |-> y.m, policy |-> y.policy]
  BY <1>2 DEF Situations
<1>4. /\ y.m \in Records /\ y.m.graph = x.m.graph /\ y.m.path = x.m.path
      /\ y.m.work = x.m.work /\ y.m.loose = x.m.loose /\ y.m.looseGen = x.m.looseGen
      /\ y.m.asked = x.m.asked /\ y.m.protections = x.m.protections
      /\ y.m.evaluations = x.m.evaluations /\ y.m.leases = x.m.leases
      /\ y.m.begun = x.m.begun /\ y.m.ended = x.m.ended
  BY ZenonT(60), <1>1, <1>3 DEF Records
<1>5. y \in Situations
  BY <1>1, <1>3, <1>4 DEF Situations
<1> QED
  BY <1>3, <1>4, <1>5 DEF Alike, y

\* Kept records stay kept.
LEMMA AlikeKempt ==
    ASSUME NEW x, Kempt(x), NEW y, Alike(x, y), y.m.begun = x.m.begun, y.m.ended = x.m.ended
    PROVE  Kempt(y) /\ y.m.asked = x.m.asked /\ y.m.work = x.m.work /\ y.m.path = x.m.path
           /\ y.m.loose = x.m.loose
<1>1. y.m.asked = x.m.asked /\ y.m.work = x.m.work /\ y.m.path = x.m.path /\ y.m.loose = x.m.loose
  BY DEF Alike
<1>2. Books(y, 0) /\ Threaded(y) /\ Rooted(y)
  BY AlikeBooks DEF Kempt
<1> QED
  BY <1>1, <1>2 DEF Kempt

-----------------------------------------------------------------------------
(* A node is pushed.                                                       *)

\* What each count gains with an occurrence put at the end.
Appended(path, o, road) ==
    LET N == Len(path)
        last == N + 1
    IN
    /\ road \in Seq(Occurrences) /\ Len(road) = last /\ road[last] = o
    /\ \A i \in 1 .. N : road[i] = path[i]
    /\ Ahead(road, 0) = Ahead(path, 0) \cup {last} /\ last \notin Ahead(path, 0)
    /\ Leasing(road, 0) = IF o.edge # NoEdge THEN Leasing(path, 0) \cup {last}
                          ELSE Leasing(path, 0)
    /\ \A n : Cardinality(At(road, 0, n)) =
                 Cardinality(At(path, 0, n)) + (IF o.node = n THEN 1 ELSE 0)
    /\ Cardinality(Leasing(road, 0)) =
          Cardinality(Leasing(path, 0)) + (IF o.edge # NoEdge THEN 1 ELSE 0)
    /\ \A e : Cardinality(Over(road, 0, e)) =
                 Cardinality(Over(path, 0, e)) + (IF o.edge = e THEN 1 ELSE 0)
    /\ \A n : ~o.prepared => Ready(road, 0, n) = Ready(path, 0, n)

\* An occurrence put at the end changes each count in this way.
LEMMA AppendCounts ==
    ASSUME NEW path \in Seq(Occurrences), NEW o \in Occurrences, NEW road, road = Append(path, o),
           NEW N, N = Len(path), NEW last, last = N + 1
    PROVE  Appended(path, o, road)
<1>1. /\ N \in Nat /\ road \in Seq(Occurrences) /\ Len(road) = last /\ road[last] = o
      /\ \A i \in 1 .. N : road[i] = path[i]
  OBVIOUS
<1>2. Ahead(road, 0) = 1 .. last /\ Ahead(path, 0) = 1 .. N
  BY <1>1 DEF Ahead
<1>3. 1 .. last = (1 .. N) \cup {last} /\ last \notin 1 .. N /\ last \in Int
  BY <1>1
<1>4. ASSUME NEW S, S \subseteq 1 .. N
      PROVE  Cardinality(S) \in Nat /\ Cardinality(S \cup {last}) = Cardinality(S) + 1
  <2>1. IsFiniteSet(1 .. N)
    BY <1>1, FS_Interval
  <2>2. IsFiniteSet(S) /\ last \notin S
    BY <2>1, <1>3, <1>4, FS_Subset
  <2> QED
    BY <2>2, FS_AddElement, FS_CardinalityType
<1>5. ASSUME NEW n
      PROVE  Cardinality(At(road, 0, n)) = Cardinality(At(path, 0, n)) + (IF o.node = n THEN 1 ELSE 0)
  <2> DEFINE S == At(path, 0, n)
  <2>1. S \subseteq 1 .. N
    BY <1>2 DEF At
  <2>2. At(road, 0, n) = IF o.node = n THEN S \cup {last} ELSE S
    BY <1>1, <1>2, <1>3 DEF At
  <2>3. Cardinality(At(road, 0, n)) = Cardinality(S) + (IF o.node = n THEN 1 ELSE 0)
    <3> HIDE DEF S
    <3>1. Cardinality(S) \in Nat /\ Cardinality(S \cup {last}) = Cardinality(S) + 1
      BY <2>1, <1>4
    <3>2. CASE o.node = n
      BY <2>2, <3>1, <3>2
    <3>3. CASE o.node # n
      BY <2>2, <3>1, <3>3
    <3> QED
      BY <3>2, <3>3
  <2> QED
    BY <2>3
<1>6. Leasing(road, 0) = IF o.edge # NoEdge THEN Leasing(path, 0) \cup {last} ELSE Leasing(path, 0)
  BY <1>1, <1>2, <1>3 DEF Leasing
<1>7. Cardinality(Leasing(road, 0)) =
        Cardinality(Leasing(path, 0)) + (IF o.edge # NoEdge THEN 1 ELSE 0)
  <2> DEFINE S == Leasing(path, 0)
  <2>1. S \subseteq 1 .. N
    BY <1>2 DEF Leasing
  <2> HIDE DEF S
  <2>2. Cardinality(S) \in Nat /\ Cardinality(S \cup {last}) = Cardinality(S) + 1
    BY <2>1, <1>4
  <2>3. CASE o.edge # NoEdge
    BY <2>2, <2>3, <1>6 DEF S
  <2>4. CASE o.edge = NoEdge
    BY <2>2, <2>4, <1>6 DEF S
  <2> QED
    BY <2>3, <2>4
<1>8. ASSUME NEW e
      PROVE  Cardinality(Over(road, 0, e)) = Cardinality(Over(path, 0, e)) + (IF o.edge = e THEN 1 ELSE 0)
  <2> DEFINE S == Over(path, 0, e)
  <2>1. S \subseteq 1 .. N
    BY <1>2 DEF Over
  <2>2. Over(road, 0, e) = IF o.edge = e THEN S \cup {last} ELSE S
    BY <1>1, <1>2, <1>3 DEF Over
  <2>3. Cardinality(Over(road, 0, e)) = Cardinality(S) + (IF o.edge = e THEN 1 ELSE 0)
    <3> HIDE DEF S
    <3>1. Cardinality(S) \in Nat /\ Cardinality(S \cup {last}) = Cardinality(S) + 1
      BY <2>1, <1>4
    <3>2. CASE o.edge = e
      BY <2>2, <3>1, <3>2
    <3>3. CASE o.edge # e
      BY <2>2, <3>1, <3>3
    <3> QED
      BY <3>2, <3>3
  <2> QED
    BY <2>3
<1>9. ASSUME NEW n, ~o.prepared PROVE Ready(road, 0, n) = Ready(path, 0, n)
  BY <1>1, <1>2, <1>3, <1>9 DEF Ready
<1> QED
  BY <1>1, <1>2, <1>3, <1>5, <1>6, <1>7, <1>8, <1>9, N = Len(path), last = N + 1 DEF Appended

\* What a push changes.
Onward(x, y) ==
    LET f == x.m.graph
        g == y.m.graph
        last == Len(x.m.path) + 1
    IN
    /\ Kempt(y) /\ y.m.work = x.m.work /\ y.m.loose = NoEdge /\ y.m.asked = x.m.asked
    /\ y.m.cur = x.m.cur /\ y.m.path # <<>> /\ Len(y.m.path) = last
    /\ y.m.path[last].node = x.m.cur.node
    /\ g.high = f.high
    /\ \A n \in Slots : /\ Candidates(g, n) = Candidates(f, n) /\ g.nodes[n].pub = f.nodes[n].pub
                        /\ g.nodes[n].gen = f.nodes[n].gen /\ g.nodes[n].state = f.nodes[n].state

\* ... and what a push adds to the path.
Lengthened(x, y) ==
    LET path == x.m.path
        last == Len(path) + 1
    IN
    /\ y.m.graph.edges = x.m.graph.edges /\ last \notin Leasing(path, 0)
    /\ \A i \in Leasing(path, 0) : y.m.path[i] = path[i]
    /\ Leasing(y.m.path, 0) \subseteq Leasing(path, 0) \cup {last}
    /\ y.m.path[last].node = x.m.cur.node /\ y.m.path[last].gen = x.m.cur.gen
    /\ y.m.path[last].edge = x.m.loose

\* The current node is pushed on the path.
LEMMA PushedLemma ==
    ASSUME NEW x, Kempt(x), x.m.work # 0, Len(x.m.path) < PathDepth,
           Valid(x.m.graph, x.m.cur.node, x.m.cur.gen)
    PROVE  Onward(x, Pushed(x)) /\ Lengthened(x, Pushed(x))
<1> DEFINE g == x.m.graph
           path == x.m.path
           n == x.m.cur.node
           N == Len(path)
           last == N + 1
           o == [node |-> n, gen |-> x.m.cur.gen, edge |-> x.m.loose, edgeGen |-> x.m.looseGen,
                 prepared |-> FALSE]
           road == Append(path, o)
           more == g.nodes[n].path + 1
           q == [g.nodes[n] EXCEPT !.path = more, !.ref = TRUE]
           h == [g EXCEPT !.nodes = [g.nodes EXCEPT ![n] = q]]
           protections == x.m.protections + 1
           y == Pushed(x)
<1>1. /\ Books(x, 0) /\ Threaded(x) /\ Rooted(x) /\ (\A i \in DOMAIN path : ~path[i].prepared)
      /\ x.m.begun = x.m.ended + (IF x.m.work = 0 THEN 0 ELSE 1)
  BY DEF Kempt
<1>2. /\ x \in Situations /\ x.m \in Records /\ x.policy \in Policies /\ x.m.protections \in Int
      /\ GraphInv(g) /\ g \in Graphs /\ g.nodes \in [Slots -> Nodes]
      /\ 0 \in 0 .. N /\ path \in Seq(Occurrences) /\ N \in Nat
      /\ Guarded(x, 0) /\ Lent(x, 0) /\ Noted(x, 0)
      /\ x.m.loose \in Bases \cup {NoEdge} /\ x.m.looseGen \in Gens
      /\ x.m.cur \in Handles \cup {NoHandle}
  <2>1. x \in Situations /\ GraphInv(g) /\ Guarded(x, 0) /\ Lent(x, 0) /\ Noted(x, 0)
    BY <1>1 DEF Books
  <2>2. x.m \in Records /\ x.policy \in Policies
    BY <2>1 DEF Situations
  <2>3. /\ x.m.protections \in Int /\ x.m.loose \in Bases \cup {NoEdge} /\ x.m.looseGen \in Gens
        /\ x.m.cur \in Handles \cup {NoHandle}
    BY ONLY <2>2 DEF Records
  <2>4. g \in Graphs /\ g.nodes \in [Slots -> Nodes]
    BY <2>1 DEF GraphInv, Graphs
  <2>5. path \in Seq(Occurrences) /\ N \in Nat
    BY <2>1, PathType
  <2>6. 0 \in 0 .. N
    BY <1>1 DEF Books
  <2> QED
    BY ONLY <2>1, <2>2, <2>3, <2>4, <2>5, <2>6
<1>3. n \in Slots /\ n \in LiveOf(g) /\ x.m.cur.gen \in Gens /\ g.nodes[n] \in Nodes
  <2>1. g.high \in 0 .. NodeCapacity /\ NodeCapacity \in Nat
    BY <1>2, GraphConstants DEF Graphs
  <2>2. n \in Slots /\ g.nodes[n].pub /\ g.nodes[n].gen = x.m.cur.gen
    BY SMTT(30), <2>1 DEF Valid, Slots
  <2> QED
    BY <2>2, <1>2 DEF LiveOf, Nodes
<1>4. o \in Occurrences /\ o.node = n /\ o.gen = x.m.cur.gen /\ o.edge = x.m.loose
      /\ o.edgeGen = x.m.looseGen /\ ~o.prepared
  BY <1>2, <1>3 DEF Occurrences
<1>5. more \in Nat
  <2>1. g.nodes[n].path \in Nat
    BY <1>3 DEF Nodes
  <2> QED
    BY ONLY <2>1 DEF more
<1>6. /\ q \in Nodes /\ q.pub = g.nodes[n].pub /\ q.gen = g.nodes[n].gen /\ q.state = g.nodes[n].state
      /\ q.span = g.nodes[n].span /\ q.count = g.nodes[n].count /\ q.next = g.nodes[n].next
      /\ q.eval = g.nodes[n].eval /\ q.pin = g.nodes[n].pin /\ q.path = more
  <2>1. g.nodes[n] \in Nodes
    BY SMTT(30), <1>3
  <2> HIDE DEF more
  <2> QED
    BY ONLY <2>1, <1>5 DEF Nodes, q
<1> DEFINE r == [x.m EXCEPT !.path = road, !.loose = NoEdge, !.protections = protections]
<1>7. /\ y.policy = x.policy /\ y = [m |-> y.m, policy |-> y.policy]
      /\ r \in Records /\ r.path = road /\ r.loose = NoEdge /\ r.protections = protections
      /\ r.graph = g /\ r.work = x.m.work /\ r.begun = x.m.begun /\ r.ended = x.m.ended
      /\ r.looseGen = x.m.looseGen /\ r.cur = x.m.cur /\ r.asked = x.m.asked
      /\ r.evaluations = x.m.evaluations /\ r.leases = x.m.leases
      /\ y.m = [r EXCEPT !.graph = h]
  <2>1. y = [x EXCEPT !.m.path = road, !.m.loose = NoEdge, !.m.protections = protections,
                      !.m.graph.nodes[n].path = @ + 1, !.m.graph.nodes[n].ref = TRUE]
    BY SMTT(30) DEF Pushed
  <2> HIDE DEF road, protections, y
  <2>2. /\ y.policy = x.policy /\ y = [m |-> y.m, policy |-> y.policy]
        /\ y.m = [x.m EXCEPT !.path = road, !.loose = NoEdge, !.protections = protections,
                             !.graph.nodes[n].path = @ + 1, !.graph.nodes[n].ref = TRUE]
    BY ZenonT(60), <2>1, <1>2 DEF Situations
  <2> DEFINE k == [g EXCEPT !.nodes[n].path = @ + 1, !.nodes[n].ref = TRUE]
  <2>3. /\ r \in Records /\ r.path = road /\ r.loose = NoEdge /\ r.protections = protections
        /\ r.graph = g /\ r.work = x.m.work /\ r.begun = x.m.begun /\ r.ended = x.m.ended
        /\ r.looseGen = x.m.looseGen /\ r.cur = x.m.cur /\ r.asked = x.m.asked
        /\ r.evaluations = x.m.evaluations /\ r.leases = x.m.leases
    <3>1. x.m \in Records /\ road \in Seq(Occurrences) /\ protections \in Int
      BY <1>2, <1>4 DEF road, protections
    <3> HIDE DEF g
    <3> QED
      BY ONLY <3>1 DEF Records, r, g
  <2>4. y.m = [r EXCEPT !.graph.nodes[n].path = @ + 1, !.graph.nodes[n].ref = TRUE]
    BY ZenonT(60), <2>2
  <2> HIDE DEF r
  <2>5. y.m = [r EXCEPT !.graph = k]
    BY ONLY ZenonT(60), <2>3, <2>4 DEF Records, k
  <2>6. k = h
    BY ZenonT(60), <1>2, <1>3 DEF Graphs
  <2> HIDE DEF k, h, g
  <2> QED
    BY ZenonT(60), <2>2, <2>3, <2>5, <2>6
<1>8. h = [g EXCEPT !.nodes = [g.nodes EXCEPT ![n] = q]]
  OBVIOUS
<1>9. road = Append(path, o) /\ last = Len(path) + 1
  OBVIOUS
<1>10. /\ x.m.loose # NoEdge => path # <<>> /\ x.m.loose \in Candidates(g, path[N].node)
       /\ \A i \in Leasing(path, 0) : i > 1 /\ path[i].edge \in Candidates(g, path[i - 1].node)
       /\ \A i \in 1 .. N : ~path[i].prepared
  BY <1>1, <1>2 DEF Threaded
<1> HIDE DEF q, h, y, protections, more, r, road, o
<1>11. /\ road \in Seq(Occurrences) /\ Len(road) = last /\ road[last] = o
       /\ \A i \in 1 .. N : road[i] = path[i]
       /\ Ahead(road, 0) = Ahead(path, 0) \cup {last} /\ last \notin Ahead(path, 0)
       /\ Leasing(road, 0) = IF o.edge # NoEdge THEN Leasing(path, 0) \cup {last}
                             ELSE Leasing(path, 0)
       /\ \A k : Cardinality(At(road, 0, k)) =
                    Cardinality(At(path, 0, k)) + (IF o.node = k THEN 1 ELSE 0)
       /\ Cardinality(Leasing(road, 0)) =
             Cardinality(Leasing(path, 0)) + (IF o.edge # NoEdge THEN 1 ELSE 0)
       /\ \A e : Cardinality(Over(road, 0, e)) =
                    Cardinality(Over(path, 0, e)) + (IF o.edge = e THEN 1 ELSE 0)
       /\ \A k : ~o.prepared => Ready(road, 0, k) = Ready(path, 0, k)
  <2>1. path \in Seq(Occurrences)
    BY <1>2
  <2>2. Appended(path, o, road)
    <3> HIDE DEF path, N, last
    <3> QED
      BY <2>1, <1>4, <1>9, AppendCounts
  <2> QED
    BY <2>2 DEF Appended
<1>12. Dressed(g, h, n, q)
  <2> HIDE DEF g, n
  <2> QED
    BY <1>2, <1>3, <1>6, <1>8, NodeEdit
<1>13. /\ GraphInv(h) /\ h.root = g.root /\ h.rootGen = g.rootGen /\ h.edges = g.edges /\ h.high = g.high
       /\ \A k \in Slots : Candidates(h, k) = Candidates(g, k)
       /\ \A k \in Slots : k # n => h.nodes[k] = g.nodes[k]
       /\ h.nodes[n] = q
       /\ \A k \in Slots : /\ h.nodes[k].pub = g.nodes[k].pub /\ h.nodes[k].gen = g.nodes[k].gen
                           /\ h.nodes[k].state = g.nodes[k].state
  BY <1>12 DEF Dressed
<1>14. /\ y.m \in Records /\ y.m.graph = h /\ y.m.path = road /\ y.m.loose = NoEdge
       /\ y.m.protections = protections /\ y.m.work = x.m.work /\ y.m.begun = x.m.begun
       /\ y.m.ended = x.m.ended /\ y.m.looseGen = x.m.looseGen /\ y.m.cur = x.m.cur
       /\ y.m.asked = x.m.asked /\ y.m.evaluations = x.m.evaluations /\ y.m.leases = x.m.leases
  <2>1. h \in Graphs
    BY <1>13 DEF GraphInv
  <2> HIDE DEF g, n
  <2> QED
    BY <2>1, <1>7 DEF Records
<1>15. y \in Situations
  BY SMTT(30), <1>2, <1>7, <1>14 DEF Situations
<1>16. \A k, gen : Valid(g, k, gen) <=> Valid(h, k, gen)
  <2>1. g.high \in 0 .. NodeCapacity /\ NodeCapacity \in Nat
    BY <1>2, GraphConstants DEF Graphs
  <2>2. \A k : k \in 0 .. g.high - 1 => k \in Slots
    BY <2>1 DEF Slots
  <2> QED
    BY <2>2, <1>13 DEF Valid
<1>17. Guarded(y, 0)
  <2>1. /\ \A k \in Slots :
              /\ g.nodes[k].pin = 0 /\ g.nodes[k].path = Cardinality(At(path, 0, k))
              /\ g.nodes[k].eval = IF x.m.asked # NoHandle /\ x.m.asked.node = k THEN 1 ELSE 0
        /\ x.m.evaluations = IF x.m.asked # NoHandle THEN 1 ELSE 0
        /\ x.m.asked # NoHandle => Valid(g, x.m.asked.node, x.m.asked.gen)
        /\ x.m.protections = Len(path) - 0
        /\ \A i \in Ahead(path, 0) : Valid(g, path[i].node, path[i].gen)
    BY <1>2 DEF Guarded
  <2>2. ASSUME NEW k \in Slots
        PROVE  /\ h.nodes[k].pin = 0 /\ h.nodes[k].path = Cardinality(At(road, 0, k))
               /\ h.nodes[k].eval = IF x.m.asked # NoHandle /\ x.m.asked.node = k THEN 1 ELSE 0
    <3>1. CASE k = n
      <4>1. h.nodes[k].pin = 0
            /\ h.nodes[k].eval = IF x.m.asked # NoHandle /\ x.m.asked.node = k THEN 1 ELSE 0
        BY ZenonT(60), <3>1, <2>1, <1>6, <1>13
      <4>2. h.nodes[k].path = more /\ more = g.nodes[k].path + 1
        BY ZenonT(60), <3>1, <1>6, <1>13 DEF more
      <4>3. Cardinality(At(road, 0, k)) = Cardinality(At(path, 0, k)) + 1
        BY <3>1, <1>4, <1>11
      <4> QED
        BY SMTT(30), <4>1, <4>2, <4>3, <2>1
    <3>2. CASE k # n
      <4>1. Cardinality(At(road, 0, k)) = Cardinality(At(path, 0, k)) + 0
        BY <3>2, <1>4, <1>11
      <4>2. g.nodes[k].path \in Nat
        BY <1>2 DEF Nodes
      <4> QED
        BY <4>1, <4>2, <3>2, <2>1, <1>13
    <3> QED
      BY <3>1, <3>2
  <2>3. \A i \in Ahead(road, 0) : Valid(h, road[i].node, road[i].gen)
    <3>1. \A i \in Ahead(path, 0) : road[i] = path[i]
      BY <1>2, <1>11 DEF Ahead
    <3>2. Valid(h, o.node, o.gen)
      BY <1>4, <1>16
    <3> QED
      BY <3>1, <3>2, <2>1, <1>11, <1>16
  <2>4. y.m.protections = Len(road) - 0
    BY <2>1, <1>2, <1>11, <1>14 DEF protections
  <2>5. x.m.asked # NoHandle => Valid(h, x.m.asked.node, x.m.asked.gen)
    BY <2>1, <1>16
  <2> HIDE DEF g, n, path
  <2> QED
    BY <2>1, <2>2, <2>3, <2>4, <2>5, <1>14 DEF Guarded
<1>18. \A e, gen : Leased(y, e, gen) <=> Leased(x, e, gen)
  BY <1>13, <1>14 DEF Leased
<1>19. Lent(y, 0)
  <2>1. /\ \A i \in Leasing(path, 0) : Leased(x, path[i].edge, path[i].edgeGen) /\ path[i].edge # x.m.loose
        /\ \A i, j \in Leasing(path, 0) : path[i].edge = path[j].edge => i = j
        /\ x.m.loose # NoEdge => Leased(x, x.m.loose, x.m.looseGen)
        /\ x.m.leases = Cardinality(Leasing(path, 0)) + (IF x.m.loose = NoEdge THEN 0 ELSE 1)
        /\ \A e \in Bases : /\ g.edges[e].lease <= MaxWork
                            /\ x.policy.reserved[e] = Cardinality(Over(path, 0, e))
                                                        + (IF x.m.loose = e THEN 1 ELSE 0)
    BY <1>2 DEF Lent
  <2>2. \A i \in Leasing(path, 0) : road[i] = path[i] /\ path[i].edge # NoEdge
    BY <1>2, <1>11 DEF Leasing, Ahead
  <2>3. \A i \in Leasing(road, 0) :
           \/ i \in Leasing(path, 0)
           \/ i = last /\ x.m.loose # NoEdge /\ road[i].edge = x.m.loose /\ road[i].edgeGen = x.m.looseGen
    BY <1>4, <1>11
  <2>4. \A i \in Leasing(road, 0) : Leased(x, road[i].edge, road[i].edgeGen) /\ road[i].edge # NoEdge
    BY <2>1, <2>2, <2>3
  <2>5. \A i, j \in Leasing(road, 0) : road[i].edge = road[j].edge => i = j
    BY <2>1, <2>2, <2>3
  <2>6. y.m.leases = Cardinality(Leasing(road, 0)) + 0
    <3>1. Cardinality(Leasing(path, 0)) + (IF x.m.loose = NoEdge THEN 0 ELSE 1)
            = Cardinality(Leasing(road, 0))
      BY <1>4, <1>11
    <3>2. x.m.leases \in Int
      BY SMTT(30), <1>2 DEF Records
    <3> QED
      BY <3>1, <3>2, <2>1, <1>14
  <2>7. ASSUME NEW e \in Bases
        PROVE  /\ y.m.graph.edges[e].lease <= MaxWork
               /\ y.policy.reserved[e] = Cardinality(Over(road, 0, e)) + (IF NoEdge = e THEN 1 ELSE 0)
    <3>1. NoEdge # e
      BY DEF NoEdge, Bases
    <3>2. x.policy.reserved[e] = Cardinality(Over(road, 0, e))
      BY <2>1, <1>4, <1>11
    <3>3. x.policy.reserved[e] \in Int
      BY <1>2 DEF Policies
    <3> QED
      BY <3>1, <3>2, <3>3, <2>1, <1>7, <1>13, <1>14
  <2> HIDE DEF g, n, path
  <2> QED
    BY <2>4, <2>5, <2>6, <2>7, <1>14, <1>18 DEF Lent
<1>20. Noted(y, 0)
  BY <1>2, <1>4, <1>7, <1>11, <1>14 DEF Noted
<1>21. Threaded(y)
  <2>1. ASSUME NEW i \in Leasing(road, 0)
        PROVE  i > 1 /\ road[i].edge \in Candidates(h, road[i - 1].node)
    <3>1. CASE i \in Leasing(path, 0)
      <4>1. i \in 1 .. N /\ i > 1 /\ path[i].edge \in Candidates(g, path[i - 1].node)
        BY <3>1, <1>2, <1>10 DEF Leasing, Ahead
      <4>2. i - 1 \in 1 .. N
        BY <4>1, <1>2
      <4>3. road[i] = path[i] /\ road[i - 1] = path[i - 1] /\ path[i - 1].node \in Slots
        <5>1. path[i - 1] \in Occurrences
          BY <4>2, <1>2
        <5> QED
          BY SMTT(30), <5>1, <4>1, <4>2, <1>11 DEF Occurrences
      <4> QED
        BY <4>1, <4>3, <1>13
    <3>2. CASE i \notin Leasing(path, 0)
      <4>1. i = last /\ x.m.loose # NoEdge /\ road[i].edge = x.m.loose
        BY <3>2, <1>4, <1>11
      <4>2. path # <<>> /\ x.m.loose \in Candidates(g, path[N].node)
        BY <4>1, <1>10
      <4>3. N \in 1 .. N /\ N = i - 1 /\ i > 1
        <5> HIDE DEF path
        <5>1. Len(path) # 0
          BY <4>2, <1>2
        <5> QED
          BY <5>1, <4>1, <1>2
      <4>4. road[N] = path[N] /\ path[N].node \in Slots
        <5>1. path[N] \in Occurrences
          BY <4>3, <1>2
        <5> QED
          BY <5>1, <4>3, <1>11 DEF Occurrences
      <4> QED
        BY <4>1, <4>2, <4>3, <4>4, <1>13
    <3> QED
      BY <3>1, <3>2
  <2> HIDE DEF g, n, path
  <2> QED
    BY <2>1, <1>14 DEF Threaded
<1>22. Books(y, 0)
  <2>1. Len(road) <= PathDepth /\ 0 \in 0 .. Len(road)
    <3>1. PathDepth \in Nat
      BY ProgressAssumption
    <3> QED
      BY <3>1, <1>2, <1>11
  <2> HIDE DEF g, n, path
  <2> QED
    BY <2>1, <1>13, <1>14, <1>15, <1>17, <1>19, <1>20 DEF Books
<1>23. Rooted(y)
  BY <1>1, <1>13, <1>14, <1>16 DEF Rooted
<1>24. \A i \in DOMAIN y.m.path : ~y.m.path[i].prepared
  <2>1. DOMAIN road = 1 .. last
    <3> HIDE DEF path
    <3> QED
      BY <1>11
  <2>2. \A i \in 1 .. last : i \in 1 .. N \/ i = last
    BY <1>2
  <2> QED
    BY <2>1, <2>2, <1>4, <1>10, <1>11, <1>14
<1>25. Kempt(y)
  BY <1>1, <1>14, <1>21, <1>22, <1>23, <1>24 DEF Kempt
<1>26. road # <<>>
  <2>1. Len(<<>>) = 0 /\ last # 0
    BY <1>2
  <2> QED
    BY <2>1, <1>11
<1>27. last \notin Leasing(path, 0) /\ \A i \in Leasing(path, 0) : i \in 1 .. N
  <2>1. Ahead(path, 0) = 1 .. N
    BY DEF Ahead
  <2> QED
    BY <2>1, <1>11 DEF Leasing
<1> HIDE DEF path, g, n
<1>28. Lengthened(x, y)
  BY SMTT(30), <1>4, <1>11, <1>13, <1>14, <1>27 DEF Lengthened, g, n, path
<1>29. Onward(x, y)
  BY SMTT(30), <1>4, <1>11, <1>13, <1>14, <1>25, <1>26 DEF Onward, g, n, path
<1> QED
  BY <1>29, <1>28 DEF y

-----------------------------------------------------------------------------
(* An edge is reserved.                                                    *)

\* What a reservation changes.
Bound(x, y, e) ==
    /\ Kempt(y) /\ y.m.work = x.m.work /\ y.m.asked = x.m.asked /\ y.m.loose = e
    /\ y.m.path = x.m.path
    /\ Loaned(x.m.graph, y.m.graph, e, x.m.work)

\* An edge of the last node of the path is leased: no occurrence holds it, because
\* their edges are candidates of other nodes.
LEMMA ReservedLemma ==
    ASSUME NEW x, Kempt(x), x.m.work # 0, x.m.loose = NoEdge, x.m.path # <<>>,
           NEW n, n = x.m.path[Len(x.m.path)].node,
           \A i \in 1 .. Len(x.m.path) - 1 :
              x.m.graph.nodes[x.m.path[i].node].state # x.m.graph.nodes[n].state,
           NEW e \in Candidates(x.m.graph, n)
    PROVE  Bound(x, Reserved(x, e), e)
<1> DEFINE g == x.m.graph
           path == x.m.path
           N == Len(path)
           work == x.m.work
           h == [g EXCEPT !.edges[e].lease = work]
           leases == x.m.leases + 1
           reserved == [x.policy.reserved EXCEPT ![e] = @ + 1]
           gen == g.edges[e].gen
           y == Reserved(x, e)
<1>1. /\ Books(x, 0) /\ Threaded(x) /\ Rooted(x) /\ (\A i \in DOMAIN path : ~path[i].prepared)
      /\ x.m.begun = x.m.ended + (IF work = 0 THEN 0 ELSE 1)
  BY SMTT(30) DEF Kempt
<1>2. /\ x \in Situations /\ x.m \in Records /\ x.policy \in Policies
      /\ x.policy.reserved \in [Bases -> Int] /\ x.m.leases \in Int
      /\ work \in 0 .. MaxWork /\ MaxWork \in Nat /\ work \in Nat
      /\ GraphInv(g) /\ g \in Graphs /\ g.nodes \in [Slots -> Nodes] /\ g.edges \in [Bases -> Edges]
      /\ 0 \in 0 .. N /\ N <= PathDepth /\ path \in Seq(Occurrences) /\ N \in Nat
      /\ Ahead(path, 0) = 1 .. N /\ \A i \in 1 .. N : path[i] \in Occurrences
      /\ Guarded(x, 0) /\ Lent(x, 0) /\ Noted(x, 0)
  <2>1. MaxWork \in Nat
    BY SMTT(30), ProgressAssumption
  <2>2. x \in Situations /\ GraphInv(g) /\ 0 \in 0 .. N /\ N <= PathDepth
        /\ Guarded(x, 0) /\ Lent(x, 0) /\ Noted(x, 0)
    BY SMTT(30), <1>1 DEF Books
  <2>3. path \in Seq(Occurrences) /\ N \in Nat /\ Ahead(path, 0) = 1 .. N
        /\ \A i \in 1 .. N : path[i] \in Occurrences
    BY SMTT(30), <2>2, PathType DEF Ahead
  <2>4. x.m \in Records /\ x.policy \in Policies
    BY SMTT(30), <2>2 DEF Situations
  <2>5. /\ x.policy.reserved \in [Bases -> Int] /\ x.m.leases \in Int /\ work \in 0 .. MaxWork
    BY SMTT(30), <2>4 DEF Records, Policies
  <2>6. g \in Graphs
    BY ZenonT(30), <2>2 DEF GraphInv
  <2>7. g.nodes \in [Slots -> Nodes] /\ g.edges \in [Bases -> Edges]
    BY ONLY SMTT(30), <2>6 DEF Graphs
  <2>8. work \in Nat
    BY ONLY SMTT(30), <2>1, <2>5
  <2> HIDE DEF g, path, work
  <2> QED
    BY ONLY ZenonT(30), <2>1, <2>2, <2>3, <2>4, <2>5, <2>6, <2>7, <2>8
<1>3. N \in 1 .. N
  <2> HIDE DEF path
  <2>1. Len(path) # 0
    BY SMTT(30), <1>2 DEF path
  <2> QED
    BY SMTT(30), <2>1, <1>2
<1>4. \A i \in 1 .. N : path[i].node \in LiveOf(g) /\ path[i].node \in Slots
  <2>1. ASSUME NEW i \in 1 .. N PROVE path[i].node \in LiveOf(g) /\ path[i].node \in Slots
    <3>1. Valid(g, path[i].node, path[i].gen)
      BY ZenonT(60), <1>2 DEF Guarded
    <3>2. path[i] \in Occurrences
      BY ZenonT(30), <1>2
    <3>3. path[i].node \in Slots
      BY ONLY SMTT(30), <3>2 DEF Occurrences
    <3> QED
      BY ZenonT(60), <3>1, <3>3 DEF Valid, LiveOf
  <2> QED
    BY SMTT(30), <2>1
<1>5. n \in LiveOf(g) /\ n \in Slots /\ Candidates(g, n) \subseteq Bases /\ e \in Bases
  <2>1. n \in LiveOf(g) /\ n \in Slots
    BY SMTT(30), <1>3, <1>4
  <2> QED
    BY SMTT(30), <2>1, <1>2, CandidatesLemma
<1>6. \A i \in Leasing(path, 0) : path[i].edge # e /\ i \in 1 .. N
  <2>1. ASSUME NEW i \in Leasing(path, 0) PROVE path[i].edge # e /\ i \in 1 .. N
    <3>1. i \in 1 .. N /\ i > 1 /\ path[i].edge \in Candidates(g, path[i - 1].node)
      BY SMTT(30), <1>1, <1>2 DEF Threaded, Leasing
    <3>2. i - 1 \in 1 .. N /\ i - 1 \in 1 .. N - 1
      BY SMTT(30), <3>1, <1>2
    <3>3. path[i - 1].node \in LiveOf(g) \ {n}
      BY SMTT(30), <3>2, <1>4
    <3>4. Candidates(g, path[i - 1].node) \cap Candidates(g, n) = {}
      BY SMTT(30), <3>3, <1>2, <1>5, CandidatesLemma
    <3> QED
      BY SMTT(30), <3>1, <3>4
  <2> QED
    BY SMTT(30), <2>1
<1>7. y = [x EXCEPT !.m.graph = h, !.m.leases = leases, !.policy.reserved = reserved,
                    !.m.loose = e, !.m.looseGen = gen]
  BY SMTT(30), <1>2 DEF Reserved, Situations
<1>8. gen \in Gens /\ leases \in Int /\ reserved \in [Bases -> Int]
      /\ \A b \in Bases : reserved[b] = x.policy.reserved[b] + (IF b = e THEN 1 ELSE 0)
  BY SMTT(30), <1>2, <1>5 DEF Edges
<1>9. Loaned(g, h, e, work)
  <2>1. h = [g EXCEPT !.edges[e].lease = work] /\ GraphInv(g) /\ work \in Nat /\ e \in Bases
    BY SMTT(30), <1>2, <1>5
  <2> HIDE DEF g, h, work
  <2> QED
    BY <2>1, LeaseEdit
<1> HIDE DEF h, leases, reserved, y
<1>10. /\ GraphInv(h) /\ \A k \in Slots : Candidates(h, k) = Candidates(g, k)
       /\ h.root = g.root /\ h.rootGen = g.rootGen /\ h.nodes = g.nodes /\ h.high = g.high
       /\ \A b \in Bases : h.edges[b].gen = g.edges[b].gen /\ (b # e => h.edges[b] = g.edges[b])
       /\ h.edges[e].lease = work /\ h.edges[e].gen = gen
  BY SMTT(30), <1>5, <1>9 DEF Loaned
<1> HIDE DEF gen
<1>11. /\ y.m = [x.m EXCEPT !.graph = h, !.leases = leases, !.loose = e, !.looseGen = gen]
       /\ y.policy = [x.policy EXCEPT !.reserved = reserved] /\ y = [m |-> y.m, policy |-> y.policy]
  BY <1>2, <1>7 DEF Situations
<1>12. /\ y.m \in Records /\ y.m.graph = h /\ y.m.path = path /\ y.m.loose = e /\ y.m.looseGen = gen
       /\ y.m.leases = leases /\ y.m.work = work /\ y.m.begun = x.m.begun
       /\ y.m.ended = x.m.ended /\ y.m.asked = x.m.asked
       /\ y.m.evaluations = x.m.evaluations /\ y.m.protections = x.m.protections
  <2>1. x.m \in Records /\ h \in Graphs /\ leases \in Int /\ gen \in Gens /\ e \in Bases \cup {NoEdge}
    BY ZenonT(60), <1>2, <1>5, <1>8, <1>10 DEF GraphInv
  <2> QED
    BY ONLY ZenonT(60), <2>1, <1>11 DEF Records
<1>13. y.policy \in Policies /\ y.policy.reserved = reserved /\ y.policy.prepared = x.policy.prepared
  BY <1>2, <1>8, <1>11 DEF Policies
<1>14. y \in Situations
  BY <1>11, <1>12, <1>13 DEF Situations
<1>15. e # NoEdge
  BY SMTT(30), <1>5 DEF NoEdge, Bases
<1>16. \A k, t : Valid(h, k, t) <=> Valid(g, k, t)
  BY SMTT(30), <1>10 DEF Valid
<1>17. Guarded(y, 0)
  <2>1. \A k : h.nodes[k] = g.nodes[k]
    BY SMTT(30), <1>10
  <2>2. Guarded(x, 0)
    BY SMTT(30), <1>2
  <2> QED
    BY SMTT(30), <2>1, <2>2, <1>12, <1>16 DEF Guarded
<1>18. Lent(y, 0)
  <2>1. /\ \A i \in Leasing(path, 0) : Leased(x, path[i].edge, path[i].edgeGen)
        /\ \A i, j \in Leasing(path, 0) : path[i].edge = path[j].edge => i = j
        /\ x.m.leases = Cardinality(Leasing(path, 0)) + (IF x.m.loose = NoEdge THEN 0 ELSE 1)
        /\ \A b \in Bases : /\ g.edges[b].lease <= MaxWork
                            /\ x.policy.reserved[b] = Cardinality(Over(path, 0, b))
                                                        + (IF x.m.loose = b THEN 1 ELSE 0)
    BY SMTT(30), <1>2 DEF Lent
  <2>2. \A i \in Leasing(path, 0) : path[i].edge \in Bases
    BY SMTT(30), <1>2, <1>6 DEF Occurrences, Leasing
  <2>3. \A b \in Bases : \A t : b # e /\ Leased(x, b, t) => Leased(y, b, t)
    BY SMTT(30), <1>10, <1>12 DEF Leased
  <2>4. \A i \in Leasing(path, 0) : Leased(y, path[i].edge, path[i].edgeGen) /\ path[i].edge # e
    BY SMTT(30), <2>1, <2>2, <2>3, <1>6
  <2>5. Leased(y, e, gen)
    BY SMTT(30), <1>10, <1>12 DEF Leased
  <2>6. Cardinality(Leasing(path, 0)) = x.m.leases
    <3>1. IsFiniteSet(1 .. N)
      BY SMTT(30), <1>2, FS_Interval
    <3>2. Leasing(path, 0) \subseteq 1 .. N
      BY <1>6
    <3>3. Cardinality(Leasing(path, 0)) \in Nat
      BY SMTT(30), <3>1, <3>2, FS_Subset, FS_CardinalityType
    <3> QED
      BY SMTT(30), <3>3, <2>1
  <2>7. y.m.leases = Cardinality(Leasing(path, 0)) + 1
    BY SMTT(30), <2>6, <1>12 DEF leases
  <2>8. ASSUME NEW b \in Bases
        PROVE  /\ h.edges[b].lease <= MaxWork
               /\ y.policy.reserved[b] = Cardinality(Over(path, 0, b)) + (IF e = b THEN 1 ELSE 0)
    <3>1. h.edges[b].lease <= MaxWork
      BY SMTT(30), <2>1, <1>2, <1>10
    <3>2. Cardinality(Over(path, 0, b)) = x.policy.reserved[b]
      <4>1. IsFiniteSet(1 .. N) /\ Over(path, 0, b) \subseteq 1 .. N
        <5>0. N \in Int /\ 1 \in Int
          BY SMTT(30), <1>2
        <5>1. IsFiniteSet(1 .. N)
          BY ONLY SMTT(30), <5>0, FS_Interval
        <5>2. Over(path, 0, b) \subseteq 1 .. N
          BY SMTT(30), <1>2 DEF Over
        <5> QED
          BY SMTT(30), <5>1, <5>2
      <4>2. Cardinality(Over(path, 0, b)) \in Nat
        BY SMTT(30), <4>1, FS_Subset, FS_CardinalityType
      <4>3. b # NoEdge
        BY SMTT(30) DEF NoEdge, Bases
      <4> QED
        BY SMTT(30), <4>2, <4>3, <2>1
    <3> QED
      BY SMTT(30), <3>1, <3>2, <1>8, <1>13
  <2> HIDE DEF g, path
  <2> QED
    BY SMTT(30), <2>1, <2>4, <2>5, <2>7, <2>8, <1>12, <1>15 DEF Lent
<1>19. Noted(y, 0)
  BY SMTT(30), <1>2, <1>12, <1>13 DEF Noted
<1>20. Threaded(y)
  <2>1. \A i \in Leasing(path, 0) : i > 1 /\ path[i].edge \in Candidates(h, path[i - 1].node)
    <3>1. ASSUME NEW i \in Leasing(path, 0)
          PROVE  i > 1 /\ path[i].edge \in Candidates(h, path[i - 1].node)
      <4>1. i > 1 /\ path[i].edge \in Candidates(g, path[i - 1].node) /\ i \in 1 .. N
        BY SMTT(30), <1>1, <1>6 DEF Threaded
      <4>2. i - 1 \in 1 .. N
        BY SMTT(30), <4>1, <1>2
      <4> QED
        BY SMTT(30), <4>1, <4>2, <1>4, <1>10
    <3> QED
      BY SMTT(30), <3>1
  <2>2. e \in Candidates(h, path[N].node) /\ path # <<>>
    BY SMTT(30), <1>5, <1>10
  <2> HIDE DEF g, path
  <2> QED
    BY SMTT(30), <2>1, <2>2, <1>12 DEF Threaded
<1>21. Rooted(y)
  BY SMTT(30), <1>1, <1>10, <1>12, <1>16 DEF Rooted
<1>22. Books(y, 0)
  <2>1. GraphInv(y.m.graph) /\ 0 \in 0 .. Len(y.m.path) /\ Len(y.m.path) <= PathDepth
    <3>1. y.m.graph = h /\ y.m.path = path
      BY ONLY ZenonT(30), <1>12
    <3>2. GraphInv(h)
      BY ONLY ZenonT(30), <1>10
    <3>3. 0 \in 0 .. N /\ N <= PathDepth
      BY ONLY ZenonT(30), <1>2
    <3> HIDE DEF path
    <3> QED
      BY ONLY ZenonT(30), <3>1, <3>2, <3>3
  <2>2. y.m.work # 0
    BY ZenonT(30), <1>2, <1>12
  <2> QED
    BY ONLY ZenonT(30), <2>1, <2>2, <1>14, <1>17, <1>18, <1>19 DEF Books
<1>23. Kempt(y)
  BY <1>1, <1>12, <1>20, <1>21, <1>22 DEF Kempt
<1> QED
  BY SMTT(30), <1>9, <1>12, <1>23 DEF Bound, y

-----------------------------------------------------------------------------
(* The focus moves, and a node is evaluated.                               *)

\* The parts of the records that a change of the graph leaves alone.
Steady(x, y) ==
    /\ y.m.work = x.m.work /\ y.m.path = x.m.path /\ y.m.loose = x.m.loose
    /\ y.m.asked = x.m.asked /\ y.m.cur = x.m.cur

\* A call of the graph leaves the records kept.
LEMMA RegraphKempt ==
    ASSUME NEW x, Kempt(x), NEW h, GraphInv(h), Tended(x.m.graph, h), NEW y, y = [x EXCEPT !.m.graph = h]
    PROVE  Kempt(y) /\ Steady(x, y)
<1>1. x \in Situations /\ h \in Graphs
  BY DEF Kempt, Books, GraphInv
<1>2. Regraph(x, y, h)
  BY <1>1, RegraphLemma
<1>3. Books(y, 0) /\ Threaded(y) /\ Rooted(y)
  BY <1>2, KeptBooks DEF Kempt
<1> QED
  BY <1>2, <1>3 DEF Kempt, Regraph, Steady

\* The focus moves to a live node.
LEMMA CommitLemma ==
    ASSUME NEW x, Kempt(x), NEW n \in LiveOf(x.m.graph), NEW y,
           y = [x EXCEPT !.m.graph = Commit(@, n)]
    PROVE  Kempt(y) /\ Steady(x, y) /\ y.m.graph.edges = x.m.graph.edges
<1> DEFINE g == x.m.graph
           gen == g.nodes[n].gen
           h == [g EXCEPT !.root = n, !.rootGen = gen]
<1>1. /\ Books(x, 0) /\ Threaded(x) /\ Rooted(x) /\ x \in Situations /\ GraphInv(g) /\ g \in Graphs
      /\ Guarded(x, 0) /\ Lent(x, 0) /\ Noted(x, 0)
  BY DEF Kempt, Books, GraphInv
<1>2. y = [x EXCEPT !.m.graph = h]
  BY <1>1 DEF Commit, Situations, Records
<1>3. n \in Slots /\ gen \in Gens /\ g.nodes[n].pub /\ gen # 0 /\ n \in 0 .. g.high - 1
  <2>1. n \in Slots /\ g.nodes[n].pub /\ g.nodes[n] \in Nodes /\ g.high \in Nat
    BY SMTT(30), <1>1 DEF LiveOf, Graphs
  <2>2. n < g.high /\ gen > 0 /\ n \in Nat /\ gen \in Gens
    BY SMTT(30), <1>1, <2>1 DEF GraphInv, Slotted, Slots, Nodes
  <2> QED
    BY <2>1, <2>2 DEF Gens
<1> HIDE DEF gen
<1>4. /\ h \in Graphs /\ h.nodes = g.nodes /\ h.spans = g.spans /\ h.tt = g.tt /\ h.high = g.high
      /\ h.free = g.free /\ h.edges = g.edges /\ h.root = n /\ h.rootGen = gen
      /\ h.live = g.live /\ h.liveEdges = g.liveEdges
  BY <1>1, <1>3 DEF Graphs
<1> HIDE DEF h
<1>5. GraphInv(h) /\ \A k \in Slots : Candidates(h, k) = Candidates(g, k)
  <2>1. \A k \in Slots :
           /\ h.nodes[k].pub = g.nodes[k].pub /\ h.nodes[k].gen = g.nodes[k].gen
           /\ h.nodes[k].state = g.nodes[k].state /\ h.nodes[k].span = g.nodes[k].span
           /\ h.nodes[k].count = g.nodes[k].count /\ h.nodes[k].next = g.nodes[k].next
           /\ ~g.nodes[k].pub => /\ h.nodes[k].path = g.nodes[k].path
                                 /\ h.nodes[k].eval = g.nodes[k].eval
                                 /\ h.nodes[k].pin = g.nodes[k].pin
    BY <1>4
  <2>2. \A e \in Bases :
           /\ h.edges[e].pub = g.edges[e].pub /\ h.edges[e].parent = g.edges[e].parent
           /\ h.edges[e].parentGen = g.edges[e].parentGen
           /\ h.edges[e].child = g.edges[e].child /\ h.edges[e].childGen = g.edges[e].childGen
    BY <1>4
  <2> HIDE DEF g
  <2> QED
    BY ONLY <1>1, <1>4, <2>1, <2>2, Restyled
<1>6. Regraph(x, y, h)
  BY <1>1, <1>2, <1>4, RegraphLemma
<1>7. /\ y \in Situations /\ y.m.graph = h /\ y.policy = x.policy /\ y.m.path = x.m.path
      /\ y.m.work = x.m.work /\ y.m.begun = x.m.begun /\ y.m.ended = x.m.ended
      /\ y.m.loose = x.m.loose /\ y.m.looseGen = x.m.looseGen
      /\ y.m.cur = x.m.cur /\ y.m.asked = x.m.asked /\ y.m.protections = x.m.protections
      /\ y.m.evaluations = x.m.evaluations /\ y.m.leases = x.m.leases
  BY <1>6 DEF Regraph
<1>8. \A k, t : Valid(h, k, t) <=> Valid(g, k, t)
  BY <1>4 DEF Valid
<1>9. Guarded(y, 0)
  <2>1. \A k : h.nodes[k] = g.nodes[k]
    BY <1>4
  <2>2. Guarded(x, 0)
    BY <1>1
  <2> QED
    BY ONLY <2>1, <2>2, <1>7, <1>8 DEF Guarded
<1>10. Lent(y, 0)
  <2>1. \A e, t : Leased(y, e, t) <=> Leased(x, e, t)
    BY <1>4, <1>7 DEF Leased
  <2>2. y.m.graph.edges = x.m.graph.edges /\ Lent(x, 0)
    BY <1>1, <1>4, <1>7
  <2> QED
    BY ONLY <2>1, <2>2, <1>7 DEF Lent
<1>11. Noted(y, 0)
  BY <1>1, <1>7 DEF Noted
<1>12. Threaded(y)
  <2>1. /\ \A i \in Leasing(x.m.path, 0) : i > 1 /\ x.m.path[i].edge \in Candidates(g, x.m.path[i - 1].node)
        /\ x.m.loose # NoEdge => /\ x.m.path # <<>>
                                 /\ x.m.loose \in Candidates(g, x.m.path[Len(x.m.path)].node)
    BY <1>1 DEF Threaded
  <2>2. \A k : Candidates(h, k) = Candidates(g, k)
    BY <1>4 DEF Candidates
  <2> QED
    BY <1>7, <2>1, <2>2 DEF Threaded
<1>13. Rooted(y)
  <2>1. Valid(h, n, gen)
    BY <1>3, <1>4 DEF Valid, gen
  <2> QED
    BY <2>1, <1>4, <1>7 DEF Rooted
<1>14. Books(y, 0)
  BY <1>1, <1>5, <1>7, <1>9, <1>10, <1>11 DEF Books
<1> QED
  BY <1>4, <1>7, <1>12, <1>13, <1>14 DEF Kempt, Steady

\* ... whatever becomes of the announcement.
LEMMA FocusedLemma ==
    ASSUME NEW x, Kempt(x), NEW n \in LiveOf(x.m.graph), NEW y \in Focused(x, n)
    PROVE  Kempt(y) /\ y.m.work = x.m.work /\ y.m.path = x.m.path /\ y.m.loose = x.m.loose
           /\ y.m.asked = x.m.asked /\ y.m.graph.edges = x.m.graph.edges
<1> DEFINE moved == [x EXCEPT !.m.graph = Commit(@, n)]
<1>1. Kempt(moved) /\ Steady(x, moved) /\ moved.m.graph.edges = x.m.graph.edges
  BY CommitLemma
<1>2. y = x \/ y = moved \/ y = Stop(moved, 11)
  BY DEF Focused
<1> HIDE DEF moved
<1>3. LET z == Stop(moved, 11) IN
      Kempt(z) /\ z.m.work = moved.m.work /\ z.m.path = moved.m.path /\ z.m.loose = moved.m.loose
      /\ z.m.asked = moved.m.asked /\ z.m.graph = moved.m.graph
  <2>1. 11 \in Causes /\ moved \in Situations
    BY <1>1 DEF Causes, Kempt, Books
  <2>2. Alike(moved, Stop(moved, 11)) /\ Stop(moved, 11).m.begun = moved.m.begun
        /\ Stop(moved, 11).m.ended = moved.m.ended
    BY <2>1, StopLemma
  <2> QED
    BY <1>1, <2>2, AlikeKempt DEF Alike
<1> QED
  BY <1>1, <1>2, <1>3 DEF Steady

\* What Evaluate makes of the records when the request is taken.
Sent(x, cur, y) ==
    y = [x EXCEPT !.m.graph.nodes[cur.node].eval = @ + 1, !.m.evaluations = @ + 1, !.m.asked = cur]

\* The node at the end of the path is put under evaluation.
LEMMA EvaluatedLemma ==
    ASSUME NEW x, Kempt(x), x.m.asked = NoHandle, NEW cur, cur = x.m.cur,
           Valid(x.m.graph, cur.node, cur.gen), NEW y, Sent(x, cur, y)
    PROVE  Kempt(y) /\ y.m.asked # NoHandle /\ y.m.work = x.m.work /\ y.m.path = x.m.path
           /\ y.m.loose = x.m.loose /\ y.m.graph.edges = x.m.graph.edges
<1> DEFINE g == x.m.graph
           n == cur.node
           more == g.nodes[n].eval + 1
           q == [g.nodes[n] EXCEPT !.eval = more]
           h == [g EXCEPT !.nodes = [g.nodes EXCEPT ![n] = q]]
           evaluations == x.m.evaluations + 1
<1>1. /\ Books(x, 0) /\ Threaded(x) /\ Rooted(x) /\ (\A i \in DOMAIN x.m.path : ~x.m.path[i].prepared)
      /\ x.m.begun = x.m.ended + (IF x.m.work = 0 THEN 0 ELSE 1)
  BY DEF Kempt
<1>2. /\ x \in Situations /\ x.m \in Records /\ x.policy \in Policies /\ x.m.evaluations \in Int
      /\ GraphInv(g) /\ g \in Graphs /\ g.nodes \in [Slots -> Nodes]
      /\ Guarded(x, 0) /\ Lent(x, 0) /\ Noted(x, 0)
  BY SMTT(30), <1>1 DEF Books, Situations, Records, GraphInv, Graphs
<1>3. n \in Slots /\ n \in LiveOf(g) /\ g.nodes[n] \in Nodes /\ cur \in Handles /\ cur # NoHandle
  <2>1. g.high \in 0 .. NodeCapacity /\ NodeCapacity \in Nat /\ NoNode \notin Slots
    BY <1>2, GraphConstants DEF Graphs
  <2>2. n \in Slots /\ g.nodes[n].pub
    <3>1. n \in 0 .. g.high - 1 /\ g.nodes[n].pub
      BY DEF Valid
    <3> QED
      BY ONLY <2>1, <3>1 DEF Slots
  <2>3. cur # NoHandle
    <3>1. SUFFICES ASSUME cur = NoHandle PROVE FALSE
      OBVIOUS
    <3>2. n = NoNode
      BY <3>1 DEF NoHandle
    <3> QED
      BY ONLY <2>1, <2>2, <3>2
  <2>4. cur \in Handles \cup {NoHandle}
    BY <1>2 DEF Records
  <2> QED
    BY <2>2, <2>3, <2>4, <1>2 DEF LiveOf
<1>4. /\ \A k \in Slots :
            /\ g.nodes[k].pin = 0 /\ g.nodes[k].path = Cardinality(At(x.m.path, 0, k))
            /\ g.nodes[k].eval = 0
      /\ x.m.evaluations = 0
      /\ x.m.protections = Len(x.m.path) - 0
      /\ \A i \in Ahead(x.m.path, 0) : Valid(g, x.m.path[i].node, x.m.path[i].gen)
  BY <1>2 DEF Guarded
<1>5. more = 1 /\ evaluations = 1
  <2>1. g.nodes[n].eval = 0 /\ x.m.evaluations = 0
    BY SMTT(30), <1>3, <1>4
  <2> HIDE DEF g, n
  <2> QED
    BY ONLY <2>1 DEF more, evaluations
<1>6. /\ q \in Nodes /\ q.pub = g.nodes[n].pub /\ q.gen = g.nodes[n].gen /\ q.state = g.nodes[n].state
      /\ q.span = g.nodes[n].span /\ q.count = g.nodes[n].count /\ q.next = g.nodes[n].next
      /\ q.path = g.nodes[n].path /\ q.pin = g.nodes[n].pin /\ q.eval = 1
  <2>1. g.nodes[n] \in Nodes
    BY SMTT(30), <1>3
  <2> HIDE DEF more
  <2> QED
    BY ONLY <2>1, <1>5 DEF Nodes, q
<1>7. y = [x EXCEPT !.m.graph = h, !.m.evaluations = evaluations, !.m.asked = cur]
  BY ZenonT(60), <1>2, <1>3 DEF Situations, Records, Graphs, Sent
<1>8. h = [g EXCEPT !.nodes = [g.nodes EXCEPT ![n] = q]]
  OBVIOUS
<1> HIDE DEF q, h, evaluations, more

<1>10. Dressed(g, h, n, q)
  <2>1. GraphInv(g) /\ n \in LiveOf(g) /\ q \in Nodes
    BY <1>2, <1>3, <1>6
  <2> HIDE DEF g, n
  <2> QED
    BY ONLY SMTT(30), <2>1, <1>6, <1>8, NodeEdit
<1>11. /\ y.m = [x.m EXCEPT !.graph = h, !.evaluations = evaluations, !.asked = cur]
       /\ y.policy = x.policy /\ y = [m |-> y.m, policy |-> y.policy]
  BY <1>2, <1>7 DEF Situations
<1>12. /\ GraphInv(h) /\ h.root = g.root /\ h.rootGen = g.rootGen /\ h.edges = g.edges /\ h.high = g.high
       /\ \A k \in Slots : k # n => h.nodes[k] = g.nodes[k]
       /\ h.nodes[n] = q
       /\ \A k \in Slots : /\ h.nodes[k].pub = g.nodes[k].pub /\ h.nodes[k].gen = g.nodes[k].gen
                           /\ Candidates(h, k) = Candidates(g, k)
  BY <1>10 DEF Dressed
<1>13. /\ y.m \in Records /\ y.m.graph = h /\ y.m.path = x.m.path
       /\ y.m.work = x.m.work /\ y.m.begun = x.m.begun /\ y.m.ended = x.m.ended
       /\ y.m.loose = x.m.loose /\ y.m.looseGen = x.m.looseGen /\ y.m.asked = cur
       /\ y.m.protections = x.m.protections /\ y.m.evaluations = evaluations
       /\ y.m.leases = x.m.leases
  <2>1. x.m \in Records /\ h \in Graphs /\ evaluations \in Int /\ cur \in Handles
    BY <1>2, <1>3, <1>5, <1>12 DEF GraphInv
  <2> QED
    BY ONLY ZenonT(60), <2>1, <1>11 DEF Records
<1>14. y \in Situations
  BY <1>2, <1>11, <1>13 DEF Situations
<1>15. \A k, gen : Valid(g, k, gen) => Valid(h, k, gen)
  <2>1. g.high \in 0 .. NodeCapacity /\ NodeCapacity \in Nat
    BY <1>2, GraphConstants DEF Graphs
  <2>2. \A k : k \in 0 .. g.high - 1 => k \in Slots
    BY <2>1 DEF Slots
  <2> QED
    BY <2>2, <1>12 DEF Valid
<1>16. ASSUME NEW k \in Slots
       PROVE  /\ h.nodes[k].pin = 0 /\ h.nodes[k].eval = IF n = k THEN 1 ELSE 0
              /\ h.nodes[k].path = Cardinality(At(x.m.path, 0, k))
  <2>1. CASE k = n
    BY ZenonT(60), <2>1, <1>4, <1>6, <1>12
  <2>2. CASE k # n
    BY <2>2, <1>4, <1>12
  <2> QED
    BY <2>1, <2>2
<1>17. Guarded(y, 0)
  <2>1. \A i \in Ahead(x.m.path, 0) : Valid(h, x.m.path[i].node, x.m.path[i].gen)
    BY <1>4, <1>15
  <2>2. Valid(h, cur.node, cur.gen)
    BY <1>15
  <2> HIDE DEF g
  <2> QED
    BY <2>1, <2>2, <1>3, <1>4, <1>5, <1>13, <1>16 DEF Guarded
<1>18. Lent(y, 0)
  <2>1. /\ y.m.graph.edges = x.m.graph.edges /\ y.m.path = x.m.path /\ y.m.loose = x.m.loose
        /\ y.m.looseGen = x.m.looseGen /\ y.m.work = x.m.work /\ y.m.leases = x.m.leases
        /\ y.policy = x.policy
    BY <1>11, <1>12, <1>13
  <2>2. Lent(x, 0)
    BY <1>2
  <2>3. \A e, gen : Leased(x, e, gen) <=> Leased(y, e, gen)
    BY <2>1 DEF Leased
  <2> QED
    BY ONLY SMTT(30), <2>1, <2>2, <2>3 DEF Lent
<1>19. Noted(y, 0)
  BY SMTT(30), <1>2, <1>11, <1>13 DEF Noted
<1>20. Books(y, 0)
  BY SMTT(30), <1>1, <1>12, <1>13, <1>14, <1>17, <1>18, <1>19 DEF Books
<1>21. Rooted(y)
  BY <1>1, <1>12, <1>13, <1>15 DEF Rooted
<1>22. Threaded(y)
  <2>1. /\ \A i \in Leasing(x.m.path, 0) : i > 1 /\ x.m.path[i].edge \in Candidates(g, x.m.path[i - 1].node)
        /\ x.m.loose # NoEdge => /\ x.m.path # <<>>
                                 /\ x.m.loose \in Candidates(g, x.m.path[Len(x.m.path)].node)
    BY <1>1 DEF Threaded
  <2>2. /\ Len(x.m.path) \in Nat /\ Ahead(x.m.path, 0) = 1 .. Len(x.m.path)
        /\ \A i \in 1 .. Len(x.m.path) : x.m.path[i].node \in Slots
        /\ (x.m.path # <<>> => Len(x.m.path) \in 1 .. Len(x.m.path))
    <3>1. /\ Len(x.m.path) \in Nat /\ x.m.path \in Seq(Occurrences)
          /\ \A i \in 1 .. Len(x.m.path) : x.m.path[i] \in Occurrences
      BY <1>2, PathType
    <3> DEFINE path == x.m.path
    <3> HIDE DEF path
    <3>2. path # <<>> => Len(path) \in 1 .. Len(path)
      BY <3>1 DEF path
    <3> QED
      BY <3>1, <3>2 DEF path, Ahead, Occurrences
  <2>3. \A i \in Leasing(x.m.path, 0) : i > 1 /\ x.m.path[i].edge \in Candidates(h, x.m.path[i - 1].node)
    <3>1. ASSUME NEW i \in Leasing(x.m.path, 0)
          PROVE  i > 1 /\ x.m.path[i].edge \in Candidates(h, x.m.path[i - 1].node)
      <4>1. i > 1 /\ i \in 1 .. Len(x.m.path) /\ i - 1 \in 1 .. Len(x.m.path)
        BY <2>1, <2>2 DEF Leasing
      <4> QED
        BY <4>1, <2>1, <2>2, <1>12
    <3> QED
      BY <3>1
  <2>4. x.m.loose # NoEdge => /\ x.m.path # <<>>
                              /\ x.m.loose \in Candidates(h, x.m.path[Len(x.m.path)].node)
    BY <2>1, <2>2, <1>12
  <2> HIDE DEF g
  <2> QED
    BY <2>3, <2>4, <1>13 DEF Threaded
<1>23. Kempt(y)
  BY <1>1, <1>13, <1>20, <1>21, <1>22 DEF Kempt
<1> QED
  BY <1>3, <1>12, <1>13, <1>23

-----------------------------------------------------------------------------
(* Marks, beginnings and descents.                                         *)

\* Causes, the drain mark and the cursor are noted without further effect.
LEMMA FinalLemma ==
    ASSUME NEW x \in Situations, NEW final \in BOOLEAN
    PROVE  LET y == [x EXCEPT !.m.final = final] IN
           Alike(x, y) /\ y.m.begun = x.m.begun /\ y.m.ended = x.m.ended
<1> DEFINE y == [x EXCEPT !.m.final = final]
<1>1. y.m = [x.m EXCEPT !.final = final] /\ y.policy = x.policy /\ y = [m |-> y.m, policy |-> y.policy]
  BY DEF Situations
<1>2. x.m \in Records /\ x.policy \in Policies
  BY DEF Situations
<1> HIDE DEF y
<1>3. /\ y.m \in Records /\ y.m.graph = x.m.graph /\ y.m.path = x.m.path
      /\ y.m.work = x.m.work /\ y.m.loose = x.m.loose /\ y.m.looseGen = x.m.looseGen
      /\ y.m.asked = x.m.asked /\ y.m.protections = x.m.protections
      /\ y.m.evaluations = x.m.evaluations /\ y.m.leases = x.m.leases
      /\ y.m.begun = x.m.begun /\ y.m.ended = x.m.ended
  BY ZenonT(60), <1>1, <1>2 DEF Records
<1>4. y \in Situations
  BY <1>1, <1>2, <1>3 DEF Situations
<1> QED
  BY <1>1, <1>3, <1>4 DEF Alike, y

\* The same for a first cause,
LEMMA FirstLemma ==
    ASSUME NEW x \in Situations, NEW first \in Causes, NEW final \in BOOLEAN
    PROVE  LET y == [x EXCEPT !.m.first = first, !.m.final = final] IN
           Alike(x, y) /\ y.m.begun = x.m.begun /\ y.m.ended = x.m.ended
<1> DEFINE y == [x EXCEPT !.m.first = first, !.m.final = final]
<1>0. y = [x EXCEPT !.m.first = first, !.m.final = final]
  OBVIOUS
<1> HIDE DEF y
<1>1. /\ y.m = [x.m EXCEPT !.first = first, !.final = final] /\ y.policy = x.policy
      /\ y = [m |-> y.m, policy |-> y.policy]
  BY <1>0 DEF Situations
<1>2. x.m \in Records /\ x.policy \in Policies
  BY DEF Situations
<1>3. /\ y.m \in Records /\ y.m.graph = x.m.graph /\ y.m.path = x.m.path
      /\ y.m.work = x.m.work /\ y.m.loose = x.m.loose /\ y.m.looseGen = x.m.looseGen
      /\ y.m.asked = x.m.asked /\ y.m.protections = x.m.protections
      /\ y.m.evaluations = x.m.evaluations /\ y.m.leases = x.m.leases
      /\ y.m.begun = x.m.begun /\ y.m.ended = x.m.ended
  BY ZenonT(60), <1>1, <1>2 DEF Records
<1>4. y \in Situations
  BY <1>1, <1>2, <1>3 DEF Situations
<1> QED
  BY <1>1, <1>3, <1>4 DEF Alike, y

\* for a cause of the drain
LEMMA DrainLemma ==
    ASSUME NEW x \in Situations, NEW drain \in Causes, NEW final \in BOOLEAN
    PROVE  LET y == [x EXCEPT !.m.final = final, !.m.drain = drain] IN
           Alike(x, y) /\ y.m.begun = x.m.begun /\ y.m.ended = x.m.ended
<1> DEFINE y == [x EXCEPT !.m.final = final, !.m.drain = drain]
<1>0. y = [x EXCEPT !.m.final = final, !.m.drain = drain]
  OBVIOUS
<1> HIDE DEF y
<1>1. /\ y.m = [x.m EXCEPT !.final = final, !.drain = drain] /\ y.policy = x.policy
      /\ y = [m |-> y.m, policy |-> y.policy]
  BY <1>0 DEF Situations
<1>2. x.m \in Records /\ x.policy \in Policies
  BY DEF Situations
<1>3. /\ y.m \in Records /\ y.m.graph = x.m.graph /\ y.m.path = x.m.path
      /\ y.m.work = x.m.work /\ y.m.loose = x.m.loose /\ y.m.looseGen = x.m.looseGen
      /\ y.m.asked = x.m.asked /\ y.m.protections = x.m.protections
      /\ y.m.evaluations = x.m.evaluations /\ y.m.leases = x.m.leases
      /\ y.m.begun = x.m.begun /\ y.m.ended = x.m.ended
  BY ZenonT(60), <1>1, <1>2 DEF Records
<1>4. y \in Situations
  BY <1>1, <1>2, <1>3 DEF Situations
<1> QED
  BY <1>1, <1>3, <1>4 DEF Alike, y

\* and for the node to go to.
LEMMA CursorLemma ==
    ASSUME NEW x \in Situations, NEW cur \in Handles
    PROVE  LET y == [x EXCEPT !.m.cur = cur] IN
           Alike(x, y) /\ y.m.begun = x.m.begun /\ y.m.ended = x.m.ended
           /\ y.m.cur = cur
<1> DEFINE y == [x EXCEPT !.m.cur = cur]
<1>1. y.m = [x.m EXCEPT !.cur = cur] /\ y.policy = x.policy /\ y = [m |-> y.m, policy |-> y.policy]
  BY DEF Situations
<1>2. x.m \in Records /\ x.policy \in Policies
  BY DEF Situations
<1> HIDE DEF y
<1>3. /\ y.m \in Records /\ y.m.graph = x.m.graph /\ y.m.path = x.m.path
      /\ y.m.work = x.m.work /\ y.m.loose = x.m.loose /\ y.m.looseGen = x.m.looseGen
      /\ y.m.asked = x.m.asked /\ y.m.protections = x.m.protections
      /\ y.m.evaluations = x.m.evaluations /\ y.m.leases = x.m.leases
      /\ y.m.begun = x.m.begun /\ y.m.ended = x.m.ended /\ y.m.cur = cur
  BY ZenonT(60), <1>1, <1>2 DEF Records
<1>4. y \in Situations
  BY SMTT(30), <1>1, <1>2, <1>3 DEF Situations
<1> QED
  BY <1>1, <1>3, <1>4 DEF Alike, y

\* Work begins at the focus with nothing held.
LEMMA BegunLemma ==
    ASSUME NEW x, Kempt(x), x.m.work = 0, x.m.begun < MaxWork, NEW r,
           r = [x.m EXCEPT !.begun = @ + 1, !.work = x.m.begun + 1, !.loose = NoEdge,
                           !.cur = [node |-> x.m.graph.root, gen |-> x.m.graph.rootGen]],
           NEW y, y = [m |-> r, policy |-> x.policy]
    PROVE  Kempt(y) /\ y.m.work # 0 /\ y.m.asked = x.m.asked
<1> DEFINE next == x.m.begun + 1
           cur == [node |-> x.m.graph.root, gen |-> x.m.graph.rootGen]
<1>1. /\ Books(x, 0) /\ Rooted(x) /\ x \in Situations /\ x.m \in Records /\ x.policy \in Policies
      /\ GraphInv(x.m.graph) /\ x.m.graph \in Graphs
      /\ x.m.begun = x.m.ended + 0 /\ x.m.path = <<>> /\ x.m.loose = NoEdge
      /\ Guarded(x, 0) /\ Lent(x, 0) /\ Noted(x, 0)
  BY DEF Kempt, Books, Situations, GraphInv
<1>2. next \in 1 .. MaxWork /\ next # 0 /\ next = x.m.ended + 1
  <2>1. MaxWork \in Nat /\ x.m.begun \in 0 .. MaxWork /\ x.m.ended \in Int
    BY <1>1, ProgressAssumption DEF Records
  <2> QED
    BY <2>1, <1>1
<1>3. cur \in Handles
  <2>1. x.m.graph.root \in Slots /\ x.m.graph.rootGen \in Gens
    <3>1. x.m.graph.high \in 0 .. NodeCapacity /\ NodeCapacity \in Nat /\ x.m.graph.rootGen \in Gens
      BY <1>1, GraphConstants DEF Graphs
    <3>2. x.m.graph.root \in 0 .. x.m.graph.high - 1
      BY <1>1 DEF Rooted, Valid
    <3> QED
      BY <3>1, <3>2 DEF Slots
  <2> QED
    BY <2>1 DEF Handles, Gens, Generations
<1>4. y.m = [x.m EXCEPT !.begun = next, !.work = next, !.loose = NoEdge, !.cur = cur]
  BY <1>1 DEF Records
<1>5. y.policy = x.policy /\ y = [m |-> y.m, policy |-> y.policy]
  OBVIOUS
<1> HIDE DEF next, cur
<1>6. /\ y.m \in Records /\ y.m.graph = x.m.graph /\ y.m.path = x.m.path
      /\ y.m.work = next /\ y.m.loose = x.m.loose /\ y.m.looseGen = x.m.looseGen
      /\ y.m.asked = x.m.asked /\ y.m.protections = x.m.protections
      /\ y.m.evaluations = x.m.evaluations /\ y.m.leases = x.m.leases
      /\ y.m.begun = next /\ y.m.ended = x.m.ended
  <2>1. next \in 0 .. MaxWork /\ x.m \in Records /\ x.m.loose = NoEdge
    BY <1>1, <1>2
  <2> QED
    BY ONLY ZenonT(60), <2>1, <1>3, <1>4 DEF Records
<1>7. y \in Situations
  BY <1>1, <1>5, <1>6 DEF Situations
<1>8. Guarded(y, 0)
  <2>1. Guarded(x, 0)
    BY <1>1
  <2> QED
    BY ONLY <2>1, <1>6 DEF Guarded
<1>9. Lent(y, 0)
  <2>1. Leasing(<<>>, 0) = {}
    BY DEF Leasing, Ahead
  <2>2. Leasing(y.m.path, 0) = {}
    BY <2>1, <1>1, <1>6
  <2>3. y.m.loose = NoEdge
    BY <1>1, <1>6
  <2>4. Lent(x, 0)
    BY <1>1
  <2> QED
    BY ONLY <2>2, <2>3, <2>4, <1>5, <1>6 DEF Lent
<1>10. Noted(y, 0)
  BY SMTT(30), <1>1, <1>5, <1>6 DEF Noted
<1>11. Books(y, 0)
  BY SMTT(30), <1>1, <1>2, <1>6, <1>7, <1>8, <1>9, <1>10 DEF Books
<1>12. Threaded(y) /\ Rooted(y)
  BY ZenonT(60), <1>6 DEF Kempt, Threaded, Rooted
<1> QED
  BY ZenonT(60), <1>2, <1>6, <1>11, <1>12 DEF Kempt

\* A path that is followed on one graph is followed on the next, when its edges lead
\* where they led.
LEMMA SameFollowed ==
    ASSUME NEW x, Followed(x), NEW y, y.m.path = x.m.path,
           \A i \in Leasing(x.m.path, 0) : Leads(x.m.graph, y.m.graph, x.m.path[i].edge)
    PROVE  Followed(y)
  BY ZenonT(60) DEF Followed, Toward, Leads

\* The lease of another edge is of no matter,
LEMMA LoanFollowed ==
    ASSUME NEW x, Followed(x), NEW y, Kempt(y), y.m.path = x.m.path, NEW e, e = y.m.loose,
           NEW lease, Loaned(x.m.graph, y.m.graph, e, lease)
    PROVE  Followed(y)
<1>1. ASSUME NEW i \in Leasing(y.m.path, 0)
      PROVE  Leads(x.m.graph, y.m.graph, y.m.path[i].edge)
  <2>1. y.m.path[i].edge \in Bases \ {e}
    <3>1. y.m.path[i].edge # e
      BY <1>1 DEF Kempt, Books, Lent
    <3>2. y.m.path[i] \in Occurrences /\ y.m.path[i].edge # NoEdge
      BY <1>1, PathType DEF Kempt, Books, Leasing, Ahead
    <3> QED
      BY <3>1, <3>2 DEF Occurrences
  <2> QED
    BY <2>1 DEF Loaned, Leads
<1> QED
  BY <1>1, SameFollowed

\* and so is a call of the graph, which leads no edge of a protected node elsewhere,
\* but one that the path does not hold.
LEMMA SteeredFollowed ==
    ASSUME NEW x, Kempt(x), Followed(x), NEW y, y.m.path = x.m.path,
           NEW but, Steered(x.m.graph, y.m.graph, but),
           \A i \in Leasing(x.m.path, 0) : x.m.path[i].edge \notin but
    PROVE  Followed(y)
<1> DEFINE g == x.m.graph
           path == x.m.path
<1>1. Books(x, 0) /\ Threaded(x) /\ Guarded(x, 0) /\ x \in Situations
  BY DEF Kempt, Books
<1>2. /\ Len(path) \in Nat /\ Ahead(path, 0) = 1 .. Len(path) /\ IsFiniteSet(Ahead(path, 0))
      /\ \A i \in 1 .. Len(path) : path[i] \in Occurrences
  BY SMTT(30), <1>1, PathType, FS_Interval DEF Ahead
<1>3. ASSUME NEW i \in Leasing(path, 0)
      PROVE  Leads(g, y.m.graph, path[i].edge)
  <2>1. i > 1 /\ i \in 1 .. Len(path) /\ path[i].edge \in Candidates(g, path[i - 1].node)
    BY <1>1, <1>2 DEF Threaded, Leasing
  <2>2. i - 1 \in Ahead(path, 0) /\ path[i - 1] \in Occurrences
    BY <2>1, <1>2
  <2> DEFINE n == path[i - 1].node
             S == At(path, 0, n)
  <2>3. n \in Slots
    BY <2>2 DEF Occurrences
  <2>4. i - 1 \in S /\ IsFiniteSet(S)
    BY <2>2, <1>2, FS_Subset DEF At
  <2>5. g.nodes[n].path = Cardinality(S) /\ Valid(g, n, path[i - 1].gen)
    BY <1>1, <2>2, <2>3 DEF Guarded
  <2> HIDE DEF S
  <2>6. Cardinality(S) # 0
    BY <2>4, FS_EmptySet
  <2>7. g.nodes[n].pub /\ Protected(g, n)
    BY ZenonT(60), <2>3, <2>5, <2>6 DEF Protected, Valid
  <2>8. path[i].edge \in Candidates(g, n) \ but
    BY <2>1
  <2> HIDE DEF n, g, path
  <2> QED
    BY <2>3, <2>7, <2>8 DEF Steered, g
<1> QED
  BY <1>3, SameFollowed

\* A push takes the loose edge on the path with the node it leads to.
LEMMA PushedJoined ==
    ASSUME NEW x, Joined(x), NEW y, Lengthened(x, y)
    PROVE  Followed(y)
<1>1. ASSUME NEW i \in Leasing(y.m.path, 0)
      PROVE  Toward(y.m.graph, y.m.path[i].edge, y.m.path[i].node, y.m.path[i].gen)
  <2>1. y.m.path[i].edge # NoEdge
    BY SMTT(30), <1>1 DEF Leasing
  <2>2. CASE i \in Leasing(x.m.path, 0)
    BY ZenonT(60), <2>2 DEF Lengthened, Joined, Followed, Toward
  <2>3. CASE i = Len(x.m.path) + 1
    BY ZenonT(60), <2>1, <2>3 DEF Lengthened, Joined, Toward
  <2> QED
    BY <1>1, <2>2, <2>3 DEF Lengthened
<1> QED
  BY <1>1 DEF Followed

\* What Descend makes of the records, and when: y after the reservation, got the
\* step of the graph and z the records with it.
Going(x, e, disposition, retires, y, got, z) ==
    /\ x.m.work # 0 /\ Len(x.m.path) < PathDepth
    /\ Valid(x.m.graph, x.m.cur.node, x.m.cur.gen) /\ ~Related(Pushed(x))
    /\ e \in Candidates(x.m.graph, x.m.cur.node) /\ disposition \in 0 .. 3 /\ retires \in BOOLEAN
    /\ y = Reserved(Pushed(x), e)
    /\ got = Realize(y.m.graph, e, disposition, retires)
    /\ z = [y EXCEPT !.m.graph = got.graph]

\* One edge further: the child that is found or made, or a refusal, leaves the
\* records kept.
LEMMA DescentLemma ==
    ASSUME NEW x, Kempt(x), NEW e, NEW disposition, NEW retires, NEW y, NEW got, NEW z,
           Going(x, e, disposition, retires, y, got, z)
    PROVE  /\ Kempt(z) /\ z.m.work = x.m.work /\ z.m.asked = x.m.asked
           /\ got.slot # NoNode => got.slot \in LiveOf(got.graph)
           /\ GraphInv(got.graph) /\ z.m.graph = got.graph
           /\ z.m.loose = e /\ z.m.path = Pushed(x).m.path
           /\ got.slot # NoNode =>
                 Toward(got.graph, e, got.slot, got.graph.nodes[got.slot].gen)
           /\ Followed(Pushed(x)) => Followed(z)
<1> USE DEF Going
<1> DEFINE p == Pushed(x)
           n == x.m.cur.node
           N == Len(p.m.path)
<1>1. Onward(x, p)
  BY PushedLemma
<1>2. y = Reserved(p, e) /\ ~Related(p)
  BY SMTT(30)
<1> HIDE DEF p
<1>3. /\ Kempt(p) /\ p.m.work = x.m.work /\ p.m.loose = NoEdge /\ p.m.asked = x.m.asked
      /\ p.m.cur = x.m.cur /\ p.m.path # <<>> /\ p.m.path[N].node = n
      /\ p.m.graph.high = x.m.graph.high
      /\ \A k \in Slots : /\ Candidates(p.m.graph, k) = Candidates(x.m.graph, k)
                          /\ p.m.graph.nodes[k].pub = x.m.graph.nodes[k].pub
  BY SMTT(30), <1>1 DEF Onward
<1>4. n \in LiveOf(p.m.graph) /\ n \in Slots /\ e \in Candidates(p.m.graph, n)
  <2>1. x.m.graph.high \in 0 .. NodeCapacity /\ NodeCapacity \in Nat
    BY GraphConstants DEF Kempt, Books, GraphInv, Graphs
  <2>2. n \in 0 .. x.m.graph.high - 1 /\ x.m.graph.nodes[n].pub
    BY DEF Valid
  <2>3. n \in Slots
    BY ONLY SMTT(30), <2>1, <2>2 DEF Slots
  <2> QED
    BY <2>2, <2>3, <1>3 DEF LiveOf
<1>5. \A i \in 1 .. N - 1 : p.m.graph.nodes[p.m.path[i].node].state # p.m.graph.nodes[n].state
  BY ZenonT(60), <1>2, <1>3 DEF Related
<1> HIDE DEF N
<1>6. Bound(p, y, e)
  <2>1. p.m.work # 0 /\ n = p.m.path[Len(p.m.path)].node
        /\ \A i \in 1 .. Len(p.m.path) - 1 :
              p.m.graph.nodes[p.m.path[i].node].state # p.m.graph.nodes[n].state
    BY ZenonT(60), <1>3, <1>5 DEF N
  <2> HIDE DEF n
  <2> QED
    BY ZenonT(60), <2>1, <1>2, <1>3, <1>4, ReservedLemma
<1>7. /\ Kempt(y) /\ y.m.work = x.m.work /\ y.m.asked = x.m.asked
      /\ n \in LiveOf(y.m.graph) /\ e \in Candidates(y.m.graph, n) /\ GraphInv(y.m.graph)
  BY SMTT(30), <1>3, <1>4, <1>6 DEF Bound, Loaned
<1> HIDE DEF n
<1>8. /\ GraphInv(got.graph) /\ Tended(y.m.graph, got.graph) /\ Steered(y.m.graph, got.graph, {e})
      /\ got.slot # NoNode => got.slot \in LiveOf(got.graph)
      /\ got.slot # NoNode => Toward(got.graph, e, got.slot, got.graph.nodes[got.slot].gen)
  <2>1. PICK g : g = y.m.graph
    OBVIOUS
  <2>2. /\ GraphInv(g) /\ n \in LiveOf(g) /\ e \in Candidates(g, n) /\ disposition \in 0 .. 3
        /\ retires \in BOOLEAN /\ got = Realize(g, e, disposition, retires)
    BY <1>7, <2>1
  <2>3. /\ GraphInv(got.graph) /\ Tended(g, got.graph) /\ Steered(g, got.graph, {e})
        /\ got.slot # NoNode =>
              /\ got.slot \in LiveOf(got.graph)
              /\ got.graph.edges[e].child = got.slot
              /\ got.graph.edges[e].childGen = got.graph.nodes[got.slot].gen
    BY ONLY <2>2, RealizeLemma
  <2> QED
    BY <2>1, <2>3 DEF Toward
<1>9. Kempt(z) /\ Steady(y, z) /\ z.m.graph = got.graph
  <2>1. PICK h : h = got.graph
    OBVIOUS
  <2>2. Kempt(y) /\ GraphInv(h) /\ Tended(y.m.graph, h)
    BY <1>7, <1>8, <2>1
  <2>3. z = [y EXCEPT !.m.graph = h]
    BY <2>1
  <2>4. Kempt(z) /\ Steady(y, z)
    BY ONLY <2>2, <2>3, RegraphKempt
  <2>5. z.m = [y.m EXCEPT !.graph = h] /\ y.m \in Records
    BY <2>2, <2>3 DEF Kempt, Books, Situations
  <2>6. z.m.graph = h
    BY ONLY <2>5 DEF Records
  <2> QED
    BY <2>1, <2>4, <2>6
<1>10. y.m.loose = e /\ y.m.path = p.m.path /\ z.m.loose = e /\ z.m.path = p.m.path
  BY SMTT(30), <1>6, <1>9 DEF Bound, Steady
<1>11. ASSUME Followed(p)
       PROVE  Followed(z)
  <2>1. Loaned(p.m.graph, y.m.graph, e, p.m.work)
    BY <1>6 DEF Bound
  <2>2. Followed(y)
    BY <1>7, <1>10, <1>11, <2>1, LoanFollowed
  <2>3. \A i \in Leasing(y.m.path, 0) : y.m.path[i].edge \notin {e}
    BY <1>7, <1>10 DEF Kempt, Books, Lent
  <2> QED
    BY <1>7, <1>8, <1>9, <2>2, <2>3, SteeredFollowed DEF Steady
<1> QED
  BY ZenonT(60), <1>3, <1>7, <1>8, <1>9, <1>10, <1>11 DEF Steady, p

-----------------------------------------------------------------------------
(* The actions.                                                            *)

\* A situation that is kept is one the variables may take.
LEMMA BecomesLemma ==
    ASSUME NEW y, Kempt(y), Becomes(y)
    PROVE  Kempt(X)' /\ m' = y.m /\ policy' = y.policy /\ (Joined(y) => Joined(X)')
<1>1. y \in Situations
  BY DEF Kempt, Books
<1>2. X' = y
  BY <1>1 DEF X, Becomes, Situations
<1>3. Kempt(X') /\ (Joined(y) => Joined(X'))
  BY <1>2
<1> QED
  BY <1>3 DEF Becomes

\* The relations of the control state, for records that are kept.
LEMMA Arrival ==
    ASSUME IInv, NEW y, Kempt(y), Becomes(y),
           pc' \in {"control", "body", "controller", "advance", "descend", "repeat", "over"},
           request' \in {"free", "queued", "ready", "failed", "cancelled"}, cancel' \in BOOLEAN,
           request' = "free" <=> y.m.asked = NoHandle,
           pc' = "descend" => y.m.asked = NoHandle /\ y.m.work # 0,
           pc' # "descend" => (y.m.work # 0 <=> y.m.asked # NoHandle) /\ y.m.loose = NoEdge,
           pc' = "over" => y.m.asked = NoHandle,
           y.m.asked # NoHandle => y.m.path # <<>>
    PROVE  IInv' /\ (Joined(y) => Joined(X)')
<1>1. Kempt(X)' /\ m' = y.m /\ (Joined(y) => Joined(X)')
  BY BecomesLemma
<1> QED
  BY <1>1 DEF IInv

\* Records that are kept hold no loose edge between two pieces of work.
LEMMA WorkLoose ==
    ASSUME NEW x, Kempt(x), x.m.work = 0
    PROVE  x.m.loose = NoEdge /\ x.m.path = <<>>
  BY DEF Kempt, Books

\* ... and no path to follow.
LEMMA IdleJoined ==
    ASSUME NEW x, Kempt(x), x.m.work = 0
    PROVE  Joined(x)
<1>1. x.m.loose = NoEdge /\ x.m.path = <<>>
  BY WorkLoose
<1>2. Leasing(<<>>, 0) = {}
  BY SMTT(30) DEF Leasing, Ahead
<1> QED
  BY <1>1, <1>2 DEF Joined, Followed

\* A path that is not touched leads where it led.
LEMMA SameJoined ==
    ASSUME NEW x, Joined(x), NEW y, y.m.path = x.m.path, y.m.graph.edges = x.m.graph.edges,
           y.m.loose = NoEdge
    PROVE  Joined(y)
  BY SameFollowed DEF Leads, Joined

\* The latch at the end of control: kept records with the same work stay kept.
LEMMA ControlledLemma ==
    ASSUME IInv, NEW y, Kempt(y), y.m.asked = m.asked, y.m.work = m.work, y.m.path = m.path,
           y.m.loose = m.loose, NEW cancelled \in BOOLEAN, Controlled(y, cancelled)
    PROVE  IInv' /\ (Followed(y) => Joined(X)')
<1> DEFINE z == Latched(y, cancelled)
<1>1. y \in Situations
  BY DEF Kempt, Books
<1>2. Alike(y, z) /\ z.m.begun = y.m.begun /\ z.m.ended = y.m.ended
  BY <1>1, LatchedLemma
<1>3. Kempt(z) /\ z.m.asked = m.asked /\ z.m.work = m.work /\ z.m.path = m.path /\ z.m.loose = m.loose
  BY <1>2, AlikeKempt
<1>4. /\ Becomes(z) /\ pc = "control" /\ pc' = "body" /\ cancel' = cancelled
      /\ request' = IF cancelled /\ m.asked # NoHandle THEN Cancelled(request) ELSE request
  BY DEF Controlled
<1> HIDE DEF z
<1>5. /\ request \in {"free", "queued", "ready", "failed", "cancelled"}
      /\ request = "free" <=> m.asked = NoHandle
      /\ (m.work # 0 <=> m.asked # NoHandle) /\ m.loose = NoEdge
      /\ m.asked # NoHandle => m.path # <<>>
  BY <1>4 DEF IInv
<1>6. /\ request' \in {"free", "queued", "ready", "failed", "cancelled"}
      /\ request' = "free" <=> m.asked = NoHandle
  BY SMTT(30), <1>4, <1>5 DEF Cancelled
<1>7. Followed(y) => Followed(z)
  BY ZenonT(60), <1>2, SameFollowed DEF Alike, Leads
<1>8. Followed(y) => Joined(z)
  BY <1>3, <1>5, <1>7 DEF Joined
<1> QED
  BY <1>3, <1>4, <1>5, <1>6, <1>8, Arrival

\* The situation of the variables.
LEMMA HereLemma == X.m = m /\ X.policy = policy
  BY DEF X

\* No packet, a packet that cancels, or one whose replay stops the search.
LEMMA ControlStep ==
    ASSUME IInv, NoPacket \/ CancelPacket \/ ReplayFails
    PROVE  IInv' /\ (Joined(X) => Joined(X)')
<1>1. Kempt(X) /\ X.m = m
  BY HereLemma DEF IInv
<1>2. CASE NoPacket
  BY <1>1, <1>2, ControlledLemma DEF NoPacket, Joined
<1>3. CASE CancelPacket
  BY <1>1, <1>3, ControlledLemma DEF CancelPacket, Joined
<1>4. CASE ReplayFails
  <2>1. PICK y : y = Stop(X, 11)
    OBVIOUS
  <2>2. Controlled(y, FALSE)
    BY <1>4, <2>1 DEF ReplayFails
  <2>3. /\ Kempt(y) /\ y.m.work = X.m.work /\ y.m.path = X.m.path /\ y.m.loose = X.m.loose
        /\ y.m.asked = X.m.asked /\ y.m.graph = X.m.graph
    <3>1. 11 \in Causes /\ X \in Situations
      BY <1>1 DEF Causes, Kempt, Books
    <3>2. Alike(X, Stop(X, 11)) /\ Stop(X, 11).m.begun = X.m.begun
          /\ Stop(X, 11).m.ended = X.m.ended
      BY <3>1, StopLemma
    <3> QED
      BY <1>1, <2>1, <3>2, AlikeKempt DEF Alike
  <2>4. Followed(X) => Followed(y)
    BY ZenonT(60), <2>3, SameFollowed DEF Leads
  <2> QED
    BY <1>1, <2>2, <2>3, <2>4, ControlledLemma DEF Joined
<1> QED
  BY <1>2, <1>3, <1>4

\* A root is admitted and becomes the focus, or is refused.
LEMMA AdmittedLemma ==
    ASSUME NEW w, Kempt(w), NEW s \in Roots, NEW retires \in BOOLEAN,
           NEW got, got = Admit(w.m.graph, s, retires), NEW x, x = [w EXCEPT !.m.graph = got.graph],
           NEW y \in (IF got.slot = NoNode THEN {x} ELSE Focused(x, got.slot))
    PROVE  /\ Kempt(y) /\ y.m.work = w.m.work /\ y.m.path = w.m.path /\ y.m.loose = w.m.loose
           /\ y.m.asked = w.m.asked
           /\ Followed(w) => Followed(y)
<1>1. GraphInv(w.m.graph) /\ s \in States
  BY ProgressAssumption DEF Kempt, Books
<1>2. /\ GraphInv(got.graph) /\ Tended(w.m.graph, got.graph) /\ Steered(w.m.graph, got.graph, {})
      /\ got.slot # NoNode => got.slot \in LiveOf(got.graph)
  BY <1>1, AdmitLemma DEF Served, Kept
<1>3. Kempt(x) /\ Steady(w, x) /\ x.m.graph = got.graph
  <2>1. PICK h : h = got.graph
    OBVIOUS
  <2>2. Kempt(w) /\ GraphInv(h) /\ Tended(w.m.graph, h)
    BY <1>2, <2>1
  <2>3. x = [w EXCEPT !.m.graph = h]
    BY <2>1
  <2>4. Kempt(x) /\ Steady(w, x)
    BY ONLY <2>2, <2>3, RegraphKempt
  <2>5. x.m = [w.m EXCEPT !.graph = h] /\ w.m \in Records
    BY <2>2, <2>3 DEF Kempt, Books, Situations
  <2>6. x.m.graph = h
    BY ONLY <2>5 DEF Records
  <2> QED
    BY <2>1, <2>4, <2>6
<1>4. Followed(w) => Followed(x)
  <2>1. PICK none : none = {}
    OBVIOUS
  <2>2. /\ Kempt(w) /\ x.m.path = w.m.path /\ Steered(w.m.graph, x.m.graph, none)
        /\ \A i \in Leasing(w.m.path, 0) : w.m.path[i].edge \notin none
    BY <1>2, <1>3, <2>1 DEF Steady
  <2> QED
    BY ONLY <2>2, SteeredFollowed
<1>5. CASE got.slot = NoNode
  BY <1>3, <1>4, <1>5 DEF Steady
<1>6. CASE got.slot # NoNode
  <2>1. got.slot \in LiveOf(x.m.graph) /\ y \in Focused(x, got.slot)
    BY <1>2, <1>3, <1>6
  <2>2. Kempt(y) /\ y.m.work = x.m.work /\ y.m.path = x.m.path /\ y.m.loose = x.m.loose
        /\ y.m.asked = x.m.asked /\ y.m.graph.edges = x.m.graph.edges
    BY ZenonT(60), <1>3, <2>1, FocusedLemma
  <2>3. Followed(x) => Followed(y)
    BY ZenonT(60), <2>2, SameFollowed DEF Leads
  <2> QED
    BY <1>3, <1>4, <2>2, <2>3 DEF Steady
<1> QED
  BY <1>5, <1>6

LEMMA AdmitStep ==
    ASSUME IInv, NEW s \in Roots, NEW retires \in BOOLEAN, AdmitFocus(s, retires)
    PROVE  IInv' /\ (Joined(X) => Joined(X)')
<1>1. Kempt(X) /\ X.m = m
  BY HereLemma DEF IInv
<1>2. PICK w, got, x : w = X /\ got = Admit(m.graph, s, retires) /\ x = [w EXCEPT !.m.graph = got.graph]
  OBVIOUS
<1>3. PICK y \in (IF got.slot = NoNode THEN {x} ELSE Focused(x, got.slot)) : Controlled(y, FALSE)
  BY <1>2 DEF AdmitFocus
<1>4. Kempt(w) /\ w.m = m
  BY <1>1, <1>2
<1>5. /\ Kempt(y) /\ y.m.work = m.work /\ y.m.path = m.path /\ y.m.loose = m.loose
      /\ y.m.asked = m.asked
      /\ Followed(w) => Followed(y)
  BY <1>2, <1>4, AdmittedLemma
<1>6. Joined(X) => Followed(y)
  BY <1>2, <1>5 DEF Joined
<1>7. IInv' /\ (Followed(y) => Joined(X)')
  BY <1>3, <1>5, ControlledLemma
<1> QED
  BY <1>6, <1>7

\* The focus moves to a child of its node.
LEMMA AdvanceStep ==
    ASSUME IInv, NEW e \in Bases, AdvanceFocus(e)
    PROVE  IInv' /\ (Joined(X) => Joined(X)')
<1>1. Kempt(X) /\ X.m = m
  BY HereLemma DEF IInv
<1> DEFINE n == m.graph.edges[e].child
<1>2. PICK y \in Focused(X, n) : Controlled(y, FALSE)
  BY DEF AdvanceFocus
<1>3. Valid(m.graph, n, m.graph.edges[e].childGen)
  BY DEF AdvanceFocus
<1>4. X \in Situations /\ GraphInv(m.graph)
  BY <1>1 DEF Kempt, Books
<1>5. n \in LiveOf(X.m.graph)
  <2>1. m.graph.high \in 0 .. NodeCapacity /\ NodeCapacity \in Nat
    BY <1>4, GraphConstants DEF GraphInv, Graphs
  <2> HIDE DEF n
  <2>2. n \in Slots /\ m.graph.nodes[n].pub
    BY <2>1, <1>3 DEF Valid, Slots
  <2> QED
    BY <2>2, <1>1 DEF LiveOf
<1> HIDE DEF n
<1>6. Kempt(y) /\ y.m.work = X.m.work /\ y.m.path = X.m.path /\ y.m.loose = X.m.loose
      /\ y.m.asked = X.m.asked /\ y.m.graph.edges = X.m.graph.edges
  BY SMTT(30), <1>1, <1>2, <1>5, FocusedLemma
<1>7. Followed(X) => Followed(y)
  BY ZenonT(60), <1>6, SameFollowed DEF Leads
<1> QED
  BY <1>1, <1>2, <1>6, <1>7, ControlledLemma DEF Joined

\* The evaluator serves the request.
LEMMA BodyStep ==
    ASSUME IInv, Body
    PROVE  IInv' /\ (Joined(X) => Joined(X)')
<1>1. X' = X /\ m' = m /\ policy' = policy /\ cancel' = cancel
  BY DEF Body, X
<1>2. Kempt(X') /\ (Joined(X) => Joined(X'))
  BY <1>1 DEF IInv
<1>3. /\ request' \in {"free", "queued", "ready", "failed", "cancelled"}
      /\ (request' = "free" <=> request = "free")
  BY DEF Body, IInv
<1>4. pc = "body" /\ pc' = "controller"
  BY DEF Body
<1> QED
  BY <1>1, <1>2, <1>3, <1>4 DEF IInv

\* The next round.
LEMMA RepeatStep ==
    ASSUME IInv, Repeat
    PROVE  IInv' /\ (Joined(X) => Joined(X)')
<1>1. X' = X /\ m' = m /\ policy' = policy /\ cancel' = cancel /\ request' = request
  BY DEF Repeat, X
<1>2. Kempt(X') /\ (Joined(X) => Joined(X'))
  BY <1>1 DEF IInv
<1>4. pc = "repeat" /\ pc' = "control"
  BY DEF Repeat
<1> QED
  BY <1>1, <1>2, <1>4 DEF IInv

\* The controller takes the answer.
LEMMA ControllerStep ==
    ASSUME IInv, Controller
    PROVE  IInv' /\ (Joined(X) => Joined(X)')
<1> DEFINE x == Latched(X, cancel)
           final == x.m.final \/ x.m.first # 0
           y == [x EXCEPT !.m.final = final]
<1>1. Kempt(X) /\ X.m = m /\ X \in Situations
  BY HereLemma DEF IInv, Kempt, Books
<1>2. PICK c \in Consumed(y, request) :
          /\ Becomes(c.x) /\ request' = c.request
          /\ pc' = IF ~cancel /\ c.x.m.stop = 0 THEN "advance" ELSE "repeat"
  BY DEF Controller
<1>3. /\ pc = "controller" /\ cancel' = cancel /\ pc' \in {"advance", "repeat"}
      /\ request' = c.request /\ Becomes(c.x)
  BY <1>2 DEF Controller
<1>4. Kempt(x) /\ x.m.asked = m.asked /\ x.m.work = m.work /\ x.m.path = m.path /\ x.m.loose = m.loose
      /\ x.m.graph = m.graph
  <2>1. Alike(X, x) /\ x.m.begun = X.m.begun /\ x.m.ended = X.m.ended
    BY <1>1, LatchedLemma
  <2> QED
    BY <2>1, <1>1, AlikeKempt DEF Alike
<1> HIDE DEF x
<1>5. x \in Situations /\ final \in BOOLEAN
  BY <1>4 DEF Kempt, Books
<1> HIDE DEF final
<1>6. Kempt(y) /\ y.m.asked = m.asked /\ y.m.work = m.work /\ y.m.path = m.path /\ y.m.loose = m.loose
      /\ y.m.graph = m.graph
  <2>1. Alike(x, y) /\ y.m.begun = x.m.begun /\ y.m.ended = x.m.ended
    BY <1>5, FinalLemma
  <2> HIDE DEF y
  <2> QED
    BY <2>1, <1>4, AlikeKempt DEF Alike
<1>7. c \in Consumed(y, request)
  BY <1>2
<1> HIDE DEF y
<1>8. Fetched(y, request, c)
  BY <1>6, <1>7, ConsumedLemma
<1>9. /\ request \in {"free", "queued", "ready", "failed", "cancelled"}
      /\ request = "free" <=> m.asked = NoHandle
      /\ (m.work # 0 <=> m.asked # NoHandle) /\ m.loose = NoEdge
      /\ m.asked # NoHandle => m.path # <<>>
      /\ cancel \in BOOLEAN
  BY <1>3 DEF IInv
<1>10. CASE c.x = y /\ c.request = request
  <2>1. Joined(X) => Joined(y)
    BY <1>1, <1>6, <1>9, SameJoined
  <2> QED
    BY <1>3, <1>6, <1>9, <1>10, <2>1, Arrival
<1>11. CASE Kempt(c.x) /\ c.x.m.work = 0 /\ c.x.m.asked = NoHandle /\ c.request = "free"
  BY <1>3, <1>9, <1>11, WorkLoose, IdleJoined, Arrival
<1> QED
  BY <1>8, <1>10, <1>11 DEF Fetched

\* Work begins.
LEMMA BeginStep ==
    ASSUME IInv, Begin
    PROVE  IInv' /\ (Joined(X) => Joined(X)')
<1>1. Kempt(X) /\ X.m = m /\ X.policy = policy
  BY HereLemma DEF IInv
<1>2. /\ pc = "advance" /\ m.asked = NoHandle /\ m.begun < MaxWork /\ pc' = "descend"
      /\ policy' = policy /\ request' = request /\ cancel' = cancel
  BY DEF Begin
<1>3. /\ m.work = 0 /\ request = "free" /\ cancel \in BOOLEAN
  BY <1>2 DEF IInv
<1>4. m' = [m EXCEPT !.begun = @ + 1, !.work = m.begun + 1, !.loose = NoEdge,
                     !.cur = [node |-> m.graph.root, gen |-> m.graph.rootGen]]
  BY DEF Begin
<1>5. PICK r : r = [m EXCEPT !.begun = @ + 1, !.work = m.begun + 1, !.loose = NoEdge,
                     !.cur = [node |-> m.graph.root, gen |-> m.graph.rootGen]]
  OBVIOUS
<1>6. PICK y : y = [m |-> r, policy |-> policy]
  OBVIOUS
<1>7. Kempt(y) /\ y.m.work # 0 /\ y.m.asked = m.asked
  <2>1. PICK w : w = X
    OBVIOUS
  <2>2. Kempt(w) /\ w.m.work = 0 /\ w.m.begun < MaxWork /\ w.m = m /\ w.policy = policy
    BY <1>1, <1>2, <1>3, <2>1
  <2>3. r = [w.m EXCEPT !.begun = @ + 1, !.work = w.m.begun + 1, !.loose = NoEdge,
                        !.cur = [node |-> w.m.graph.root, gen |-> w.m.graph.rootGen]]
        /\ y = [m |-> r, policy |-> w.policy]
    BY <1>5, <1>6, <2>2
  <2>4. Kempt(y) /\ y.m.work # 0 /\ y.m.asked = w.m.asked
    BY ONLY ZenonT(60), <2>2, <2>3, BegunLemma
  <2> QED
    BY <2>2, <2>4
<1>8. m' = y.m /\ policy' = y.policy
  BY <1>2, <1>4, <1>5, <1>6
<1>9. Joined(X) => Joined(y)
  <2>1. m \in Records
    BY <1>1 DEF Kempt, Books, Situations
  <2>2. r.path = m.path /\ r.graph = m.graph /\ r.loose = NoEdge
    BY ONLY <2>1, <1>5 DEF Records
  <2> QED
    BY <1>1, <1>6, <2>2, SameJoined
<1> QED
  BY <1>2, <1>3, <1>7, <1>8, <1>9, Arrival DEF Becomes

\* No work is begun.
LEMMA RestStep ==
    ASSUME IInv, Rest
    PROVE  IInv' /\ (Joined(X) => Joined(X)')
<1> DEFINE s == Stop(X, 8)
<1>1. Kempt(X) /\ X.m = m /\ X \in Situations
  BY HereLemma DEF IInv, Kempt, Books
<1>2. /\ pc = "advance" /\ pc' = "repeat" /\ request' = request /\ cancel' = cancel
      /\ Becomes(X) \/ Becomes(s)
  BY DEF Rest
<1>3. Kempt(s) /\ s.m.asked = m.asked /\ s.m.work = m.work /\ s.m.path = m.path /\ s.m.loose = m.loose
      /\ s.m.graph = m.graph
  <2>1. 8 \in Causes
    BY DEF Causes
  <2>2. Alike(X, s) /\ s.m.begun = X.m.begun /\ s.m.ended = X.m.ended
    BY <1>1, <2>1, StopLemma
  <2> QED
    BY <2>2, <1>1, AlikeKempt DEF Alike
<1> HIDE DEF s
<1>4. /\ request \in {"free", "queued", "ready", "failed", "cancelled"}
      /\ request = "free" <=> m.asked = NoHandle
      /\ (m.work # 0 <=> m.asked # NoHandle) /\ m.loose = NoEdge
      /\ m.asked # NoHandle => m.path # <<>>
      /\ cancel \in BOOLEAN
  BY <1>2 DEF IInv
<1>5. CASE Becomes(X)
  BY <1>1, <1>2, <1>4, <1>5, Arrival
<1>6. CASE Becomes(s)
  <2>1. Joined(X) => Joined(s)
    BY <1>1, <1>2, <1>3, <1>4, SameJoined
  <2> QED
    BY <1>3, <1>2, <1>4, <1>6, <2>1, Arrival
<1> QED
  BY <1>2, <1>5, <1>6

\* The descent ends with nothing held.
LEMMA DescentOver ==
    ASSUME IInv, pc = "descend", NEW x, x.m.asked = NoHandle, NEW outcomes, Leaves(outcomes),
           \A y \in outcomes : Done(x, y)
    PROVE  IInv' /\ Joined(X)'
<1>1. PICK y \in outcomes : Becomes(y)
  BY DEF Leaves
<1>2. Kempt(y) /\ y.m.work = 0 /\ y.m.asked = NoHandle /\ y.m.loose = NoEdge
  BY <1>1, WorkLoose DEF Done
<1>3. /\ request = "free" /\ cancel \in BOOLEAN
  BY DEF IInv
<1>4. pc' = "repeat" /\ request' = request /\ cancel' = cancel
  BY DEF Leaves
<1> QED
  BY <1>1, <1>2, <1>3, <1>4, IdleJoined, Arrival

\* What is kept is owed.
LEMMA KemptOwed ==
    ASSUME NEW x, Kempt(x)
    PROVE  Owed(x) /\ Unprepared(x)
  BY DEF Kempt, Owed, Unprepared

\* What holds of a descent.
LEMMA InDescent ==
    ASSUME IInv, pc = "descend"
    PROVE  /\ Kempt(X) /\ X.m = m /\ X.policy = policy /\ m.asked = NoHandle /\ m.work # 0
           /\ request = "free" /\ cancel \in BOOLEAN
           /\ Reachable => Onward(X, Pushed(X)) /\ Lengthened(X, Pushed(X))
<1>1. Kempt(X) /\ X.m = m /\ X.policy = policy
  BY HereLemma DEF IInv
<1>2. m.asked = NoHandle /\ m.work # 0 /\ request = "free" /\ cancel \in BOOLEAN
  BY DEF IInv
<1>3. ASSUME Reachable
      PROVE  Onward(X, Pushed(X)) /\ Lengthened(X, Pushed(X))
  BY <1>1, <1>2, <1>3, PushedLemma DEF Reachable
<1> QED
  BY <1>1, <1>2, <1>3

\* A node that cannot be visited, and a hook that breaks its contract.
LEMMA FailStep ==
    ASSUME IInv, Fail
    PROVE  IInv' /\ Joined(X)'
<1>1. pc = "descend" /\ Leaves({IF Reachable THEN Broken(Pushed(X), 8) ELSE Broken(X, 6)})
  BY DEF Fail
<1>2. /\ Kempt(X) /\ X.m = m /\ m.asked = NoHandle
      /\ Reachable => Onward(X, Pushed(X))
  BY <1>1, InDescent
<1>3. 6 \in Causes /\ 8 \in Causes
  BY DEF Causes
<1>4. CASE Reachable
  <2>1. Kempt(Pushed(X)) /\ Pushed(X).m.asked = NoHandle
    BY <1>2, <1>4 DEF Onward
  <2>2. Done(Pushed(X), Broken(Pushed(X), 8))
    BY <2>1, <1>3, KemptOwed, BrokenDone
  <2>3. Leaves({Broken(Pushed(X), 8)})
    BY <1>1, <1>4
  <2> QED
    BY <1>1, <2>1, <2>2, <2>3, DescentOver
<1>5. CASE ~Reachable
  <2>2. Done(X, Broken(X, 6))
    BY <1>2, <1>3, KemptOwed, BrokenDone
  <2>3. Leaves({Broken(X, 6)})
    BY <1>1, <1>5
  <2> QED
    BY <1>1, <1>2, <2>2, <2>3, DescentOver
<1> QED
  BY <1>4, <1>5

\* A terminal node is backed up at once.
LEMMA LeafStep ==
    ASSUME IInv, Leaf
    PROVE  IInv' /\ Joined(X)'
<1>1. pc = "descend" /\ Reachable /\ Leaves(Backup(Pushed(X)))
  BY SMTT(30) DEF Leaf
<1>2. Kempt(Pushed(X)) /\ Pushed(X).m.asked = NoHandle
  BY <1>1, InDescent DEF Onward
<1>3. \A y \in Backup(Pushed(X)) : Done(Pushed(X), y)
  BY SMTT(30), <1>2, KemptOwed, BackupLemma
<1> QED
  BY <1>1, <1>2, <1>3, DescentOver

\* The node waits for its evaluation, or the evaluator takes no request.
LEMMA EvaluateStep ==
    ASSUME IInv, Evaluate
    PROVE  IInv' /\ (Joined(X) => Joined(X)')
<1> DEFINE p == Pushed(X)
           y == [p EXCEPT !.m.graph.nodes[m.cur.node].eval = @ + 1,
                          !.m.evaluations = @ + 1, !.m.asked = m.cur]
<1>1. pc = "descend" /\ Reachable
  BY DEF Evaluate
<1>2. /\ X.m = m /\ m.asked = NoHandle /\ m.work # 0 /\ request = "free" /\ cancel \in BOOLEAN
      /\ Onward(X, p) /\ Lengthened(X, p)
  BY <1>1, InDescent
<1>3. /\ Kempt(p) /\ p.m.asked = NoHandle /\ p.m.work # 0 /\ p.m.cur = m.cur /\ p.m.path # <<>>
      /\ p.m.loose = NoEdge
  BY SMTT(30), <1>2 DEF Onward
<1>4. \/ request' = "queued" /\ Becomes(y) /\ pc' = "repeat" /\ cancel' = cancel
      \/ Leaves({Dispose(p)})
  BY DEF Evaluate
<1>5. CASE Leaves({Dispose(p)})
  <2>1. Done(p, Dispose(p))
    BY <1>3, KemptOwed, DisposeDone
  <2> HIDE DEF p
  <2> QED
    BY <1>1, <1>3, <1>5, <2>1, DescentOver
<1>6. CASE request' = "queued" /\ Becomes(y) /\ pc' = "repeat" /\ cancel' = cancel
  <2>1. Valid(p.m.graph, m.cur.node, m.cur.gen)
    <3>1. Valid(m.graph, m.cur.node, m.cur.gen)
      BY <1>1 DEF Reachable
    <3>2. X \in Situations /\ GraphInv(m.graph)
      BY <1>1, <1>2, InDescent DEF Kempt, Books
    <3>3. m.graph.high \in 0 .. NodeCapacity /\ NodeCapacity \in Nat
      BY <3>2, GraphConstants DEF GraphInv, Graphs
    <3>4. m.cur.node \in 0 .. m.graph.high - 1
      BY <3>1 DEF Valid
    <3>5. m.cur.node \in Slots
      BY ONLY SMTT(30), <3>3, <3>4 DEF Slots
    <3> QED
      BY <3>1, <3>5, <1>2 DEF Onward, Valid
  <2>2. PICK w, cur, z : w = p /\ cur = m.cur /\ z = y
    BY SMTT(30)
  <2>3. /\ Kempt(w) /\ w.m.asked = NoHandle /\ cur = w.m.cur /\ Valid(w.m.graph, cur.node, cur.gen)
        /\ w.m.work # 0 /\ w.m.path # <<>> /\ w.m.loose = NoEdge
    BY SMTT(30), <1>3, <2>1, <2>2
  <2>4. Sent(w, cur, z)
    BY <2>2 DEF Sent
  <2>5. Kempt(z) /\ z.m.asked # NoHandle /\ z.m.work = w.m.work /\ z.m.path = w.m.path
        /\ z.m.loose = w.m.loose /\ z.m.graph.edges = w.m.graph.edges
    BY ONLY SMTT(30), <2>3, <2>4, EvaluatedLemma
  <2>6. Becomes(z)
    BY ZenonT(60), <2>2, <1>6
  <2>7. Joined(X) => Joined(z)
    <3>1. Joined(X) => Joined(w)
      BY <1>2, <1>3, <2>2, PushedJoined DEF Joined
    <3> QED
      BY ONLY <3>1, <2>3, <2>5, SameJoined
  <2> HIDE DEF y, p
  <2> QED
    BY SMTT(30), <1>1, <1>2, <1>6, <2>3, <2>5, <2>6, <2>7, Arrival
<1> QED
  BY SMTT(30), <1>4, <1>5, <1>6

\* One edge further, or the refusal of it.
LEMMA DescendStep ==
    ASSUME IInv, NEW e \in Bases, NEW disposition \in {0, 1, 3}, NEW retires \in BOOLEAN,
           Descend(e, disposition, retires)
    PROVE  IInv' /\ (Joined(X) => Joined(X)')
<1>1. PICK x, y, got, z :
          /\ x = Pushed(X) /\ y = Reserved(x, e)
          /\ got = Realize(y.m.graph, e, disposition, retires)
          /\ z = [y EXCEPT !.m.graph = got.graph]
  OBVIOUS
<1>2. /\ pc = "descend" /\ Reachable /\ ~Related(x) /\ e \in Candidates(m.graph, m.cur.node)
      /\ IF got.slot = NoNode
         THEN Leaves({IF got.error = 11 THEN Broken(z, 11) ELSE Dispose(z)})
         ELSE /\ Becomes([z EXCEPT !.m.cur = Handle(got.graph, got.slot)])
              /\ UNCHANGED <<request, cancel, pc>>
  BY <1>1 DEF Descend
<1>3. /\ Kempt(X) /\ X.m = m /\ m.asked = NoHandle /\ m.work # 0 /\ request = "free"
      /\ cancel \in BOOLEAN /\ Lengthened(X, Pushed(X))
  BY <1>2, InDescent
<1>4. Len(m.path) < PathDepth /\ Valid(m.graph, m.cur.node, m.cur.gen)
  BY <1>2 DEF Reachable
<1>5. /\ Kempt(z) /\ z.m.work = m.work /\ z.m.asked = NoHandle
      /\ got.slot # NoNode => got.slot \in LiveOf(got.graph)
      /\ GraphInv(got.graph) /\ z.m.graph = got.graph
      /\ z.m.loose = e
      /\ Joined(X) => Followed(z)
      /\ got.slot # NoNode => Toward(got.graph, e, got.slot, got.graph.nodes[got.slot].gen)
  <2>1. PICK w : w = X
    OBVIOUS
  <2>2. /\ Kempt(w) /\ w.m.work # 0 /\ Len(w.m.path) < PathDepth
        /\ Valid(w.m.graph, w.m.cur.node, w.m.cur.gen) /\ ~Related(Pushed(w))
        /\ e \in Candidates(w.m.graph, w.m.cur.node) /\ disposition \in 0 .. 3
        /\ y = Reserved(Pushed(w), e) /\ w.m = m
    BY <1>1, <1>2, <1>3, <1>4, <2>1
  <2>3. got = Realize(y.m.graph, e, disposition, retires) /\ z = [y EXCEPT !.m.graph = got.graph]
    BY <1>1
  <2>4. Going(w, e, disposition, retires, y, got, z)
    BY <2>2, <2>3 DEF Going
  <2>5. /\ Kempt(z) /\ z.m.work = w.m.work /\ z.m.asked = w.m.asked
        /\ got.slot # NoNode => got.slot \in LiveOf(got.graph)
        /\ GraphInv(got.graph) /\ z.m.graph = got.graph /\ z.m.loose = e
        /\ got.slot # NoNode => Toward(got.graph, e, got.slot, got.graph.nodes[got.slot].gen)
        /\ Followed(Pushed(w)) => Followed(z)
    BY ONLY <2>2, <2>4, DescentLemma
  <2>6. Joined(w) => Followed(Pushed(w))
    BY <1>3, <2>1, PushedJoined
  <2> QED
    BY <2>1, <2>2, <2>5, <2>6, <1>3
<1> HIDE <1>1
<1>6. CASE got.slot = NoNode
  <2>1. 11 \in Causes
    BY DEF Causes
  <2>2. Done(z, Broken(z, 11)) /\ Done(z, Dispose(z))
    BY <2>1, <1>5, KemptOwed, BrokenDone, DisposeDone
  <2>3. Leaves({IF got.error = 11 THEN Broken(z, 11) ELSE Dispose(z)})
    BY <1>2, <1>6
  <2> QED
    BY <1>2, <1>5, <2>2, <2>3, DescentOver
<1>7. CASE got.slot # NoNode
  <2> DEFINE cur == Handle(got.graph, got.slot)
             v == [z EXCEPT !.m.cur = cur]
  <2>1. Becomes(v) /\ request' = request /\ cancel' = cancel /\ pc' = pc
    BY <1>2, <1>7
  <2>2. cur \in Handles
    <3>1. got.slot \in Slots /\ got.graph.nodes \in [Slots -> Nodes]
      BY <1>5, <1>7 DEF LiveOf, GraphInv, Graphs
    <3>2. got.graph.nodes[got.slot].gen \in Gens
      BY <3>1 DEF Nodes
    <3> QED
      BY <3>1, <3>2 DEF Handle, Handles, Gens, Generations
  <2>6. /\ cur.node = got.slot /\ cur.gen = got.graph.nodes[got.slot].gen
    BY DEF Handle
  <2> HIDE DEF cur
  <2>3. z \in Situations
    BY <1>5 DEF Kempt, Books
  <2>4. Alike(z, v) /\ v.m.begun = z.m.begun /\ v.m.ended = z.m.ended
        /\ v.m.cur = cur
    BY <2>2, <2>3, CursorLemma
  <2> HIDE DEF v
  <2>5. Kempt(v) /\ v.m.asked = NoHandle /\ v.m.work # 0
    BY <1>3, <1>5, <2>4, AlikeKempt
  <2>7. Joined(X) => Joined(v)
    <3>1. Followed(z) => Followed(v)
      BY ZenonT(60), <2>4, SameFollowed DEF Alike, Leads
    <3>2. v.m.graph = got.graph /\ v.m.loose = e
      BY SMTT(30), <1>5, <2>4 DEF Alike
    <3>3. Toward(v.m.graph, v.m.loose, v.m.cur.node, v.m.cur.gen)
      BY <1>5, <1>7, <2>4, <2>6, <3>2 DEF Toward
    <3> QED
      BY SMTT(30), <1>5, <3>1, <3>3 DEF Joined
  <2> QED
    BY <1>2, <1>3, <2>1, <2>5, <2>7, Arrival
<1> QED
  BY <1>6, <1>7

\* The search ends.
LEMMA FinaleStep ==
    ASSUME IInv, Finale
    PROVE  IInv' /\ Joined(X)'
<1> DEFINE x == Latched(X, cancel)
           first == IF x.m.first = 0 THEN 14 ELSE x.m.first
           y == [x EXCEPT !.m.first = first, !.m.final = TRUE]
           late(z) == IF z.m.stop # 0 /\ z.m.stop # z.m.first THEN z.m.stop ELSE 0
           odd(c, z) == IF Balanced(z) /\ c.request = "free" THEN 0 ELSE 11
           drain(c, z) == IF z.m.drain # 0 THEN z.m.drain
                          ELSE IF late(z) # 0 THEN late(z) ELSE odd(c, z)
           last(c, z) == [z EXCEPT !.m.final = FALSE, !.m.drain = drain(c, z)]
<1>1. Kempt(X) /\ X.m = m /\ X \in Situations
  BY SMTT(30), HereLemma DEF IInv, Kempt, Books
<1>2. PICK c \in Consumed(y, Cancelled(request)) :
          Becomes(last(c, Dispose(c.x))) /\ request' = c.request
  BY DEF Finale
<1>3. pc = "repeat" /\ pc' = "over" /\ cancel' = cancel
  BY DEF Finale
<1>4. /\ request \in {"free", "queued", "ready", "failed", "cancelled"}
      /\ (request = "free" <=> m.asked = NoHandle) /\ cancel \in BOOLEAN
  BY <1>3 DEF IInv
<1>5. Kempt(x) /\ x.m.asked = m.asked
  <2>1. Alike(X, x) /\ x.m.begun = X.m.begun /\ x.m.ended = X.m.ended
    BY <1>1, LatchedLemma
  <2> QED
    BY <2>1, <1>1, AlikeKempt
<1> HIDE DEF x
<1>6. x \in Situations /\ first \in Causes
  <2>1. x \in Situations
    BY <1>5 DEF Kempt, Books
  <2>2. x.m.first \in Causes
    BY <2>1 DEF Situations, Records
  <2> QED
    BY <2>1, <2>2 DEF Causes
<1> HIDE DEF first
<1>7. Kempt(y) /\ y.m.asked = m.asked
  <2>1. Alike(x, y) /\ y.m.begun = x.m.begun /\ y.m.ended = x.m.ended
    BY <1>6, FirstLemma
  <2> HIDE DEF y
  <2> QED
    BY SMTT(30), <2>1, <1>5, AlikeKempt
<1> HIDE DEF y
<1>8. Fetched(y, Cancelled(request), c)
  BY <1>2, <1>7, ConsumedLemma
<1>9. Kempt(c.x) /\ c.x.m.asked = NoHandle /\ c.request = "free"
  <2>1. CASE /\ c.x = y /\ c.request = Cancelled(request)
             /\ y.m.asked = NoHandle \/ Cancelled(request) = "queued"
    BY <2>1, <1>4, <1>7 DEF Cancelled
  <2> QED
    BY <1>8, <2>1 DEF Fetched
<1> DEFINE z == Dispose(c.x)
<1>10. Kempt(z) /\ z.m.work = 0 /\ z.m.asked = NoHandle
  BY <1>9, KemptOwed, DisposeDone DEF Done
<1>11. Becomes(last(c, z)) /\ request' = "free"
  BY <1>2, <1>9
<1> HIDE DEF z
<1>12. z \in Situations /\ drain(c, z) \in Causes
  <2>1. z \in Situations
    BY <1>10 DEF Kempt, Books
  <2>2. z.m.stop \in Causes /\ z.m.drain \in Causes
    BY <2>1 DEF Situations, Records
  <2> QED
    BY <2>1, <2>2 DEF Causes
<1> DEFINE d == drain(c, z)
<1>13. Kempt(last(c, z)) /\ last(c, z).m.work = 0 /\ last(c, z).m.asked = NoHandle
  <2> DEFINE v == [z EXCEPT !.m.final = FALSE, !.m.drain = d]
  <2>1. v = last(c, z)
    OBVIOUS
  <2> HIDE DEF d, last, drain
  <2>2. d \in Causes
    BY SMTT(30), <1>12 DEF d
  <2>3. Alike(z, v) /\ v.m.begun = z.m.begun /\ v.m.ended = z.m.ended
    BY <1>12, <2>2, DrainLemma
  <2> HIDE DEF v
  <2> QED
    BY <2>1, <2>3, <1>10, AlikeKempt
<1> HIDE DEF last
<1> QED
  BY <1>3, <1>4, <1>11, <1>13, WorkLoose, IdleJoined, Arrival

\* The graph a search is ignited on, after the root became the focus.
LEMMA IgnitedLemma ==
    ASSUME NEW h, GraphInv(h), Tended(EmptyGraph, h), NEW n \in LiveOf(h)
    PROVE  LET g == Commit(h, n) IN
           /\ GraphInv(g) /\ Valid(g, g.root, g.rootGen)
           /\ \A k \in Slots : g.nodes[k].path = 0 /\ g.nodes[k].eval = 0 /\ g.nodes[k].pin = 0
           /\ \A e \in Bases : g.edges[e].lease = 0
<1> DEFINE gen == h.nodes[n].gen
           g == [h EXCEPT !.root = n, !.rootGen = gen]
<1>1. h \in Graphs /\ n \in Slots /\ h.nodes \in [Slots -> Nodes] /\ Slotted(h)
  BY DEF GraphInv, Graphs, LiveOf
<1>2. gen \in Gens /\ gen # 0 /\ n < h.high /\ h.nodes[n].pub
  <2>1. h.nodes[n] \in Nodes /\ h.nodes[n].gen > 0 /\ n < h.high /\ h.nodes[n].pub
    BY <1>1 DEF Slotted, LiveOf
  <2> QED
    BY <2>1 DEF Nodes, Gens
<1>3. g = Commit(h, n)
  BY DEF Commit
<1> HIDE DEF gen
<1>4. /\ g \in Graphs /\ g.nodes = h.nodes /\ g.edges = h.edges /\ g.spans = h.spans /\ g.tt = h.tt
      /\ g.high = h.high /\ g.free = h.free /\ g.live = h.live /\ g.liveEdges = h.liveEdges
      /\ g.root = n /\ g.rootGen = gen
  BY <1>1, <1>2 DEF Graphs
<1> HIDE DEF g
<1>5. GraphInv(g)
  BY <1>4, Restyled
<1>6. Valid(g, g.root, g.rootGen)
  <2>1. n \in 0 .. h.high - 1
    <3>1. h.high \in 0 .. NodeCapacity /\ NodeCapacity \in Nat /\ n < h.high
      BY <1>1, <1>2, GraphConstants DEF Graphs
    <3> QED
      BY ONLY <3>1, <1>1 DEF Slots
  <2> QED
    BY <2>1, <1>2, <1>4 DEF Valid, gen
<1>7. \A k \in Slots : g.nodes[k].path = 0 /\ g.nodes[k].eval = 0 /\ g.nodes[k].pin = 0
  BY <1>4 DEF Tended, EmptyGraph, FreshNode
<1>8. \A e \in Bases : g.edges[e].lease = 0
  BY <1>4 DEF Tended, EmptyGraph, FreshEdge
<1> QED
  BY <1>3, <1>5, <1>6, <1>7, <1>8

\* Nothing is ahead on an empty path.
LEMMA NoneAhead ==
    /\ Len(<<>>) = 0 /\ Ahead(<<>>, 0) = {} /\ Leasing(<<>>, 0) = {}
    /\ \A n : At(<<>>, 0, n) = {} /\ Over(<<>>, 0, n) = {} /\ Ready(<<>>, 0, n) = {}
    /\ Cardinality({}) = 0
<1>1. Ahead(<<>>, 0) = {} /\ Len(<<>>) = 0
  BY DEF Ahead
<1> QED
  BY <1>1, FS_EmptySet DEF Leasing, At, Over, Ready

\* Nothing is held at the start.
LEMMA InitStep == Init => IInv /\ Joined(X)
<1> SUFFICES ASSUME Init
             PROVE  IInv /\ Joined(X)
  OBVIOUS
<1> DEFINE got == Admit(EmptyGraph, Start, TRUE)
           g == Commit(got.graph, got.slot)
<1>1. /\ got.slot # NoNode /\ m = Idle(g)
      /\ policy = [prepared |-> [n \in Slots |-> 0], reserved |-> [e \in Bases |-> 0]]
      /\ request = "free" /\ cancel = FALSE /\ pc = "control"
  BY DEF Init
<1>2. GraphInv(got.graph) /\ Tended(EmptyGraph, got.graph) /\ got.slot \in LiveOf(got.graph)
  <2>1. Start \in States /\ TRUE \in BOOLEAN
    BY ProgressAssumption
  <2>2. Served(EmptyGraph, got, Start)
    BY <2>1, EmptyGraphInv, AdmitLemma
  <2> QED
    BY <1>1, <2>2 DEF Served, Kept
<1> HIDE DEF got
<1>3. /\ GraphInv(g) /\ Valid(g, g.root, g.rootGen)
      /\ \A k \in Slots : g.nodes[k].path = 0 /\ g.nodes[k].eval = 0 /\ g.nodes[k].pin = 0
      /\ \A e \in Bases : g.edges[e].lease = 0
  BY <1>2, IgnitedLemma
<1> HIDE DEF g
<1>4. /\ m.graph = g /\ m.path = <<>> /\ m.work = 0 /\ m.begun = 0 /\ m.ended = 0
      /\ m.loose = NoEdge /\ m.asked = NoHandle /\ m.protections = 0 /\ m.evaluations = 0
      /\ m.leases = 0
  BY <1>1 DEF Idle
<1>5. X.m = m /\ X.policy = policy
  BY DEF X
<1>6. MaxWork \in Nat /\ PathDepth \in Nat /\ MaxGeneration \in Nat
  BY ProgressAssumption, GraphConstants
<1>7. X \in Situations
  <2>1. g \in Graphs /\ 0 \in 0 .. MaxWork /\ 0 \in Gens /\ 0 \in Causes /\ 0 \in Int
    BY <1>3, <1>6 DEF GraphInv, Gens, Causes
  <2>2. m \in Records
    BY ONLY <1>1, <2>1, EmptySeq DEF Idle, Records
  <2>3. policy \in Policies
    BY <1>1 DEF Policies
  <2> QED
    BY <2>2, <2>3 DEF X, Situations
<1> DEFINE path == m.path
<1>14. /\ Ahead(path, 0) = {} /\ Leasing(path, 0) = {} /\ Cardinality(Leasing(path, 0)) = 0
       /\ Len(path) - 0 = 0
       /\ \A n : /\ Cardinality(At(path, 0, n)) = 0 /\ Cardinality(Over(path, 0, n)) = 0
                 /\ Cardinality(Ready(path, 0, n)) = 0
  <2>1. path = <<>>
    BY <1>4
  <2> HIDE DEF path
  <2>2. Ahead(path, 0) = {} /\ Leasing(path, 0) = {} /\ Cardinality({}) = 0 /\ Len(path) = 0
    BY ONLY <2>1, NoneAhead
  <2>3. ASSUME NEW n
        PROVE  At(path, 0, n) = {} /\ Over(path, 0, n) = {} /\ Ready(path, 0, n) = {}
    BY ONLY <2>1, NoneAhead
  <2>4. \A n : /\ Cardinality(At(path, 0, n)) = 0 /\ Cardinality(Over(path, 0, n)) = 0
               /\ Cardinality(Ready(path, 0, n)) = 0
    BY ONLY <2>2, <2>3
  <2>5. Len(path) - 0 = 0
    BY ONLY <2>2
  <2>6. Cardinality(Leasing(path, 0)) = 0
    BY ONLY <2>2
  <2> QED
    BY <2>2, <2>4, <2>5, <2>6, Zenon
<1>15. X.m.path = path /\ X.m.graph = g /\ X.m = m
  BY <1>4, <1>5
<1> HIDE DEF path
<1>8. Guarded(X, 0)
  BY <1>3, <1>4, <1>14, <1>15 DEF Guarded
<1>9. Lent(X, 0)
  <2>1. \A e \in Bases : m.graph.edges[e].lease <= MaxWork
    BY <1>3, <1>4, <1>6
  <2>2. \A e \in Bases : NoEdge # e
    BY DEF NoEdge, Bases
  <2>3. \A e \in Bases : policy.reserved[e] = 0
    BY <1>1
  <2> QED
    BY <1>4, <1>5, <1>14, <1>15, <2>1, <2>2, <2>3 DEF Lent
<1>10. Noted(X, 0)
  BY <1>1, <1>5, <1>14, <1>15 DEF Noted
<1>11. Books(X, 0)
  BY <1>3, <1>4, <1>5, <1>6, <1>7, <1>8, <1>9, <1>10, NoneAhead DEF Books
<1>12. Threaded(X) /\ Rooted(X)
  BY <1>3, <1>4, <1>5, NoneAhead DEF Threaded, Rooted
<1>13. Kempt(X)
  BY <1>4, <1>5, <1>11, <1>12 DEF Kempt
<1> QED
  BY <1>1, <1>4, <1>5, <1>13, IdleJoined DEF IInv

\* Every step keeps the invariant.
LEMMA NextStep ==
    ASSUME IInv, [Next]_vars
    PROVE  IInv' /\ (Joined(X) => Joined(X)')
<1>1. CASE NoPacket \/ CancelPacket \/ ReplayFails
  BY <1>1, ControlStep
<1>2. CASE \E s \in Roots, retires \in BOOLEAN : AdmitFocus(s, retires)
  BY <1>2, AdmitStep
<1>3. CASE \E e \in Bases : AdvanceFocus(e)
  BY <1>3, AdvanceStep
<1>4. CASE Body
  BY <1>4, BodyStep
<1>5. CASE Controller
  BY <1>5, ControllerStep
<1>6. CASE Begin
  BY <1>6, BeginStep
<1>7. CASE Rest
  BY <1>7, RestStep
<1>8. CASE Fail
  BY <1>8, FailStep
<1>9. CASE Leaf
  BY <1>9, LeafStep
<1>10. CASE Evaluate
  BY <1>10, EvaluateStep
<1>11. CASE \E e \in Bases, disposition \in {0, 1, 3}, retires \in BOOLEAN : Descend(e, disposition, retires)
  BY <1>11, DescendStep
<1>12. CASE Repeat
  BY <1>12, RepeatStep
<1>13. CASE Finale
  BY <1>13, FinaleStep
<1>14. CASE UNCHANGED vars
  <2>1. /\ X' = X /\ m' = m /\ policy' = policy /\ request' = request /\ cancel' = cancel /\ pc' = pc
    BY <1>14 DEF vars, X
  <2>2. Kempt(X') /\ (Joined(X) => Joined(X'))
    BY <2>1 DEF IInv
  <2> QED
    BY <2>1, <2>2 DEF IInv
<1> QED
  BY <1>1, <1>2, <1>3, <1>4, <1>5, <1>6, <1>7, <1>8, <1>9, <1>10, <1>11, <1>12, <1>13, <1>14 DEF Next

\* What relates graph, path, leases, request and ledger holds in every state of the
\* controller's rounds: IInv is an invariant.
THEOREM AlwaysKept == Spec => []IInv
<1>1. Init => IInv
  BY InitStep
<1>2. IInv /\ [Next]_vars => IInv'
  BY NextStep
<1> QED
  BY <1>1, <1>2, PTL DEF Spec

\* Each edge the work holds leads to the node that follows it, from one round to the
\* next: relative to IInv, Joined is an invariant.
LEMMA AlwaysJoined == Spec => []Joined(X)
<1>1. Init => Joined(X)
  BY InitStep
<1>2. IInv /\ Joined(X) /\ [Next]_vars => Joined(X)'
  BY NextStep
<1> QED
  BY <1>1, <1>2, AlwaysKept, PTL DEF Spec

-----------------------------------------------------------------------------
(* What follows from the invariant.                                        *)

\* What the invariant says of the graph, the path and the records.
LEMMA IInvParts ==
    ASSUME IInv
    PROVE  /\ X.m = m /\ X.policy = policy /\ m \in Records /\ policy \in Policies
           /\ GraphInv(m.graph) /\ m.graph \in Graphs /\ Len(m.path) <= PathDepth
           /\ Guarded(X, 0) /\ Lent(X, 0) /\ Noted(X, 0) /\ Rooted(X)
           /\ m.path \in Seq(Occurrences) /\ DOMAIN m.path = Ahead(m.path, 0)
           /\ \A i \in DOMAIN m.path : ~m.path[i].prepared
           /\ Generations = Gens /\ Live = LiveOf(m.graph)
<1>1. X.m = m /\ X.policy = policy
  BY DEF X
<1>2. /\ X \in Situations /\ GraphInv(m.graph) /\ Len(m.path) <= PathDepth
      /\ Guarded(X, 0) /\ Lent(X, 0) /\ Noted(X, 0) /\ Rooted(X)
      /\ \A i \in DOMAIN m.path : ~m.path[i].prepared
  BY <1>1 DEF IInv, Kempt, Books
<1>3. m \in Records /\ policy \in Policies
  BY <1>1, <1>2 DEF Situations
<1>4. m.path \in Seq(Occurrences)
  BY <1>3 DEF Records
<1>5. DOMAIN m.path = Ahead(m.path, 0)
  BY SMTT(30), <1>4 DEF Ahead
<1> QED
  BY <1>1, <1>2, <1>3, <1>4, <1>5 DEF Generations, Gens, Live, LiveOf, GraphInv

\* What a backup compares in every occurrence is as it was noted on the way down.
LEMMA IntactLemma ==
    ASSUME NEW x, Kempt(x), Followed(x)
    PROVE  Intact(x)
<1> DEFINE g == x.m.graph
           path == x.m.path
<1>1. /\ GraphInv(g) /\ Guarded(x, 0) /\ Lent(x, 0) /\ Threaded(x)
      /\ DOMAIN path = Ahead(path, 0) /\ path \in Seq(Occurrences)
  BY PathType DEF Kempt, Books, Ahead
<1>2. ASSUME NEW i \in DOMAIN path
      PROVE  Valid(g, path[i].node, path[i].gen) /\ path[i].node \in LiveOf(g)
  <2>1. Valid(g, path[i].node, path[i].gen) /\ path[i] \in Occurrences
    BY <1>1, <1>2 DEF Guarded
  <2>2. path[i].node \in Slots
    BY SMTT(30), <2>1 DEF Occurrences
  <2> QED
    BY <2>1, <2>2 DEF Valid, LiveOf
<1>3. ASSUME NEW i \in DOMAIN path, path[i].edge # NoEdge
      PROVE  /\ Leased(x, path[i].edge, path[i].edgeGen)
             /\ g.edges[path[i].edge].child = path[i].node
             /\ g.edges[path[i].edge].childGen = path[i].gen
             /\ Valid(g, g.edges[path[i].edge].parent, g.edges[path[i].edge].parentGen)
  <2>1. i \in Leasing(path, 0)
    BY <1>1, <1>3 DEF Leasing
  <2>2. Leased(x, path[i].edge, path[i].edgeGen)
    BY <1>1, <2>1 DEF Lent
  <2>3. g.edges[path[i].edge].child = path[i].node /\ g.edges[path[i].edge].childGen = path[i].gen
    BY <1>1, <2>1 DEF Followed, Toward
  <2>4. i > 1 /\ path[i].edge \in Candidates(g, path[i - 1].node)
    BY <1>1, <2>1 DEF Threaded
  <2>5. i - 1 \in DOMAIN path
    BY <1>1, <1>3, <2>4
  <2> DEFINE n == path[i - 1].node
             e == path[i].edge
  <2>6. n \in LiveOf(g) /\ Valid(g, n, path[i - 1].gen) /\ e \in Candidates(g, n)
    BY SMTT(30), <1>2, <2>4, <2>5
  <2> HIDE DEF n, e
  <2>7. g.edges[e].parent = n /\ g.edges[e].parentGen = g.nodes[n].gen
    BY ZenonT(60), <1>1, <2>6 DEF GraphInv, Bred, Rightful
  <2>8. Valid(g, n, g.nodes[n].gen)
    BY <2>6 DEF Valid
  <2> QED
    BY ZenonT(60), <2>2, <2>3, <2>7, <2>8 DEF e
<1> QED
  BY ZenonT(60), <1>1, <1>2, <1>3 DEF Intact

\* HeldNodesLive: no reclaimOne takes a node the focus, the path or the pending request
\* refers to, a node is protected once for each occurrence on the path, and no realize
\* turns an edge of the path aside: a backup finds leased and leading on what it walks.
THEOREM HeldNodesHold == Spec => []HeldNodesLive
<1>1. ASSUME IInv, Joined(X)
      PROVE  HeldNodesLive
  <2>1. \A n \in Slots : m.graph.nodes[n].path = Cardinality(At(m.path, 0, n))
    BY <1>1, IInvParts DEF Guarded
  <2>2. \A n : OnPath(n) = Cardinality(At(m.path, 0, n))
    BY <1>1, IInvParts DEF OnPath, At
  <2>3. Valid(m.graph, m.graph.root, m.graph.rootGen)
    BY <1>1, IInvParts DEF Rooted
  <2>4. m.asked # NoHandle => Valid(m.graph, m.asked.node, m.asked.gen)
    BY <1>1, IInvParts DEF Guarded
  <2>5. Intact(X)
    BY <1>1, IntactLemma DEF IInv, Joined
  <2>6. ASSUME pc = "descend", Reachable
        PROVE  Intact(Pushed(X))
    <3>1. Kempt(Pushed(X)) /\ Lengthened(X, Pushed(X))
      BY <1>1, <2>6, InDescent DEF Onward
    <3>2. Followed(Pushed(X))
      BY <1>1, <3>1, PushedJoined
    <3> QED
      BY <3>1, <3>2, IntactLemma
  <2> QED
    BY <2>1, <2>2, <2>3, <2>4, <2>5, <2>6 DEF HeldNodesLive, Live
<1> QED
  BY <1>1, AlwaysKept, AlwaysJoined, PTL

\* OneNodePerState: admit never makes a second node of a state, and lookup finds the one
\* there is in spite of the tombstones reclaimOne left and of a bounded probe.
THEOREM StatesAreUnique == Spec => []OneNodePerState
<1>1. ASSUME IInv
      PROVE  OneNodePerState
  <2>1. GraphInv(m.graph) /\ Live = LiveOf(m.graph)
    BY <1>1, IInvParts
  <2>2. \A k, n \in Live : m.graph.nodes[k].state = m.graph.nodes[n].state => k = n
    BY <2>1 DEF GraphInv, Known
  <2>3. ASSUME NEW n \in Live
        PROVE  Lookup(m.graph, m.graph.nodes[n].state).slot = n
    <3> DEFINE s == m.graph.nodes[n].state
               slot == Lookup(m.graph, s).slot
    <3>1. s \in States
      BY <2>1 DEF GraphInv, Slotted
    <3>2. /\ slot # NoNode => slot \in LiveOf(m.graph) /\ m.graph.nodes[slot].state = s
          /\ slot = NoNode => \A k \in LiveOf(m.graph) : m.graph.nodes[k].state # s
      BY <2>1, <3>1, LookupLemma
    <3> QED
      BY <2>1, <2>2, <3>2
  <2> QED
    BY <2>2, <2>3 DEF OneNodePerState
<1> QED
  BY <1>1, AlwaysKept, PTL

\* ChildIsSuccessor: a child reference that realize finds valid leads to the successor,
\* although the slot may have been reclaimed and used for other states.
THEOREM ChildrenFollow == Spec => []ChildIsSuccessor
<1>1. ASSUME IInv
      PROVE  ChildIsSuccessor
  <2>1. GraphInv(m.graph) /\ Live = LiveOf(m.graph)
    BY <1>1, IInvParts
  <2>2. ASSUME NEW n \in Live, NEW e \in Candidates(m.graph, n),
               Valid(m.graph, m.graph.edges[e].child, m.graph.edges[e].childGen)
        PROVE  m.graph.nodes[m.graph.edges[e].child].state = Successor(m.graph, e)
    <3> DEFINE child == m.graph.edges[e].child
    <3>1. Rightful(m.graph, n, e)
      BY <2>1 DEF GraphInv, Bred
    <3>2. child \in 0 .. m.graph.high - 1 /\ m.graph.nodes[child].gen = m.graph.edges[e].childGen
      BY <2>2 DEF Valid
    <3>3. m.graph.high \in 0 .. NodeCapacity
      BY <2>1 DEF GraphInv, Graphs
    <3>4. NodeCapacity \in Nat
      BY GraphConstants
    <3> HIDE DEF child
    <3>5. child # NoNode
      BY ONLY <3>2, <3>3, <3>4 DEF NoNode
    <3> QED
      BY <3>1, <3>2, <3>5 DEF Rightful, child
  <2> QED
    BY <2>2 DEF ChildIsSuccessor
<1> QED
  BY <1>1, AlwaysKept, PTL

\* LedgerMatches: between two steps no backup stays prepared and the reserved edges are
\* those of the path and the loose one, on every way through advance, backup and dispose.
THEOREM LedgerHolds == Spec => []LedgerMatches
<1>1. ASSUME IInv
      PROVE  LedgerMatches
  <2>1. \A n \in Slots : policy.prepared[n] = 0
    <3>1. \A n \in Slots : policy.prepared[n] = Cardinality(Ready(m.path, 0, n))
      BY <1>1, IInvParts DEF Noted
    <3>2. \A n : Ready(m.path, 0, n) = {}
      BY <1>1, IInvParts DEF Ready
    <3>3. Cardinality({}) = 0
      BY FS_EmptySet
    <3> QED
      BY <3>1, <3>2, <3>3
  <2>2. \A e \in Bases : policy.reserved[e] =
           Cardinality({i \in DOMAIN m.path : m.path[i].edge = e}) + (IF m.loose = e THEN 1 ELSE 0)
    <3>1. \A e \in Bases : policy.reserved[e] =
             Cardinality(Over(m.path, 0, e)) + (IF m.loose = e THEN 1 ELSE 0)
      BY <1>1, IInvParts DEF Lent
    <3>2. \A e : Over(m.path, 0, e) = {i \in DOMAIN m.path : m.path[i].edge = e}
      BY <1>1, IInvParts DEF Over
    <3> QED
      BY <3>1, <3>2
  <2>3. pc # "descend" => (m.work # 0 <=> m.asked # NoHandle)
    BY <1>1 DEF IInv
  <2> QED
    BY <2>1, <2>2, <2>3 DEF LedgerMatches
<1> QED
  BY <1>1, AlwaysKept, PTL

\* EndsBalanced: when the controller has ended the search, the request is taken back and
\* protections, leases and work are settled.
THEOREM EndsInBalance == Spec => []EndsBalanced
<1>1. ASSUME IInv, pc = "over"
      PROVE  Balanced(X) /\ request = "free"
  <2>1. m.asked = NoHandle /\ m.work = 0 /\ request = "free"
    BY <1>1 DEF IInv
  <2>2. Kempt(X) /\ X.m = m
    BY <1>1, IInvParts DEF IInv
  <2>3. m.path = <<>> /\ m.loose = NoEdge
    BY <2>1, <2>2, WorkLoose
  <2>4. m.begun \in Int /\ m.ended \in Int
    BY <1>1, IInvParts, ProgressAssumption DEF Records
  <2>5. m.begun = m.ended
    BY <2>1, <2>2, <2>4 DEF Kempt
  <2>6. m.evaluations = 0 /\ m.protections = Len(m.path) - 0
    BY <1>1, <2>1, IInvParts DEF Guarded
  <2>7. m.leases = Cardinality(Leasing(m.path, 0)) + 0
    BY <1>1, <2>3, IInvParts DEF Lent
  <2>8. Len(<<>>) = 0 /\ Cardinality(Leasing(<<>>, 0)) = 0
    BY NoneAhead
  <2>9. m.protections = 0 /\ m.leases = 0
    BY ONLY <2>3, <2>6, <2>7, <2>8
  <2> QED
    BY <2>1, <2>2, <2>3, <2>5, <2>6, <2>9 DEF Balanced
<1>2. IInv => EndsBalanced
  BY <1>1 DEF EndsBalanced
<1> QED
  BY <1>2, AlwaysKept, PTL

\* TypeOK: every word keeps its range; in particular a node is protected at most
\* once for each place of the path and pinned only inside a call.
THEOREM TypeCorrect == Spec => []TypeOK
<1>1. ASSUME IInv
      PROVE  TypeOK
  <2> DEFINE g == m.graph
  <2>1. /\ g \in Graphs /\ g.nodes \in [Slots -> Nodes] /\ g.edges \in [Bases -> Edges]
        /\ g.high \in 0 .. NodeCapacity /\ Generations = Gens /\ Rooted(X) /\ X.m = m
        /\ m \in Records /\ m.path \in Seq(Occurrences)
    BY <1>1, IInvParts DEF Graphs
  <2>2. g.root \in Slots
    <3>1. g.root \in 0 .. g.high - 1
      BY <2>1 DEF Rooted, Valid
    <3> HIDE DEF g
    <3> QED
      BY ONLY <2>1, <3>1, GraphConstants DEF Slots
  <2>3. ASSUME NEW n \in Slots
        PROVE  /\ g.nodes[n].path \in 0 .. PathDepth /\ g.nodes[n].eval \in 0 .. 1
               /\ g.nodes[n].pin = 0
    <3>1. /\ g.nodes[n].path = Cardinality(At(m.path, 0, n)) /\ g.nodes[n].pin = 0
          /\ g.nodes[n].eval = 0 \/ g.nodes[n].eval = 1
      BY <1>1, IInvParts DEF Guarded
    <3>2. At(m.path, 0, n) \subseteq 1 .. Len(m.path) /\ Len(m.path) \in Nat
      BY <2>1 DEF At, Ahead
    <3>3. IsFiniteSet(1 .. Len(m.path)) /\ Cardinality(1 .. Len(m.path)) = Len(m.path)
      <4>1. Len(m.path) \in Int
        BY <3>2
      <4>2. IF 1 > Len(m.path) THEN Cardinality(1 .. Len(m.path)) = 0
            ELSE Cardinality(1 .. Len(m.path)) = Len(m.path) - 1 + 1
        BY <4>1, FS_Interval
      <4>3. IsFiniteSet(1 .. Len(m.path))
        BY <4>1, FS_Interval
      <4> QED
        BY <3>2, <4>2, <4>3
    <3>4. /\ Cardinality(At(m.path, 0, n)) <= Cardinality(1 .. Len(m.path))
          /\ IsFiniteSet(At(m.path, 0, n))
      BY <3>2, <3>3, FS_Subset
    <3>5. Cardinality(At(m.path, 0, n)) \in Nat
      BY <3>4, FS_CardinalityType
    <3>6. Len(m.path) <= PathDepth /\ PathDepth \in Nat
      BY <1>1, IInvParts, ProgressAssumption
    <3>7. Cardinality(At(m.path, 0, n)) \in 0 .. PathDepth
      BY ONLY <3>2, <3>3, <3>4, <3>5, <3>6
    <3> QED
      BY <3>1, <3>7
  <2>4. ASSUME NEW e \in Bases
        PROVE  g.edges[e].lease \in 0 .. MaxWork
    <3>1. g.edges[e] \in Edges /\ g.edges[e].lease <= MaxWork
      BY <1>1, <2>1, IInvParts DEF Lent
    <3>2. g.edges[e].lease \in Nat /\ MaxWork \in Nat
      BY <3>1, ProgressAssumption DEF Edges
    <3> QED
      BY <3>1, <3>2
  <2>5. g.nodes \in [Slots -> [pub: BOOLEAN, gen: Generations, state: States \cup {NoState},
                               span: Bases \cup {NoSpan}, count: 0 .. MaxActions,
                               path: 0 .. PathDepth, eval: 0 .. 1, pin: {0}, ref: BOOLEAN,
                               next: Slots \cup {NoNode}]]
    <3>1. ASSUME NEW n \in Slots
          PROVE  g.nodes[n] \in [pub: BOOLEAN, gen: Generations, state: States \cup {NoState},
                               span: Bases \cup {NoSpan}, count: 0 .. MaxActions,
                               path: 0 .. PathDepth, eval: 0 .. 1, pin: {0}, ref: BOOLEAN,
                               next: Slots \cup {NoNode}]
      <4>1. g.nodes[n] \in Nodes /\ Generations = Gens
        BY <2>1
      <4>2. g.nodes[n].path \in 0 .. PathDepth /\ g.nodes[n].eval \in 0 .. 1 /\ g.nodes[n].pin = 0
        BY <2>3
      <4> HIDE DEF g
      <4> QED
        BY ONLY <4>1, <4>2 DEF Nodes, Links
    <3> HIDE DEF g
    <3> QED
      BY <2>1, <3>1
  <2>6. g.edges \in [Bases -> [pub: BOOLEAN, parent: Slots, parentGen: Generations,
                               child: Slots \cup {NoNode}, childGen: Generations,
                               lease: 0 .. MaxWork, gen: Generations]]
    <3>1. ASSUME NEW e \in Bases
          PROVE  g.edges[e] \in [pub: BOOLEAN, parent: Slots, parentGen: Generations,
                               child: Slots \cup {NoNode}, childGen: Generations,
                               lease: 0 .. MaxWork, gen: Generations]
      <4>1. g.edges[e] \in Edges /\ Generations = Gens
        BY <2>1
      <4>2. g.edges[e].lease \in 0 .. MaxWork
        BY <2>4
      <4> HIDE DEF g
      <4> QED
        BY ONLY <4>1, <4>2 DEF Edges
    <3> HIDE DEF g
    <3> QED
      BY <2>1, <3>1
  <2>7. m.path \in Seq([node: Slots, gen: Generations, edge: Bases \cup {NoEdge},
                       edgeGen: Generations, prepared: {FALSE}])
    <3> DEFINE Quiet == [node: Slots, gen: Generations, edge: Bases \cup {NoEdge},
                         edgeGen: Generations, prepared: {FALSE}]
    <3>1. ASSUME NEW i \in 1 .. Len(m.path)
          PROVE  m.path[i] \in Quiet
      <4>1. m.path[i] \in Occurrences /\ ~m.path[i].prepared /\ Generations = Gens
        BY <1>1, <2>1, IInvParts
      <4> QED
        BY ONLY <4>1 DEF Occurrences, Quiet
    <3>2. Len(m.path) \in Nat /\ m.path \in [1 .. Len(m.path) -> Occurrences]
      BY <2>1
    <3> HIDE DEF Quiet
    <3>3. m.path \in [1 .. Len(m.path) -> Quiet]
      BY <3>1, <3>2
    <3>4. m.path \in Seq(Quiet)
      BY <3>2, <3>3, SeqDef
    <3> QED
      BY <3>4 DEF Quiet
  <2>8. /\ {m.cur, m.asked} \subseteq Handles \cup {NoHandle}
        /\ {m.stop, m.first, m.drain} \subseteq {0, 2, 6, 8, 11, 14}
    BY <2>1 DEF Records, Causes
  <2>9. request \in {"free", "queued", "ready", "failed", "cancelled"}
    BY <1>1 DEF IInv
  <2> QED
    BY <2>1, <2>2, <2>5, <2>6, <2>7, <2>8, <2>9 DEF TypeOK
<1> QED
  BY <1>1, AlwaysKept, PTL

\* ArenaDivided: spanAllocate and spanFree keep the edge arena divided between live nodes
\* and free blocks, cell by cell, and spanFind refuses a length only when no run is left.
THEOREM ArenaStaysDivided == Spec => []ArenaDivided
<1>1. ASSUME IInv
      PROVE  ArenaDivided
  <2> DEFINE g == m.graph
  <2>1. GraphInv(g) /\ Live = LiveOf(g)
    BY <1>1, IInvParts
  <2>2. UNION {Candidates(g, n) : n \in Live} = CandidateSet(g)
    BY <2>1 DEF CandidateSet
  <2>3. /\ WellLinked(g.spans) /\ FreeCells(g.spans) = Bases \ CandidateSet(g)
        /\ \A n \in 1 .. MaxActions :
              SpanFind(g.spans, n) = NoSpan
                  <=> \A b \in Bases : ~(Cells(b, n) \subseteq FreeCells(g.spans))
    BY <2>1, DividedLemma
  <2>4. \A k, n \in Live : k # n => Candidates(g, k) \cap Candidates(g, n) = {}
    BY SMTT(30), <2>1, CandidatesLemma
  <2>5. \A n \in Live : \A e \in Candidates(g, n) :
           g.edges[e].pub /\ g.edges[e].parent = n /\ g.edges[e].parentGen = g.nodes[n].gen
    BY <2>1 DEF GraphInv, Bred, Rightful
  <2>6. g.live = Cardinality(Live) /\ g.liveEdges = Cardinality(CandidateSet(g))
    BY <2>1 DEF GraphInv, Counted
  <2> HIDE DEF g
  <2>7. /\ WellLinked(g.spans)
        /\ \A k, n \in Live : k # n => Candidates(g, k) \cap Candidates(g, n) = {}
        /\ FreeCells(g.spans) = Bases \ UNION {Candidates(g, n) : n \in Live}
        /\ \A length \in 1 .. MaxActions :
              SpanFind(g.spans, length) = NoSpan
                  <=> \A b \in Bases : ~(Cells(b, length) \subseteq FreeCells(g.spans))
        /\ \A n \in Live : \A e \in Candidates(g, n) :
              g.edges[e].pub /\ g.edges[e].parent = n /\ g.edges[e].parentGen = g.nodes[n].gen
        /\ g.live = Cardinality(Live)
        /\ g.liveEdges = Cardinality(UNION {Candidates(g, n) : n \in Live})
    BY <2>2, <2>3, <2>4, <2>5, <2>6
  <2> QED
    BY <2>7 DEF ArenaDivided, g
<1> QED
  BY <1>1, AlwaysKept, PTL
=============================================================================
