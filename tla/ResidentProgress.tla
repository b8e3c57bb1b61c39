-------------------------- MODULE ResidentProgress --------------------------
(***************************************************************************)
(* The work of the resident search on its graph.  A round is three kernels *)
(* one after the other: control applies a packet of the session, body      *)
(* serves the evaluator, and the controller takes the answer, descends     *)
(* from the focus and backs up; then it repeats itself or ends the search. *)
(*                                                                         *)
(* All of this runs on one device thread.  What interleaves are packets,   *)
(* answers of the evaluator, refusals of the Domain's and the Policy's     *)
(* hooks and the limits of the graph, against what a piece of work holds   *)
(* from round to round: protections, leases, prepared records, a request.  *)
(*                                                                         *)
(* Source: components/search-compiler/src/resident-progress.mjs, with its  *)
(* callers in resident-entries.mjs and apply in resident-session-output.mjs.*)
(***************************************************************************)
EXTENDS GraphStore, FiniteSets

CONSTANTS
    Start,       \* the root the search is ignited with
    Roots,       \* the roots the host may submit afterwards
    PathDepth,   \* longest path
    MaxWork      \* pieces of work the search may begin

ASSUME ProgressAssumption ==
    /\ Start \in States \ (Malformed \union Unplayable) /\ Roots \subseteq States
    /\ {PathDepth, MaxWork} \subseteq Nat \ {0}

VARIABLES
    m,        \* the metadata words: the graph and the records of Progress
    policy,   \* what the Policy was told: backups prepared, leases reserved
    request,  \* the state of the evaluator's one request
    cancel,   \* the cancel word of the authority
    pc        \* where the device thread is

vars == <<m, policy, request, cancel, pc>>

NoEdge == -1
Handle(g, n) == [node |-> n, gen |-> g.nodes[n].gen]
NoHandle == [node |-> NoNode, gen |-> 0]
Commit(g, n) == [g EXCEPT !.root = n, !.rootGen = g.nodes[n].gen]

\* The records of Progress: the path from the focus, the piece of work, the edge
\* leased last, the node to go to, the node under evaluation and the totals.
\* first is the cause that is reported, drain what goes wrong after it.
Idle(g) ==
    [graph |-> g, path |-> <<>>, work |-> 0, begun |-> 0, ended |-> 0,
     loose |-> NoEdge, looseGen |-> 0, cur |-> NoHandle, asked |-> NoHandle,
     protections |-> 0, evaluations |-> 0, leases |-> 0,
     stop |-> 0, first |-> 0, drain |-> 0, final |-> FALSE]

Init ==
    /\ \E got \in {Admit(EmptyGraph, Start, TRUE)} :
          got.slot # NoNode /\ m = Idle(Commit(got.graph, got.slot))
    /\ policy = [prepared |-> [n \in Slots |-> 0], reserved |-> [e \in Bases |-> 0]]
    /\ request = "free" /\ cancel = FALSE /\ pc = "control"

-----------------------------------------------------------------------------
(* Functions of the words and the Policy's records: x is [m, policy].      *)

X == [m |-> m, policy |-> policy]
Becomes(x) == m' = x.m /\ policy' = x.policy

\* emitResidentStop.  The stop word keeps the last cause.
Stop(x, cause) ==
    [x EXCEPT !.m.first = IF @ = 0 THEN cause ELSE @,
              !.m.drain = IF x.m.final /\ @ = 0 THEN cause ELSE @,
              !.m.stop = cause]

\* ... for a failure of the drain itself.
DrainStop(x, cause) == [Stop(x, cause) EXCEPT !.m.drain = IF x.m.drain = 0 THEN cause ELSE x.m.drain]

Leased(x, e, gen) == x.m.graph.edges[e].lease = x.m.work /\ x.m.graph.edges[e].gen = gen

\* A lease goes back to the edge and the Policy, once.
Release(x, e, gen) ==
    IF ~Leased(x, e, gen) THEN DrainStop(x, 11)
    ELSE [x EXCEPT !.m.graph.edges[e].lease = 0, !.m.leases = @ - 1, !.policy.reserved[e] = @ - 1]

Unprotect(x, r) ==
    IF ~Valid(x.m.graph, r.node, r.gen) \/ x.m.graph.nodes[r.node].path = 0 THEN DrainStop(x, 11)
    ELSE [x EXCEPT !.m.graph.nodes[r.node].path = @ - 1, !.m.protections = @ - 1]

\* A prepared record is completed, or abandoned.
Forget(x, r) == IF r.prepared THEN [x EXCEPT !.policy.prepared[r.node] = @ - 1] ELSE x

\* One occurrence on the path lets go of what it holds.
LetGo(x, r) ==
    LET y == Forget(x, r)
    IN  Unprotect(IF r.edge = NoEdge THEN y ELSE Release(y, r.edge, r.edgeGen), r)

\* Mutant of Loosened: the lease of an edge no child was found for is lost.
LoosenedNot(x) == x

\* The edge leased last, when the path does not hold it yet.
Loosened(x) == IF x.m.loose = NoEdge THEN x ELSE Release(x, x.m.loose, x.m.looseGen)

\* The occurrences let go one after the other, from the first.
LetAllGo(x) ==
    LET left[j \in 0 .. Len(x.m.path)] == IF j = 0 THEN x ELSE LetGo(left[j - 1], x.m.path[j])
    IN  left[Len(x.m.path)]

\* The work ends: everything it holds is given back.
Dispose(x) ==
    IF x.m.work = 0 THEN x
    ELSE [Loosened(LetAllGo(x)) EXCEPT
            !.m.path = <<>>, !.m.loose = NoEdge, !.m.work = 0, !.m.ended = @ + 1]

Broken(x, cause) == Dispose(Stop(x, cause))

Firsts(path) == {j \in DOMAIN path : \A k \in 1 .. j - 1 : path[k].node # path[j].node}

Prepared(x, occurrences) ==
    [x EXCEPT !.m.path = [j \in DOMAIN @ |-> [@[j] EXCEPT !.prepared = j \in occurrences]],
              !.policy.prepared = [n \in Slots |->
                 @[n] + Cardinality({j \in occurrences : x.m.path[j].node = n})]]

\* What a backup looks at in every occurrence before it applies it.
Intact(x) ==
    \A j \in DOMAIN x.m.path :
        LET r == x.m.path[j]
            edge == x.m.graph.edges[r.edge]
        IN  /\ Valid(x.m.graph, r.node, r.gen)
            /\ r.edge # NoEdge =>
                 /\ Leased(x, r.edge, r.edgeGen)
                 /\ edge.child = r.node /\ edge.childGen = r.gen
                 /\ Valid(x.m.graph, edge.parent, edge.parentGen)

\* Every node is prepared once, and applied once for each occurrence.  The
\* Policy may refuse to prepare a node, or fail to apply one.
Backup(x) ==
    LET firsts == Firsts(x.m.path)
        ready == Prepared(x, firsts)
    IN  {Broken(Prepared(x, {k \in firsts : k < j}), 8) : j \in firsts}
          \union {Broken(ready, 11)}
          \union {IF Intact(ready) THEN Dispose(ready) ELSE Broken(ready, 11)}

-----------------------------------------------------------------------------
(* control: one packet, then the latch and the evaluator's cancel.         *)

Latched(x, cancelled) ==
    [x EXCEPT !.m.first = IF @ # 0 THEN @ ELSE IF x.m.stop # 0 THEN x.m.stop
                          ELSE IF cancelled THEN 2 ELSE 0]

\* Only a request that no batch took yet can be cancelled between kernels.
Cancelled(state) == IF state = "queued" THEN "cancelled" ELSE state

Controlled(x, cancelled) ==
    /\ pc = "control" /\ pc' = "body"
    /\ Becomes(Latched(x, cancelled)) /\ cancel' = cancelled
    /\ request' = IF cancelled /\ m.asked # NoHandle THEN Cancelled(request) ELSE request

NoPacket == Controlled(X, FALSE)
CancelPacket == Controlled(X, TRUE)

\* The moves of an admission cannot be replayed: the search stops.
ReplayFails == Controlled(Stop(X, 11), FALSE)

\* The focus moves unless the Output has no slot to announce it; an
\* announcement that fails afterwards stops the search.
Focused(x, n) ==
    LET moved == [x EXCEPT !.m.graph = Commit(@, n)] IN {x, moved, Stop(moved, 11)}

AdmitFocus(s, retires) ==
    LET got == Admit(m.graph, s, retires)
        x == [X EXCEPT !.m.graph = got.graph]
    IN  \E y \in IF got.slot = NoNode THEN {x} ELSE Focused(x, got.slot) : Controlled(y, FALSE)

AdvanceFocus(e) ==
    /\ e \in Candidates(m.graph, m.graph.root)
    /\ Valid(m.graph, m.graph.edges[e].child, m.graph.edges[e].childGen)
    /\ \E y \in Focused(X, m.graph.edges[e].child) : Controlled(y, FALSE)

\* body: the request is served, put back for a later round, or fails.
Body ==
    /\ pc = "body" /\ pc' = "controller"
    /\ request' \in IF request = "queued" THEN {"queued", "ready", "failed"} ELSE {request}
    /\ UNCHANGED <<m, policy, cancel>>

-----------------------------------------------------------------------------
(* controller: consume, advance, repeat.                                   *)

\* Mutant of Settled: the evaluation is let go only when it was ready.
SettledReady(x) ==
    IF request = "ready"
    THEN [x EXCEPT !.m.graph.nodes[x.m.asked.node].eval = @ - 1, !.m.evaluations = @ - 1]
    ELSE x

\* The pin of the evaluation is let go, whatever the answer was.
Settled(x) ==
    LET n == x.m.asked.node
    IN  IF /\ Valid(x.m.graph, n, x.m.asked.gen)
           /\ x.m.graph.nodes[n].eval # 0 /\ x.m.evaluations # 0
        THEN [x EXCEPT !.m.graph.nodes[n].eval = @ - 1, !.m.evaluations = @ - 1]
        ELSE Stop(x, 11)

Answered(x) == [Settled(x) EXCEPT !.m.asked = NoHandle]

\* The answer is consumed and backed up, or it is no good and the work ends;
\* the Policy may refuse an answer that is ready.  No answer yet: nothing.
Consumed(x, state) ==
    LET good == Valid(x.m.graph, x.m.asked.node, x.m.asked.gen) /\ state = "ready"
        pinned == Settled(x).m.stop = x.m.stop
    IN  IF x.m.asked = NoHandle \/ state = "queued" THEN {[x |-> x, request |-> state]}
        ELSE {[x |-> y, request |-> "free"] : y \in
                IF good /\ pinned THEN Backup(Answered(x)) \union {Dispose(Answered(Stop(x, 8)))}
                ELSE {Dispose(Answered(x))}}

Controller ==
    /\ pc = "controller"
    /\ LET x == Latched(X, cancel)
       IN  \E c \in Consumed([x EXCEPT !.m.final = @ \/ x.m.first # 0], request) :
             /\ Becomes(c.x) /\ request' = c.request
             /\ pc' = IF ~cancel /\ c.x.m.stop = 0 THEN "advance" ELSE "repeat"
    /\ UNCHANGED cancel

Begin ==
    /\ pc = "advance" /\ m.asked = NoHandle /\ m.begun < MaxWork
    /\ Valid(m.graph, m.graph.root, m.graph.rootGen)
    /\ m' = [m EXCEPT !.begun = @ + 1, !.work = m.begun + 1, !.loose = NoEdge,
                      !.cur = [node |-> m.graph.root, gen |-> m.graph.rootGen]]
    /\ pc' = "descend"
    /\ UNCHANGED <<policy, request, cancel>>

\* No work is begun: one is pending, the Policy has enough, or none is left.
Rest ==
    /\ pc = "advance" /\ pc' = "repeat"
    /\ \/ Becomes(X)
       \/ m.asked = NoHandle /\ Becomes(Stop(X, 8))
    /\ UNCHANGED <<request, cancel>>

\* The node is pushed on the path and protected.
Pushed(x) ==
    LET n == x.m.cur.node
    IN  [x EXCEPT !.m.path = Append(@, [node |-> n, gen |-> x.m.cur.gen, edge |-> x.m.loose,
                                        edgeGen |-> x.m.looseGen, prepared |-> FALSE]),
                  !.m.loose = NoEdge, !.m.protections = @ + 1,
                  !.m.graph.nodes[n].path = @ + 1, !.m.graph.nodes[n].ref = TRUE]

Reachable == Len(m.path) < PathDepth /\ Valid(m.graph, m.cur.node, m.cur.gen)

\* The Domain relates a state to an equal one on the path.
Related(x) ==
    \E j \in 1 .. Len(x.m.path) - 1 :
        x.m.graph.nodes[x.m.path[j].node].state = x.m.graph.nodes[x.m.cur.node].state

Leaves(outcomes) ==
    /\ pc' = "repeat" /\ \E y \in outcomes : Becomes(y)
    /\ UNCHANGED <<request, cancel>>

\* A node that cannot be visited, and a hook that breaks its contract.
Fail ==
    /\ pc = "descend"
    /\ Leaves({IF Reachable THEN Broken(Pushed(X), 8) ELSE Broken(X, 6)})

\* A terminal node, or one the Policy classifies as backed up at once.
Leaf == pc = "descend" /\ Reachable /\ Leaves(Backup(Pushed(X)))

\* The node waits for its evaluation, or the evaluator takes no request.
Evaluate ==
    /\ pc = "descend" /\ Reachable
    /\ Moves[m.graph.nodes[m.cur.node].state] # <<>>
    /\ \/ /\ request = "free" /\ request' = "queued"
          /\ Becomes([Pushed(X) EXCEPT !.m.graph.nodes[m.cur.node].eval = @ + 1,
                                       !.m.evaluations = @ + 1, !.m.asked = m.cur])
          /\ pc' = "repeat" /\ UNCHANGED cancel
       \/ Leaves({Dispose(Pushed(X))})

\* One edge further, leased, to a child found or made.
Reserved(x, e) ==
    [x EXCEPT !.m.graph.edges[e].lease = x.m.work, !.m.leases = @ + 1, !.policy.reserved[e] = @ + 1,
              !.m.loose = e, !.m.looseGen = x.m.graph.edges[e].gen]

Descend(e, disposition, retires) ==
    LET x == Pushed(X)
        y == Reserved(x, e)
        got == Realize(y.m.graph, e, disposition, retires)
        z == [y EXCEPT !.m.graph = got.graph]
    IN  /\ pc = "descend" /\ Reachable
        /\ ~Related(x) /\ Len(x.m.path) < PathDepth
        /\ e \in Candidates(m.graph, m.cur.node)
        /\ IF got.slot = NoNode
           THEN Leaves({IF got.error = 11 THEN Broken(z, 11) ELSE Dispose(z)})
           ELSE /\ Becomes([z EXCEPT !.m.cur = Handle(got.graph, got.slot)])
                /\ UNCHANGED <<request, cancel, pc>>

Repeat ==
    /\ pc = "repeat" /\ ~cancel /\ m.stop = 0 /\ pc' = "control"
    /\ UNCHANGED <<m, policy, request, cancel>>

Balanced(x) ==
    /\ x.m.path = <<>> /\ x.m.work = 0 /\ x.m.begun = x.m.ended
    /\ x.m.protections = 0 /\ x.m.evaluations = 0 /\ x.m.leases = 0

\* The search ends, stopped, cancelled or out of rounds: it cancels and takes
\* the request, disposes of the work and says what it could not balance.
Finale ==
    /\ pc = "repeat" /\ pc' = "over"
    /\ LET x == Latched(X, cancel)
           y == [x EXCEPT !.m.first = IF @ = 0 THEN 14 ELSE @, !.m.final = TRUE]
       IN  \E c \in Consumed(y, Cancelled(request)) :
             LET z == Dispose(c.x)
                 late == IF z.m.stop # 0 /\ z.m.stop # z.m.first THEN z.m.stop ELSE 0
                 odd == IF Balanced(z) /\ c.request = "free" THEN 0 ELSE 11
             IN  /\ Becomes([z EXCEPT !.m.final = FALSE,
                          !.m.drain = IF @ # 0 THEN @ ELSE IF late # 0 THEN late ELSE odd])
                 /\ request' = c.request
    /\ UNCHANGED cancel

Next ==
    \/ NoPacket \/ CancelPacket \/ ReplayFails
    \/ \E s \in Roots, retires \in BOOLEAN : AdmitFocus(s, retires)
    \/ \E e \in Bases : AdvanceFocus(e)
    \/ Body \/ Controller \/ Begin \/ Rest \/ Fail \/ Leaf \/ Evaluate
    \/ \E e \in Bases, disposition \in {0, 1, 3}, retires \in BOOLEAN : Descend(e, disposition, retires)
    \/ Repeat \/ Finale

Spec == Init /\ [][Next]_vars

-----------------------------------------------------------------------------
Generations == 0 .. MaxGeneration
Handles == [node: Slots, gen: Generations]
Live == {n \in Slots : m.graph.nodes[n].pub}
OnPath(n) == Cardinality({i \in DOMAIN m.path : m.path[i].node = n})

\* The type invariant of the graph's words, the records and the request.
TypeOK ==
    /\ m.graph.nodes \in [Slots -> [pub: BOOLEAN, gen: Generations, state: States \cup {NoState},
                                    span: Bases \cup {NoSpan}, count: 0 .. MaxActions,
                                    path: 0 .. PathDepth, eval: 0 .. 1, pin: {0}, ref: BOOLEAN,
                                    next: Slots \cup {NoNode}]]
    /\ m.graph.edges \in [Bases -> [pub: BOOLEAN, parent: Slots, parentGen: Generations,
                                    child: Slots \cup {NoNode}, childGen: Generations,
                                    lease: 0 .. MaxWork, gen: Generations]]
    /\ m.graph.high \in 0 .. NodeCapacity /\ m.graph.root \in Slots
    /\ m.path \in Seq([node: Slots, gen: Generations, edge: Bases \cup {NoEdge},
                       edgeGen: Generations, prepared: {FALSE}])
    /\ {m.cur, m.asked} \subseteq Handles \cup {NoHandle}
    /\ {m.stop, m.first, m.drain} \subseteq {0, 2, 6, 8, 11, 14}
    /\ request \in {"free", "queued", "ready", "failed", "cancelled"}

\* The spans of the live nodes and the free blocks divide the edge arena: no
\* candidate belongs to two nodes and no cell is lost, however nodes of
\* different sizes come and go; the live counters count them.  A length is
\* refused only when no free run is that long.
ArenaDivided ==
    LET g == m.graph IN
    /\ WellLinked(g.spans)
    /\ \A k, n \in Live : k # n => Candidates(g, k) \cap Candidates(g, n) = {}
    /\ FreeCells(g.spans) = Bases \ UNION {Candidates(g, n) : n \in Live}
    /\ \A length \in 1 .. MaxActions :
          SpanFind(g.spans, length) = NoSpan
              <=> \A b \in Bases : ~(Cells(b, length) \subseteq FreeCells(g.spans))
    /\ \A n \in Live : \A e \in Candidates(g, n) :
          g.edges[e].pub /\ g.edges[e].parent = n /\ g.edges[e].parentGen = g.nodes[n].gen
    /\ g.live = Cardinality(Live)
    /\ g.liveEdges = Cardinality(UNION {Candidates(g, n) : n \in Live})

\* A state has at most one live node, and a lookup of it finds that node, in
\* spite of tombstones, stale entries and a bounded number of probes.
OneNodePerState ==
    /\ \A k, n \in Live : m.graph.nodes[k].state = m.graph.nodes[n].state => k = n
    /\ \A n \in Live : Lookup(m.graph, m.graph.nodes[n].state).slot = n

\* A child reference of a live node's edge that still holds leads to the state
\* the move leads to: a slot used again is never taken for the child it held.
ChildIsSuccessor ==
    \A n \in Live : \A e \in Candidates(m.graph, n) :
        LET edge == m.graph.edges[e] IN
        Valid(m.graph, edge.child, edge.childGen)
            => m.graph.nodes[edge.child].state = Successor(m.graph, e)

\* The focus, every node on the path and the node under evaluation are live in
\* the incarnation they were taken in, and hold one protection per occurrence;
\* the edges of the path are leased and lead where they led on the way down: what a
\* backup looks at, with the node just reached or an answer much later, is in order.
HeldNodesLive ==
    /\ Valid(m.graph, m.graph.root, m.graph.rootGen)
    /\ Intact(X) /\ (pc = "descend" /\ Reachable => Intact(Pushed(X)))
    /\ m.asked # NoHandle => Valid(m.graph, m.asked.node, m.asked.gen)
    /\ \A n \in Live : m.graph.nodes[n].path = OnPath(n)

\* The Policy's ledger: between calls no backup stays prepared, and exactly the
\* edges on the path and the one leased last are reserved, each once, whatever
\* hook refused in the middle.  Work is left over only for a pending request.
LedgerMatches ==
    /\ \A n \in Slots : policy.prepared[n] = 0
    /\ \A e \in Bases : policy.reserved[e] =
          Cardinality({i \in DOMAIN m.path : m.path[i].edge = e}) + (IF m.loose = e THEN 1 ELSE 0)
    /\ pc # "descend" => (m.work # 0 <=> m.asked # NoHandle)

\* The search always ends balanced: the request is taken back, and protections,
\* leases and work are settled, so a drain failure never comes from these.
EndsBalanced == pc = "over" => Balanced(X) /\ request = "free"
=============================================================================
