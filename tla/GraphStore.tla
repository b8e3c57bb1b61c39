----------------------------- MODULE GraphStore ------------------------------
(***************************************************************************)
(* The words of the resident graph and what its functions make of them:    *)
(* nodes with generations, candidate edges in contiguous spans, a hash     *)
(* table of the states that have a node, and a second-chance clock that    *)
(* reclaims one node at a time.                                            *)
(*                                                                         *)
(* Source: components/search-compiler/src/resident-graph.mjs, valid to     *)
(* realize.  A graph is a record of those words; each operator gives the   *)
(* graph after the call and what the call returned.  Domain and Policy     *)
(* hooks are constants or arguments: a state has a key and the moves that  *)
(* lead out of it, and a retirement may be refused.                        *)
(***************************************************************************)
EXTENDS Spans, Sequences

CONSTANTS
    NodeCapacity,   \* node slots
    TTCapacity,     \* entries of the hash table
    TTProbes,       \* entries looked at from the key's own one
    States,         \* states of the domain
    Malformed,      \* states that validateRoot refuses
    Unplayable,     \* states whose outcome or actions are refused
    Moves,          \* the successors of a state, empty when it is terminal
    Key,            \* the hash of a state
    MaxGeneration,  \* stands for 4294967294, the last generation of a slot
    NoState         \* the zeroed state words of a slot never used

ASSUME GraphAssumption ==
    /\ {NodeCapacity, TTCapacity, TTProbes, MaxGeneration} \subseteq Nat \ {0}
    /\ TTProbes <= TTCapacity /\ Malformed \subseteq States /\ Unplayable \subseteq States
    /\ Moves \in [States -> Seq(States)] /\ Key \in [States -> Nat]
    /\ \A s \in States : Len(Moves[s]) <= MaxActions

Slots == 0 .. NodeCapacity - 1
Entries == 0 .. TTCapacity - 1
NoNode == -1      \* 4294967295 in the code

\* A slot, an edge and an entry never used.
FreshNode == [pub |-> FALSE, gen |-> 0, state |-> NoState, span |-> 0, count |-> 0,
              path |-> 0, eval |-> 0, pin |-> 0, ref |-> FALSE, next |-> 0]
FreshEdge == [pub |-> FALSE, parent |-> 0, parentGen |-> 0, child |-> 0, childGen |-> 0,
              lease |-> 0, gen |-> 0]
FreshEntry == [status |-> 0, key |-> 0, slot |-> 0, gen |-> 0]

Empty == 0
Used == 1
Tombstone == 2

\* The graph after initialize.
EmptyGraph ==
    [spans |-> SpanInit, nodes |-> [n \in Slots |-> FreshNode],
     edges |-> [e \in Bases |-> FreshEdge], tt |-> [i \in Entries |-> FreshEntry],
     high |-> 0, free |-> NoNode, clock |-> 0, root |-> NoNode, rootGen |-> 0,
     live |-> 0, liveEdges |-> 0]

Valid(g, slot, gen) ==
    /\ slot \in 0 .. g.high - 1 /\ gen # 0
    /\ g.nodes[slot].pub /\ g.nodes[slot].gen = gen

Candidates(g, n) ==
    IF g.nodes[n].count = 0 THEN {} ELSE Cells(g.nodes[n].span, g.nodes[n].count)

-----------------------------------------------------------------------------
(* The hash table.                                                         *)

Index(s, j) == (Key[s] + j) % TTCapacity
Current(g, t) == t.status = Used /\ Valid(g, t.slot, t.gen)
Names(g, t, s) == Current(g, t) /\ t.key = Key[s] /\ g.nodes[t.slot].state = s

\* Entries of dead nodes among the first `probes` of s become tombstones.
Buried(g, s, probes) ==
    [g EXCEPT !.tt = [i \in Entries |->
        IF /\ \E j \in 0 .. TTProbes - 1 : j < probes /\ i = Index(s, j)
           /\ g.tt[i].status = Used /\ ~Current(g, g.tt[i])
        THEN [g.tt[i] EXCEPT !.status = Tombstone] ELSE g.tt[i]]]

\* The first probe with P, or TTProbes.
FirstProbe(P(_)) ==
    LET hits == {j \in 0 .. TTProbes - 1 : P(j)}
    IN  IF hits = {} THEN TTProbes ELSE CHOOSE j \in hits : \A k \in hits : j <= k

\* The lookup ends at an entry never used, or at the node of s.
Lookup(g, s) ==
    LET last == FirstProbe(LAMBDA j : \/ g.tt[Index(s, j)].status = Empty
                                      \/ Names(g, g.tt[Index(s, j)], s))
        found == last < TTProbes /\ g.tt[Index(s, last)].status # Empty
    IN  [graph |-> Buried(g, s, last),
         slot |-> IF found THEN g.tt[Index(s, last)].slot ELSE NoNode]

\* Mutant of TTVacancy: the first entry is taken, whatever is in it.
TTVacancyFirst(g, s) == [graph |-> Buried(g, s, 1), probe |-> 0]

\* The first entry that holds no live node.
TTVacancy(g, s) ==
    LET last == FirstProbe(LAMBDA j : ~Current(g, g.tt[Index(s, j)]))
    IN  [graph |-> Buried(g, s, last + 1), probe |-> last]

-----------------------------------------------------------------------------
(* Reclamation.                                                            *)

\* Mutant of Protected: an occurrence on the path does not protect its node.
ProtectedOffPath(g, n) == n = g.root \/ g.nodes[n].eval # 0 \/ g.nodes[n].pin # 0

Protected(g, n) ==
    n = g.root \/ g.nodes[n].path # 0 \/ g.nodes[n].eval # 0 \/ g.nodes[n].pin # 0

SpansWithout(g, n) ==
    IF g.nodes[n].count = 0 THEN g.spans
    ELSE SpanFree(g.spans, g.nodes[n].span, g.nodes[n].count)

\* The node leaves: its edges, its span, its slot.
Retire(g, n) ==
    [g EXCEPT !.edges = [e \in Bases |-> IF e \in Candidates(g, n)
                                         THEN [g.edges[e] EXCEPT !.pub = FALSE] ELSE g.edges[e]],
              !.spans = SpansWithout(g, n),
              !.nodes[n] = [@ EXCEPT !.pub = FALSE, !.next = g.free], !.free = n,
              !.live = @ - 1, !.liveEdges = @ - g.nodes[n].count]

\* One candidate of the clock: it leaves unless it is protected, was used since
\* the clock last passed, or its Policy records cannot be retired.
Pass(g, n) == [g EXCEPT !.clock = (n + 1) % g.high]

Candidate(g, n, retires) ==
    IF ~g.nodes[n].pub \/ Protected(g, n) THEN g
    ELSE IF g.nodes[n].ref THEN [g EXCEPT !.nodes[n].ref = FALSE]
    ELSE IF retires THEN Retire(g, n) ELSE g

ReclaimOne(g, retires) ==
    LET n == IF g.clock >= g.high THEN 0 ELSE g.clock
    IN  IF g.high = 0 THEN g ELSE Candidate(Pass(g, n), n, retires)

-----------------------------------------------------------------------------
(* Admission and realization.                                              *)

NoRoom(g) == g.free = NoNode /\ g.high >= NodeCapacity
NoSpace(g, s) == Moves[s] # <<>> /\ SpanFind(g.spans, Len(Moves[s])) = NoSpan

NextGeneration(g, slot) == g.nodes[slot].gen + 1

\* The free slot used last, or the next unused one.
NextSlot(g) == IF g.free = NoNode THEN g.high ELSE g.free

\* Mutant of Candidacy: the edge keeps the child of its last incarnation.
CandidacyKept(edge, slot, gen) ==
    [edge EXCEPT !.pub = TRUE, !.parent = slot, !.parentGen = gen, !.lease = 0, !.gen = @ + 1]

\* An edge that becomes a candidate of the node in that slot.
Candidacy(edge, slot, gen) ==
    [pub |-> TRUE, parent |-> slot, parentGen |-> gen, child |-> NoNode, childGen |-> 0,
     lease |-> 0, gen |-> edge.gen + 1]

\* The node of s in that slot, its candidates in the span cut for them.
Written(g, s, slot, gen, base, entry) ==
    [g EXCEPT
      !.high = IF g.free = NoNode THEN @ + 1 ELSE @,
      !.free = IF g.free = NoNode THEN @ ELSE g.nodes[slot].next,
      !.nodes[slot] = [pub |-> TRUE, gen |-> gen, state |-> s, span |-> base,
                       count |-> Len(Moves[s]), path |-> 0, eval |-> 0, pin |-> 0, ref |-> TRUE,
                       next |-> @.next],
      !.edges = [e \in Bases |->
                   IF base = NoSpan \/ e \notin Cells(base, Len(Moves[s])) THEN g.edges[e]
                   ELSE Candidacy(g.edges[e], slot, gen)],
      !.tt[entry] = [status |-> Used, key |-> Key[s], slot |-> slot, gen |-> gen],
      !.live = @ + 1, !.liveEdges = @ + Len(Moves[s])]

PlaceAt(g, s, cut, entry) ==
    Written([g EXCEPT !.spans = cut.store], s, NextSlot(g), NextGeneration(g, NextSlot(g)),
            cut.base, entry)

Place(g, s, entry) ==
    IF Moves[s] = <<>> THEN PlaceAt(g, s, [store |-> g.spans, base |-> NoSpan], entry)
    ELSE PlaceAt(g, s, SpanAllocate(g.spans, SpanFind(g.spans, Len(Moves[s])), Len(Moves[s])), entry)

\* What a call returns, with the error it leaves in m[10].
Refusal(g, error) == [graph |-> g, slot |-> NoNode, error |-> error]
Success(g, slot) == [graph |-> g, slot |-> slot, error |-> 0]

\* A slot, or an edge of the span, whose generations are used up.
Exhausted(g, s) ==
    \/ g.nodes[NextSlot(g)].gen >= MaxGeneration
    \/ /\ Moves[s] # <<>>
       /\ \E e \in Cells(SpanFind(g.spans, Len(Moves[s])), Len(Moves[s])) :
             g.edges[e].gen >= MaxGeneration

Short(g, s, probe) == NoRoom(g) \/ probe = TTProbes \/ NoSpace(g, s)

\* When something is short, one candidate of the clock is tried.
MadeRoom(v, s, retires) ==
    IF Short(v.graph, s, v.probe) THEN TTVacancy(ReclaimOne(v.graph, retires), s) ELSE v

AdmitInto(g, s, probe) ==
    IF NoRoom(g) THEN Refusal(g, 3)
    ELSE IF NoSpace(g, s) THEN Refusal(g, 4)
    ELSE IF probe = TTProbes THEN Refusal(g, 12)
    ELSE IF Exhausted(g, s) THEN Refusal(g, 10)
    ELSE Success(Place(g, s, Index(s, probe)), NextSlot(g))

AdmitVacant(v, s) == AdmitInto(v.graph, s, v.probe)

AdmitSeen(seen, s, retires) ==
    IF seen.slot # NoNode
    THEN Success([seen.graph EXCEPT !.nodes[seen.slot].ref = TRUE], seen.slot)
    ELSE IF s \in Unplayable THEN Refusal(seen.graph, 7)
    ELSE AdmitVacant(MadeRoom(TTVacancy(seen.graph, s), s, retires), s)

\* The node that stands for s, an old one or a new one, or a refusal.
Admit(g, s, retires) ==
    IF s \in Malformed THEN Refusal(g, 7) ELSE AdmitSeen(Lookup(g, s), s, retires)

Pinned(g, n) == [g EXCEPT !.nodes[n].pin = @ + 1]

\* Mutant of Unpinned: a refused admission leaves its parent pinned.
UnpinnedNever(g, n) == g

Unpinned(g, n) == [g EXCEPT !.nodes[n].pin = @ - 1]

Linked(g, e, child) ==
    [g EXCEPT !.edges[e].child = child, !.edges[e].childGen = g.nodes[child].gen]

\* The state an edge leads to.
Successor(g, e) ==
    LET n == g.edges[e].parent IN Moves[g.nodes[n].state][e - g.nodes[n].span + 1]

\* The admitted child, or its refusal, reaches the edge; the parent is let go.
Reached(got, e, parent) ==
    IF got.slot = NoNode THEN Refusal(Unpinned(got.graph, parent), got.error)
    ELSE Success(Linked(Unpinned(got.graph, parent), e, got.slot), got.slot)

\* The child of an edge: the live one it names, or an admission from its parent,
\* which stays pinned.  The domain's transition may fail: 1 an invalid move (7),
\* 2 pressure (13), 3 a broken contract (11, and the search stops).
Realize(g, e, disposition, retires) ==
    LET edge == g.edges[e] IN
    IF ~edge.pub \/ ~Valid(g, edge.parent, edge.parentGen) THEN Refusal(g, 6)
    ELSE IF edge.child # NoNode /\ Valid(g, edge.child, edge.childGen)
         THEN Success([g EXCEPT !.nodes[edge.child].ref = TRUE], edge.child)
    ELSE IF disposition # 0
         THEN Refusal(g, CASE disposition = 1 -> 7 [] disposition = 2 -> 13 [] disposition = 3 -> 11)
    ELSE Reached(Admit(Pinned(g, edge.parent), Successor(g, e), retires), e, edge.parent)
=============================================================================
