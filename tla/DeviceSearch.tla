---------------------------- MODULE DeviceSearch ----------------------------
(***************************************************************************)
(* One launch of a device search over a graph that only grows, by either   *)
(* of the generated cores.  In the finite core one thread does everything. *)
(* In the cooperative core lane 0 of a block descends, commits and backs   *)
(* up; between two barriers all lanes answer the Policy's collective       *)
(* question about a frontier, and merge what they return by compare-and-   *)
(* swap on one word.  The host may raise the cancellation word at any      *)
(* time; each core looks at it at a few points of its own.                 *)
(*                                                                         *)
(* Handles stay valid and path records intact, as nothing is reclaimed;    *)
(* the hooks of Domain and Policy return what they like.  The block is one *)
(* warp: its lanes leave a barrier together and make the tests that follow *)
(* it there.  The finite core passes through the same parts alone.         *)
(*                                                                         *)
(* Source: components/search-compiler/src/finite-device-search.mjs and     *)
(* cooperative-device-search.mjs, the generated functions.                 *)
(***************************************************************************)
EXTENDS Integers, Sequences, FiniteSets

CONSTANTS
    Lanes,          \* lanes of the block, 0 among them
    Nodes,          \* states of the domain
    Children,       \* where the actions of a state lead
    Terminal,       \* states with an outcome
    Root,
    PathDepth,      \* longest path
    MaxIterations,  \* pieces of work in one operation
    MaxNonce        \* stands for 4294967294, the last work nonce

ASSUME SearchAssumption ==
    /\ 0 \in Lanes /\ Root \in Nodes /\ Terminal \subseteq Nodes
    /\ Children \in [Nodes -> SUBSET Nodes]
    /\ {PathDepth, MaxIterations, MaxNonce} \subseteq Nat \ {0}

VARIABLES
    core,     \* which core was generated: "finite" or "cooperative"
    section,  \* what the lanes do before the next barrier
    arrived,  \* the lanes that wait at that barrier
    loop,     \* the iteration and the step, the same in every lane
    m,        \* the control words
    graph,    \* which nodes were expanded, and how often a node is protected
    path,     \* the path words: node and incoming edge of each occurrence
    policy,   \* the Policy's records: edges in flight, steps of an open backup
    answer,   \* what each lane answered in this step
    mailbox,  \* the host's cancellation word
    decision  \* whether the output names an action

vars == <<core, section, arrived, loop, m, graph, path, policy, answer, mailbox, decision>>

NoEdge == <<>>
Edges == {e \in Nodes \X Nodes : e[2] \in Children[e[1]]}
Empty == 3       \* 4294967295, the merged word before a lane has answered
Silent == [l \in Lanes |-> -1]

\* Stop causes.
Running == 0
Bound == 1       \* the iterations are used up
Cancelled == 2
Pathless == 5
Stale == 6
PolicyFailed == 8
Dead == 9
Spent == 10
Broken == 11

Init ==
    /\ core \in {"finite", "cooperative"}
    /\ section = "enter" /\ arrived = Lanes \ {0} /\ loop = [iteration |-> 0, step |-> 0]
    /\ \E nonce \in 0 .. MaxNonce :
          m = [stop |-> Running, nonce |-> nonce, work |-> 0, node |-> Root, incoming |-> NoEdge,
               ready |-> FALSE, reason |-> 0, ask |-> FALSE, merged |-> Empty, diverged |-> FALSE,
               claimed |-> 0, released |-> 0, committed |-> 0, abandoned |-> 0, quarantined |-> 0]
    /\ graph = [expanded |-> {}, protected |-> [n \in Nodes |-> 0]]
    /\ path = <<>> /\ policy = [inFlight |-> [e \in Edges |-> 0], open |-> 0]
    /\ answer = Silent /\ mailbox = FALSE /\ decision = FALSE

HostCancels ==
    /\ ~mailbox /\ mailbox' = TRUE
    /\ UNCHANGED <<core, section, arrived, loop, m, graph, path, policy, answer, decision>>

\* Lane 0 works alone, and then waits for the next barrier.
Alone(part) ==
    /\ section = part /\ 0 \notin arrived /\ arrived' = arrived \cup {0}
    /\ UNCHANGED <<core, section, loop, mailbox>>

StopWith(cause) == m' = [m EXCEPT !.stop = cause]

\* The operation is admitted, comes for another arena or focus, or its root is
\* refused by the Domain.  The finite core also wants room in its counters.
Enter ==
    /\ Alone("enter")
    /\ \/ \E cause \in {Running, Stale, 7} : StopWith(cause)
       \/ core = "finite" /\ StopWith(Spent)
    /\ UNCHANGED <<graph, path, policy, answer, decision>>

\* The finite core looks at the cancellation word before it claims a work.
Forgo ==
    /\ core = "finite" /\ mailbox /\ Alone("claim") /\ StopWith(Cancelled)
    /\ UNCHANGED <<graph, path, policy, answer, decision>>

Claim ==
    /\ ~(core = "finite" /\ mailbox) /\ Alone("claim")
    /\ m' = IF m.nonce >= MaxNonce THEN [m EXCEPT !.stop = Spent]
            ELSE [m EXCEPT !.nonce = @ + 1, !.work = m.nonce + 1, !.claimed = @ + 1,
                           !.node = Root, !.incoming = NoEdge, !.ready = FALSE]
    /\ UNCHANGED <<graph, path, policy, answer, decision>>

-----------------------------------------------------------------------------
(* A node is visited.  In the cooperative core this is advance, by lane 0.  *)

Fresh == [m EXCEPT !.ask = FALSE, !.merged = Empty, !.diverged = FALSE]

\* The node is protected and becomes an occurrence on the path.
Push == path' = Append(path, [node |-> m.node, edge |-> m.incoming])
Pushed == [graph EXCEPT !.protected[m.node] = @ + 1]

\* The visit ends the search: the Domain's terminal hook, say, fails.
Fails(cause) == Push /\ graph' = Pushed /\ m' = [Fresh EXCEPT !.stop = cause]

\* A terminal node has a value, unless the Policy cannot map its outcome.
Ends ==
    /\ m.node \in Terminal /\ Push /\ graph' = Pushed
    /\ m' \in {[Fresh EXCEPT !.ready = TRUE], [Fresh EXCEPT !.stop = PolicyFailed]}

\* All children are staged before one is published: an expansion finds no room
\* for nodes or edges, or an invalid child, and leaves the graph alone, or it
\* succeeds at once.
ExpansionFails ==
    /\ m.node \notin Terminal \cup graph.expanded
    /\ \E cause \in {3, 4, 7} : Fails(cause)

Expands ==
    /\ m.node \notin Terminal
    /\ Push /\ graph' = [Pushed EXCEPT !.expanded = @ \cup {m.node}]

\* Why a frontier is asked about: a relation to a state on the path, the depth,
\* or nothing but that it was reached.
Reasons ==
    (IF path = <<>> THEN {} ELSE {1}) \cup {IF Len(path) + 1 = PathDepth THEN 2 ELSE 0}

\* The block is asked about the node.
Asks == Expands /\ \E reason \in Reasons : m' = [Fresh EXCEPT !.ask = TRUE, !.reason = reason]

Advance ==
    /\ core = "cooperative" /\ Alone("advance") /\ answer' = Silent
    /\ \/ mailbox /\ m' = [Fresh EXCEPT !.stop = Cancelled] /\ UNCHANGED <<path, graph>>
       \/ ~mailbox /\ (Fails(7) \/ Ends \/ ExpansionFails \/ Asks)
    /\ UNCHANGED <<policy, decision>>

-----------------------------------------------------------------------------
(* The collective question and its answer.                                 *)

\* Each lane returns 0 (a value), 1 (go on) or a failure, which may be the empty
\* word too, and swaps it in for the empty word or compares it with what it finds.
Merge(l) ==
    /\ section = "merge" /\ l \notin arrived /\ arrived' = arrived \cup {l}
    /\ \E result \in 0 .. Empty :
          /\ answer' = [answer EXCEPT ![l] = result]
          /\ m' = IF m.merged = Empty THEN [m EXCEPT !.merged = result]
                  ELSE [m EXCEPT !.diverged = @ \/ m.merged # result]
    /\ UNCHANGED <<core, section, loop, graph, path, policy, mailbox, decision>>

\* Mutant of Rejected: lanes that disagree are not noticed.
RejectedFailure == m.merged > 1

Rejected == m.diverged \/ m.merged > 1

\* The Policy selects an edge and takes it in flight.
Select ==
    \E child \in Children[m.node] :
        /\ m' = [m EXCEPT !.node = child, !.incoming = <<m.node, child>>]
        /\ policy' = [policy EXCEPT !.inFlight[<<m.node, child>>] = @ + 1]

\* Lane 0 takes the value, stops, or goes one edge further.  The Policy may
\* refuse what it is asked here.
Finish ==
    /\ Alone("finish")
    /\ \/ StopWith(PolicyFailed) /\ UNCHANGED policy
       \/ /\ ~Rejected
          /\ \/ m.merged = 0 /\ m' = [m EXCEPT !.ready = TRUE] /\ UNCHANGED policy
             \/ m.merged = 1 /\ m.reason # 0 /\ StopWith(Pathless) /\ UNCHANGED policy
             \/ m.merged = 1 /\ m.reason = 0 /\ Children[m.node] = {} /\ StopWith(Dead) /\ UNCHANGED policy
             \/ m.merged = 1 /\ m.reason = 0 /\ Select
    /\ UNCHANGED <<graph, path, answer, decision>>

-----------------------------------------------------------------------------
(* A visit by the finite core, which asks before it expands.               *)

\* The Policy gives a value, fails, or has nothing to say about a node that is
\* not searched further.
Answers ==
    /\ Push /\ graph' = Pushed /\ UNCHANGED policy
    /\ \/ m' \in {[m EXCEPT !.ready = TRUE], [m EXCEPT !.stop = PolicyFailed]}
       \/ (\E reason \in Reasons : reason # 0) /\ StopWith(Pathless)

\* Or the search goes on below it.
GoesOn ==
    /\ 0 \in Reasons /\ Expands
    /\ \/ StopWith(IF Children[m.node] = {} THEN Dead ELSE PolicyFailed) /\ UNCHANGED policy
       \/ Select

\* The node is on the path before the cancellation word is looked at.
Visit ==
    /\ core = "finite" /\ Alone("advance")
    /\ \/ mailbox /\ Fails(Cancelled) /\ UNCHANGED policy
       \/ ~mailbox /\ (Fails(7) \/ Ends) /\ UNCHANGED policy
       \/ ~mailbox /\ m.node \notin Terminal /\ (Answers \/ GoesOn)
       \/ ~mailbox /\ 0 \in Reasons /\ ExpansionFails /\ UNCHANGED policy
    /\ UNCHANGED <<answer, decision>>

-----------------------------------------------------------------------------
(* The backup, backupRelease in the cooperative core, and the end.         *)

\* The path lets go of its nodes and of the edges that led to them.
Occurrences(n) == Cardinality({j \in DOMAIN path : path[j].node = n})
Crossed(e) == Cardinality({j \in DOMAIN path : path[j].edge = e})

\* Mutant of LetGo: a node that occurs twice is let go once.
LetGoOnce(w, applied) ==
    /\ m' = [w EXCEPT !.work = 0, !.released = @ + 1]
    /\ path' = <<>>
    /\ graph' = [graph EXCEPT !.protected = [n \in Nodes |-> IF Occurrences(n) = 0 THEN @[n] ELSE @[n] - 1]]
    /\ policy' = [inFlight |-> [e \in Edges |-> policy.inFlight[e] - Crossed(e)],
                  open |-> policy.open + applied]

LetGo(w, applied) ==
    /\ m' = [w EXCEPT !.work = 0, !.released = @ + 1]
    /\ path' = <<>>
    /\ graph' = [graph EXCEPT !.protected = [n \in Nodes |-> @[n] - Occurrences(n)]]
    /\ policy' = [inFlight |-> [e \in Edges |-> policy.inFlight[e] - Crossed(e)],
                  open |-> policy.open + applied]

Abandon(cause) == LetGo([m EXCEPT !.stop = cause, !.abandoned = @ + 1], 0)

\* Once the first step is applied the backup goes on to its end, or is broken
\* at one of its steps and quarantined.
Backs ==
    \/ LetGo([m EXCEPT !.committed = @ + 1], 0)
    \/ \E applied \in 0 .. Len(path) - 1 :
          LetGo([m EXCEPT !.stop = Broken, !.quarantined = @ + 1], applied)

\* A path that has no value when its steps are used up has failed, too.
Cause == IF m.stop = Running /\ ~m.ready THEN Pathless ELSE m.stop

Backup ==
    /\ Alone("backup")
    /\ \/ Cause # Running /\ Abandon(Cause)
       \/ Cause = Running /\ Abandon(PolicyFailed)
       \/ Cause = Running /\ mailbox /\ Abandon(Cancelled)
       \/ Cause = Running /\ ~mailbox /\ Backs
    /\ UNCHANGED <<answer, decision>>

\* The output names an action of the root, when there is one, the Policy can
\* tell and no backup is broken.
Decide ==
    /\ Alone("decide")
    /\ m' = [m EXCEPT !.stop = IF @ = Running THEN Bound ELSE @]
    /\ decision' \in IF m.stop \notin {Broken, Stale} /\ Root \in graph.expanded /\ Children[Root] # {}
                     THEN BOOLEAN ELSE {FALSE}
    /\ UNCHANGED <<graph, path, policy, answer>>

-----------------------------------------------------------------------------
(* Barriers.                                                               *)

\* Lane 0 works in every section, the others only in the merge.
Goto(next, iteration, step) ==
    /\ section' = next
    /\ arrived' = CASE next = "merge" -> {} [] next = "done" -> Lanes [] OTHER -> Lanes \ {0}
    /\ loop' = [iteration |-> iteration, step |-> step]

\* The top of the outer loop.
Top(iteration) ==
    Goto(IF iteration < MaxIterations /\ m.stop = Running THEN "claim" ELSE "decide", iteration, 0)

\* The end of a step.
Step ==
    IF m.ready \/ m.stop # Running \/ loop.step + 1 = PathDepth
    THEN Goto("backup", loop.iteration, loop.step)
    ELSE Goto("advance", loop.iteration, loop.step + 1)

\* All lanes go on.  Without a question the two barriers of a merge are passed
\* with nothing done between them.
Barrier ==
    /\ arrived = Lanes
    /\ \/ section = "enter" /\ Top(0)
       \/ section = "claim" /\ Goto(IF m.stop = Running THEN "advance" ELSE "decide", loop.iteration, 0)
       \/ section = "advance" /\ (IF m.ask THEN Goto("merge", loop.iteration, loop.step) ELSE Step)
       \/ section = "merge" /\ Goto("finish", loop.iteration, loop.step)
       \/ section = "finish" /\ Step
       \/ section = "backup" /\ Top(loop.iteration + 1)
       \/ section = "decide" /\ Goto("done", loop.iteration, loop.step)
    /\ UNCHANGED <<core, m, graph, path, policy, answer, mailbox, decision>>

Next ==
    \/ HostCancels \/ Enter \/ Forgo \/ Claim \/ Visit \/ Advance \/ Finish \/ Backup \/ Decide \/ Barrier
    \/ \E l \in Lanes : Merge(l)

Spec == Init /\ [][Next]_vars

-----------------------------------------------------------------------------
\* A value is taken, or an edge further gone, only on the word of the lanes
\* about that very node: nothing of an earlier step's merge is left over, and no
\* lane said otherwise or failed, unless its failure was the empty word.
OneAnswer ==
    section = "finish" /\ 0 \in arrived /\ m.stop = Running =>
        LET taken == IF m.ready THEN 0 ELSE 1
        IN  /\ \E l \in Lanes : answer[l] = taken
            /\ \A l \in Lanes : answer[l] \in {taken, Empty}

Settled ==
    /\ m.claimed = m.released
    /\ m.claimed = m.committed + m.abandoned + m.quarantined
    /\ path = <<>> /\ \A n \in Nodes : graph.protected[n] = 0

\* Only the edge selected last, when a cancellation came before it was entered,
\* and then in the cooperative core.
InFlightIsLate ==
    \E late \in SUBSET {m.incoming} :
        /\ late # {} => m.stop = Cancelled /\ core = "cooperative"
        /\ \A e \in Edges : policy.inFlight[e] = (IF e \in late THEN 1 ELSE 0)

\* Between two pieces of work every one begun was committed, abandoned or
\* quarantined, once, and protects nothing, and no edge is in flight but for
\* the one a cancellation leaves in the cooperative core; steps of a backup stay open only of work in
\* quarantine, and then no action is decided.
WorkSettled ==
    /\ section \in {"claim", "decide", "done"} /\ m.work = 0 => Settled /\ InFlightIsLate
    /\ policy.open # 0 => m.quarantined # 0
    /\ decision => m.quarantined = 0

\* What the contract says, without that exception: each reservation of an edge
\* is released.  The finite core keeps it.
ReservationsReleased ==
    section = "done" => \A e \in Edges : policy.inFlight[e] = 0
=============================================================================
