------------------------ MODULE DeviceSearch_proofs -------------------------
(***************************************************************************)
(* What holds of a device search for any domain, any number of lanes and   *)
(* any bounds on paths, iterations and work: what lane 0 acts on was said  *)
(* by a lane and by no lane contradicted but with the empty word, and each *)
(* work begun is settled once, with nothing left protected or in flight    *)
(* but for the edge of a late cancellation.                                *)
(***************************************************************************)
EXTENDS DeviceSearch, FiniteSetTheorems, TLAPS

Sections == {"enter", "claim", "advance", "merge", "finish", "backup", "decide", "done"}
Control == [stop: Nat, nonce: Nat, work: Nat, node: Nodes, incoming: Edges \cup {NoEdge},
            ready: BOOLEAN, reason: 0 .. 2, ask: BOOLEAN, merged: 0 .. 3, diverged: BOOLEAN,
            claimed: Nat, released: Nat, committed: Nat, abandoned: Nat, quarantined: Nat]
Records == [node: Nodes, edge: Edges \cup {NoEdge}]

\* The type of every word.
TypeOK ==
    /\ core \in {"finite", "cooperative"} /\ section \in Sections /\ arrived \subseteq Lanes
    /\ loop \in [iteration: Nat, step: Nat]
    /\ m \in Control
    /\ graph \in [expanded: SUBSET Nodes, protected: [Nodes -> Int]]
    /\ path \in Seq(Records)
    /\ policy \in [inFlight: [Edges -> Int], open: Nat]
    /\ answer \in [Lanes -> -1 .. 3] /\ mailbox \in BOOLEAN /\ decision \in BOOLEAN

Before(part) == section = part /\ 0 \notin arrived
After(part) == section = part /\ 0 \in arrived

\* No value and no failure yet: the descent goes on.
Open == m.stop = Running /\ ~m.ready

\* No work is begun, or the last one is released.
Between ==
    \/ section \in {"enter", "decide", "done"}
    \/ Before("claim") \/ After("backup")
    \/ After("claim") /\ m.stop # Running

\* A path holds the nodes of the steps made, and the one visited unless the
\* cancellation came first.
Entered ==
    \/ Len(path) = loop.step + 1
    \/ Len(path) = loop.step /\ m.stop = Cancelled /\ core = "cooperative"

\* Where the search is in its loop, and how long its path is there.
Flow ==
    /\ m.work = 0 <=> Between
    /\ m.work = 0 => path = <<>>
    /\ Before("enter") \/ Before("claim") => m.stop = Running
    /\ After("claim") /\ m.work # 0 => Open /\ path = <<>> /\ m.incoming = NoEdge
    /\ Before("advance") => Open /\ Len(path) = loop.step
    /\ section \in {"advance", "merge", "finish", "backup"} => loop.step < PathDepth
    /\ section \in {"merge", "finish"} => core = "cooperative" /\ Len(path) = loop.step + 1
    /\ section = "merge" \/ Before("finish") => Open /\ (m.reason = 0 => loop.step + 1 # PathDepth)
    /\ After("advance") =>
          /\ Entered
          /\ m.ask => core = "cooperative" /\ Open /\ (m.reason = 0 => loop.step + 1 # PathDepth)
          /\ Open /\ ~m.ask => core = "finite" /\ loop.step + 1 # PathDepth
    /\ core = "finite" => ~m.ask
    /\ After("finish") /\ Open => loop.step + 1 # PathDepth
    /\ Before("backup") => ~Open /\ Entered

\* Each work begun is released, and committed, abandoned or quarantined, once.
Counts ==
    LET begun == IF m.work = 0 THEN 0 ELSE 1
    IN  /\ m.claimed = m.released + begun
        /\ m.claimed = m.committed + m.abandoned + m.quarantined + begun

\* A node is protected as often as it occurs on the path.
Protection == \A n \in Nodes : graph.protected[n] = Occurrences(n)

\* The edge selected last is ahead of the path until its child is pushed.
Ahead ==
    \/ Before("advance")
    \/ After("finish") /\ Open
    \/ After("advance") /\ ((Open /\ ~m.ask) \/ Len(path) = loop.step)
    \/ Before("backup") /\ Len(path) = loop.step

\* An edge is in flight as often as the path crosses it, and once more while it
\* is ahead; between two works only a late cancellation leaves one.
Flight ==
    /\ m.work # 0 =>
          \A e \in Edges : policy.inFlight[e] = Crossed(e) + (IF Ahead /\ e = m.incoming THEN 1 ELSE 0)
    /\ m.work = 0 => InFlightIsLate

\* A broken backup ends the search: nothing is decided.
Quarantine ==
    /\ policy.open # 0 => m.quarantined # 0
    /\ m.quarantined # 0 => m.stop = Broken /\ (After("backup") \/ section \in {"decide", "done"})
    /\ decision => m.quarantined = 0 /\ section \in {"decide", "done"}

\* The lanes that have answered gave the merged word, one of them at least, or
\* the empty one, or it is known that they differ.
Agreed(lanes) ==
    \/ m.diverged
    \/ /\ \A l \in lanes : answer[l] \in {m.merged, Empty}
       /\ m.merged # Empty => \E l \in lanes : answer[l] = m.merged

Merging ==
    /\ After("advance") /\ m.ask => m.merged = Empty /\ ~m.diverged
    /\ section = "merge" => Agreed(arrived)
    /\ Before("finish") => Agreed(Lanes)

IInv == TypeOK /\ Flow /\ Counts /\ Protection /\ Flight /\ Quarantine /\ Merging /\ OneAnswer

\* The stop causes are different numbers.
LEMMA Causes ==
    /\ Running = 0 /\ Bound = 1 /\ Cancelled = 2 /\ Pathless = 5 /\ Stale = 6
    /\ PolicyFailed = 8 /\ Dead = 9 /\ Spent = 10 /\ Broken = 11 /\ Empty = 3
BY DEF Running, Bound, Cancelled, Pathless, Stale, PolicyFailed, Dead, Spent, Broken, Empty

\* What the assumption says of the constants.
LEMMA Parameters ==
    /\ 0 \in Lanes /\ Root \in Nodes
    /\ PathDepth \in Nat /\ PathDepth > 0 /\ MaxIterations \in Nat /\ MaxNonce \in Nat
    /\ \A n \in Nodes : Children[n] \subseteq Nodes
BY SearchAssumption DEF SearchAssumption

\* No edge is taken for the missing one.
LEMMA NoEdgeIsNone == NoEdge \notin Edges
BY DEF NoEdge, Edges

\* The types of the control words, one by one.
LEMMA ControlFields ==
    ASSUME NEW w \in Control
    PROVE  /\ {w.stop, w.nonce, w.work} \subseteq Nat
           /\ {w.claimed, w.released, w.committed, w.abandoned, w.quarantined} \subseteq Nat
           /\ w.node \in Nodes /\ w.incoming \in Edges \cup {NoEdge}
           /\ w.reason \in 0 .. 2 /\ w.merged \in 0 .. 3
           /\ {w.ready, w.ask, w.diverged} \subseteq BOOLEAN
BY DEF Control

\* What can become of the control words.
LEMMA ControlWords ==
    ASSUME NEW w \in Control, NEW cause \in Nat
    PROVE  /\ [w EXCEPT !.stop = cause] \in Control
           /\ [w EXCEPT !.ready = TRUE] \in Control
           /\ [w EXCEPT !.ask = FALSE, !.merged = Empty, !.diverged = FALSE] \in Control
           /\ [w EXCEPT !.work = 0, !.released = @ + 1] \in Control
           /\ [w EXCEPT !.stop = cause, !.abandoned = @ + 1] \in Control
           /\ [w EXCEPT !.committed = @ + 1] \in Control
           /\ [w EXCEPT !.stop = cause, !.quarantined = @ + 1] \in Control
           /\ [w EXCEPT !.nonce = @ + 1, !.work = w.nonce + 1, !.claimed = @ + 1,
                        !.node = Root, !.incoming = NoEdge, !.ready = FALSE] \in Control
           /\ \A reason \in 0 .. 2 : [w EXCEPT !.ask = TRUE, !.reason = reason] \in Control
           /\ \A result \in 0 .. 3 : [w EXCEPT !.merged = result] \in Control
           /\ \A b \in BOOLEAN : [w EXCEPT !.diverged = b] \in Control
           /\ \A n \in Nodes, e \in Edges : [w EXCEPT !.node = n, !.incoming = e] \in Control
<1>1. /\ {w.nonce + 1, w.claimed + 1, w.released + 1, w.committed + 1} \subseteq Nat
      /\ {w.abandoned + 1, w.quarantined + 1} \subseteq Nat /\ Empty \in 0 .. 3
  BY ControlFields, Causes
<1>2. \A x \in Nat : [w EXCEPT !.stop = x] \in Control /\ [w EXCEPT !.committed = x] \in Control
  BY DEF Control
<1>3. \A x \in Nat, y \in Nat : /\ [w EXCEPT !.work = x, !.released = y] \in Control
                                /\ [w EXCEPT !.stop = x, !.abandoned = y] \in Control
                                /\ [w EXCEPT !.stop = x, !.quarantined = y] \in Control
  BY DEF Control
<1>4. \A b, c \in BOOLEAN, x \in 0 .. 3 :
        /\ [w EXCEPT !.ask = b, !.merged = x, !.diverged = c] \in Control
        /\ [w EXCEPT !.ready = b] \in Control /\ [w EXCEPT !.diverged = b] \in Control
        /\ [w EXCEPT !.merged = x] \in Control
  BY ZenonT(60) DEF Control
<1>5. \A b \in BOOLEAN, x \in 0 .. 2 : [w EXCEPT !.ask = b, !.reason = x] \in Control
  BY DEF Control
<1>6. \A x, y, z \in Nat, n \in Nodes, e \in Edges \cup {NoEdge}, b \in BOOLEAN :
        [w EXCEPT !.nonce = x, !.work = y, !.claimed = z,
                  !.node = n, !.incoming = e, !.ready = b] \in Control
  BY ZenonT(60) DEF Control
<1>7. \A n \in Nodes, e \in Edges \cup {NoEdge} : [w EXCEPT !.node = n, !.incoming = e] \in Control
  BY DEF Control
<1>8. /\ [w EXCEPT !.stop = cause] \in Control
      /\ [w EXCEPT !.committed = @ + 1] \in Control
  BY <1>1, <1>2
<1>9. /\ [w EXCEPT !.work = 0, !.released = @ + 1] \in Control
      /\ [w EXCEPT !.stop = cause, !.abandoned = @ + 1] \in Control
      /\ [w EXCEPT !.stop = cause, !.quarantined = @ + 1] \in Control
  BY <1>1, <1>3
<1>10. [w EXCEPT !.nonce = @ + 1, !.work = w.nonce + 1, !.claimed = @ + 1,
                 !.node = Root, !.incoming = NoEdge, !.ready = FALSE] \in Control
  BY <1>1, <1>6, Parameters
<1>12. /\ [w EXCEPT !.ready = TRUE] \in Control
       /\ [w EXCEPT !.ask = FALSE, !.merged = Empty, !.diverged = FALSE] \in Control
       /\ \A result \in 0 .. 3 : [w EXCEPT !.merged = result] \in Control
       /\ \A b \in BOOLEAN : [w EXCEPT !.diverged = b] \in Control
  BY <1>1, <1>4
<1> QED
  BY <1>5, <1>7, <1>8, <1>9, <1>10, <1>12

\* The search starts with words of their types.
LEMMA InitType == ASSUME Init PROVE TypeOK
<1>1. PICK nonce \in 0 .. MaxNonce :
          m = [stop |-> Running, nonce |-> nonce, work |-> 0, node |-> Root, incoming |-> NoEdge,
               ready |-> FALSE, reason |-> 0, ask |-> FALSE, merged |-> Empty, diverged |-> FALSE,
               claimed |-> 0, released |-> 0, committed |-> 0, abandoned |-> 0, quarantined |-> 0]
  BY DEF Init
<1>2. /\ nonce \in Nat /\ Running \in Nat /\ Empty \in 0 .. 3
      /\ Root \in Nodes /\ NoEdge \in Edges \cup {NoEdge}
  BY Parameters, Causes
<1>4. m \in Control
  BY <1>1, <1>2 DEF Control
<1>3. path \in Seq(Records) /\ answer \in [Lanes -> -1 .. 3]
  BY Causes DEF Init, Silent
<1>5. [n \in Nodes |-> 0] \in [Nodes -> Int] /\ [e \in Edges |-> 0] \in [Edges -> Int]
  OBVIOUS
<1>6. /\ graph \in [expanded: SUBSET Nodes, protected: [Nodes -> Int]]
      /\ policy \in [inFlight: [Edges -> Int], open: Nat]
      /\ loop \in [iteration: Nat, step: Nat]
  BY <1>5 DEF Init
<1> QED
  BY <1>3, <1>4, <1>6 DEF Init, TypeOK, Sections

\* What a visit puts on the path, and what it does to the protections.
LEMMA PushWords ==
    ASSUME TypeOK, Push
    PROVE  /\ path' \in Seq(Records) /\ Len(path') = Len(path) + 1
           /\ Pushed \in [expanded: SUBSET Nodes, protected: [Nodes -> Int]]
           /\ [Pushed EXCEPT !.expanded = @ \cup {m.node}] \in [expanded: SUBSET Nodes, protected: [Nodes -> Int]]
<1>1. m.node \in Nodes /\ m.incoming \in Edges \cup {NoEdge}
  BY ControlFields DEF TypeOK
<1>2. [node |-> m.node, edge |-> m.incoming] \in Records
  BY <1>1 DEF Records
<1>3. path' \in Seq(Records) /\ Len(path') = Len(path) + 1
  BY <1>2 DEF TypeOK, Push
<1>4. graph.protected \in [Nodes -> Int] /\ graph.expanded \subseteq Nodes
  BY DEF TypeOK
<1>5. [graph.protected EXCEPT ![m.node] = @ + 1] \in [Nodes -> Int]
  BY <1>1, <1>4
<1>6. Pushed = [graph EXCEPT !.protected = [graph.protected EXCEPT ![m.node] = @ + 1]]
  BY DEF Pushed
<1>7. Pushed \in [expanded: SUBSET Nodes, protected: [Nodes -> Int]] /\ Pushed.expanded = graph.expanded
  BY <1>5, <1>6 DEF TypeOK
<1>8. [Pushed EXCEPT !.expanded = Pushed.expanded \cup {m.node}] \in [expanded: SUBSET Nodes, protected: [Nodes -> Int]]
  <2> HIDE DEF Pushed
  <2> QED
    BY <1>1, <1>4, <1>7
<1> QED
  BY <1>3, <1>7, <1>8

\* An edge is selected: it leads to a child and is in flight once more.
LEMMA SelectWords ==
    ASSUME TypeOK, Select
    PROVE  /\ m' \in Control /\ m'.incoming \in Edges
           /\ policy' \in [inFlight: [Edges -> Int], open: Nat]
           /\ policy'.open = policy.open
           /\ policy'.inFlight = [policy.inFlight EXCEPT ![m'.incoming] = @ + 1]
           /\ m' = [m EXCEPT !.node = m'.node, !.incoming = m'.incoming]
<1>1. PICK child \in Children[m.node] :
          /\ m' = [m EXCEPT !.node = child, !.incoming = <<m.node, child>>]
          /\ policy' = [policy EXCEPT !.inFlight[<<m.node, child>>] = @ + 1]
  BY DEF Select
<1>2. m \in Control /\ m.node \in Nodes /\ child \in Nodes
  BY <1>1, ControlFields, Parameters DEF TypeOK
<1>3. <<m.node, child>> \in Edges
  BY <1>1, <1>2 DEF Edges
<1>4. m' \in Control /\ m'.incoming = <<m.node, child>> /\ m'.node = child
  <2>1. m' \in Control
    BY <1>1, <1>2, <1>3, ControlWords
  <2>2. m'.incoming = <<m.node, child>> /\ m'.node = child
    BY <1>1, <1>2 DEF Control
  <2> QED
    BY <2>1, <2>2
<1>5. policy.inFlight \in [Edges -> Int] /\ policy.open \in Nat
  BY DEF TypeOK
<1>6. [policy.inFlight EXCEPT ![m'.incoming] = @ + 1] \in [Edges -> Int]
  BY <1>3, <1>4, <1>5
<1>7. policy' = [policy EXCEPT !.inFlight = [policy.inFlight EXCEPT ![m'.incoming] = @ + 1]]
  BY <1>1, <1>4
<1> QED
  BY <1>1, <1>3, <1>4, <1>6, <1>7 DEF TypeOK

\* In its own part lane 0 arrives, and nothing else moves there.
LEMMA TypeAlone ==
    ASSUME TypeOK, Alone(section)
    PROVE  /\ arrived' \subseteq Lanes /\ arrived' = arrived \cup {0} /\ 0 \notin arrived
           /\ UNCHANGED <<core, section, loop, mailbox>>
BY Parameters DEF TypeOK, Alone

\* What letting go of a path leaves.
LEMMA LetGoWords ==
    ASSUME TypeOK, NEW w \in Control, NEW applied \in Nat, LetGo(w, applied)
    PROVE  /\ m' \in Control /\ path' = <<>>
           /\ graph' \in [expanded: SUBSET Nodes, protected: [Nodes -> Int]]
           /\ policy' \in [inFlight: [Edges -> Int], open: Nat]
           /\ \A n \in Nodes : graph'.protected[n] = graph.protected[n] - Occurrences(n)
           /\ \A e \in Edges : policy'.inFlight[e] = policy.inFlight[e] - Crossed(e)
<1>1. \A S \in SUBSET DOMAIN path : IsFiniteSet(S) /\ Cardinality(S) \in Nat
  <2>1. DOMAIN path = 1 .. Len(path) /\ Len(path) \in Nat
    BY DEF TypeOK
  <2>2. IsFiniteSet(DOMAIN path)
    BY <2>1, FS_Interval
  <2> QED
    BY <2>2, FS_Subset, FS_CardinalityType
<1>2. \A n \in Nodes : Occurrences(n) \in Nat
  BY <1>1 DEF Occurrences
<1>3. \A e \in Edges : Crossed(e) \in Nat
  BY <1>1 DEF Crossed
<1>4. graph.protected \in [Nodes -> Int] /\ policy.inFlight \in [Edges -> Int] /\ policy.open \in Nat
  BY DEF TypeOK
<1> DEFINE prot == [n \in Nodes |-> graph.protected[n] - Occurrences(n)]
           flight == [e \in Edges |-> policy.inFlight[e] - Crossed(e)]
<1>5. prot \in [Nodes -> Int] /\ flight \in [Edges -> Int]
  BY <1>2, <1>3, <1>4
<1>6. graph' = [graph EXCEPT !.protected = prot] /\ policy' = [inFlight |-> flight, open |-> policy.open + applied]
  BY DEF LetGo
<1>7. graph' \in [expanded: SUBSET Nodes, protected: [Nodes -> Int]] /\ graph'.protected = prot
  <2> HIDE DEF prot
  <2> QED
    BY <1>5, <1>6 DEF TypeOK
<1>8. policy' \in [inFlight: [Edges -> Int], open: Nat] /\ policy'.inFlight = flight
  <2> HIDE DEF flight
  <2> QED
    BY <1>4, <1>5, <1>6 DEF TypeOK
<1>9. m' \in Control /\ path' = <<>>
  BY ControlWords DEF LetGo
<1> QED
  BY <1>7, <1>8, <1>9

\* Of a backup: the path is let go of, and the work counted once; a stop that
\* came before stays, and only a quarantine leaves steps open, and breaks off.
LEMMA BackupWords ==
    ASSUME TypeOK, Backup
    PROVE  /\ Before("backup") /\ After("backup")'
           /\ m' \in Control /\ path' = <<>>
           /\ graph' \in [expanded: SUBSET Nodes, protected: [Nodes -> Int]]
           /\ policy' \in [inFlight: [Edges -> Int], open: Nat]
           /\ \A n \in Nodes : graph'.protected[n] = graph.protected[n] - Occurrences(n)
           /\ \A e \in Edges : policy'.inFlight[e] = policy.inFlight[e] - Crossed(e)
           /\ m'.work = 0 /\ m'.released = m.released + 1 /\ m'.claimed = m.claimed
           /\ m'.committed + m'.abandoned + m'.quarantined = m.committed + m.abandoned + m.quarantined + 1
           /\ m'.incoming = m.incoming /\ m'.ask = m.ask
           /\ m.stop # Running => m'.stop = m.stop
           /\ m'.quarantined = m.quarantined => policy'.open = policy.open
           /\ m'.quarantined # m.quarantined => m'.stop = Broken
<1> DEFINE Released(w) ==
        /\ m'.work = 0 /\ m'.released = w.released + 1
        /\ m'.claimed = w.claimed /\ m'.committed = w.committed /\ m'.abandoned = w.abandoned
        /\ m'.quarantined = w.quarantined /\ m'.stop = w.stop
        /\ m'.incoming = w.incoming /\ m'.ask = w.ask
<1>1. Before("backup") /\ After("backup")' /\ m \in Control
  BY DEF Backup, Alone, Before, After, TypeOK
<1>2. ASSUME NEW w \in Control, NEW applied \in Nat, LetGo(w, applied)
      PROVE  Released(w) /\ policy'.open = policy.open + applied
  <2>1. m' = [w EXCEPT !.work = 0, !.released = @ + 1]
    BY <1>2 DEF LetGo
  <2>2. Released(w)
    BY <2>1 DEF Control
  <2> QED
    BY <1>2, <2>2 DEF LetGo
<1>3. \A cause \in Nat :
        LET w == [m EXCEPT !.stop = cause, !.abandoned = @ + 1]
        IN  /\ w.released = m.released /\ w.claimed = m.claimed /\ w.committed = m.committed
            /\ w.abandoned = m.abandoned + 1 /\ w.quarantined = m.quarantined /\ w.stop = cause
            /\ w.incoming = m.incoming /\ w.ask = m.ask
  BY <1>1 DEF Control
<1>4. LET w == [m EXCEPT !.committed = @ + 1]
      IN  /\ w.released = m.released /\ w.claimed = m.claimed /\ w.committed = m.committed + 1
          /\ w.abandoned = m.abandoned /\ w.quarantined = m.quarantined /\ w.stop = m.stop
          /\ w.incoming = m.incoming /\ w.ask = m.ask
  BY <1>1 DEF Control
<1>5. LET w == [m EXCEPT !.stop = Broken, !.quarantined = @ + 1]
      IN  /\ w.released = m.released /\ w.claimed = m.claimed /\ w.committed = m.committed
          /\ w.abandoned = m.abandoned /\ w.quarantined = m.quarantined + 1 /\ w.stop = Broken
          /\ w.incoming = m.incoming /\ w.ask = m.ask
  BY <1>1 DEF Control
<1>6. /\ m.committed \in Nat /\ m.abandoned \in Nat /\ m.quarantined \in Nat /\ m.stop \in Nat
      /\ policy.open \in Nat
  BY <1>1, ControlFields DEF TypeOK
<1>7. ASSUME NEW cause \in Nat, Abandon(cause), m.stop # Running => cause = m.stop PROVE
           /\ \E w \in Control, applied \in Nat : LetGo(w, applied)
           /\ m'.work = 0 /\ m'.released = m.released + 1 /\ m'.claimed = m.claimed
           /\ m'.committed + m'.abandoned + m'.quarantined = m.committed + m.abandoned + m.quarantined + 1
           /\ m'.incoming = m.incoming /\ m'.ask = m.ask
           /\ m.stop # Running => m'.stop = m.stop
           /\ m'.quarantined = m.quarantined /\ policy'.open = policy.open
  <2> DEFINE w == [m EXCEPT !.stop = cause, !.abandoned = @ + 1]
  <2>1. w \in Control /\ LetGo(w, 0)
    BY <1>1, <1>7, ControlWords DEF Abandon
  <2>2. Released(w) /\ policy'.open = policy.open + 0
    BY <1>2, <2>1
  <2>3. /\ w.released = m.released /\ w.claimed = m.claimed /\ w.committed = m.committed
        /\ w.abandoned = m.abandoned + 1 /\ w.quarantined = m.quarantined /\ w.stop = cause
        /\ w.incoming = m.incoming /\ w.ask = m.ask
    BY <1>3
  <2> HIDE DEF w
  <2>4. \E x \in Control, applied \in Nat : LetGo(x, applied)
    BY <2>1
  <2> QED
    BY <1>6, <1>7, <2>2, <2>3, <2>4
<1>8. ASSUME Cause = Running, Backs PROVE
           /\ \E w \in Control, applied \in Nat : LetGo(w, applied)
           /\ m'.work = 0 /\ m'.released = m.released + 1 /\ m'.claimed = m.claimed
           /\ m'.committed + m'.abandoned + m'.quarantined = m.committed + m.abandoned + m.quarantined + 1
           /\ m'.incoming = m.incoming /\ m'.ask = m.ask /\ m.stop = Running
           /\ m'.quarantined = m.quarantined => policy'.open = policy.open
           /\ m'.quarantined # m.quarantined => m'.stop = Broken
  <2>1. m.stop = Running
    BY <1>8, Causes DEF Cause
  <2>2. CASE LetGo([m EXCEPT !.committed = @ + 1], 0)
    <3> DEFINE w == [m EXCEPT !.committed = @ + 1]
    <3>1. w \in Control
      BY <1>1, <1>6, ControlWords
    <3>2. Released(w) /\ policy'.open = policy.open + 0
      BY <1>2, <2>2, <3>1
    <3>3. /\ w.released = m.released /\ w.claimed = m.claimed /\ w.committed = m.committed + 1
          /\ w.abandoned = m.abandoned /\ w.quarantined = m.quarantined /\ w.stop = m.stop
          /\ w.incoming = m.incoming /\ w.ask = m.ask
      BY <1>4
    <3>4. \E x \in Control, applied \in Nat : LetGo(x, applied)
      BY <2>2, <3>1
    <3> HIDE DEF w
    <3> QED
      BY <1>6, <2>1, <3>2, <3>3, <3>4
  <2>3. ASSUME NEW applied \in 0 .. Len(path) - 1,
               LetGo([m EXCEPT !.stop = Broken, !.quarantined = @ + 1], applied)
        PROVE  /\ \E w \in Control, a \in Nat : LetGo(w, a)
               /\ m'.work = 0 /\ m'.released = m.released + 1 /\ m'.claimed = m.claimed
               /\ m'.committed + m'.abandoned + m'.quarantined = m.committed + m.abandoned + m.quarantined + 1
               /\ m'.incoming = m.incoming /\ m'.ask = m.ask
               /\ m'.quarantined # m.quarantined /\ m'.stop = Broken
    <3> DEFINE w == [m EXCEPT !.stop = Broken, !.quarantined = @ + 1]
    <3>3. Broken \in Nat /\ applied \in Nat
      BY Causes
    <3>1. w \in Control /\ applied \in Nat
      BY <1>1, <3>3, ControlWords
    <3>2. Released(w)
      BY <1>2, <2>3, <3>1
    <3>4. /\ w.released = m.released /\ w.claimed = m.claimed /\ w.committed = m.committed
          /\ w.abandoned = m.abandoned /\ w.quarantined = m.quarantined + 1 /\ w.stop = Broken
          /\ w.incoming = m.incoming /\ w.ask = m.ask
      BY <1>5
    <3>5. \E x \in Control, a \in Nat : LetGo(x, a)
      BY <2>3, <3>1
    <3> HIDE DEF w
    <3>6. /\ m'.work = 0 /\ m'.released = m.released + 1 /\ m'.claimed = m.claimed
          /\ m'.incoming = m.incoming /\ m'.ask = m.ask /\ m'.stop = Broken
          /\ m'.committed = m.committed /\ m'.abandoned = m.abandoned /\ m'.quarantined = m.quarantined + 1
      BY <3>2, <3>4
    <3> HIDE DEF Released
    <3>7. m'.committed + m'.abandoned + m'.quarantined = m.committed + m.abandoned + m.quarantined + 1
      BY <1>6, <3>6
    <3>8. m'.quarantined # m.quarantined
      BY <1>6, <3>6
    <3> QED
      BY <3>5, <3>6, <3>7, <3>8
  <2> QED
    BY <1>8, <2>1, <2>2, <2>3 DEF Backs
<1> HIDE DEF Released
<1>9. PolicyFailed \in Nat /\ Cancelled \in Nat /\ Cause \in Nat /\ (m.stop # Running => Cause = m.stop)
  BY <1>6, Causes DEF Cause
<1>10. \/ \E cause \in Nat : Abandon(cause) /\ (m.stop # Running => cause = m.stop)
       \/ Cause = Running /\ Backs
  BY <1>9, Causes DEF Backup, Cause
<1>11. \E w \in Control, applied \in Nat : LetGo(w, applied)
  BY <1>7, <1>8, <1>10
<1>12. /\ m' \in Control /\ path' = <<>>
       /\ graph' \in [expanded: SUBSET Nodes, protected: [Nodes -> Int]]
       /\ policy' \in [inFlight: [Edges -> Int], open: Nat]
       /\ \A n \in Nodes : graph'.protected[n] = graph.protected[n] - Occurrences(n)
       /\ \A e \in Edges : policy'.inFlight[e] = policy.inFlight[e] - Crossed(e)
  BY <1>11, LetGoWords
<1> QED
  BY <1>1, <1>7, <1>8, <1>10, <1>12

\* The step begins and ends no work, and the lanes' question stays unanswered.
WorkKept ==
    /\ m'.work = m.work /\ m'.claimed = m.claimed /\ m'.released = m.released
    /\ m'.committed = m.committed /\ m'.abandoned = m.abandoned /\ m'.quarantined = m.quarantined

\* A node comes onto the path, protected once more.
Visits ==
    /\ Push /\ path' \in Seq(Records) /\ Len(path') = Len(path) + 1
    /\ graph' \in [expanded: SUBSET Nodes, protected: [Nodes -> Int]]
    /\ graph'.protected = [graph.protected EXCEPT ![m.node] = @ + 1]

\* A push with either graph of a visit is a visit.
LEMMA VisitsWords ==
    ASSUME TypeOK, Push, graph' = Pushed \/ graph' = [Pushed EXCEPT !.expanded = @ \cup {m.node}]
    PROVE  Visits
<1>1. Pushed.protected = [graph.protected EXCEPT ![m.node] = @ + 1]
  BY DEF Pushed, TypeOK
<1>2. graph' \in [expanded: SUBSET Nodes, protected: [Nodes -> Int]] /\ graph'.protected = Pushed.protected
  <2>1. Pushed \in [expanded: SUBSET Nodes, protected: [Nodes -> Int]]
    BY PushWords
  <2>2. [Pushed EXCEPT !.expanded = @ \cup {m.node}].protected = Pushed.protected
    BY <2>1
  <2> QED
    BY <2>1, <2>2, PushWords
<1> QED
  BY <1>1, <1>2, PushWords DEF Visits

\* The words of a question are reset, and nothing else.
LEMMA FreshWords ==
    ASSUME TypeOK
    PROVE  /\ Fresh \in Control /\ Fresh.stop = m.stop /\ Fresh.ready = m.ready
           /\ ~Fresh.ask /\ Fresh.merged = Empty /\ ~Fresh.diverged
           /\ Fresh.incoming = m.incoming /\ Fresh.work = m.work /\ Fresh.claimed = m.claimed
           /\ Fresh.released = m.released /\ Fresh.committed = m.committed
           /\ Fresh.abandoned = m.abandoned /\ Fresh.quarantined = m.quarantined
<1>1. m \in Control
  BY DEF TypeOK
<1>2. Fresh \in Control
  BY <1>1, ControlWords DEF Fresh
<1> QED
  BY <1>1, <1>2 DEF Fresh, Control

\* A stop changes the stop word.
LEMMA StopWords ==
    ASSUME NEW w \in Control, NEW cause \in Nat, m' = [w EXCEPT !.stop = cause]
    PROVE  /\ m' \in Control /\ m'.stop = cause /\ m'.ready = w.ready /\ m'.ask = w.ask
           /\ m'.incoming = w.incoming /\ m'.work = w.work /\ m'.claimed = w.claimed
           /\ m'.released = w.released /\ m'.committed = w.committed
           /\ m'.abandoned = w.abandoned /\ m'.quarantined = w.quarantined
           /\ m'.merged = w.merged /\ m'.diverged = w.diverged /\ m'.reason = w.reason
<1>1. m' \in Control
  BY ControlWords
<1> QED
  BY <1>1 DEF Control

\* A value changes the ready word.
LEMMA ReadyWords ==
    ASSUME NEW w \in Control, m' = [w EXCEPT !.ready = TRUE]
    PROVE  /\ m' \in Control /\ m'.stop = w.stop /\ m'.ready /\ m'.ask = w.ask
           /\ m'.incoming = w.incoming /\ m'.work = w.work /\ m'.claimed = w.claimed
           /\ m'.released = w.released /\ m'.committed = w.committed
           /\ m'.abandoned = w.abandoned /\ m'.quarantined = w.quarantined
           /\ m'.merged = w.merged /\ m'.diverged = w.diverged /\ m'.reason = w.reason
<1>1. m' \in Control
  BY ControlWords
<1> QED
  BY <1>1 DEF Control

\* A visit that is the last one of its path.
LEMMA LastVisit ==
    ASSUME TypeOK, (\E cause \in Nat \ {Running} : Fails(cause)) \/ Ends
    PROVE  /\ Visits /\ WorkKept /\ m' \in Control /\ m'.incoming = m.incoming /\ ~m'.ask
           /\ m'.stop # Running \/ m'.ready
<1>1. CASE \E cause \in Nat \ {Running} : Fails(cause)
  <2>1. PICK cause \in Nat \ {Running} : Fails(cause)
    BY <1>1
  <2>2. m' = [Fresh EXCEPT !.stop = cause]
    BY <2>1 DEF Fails
  <2> QED
    BY <2>1, <2>2, FreshWords, StopWords, VisitsWords DEF Fails, WorkKept
<1>2. CASE Ends
  <2>1. CASE m' = [Fresh EXCEPT !.ready = TRUE]
    BY <1>2, <2>1, FreshWords, ReadyWords, VisitsWords DEF Ends, WorkKept
  <2>2. CASE m' = [Fresh EXCEPT !.stop = PolicyFailed]
    <3>1. PolicyFailed \in Nat /\ PolicyFailed # Running
      BY Causes
    <3> QED
      BY <1>2, <2>2, <3>1, FreshWords, StopWords, VisitsWords DEF Ends, WorkKept
  <2> QED
    BY <1>2, <2>1, <2>2 DEF Ends
<1> QED
  BY <1>1, <1>2

\* The ways a visit fails.
LEMMA FailingVisits ==
    /\ Fails(7) \/ ExpansionFails \/ Fails(Cancelled) => \E cause \in Nat \ {Running} : Fails(cause)
<1>1. 7 \in Nat \ {Running} /\ {3, 4, 7} \subseteq Nat \ {Running} /\ Cancelled \in Nat \ {Running}
  BY Causes
<1> QED
  BY <1>1 DEF ExpansionFails

\* Of the cooperative core's visit.
LEMMA AdvanceWords ==
    ASSUME TypeOK, Advance
    PROVE  /\ Before("advance") /\ After("advance")' /\ core = "cooperative"
           /\ WorkKept /\ m' \in Control /\ m'.incoming = m.incoming
           /\ UNCHANGED <<core, loop, mailbox, policy, decision>> /\ answer' = Silent
           /\ m'.ask => m'.merged = Empty /\ ~m'.diverged
           /\ \/ m'.stop = Cancelled /\ ~m'.ask /\ UNCHANGED <<path, graph>>
              \/ Visits /\ ~m'.ask /\ (m'.stop # Running \/ m'.ready)
              \/ /\ Visits /\ m'.ask /\ m'.stop = m.stop /\ m'.ready = m.ready
                 /\ m'.reason = 0 => Len(path) + 1 # PathDepth
<1>1. /\ Before("advance") /\ After("advance")' /\ core = "cooperative"
      /\ UNCHANGED <<core, loop, mailbox, policy, decision>> /\ answer' = Silent
  BY DEF Advance, Alone, Before, After
<1>2. CASE m' = [Fresh EXCEPT !.stop = Cancelled] /\ UNCHANGED <<path, graph>>
  <2>1. Cancelled \in Nat
    BY Causes
  <2> QED
    BY <1>1, <1>2, <2>1, FreshWords, StopWords DEF WorkKept
<1>3. CASE Fails(7) \/ Ends \/ ExpansionFails
  BY <1>1, <1>3, FailingVisits, LastVisit
<1>4. CASE Asks
  <2>1. PICK reason \in Reasons : m' = [Fresh EXCEPT !.ask = TRUE, !.reason = reason]
    BY <1>4 DEF Asks
  <2>2. reason \in 0 .. 2 /\ (reason = 0 => Len(path) + 1 # PathDepth)
    BY <2>1 DEF Reasons
  <2>3. m' \in Control
    BY <2>1, <2>2, FreshWords, ControlWords, Causes
  <2>4. Visits
    BY <1>4, VisitsWords DEF Asks, Expands
  <2>5. /\ m'.ask /\ m'.reason = reason /\ m'.stop = Fresh.stop /\ m'.ready = Fresh.ready
        /\ m'.merged = Fresh.merged /\ m'.diverged = Fresh.diverged /\ m'.incoming = Fresh.incoming
        /\ m'.work = Fresh.work /\ m'.claimed = Fresh.claimed /\ m'.released = Fresh.released
        /\ m'.committed = Fresh.committed /\ m'.abandoned = Fresh.abandoned
        /\ m'.quarantined = Fresh.quarantined
    <3>1. Fresh \in Control
      BY FreshWords
    <3> HIDE DEF Fresh
    <3> QED
      BY <2>1, <3>1 DEF Control
  <2> QED
    BY <1>1, <2>2, <2>3, <2>4, <2>5, FreshWords DEF WorkKept
<1> QED
  BY <1>1, <1>2, <1>3, <1>4 DEF Advance

\* Of the finite core's visit.
LEMMA VisitWords ==
    ASSUME TypeOK, Visit
    PROVE  /\ Before("advance") /\ After("advance")' /\ core = "finite" /\ WorkKept
           /\ Visits /\ m' \in Control /\ (~m.ask => ~m'.ask)
           /\ UNCHANGED <<core, loop, mailbox, answer, decision>>
           /\ \/ /\ m'.stop # Running \/ m'.ready
                 /\ m'.incoming = m.incoming /\ UNCHANGED policy
              \/ /\ Select /\ Len(path) + 1 # PathDepth
                 /\ m'.stop = m.stop /\ m'.ready = m.ready
<1>1. /\ Before("advance") /\ After("advance")' /\ core = "finite"
      /\ UNCHANGED <<core, loop, mailbox, answer, decision>>
  BY DEF Visit, Alone, Before, After
<1>2. m \in Control
  BY DEF TypeOK
<1>3. CASE (Fails(Cancelled) \/ Fails(7) \/ Ends \/ ExpansionFails) /\ UNCHANGED policy
  BY <1>1, <1>3, FailingVisits, LastVisit
<1>4. CASE Answers
  <2>1. Visits /\ UNCHANGED policy
    BY <1>4, VisitsWords DEF Answers
  <2>2. CASE m' = [m EXCEPT !.ready = TRUE]
    BY <1>1, <1>2, <2>1, <2>2, ReadyWords DEF WorkKept
  <2>3. ASSUME NEW cause \in {PolicyFailed, Pathless}, m' = [m EXCEPT !.stop = cause]
        PROVE  WorkKept /\ m' \in Control /\ m'.stop # Running /\ m'.incoming = m.incoming /\ m'.ask = m.ask
    <3>1. cause \in Nat /\ cause # Running
      BY Causes
    <3> QED
      BY <1>2, <2>3, <3>1, StopWords DEF WorkKept
  <2> QED
    BY <1>1, <1>4, <2>1, <2>2, <2>3 DEF Answers, StopWith
<1>5. CASE GoesOn
  <2>1. Visits /\ Len(path) + 1 # PathDepth
    BY <1>5, VisitsWords DEF GoesOn, Expands, Reasons
  <2>2. ASSUME NEW cause \in {Dead, PolicyFailed}, m' = [m EXCEPT !.stop = cause], UNCHANGED policy
        PROVE  WorkKept /\ m' \in Control /\ m'.stop # Running /\ m'.incoming = m.incoming /\ m'.ask = m.ask
    <3>1. cause \in Nat /\ cause # Running
      BY Causes
    <3> QED
      BY <1>2, <2>2, <3>1, StopWords DEF WorkKept
  <2>3. CASE Select
    <3>1. m' \in Control /\ m' = [m EXCEPT !.node = m'.node, !.incoming = m'.incoming]
      BY <2>3, SelectWords
    <3>2. m'.stop = m.stop /\ m'.ready = m.ready /\ m'.ask = m.ask /\ WorkKept
      BY <1>2, <3>1 DEF Control, WorkKept
    <3> QED
      BY <1>1, <2>1, <2>3, <3>1, <3>2
  <2>4. CASE \E cause \in {Dead, PolicyFailed} : m' = [m EXCEPT !.stop = cause] /\ UNCHANGED policy
    BY <1>1, <2>1, <2>2, <2>4
  <2> QED
    BY <1>5, <2>3, <2>4 DEF GoesOn, StopWith
<1> QED
  BY <1>3, <1>4, <1>5 DEF Visit

\* Of the admission: only the stop may change.
LEMMA EnterWords ==
    ASSUME TypeOK, Enter
    PROVE  /\ Before("enter") /\ After("enter")' /\ WorkKept /\ m' \in Control
           /\ m'.incoming = m.incoming /\ m'.ask = m.ask
           /\ UNCHANGED <<core, loop, graph, path, policy, answer, mailbox, decision>>
<1>1. PICK cause \in Nat : m' = [m EXCEPT !.stop = cause]
  <2>1. {Running, Stale, 7, Spent} \subseteq Nat
    BY Causes
  <2> QED
    BY <2>1 DEF Enter, StopWith
<1>2. /\ Before("enter") /\ After("enter")'
      /\ UNCHANGED <<core, loop, graph, path, policy, answer, mailbox, decision>>
  BY DEF Enter, Alone, Before, After
<1> QED
  BY <1>1, <1>2, StopWords DEF TypeOK, WorkKept

\* Of a search cancelled before its next work.
LEMMA ForgoWords ==
    ASSUME TypeOK, Forgo
    PROVE  /\ Before("claim") /\ After("claim")' /\ WorkKept /\ m' \in Control
           /\ m'.stop = Cancelled /\ m'.incoming = m.incoming /\ m'.ask = m.ask
           /\ UNCHANGED <<core, loop, graph, path, policy, answer, mailbox, decision>>
<1>1. m' = [m EXCEPT !.stop = Cancelled] /\ Cancelled \in Nat
  BY Causes DEF Forgo, StopWith
<1>2. /\ Before("claim") /\ After("claim")'
      /\ UNCHANGED <<core, loop, graph, path, policy, answer, mailbox, decision>>
  BY DEF Forgo, Alone, Before, After
<1> QED
  BY <1>1, <1>2, StopWords DEF TypeOK, WorkKept

\* A work is begun, or the last nonce is used.
LEMMA ClaimWords ==
    ASSUME TypeOK, Claim
    PROVE  /\ Before("claim") /\ After("claim")' /\ m' \in Control /\ m'.ask = m.ask
           /\ UNCHANGED <<core, loop, graph, path, policy, answer, mailbox, decision>>
           /\ \/ WorkKept /\ m'.stop = Spent
              \/ /\ m'.work \in Nat \ {0} /\ m'.stop = m.stop /\ ~m'.ready /\ m'.incoming = NoEdge
                 /\ m'.claimed = m.claimed + 1 /\ m'.released = m.released
                 /\ m'.committed = m.committed /\ m'.abandoned = m.abandoned
                 /\ m'.quarantined = m.quarantined
<1>1. /\ Before("claim") /\ After("claim")'
      /\ UNCHANGED <<core, loop, graph, path, policy, answer, mailbox, decision>>
  BY DEF Claim, Alone, Before, After
<1>2. m \in Control /\ m.nonce \in Nat /\ Spent \in Nat
  BY ControlFields, Causes DEF TypeOK
<1>3. CASE m' = [m EXCEPT !.stop = Spent]
  BY <1>1, <1>2, <1>3, StopWords DEF WorkKept
<1>4. CASE m' = [m EXCEPT !.nonce = @ + 1, !.work = m.nonce + 1, !.claimed = @ + 1,
                          !.node = Root, !.incoming = NoEdge, !.ready = FALSE]
  <2>1. m' \in Control
    BY <1>2, <1>4, ControlWords
  <2>2. /\ m'.work = m.nonce + 1 /\ m'.stop = m.stop /\ ~m'.ready /\ m'.incoming = NoEdge
        /\ m'.claimed = m.claimed + 1 /\ m'.released = m.released /\ m'.ask = m.ask
        /\ m'.committed = m.committed /\ m'.abandoned = m.abandoned
        /\ m'.quarantined = m.quarantined
    BY <1>2, <1>4 DEF Control
  <2> QED
    BY <1>1, <1>2, <2>1, <2>2
<1> QED
  BY <1>3, <1>4 DEF Claim

\* A lane's answer is merged.
LEMMA MergeWords ==
    ASSUME TypeOK, NEW l \in Lanes, Merge(l)
    PROVE  /\ section = "merge" /\ l \notin arrived /\ arrived' = arrived \cup {l}
           /\ WorkKept /\ m' \in Control /\ m'.stop = m.stop /\ m'.ready = m.ready /\ m'.ask = m.ask
           /\ m'.incoming = m.incoming /\ m'.reason = m.reason
           /\ UNCHANGED <<core, section, loop, graph, path, policy, mailbox, decision>>
           /\ \E result \in 0 .. 3 :
                 /\ answer' = [answer EXCEPT ![l] = result]
                 /\ IF m.merged = Empty THEN m'.merged = result /\ m'.diverged = m.diverged
                    ELSE m'.merged = m.merged /\ m'.diverged = (m.diverged \/ m.merged # result)
<1>1. /\ section = "merge" /\ l \notin arrived /\ arrived' = arrived \cup {l}
      /\ UNCHANGED <<core, section, loop, graph, path, policy, mailbox, decision>>
  BY DEF Merge
<1>2. PICK result \in 0 .. 3 :
          /\ answer' = [answer EXCEPT ![l] = result]
          /\ m' = IF m.merged = Empty THEN [m EXCEPT !.merged = result]
                  ELSE [m EXCEPT !.diverged = @ \/ m.merged # result]
  BY Causes DEF Merge
<1>3. m \in Control
  BY DEF TypeOK
<1>4. CASE m.merged = Empty
  <2>1. m' = [m EXCEPT !.merged = result]
    BY <1>2, <1>4
  <2>2. m' \in Control
    BY <1>3, <2>1, ControlWords, Causes
  <2> QED
    BY <1>1, <1>2, <1>3, <1>4, <2>1, <2>2 DEF Control, WorkKept
<1>5. CASE m.merged # Empty
  <2> DEFINE b == m.diverged \/ m.merged # result
  <2>1. m' = [m EXCEPT !.diverged = b] /\ b \in BOOLEAN
    BY <1>2, <1>5
  <2>2. m' \in Control
    BY <1>3, <2>1, ControlWords, Causes
  <2>3. /\ m'.stop = m.stop /\ m'.ready = m.ready /\ m'.ask = m.ask
        /\ m'.incoming = m.incoming /\ m'.reason = m.reason /\ WorkKept
        /\ m'.merged = m.merged /\ m'.diverged = b
    <3> HIDE DEF b
    <3> QED
      BY <1>3, <2>1 DEF Control, WorkKept
  <2> QED
    BY <1>1, <1>2, <1>5, <2>2, <2>3
<1> QED
  BY <1>4, <1>5

\* Lane 0 acts on the merged word: it stops, takes the value or selects an edge.
LEMMA FinishWords ==
    ASSUME TypeOK, Finish
    PROVE  /\ Before("finish") /\ After("finish")' /\ WorkKept /\ m' \in Control /\ m'.ask = m.ask
           /\ UNCHANGED <<core, loop, graph, path, answer, mailbox, decision>>
           /\ \/ m'.stop # Running /\ m'.incoming = m.incoming /\ UNCHANGED policy
              \/ /\ ~m.diverged /\ m.merged = 0 /\ m'.stop = m.stop /\ m'.ready
                 /\ m'.incoming = m.incoming /\ UNCHANGED policy
              \/ /\ ~m.diverged /\ m.merged = 1 /\ m'.stop = m.stop /\ m'.ready = m.ready
                 /\ m.reason = 0 /\ Select
<1>1. /\ Before("finish") /\ After("finish")'
      /\ UNCHANGED <<core, loop, graph, path, answer, mailbox, decision>>
  BY DEF Finish, Alone, Before, After
<1>2. m \in Control
  BY DEF TypeOK
<1>3. ASSUME NEW cause \in {PolicyFailed, Pathless, Dead}, m' = [m EXCEPT !.stop = cause], UNCHANGED policy
      PROVE  m'.stop # Running /\ m'.incoming = m.incoming /\ m'.ask = m.ask /\ WorkKept /\ m' \in Control
  <2>1. cause \in Nat /\ cause # Running
    BY Causes
  <2> QED
    BY <1>2, <1>3, <2>1, StopWords DEF WorkKept
<1>4. CASE ~Rejected /\ m.merged = 0 /\ m' = [m EXCEPT !.ready = TRUE] /\ UNCHANGED policy
  BY <1>1, <1>2, <1>4, ReadyWords DEF WorkKept, Rejected
<1>5. CASE ~Rejected /\ m.merged = 1 /\ m.reason = 0 /\ Select
  <2>1. m' \in Control /\ m' = [m EXCEPT !.node = m'.node, !.incoming = m'.incoming]
    BY <1>5, SelectWords
  <2>2. m'.stop = m.stop /\ m'.ready = m.ready /\ m'.ask = m.ask /\ WorkKept
    BY <1>2, <2>1 DEF Control, WorkKept
  <2> QED
    BY <1>1, <1>5, <2>1, <2>2 DEF Rejected
<1>6. CASE \E cause \in {PolicyFailed, Pathless, Dead} : m' = [m EXCEPT !.stop = cause] /\ UNCHANGED policy
  BY <1>1, <1>3, <1>6
<1> QED
  BY <1>4, <1>5, <1>6 DEF Finish, StopWith

\* Of the decision: a bound is recorded, and no broken search decides.
LEMMA DecideWords ==
    ASSUME TypeOK, Decide
    PROVE  /\ Before("decide") /\ After("decide")' /\ WorkKept /\ m' \in Control
           /\ m'.incoming = m.incoming /\ m'.ask = m.ask
           /\ UNCHANGED <<core, loop, graph, path, policy, answer, mailbox>>
           /\ m'.stop = (IF m.stop = Running THEN Bound ELSE m.stop)
           /\ decision' \in BOOLEAN /\ (decision' => m.stop # Broken)
<1>1. /\ Before("decide") /\ After("decide")'
      /\ UNCHANGED <<core, loop, graph, path, policy, answer, mailbox>>
      /\ decision' \in BOOLEAN /\ (decision' => m.stop # Broken)
  BY DEF Decide, Alone, Before, After
<1> DEFINE cause == IF m.stop = Running THEN Bound ELSE m.stop
<1>2. m \in Control /\ cause \in Nat
  BY ControlFields, Causes DEF TypeOK
<1>3. m' = [m EXCEPT !.stop = cause]
  BY DEF Decide
<1>4. m' \in Control /\ m'.stop = cause /\ m'.ask = m.ask /\ m'.incoming = m.incoming /\ WorkKept
  <2> HIDE DEF cause
  <2> QED
    BY <1>2, <1>3, StopWords DEF WorkKept
<1> QED
  BY <1>1, <1>4

\* Where a barrier leads.
LEMMA BarrierWords ==
    ASSUME TypeOK, Barrier
    PROVE  /\ UNCHANGED <<core, m, graph, path, policy, answer, mailbox, decision>>
           /\ arrived = Lanes /\ arrived' \subseteq Lanes /\ section' \in Sections
           /\ loop' \in [iteration: Nat, step: Nat]
           /\ section' # "done" => 0 \notin arrived'
           /\ section' = "merge" => arrived' = {}
           /\ \/ section \in {"enter", "backup"} /\ section' = "claim" /\ m.stop = Running
              \/ section \in {"enter", "backup"} /\ section' = "decide"
              \/ section = "claim" /\ section' = "advance" /\ m.stop = Running /\ loop'.step = 0
              \/ section = "claim" /\ section' = "decide" /\ m.stop # Running
              \/ section = "advance" /\ m.ask /\ section' = "merge" /\ loop'.step = loop.step
              \/ /\ (section = "advance" /\ ~m.ask) \/ section = "finish"
                 /\ section' = "backup" /\ (~Open \/ loop.step + 1 = PathDepth)
                 /\ loop'.step = loop.step
              \/ /\ (section = "advance" /\ ~m.ask) \/ section = "finish"
                 /\ section' = "advance" /\ Open /\ loop.step + 1 # PathDepth
                 /\ loop'.step = loop.step + 1
              \/ section = "merge" /\ section' = "finish" /\ loop'.step = loop.step
              \/ section = "decide" /\ section' = "done"
<1>1. loop.iteration \in Nat /\ loop.step \in Nat /\ m.ready \in BOOLEAN
  BY ControlFields DEF TypeOK
<1>2. ASSUME NEW next \in Sections, NEW i \in Nat, NEW s \in Nat, Goto(next, i, s)
      PROVE  /\ section' = next /\ arrived' \subseteq Lanes /\ loop' \in [iteration: Nat, step: Nat]
             /\ next # "done" => 0 \notin arrived'
             /\ next = "merge" => arrived' = {}
             /\ loop'.step = s
  BY <1>2 DEF Goto
<1>3. UNCHANGED <<core, m, graph, path, policy, answer, mailbox, decision>> /\ arrived = Lanes
  BY DEF Barrier
<1>4. CASE (section = "enter" /\ Top(0)) \/ (section = "backup" /\ Top(loop.iteration + 1))
  <2>1. PICK i \in Nat : Top(i)
    BY <1>1, <1>4
  <2>2. \/ Goto("claim", i, 0) /\ m.stop = Running
        \/ Goto("decide", i, 0)
    BY <2>1 DEF Top
  <2> QED
    BY <1>2, <1>3, <1>4, <2>2 DEF Sections
<1>5. CASE section = "claim" /\ Goto(IF m.stop = Running THEN "advance" ELSE "decide", loop.iteration, 0)
  BY <1>1, <1>2, <1>3, <1>5 DEF Sections
<1>6. CASE ((section = "advance" /\ ~m.ask) \/ section = "finish") /\ Step
  <2>1. \/ Goto("backup", loop.iteration, loop.step) /\ (~Open \/ loop.step + 1 = PathDepth)
        \/ Goto("advance", loop.iteration, loop.step + 1) /\ Open /\ loop.step + 1 # PathDepth
    BY <1>6 DEF Step, Open
  <2> QED
    BY <1>1, <1>2, <1>3, <1>6, <2>1 DEF Sections
<1>7. CASE \/ section = "advance" /\ m.ask /\ Goto("merge", loop.iteration, loop.step)
           \/ section = "merge" /\ Goto("finish", loop.iteration, loop.step)
           \/ section = "decide" /\ Goto("done", loop.iteration, loop.step)
  BY <1>1, <1>2, <1>3, <1>7 DEF Sections
<1> QED
  BY <1>4, <1>5, <1>6, <1>7 DEF Barrier

\* The empty path has no occurrence of a node and crosses no edge.
LEMMA EmptyPath ==
    ASSUME NEW p, p = <<>>
    PROVE  /\ \A n \in Nodes : Cardinality({j \in DOMAIN p : p[j].node = n}) = 0
           /\ \A e \in Edges : Cardinality({j \in DOMAIN p : p[j].edge = e}) = 0
<1>1. DOMAIN p = {}
  OBVIOUS
<1>2. \A S \in SUBSET DOMAIN p : Cardinality(S) = 0
  BY <1>1, FS_EmptySet
<1> QED
  BY <1>2

\* A path's counts are natural numbers.
LEMMA CountsAreNatural ==
    ASSUME NEW p \in Seq(Records), NEW S \in SUBSET DOMAIN p
    PROVE  IsFiniteSet(S) /\ Cardinality(S) \in Nat
<1>1. DOMAIN p = 1 .. Len(p) /\ Len(p) \in Nat
  OBVIOUS
<1>2. IsFiniteSet(DOMAIN p)
  BY <1>1, FS_Interval
<1> QED
  BY <1>2, FS_Subset, FS_CardinalityType

\* One more occurrence counts where it belongs.
LEMMA LongerPath ==
    ASSUME NEW p \in Seq(Records), NEW r \in Records, NEW q, q = Append(p, r)
    PROVE  /\ \A n \in Nodes : Cardinality({j \in DOMAIN q : q[j].node = n})
                        = Cardinality({j \in DOMAIN p : p[j].node = n}) + (IF n = r.node THEN 1 ELSE 0)
           /\ \A e \in Edges : Cardinality({j \in DOMAIN q : q[j].edge = e})
                        = Cardinality({j \in DOMAIN p : p[j].edge = e}) + (IF e = r.edge THEN 1 ELSE 0)
<1> DEFINE last == Len(p) + 1
<1>1. /\ Len(p) \in Nat /\ DOMAIN p = 1 .. Len(p) /\ DOMAIN q = DOMAIN p \cup {last}
      /\ last \notin DOMAIN p /\ q[last] = r
      /\ \A j \in DOMAIN p : q[j] = p[j]
  OBVIOUS
<1> HIDE DEF last
<1>2. ASSUME NEW S \in SUBSET DOMAIN p
      PROVE  Cardinality(S \cup {last}) = Cardinality(S) + 1 /\ Cardinality(S) \in Nat
  <2>1. IsFiniteSet(S) /\ Cardinality(S) \in Nat /\ last \notin S
    BY <1>1, CountsAreNatural
  <2> QED
    BY <2>1, FS_AddElement
<1>3. ASSUME NEW n \in Nodes
      PROVE  Cardinality({j \in DOMAIN q : q[j].node = n})
                = Cardinality({j \in DOMAIN p : p[j].node = n}) + (IF n = r.node THEN 1 ELSE 0)
  <2> DEFINE S == {j \in DOMAIN p : p[j].node = n}
             Q == {j \in DOMAIN q : q[j].node = n}
  <2>1. Q = (IF n = r.node THEN S \cup {last} ELSE S)
    BY <1>1
  <2>2. S \in SUBSET DOMAIN p
    OBVIOUS
  <2> HIDE DEF S, Q
  <2>3. Cardinality(Q) = Cardinality(S) + (IF n = r.node THEN 1 ELSE 0)
    <3>1. CASE n = r.node
      BY <1>2, <2>1, <2>2, <3>1
    <3>2. CASE n # r.node
      <4>1. Q = S /\ Cardinality(S) \in Nat
        BY <1>2, <2>1, <2>2, <3>2
      <4> QED
        BY <3>2, <4>1
    <3> QED
      BY <3>1, <3>2
  <2> QED
    BY <2>3 DEF S, Q
<1>4. ASSUME NEW e \in Edges
      PROVE  Cardinality({j \in DOMAIN q : q[j].edge = e})
                = Cardinality({j \in DOMAIN p : p[j].edge = e}) + (IF e = r.edge THEN 1 ELSE 0)
  <2> DEFINE S == {j \in DOMAIN p : p[j].edge = e}
             Q == {j \in DOMAIN q : q[j].edge = e}
  <2>1. Q = (IF e = r.edge THEN S \cup {last} ELSE S)
    BY <1>1
  <2>2. S \in SUBSET DOMAIN p
    OBVIOUS
  <2> HIDE DEF S, Q
  <2>3. Cardinality(Q) = Cardinality(S) + (IF e = r.edge THEN 1 ELSE 0)
    <3>1. CASE e = r.edge
      BY <1>2, <2>1, <2>2, <3>1
    <3>2. CASE e # r.edge
      <4>1. Q = S /\ Cardinality(S) \in Nat
        BY <1>2, <2>1, <2>2, <3>2
      <4> QED
        BY <3>2, <4>1
    <3> QED
      BY <3>1, <3>2
  <2> QED
    BY <2>3 DEF S, Q
<1> QED
  BY <1>3, <1>4

\* What becomes of the counts of the path in a step.
LEMMA PathCounts ==
    ASSUME TypeOK
    PROVE  /\ \A n \in Nodes : Occurrences(n) \in Nat
           /\ \A e \in Edges : Crossed(e) \in Nat
           /\ path = <<>> => (\A n \in Nodes : Occurrences(n) = 0) /\ (\A e \in Edges : Crossed(e) = 0)
           /\ path' = path => /\ \A n \in Nodes : Occurrences(n)' = Occurrences(n)
                              /\ \A e \in Edges : Crossed(e)' = Crossed(e)
           /\ path' = <<>> => /\ \A n \in Nodes : Occurrences(n)' = 0
                              /\ \A e \in Edges : Crossed(e)' = 0
           /\ Push => /\ \A n \in Nodes : Occurrences(n)' = Occurrences(n) + (IF n = m.node THEN 1 ELSE 0)
                      /\ \A e \in Edges : Crossed(e)' = Crossed(e) + (IF e = m.incoming THEN 1 ELSE 0)
<1>1. path \in Seq(Records) /\ m.node \in Nodes /\ m.incoming \in Edges \cup {NoEdge}
  BY ControlFields DEF TypeOK
<1>2. (\A n \in Nodes : Occurrences(n) \in Nat) /\ (\A e \in Edges : Crossed(e) \in Nat)
  <2>1. \A S \in SUBSET DOMAIN path : Cardinality(S) \in Nat
    BY <1>1, CountsAreNatural
  <2> QED
    BY <2>1 DEF Occurrences, Crossed
<1>3. path = <<>> => (\A n \in Nodes : Occurrences(n) = 0) /\ (\A e \in Edges : Crossed(e) = 0)
  BY EmptyPath DEF Occurrences, Crossed
<1>4. path' = path => /\ \A n \in Nodes : Occurrences(n)' = Occurrences(n)
                      /\ \A e \in Edges : Crossed(e)' = Crossed(e)
  BY DEF Occurrences, Crossed
<1>5. path' = <<>> => (\A n \in Nodes : Occurrences(n)' = 0) /\ (\A e \in Edges : Crossed(e)' = 0)
  BY EmptyPath DEF Occurrences, Crossed
<1>6. ASSUME Push
      PROVE  /\ \A n \in Nodes : Occurrences(n)' = Occurrences(n) + (IF n = m.node THEN 1 ELSE 0)
             /\ \A e \in Edges : Crossed(e)' = Crossed(e) + (IF e = m.incoming THEN 1 ELSE 0)
  <2> DEFINE r == [node |-> m.node, edge |-> m.incoming]
  <2>1. r \in Records /\ path' = Append(path, r) /\ r.node = m.node /\ r.edge = m.incoming
    BY <1>1, <1>6 DEF Records, Push
  <2> HIDE DEF r
  <2>2. /\ \A n \in Nodes : Cardinality({j \in DOMAIN path' : path'[j].node = n})
                     = Cardinality({j \in DOMAIN path : path[j].node = n}) + (IF n = r.node THEN 1 ELSE 0)
        /\ \A e \in Edges : Cardinality({j \in DOMAIN path' : path'[j].edge = e})
                     = Cardinality({j \in DOMAIN path : path[j].edge = e}) + (IF e = r.edge THEN 1 ELSE 0)
    BY <1>1, <2>1, LongerPath
  <2> QED
    BY <2>1, <2>2 DEF Occurrences, Crossed
<1> QED
  BY <1>2, <1>3, <1>4, <1>5, <1>6

\* The actions of lane 0, which leave the section and the loop to the barrier.
Part ==
    \/ Enter \/ Forgo \/ Claim \/ Visit \/ Advance \/ Finish \/ Backup \/ Decide

\* Whatever its part, lane 0 then waits at the barrier.
LEMMA PartWords ==
    ASSUME TypeOK, Part
    PROVE  /\ arrived' \subseteq Lanes /\ 0 \in arrived' /\ 0 \notin arrived
           /\ UNCHANGED <<core, section, loop, mailbox>>
<1>1. \E part : Alone(part)
  BY DEF Part, Enter, Forgo, Claim, Visit, Advance, Finish, Backup, Decide
<1> QED
  BY <1>1, TypeAlone DEF Alone

\* The state keeps its type.
LEMMA TypeKept == ASSUME TypeOK, [Next]_vars PROVE TypeOK'
<1> USE DEF TypeOK
<1>1. CASE Part
  <2>1. /\ arrived' \subseteq Lanes
        /\ UNCHANGED <<core, section, loop, mailbox>>
    BY <1>1, PartWords
  <2>2. CASE Enter
    BY <2>1, <2>2, EnterWords
  <2>3. CASE Forgo
    BY <2>1, <2>3, ForgoWords
  <2>4. CASE Claim
    BY <2>1, <2>4, ClaimWords
  <2>5. CASE Visit
    BY <2>1, <2>5, VisitWords, SelectWords DEF Visits
  <2>6. CASE Advance
    <3>1. answer' \in [Lanes -> -1 .. 3]
      BY <2>6, AdvanceWords, Causes DEF Silent
    <3> QED
      BY <2>1, <2>6, <3>1, AdvanceWords DEF Visits
  <2>7. CASE Finish
    BY <2>1, <2>7, FinishWords, SelectWords
  <2>8. CASE Backup
    <3>1. UNCHANGED <<answer, decision>>
      BY <2>8 DEF Backup
    <3>2. path' = <<>>
      BY <2>8, BackupWords
    <3> QED
      BY <2>1, <2>8, <3>1, <3>2, BackupWords
  <2>9. CASE Decide
    BY <2>1, <2>9, DecideWords
  <2> QED
    BY <1>1, <2>2, <2>3, <2>4, <2>5, <2>6, <2>7, <2>8, <2>9 DEF Part
<1>2. CASE HostCancels
  BY <1>2 DEF HostCancels
<1>3. CASE Barrier
  BY <1>3, BarrierWords
<1>4. ASSUME NEW l \in Lanes, Merge(l) PROVE TypeOK'
  <2>1. arrived' \subseteq Lanes /\ m' \in Control
    BY <1>4, MergeWords
  <2>2. answer' \in [Lanes -> -1 .. 3]
    <3>1. PICK result \in 0 .. 3 : answer' = [answer EXCEPT ![l] = result]
      BY <1>4, MergeWords
    <3>2. result \in -1 .. 3
      OBVIOUS
    <3> QED
      BY <3>1, <3>2
  <2> QED
    BY <1>4, <2>1, <2>2, MergeWords
<1>5. CASE UNCHANGED vars
  BY <1>5 DEF vars
<1> QED
  BY <1>1, <1>2, <1>3, <1>4, <1>5 DEF Next, Part

\* Every step keeps the order of the loop, and the length of the path in it.
LEMMA FlowKept == ASSUME TypeOK, Flow, [Next]_vars PROVE Flow'
<1>1. /\ loop.step \in Nat /\ Len(path) \in Nat /\ m.work \in Nat /\ PathDepth \in Nat /\ PathDepth > 0
      /\ Running # Cancelled /\ Running # Spent /\ core \in {"finite", "cooperative"}
  BY ControlFields, Parameters, Causes DEF TypeOK
<1>2. CASE Part
  <2>1. 0 \in arrived' /\ 0 \notin arrived /\ UNCHANGED <<core, section, loop, mailbox>>
    BY <1>2, PartWords
  <2>2. CASE Enter
    BY <1>1, <2>1, <2>2, EnterWords DEF Flow, Between, Before, After, Open, WorkKept
  <2>3. CASE Forgo
    BY <1>1, <2>1, <2>3, ForgoWords DEF Flow, Between, Before, After, Open, WorkKept
  <2>4. CASE Claim
    BY <1>1, <2>1, <2>4, ClaimWords DEF Flow, Between, Before, After, Open, WorkKept
  <2>5. CASE Visit
    BY <1>1, <2>1, <2>5, VisitWords DEF Flow, Between, Before, After, Open, Entered, Visits, WorkKept
  <2>6. CASE Advance
    BY <1>1, <2>1, <2>6, AdvanceWords DEF Flow, Between, Before, After, Open, Entered, Visits, WorkKept
  <2>7. CASE Finish
    BY <1>1, <2>1, <2>7, FinishWords DEF Flow, Between, Before, After, Open, Entered, WorkKept
  <2>8. CASE Backup
    BY <1>1, <2>1, <2>8, BackupWords DEF Flow, Between, Before, After, Open
  <2>9. CASE Decide
    BY <1>1, <2>1, <2>9, DecideWords DEF Flow, Between, Before, After, Open, WorkKept
  <2> QED
    BY <1>2, <2>2, <2>3, <2>4, <2>5, <2>6, <2>7, <2>8, <2>9 DEF Part
<1>3. ASSUME NEW l \in Lanes, Merge(l) PROVE Flow'
  BY <1>1, <1>3, MergeWords DEF Flow, Between, Before, After, Open, Entered, WorkKept
<1>4. CASE Barrier
  <2> USE DEF Flow, Between, Before, After, Open, Entered
  <2>1. /\ UNCHANGED <<core, m, path>> /\ 0 \in arrived /\ (section' # "done" => 0 \notin arrived')
        /\ loop'.step \in Nat
    BY <1>4, BarrierWords, Parameters
  <2>2. CASE section' \in {"claim", "decide", "done"}
    BY <1>1, <1>4, <2>1, <2>2, BarrierWords
  <2>3. CASE section' \in {"merge", "finish"}
    BY <1>1, <1>4, <2>1, <2>3, BarrierWords
  <2>4. CASE section' = "advance" /\ section = "claim"
    BY <1>1, <1>4, <2>1, <2>4, BarrierWords
  <2>5. CASE section' = "advance" /\ section # "claim"
    BY <1>1, <1>4, <2>1, <2>5, BarrierWords
  <2>6. CASE section' = "backup"
    BY <1>1, <1>4, <2>1, <2>6, BarrierWords
  <2> QED
    BY <1>4, <2>2, <2>3, <2>4, <2>5, <2>6, BarrierWords
<1>5. CASE HostCancels \/ UNCHANGED vars
  BY <1>5 DEF HostCancels, vars, Flow, Between, Before, After, Open, Entered
<1> QED
  BY <1>2, <1>3, <1>4, <1>5 DEF Next, Part

\* Every step counts a work once as it begins, and once as it ends.
LEMMA CountsKept == ASSUME TypeOK, Flow, Counts, [Next]_vars PROVE Counts'
<1>1. /\ {m.claimed, m.released, m.committed, m.abandoned, m.quarantined, m.work} \subseteq Nat
  BY ControlFields DEF TypeOK
<1>2. CASE Claim
  BY <1>1, <1>2, ClaimWords DEF Counts, Flow, Between, Before, After, WorkKept
<1>3. CASE Backup
  <2>1. m.work # 0
    BY <1>3, BackupWords DEF Flow, Between, Before, After
  <2>2. {m'.committed, m'.abandoned, m'.quarantined} \subseteq Nat
    BY <1>3, BackupWords, ControlFields
  <2> QED
    BY <1>1, <1>3, <2>1, <2>2, BackupWords DEF Counts
<1>4. CASE WorkKept
  BY <1>4 DEF Counts, WorkKept
<1>5. CASE UNCHANGED m
  BY <1>5 DEF Counts
<1>6. Enter \/ Forgo \/ Visit \/ Advance \/ Finish \/ Decide => WorkKept
  BY EnterWords, ForgoWords, VisitWords, AdvanceWords, FinishWords, DecideWords
<1>7. (\E l \in Lanes : Merge(l)) => WorkKept
  BY MergeWords
<1>8. HostCancels \/ Barrier \/ UNCHANGED vars => UNCHANGED m
  BY BarrierWords DEF HostCancels, vars
<1> QED
  BY <1>2, <1>3, <1>4, <1>5, <1>6, <1>7, <1>8 DEF Next

\* Every step protects a node as often as it is on the path.
LEMMA ProtectionKept == ASSUME TypeOK, Protection, [Next]_vars PROVE Protection'
<1>1. graph.protected \in [Nodes -> Int] /\ m.node \in Nodes
  BY ControlFields DEF TypeOK
<1>2. CASE Visits
  <2>1. \A n \in Nodes : graph'.protected[n] = graph.protected[n] + (IF n = m.node THEN 1 ELSE 0)
    BY <1>1, <1>2 DEF Visits
  <2>2. \A n \in Nodes : Occurrences(n)' = Occurrences(n) + (IF n = m.node THEN 1 ELSE 0)
    BY <1>2, PathCounts DEF Visits
  <2> QED
    BY <2>1, <2>2 DEF Protection
<1>3. CASE UNCHANGED <<path, graph>>
  BY <1>3, PathCounts DEF Protection
<1>4. CASE Backup
  <2>1. path' = <<>> /\ \A n \in Nodes : graph'.protected[n] = graph.protected[n] - Occurrences(n)
    BY <1>4, BackupWords
  <2>2. \A n \in Nodes : Occurrences(n)' = 0 /\ Occurrences(n) \in Nat
    BY <2>1, PathCounts
  <2> QED
    BY <2>1, <2>2 DEF Protection
<1>5. Visit => Visits
  BY VisitWords
<1>6. Advance => Visits \/ UNCHANGED <<path, graph>>
  BY AdvanceWords
<1>7. Enter \/ Forgo \/ Claim \/ Finish \/ Decide => UNCHANGED <<path, graph>>
  BY EnterWords, ForgoWords, ClaimWords, FinishWords, DecideWords
<1>8. (\E l \in Lanes : Merge(l)) => UNCHANGED <<path, graph>>
  BY MergeWords
<1>9. HostCancels \/ Barrier \/ UNCHANGED vars => UNCHANGED <<path, graph>>
  BY BarrierWords DEF HostCancels, vars
<1> QED
  BY <1>2, <1>3, <1>4, <1>5, <1>6, <1>7, <1>8, <1>9 DEF Next

\* A step that moves neither the path, the Policy nor the edge selected last.
LEMMA FlightUnmoved ==
    ASSUME TypeOK, Flight, UNCHANGED <<path, policy>>, m'.incoming = m.incoming, m'.work = m.work,
           m.work # 0 => (Ahead' <=> Ahead) \/ m.incoming = NoEdge,
           m.work = 0 => m'.stop = m.stop /\ core' = core
    PROVE  Flight'
<1>1. ASSUME m.work # 0, NEW e \in Edges
      PROVE  policy'.inFlight[e] = Crossed(e)' + (IF Ahead' /\ e = m'.incoming THEN 1 ELSE 0)
  <2>1. Crossed(e)' = Crossed(e) /\ policy'.inFlight[e] = policy.inFlight[e]
    BY PathCounts
  <2>2. e # NoEdge
    BY NoEdgeIsNone
  <2> QED
    BY <1>1, <2>1, <2>2 DEF Flight
<1>2. ASSUME m.work = 0 PROVE InFlightIsLate'
  BY <1>2 DEF Flight, InFlightIsLate
<1> QED
  BY <1>1, <1>2 DEF Flight

\* Nothing is late of a search that was not cancelled.
LEMMA NothingLate ==
    ASSUME InFlightIsLate, m.stop # Cancelled
    PROVE  \A e \in Edges : policy.inFlight[e] = 0
BY DEF InFlightIsLate

\* Every step keeps an edge in flight exactly as the path and the edge ahead say.
LEMMA FlightKept == ASSUME TypeOK, Flow, Flight, [Next]_vars PROVE Flight'
<1>1. /\ loop.step \in Nat /\ Len(path) \in Nat /\ Running # Cancelled /\ m.ready \in BOOLEAN
      /\ policy.inFlight \in [Edges -> Int] /\ m.incoming \in Edges \cup {NoEdge}
      /\ \A e \in Edges : Crossed(e) \in Nat
  BY ControlFields, Causes, PathCounts DEF TypeOK
<1>2. CASE Enter \/ Forgo \/ Claim
  <2>1. m.work = 0 /\ path = <<>> /\ path' = path /\ policy' = policy
    BY <1>2, EnterWords, ForgoWords, ClaimWords DEF Flow, Between, Before
  <2>2. \A e \in Edges : policy'.inFlight[e] = 0 /\ Crossed(e)' = 0
    <3>1. m.stop = Running
      BY <1>2, EnterWords, ForgoWords, ClaimWords DEF Flow, Before
    <3> QED
      BY <1>1, <2>1, <3>1, NothingLate, PathCounts DEF Flight
  <2>3. m'.work # 0 => ~Ahead'
    BY <1>2, EnterWords, ForgoWords, ClaimWords, <2>1 DEF Ahead, Before, After, WorkKept
  <2>4. InFlightIsLate'
    <3>1. {} \in SUBSET {m'.incoming}
      OBVIOUS
    <3> QED
      BY <2>2, <3>1 DEF InFlightIsLate
  <2> QED
    BY <2>2, <2>3, <2>4 DEF Flight
<1>3. CASE Visit
  <2>1. /\ Before("advance") /\ After("advance")' /\ m.work # 0 /\ m'.work = m.work /\ Len(path) = loop.step
        /\ Visits /\ loop' = loop /\ ~m'.ask /\ Open
    BY <1>3, VisitWords DEF Flow, Between, Before, After, WorkKept
  <2>2. Ahead /\ (Ahead' <=> Open')
    BY <1>1, <2>1 DEF Ahead, Before, After, Visits
  <2>3. \A e \in Edges : policy.inFlight[e] = Crossed(e)'
    BY SMTT(30), <1>1, <2>1, <2>2, PathCounts DEF Flight, Visits
  <2>4. CASE UNCHANGED policy /\ ~Open'
    BY <2>1, <2>2, <2>3, <2>4, <1>1 DEF Flight
  <2>5. CASE Select /\ Open'
    <3>1. policy'.inFlight = [policy.inFlight EXCEPT ![m'.incoming] = @ + 1]
      BY <2>5, SelectWords
    <3>2. \A e \in Edges : policy'.inFlight[e] = policy.inFlight[e] + (IF e = m'.incoming THEN 1 ELSE 0)
      BY <1>1, <3>1
    <3> QED
      BY <2>1, <2>2, <2>3, <2>5, <3>2 DEF Flight
  <2> QED
    BY <1>3, <2>1, <2>4, <2>5, VisitWords DEF Open
<1>4. CASE Advance
  <2>1. /\ Before("advance") /\ After("advance")' /\ m.work # 0 /\ m'.work = m.work /\ Len(path) = loop.step
        /\ loop' = loop /\ m'.incoming = m.incoming /\ UNCHANGED policy
    BY <1>4, AdvanceWords DEF Flow, Between, Before, After, WorkKept
  <2>2. Ahead
    BY <2>1 DEF Ahead
  <2>3. CASE UNCHANGED <<path, graph>>
    <3>1. Ahead'
      BY <2>1, <2>3 DEF Ahead
    <3> QED
      BY <2>1, <2>2, <2>3, <3>1, FlightUnmoved
  <2>4. CASE Visits /\ (m'.stop # Running \/ m'.ready \/ m'.ask)
    <3>1. ~Ahead'
      BY <1>1, <2>1, <2>4 DEF Ahead, Before, After, Open, Visits
    <3>2. \A e \in Edges : policy.inFlight[e] = Crossed(e)'
      BY <1>1, <2>1, <2>2, <2>4, PathCounts DEF Flight, Visits
    <3> QED
      BY <1>1, <2>1, <3>1, <3>2 DEF Flight
  <2> QED
    BY <1>4, <2>3, <2>4, AdvanceWords
<1>5. CASE Finish
  <2>1. /\ Before("finish") /\ After("finish")' /\ m.work # 0 /\ m'.work = m.work
        /\ path' = path /\ Open
    BY <1>5, FinishWords DEF Flow, Between, Before, After, WorkKept
  <2>2. ~Ahead /\ (Ahead' <=> Open')
    BY <2>1 DEF Ahead, Before, After
  <2>3. CASE UNCHANGED policy /\ m'.incoming = m.incoming /\ ~Open'
    BY <2>1, <2>2, <2>3, FlightUnmoved
  <2>4. CASE Select /\ Open'
    <3>1. policy'.inFlight = [policy.inFlight EXCEPT ![m'.incoming] = @ + 1]
      BY <2>4, SelectWords
    <3>2. \A e \in Edges : policy'.inFlight[e] = policy.inFlight[e] + (IF e = m'.incoming THEN 1 ELSE 0)
      BY <1>1, <3>1
    <3>3. \A e \in Edges : policy.inFlight[e] = Crossed(e)'
      BY <1>1, <2>1, <2>2, PathCounts DEF Flight
    <3> QED
      BY <2>1, <2>2, <2>4, <3>2, <3>3 DEF Flight
  <2> QED
    BY <1>5, <2>1, <2>3, <2>4, FinishWords DEF Open
<1>6. CASE Backup
  <2>1. /\ m.work # 0 /\ m'.work = 0 /\ m'.incoming = m.incoming /\ core' = core
        /\ Before("backup") /\ ~Open /\ Entered /\ (m.stop # Running => m'.stop = m.stop)
        /\ \A e \in Edges : policy'.inFlight[e] = policy.inFlight[e] - Crossed(e)
    BY <1>6, BackupWords DEF Flow, Between, Before, After, Backup, Alone
  <2>2. \A e \in Edges : policy'.inFlight[e] = IF Ahead /\ e = m.incoming THEN 1 ELSE 0
    BY <1>1, <2>1 DEF Flight
  <2>3. Ahead => m'.stop = Cancelled /\ core' = "cooperative"
    BY <1>1, <2>1 DEF Ahead, Before, After, Entered
  <2>4. InFlightIsLate'
    <3> DEFINE late == IF Ahead THEN {m'.incoming} ELSE {}
    <3>2. late \in SUBSET {m'.incoming} /\ (late # {} => Ahead)
      OBVIOUS
    <3>1. \A e \in Edges : policy'.inFlight[e] = IF e \in late THEN 1 ELSE 0
      BY <2>1, <2>2
    <3> HIDE DEF late
    <3> QED
      BY <2>3, <3>1, <3>2 DEF InFlightIsLate
  <2> QED
    BY <2>1, <2>4 DEF Flight
<1>7. CASE Decide
  <2>1. /\ m.work = 0 /\ m'.work = 0 /\ m'.incoming = m.incoming /\ core' = core /\ UNCHANGED policy
        /\ m.stop = Cancelled => m'.stop = Cancelled
    BY <1>1, <1>7, DecideWords DEF Flow, Between, Before, WorkKept
  <2> QED
    BY <2>1 DEF Flight, InFlightIsLate
<1>8. ASSUME NEW l \in Lanes, Merge(l) PROVE Flight'
  <2>1. /\ section = "merge" /\ section' = "merge" /\ m'.incoming = m.incoming /\ m'.work = m.work
        /\ m'.stop = m.stop /\ UNCHANGED <<core, path, policy>>
    BY <1>8, MergeWords DEF WorkKept
  <2>2. ~Ahead /\ ~Ahead'
    BY <2>1 DEF Ahead, Before, After
  <2> QED
    BY <2>1, <2>2, FlightUnmoved
<1>9. CASE Barrier
  <2>1. UNCHANGED <<core, m, path, policy>> /\ 0 \in arrived /\ (section' # "done" => 0 \notin arrived')
    BY <1>9, BarrierWords, Parameters
  <2>2. m.work # 0 => (Ahead' <=> Ahead) \/ m.incoming = NoEdge
    <3> USE DEF Ahead, Before, After, Open, Flow, Between, Entered
    <3>1. CASE section \in {"enter", "claim", "backup", "decide"}
      BY <1>1, <1>9, <2>1, <3>1, BarrierWords
    <3>2. CASE section = "merge" \/ section' = "merge"
      BY <1>1, <1>9, <2>1, <3>2, BarrierWords
    <3>3. CASE section = "advance" /\ section' # "merge"
      BY <1>1, <1>9, <2>1, <3>3, BarrierWords
    <3>4. CASE section = "finish"
      BY <1>1, <1>9, <2>1, <3>4, BarrierWords
    <3> QED
      BY <1>9, <3>1, <3>2, <3>3, <3>4, BarrierWords
  <2> QED
    BY <2>1, <2>2, FlightUnmoved
<1>10. CASE HostCancels \/ UNCHANGED vars
  <2>1. /\ UNCHANGED <<core, section, arrived, loop, m, path, policy>>
    BY <1>10 DEF HostCancels, vars
  <2> QED
    BY <2>1, FlightUnmoved DEF Ahead, Before, After, Open
<1> QED
  BY <1>2, <1>3, <1>4, <1>5, <1>6, <1>7, <1>8, <1>9, <1>10 DEF Next

\* Every step keeps the quarantine and the decision apart.
LEMMA QuarantineKept == ASSUME TypeOK, Flow, Quarantine, [Next]_vars PROVE Quarantine'
<1>1. Broken # Running /\ m.quarantined \in Nat
  BY ControlFields, Causes DEF TypeOK
<1>2. CASE Backup
  <2>1. /\ Before("backup") /\ After("backup")' /\ decision' = decision
        /\ m.quarantined = 0 /\ policy.open = 0 /\ ~decision
    BY <1>2, BackupWords DEF Quarantine, Before, After, Backup
  <2>2. (m'.quarantined = m.quarantined => policy'.open = policy.open) /\ (m'.quarantined # m.quarantined => m'.stop = Broken)
    BY <1>2, BackupWords
  <2> QED
    BY <2>1, <2>2 DEF Quarantine
<1>3. CASE Decide
  <2>1. /\ Before("decide") /\ After("decide")' /\ m'.quarantined = m.quarantined /\ policy' = policy
        /\ m'.stop = (IF m.stop = Running THEN Bound ELSE m.stop)
        /\ (decision' => m.stop # Broken)
    BY <1>3, DecideWords DEF WorkKept
  <2> QED
    BY <1>1, <2>1 DEF Quarantine, Before, After
<1>4. CASE Enter \/ Forgo \/ Claim \/ Visit \/ Advance \/ Finish
  <2>1. /\ section \in {"enter", "claim", "advance", "finish"}
        /\ section' = section /\ 0 \notin arrived /\ decision' = decision
        /\ m'.quarantined = m.quarantined
    BY <1>4, EnterWords, ForgoWords, ClaimWords, VisitWords, AdvanceWords, FinishWords, PartWords
       DEF WorkKept, Before, Part
  <2>2. policy'.open = policy.open
    BY <1>4, EnterWords, ForgoWords, ClaimWords, VisitWords, AdvanceWords, FinishWords, SelectWords
  <2> QED
    BY <2>1, <2>2 DEF Quarantine, After
<1>5. ASSUME NEW l \in Lanes, Merge(l) PROVE Quarantine'
  <2>1. /\ section = "merge" /\ section' = "merge" /\ UNCHANGED <<policy, decision>>
        /\ m'.quarantined = m.quarantined
    BY <1>5, MergeWords DEF WorkKept
  <2> QED
    BY <2>1 DEF Quarantine, After
<1>6. CASE Barrier
  <2>1. UNCHANGED <<m, policy, decision>>
    BY <1>6, BarrierWords
  <2> QED
    BY <1>1, <1>6, <2>1, BarrierWords DEF Quarantine, After
<1>7. CASE HostCancels \/ UNCHANGED vars
  BY <1>7 DEF HostCancels, vars, Quarantine, After
<1> QED
  BY <1>2, <1>3, <1>4, <1>5, <1>6, <1>7 DEF Next

\* Every step keeps the merged word true of the lanes that have answered.
LEMMA MergingKept == ASSUME TypeOK, Flow, Merging, [Next]_vars PROVE Merging'
<1>1. m.merged \in 0 .. 3 /\ m.diverged \in BOOLEAN /\ answer \in [Lanes -> -1 .. 3] /\ Empty = 3
      /\ arrived \subseteq Lanes /\ 0 \in Lanes
  BY ControlFields, Parameters, Causes DEF TypeOK
<1>2. CASE Advance
  <2>1. section' = "advance" /\ (m'.ask => m'.merged = Empty /\ ~m'.diverged)
    BY <1>2, AdvanceWords DEF After
  <2> QED
    BY <2>1 DEF Merging, Before, After
<1>3. CASE Visit
  <2>1. section' = "advance" /\ ~m'.ask
    BY <1>3, VisitWords DEF After, Flow
  <2> QED
    BY <2>1 DEF Merging, Before, After
<1>4. CASE Enter \/ Forgo \/ Claim \/ Finish \/ Backup \/ Decide
  <2>1. section' \in {"enter", "claim", "finish", "backup", "decide"} /\ 0 \in arrived'
    BY <1>4, EnterWords, ForgoWords, ClaimWords, FinishWords, BackupWords, DecideWords DEF After
  <2> QED
    BY <2>1 DEF Merging, Before, After
<1>5. ASSUME NEW l \in Lanes, Merge(l) PROVE Merging'
  <2>1. section = "merge" /\ section' = "merge" /\ l \notin arrived /\ arrived' = arrived \cup {l}
    BY <1>5, MergeWords
  <2>2. PICK result \in 0 .. 3 :
           /\ answer' = [answer EXCEPT ![l] = result]
           /\ IF m.merged = Empty THEN m'.merged = result /\ m'.diverged = m.diverged
              ELSE m'.merged = m.merged /\ m'.diverged = (m.diverged \/ m.merged # result)
    BY <1>5, MergeWords
  <2>3. answer'[l] = result /\ \A k \in arrived : answer'[k] = answer[k]
    BY <1>1, <2>1, <2>2
  <2>4. CASE m.merged = Empty
    <3>1. m'.merged = result /\ m'.diverged = m.diverged
      BY <2>2, <2>4
    <3>2. m.diverged \/ \A k \in arrived : answer[k] = Empty
      BY <2>1, <2>4 DEF Merging, Agreed
    <3>3. m'.diverged \/ \A k \in arrived' : answer'[k] \in {m'.merged, Empty}
      BY <2>1, <2>3, <3>1, <3>2
    <3> QED
      BY <2>1, <2>3, <3>1, <3>3 DEF Merging, Agreed, Before, After
  <2>5. CASE m.merged # Empty
    <3>1. m'.merged = m.merged /\ m'.diverged = (m.diverged \/ m.merged # result)
      BY <2>2, <2>5
    <3>2. m.diverged \/ ((\A k \in arrived : answer[k] \in {m.merged, Empty})
                          /\ \E k \in arrived : answer[k] = m.merged)
      BY <2>1, <2>5 DEF Merging, Agreed
    <3>3. m'.diverged \/ ((\A k \in arrived' : answer'[k] \in {m'.merged, Empty})
                           /\ \E k \in arrived' : answer'[k] = m'.merged)
      BY <2>1, <2>3, <3>1, <3>2
    <3> QED
      BY <2>1, <3>3 DEF Merging, Agreed, Before, After
  <2> QED
    BY <2>4, <2>5
<1>6. CASE Barrier
  <2>1. UNCHANGED <<m, answer>> /\ arrived = Lanes /\ (section' # "done" => 0 \notin arrived')
        /\ (section' = "merge" => arrived' = {} /\ section = "advance" /\ m.ask)
        /\ (section' = "finish" => section = "merge")
    BY <1>6, BarrierWords
  <2>2. CASE section' = "merge"
    BY <1>1, <2>1, <2>2 DEF Merging, Agreed, Before, After
  <2>3. CASE section' = "finish"
    BY <1>1, <2>1, <2>3 DEF Merging, Agreed, Before, After
  <2>4. CASE section' \notin {"merge", "finish"}
    BY <2>1, <2>4 DEF Merging, Before, After
  <2> QED
    BY <2>2, <2>3, <2>4
<1>7. CASE HostCancels \/ UNCHANGED vars
  BY <1>7 DEF HostCancels, vars, Merging, Agreed, Before, After
<1> QED
  BY <1>2, <1>3, <1>4, <1>5, <1>6, <1>7 DEF Next

\* Lane 0 acts only on what all lanes said.
LEMMA OneAnswerKept == ASSUME TypeOK, Flow, Merging, OneAnswer, [Next]_vars PROVE OneAnswer'
<1>1. CASE Finish
  <2>1. /\ Before("finish") /\ After("finish")' /\ answer' = answer /\ Open
        /\ Agreed(Lanes) /\ Empty # 0 /\ Empty # 1
    BY <1>1, FinishWords, Causes DEF Flow, Merging
  <2>2. CASE m'.stop # Running
    BY <2>2 DEF OneAnswer
  <2>3. CASE ~m.diverged /\ m.merged = 0 /\ m'.ready
    BY <2>1, <2>3 DEF OneAnswer, Agreed
  <2>4. CASE ~m.diverged /\ m.merged = 1 /\ m'.ready = m.ready
    BY <2>1, <2>4 DEF OneAnswer, Open, Agreed
  <2> QED
    BY <1>1, <2>2, <2>3, <2>4, FinishWords
<1>2. CASE Enter \/ Forgo \/ Claim \/ Visit \/ Advance \/ Backup \/ Decide
  <2>1. section' # "finish"
    BY <1>2, EnterWords, ForgoWords, ClaimWords, VisitWords, AdvanceWords, BackupWords, DecideWords DEF After
  <2> QED
    BY <2>1 DEF OneAnswer
<1>3. CASE \E l \in Lanes : Merge(l)
  BY <1>3, MergeWords DEF OneAnswer
<1>4. CASE Barrier
  <2>1. section' = "finish" => 0 \notin arrived'
    BY <1>4, BarrierWords
  <2> QED
    BY <2>1 DEF OneAnswer
<1>5. CASE HostCancels \/ UNCHANGED vars
  BY <1>5 DEF HostCancels, vars, OneAnswer
<1> QED
  BY <1>1, <1>2, <1>3, <1>4, <1>5 DEF Next

\* The invariant holds as the search is launched.
LEMMA InitInvariant == ASSUME Init PROVE IInv
<1>1. TypeOK
  BY InitType
<1>2. /\ section = "enter" /\ 0 \notin arrived /\ path = <<>> /\ decision = FALSE
      /\ m.work = 0 /\ m.stop = Running /\ ~m.ask
      /\ m.claimed = 0 /\ m.released = 0 /\ m.committed = 0 /\ m.abandoned = 0 /\ m.quarantined = 0
      /\ \A n \in Nodes : graph.protected[n] = 0
      /\ policy.open = 0 /\ \A e \in Edges : policy.inFlight[e] = 0
  BY DEF Init
<1>3. Flow /\ Counts /\ Quarantine /\ Merging /\ OneAnswer
  BY <1>2 DEF Flow, Counts, Quarantine, Merging, OneAnswer, Between, Before, After
<1>4. Protection
  BY <1>1, <1>2, PathCounts DEF Protection
<1>5. InFlightIsLate
  <2>1. {} \in SUBSET {m.incoming}
    OBVIOUS
  <2> QED
    BY <1>2, <2>1 DEF InFlightIsLate
<1> QED
  BY <1>1, <1>2, <1>3, <1>4, <1>5 DEF IInv, Flight

\* Every step keeps the invariant.
LEMMA StepInvariant == ASSUME IInv, [Next]_vars PROVE IInv'
BY TypeKept, FlowKept, CountsKept, ProtectionKept, FlightKept, QuarantineKept, MergingKept, OneAnswerKept
   DEF IInv

\* The inductive invariant holds in every state of either core.
THEOREM Invariant == Spec => []IInv
BY InitInvariant, StepInvariant, PTL DEF Spec

\* Every word keeps its type, for any domain and any number of lanes.
THEOREM TypeCorrect == Spec => []TypeOK
<1>1. IInv => TypeOK
  BY DEF IInv
<1> QED
  BY <1>1, Invariant, PTL

\* A value is taken, or an edge further gone, only on the word of the lanes of
\* the block, however they are interleaved between the two barriers: some lane
\* gave it, and each gave the same one or failed with the empty word.
THEOREM OneAnswerHolds == Spec => []OneAnswer
<1>1. IInv => OneAnswer
  BY DEF IInv
<1> QED
  BY <1>1, Invariant, PTL

\* Between two pieces of work each one begun was settled once, nothing stays
\* protected and no edge in flight but for that of a late cancellation, and a
\* broken backup leaves nothing decided.
THEOREM WorkSettles == Spec => []WorkSettled
<1>1. IInv => WorkSettled
  <2> SUFFICES ASSUME IInv PROVE WorkSettled
    OBVIOUS
  <2>1. TypeOK /\ Flow /\ Counts /\ Protection /\ Flight /\ Quarantine
    BY DEF IInv
  <2>2. ASSUME m.work = 0 PROVE Settled /\ InFlightIsLate
    <3>1. path = <<>>
      BY <2>1, <2>2 DEF Flow
    <3>2. \A n \in Nodes : graph.protected[n] = 0
      BY <2>1, <3>1, PathCounts DEF Protection
    <3>3. m.claimed = m.released /\ m.claimed = m.committed + m.abandoned + m.quarantined
      <4>1. {m.released, m.committed, m.abandoned, m.quarantined} \subseteq Nat
        BY <2>1, ControlFields DEF TypeOK
      <4> QED
        BY <2>1, <2>2, <4>1 DEF Counts
    <3> QED
      BY <2>1, <2>2, <3>1, <3>2, <3>3 DEF Settled, Flight
  <2>3. (policy.open # 0 => m.quarantined # 0) /\ (decision => m.quarantined = 0)
    BY <2>1 DEF Quarantine
  <2> QED
    BY <2>2, <2>3 DEF WorkSettled
<1> QED
  BY <1>1, Invariant, PTL

\* A path fits the words it is given: no visit pushes beyond the last of them.
PathFits == Len(path) \leq PathDepth

\* No descent outruns the path words, though the bound is tested at the end of
\* a step and not where a node is pushed.
THEOREM PathsFit == Spec => []PathFits
<1>1. IInv => PathFits
  <2> SUFFICES ASSUME IInv PROVE PathFits
    OBVIOUS
  <2>1. TypeOK /\ Flow
    BY DEF IInv
  <2>2. Len(path) \in Nat /\ loop.step \in Nat /\ PathDepth \in Nat /\ (path = <<>> => Len(path) = 0)
        /\ section \in Sections
    BY <2>1, Parameters DEF TypeOK
  <2>3. CASE section \in {"advance", "merge", "finish", "backup"} /\ m.work # 0
    BY <2>1, <2>2, <2>3 DEF Flow, Before, After, Entered, Between, PathFits
  <2>4. CASE path = <<>>
    BY <2>2, <2>4 DEF PathFits
  <2>5. section \in {"enter", "claim", "decide", "done"} \/ m.work = 0 => path = <<>>
    BY <2>1 DEF Flow, Between, Before, After
  <2> QED
    BY <2>2, <2>3, <2>4, <2>5 DEF Sections
<1> QED
  BY <1>1, Invariant, PTL

\* The finite core releases every reservation of an edge, as the contract says
\* of both.
THEOREM FiniteCoreReleases == Spec => [](core = "finite" => ReservationsReleased)
<1>1. IInv => (core = "finite" => ReservationsReleased)
  <2> SUFFICES ASSUME IInv, core = "finite", section = "done"
               PROVE  \A e \in Edges : policy.inFlight[e] = 0
    BY DEF ReservationsReleased
  <2>1. InFlightIsLate
    BY DEF IInv, Flow, Between, Flight
  <2> QED
    BY <2>1 DEF InFlightIsLate
<1> QED
  BY <1>1, Invariant, PTL
=============================================================================
