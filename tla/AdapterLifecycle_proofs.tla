----------------------- MODULE AdapterLifecycle_proofs -----------------------
(***************************************************************************)
(* What holds of a prepared execution whose client does not overlap its    *)
(* own ignitions and closings, for any number of pending calls, of handles *)
(* of a kind and of failures of the lower runtime: the flags that admit a  *)
(* call are right on every path, a cleanup runs alone, releases children   *)
(* before parents, and loses and forgets nothing.                          *)
(***************************************************************************)
EXTENDS AdapterLifecycle, WellFoundedInduction, FiniteSetTheorems, TLAPS

-----------------------------------------------------------------------------
(* What each step does, said of the call that turns, of the handles and of  *)
(* the words of the execution.  The proofs of the invariant rest on these   *)
(* lemmas and look at no action again.                                      *)

\* The words of an execution, and what the client sees of an external operation.
States == {"none", "prepared", "initializing", "running", "completed", "closed"}
Words == [state: States, closed: BOOLEAN, cold: BOOLEAN, stored: BOOLEAN, submitting: BOOLEAN,
          describing: BOOLEAN, deliveries: Int, report: {"none", "complete", "quarantined"}]
Children == [held: BOOLEAN, completed: BOOLEAN, busy: BOOLEAN, attempted: BOOLEAN]

\* The parts of each call.
Transfer == {"move", "shut"}
Parts(kind) ==
    CASE kind = "idle" -> {"idle"}
      [] kind = "prepare" -> {"acquire", "cleanup"}
      [] kind = "preinitialize" -> {"validate", "write", "cleanup"}
      [] kind = "ignite" -> {"validate", "write", "launch", "stage", "read", "initialize", "initWait",
                             "initShut", "submit", "status", "cleanup"} \cup Transfer
      [] kind = "external" -> {"stage", "attach"} \cup Transfer
      [] kind = "deliver" -> {"read"} \cup Transfer
      [] kind = "childDeliver" -> {"yield", "read"} \cup Transfer
      [] kind = "childClose" -> {"yield"}
      [] kind = "childWait" -> {"childWait"}
      [] kind = "wait" -> {"wait"}
      [] kind = "describe" -> {"describe"}
      [] kind = "close" -> {"cleanup"}

\* The calls, where they ask the lower runtime for a handle and where they have one.
CallKinds == {"idle", "prepare", "preinitialize", "ignite", "external", "deliver", "childDeliver",
              "childClose", "childWait", "wait", "describe", "close"}
Asking == {"stage", "read", "initialize", "submit", "attach"}
Having == {"initWait", "initShut", "status"} \cup Transfer
Records == [kind: CallKinds, pc: UNION {Parts(k) : k \in CallKinds}, h: Handles, who: Ids \cup {0},
            bad: BOOLEAN, stage: 0 .. 9, todo: SUBSET Handles, kept: SUBSET Handles]

\* The values of the variables.
Types ==
    /\ plan \in [continuation: BOOLEAN, cold: BOOLEAN]
    /\ exec \in Words /\ child \in [Ids -> Children]
    /\ owned \subseteq Handles /\ live \subseteq Handles /\ failed \subseteq Handles
    /\ call \in [Calls -> Records]

\* The kind of what a call asks for or has.
Kind(pc) ==
    CASE pc \in {"stage", "read"} \cup Transfer -> "xfer"
      [] pc \in {"initialize", "initWait", "initShut", "attach"} -> "child"
      [] OTHER -> "operation"

\* The kinds of handles an execution is prepared with.
Basis == {Order[i] : i \in DOMAIN Order}

\* A stage is passed when what it left is kept, or it was skipped.
Passed(stage, kept) == Of(owned, Stages[stage]) \subseteq kept \/ Skipped(Stages[stage], kept)

\* How far the cleanup of a call has come.
SweepingAt(c) ==
    LET s == call[c].stage
        kept == call[c].kept
    IN  /\ s \in 1 .. 9
        /\ call[c].todo # {} /\ call[c].todo \subseteq Of(owned, Stages[s])
        /\ kept \subseteq failed
        /\ \A t \in 1 .. s - 1 : Passed(t, kept)
        /\ Of(owned, Stages[s]) \subseteq kept \cup call[c].todo
        /\ ~Skipped(Stages[s], kept \ Of(kept, Stages[s]))
        /\ s > 1 => Of(owned, "child") \subseteq kept

-----------------------------------------------------------------------------

\* A set of numbers that is not empty has a least element.
LEMMA Least ==
    ASSUME NEW S \in SUBSET Nat, S # {}
    PROVE  \E i \in S : \A j \in S : i \leq j
<1>1. PICK i \in S : \A j \in S : <<j, i>> \notin OpToRel(<, Nat)
  BY NatLessThanWellFounded, WFMin
<1>2. \A j \in S : ~(j < i)
  BY <1>1 DEF OpToRel
<1> QED
  BY <1>2

\* What the assumption on the constants gives.
LEMMA Constants ==
    /\ Ids \in SUBSET Nat /\ 0 \notin Ids /\ MaxFaults \in Nat /\ MaxTransfers \in Nat /\ MaxTransfers > 0
    /\ Overlap \in BOOLEAN
BY AdapterAssumption DEF AdapterAssumption

\* A handle is its kind and its name.
LEMMA HandlePairs ==
    /\ \A k \in Kinds, i \in Ids \cup {0} : <<k, i>> \in Handles
    /\ \A h \in Handles : h[1] \in Kinds /\ h[2] \in Ids \cup {0} /\ h = <<h[1], h[2]>>
BY DEF Handles

\* The kinds of handles are the stages of a cleanup.
LEMMA StageKinds ==
    /\ DOMAIN Stages = 1 .. 9 /\ \A s \in 1 .. 9 : Stages[s] \in Kinds
    /\ \A k \in Kinds : \E s \in 1 .. 9 : Stages[s] = k
    /\ Stages[1] = "child" /\ Stages[2] = "xfer" /\ Stages[3] = "operation" /\ Stages[4] = "function"
    /\ Stages[5] = "module" /\ Stages[6] = "mailbox" /\ Stages[7] = "view" /\ Stages[8] = "memory"
    /\ Stages[9] = "runtime"
<1>1. /\ DOMAIN Stages = 1 .. 9
      /\ Stages[1] = "child" /\ Stages[2] = "xfer" /\ Stages[3] = "operation" /\ Stages[4] = "function"
      /\ Stages[5] = "module" /\ Stages[6] = "mailbox" /\ Stages[7] = "view" /\ Stages[8] = "memory"
      /\ Stages[9] = "runtime"
  BY DEF Stages
<1>2. \A s \in 1 .. 9 : s = 1 \/ s = 2 \/ s = 3 \/ s = 4 \/ s = 5 \/ s = 6 \/ s = 7 \/ s = 8 \/ s = 9
  OBVIOUS
<1>3. \A s \in 1 .. 9 : Stages[s] \in Kinds
  BY <1>1, <1>2 DEF Kinds
<1>4. \A k \in Kinds : \E s \in 1 .. 9 : Stages[s] = k
  <2>1. {1, 2, 3, 4, 5, 6, 7, 8, 9} \subseteq 1 .. 9
    OBVIOUS
  <2> QED
    BY <1>1, <2>1 DEF Kinds
<1> QED
  BY <1>1, <1>3, <1>4

\* One call turns, and the others stay where they are.
Turns(c, kind, pc, h, who) ==
    /\ call' \in [Calls -> Records]
    /\ call'[c].kind = kind /\ call'[c].pc = pc /\ call'[c].h = h /\ call'[c].who = who
    /\ \A d \in Calls \ {c} : call'[d] = call[d]

\* The parts of all calls, and the handle of a call that has none.
Pcs == UNION {Parts(k) : k \in CallKinds}
NoHandle == <<"runtime", 0>>

\* The parts of all calls, by name.
LEMMA PcsAre ==
    Pcs = {"idle", "acquire", "cleanup", "validate", "write", "launch", "stage", "read", "initialize",
           "initWait", "initShut", "submit", "status", "move", "shut", "attach", "yield", "childWait", "wait", "describe"}
<1> DEFINE Names == {"idle", "acquire", "cleanup", "validate", "write", "launch", "stage", "read", "initialize",
                     "initWait", "initShut", "submit", "status", "move", "shut", "attach", "yield", "childWait", "wait", "describe"}
<1>1. \A k \in CallKinds : Parts(k) \subseteq Names
  BY DEF CallKinds, Parts, Transfer
<1>2. /\ Parts("idle") = {"idle"} /\ Parts("prepare") = {"acquire", "cleanup"}
      /\ Parts("ignite") = {"validate", "write", "launch", "stage", "read", "initialize", "initWait",
                             "initShut", "submit", "status", "cleanup", "move", "shut"}
      /\ Parts("external") = {"stage", "attach", "move", "shut"} /\ Parts("childClose") = {"yield"}
      /\ Parts("childWait") = {"childWait"} /\ Parts("wait") = {"wait"} /\ Parts("describe") = {"describe"}
  BY DEF Parts, Transfer
<1>3. {"idle", "prepare", "ignite", "external", "childClose", "childWait", "wait", "describe"} \subseteq CallKinds
  BY DEF CallKinds
<1>4. \A pc \in Names : \E k \in CallKinds : pc \in Parts(k)
  BY <1>2, <1>3
<1> QED
  BY <1>1, <1>4 DEF Pcs

\* The record of no call is one.
LEMMA IdleRecord ==
    /\ Idle \in Records /\ Idle.kind = "idle" /\ Idle.pc = "idle" /\ Idle.h = NoHandle /\ Idle.who = 0
    /\ NoHandle \in Handles
<1>1. NoHandle \in Handles
  BY HandlePairs DEF NoHandle, Kinds
<1>2. "idle" \in CallKinds /\ "idle" \in Pcs
  BY PcsAre DEF CallKinds
<1>3. 0 \in 0 .. 9
  OBVIOUS
<1> QED
  BY <1>1, <1>2, <1>3 DEF Idle, Records, NoHandle, Pcs

\* The record of a call that starts is one, without a handle.
LEMMA CalledRecord ==
    ASSUME NEW kind \in CallKinds
    PROVE  Called(kind) \in Records /\ Called(kind).kind = kind /\ Called(kind).h = NoHandle /\ Called(kind).who = 0
BY IdleRecord DEF Called, Records

\* How a call turns.
LEMMA GotoTurns ==
    ASSUME Types, NEW c \in Calls, NEW r \in Records, NEW pc \in Pcs, Goto(c, r, pc)
    PROVE  Turns(c, r.kind, pc, r.h, r.who) /\ call'[c] = [r EXCEPT !.pc = pc]
<1>1. [r EXCEPT !.pc = pc] \in Records
  BY DEF Records, Pcs
<1>2. call' = [call EXCEPT ![c] = [r EXCEPT !.pc = pc]] /\ call \in [Calls -> Records]
  BY DEF Goto, Types
<1>3. call'[c] = [r EXCEPT !.pc = pc] /\ call' \in [Calls -> Records] /\ \A d \in Calls \ {c} : call'[d] = call[d]
  BY <1>1, <1>2
<1>4. [r EXCEPT !.pc = pc].kind = r.kind /\ [r EXCEPT !.pc = pc].pc = pc
      /\ [r EXCEPT !.pc = pc].h = r.h /\ [r EXCEPT !.pc = pc].who = r.who
  BY DEF Records
<1> QED
  BY <1>3, <1>4 DEF Turns

\* A call that returns leaves nothing of itself.
LEMMA ReturnTurns ==
    ASSUME Types, NEW c \in Calls, Return(c)
    PROVE  Turns(c, "idle", "idle", NoHandle, 0)
BY IdleRecord DEF Return, Turns, Types

\* What a request does: it names a handle of its kind that is not in use, and
\* lets it exist if what it is made from exists.
AsksFor(c, kind, pc, who, base) ==
    \E h \in Handles :
        /\ h[1] = Kind(pc) /\ h[2] \in Ids /\ h \notin live \cup owned
        /\ Turns(c, kind, pc, h, who)
        /\ live' = IF Grounded(base, Kind(pc)) THEN base \cup {h} ELSE base

\* A request is of the form above.
LEMMA RequestAsks ==
    ASSUME Types, NEW c \in Calls, NEW r \in Records, NEW kind \in Kinds, NEW pc \in Pcs, NEW base,
           Request(c, r, kind, pc, base), kind = Kind(pc)
    PROVE  AsksFor(c, r.kind, pc, r.who, base)
<1> DEFINE i == CHOOSE x \in Fresh(kind) : \A j \in Fresh(kind) : x <= j
           h == <<kind, i>>
<1>1. Fresh(kind) # {} /\ Fresh(kind) \subseteq Ids /\ Fresh(kind) \in SUBSET Nat
  BY Constants DEF Fresh, Request
<1>2. \E x \in Fresh(kind) : \A j \in Fresh(kind) : x <= j
  BY <1>1, Least
<1>3. i \in Fresh(kind)
  <2> HIDE DEF Fresh
  <2> QED
    BY <1>2
<1>4. h \in Handles /\ h[1] = kind /\ h[2] \in Ids /\ h \notin live \cup owned
  BY <1>1, <1>3, HandlePairs DEF Fresh
<1>5. /\ call' = [call EXCEPT ![c] = [r EXCEPT !.pc = pc, !.h = h, !.bad = FALSE]]
      /\ live' = IF Grounded(base, kind) THEN base \cup {h} ELSE base
  BY DEF Request
<1> HIDE DEF i, h
<1>6. [r EXCEPT !.pc = pc, !.h = h, !.bad = FALSE] \in Records
  BY <1>4 DEF Records, Pcs
<1>7. LET q == [r EXCEPT !.pc = pc, !.h = h, !.bad = FALSE]
      IN  q.kind = r.kind /\ q.pc = pc /\ q.h = h /\ q.who = r.who
  BY DEF Records
<1>8. Turns(c, r.kind, pc, h, r.who)
  BY <1>5, <1>6, <1>7 DEF Turns, Types
<1> QED
  BY <1>4, <1>5, <1>8 DEF AsksFor

\* What a cleanup that goes on from here comes to: the end of it, with what was
\* kept, or the next stage.
Ends(c, kind, kept, healthy) ==
    /\ Turns(c, "idle", "idle", NoHandle, 0)
    /\ exec' = [exec EXCEPT !.closed = TRUE, !.state = "closed",
                   !.cold = IF kind = "close" THEN @ ELSE FALSE, !.report = Report(kept, healthy)]
    /\ kept = {} => owned' = {}
    /\ Of(owned', "child") \subseteq kept
Proceeds(c, kind, who) ==
    /\ \E h \in Handles : Turns(c, kind, "cleanup", h, who)
    /\ UNCHANGED exec /\ SweepingAt(c)'
Cleans(c, kind, who, kept, healthy) == Ends(c, kind, kept, healthy) \/ Proceeds(c, kind, who)

\* A stage is not skipped for what it keeps itself.
LEMMA SkippedMore ==
    ASSUME NEW s \in 1 .. 9, NEW kept, ~Skipped(Stages[s], kept)
    PROVE  ~Skipped(Stages[s], kept \ Of(kept, Stages[s]))
BY DEF Skipped, Of

\* No stage is skipped when nothing was kept.
LEMMA NothingSkipped == \A s \in 1 .. 9 : ~Skipped(Stages[s], {})
BY DEF Skipped, Of

\* The next stage with something to close, or the end.
LEMMA SweepCleans ==
    ASSUME Types, owned' \subseteq Handles, NEW c \in Calls, NEW r \in Records, NEW stage \in 0 .. 9, NEW kept \in SUBSET owned',
           NEW healthy, Sweep(c, r, stage, kept, owned', healthy), kept \subseteq failed',
           \A t \in 1 .. stage : Of(owned', Stages[t]) \subseteq kept \/ Skipped(Stages[t], kept),
           IF stage = 0 THEN kept = {} ELSE Of(owned', "child") \subseteq kept
    PROVE  Cleans(c, r.kind, r.who, kept, healthy)
<1> DEFINE due == {s \in 1 .. 9 : s > stage /\ Of(owned', Stages[s]) # {} /\ ~Skipped(Stages[s], kept)}
           next == CHOOSE s \in due : \A t \in due : s <= t
           q == [r EXCEPT !.stage = next, !.todo = Of(owned', Stages[next]), !.kept = kept, !.h = Idle.h]
<1>1. IF due = {} THEN Finish(c, r, kept, healthy)
      ELSE Goto(c, q, "cleanup") /\ UNCHANGED exec
  BY StageKinds DEF Sweep
<1>2. owned' \subseteq Handles
  OBVIOUS
<1>3. \A t \in 1 .. 9 : t \notin due => t <= stage \/ Of(owned', Stages[t]) = {} \/ Skipped(Stages[t], kept)
  OBVIOUS
<1>4. due \in SUBSET Nat /\ due \subseteq 1 .. 9
  OBVIOUS
<1>7. 1 \notin due => Of(owned', "child") \subseteq kept
  <2>1. 1 \in 1 .. 9 /\ Stages[1] = "child"
    BY StageKinds
  <2> HIDE DEF due
  <2> QED
    BY <1>3, <2>1, NothingSkipped
<1>5. CASE due = {}
  <2>1. \A t \in 1 .. 9 : Of(owned', Stages[t]) \subseteq kept \/ Skipped(Stages[t], kept)
    BY <1>3, <1>5
  <2>2. Turns(c, "idle", "idle", NoHandle, 0)
    BY <1>1, <1>5, ReturnTurns DEF Finish
  <2>3. kept = {} => owned' = {}
    <3> SUFFICES ASSUME kept = {}, NEW h \in owned' PROVE FALSE
      OBVIOUS
    <3>1. PICK s \in 1 .. 9 : Stages[s] = h[1]
      BY <1>2, HandlePairs, StageKinds
    <3>2. h \in Of(owned', Stages[s])
      BY <3>1 DEF Of
    <3> QED
      BY <2>1, <3>2, NothingSkipped
  <2>4. Of(owned', "child") \subseteq kept
    BY <1>5, <1>7
  <2> QED
    BY <1>1, <1>5, <2>2, <2>3, <2>4 DEF Finish, Cleans, Ends
<1>6. CASE due # {}
  <2>1. next \in due /\ \A t \in due : next <= t
    <3>1. \E s \in due : \A t \in due : s <= t
      BY <1>4, <1>6, Least
    <3> HIDE DEF due
    <3> QED
      BY <3>1
  <2>2. next \in 1 .. 9 /\ next > stage /\ Of(owned', Stages[next]) # {} /\ ~Skipped(Stages[next], kept)
    <3> HIDE DEF next
    <3> QED
      BY <2>1
  <2>3. \A t \in 1 .. next - 1 : Of(owned', Stages[t]) \subseteq kept \/ Skipped(Stages[t], kept)
    <3> SUFFICES ASSUME NEW t \in 1 .. next - 1
                 PROVE  Of(owned', Stages[t]) \subseteq kept \/ Skipped(Stages[t], kept)
      OBVIOUS
    <3>1. t \in 1 .. 9 /\ t < next
      <4> HIDE DEF next
      <4> QED
        BY <2>2
    <3>2. t \notin due
      <4> HIDE DEF due, next
      <4> QED
        BY <2>1, <2>2, <3>1, <1>4
    <3> QED
      BY <1>3, <3>1, <3>2
  <2> HIDE DEF due, next
  <2>4. kept \in SUBSET Handles /\ Of(owned', Stages[next]) \in SUBSET Handles /\ next \in 0 .. 9
    BY <1>2, <2>2 DEF Of
  <2>5. q \in Records /\ q.kind = r.kind /\ q.who = r.who /\ q.h = NoHandle
        /\ q.stage = next /\ q.todo = Of(owned', Stages[next]) /\ q.kept = kept
    BY <2>4, IdleRecord DEF Records
  <2> HIDE DEF q
  <2>6. "cleanup" \in Pcs
    BY PcsAre
  <2>7. Turns(c, r.kind, "cleanup", NoHandle, r.who) /\ call'[c] = [q EXCEPT !.pc = "cleanup"]
    BY <1>1, <1>6, <2>5, <2>6, GotoTurns
  <2>8. call'[c].stage = next /\ call'[c].todo = Of(owned', Stages[next]) /\ call'[c].kept = kept
    BY <2>5, <2>7 DEF Records
  <2>9. SweepingAt(c)'
    <3>1. next > 1 => Of(owned', "child") \subseteq kept
      BY <1>7, <2>1, <2>2
    <3> QED
      BY <2>2, <2>3, <2>8, <3>1, SkippedMore DEF SweepingAt, Passed
  <2> QED
    BY <1>1, <1>6, <2>7, <2>9, IdleRecord DEF Cleans, Proceeds
<1> QED
  BY <1>5, <1>6

\* The kinds of handles that the parts ask for.
LEMMA AskedKinds ==
    /\ Kind("stage") = "xfer" /\ Kind("read") = "xfer" /\ Kind("initialize") = "child"
    /\ Kind("attach") = "child" /\ Kind("submit") = "operation" /\ Kind("status") = "operation"
    /\ Kind("move") = "xfer" /\ Kind("shut") = "xfer" /\ Kind("initWait") = "child" /\ Kind("initShut") = "child"
    /\ {"xfer", "child", "operation"} \subseteq Kinds
    /\ {"stage", "read", "initialize", "attach", "submit", "status", "move", "shut", "initWait", "initShut", "yield",
        "validate", "write", "launch", "wait", "childWait", "describe", "cleanup"} \subseteq Pcs
BY PcsAre DEF Kind, Transfer, Kinds

\* The fields of a pending call.
LEMMA CallFields ==
    ASSUME Types, NEW c \in Calls
    PROVE  /\ call[c] \in Records /\ call[c].kind \in CallKinds /\ call[c].h \in Handles
           /\ call[c].who \in Ids \cup {0} /\ call[c].stage \in 0 .. 9 /\ call[c].bad \in BOOLEAN
           /\ call[c].todo \subseteq Handles /\ call[c].kept \subseteq Handles
BY DEF Types, Records

\* A cleanup from its first stage.
LEMMA CleanupCleans ==
    ASSUME Types, NEW c \in Calls, NEW r \in Records, owned' \subseteq Handles,
           Sweep(c, r, 0, {}, owned', TRUE)
    PROVE  Cleans(c, r.kind, r.who, {}, TRUE)
<1>1. 0 \in 0 .. 9 /\ {} \in SUBSET owned' /\ {} \subseteq failed' /\ \A t \in 1 .. 0 : FALSE
  OBVIOUS
<1> QED
  BY <1>1, SweepCleans

\* What a call that cannot go on does.
Abandons(c) ==
    \/ call[c].kind = "ignite" /\ Cleans(c, "ignite", call[c].who, {}, TRUE) /\ UNCHANGED child
    \/ /\ call[c].kind = "external" /\ exec' = [exec EXCEPT !.submitting = FALSE]
       /\ Turns(c, "idle", "idle", NoHandle, 0) /\ UNCHANGED child
    \/ /\ call[c].kind = "deliver" /\ exec' = [exec EXCEPT !.deliveries = @ - 1]
       /\ Turns(c, "idle", "idle", NoHandle, 0) /\ UNCHANGED child
    \/ /\ call[c].kind = "childDeliver" /\ child' = [child EXCEPT ![call[c].who].busy = FALSE]
       /\ Turns(c, "idle", "idle", NoHandle, 0) /\ UNCHANGED exec

\* What a call that cannot go on leaves: its flag is taken back, or it cleans up.
LEMMA AbandonWords ==
    ASSUME Types, NEW c \in Calls, NEW held \in SUBSET Handles, Abandon(c, held),
           call[c].kind \in {"ignite", "external", "deliver", "childDeliver"}
    PROVE  owned' = held /\ Abandons(c)
<1>1. owned' = held
  BY DEF Abandon
<1>2. CASE call[c].kind = "ignite"
  <2>1. Sweep(c, call[c], 0, {}, owned', TRUE) /\ UNCHANGED child
    BY <1>1, <1>2 DEF Abandon
  <2>2. Cleans(c, call[c].kind, call[c].who, {}, TRUE)
    BY <1>1, <2>1, CallFields, CleanupCleans
  <2> QED
    BY <1>1, <1>2, <2>1, <2>2 DEF Abandons
<1>3. CASE call[c].kind = "external"
  BY <1>1, <1>3, ReturnTurns DEF Abandon, Abandons, SubmissionOver
<1>4. CASE call[c].kind = "deliver"
  BY <1>1, <1>4, ReturnTurns DEF Abandon, Abandons
<1>5. CASE call[c].kind = "childDeliver"
  BY <1>1, <1>5, ReturnTurns DEF Abandon, Abandons
<1> QED
  BY <1>2, <1>3, <1>4, <1>5

\* The state but for what the step says.
Rest == UNCHANGED <<plan, child, owned, live, failed>>
\* A call goes on with its handle, or returns.
Stands(c, pc) == Turns(c, call[c].kind, pc, call[c].h, call[c].who)
Idles(c) == Turns(c, "idle", "idle", NoHandle, 0)

\* Going on changes where a call is and nothing else of it.
LEMMA StandsGoto ==
    ASSUME Types, NEW c \in Calls, NEW pc \in Pcs, Goto(c, call[c], pc)
    PROVE  Stands(c, pc)
BY CallFields, GotoTurns DEF Stands

\* A call that starts has no handle yet.
LEMMA CalledTurns ==
    ASSUME Types, NEW c \in Calls, NEW kind \in CallKinds, NEW pc \in Pcs, NEW who \in Ids \cup {0},
           Goto(c, [Called(kind) EXCEPT !.who = who], pc) \/ (who = 0 /\ Goto(c, Called(kind), pc))
    PROVE  Turns(c, kind, pc, NoHandle, who)
<1>1. ASSUME NEW r \in Records, Goto(c, r, pc) PROVE Turns(c, r.kind, pc, r.h, r.who)
  BY <1>1, GotoTurns
<1>2. /\ Called(kind) \in Records /\ Called(kind).kind = kind /\ Called(kind).who = 0
      /\ Called(kind).h = NoHandle
  BY CalledRecord
<1>3. LET r == [Called(kind) EXCEPT !.who = who]
      IN  r \in Records /\ r.kind = kind /\ r.who = who /\ r.h = NoHandle
  BY <1>2 DEF Records
<1>4. CASE Goto(c, Called(kind), pc) /\ who = 0
  <2> DEFINE r == Called(kind)
  <2>1. r \in Records /\ Goto(c, r, pc) /\ r.kind = kind /\ r.who = who /\ r.h = NoHandle
    BY <1>2, <1>4
  <2> HIDE DEF r
  <2> QED
    BY <2>1, <1>1
<1>5. CASE Goto(c, [Called(kind) EXCEPT !.who = who], pc)
  <2> DEFINE r == [Called(kind) EXCEPT !.who = who]
  <2>1. r \in Records /\ Goto(c, r, pc) /\ r.kind = kind /\ r.who = who /\ r.h = NoHandle
    BY <1>3, <1>5
  <2> HIDE DEF r
  <2> QED
    BY <2>1, <1>1
<1> QED
  BY <1>4, <1>5

\* Validated, or refused with the cold flag taken back.
LEMMA ValidateWords ==
    ASSUME Types, NEW c \in Calls, Validate(c)
    PROVE  /\ At(c, "validate") /\ Rest
           /\ \/ Stands(c, "write") /\ UNCHANGED exec
              \/ Idles(c) /\ exec' = [exec EXCEPT !.cold = FALSE]
BY StandsGoto, ReturnTurns, AskedKinds DEF Validate, Rest, Idles

\* The storage is written, or the execution is cleaned up.
LEMMA WriteWords ==
    ASSUME Types, NEW c \in Calls, Write(c)
    PROVE  /\ At(c, "write") /\ Rest
           /\ \/ /\ exec' = [exec EXCEPT !.stored = TRUE, !.cold = FALSE]
                 /\ IF call[c].kind = "ignite" THEN Stands(c, "launch") ELSE Idles(c)
              \/ Cleans(c, call[c].kind, call[c].who, {}, TRUE)
<1>1. At(c, "write") /\ UNCHANGED <<plan, child, live, failed>>
  BY DEF Write
<1>2. CASE Fault /\ Cleanup(c, call[c])
  <2>1. Sweep(c, call[c], 0, {}, owned', TRUE) /\ owned' = owned /\ owned' \subseteq Handles
    BY <1>2 DEF Cleanup, Types
  <2> QED
    BY <1>1, <2>1, CallFields, CleanupCleans DEF Rest
<1>3. CASE /\ exec' = [exec EXCEPT !.stored = TRUE, !.cold = FALSE] /\ UNCHANGED owned
           /\ IF call[c].kind = "ignite" THEN Goto(c, call[c], "launch") ELSE Return(c)
  BY <1>1, <1>3, StandsGoto, ReturnTurns, AskedKinds DEF Rest, Idles
<1> QED
  BY <1>2, <1>3 DEF Write

\* The launch of an execution that is not closed.
Launches(c, who) ==
    /\ exec' = [exec EXCEPT !.state = "initializing", !.cold = plan.cold]
    /\ UNCHANGED owned
    /\ \E pc \in {"stage", "initialize", "submit"} : AsksFor(c, "ignite", pc, who, live)

\* A launch of an open execution asks for its first handle.
LEMMA LaunchFromWords ==
    ASSUME Types, NEW c \in Calls, NEW r \in Records, r.kind = "ignite", LaunchFrom(c, r), ~exec.closed
    PROVE  Launches(c, r.who)
<1> DEFINE e == [exec EXCEPT !.state = "initializing", !.cold = plan.cold]
<1>1. ~e.closed
  BY DEF Types, Words
<1>2. CASE Request(c, r, "xfer", "stage", live) /\ exec' = e /\ UNCHANGED owned
  BY <1>2, RequestAsks, AskedKinds DEF Launches
<1>3. CASE Submit(c, r, e, live, owned)
  <2>1. /\ exec' = e /\ owned' = owned
        /\ Request(c, r, "child", "initialize", live) \/ Request(c, r, "operation", "submit", live)
    BY <1>1, <1>3 DEF Submit
  <2>2. CASE Request(c, r, "child", "initialize", live)
    BY <2>1, <2>2, RequestAsks, AskedKinds DEF Launches
  <2>3. CASE Request(c, r, "operation", "submit", live)
    BY <2>1, <2>3, RequestAsks, AskedKinds DEF Launches
  <2> QED
    BY <2>1, <2>2, <2>3
<1> QED
  BY <1>2, <1>3 DEF LaunchFrom

\* The launch after the storage was written.
LEMMA LaunchWords ==
    ASSUME Types, NEW c \in Calls, Launch(c), call[c].kind = "ignite", ~exec.closed
    PROVE  At(c, "launch") /\ UNCHANGED <<plan, child, failed>> /\ Launches(c, call[c].who)
BY CallFields, LaunchFromWords DEF Launch

\* An ignition launches at once or prepares the storage first.
LEMMA IgniteWords ==
    ASSUME Types, NEW c \in Calls, Ignite(c)
    PROVE  /\ Admit(c, "ignite") /\ exec.state = "prepared" /\ ~exec.cold
           /\ UNCHANGED <<plan, child, failed>>
           /\ \/ Launches(c, 0)
              \/ /\ exec' = [exec EXCEPT !.cold = TRUE] /\ UNCHANGED <<owned, live>>
                 /\ Turns(c, "ignite", "validate", NoHandle, 0)
<1>1. /\ Admit(c, "ignite") /\ exec.state = "prepared" /\ ~exec.cold
      /\ UNCHANGED <<plan, child, failed>> /\ ~exec.closed
  BY DEF Ignite, Admit
<1>2. Called("ignite") \in Records /\ Called("ignite").kind = "ignite" /\ Called("ignite").who = 0
      /\ Called("ignite").h = NoHandle
  BY CalledRecord DEF CallKinds
<1>3. CASE LaunchFrom(c, Called("ignite"))
  BY <1>1, <1>2, <1>3, LaunchFromWords
<1>4. CASE /\ exec' = [exec EXCEPT !.cold = TRUE] /\ UNCHANGED <<owned, live>>
           /\ Goto(c, Called("ignite"), "validate")
  <2>1. Turns(c, "ignite", "validate", NoHandle, 0)
    <3>1. "ignite" \in CallKinds /\ "validate" \in Pcs
      BY AskedKinds DEF CallKinds
    <3> QED
      BY <1>4, <3>1, CalledTurns
  <2> QED
    BY <1>1, <1>4, <2>1
<1> QED
  BY <1>3, <1>4 DEF Ignite

\* A preinitialization raises the cold flag.
LEMMA PreinitializeWords ==
    ASSUME Types, NEW c \in Calls, Preinitialize(c)
    PROVE  /\ Admit(c, "preinitialize") /\ exec.state = "prepared" /\ ~exec.cold /\ Rest
           /\ exec' = [exec EXCEPT !.cold = TRUE]
           /\ Turns(c, "preinitialize", "validate", NoHandle, 0)
<1>1. "preinitialize" \in CallKinds /\ "validate" \in Pcs
  BY AskedKinds DEF CallKinds
<1> QED
  BY <1>1, CalledTurns DEF Preinitialize, Rest

\* A wait starts only when there is an operation.
LEMMA WaitStarts ==
    ASSUME Types, NEW c \in Calls, Wait(c)
    PROVE  /\ Admit(c, "wait") /\ Of(owned, "operation") # {} /\ Rest /\ UNCHANGED exec
           /\ Turns(c, "wait", "wait", NoHandle, 0)
<1>1. "wait" \in CallKinds /\ "wait" \in Pcs
  BY AskedKinds DEF CallKinds
<1> QED
  BY <1>1, CalledTurns DEF Wait, Rest

\* A description raises its flag.
LEMMA DescribeStarts ==
    ASSUME Types, NEW c \in Calls, Describe(c)
    PROVE  /\ Admit(c, "describe") /\ ~exec.describing /\ Rest
           /\ exec' = [exec EXCEPT !.describing = TRUE]
           /\ Turns(c, "describe", "describe", NoHandle, 0)
<1>1. "describe" \in CallKinds /\ "describe" \in Pcs
  BY AskedKinds DEF CallKinds
<1> QED
  BY <1>1, CalledTurns DEF Describe, Rest

\* The calls on an external operation.
LEMMA ChildStarts ==
    ASSUME Types, NEW c \in Calls, NEW i \in Ids
    PROVE  /\ ChildWait(c, i) => /\ call[c].kind = "idle" /\ child[i].held /\ Polite("childWait")
                                 /\ Rest /\ UNCHANGED exec /\ Turns(c, "childWait", "childWait", NoHandle, i)
           /\ ChildClose(c, i) => /\ call[c].kind = "idle" /\ child[i].held /\ Polite("childClose") /\ ~child[i].busy
                                  /\ Rest /\ UNCHANGED exec /\ Turns(c, "childClose", "yield", NoHandle, i)
           /\ ChildDeliver(c, i) =>
                 /\ call[c].kind = "idle" /\ child[i].held /\ Polite("childDeliver") /\ ~child[i].busy
                 /\ UNCHANGED <<plan, exec, owned, live, failed>>
                 /\ child' = [child EXCEPT ![i].busy = TRUE, ![i].attempted = TRUE]
                 /\ Turns(c, "childDeliver", "yield", NoHandle, i)
<1>1. {"childWait", "childClose", "childDeliver"} \subseteq CallKinds /\ {"childWait", "yield"} \subseteq Pcs
  BY AskedKinds DEF CallKinds
<1>2. ASSUME NEW kind \in CallKinds, NEW pc \in Pcs, ChildCall(c, i, kind, pc)
      PROVE  /\ Turns(c, kind, pc, NoHandle, i) /\ UNCHANGED <<plan, exec, owned, live, failed>>
             /\ call[c].kind = "idle" /\ child[i].held /\ Polite(kind)
  BY <1>2, CalledTurns DEF ChildCall
<1> QED
  BY <1>1, <1>2 DEF ChildWait, ChildClose, ChildDeliver, Rest

\* An external submission raises its flag and asks for its first handle.
LEMMA SubmitExternalWords ==
    ASSUME Types, NEW c \in Calls, SubmitExternal(c)
    PROVE  /\ Admit(c, "external") /\ exec.state = "running" /\ ~exec.submitting
           /\ exec' = [exec EXCEPT !.submitting = TRUE] /\ UNCHANGED <<plan, child, owned, failed>>
           /\ \E pc \in {"stage", "attach"} : AsksFor(c, "external", pc, 0, live)
<1>1. Called("external") \in Records /\ Called("external").kind = "external" /\ Called("external").who = 0
  BY CalledRecord DEF CallKinds
<1>2. CASE Request(c, Called("external"), "xfer", "stage", live)
  BY <1>1, <1>2, RequestAsks, AskedKinds DEF SubmitExternal
<1>3. CASE Request(c, Called("external"), "child", "attach", live)
  BY <1>1, <1>3, RequestAsks, AskedKinds DEF SubmitExternal
<1> QED
  BY <1>2, <1>3 DEF SubmitExternal

\* A delivery is counted below the bound and asks for its transfer.
LEMMA DeliverWords ==
    ASSUME Types, NEW c \in Calls, Deliver(c)
    PROVE  /\ Admit(c, "deliver") /\ exec.state = "completed" /\ exec.deliveries < MaxTransfers
           /\ exec' = [exec EXCEPT !.deliveries = @ + 1] /\ UNCHANGED <<plan, child, owned, failed>>
           /\ AsksFor(c, "deliver", "read", 0, live)
<1>1. Called("deliver") \in Records /\ Called("deliver").kind = "deliver" /\ Called("deliver").who = 0
  BY CalledRecord DEF CallKinds
<1> QED
  BY <1>1, RequestAsks, AskedKinds DEF Deliver, TransferFree

\* A closing begins with the first stage that has something to close.
LEMMA CloseWords ==
    ASSUME Types, NEW c \in Calls, Close(c)
    PROVE  /\ Admit(c, "close") /\ Quiet /\ Rest
           /\ Cleans(c, "close", 0, {}, TRUE)
<1>1. Called("close") \in Records /\ Called("close").kind = "close" /\ Called("close").who = 0
  BY CalledRecord DEF CallKinds
<1>2. Sweep(c, Called("close"), 0, {}, owned', TRUE) /\ owned' = owned /\ owned' \subseteq Handles
  BY DEF Close, Cleanup, Types
<1>3. Cleans(c, Called("close").kind, Called("close").who, {}, TRUE)
  BY <1>1, <1>2, CleanupCleans
<1> QED
  BY <1>1, <1>3 DEF Close, Cleanup, Rest

\* The transfer is there, or the call abandons what it was doing.
LEMMA XferAnswerWords ==
    ASSUME Types, NEW c \in Calls, XferAnswer(c), call[c].kind \in {"ignite", "external", "deliver", "childDeliver"}
    PROVE  /\ call[c].pc \in {"stage", "read"} /\ UNCHANGED <<plan, failed>>
           /\ \/ /\ call[c].h \in live /\ owned' = owned \cup {call[c].h} /\ UNCHANGED <<live, exec, child>>
                 /\ Stands(c, "move")
              \/ live' = live \ {call[c].h} /\ owned' = owned /\ Abandons(c)
<1>1. owned \in SUBSET Handles
  BY DEF Types
<1> QED
  BY <1>1, AbandonWords, StandsGoto, AskedKinds DEF XferAnswer, Granted, Refused, Registered

\* Moved or failed, the transfer is shut.
LEMMA XferMovedWords ==
    ASSUME Types, NEW c \in Calls, XferMoved(c)
    PROVE  At(c, "move") /\ Rest /\ UNCHANGED exec /\ Stands(c, "shut")
<1>1. [call[c] EXCEPT !.bad = TRUE] \in Records
  BY CallFields DEF Records
<1>2. LET r == [call[c] EXCEPT !.bad = TRUE]
      IN  r.kind = call[c].kind /\ r.h = call[c].h /\ r.who = call[c].who
  BY CallFields DEF Records
<1>3. CASE Goto(c, call[c], "shut")
  BY <1>3, StandsGoto, AskedKinds DEF XferMoved, Rest
<1>4. CASE Goto(c, [call[c] EXCEPT !.bad = TRUE], "shut")
  <2> DEFINE r == [call[c] EXCEPT !.bad = TRUE]
  <2>1. r \in Records /\ r.kind = call[c].kind /\ r.h = call[c].h /\ r.who = call[c].who /\ Goto(c, r, "shut")
    BY <1>1, <1>2, <1>4
  <2> HIDE DEF r
  <2>2. Turns(c, r.kind, "shut", r.h, r.who)
    BY <2>1, GotoTurns, AskedKinds
  <2> QED
    BY <2>1, <2>2 DEF XferMoved, Rest, Stands
<1> QED
  BY <1>3, <1>4 DEF XferMoved

\* A handle that would not close.
Remains(h) == failed' = failed \cup {h} /\ (h \in live \/ h \in failed)

\* A closing that fails, now or before, leaves the handle remembered.
LEMMA FailureRemains ==
    ASSUME NEW h, FailsNow(h) \/ FailedBefore(h)
    PROVE  Remains(h)
BY DEF FailsNow, FailedBefore, MayFail, Remains

\* The transfer is closed: the call goes on, or has nothing more to do, or it
\* cannot go on.
LEMMA XferShutWords ==
    ASSUME Types, NEW c \in Calls, XferShut(c), ~exec.closed, call[c].h \notin failed,
           call[c].kind \in {"ignite", "external", "deliver", "childDeliver"}
    PROVE  /\ At(c, "shut") /\ UNCHANGED plan
           /\ \/ /\ UNCHANGED failed /\ owned' = owned \ {call[c].h} /\ live' = live \ {call[c].h} /\ Abandons(c)
              \/ /\ UNCHANGED <<failed, exec, child>> /\ owned' = owned \ {call[c].h}
                 /\ \E pc \in {"initialize", "submit", "attach"} :
                       /\ AsksFor(c, call[c].kind, pc, call[c].who, live \ {call[c].h})
                       /\ call[c].kind = (IF pc = "attach" THEN "external" ELSE "ignite")
              \/ Remains(call[c].h) /\ UNCHANGED <<owned, live>> /\ Abandons(c)
<1> DEFINE h == call[c].h
<1>1. At(c, "shut") /\ UNCHANGED plan
  BY DEF XferShut
<1>2. owned \ {h} \in SUBSET Handles /\ owned \in SUBSET Handles
  BY DEF Types
<1>3. CASE UNCHANGED failed /\ Abandon(c, owned \ {h}) /\ live' = live \ {h}
  BY <1>1, <1>2, <1>3, AbandonWords
<1>4. CASE UNCHANGED failed /\ Transferred(c, live \ {h}, owned \ {h})
  <2> DEFINE base == live \ {h}
             held == owned \ {h}
  <2>1. CASE Abandon(c, held) /\ live' = base
    BY <1>1, <1>2, <1>4, <2>1, AbandonWords
  <2>2. CASE call[c].kind = "ignite" /\ Submit(c, call[c], exec, base, held) /\ UNCHANGED child
    <3>1. /\ owned' = held /\ exec' = exec
          /\ Request(c, call[c], "child", "initialize", base) \/ Request(c, call[c], "operation", "submit", base)
      BY <2>2 DEF Submit
    <3>2. CASE Request(c, call[c], "child", "initialize", base)
      <4>1. AsksFor(c, call[c].kind, "initialize", call[c].who, base)
        BY <3>2, CallFields, RequestAsks, AskedKinds
      <4> QED
        BY <1>1, <1>4, <2>2, <3>1, <4>1
    <3>3. CASE Request(c, call[c], "operation", "submit", base)
      <4>1. AsksFor(c, call[c].kind, "submit", call[c].who, base)
        BY <3>3, CallFields, RequestAsks, AskedKinds
      <4> QED
        BY <1>1, <1>4, <2>2, <3>1, <4>1
    <3> QED
      BY <3>1, <3>2, <3>3
  <2>3. CASE /\ call[c].kind = "ignite" /\ Request(c, call[c], "operation", "submit", base)
             /\ owned' = held /\ UNCHANGED <<exec, child>>
    <3>1. AsksFor(c, call[c].kind, "submit", call[c].who, base)
      BY <2>3, CallFields, RequestAsks, AskedKinds
    <3> QED
      BY <1>1, <1>4, <2>3, <3>1
  <2>4. CASE /\ call[c].kind = "external" /\ Request(c, call[c], "child", "attach", base)
             /\ owned' = held /\ UNCHANGED <<exec, child>>
    <3>1. AsksFor(c, call[c].kind, "attach", call[c].who, base)
      BY <2>4, CallFields, RequestAsks, AskedKinds
    <3> QED
      BY <1>1, <1>4, <2>4, <3>1
  <2> QED
    BY <1>4, <2>1, <2>2, <2>3, <2>4 DEF Transferred
<1>5. CASE (FailsNow(h) \/ FailedBefore(h)) /\ Abandon(c, owned) /\ UNCHANGED live
  <2>1. owned' = owned /\ Abandons(c)
    BY <1>2, <1>5, AbandonWords
  <2> QED
    BY <1>1, <1>5, <2>1, FailureRemains
<1> QED
  BY <1>3, <1>4, <1>5 DEF XferShut

\* The initializer is there, or the ignition cleans up.
LEMMA InitializeAnswerWords ==
    ASSUME Types, NEW c \in Calls, InitializeAnswer(c), call[c].kind = "ignite"
    PROVE  /\ At(c, "initialize") /\ UNCHANGED <<plan, failed>>
           /\ \/ /\ call[c].h \in live /\ owned' = owned \cup {call[c].h} /\ UNCHANGED <<live, exec, child>>
                 /\ Turns(c, "ignite", "initWait", call[c].h, call[c].h[2])
              \/ live' = live \ {call[c].h} /\ owned' = owned /\ Abandons(c)
<1> DEFINE r == [call[c] EXCEPT !.who = call[c].h[2]]
<1>1. owned \in SUBSET Handles /\ call[c].h[2] \in Ids \cup {0}
  BY CallFields, HandlePairs DEF Types
<1>2. r \in Records /\ r.kind = call[c].kind /\ r.h = call[c].h /\ r.who = call[c].h[2]
  BY <1>1, CallFields DEF Records
<1>3. CASE Granted(c) /\ owned' = owned \cup {call[c].h} /\ Goto(c, r, "initWait") /\ UNCHANGED <<exec, child>>
  <2> HIDE DEF r
  <2>1. Turns(c, r.kind, "initWait", r.h, r.who)
    BY <1>2, <1>3, GotoTurns, AskedKinds
  <2> QED
    BY <1>2, <1>3, <2>1 DEF Granted, InitializeAnswer
<1>4. CASE Refused(c) /\ Abandon(c, owned)
  BY <1>1, <1>4, AbandonWords DEF Refused, InitializeAnswer
<1> QED
  BY <1>3, <1>4 DEF InitializeAnswer, Registered

\* The initializer is done, or the ignition cleans up.
LEMMA InitializeWaitedWords ==
    ASSUME Types, NEW c \in Calls, InitializeWaited(c), call[c].kind = "ignite"
    PROVE  /\ At(c, "initWait") /\ UNCHANGED <<plan, owned, live, failed>>
           /\ (Stands(c, "initShut") /\ UNCHANGED <<exec, child>>) \/ Abandons(c)
<1>1. owned \in SUBSET Handles
  BY DEF Types
<1> QED
  BY <1>1, AbandonWords, StandsGoto, AskedKinds DEF InitializeWaited

\* With the initializer closed its readiness is read; it may also stay.
LEMMA InitializeShutWords ==
    ASSUME Types, NEW c \in Calls, InitializeShut(c), call[c].kind = "ignite"
    PROVE  /\ At(c, "initShut") /\ UNCHANGED plan
           /\ \/ /\ call[c].h \notin failed /\ owned' = owned \ {call[c].h} /\ UNCHANGED <<exec, child, failed>>
                 /\ AsksFor(c, "ignite", "read", call[c].who, live \ {call[c].h})
              \/ Remains(call[c].h) /\ UNCHANGED <<owned, live>> /\ Abandons(c)
<1>1. owned \in SUBSET Handles
  BY DEF Types
<1>2. CASE /\ MayClose(call[c].h) /\ owned' = owned \ {call[c].h} /\ UNCHANGED <<exec, child, failed>>
           /\ Request(c, call[c], "xfer", "read", live \ {call[c].h})
  <2>1. AsksFor(c, call[c].kind, "read", call[c].who, live \ {call[c].h})
    BY <1>2, CallFields, RequestAsks, AskedKinds
  <2> QED
    BY <1>2, <2>1 DEF MayClose, InitializeShut
<1>3. CASE (FailsNow(call[c].h) \/ FailedBefore(call[c].h)) /\ Abandon(c, owned) /\ UNCHANGED live
  <2>1. owned' = owned /\ Abandons(c)
    BY <1>1, <1>3, AbandonWords
  <2> QED
    BY <1>3, <2>1, FailureRemains DEF InitializeShut
<1> QED
  BY <1>2, <1>3 DEF InitializeShut

\* The operation replaces what was held as one, or the ignition cleans up.
LEMMA SubmitAnswerWords ==
    ASSUME Types, NEW c \in Calls, SubmitAnswer(c), call[c].kind = "ignite", ~exec.closed
    PROVE  /\ At(c, "submit") /\ UNCHANGED <<plan, failed>>
           /\ \/ /\ call[c].h \in live /\ owned' = (owned \ Of(owned, "operation")) \cup {call[c].h}
                 /\ exec' = [exec EXCEPT !.state = "running", !.cold = FALSE]
                 /\ UNCHANGED <<live, child>> /\ Stands(c, "status")
              \/ live' = live \ {call[c].h} /\ owned' = owned /\ Abandons(c)
<1>1. owned \in SUBSET Handles
  BY DEF Types
<1> QED
  BY <1>1, AbandonWords, StandsGoto, AskedKinds DEF SubmitAnswer, Granted, Refused

\* The ignition is over, or the execution is cleaned up after all.
LEMMA StatusAnswerWords ==
    ASSUME Types, NEW c \in Calls, StatusAnswer(c), call[c].kind = "ignite"
    PROVE  /\ At(c, "status") /\ UNCHANGED <<plan, owned, live, failed>>
           /\ (Idles(c) /\ UNCHANGED <<exec, child>>) \/ Abandons(c)
<1>1. owned \in SUBSET Handles
  BY DEF Types
<1> QED
  BY <1>1, AbandonWords, ReturnTurns DEF StatusAnswer, Idles

\* The client is given the external operation, or the submission is over.
LEMMA AttachAnswerWords ==
    ASSUME Types, NEW c \in Calls, AttachAnswer(c), call[c].kind = "external"
    PROVE  /\ At(c, "attach") /\ UNCHANGED <<plan, failed>>
           /\ \/ /\ call[c].h \in live /\ owned' = owned \cup {call[c].h}
                 /\ child' = [child EXCEPT ![call[c].h[2]] = [NoChild EXCEPT !.held = TRUE]]
                 /\ exec' = [exec EXCEPT !.submitting = FALSE] /\ UNCHANGED live /\ Idles(c)
              \/ live' = live \ {call[c].h} /\ owned' = owned /\ Abandons(c)
<1>1. owned \in SUBSET Handles
  BY DEF Types
<1> QED
  BY <1>1, AbandonWords, ReturnTurns DEF AttachAnswer, Granted, Refused, Idles, Registered, SubmissionOver

\* The lower operation is closed for a delivery or for good, or it stays.
LEMMA YieldAnswerWords ==
    ASSUME Types, NEW c \in Calls, YieldAnswer(c), NEW h, h = <<"child", call[c].who>>
    PROVE  /\ At(c, "yield") /\ UNCHANGED <<plan, exec>>
           /\ \/ /\ call[c].kind = "childDeliver" /\ h \notin failed /\ UNCHANGED <<child, owned, failed>>
                 /\ AsksFor(c, "childDeliver", "read", call[c].who, live \ {h})
              \/ /\ call[c].kind = "childClose" /\ h \notin failed /\ UNCHANGED failed
                 /\ owned' = owned \ {h} /\ live' = live \ {h}
                 /\ child' = [child EXCEPT ![call[c].who] = NoChild] /\ Idles(c)
              \/ /\ Remains(h) /\ UNCHANGED <<owned, live>> /\ Idles(c)
                 /\ child' = [child EXCEPT ![call[c].who].busy =
                                 IF call[c].kind = "childDeliver" THEN FALSE ELSE @]
<1>1. At(c, "yield") /\ UNCHANGED <<plan, exec>>
  BY DEF YieldAnswer
<1>2. CASE /\ MayClose(h) /\ call[c].kind = "childDeliver" /\ UNCHANGED <<child, owned, failed>>
           /\ Request(c, call[c], "xfer", "read", live \ {h})
  <2>1. AsksFor(c, call[c].kind, "read", call[c].who, live \ {h})
    BY <1>2, CallFields, RequestAsks, AskedKinds
  <2> QED
    BY <1>1, <1>2, <2>1 DEF MayClose
<1>3. CASE /\ MayClose(h) /\ call[c].kind = "childClose" /\ owned' = owned \ {h} /\ live' = live \ {h}
           /\ child' = [child EXCEPT ![call[c].who] = NoChild] /\ Return(c) /\ UNCHANGED failed
  BY <1>1, <1>3, ReturnTurns DEF MayClose, Idles
<1>4. CASE /\ FailsNow(h) \/ FailedBefore(h)
           /\ child' = [child EXCEPT ![call[c].who].busy = IF call[c].kind = "childDeliver" THEN FALSE ELSE @]
           /\ Return(c) /\ UNCHANGED <<owned, live>>
  BY <1>1, <1>4, ReturnTurns, FailureRemains DEF Idles
<1> QED
  BY <1>2, <1>3, <1>4 DEF YieldAnswer

\* A wait and a description end.
LEMMA OtherAnswers ==
    ASSUME Types, NEW c \in Calls
    PROVE  /\ ChildWaited(c) =>
                 /\ At(c, "childWait") /\ UNCHANGED <<plan, exec, owned, live, failed>> /\ Idles(c)
                 /\ \/ child' = [child EXCEPT ![call[c].who].completed = child[call[c].who].held]
                    \/ UNCHANGED child
           /\ Waited(c) => /\ At(c, "wait") /\ Rest /\ Idles(c)
                           /\ exec' \in {exec, [exec EXCEPT !.state = "completed"]}
           /\ Described(c) => At(c, "describe") /\ Rest /\ Idles(c) /\ exec' = [exec EXCEPT !.describing = FALSE]
BY ReturnTurns DEF ChildWaited, Waited, Described, Rest, Idles

\* The order in which an execution is prepared: parents first.
LEMMA BasisOrder ==
    /\ DOMAIN Order = 1 .. 6 /\ Basis = {"runtime", "module", "function", "memory", "view", "mailbox"}
    /\ \A i \in 1 .. 6 : Order[i] \in Basis /\ Order[i] \in Kinds
    /\ \A i \in 1 .. 6 : \A k \in ParentKinds(Order[i]) : \E j \in 1 .. 6 : j < i /\ Order[j] = k
<1>1. /\ DOMAIN Order = 1 .. 6
      /\ Order[1] = "runtime" /\ Order[2] = "module" /\ Order[3] = "function" /\ Order[4] = "memory"
      /\ Order[5] = "view" /\ Order[6] = "mailbox"
  BY DEF Order
<1>2. \A i \in 1 .. 6 : i = 1 \/ i = 2 \/ i = 3 \/ i = 4 \/ i = 5 \/ i = 6
  OBVIOUS
<1>3. Basis = {"runtime", "module", "function", "memory", "view", "mailbox"}
  <2>1. {1, 2, 3, 4, 5, 6} = 1 .. 6
    OBVIOUS
  <2>2. Basis = {Order[i] : i \in {1, 2, 3, 4, 5, 6}}
    BY <1>1, <2>1 DEF Basis
  <2> QED
    BY <1>1, <2>2
<1>4. /\ ParentKinds("runtime") = {} /\ ParentKinds("module") = {"runtime"}
      /\ ParentKinds("function") = {"module"} /\ ParentKinds("memory") = {"runtime"}
      /\ ParentKinds("view") = {"memory"} /\ ParentKinds("mailbox") = {"runtime"}
  BY DEF ParentKinds
<1>5. \A i \in 1 .. 6 : Order[i] \in Basis /\ Order[i] \in Kinds
  BY <1>1, <1>2, <1>3 DEF Kinds
<1>6. \A i \in 1 .. 6 : \A k \in ParentKinds(Order[i]) : \E j \in 1 .. 6 : j < i /\ Order[j] = k
  <2>1. 1 \in 1 .. 6 /\ 2 \in 1 .. 6 /\ 4 \in 1 .. 6 /\ 1 < 2 /\ 1 < 4 /\ 1 < 6 /\ 2 < 3 /\ 4 < 5
    OBVIOUS
  <2> QED
    BY <1>1, <1>2, <1>4, <2>1
<1> QED
  BY <1>1, <1>3, <1>5, <1>6

\* The next handle is acquired, and what it is made from is there.
LEMMA AcquireWords ==
    ASSUME Types, NEW c \in Calls, Acquire(c), \E k \in Basis : Of(owned, k) = {}
    PROVE  /\ At(c, "acquire") /\ UNCHANGED <<plan, child, failed>>
           /\ \/ /\ Cleans(c, call[c].kind, call[c].who, {}, TRUE) /\ UNCHANGED <<owned, live>>
              \/ \E kind \in Basis :
                    /\ Grounded(owned, kind) /\ Of(owned, kind) = {}
                    /\ owned' = owned \cup {<<kind, 0>>} /\ live' = live \cup {<<kind, 0>>}
                    /\ \/ UNCHANGED <<exec, call>> /\ \E k \in Basis : Of(owned', k) = {}
                       \/ /\ exec' = [exec EXCEPT !.state = "prepared"] /\ Idles(c)
                          /\ \A k \in Basis : Of(owned', k) # {}
<1> DEFINE missing == {i \in 1 .. 6 : Of(owned, Order[i]) = {}}
           next == CHOOSE i \in missing : \A j \in missing : i <= j
           h == <<Order[next], 0>>
<1>1. At(c, "acquire") /\ UNCHANGED <<plan, child, failed>>
  BY DEF Acquire
<1>2. \/ /\ owned' = owned \cup {h} /\ live' = live \cup {h}
         /\ IF missing = {next} THEN exec' = [exec EXCEPT !.state = "prepared"] /\ Return(c)
            ELSE UNCHANGED <<exec, call>>
      \/ Cleanup(c, call[c]) /\ UNCHANGED live
  BY BasisOrder DEF Acquire
<1>3. missing # {} /\ missing \in SUBSET Nat
  BY BasisOrder DEF Basis
<1>4. next \in missing /\ \A j \in missing : next <= j
  <2>1. \E i \in missing : \A j \in missing : i <= j
    BY <1>3, Least
  <2> HIDE DEF missing
  <2> QED
    BY <2>1
<1>5. next \in 1 .. 6 /\ Of(owned, Order[next]) = {}
  <2> HIDE DEF next
  <2> QED
    BY <1>4
<1>6. \A j \in 1 .. 6 : j < next => Of(owned, Order[j]) # {}
  <2> SUFFICES ASSUME NEW j \in 1 .. 6, j < next, Of(owned, Order[j]) = {} PROVE FALSE
    OBVIOUS
  <2>1. j \in missing
    OBVIOUS
  <2> HIDE DEF missing, next
  <2> QED
    BY <1>4, <1>5, <2>1
<1>7. Grounded(owned, Order[next])
  <2> HIDE DEF missing, next
  <2> SUFFICES ASSUME NEW k \in ParentKinds(Order[next]) PROVE Of(owned, k) # {}
    BY DEF Grounded
  <2> QED
    BY <1>5, <1>6, BasisOrder
<1>8. CASE Cleanup(c, call[c]) /\ UNCHANGED live
  <2>1. Sweep(c, call[c], 0, {}, owned', TRUE) /\ owned' = owned /\ owned' \subseteq Handles
    BY <1>8 DEF Cleanup, Types
  <2> QED
    BY <1>1, <1>8, <2>1, CallFields, CleanupCleans
<1>9. CASE /\ owned' = owned \cup {h} /\ live' = live \cup {h}
           /\ IF missing = {next} THEN exec' = [exec EXCEPT !.state = "prepared"] /\ Return(c)
              ELSE UNCHANGED <<exec, call>>
  <2>1. missing = {next} => \A k \in Basis : Of(owned', k) # {}
    <3>1. ASSUME missing = {next}, NEW i \in 1 .. 6 PROVE Of(owned', Order[i]) # {}
      <4>1. CASE i = next
        <5>1. h \in owned' /\ h[1] = Order[i]
          <6> HIDE DEF next
          <6> QED
            BY <1>9, <4>1
        <5> QED
          BY <5>1 DEF Of
      <4>2. CASE i # next
        <5>1. i \notin missing
          <6> HIDE DEF missing, next
          <6> QED
            BY <3>1, <4>2
        <5>2. Of(owned, Order[i]) # {}
          BY <5>1
        <5>3. owned \subseteq owned'
          BY <1>9
        <5> QED
          BY <5>2, <5>3 DEF Of
      <4> QED
        BY <4>1, <4>2
    <3> HIDE DEF missing, next
    <3> QED
      BY <3>1, BasisOrder DEF Basis
  <2>2. missing # {next} => \E k \in Basis : Of(owned', k) = {}
    <3> SUFFICES ASSUME missing # {next} PROVE \E k \in Basis : Of(owned', k) = {}
      OBVIOUS
    <3>1. PICK i \in missing : i # next
      <4> HIDE DEF missing, next
      <4> QED
        BY <1>4
    <3>2. i \in 1 .. 6 /\ Of(owned, Order[i]) = {} /\ i # next
      BY <3>1
    <3>3. Order[i] # Order[next]
      <4> HIDE DEF missing, next
      <4>1. next \in 1 .. 6 /\ i \in 1 .. 6 /\ i # next
        BY <1>5, <3>2
      <4> QED
        BY <4>1 DEF Order
    <3>4. Of(owned', Order[i]) = {}
      <4> HIDE DEF missing, next
      <4> QED
        BY <1>9, <3>2, <3>3 DEF Of
    <3> QED
      BY <3>2, <3>4, BasisOrder
  <2>3. Order[next] \in Basis
    BY <1>5, BasisOrder
  <2>4. missing = {next} => exec' = [exec EXCEPT !.state = "prepared"] /\ Idles(c)
    BY <1>9, ReturnTurns DEF Idles
  <2> HIDE DEF missing, next
  <2> QED
    BY <1>1, <1>5, <1>7, <1>9, <2>1, <2>2, <2>3, <2>4
<1> QED
  BY <1>2, <1>8, <1>9

\* What more was kept skips no less.
LEMMA SkippedMonotone ==
    ASSUME NEW stage, NEW small, NEW large, small \subseteq large, Skipped(stage, small)
    PROVE  Skipped(stage, large)
BY DEF Skipped, Of

\* One handle of the stage is closed, or kept; no external operation delivers.
LEMMA CleanupStepWords ==
    ASSUME Types, NEW c \in Calls, CleanupStep(c), SweepingAt(c), failed \subseteq owned,
           \A i \in Ids : ~child[i].busy, \A h \in Of(owned, "child") : h[2] \in Ids
    PROVE  /\ At(c, "cleanup") /\ UNCHANGED plan
           /\ \E h \in call[c].todo :
                 \/ /\ h \notin failed /\ owned' = owned \ {h} /\ live' = live \ {h} /\ UNCHANGED failed
                    /\ child' = (IF h[1] = "child" THEN [child EXCEPT ![h[2]] = NoChild] ELSE child)
                    /\ \E healthy \in BOOLEAN : Cleans(c, call[c].kind, call[c].who, call[c].kept, healthy)
                 \/ /\ Remains(h) /\ UNCHANGED <<owned, live, child>>
                    /\ Cleans(c, call[c].kind, call[c].who, call[c].kept \cup {h}, TRUE)
<1>1. PICK h \in call[c].todo :
        LET r == [call[c] EXCEPT !.todo = @ \ {h}]
            On(kept, held, healthy) ==
                IF r.todo = {} THEN Sweep(c, r, r.stage, kept, held, healthy)
                ELSE Goto(c, [r EXCEPT !.kept = kept], "cleanup") /\ UNCHANGED exec
            Closed(healthy) ==
                /\ owned' = owned \ {h} /\ live' = live \ {h}
                /\ child' = IF h[1] = "child" THEN [child EXCEPT ![h[2]] = NoChild] ELSE child
                /\ On(r.kept, owned', healthy)
                /\ UNCHANGED failed
            Kept == On(r.kept \union {h}, owned, TRUE) /\ UNCHANGED <<owned, live, child>>
            busy == h[1] = "child" /\ child[h[2]].busy
        IN  \/ ~busy /\ MayClose(h) /\ Closed(TRUE) /\ UNCHANGED faults
            \/ h[1] = "runtime" /\ MayClose(h) /\ Closed(FALSE) /\ Fault
            \/ ~busy /\ FailsNow(h) /\ Kept
            \/ FailedBefore(h) /\ Kept
            \/ busy /\ Kept /\ UNCHANGED <<failed, faults>>
  BY DEF CleanupStep
<1> DEFINE r == [call[c] EXCEPT !.todo = @ \ {h}]
           s == call[c].stage
           On(kept, held, healthy) ==
                IF r.todo = {} THEN Sweep(c, r, r.stage, kept, held, healthy)
                ELSE Goto(c, [r EXCEPT !.kept = kept], "cleanup") /\ UNCHANGED exec
<1>2. At(c, "cleanup") /\ UNCHANGED plan
  BY DEF CleanupStep
<1>3. /\ s \in 1 .. 9 /\ call[c].todo \subseteq Of(owned, Stages[s]) /\ call[c].kept \subseteq failed
      /\ h \in owned /\ h[1] = Stages[s] /\ h \in Handles
  BY DEF SweepingAt, Of, Types
<1>4. r \in Records /\ r.kind = call[c].kind /\ r.who = call[c].who /\ r.stage = s
      /\ r.todo = call[c].todo \ {h} /\ r.kept = call[c].kept
  <2>1. call[c].todo \ {h} \in SUBSET Handles
    BY CallFields
  <2> QED
    BY <2>1, CallFields DEF Records
<1>5. ASSUME NEW kept \in SUBSET owned', NEW healthy, On(kept, owned', healthy), owned' \in {owned, owned \ {h}},
             kept \subseteq failed', call[c].kept \subseteq kept, kept \subseteq call[c].kept \cup {h},
             h \in owned' => h \in kept
      PROVE  Cleans(c, call[c].kind, call[c].who, kept, healthy)
  <2>1. owned' \subseteq Handles /\ owned' \subseteq owned
    BY <1>5 DEF Types
  <2>2. \A t \in 1 .. s - 1 : Of(owned', Stages[t]) \subseteq kept \/ Skipped(Stages[t], kept)
    <3> SUFFICES ASSUME NEW t \in 1 .. s - 1
                 PROVE  Of(owned', Stages[t]) \subseteq kept \/ Skipped(Stages[t], kept)
      OBVIOUS
    <3>1. Of(owned, Stages[t]) \subseteq call[c].kept \/ Skipped(Stages[t], call[c].kept)
      BY DEF SweepingAt, Passed
    <3>2. Of(owned', Stages[t]) \subseteq Of(owned, Stages[t])
      BY <2>1 DEF Of
    <3> QED
      BY <1>5, <3>1, <3>2, SkippedMonotone
  <2>3. Of(owned', Stages[s]) \subseteq kept \cup r.todo
    <3>1. Of(owned, Stages[s]) \subseteq call[c].kept \cup call[c].todo
      BY DEF SweepingAt
    <3>2. Of(owned', Stages[s]) \subseteq Of(owned, Stages[s]) /\ Of(owned', Stages[s]) \subseteq owned'
      BY <2>1 DEF Of
    <3> QED
      BY <1>4, <1>5, <3>1, <3>2
  <2>4. s > 1 => Of(owned', "child") \subseteq kept
    <3>1. Of(owned', "child") \subseteq Of(owned, "child")
      BY <2>1 DEF Of
    <3> QED
      BY <1>5, <3>1 DEF SweepingAt
  <2>5. CASE r.todo = {}
    <3>1. s \in 0 .. 9 /\ s # 0
      BY <1>3
    <3>2. \A t \in 1 .. s : Of(owned', Stages[t]) \subseteq kept \/ Skipped(Stages[t], kept)
      BY <1>3, <2>2, <2>3, <2>5
    <3>3. Of(owned', "child") \subseteq kept
      <4>1. CASE s = 1
        BY <2>3, <2>5, <4>1, StageKinds
      <4> QED
        BY <1>3, <2>4, <4>1
    <3>4. Sweep(c, r, s, kept, owned', healthy)
      BY <1>4, <1>5, <2>5
    <3> HIDE DEF r, s
    <3>5. Cleans(c, r.kind, r.who, kept, healthy)
      BY <1>4, <1>5, <2>1, <3>1, <3>2, <3>3, <3>4, SweepCleans
    <3> QED
      BY <1>4, <3>5
  <2>6. CASE r.todo # {}
    <3> DEFINE q == [r EXCEPT !.kept = kept]
    <3>1. Goto(c, q, "cleanup") /\ UNCHANGED exec
      BY <1>5, <2>6
    <3> HIDE DEF r
    <3>2. q \in Records /\ q.kind = r.kind /\ q.who = r.who /\ q.h = r.h
          /\ q.stage = s /\ q.todo = r.todo /\ q.kept = kept
      <4>1. kept \in SUBSET Handles
        BY <2>1
      <4> QED
        BY <1>4, <4>1 DEF Records
    <3>3. Turns(c, q.kind, "cleanup", q.h, q.who) /\ call'[c] = [q EXCEPT !.pc = "cleanup"]
      <4> HIDE DEF q
      <4> QED
        BY <3>1, <3>2, GotoTurns, AskedKinds
    <3>4. call'[c].stage = s /\ call'[c].todo = r.todo /\ call'[c].kept = kept
      <4> HIDE DEF q
      <4> QED
        BY <3>2, <3>3 DEF Records
    <3>5. r.todo \subseteq Of(owned', Stages[s])
      BY <1>3, <1>4, <1>5 DEF Of
    <3>6. ~Skipped(Stages[s], kept \ Of(kept, Stages[s]))
      <4>1. kept \ Of(kept, Stages[s]) = call[c].kept \ Of(call[c].kept, Stages[s])
        BY <1>3, <1>5 DEF Of
      <4> QED
        BY <4>1 DEF SweepingAt
    <3>7. SweepingAt(c)'
      BY <1>3, <1>5, <2>2, <2>3, <2>4, <2>6, <3>4, <3>5, <3>6 DEF SweepingAt, Passed
    <3>8. call'[c].h \in Handles
      BY <3>3 DEF Turns, Records
    <3> QED
      <4>1. \E g \in Handles : Turns(c, call[c].kind, "cleanup", g, call[c].who)
        <5> HIDE DEF q
        <5> QED
          BY <1>4, <3>2, <3>3, <3>8 DEF Turns
      <4> QED
        BY <3>1, <3>7, <4>1 DEF Cleans, Proceeds
  <2> QED
    BY <2>5, <2>6
<1>6. ~(h[1] = "child" /\ child[h[2]].busy)
  BY <1>3 DEF Of
<1>7. CASE /\ h \notin failed /\ owned' = owned \ {h} /\ live' = live \ {h} /\ UNCHANGED failed
           /\ child' = (IF h[1] = "child" THEN [child EXCEPT ![h[2]] = NoChild] ELSE child)
           /\ \E healthy \in BOOLEAN : On(r.kept, owned', healthy)
  <2>1. PICK healthy \in BOOLEAN : On(r.kept, owned', healthy)
    BY <1>7
  <2>2. /\ call[c].kept \in SUBSET owned' /\ call[c].kept \subseteq failed' /\ h \notin owned'
        /\ owned' = owned \ {h}
    BY <1>3, <1>7
  <2>3. On(call[c].kept, owned', healthy)
    BY <1>4, <2>1
  <2> HIDE DEF On
  <2>4. Cleans(c, call[c].kind, call[c].who, call[c].kept, healthy)
    BY <1>5, <2>2, <2>3
  <2> QED
    BY <1>2, <1>7, <2>4
<1>8. CASE /\ (FailsNow(h) \/ FailedBefore(h)) /\ On(r.kept \cup {h}, owned, TRUE)
           /\ UNCHANGED <<owned, live, child>>
  <2>1. Remains(h)
    BY <1>8, FailureRemains
  <2>2. /\ call[c].kept \cup {h} \in SUBSET owned' /\ call[c].kept \cup {h} \subseteq failed'
        /\ owned' = owned
    BY <1>3, <1>8, <2>1 DEF Remains
  <2>3. On(call[c].kept \cup {h}, owned', TRUE)
    BY <1>4, <1>8
  <2> HIDE DEF On
  <2>4. Cleans(c, call[c].kind, call[c].who, call[c].kept \cup {h}, TRUE)
    BY <1>5, <2>2, <2>3
  <2> QED
    BY <1>2, <1>8, <2>1, <2>4
<1> QED
  BY <1>1, <1>6, <1>7, <1>8 DEF MayClose
-----------------------------------------------------------------------------
(* The invariant.                                                           *)

\* A call is in one of its own parts.
Routed == \A c \in Calls : call[c].pc \in Parts(call[c].kind)

\* The calls that set an execution up, the states in which it has run, and the
\* calls that are made then.
Setup == {"preinitialize", "ignite"}
Ran == {"running", "completed", "closed"}
Later == {"external", "deliver", "childDeliver", "childClose", "childWait", "wait"}

\* The states of the execution in which a call of a kind can be at one of its parts.
Fits(kind, pc, e) ==
    /\ kind = "prepare" => e.state = "none"
    /\ kind = "preinitialize" => e.state = "prepared" /\ e.cold
    /\ kind = "ignite" => ~e.closed /\ e.state \in {"prepared", "initializing", "running", "completed"}
    /\ kind = "ignite" /\ pc \notin {"status", "cleanup"} => e.state \in {"prepared", "initializing"}
    /\ kind = "ignite" /\ pc = "status" => e.state \in {"running", "completed"} /\ ~e.cold
    /\ kind = "ignite" /\ pc \in {"validate", "write"} => e.cold
    /\ kind \in Later => e.state \in Ran
    /\ kind \in {"external", "deliver", "close"} => ~e.closed
    /\ e.closed /\ kind = "childDeliver" => pc = "yield"

\* Which calls there can be in a state of the execution.
Phases ==
    /\ exec.closed => exec.state \in {"completed", "closed"}
    /\ exec.state = "closed" => exec.closed
    /\ exec.state = "none" => \E c \in Calls : call[c].kind = "prepare"
    /\ \A c \in Calls : Fits(call[c].kind, call[c].pc, exec)
    /\ \A c, d \in Calls : c # d /\ call[c].kind = "prepare" => call[d].kind = "idle"
    /\ \A i \in Ids : child[i].held => exec.state \in Ran
    /\ Of(owned, "operation") # {} => exec.state \in Ran

\* The calls that hold nothing up.
Idling == {"idle", "wait", "childWait", "describe"}

\* Calls of which there is at most one, and what can be there beside an ignition.
Single ==
    \A c, d \in Calls : c # d =>
        /\ call[c].kind \in Setup => call[d].kind \notin Setup
        /\ call[c].kind = "ignite" => call[d].kind \in Idling
        /\ call[c].kind \in {"external", "describe", "childClose"} => call[d].kind # call[c].kind
        /\ call[c].kind = "childDeliver" /\ call[d].kind \in {"childDeliver", "childClose"} =>
              call[c].who # call[d].who

\* FlagsMatch, and what its parts say of the calls that set the flags.
Delivering == {c \in Calls : call[c].kind = "deliver"}
Flags ==
    /\ exec.submitting <=> \E c \in Calls : call[c].kind = "external"
    /\ exec.describing <=> \E c \in Calls : call[c].kind = "describe"
    /\ IsFiniteSet(Delivering) /\ exec.deliveries = Cardinality(Delivering) /\ exec.deliveries \leq MaxTransfers
    /\ exec.cold => \E c \in Calls : call[c].kind \in Setup
    /\ \A i \in Ids : child[i].busy <=> \E c \in Calls : call[c].kind = "childDeliver" /\ call[c].who = i
    /\ \A c \in Calls : call[c].kind \in {"childDeliver", "childClose"} =>
          call[c].who \in Ids /\ child[call[c].who].held

\* What a call asks for or has is its own.
Own ==
    /\ \A c \in Calls : call[c].pc \in Asking \cup Having =>
          /\ call[c].h[1] = Kind(call[c].pc) /\ call[c].h[2] \in Ids
          /\ call[c].h \in live \ failed
          /\ call[c].h \in owned <=> call[c].pc \in Having
          /\ call[c].h[1] = "child" => ~child[call[c].h[2]].held
          /\ \A d \in Calls \ {c} : call[d].pc \in Asking \cup Having => call[d].h # call[c].h
    /\ \A i \in Ids : child[i].held => <<"child", i>> \in owned
    /\ \A h \in Of(owned, "child") : h[2] \in Ids

\* What exists is held, or asked for, and what would not close stays.
Known ==
    /\ \A h \in live : h \in owned \/ \E c \in Calls : call[c].pc \in Asking /\ call[c].h = h
    /\ failed \subseteq live \cap owned
    /\ exec.closed => \A i \in Ids : child[i].held => <<"child", i>> \in failed

\* While an execution is being prepared it holds what it has acquired, and once
\* it is prepared, until it is closed, all of it.
Based ==
    /\ \A c \in Calls : At(c, "acquire") =>
          /\ owned = live /\ failed = {} /\ live \subseteq {<<k, 0>> : k \in Basis}
          /\ \E k \in Basis : Of(owned, k) = {}
    /\ exec.state # "none" /\ ~exec.closed /\ (\A c \in Calls : ~At(c, "cleanup")) =>
          \A k \in Basis : Of(live, k) # {}

\* Every cleanup has come as far as its record says.
Sweeping == \A c \in Calls : At(c, "cleanup") => ~exec.closed /\ SweepingAt(c)

\* A report is given when the execution is closed, and nothing is left of a
\* complete one.
Reported == exec.report = "complete" => exec.closed /\ owned = {} /\ live = {}

\* The inductive invariant: the values of the variables, which calls there can
\* be together, and what they and the execution hold.
Shapes == Types /\ Routed
Admits == Phases /\ Single /\ Flags /\ ClosesAlone
Holds == Own /\ Known /\ Based /\ Sweeping /\ DependencySafe /\ Reported
IInv == Shapes /\ Admits /\ Holds

-----------------------------------------------------------------------------

\* The kinds of calls that can be at a part.
LEMMA PartKinds ==
    ASSUME Types, Routed, NEW c \in Calls
    PROVE  /\ call[c].kind = "idle" <=> At(c, "idle")
           /\ At(c, "acquire") => call[c].kind = "prepare"
           /\ call[c].pc \in {"validate", "write"} => call[c].kind \in Setup
           /\ call[c].pc \in {"launch", "initialize", "initWait", "initShut", "submit", "status"} => call[c].kind = "ignite"
           /\ At(c, "attach") => call[c].kind = "external"
           /\ At(c, "stage") => call[c].kind \in {"ignite", "external"}
           /\ At(c, "read") => call[c].kind \in {"ignite", "deliver", "childDeliver"}
           /\ call[c].pc \in Transfer => call[c].kind \in {"ignite", "external", "deliver", "childDeliver"}
           /\ At(c, "yield") => call[c].kind \in {"childDeliver", "childClose"}
           /\ At(c, "childWait") => call[c].kind = "childWait"
           /\ At(c, "wait") => call[c].kind = "wait"
           /\ At(c, "describe") => call[c].kind = "describe"
           /\ At(c, "cleanup") => call[c].kind \in {"prepare", "preinitialize", "ignite", "close"}
<1>1. call[c].kind \in CallKinds /\ call[c].pc \in Parts(call[c].kind)
  BY CallFields DEF Routed
<1> DEFINE k == call[c].kind
           p == call[c].pc
<1>2. /\ k = "idle" => p \in {"idle"}
      /\ k = "prepare" => p \in {"acquire", "cleanup"}
      /\ k = "preinitialize" => p \in {"validate", "write", "cleanup"}
      /\ k = "ignite" => p \in {"validate", "write", "launch", "stage", "read", "initialize", "initWait",
                             "initShut", "submit", "status", "cleanup", "move", "shut"}
      /\ k = "external" => p \in {"stage", "attach", "move", "shut"}
      /\ k = "deliver" => p \in {"read", "move", "shut"}
      /\ k = "childDeliver" => p \in {"yield", "read", "move", "shut"}
      /\ k = "childClose" => p \in {"yield"}
      /\ k = "childWait" => p \in {"childWait"}
      /\ k = "wait" => p \in {"wait"}
      /\ k = "describe" => p \in {"describe"}
      /\ k = "close" => p \in {"cleanup"}
  BY <1>1 DEF Parts, Transfer
<1>3. k \in {"idle", "prepare", "preinitialize", "ignite", "external", "deliver", "childDeliver",
              "childClose", "childWait", "wait", "describe", "close"}
  BY <1>1 DEF CallKinds
<1> HIDE DEF k, p
<1>4. /\ k = "idle" <=> p = "idle"
      /\ p = "acquire" => k = "prepare"
      /\ p \in {"validate", "write"} => k \in Setup
      /\ p \in {"launch", "initialize", "initWait", "initShut", "submit", "status"} => k = "ignite"
      /\ p = "attach" => k = "external"
      /\ p = "stage" => k \in {"ignite", "external"}
      /\ p = "read" => k \in {"ignite", "deliver", "childDeliver"}
      /\ p \in Transfer => k \in {"ignite", "external", "deliver", "childDeliver"}
      /\ p = "yield" => k \in {"childDeliver", "childClose"}
      /\ p = "childWait" => k = "childWait"
      /\ p = "wait" => k = "wait"
      /\ p = "describe" => k = "describe"
      /\ p = "cleanup" => k \in {"prepare", "preinitialize", "ignite", "close"}
  BY <1>2, <1>3 DEF Setup, Transfer
<1> QED
  BY <1>4 DEF At, k, p

\* The parts of a call that has asked for something, or prepares to.
Working == Asking \cup Having \cup {"validate", "write", "launch"}

\* A call that has asked for something, or prepares to, finds the execution
\* open and nobody else cleaning up.
LEMMA WorkingOpen ==
    ASSUME Types, Routed, Phases, ClosesAlone, NEW c \in Calls, call[c].pc \in Working
    PROVE  /\ ~exec.closed /\ exec.state # "none" /\ \A d \in Calls : ~At(d, "cleanup") /\ ~At(d, "acquire")
           /\ call[c].kind \in {"preinitialize", "ignite", "external", "deliver", "childDeliver"}
           /\ call[c].pc \in Asking \cup Having => call[c].kind # "preinitialize"
<1>1. /\ call[c].kind \in {"preinitialize", "ignite", "external", "deliver", "childDeliver"}
      /\ call[c].pc \in Asking \cup Having => call[c].kind # "preinitialize"
      /\ call[c].pc # "cleanup" /\ call[c].pc # "acquire" /\ call[c].pc # "yield"
  BY PartKinds DEF Working, Asking, Having, Transfer, Setup, At
<1>2. ~exec.closed /\ exec.state # "none"
  BY <1>1 DEF Phases, Fits, Ran, Later
<1>3. ASSUME NEW d \in Calls PROVE ~At(d, "cleanup") /\ ~At(d, "acquire")
  <2>1. CASE d = c
    BY <1>1, <2>1 DEF At
  <2>2. CASE d # c
    <3>1. ~At(d, "cleanup")
      BY <1>1, <2>2 DEF ClosesAlone
    <3>2. ~At(d, "acquire")
      <4>1. call[d].kind # "prepare"
        BY <1>2 DEF Phases, Fits
      <4> QED
        BY <4>1, PartKinds
    <3> QED
      BY <3>1, <3>2
  <2> QED
    BY <2>1, <2>2
<1> QED
  BY <1>1, <1>2, <1>3

\* Nothing but these handles is touched.
Only(xs) ==
    \A g \in Handles \ xs : /\ g \in owned' <=> g \in owned
                            /\ g \in live' <=> g \in live
                            /\ g \in failed' <=> g \in failed

\* What the call that turned says of its handle.
Mine(c, pc, h) ==
    pc \in Asking \cup Having =>
        /\ h[1] = Kind(pc) /\ h[2] \in Ids /\ h \in live' \ failed'
        /\ h \in owned' <=> pc \in Having
        /\ h[1] = "child" => ~child'[h[2]].held
        /\ \A d \in Calls \ {c} : call[d].pc \in Asking \cup Having => call[d].h # h

\* The other calls have nothing to do with these handles.
Clear(c, xs) ==
    \A d \in Calls \ {c} : call[d].pc \in Asking \cup Having =>
        /\ call[d].h \notin xs
        /\ call[d].h[1] = "child" => ~child'[call[d].h[2]].held

\* What is a call's own stays so when one call turns.
LEMMA OwnTurns ==
    ASSUME Types, Own, NEW c \in Calls, NEW xs, Only(xs), Clear(c, xs),
           NEW kind, NEW pc, NEW h, NEW who, Turns(c, kind, pc, h, who), Mine(c, pc, h),
           \A i \in Ids : child'[i].held => <<"child", i>> \in owned',
           \A g \in Of(owned', "child") : g[2] \in Ids
    PROVE  Own'
<1>1. ASSUME NEW d \in Calls, call'[d].pc \in Asking \cup Having
      PROVE  /\ call'[d].h[1] = Kind(call'[d].pc) /\ call'[d].h[2] \in Ids
             /\ call'[d].h \in live' \ failed'
             /\ call'[d].h \in owned' <=> call'[d].pc \in Having
             /\ call'[d].h[1] = "child" => ~child'[call'[d].h[2]].held
             /\ \A e \in Calls \ {d} : call'[e].pc \in Asking \cup Having => call'[e].h # call'[d].h
  <2>1. CASE d = c
    BY <1>1, <2>1 DEF Turns, Mine
  <2>2. CASE d # c
    <3>1. call'[d] = call[d] /\ call[d].h \in Handles \ xs
      BY <2>2, <1>1, CallFields DEF Turns, Clear
    <3>2. /\ call[d].h[1] = Kind(call[d].pc) /\ call[d].h[2] \in Ids /\ call[d].h \in live \ failed
          /\ call[d].h \in owned <=> call[d].pc \in Having
          /\ \A e \in Calls \ {d} : call[e].pc \in Asking \cup Having => call[e].h # call[d].h
      BY <1>1, <3>1 DEF Own
    <3>3. call[d].h \in live' \ failed' /\ (call[d].h \in owned' <=> call[d].pc \in Having)
      BY <3>1, <3>2 DEF Only
    <3>4. call[d].h[1] = "child" => ~child'[call[d].h[2]].held
      BY <1>1, <2>2, <3>1 DEF Clear
    <3>5. ASSUME NEW e \in Calls \ {d}, call'[e].pc \in Asking \cup Having PROVE call'[e].h # call[d].h
      <4>1. CASE e = c
        BY <1>1, <2>2, <3>1, <3>5, <4>1 DEF Turns, Mine
      <4>2. CASE e # c
        BY <3>2, <3>5, <4>2 DEF Turns
      <4> QED
        BY <4>1, <4>2
    <3> QED
      BY <3>1, <3>2, <3>3, <3>4, <3>5
  <2> QED
    BY <2>1, <2>2
<1> QED
  BY <1>1 DEF Own

\* What exists stays known when one call turns.
LEMMA KnownTurns ==
    ASSUME Types, Types', Known, NEW c \in Calls, NEW xs, Only(xs),
           NEW kind, NEW pc, NEW h, NEW who, Turns(c, kind, pc, h, who),
           call[c].pc \in Asking => call[c].h \in xs \/ (pc \in Asking /\ h = call[c].h),
           \A x \in xs : x \in live' => x \in owned' \/ (pc \in Asking /\ h = x),
           \A x \in xs : x \in failed' => x \in live' /\ x \in owned',
           exec'.closed => \A i \in Ids : child'[i].held => <<"child", i>> \in failed'
    PROVE  Known'
<1>1. ASSUME NEW g \in live' PROVE g \in owned' \/ \E d \in Calls : call'[d].pc \in Asking /\ call'[d].h = g
  <2>1. CASE g \in xs
    BY <2>1 DEF Turns
  <2>2. CASE g \notin xs
    <3>1. g \in Handles /\ g \in live
      BY <2>2 DEF Types, Only
    <3>2. CASE g \in owned
      BY <2>2, <3>1, <3>2 DEF Only
    <3>3. CASE \E d \in Calls : call[d].pc \in Asking /\ call[d].h = g
      <4>1. PICK d \in Calls : call[d].pc \in Asking /\ call[d].h = g
        BY <3>3
      <4>2. CASE d = c
        BY <2>2, <4>1, <4>2 DEF Turns
      <4>3. CASE d # c
        BY <4>1, <4>3 DEF Turns
      <4> QED
        BY <4>2, <4>3
    <3> QED
      BY <3>1, <3>2, <3>3 DEF Known
  <2> QED
    BY <2>1, <2>2
<1>2. failed' \subseteq live' \cap owned'
  <2> SUFFICES ASSUME NEW g \in failed' PROVE g \in live' /\ g \in owned'
    OBVIOUS
  <2>1. g \in Handles
    BY DEF Types
  <2> QED
    BY <2>1 DEF Only, Known
<1> QED
  BY <1>1, <1>2 DEF Known

\* The kinds that others are made from are those that are prepared, and none
\* of them is asked for by a call.
LEMMA BasisParents ==
    /\ \A k \in Kinds : ParentKinds(k) \subseteq Basis
    /\ \A pc \in Pcs : Kind(pc) \in {"xfer", "child", "operation"}
    /\ \A k \in {"xfer", "child", "operation"} : k \notin Basis /\ k \in Kinds
<1>1. \A k \in Kinds : ParentKinds(k) \subseteq Basis
  BY BasisOrder DEF ParentKinds, Kinds
<1>2. \A pc \in Pcs : Kind(pc) \in {"xfer", "child", "operation"}
  BY DEF Kind
<1> QED
  BY <1>1, <1>2, BasisOrder DEF Kinds

\* Handles that nothing is made from come and go freely.
LEMMA SafeTurns ==
    ASSUME Types, Types', DependencySafe, \A g \in live : g[1] \in Basis => g \in live',
           \A g \in live' \ live : Grounded(live', g[1])
    PROVE  DependencySafe'
<1> SUFFICES ASSUME NEW g \in live' PROVE Grounded(live', g[1])
  BY DEF DependencySafe, Grounded, Of
<1>1. CASE g \in live
  <2>1. g[1] \in Kinds
    BY <1>1, HandlePairs DEF Types
  <2> SUFFICES ASSUME NEW k \in ParentKinds(g[1]) PROVE Of(live', k) # {}
    BY DEF Grounded
  <2>2. Of(live, k) # {} /\ k \in Basis
    BY <1>1, <2>1, BasisParents DEF DependencySafe, Grounded
  <2> QED
    BY <2>2 DEF Of
<1> QED
  BY <1>1

\* A prepared execution stays whole when one call turns.
LEMMA BasedTurns ==
    ASSUME Types, Based, NEW c \in Calls, ~At(c, "cleanup"), NEW kind, NEW pc, NEW h, NEW who,
           Turns(c, kind, pc, h, who), \A d \in Calls : ~At(d, "acquire"), pc # "acquire",
           exec.state # "none", exec'.closed \/ ~exec.closed,
           \A g \in live : g[1] \in Basis => g \in live'
    PROVE  Based'
<1>1. \A d \in Calls : ~At(d, "acquire")'
  BY DEF Turns, At
<1>2. ASSUME ~exec'.closed, \A d \in Calls : ~At(d, "cleanup")', NEW k \in Basis PROVE Of(live', k) # {}
  <2>1. \A d \in Calls : ~At(d, "cleanup")
    <3> SUFFICES ASSUME NEW d \in Calls, At(d, "cleanup") PROVE FALSE
      OBVIOUS
    <3>1. d # c /\ call'[d] = call[d]
      BY DEF Turns
    <3> QED
      BY <1>2, <3>1 DEF At
  <2>2. Of(live, k) # {}
    BY <1>2, <2>1 DEF Based
  <2> QED
    BY <2>2 DEF Of
<1> QED
  BY <1>1, <1>2 DEF Based

\* The cleanup of another call is where it was.
LEMMA SweepingTurns ==
    ASSUME Types, Sweeping, NEW c \in Calls, NEW kind, NEW pc, NEW h, NEW who, Turns(c, kind, pc, h, who),
           \/ \A d \in Calls \ {c} : ~At(d, "cleanup")
           \/ owned' = owned /\ failed' = failed /\ exec'.closed = exec.closed,
           pc = "cleanup" => ~exec'.closed /\ SweepingAt(c)'
    PROVE  Sweeping'
<1> SUFFICES ASSUME NEW d \in Calls, At(d, "cleanup")' PROVE ~exec'.closed /\ SweepingAt(d)'
  BY DEF Sweeping, SweepingAt, At, Passed
<1>1. CASE d = c
  BY <1>1 DEF Turns, At
<1>2. CASE d # c
  <2>1. call'[d] = call[d] /\ At(d, "cleanup")
    BY <1>2 DEF Turns, At
  <2>2. owned' = owned /\ failed' = failed /\ exec'.closed = exec.closed
    BY <1>2, <2>1
  <2>3. ~exec.closed /\ SweepingAt(d)
    BY <2>1 DEF Sweeping
  <2> QED
    BY <2>1, <2>2, <2>3 DEF SweepingAt, Passed
<1> QED
  BY <1>1, <1>2

\* A call of this kind can be beside the others.
Joins(c, kind, who) ==
    \A d \in Calls \ {c} :
        /\ kind \in Setup => call[d].kind \notin Setup
        /\ kind = "ignite" => call[d].kind \in Idling
        /\ call[d].kind = "ignite" => kind \in Idling
        /\ kind \in {"external", "describe", "childClose"} => call[d].kind # kind
        /\ kind = "childDeliver" /\ call[d].kind \in {"childDeliver", "childClose"} => who # call[d].who
        /\ kind = "childClose" /\ call[d].kind = "childDeliver" => who # call[d].who

\* There is no second call of these kinds when one call turns.
LEMMA SingleTurns ==
    ASSUME Types, Single, NEW c \in Calls, NEW kind, NEW pc, NEW h, NEW who, Turns(c, kind, pc, h, who),
           Joins(c, kind, who)
    PROVE  Single'
<1> SUFFICES ASSUME NEW a \in Calls, NEW b \in Calls, a # b
             PROVE  /\ call'[a].kind \in Setup => call'[b].kind \notin Setup
                    /\ call'[a].kind = "ignite" => call'[b].kind \in Idling
                    /\ call'[a].kind \in {"external", "describe", "childClose"} => call'[b].kind # call'[a].kind
                    /\ call'[a].kind = "childDeliver" /\ call'[b].kind \in {"childDeliver", "childClose"} =>
                          call'[a].who # call'[b].who
  BY DEF Single
<1>1. CASE a = c
  BY <1>1 DEF Turns, Joins
<1>2. CASE b = c
  BY <1>2 DEF Turns, Joins
<1>3. CASE a # c /\ b # c
  BY <1>3 DEF Turns, Single
<1> QED
  BY <1>1, <1>2, <1>3

\* A call that goes on, or of a kind that may be there twice, joins the others.
LEMMA JoinsStays ==
    ASSUME Single, NEW c \in Calls, NEW kind, NEW who,
           \/ kind = call[c].kind /\ (who = call[c].who \/ kind = "ignite")
           \/ kind \in {"idle", "wait", "childWait"}
    PROVE  Joins(c, kind, who)
BY DEF Single, Joins, Setup, Idling

\* A call of this kind may be there while others clean up.
Beside(c, kind) ==
    \A d \in Calls \ {c} : At(d, "cleanup") =>
        kind \in {"idle", "wait", "childWait"} \/ (kind = "describe" /\ call[d].kind # "close")

\* A call of this kind may clean up beside the others.
Alone(c, kind) ==
    \A d \in Calls \ {c} :
        call[d].kind \in {"idle", "wait", "childWait"} \/ (call[d].kind = "describe" /\ kind # "close")

\* Cleanups stay alone when one call turns.
LEMMA AloneTurns ==
    ASSUME Types, ClosesAlone, NEW c \in Calls, NEW kind, NEW pc, NEW h, NEW who, Turns(c, kind, pc, h, who),
           Beside(c, kind), pc = "cleanup" => Alone(c, kind)
    PROVE  ClosesAlone'
<1> SUFFICES ASSUME NEW a \in Calls, NEW b \in Calls, a # b, call'[a].pc = "cleanup"
             PROVE  \/ call'[b].kind \in {"idle", "wait", "childWait"}
                    \/ call'[b].kind = "describe" /\ call'[a].kind # "close"
  BY DEF ClosesAlone, At
<1>1. CASE a = c
  BY <1>1 DEF Turns, Alone
<1>2. CASE b = c
  BY <1>2 DEF Turns, Beside, At
<1>3. CASE a # c /\ b # c
  BY <1>3 DEF Turns, ClosesAlone, At
<1> QED
  BY <1>1, <1>2, <1>3

\* A call that goes on disturbs no cleanup, and none is disturbed by a wait.
LEMMA BesideStays ==
    ASSUME Types, ClosesAlone, NEW c \in Calls, NEW kind,
           kind = call[c].kind \/ kind \in {"idle", "wait", "childWait"} \/ \A d \in Calls \ {c} : ~At(d, "cleanup")
    PROVE  Beside(c, kind)
BY DEF Beside, ClosesAlone

\* A call that cleans up does so alone.
LEMMA AloneStays ==
    ASSUME ClosesAlone, NEW c \in Calls, At(c, "cleanup")
    PROVE  Alone(c, call[c].kind)
BY DEF Alone, ClosesAlone

\* The calls fit the state of the execution when one call turns.
LEMMA PhasesTurns ==
    ASSUME Types, Phases, NEW c \in Calls, NEW kind, NEW pc, NEW h, NEW who, Turns(c, kind, pc, h, who),
           exec'.closed => exec'.state \in {"completed", "closed"}, exec'.state = "closed" => exec'.closed,
           exec'.state = "none" => kind = "prepare",
           Fits(kind, pc, exec'), \A d \in Calls \ {c} : Fits(call[d].kind, call[d].pc, exec'),
           \A d \in Calls \ {c} : /\ call[d].kind = "prepare" => kind = "idle"
                                  /\ kind = "prepare" => call[d].kind = "idle",
           \A i \in Ids : child'[i].held => exec'.state \in Ran,
           Of(owned', "operation") # {} => exec'.state \in Ran
    PROVE  Phases'
<1>1. \A d \in Calls : Fits(call'[d].kind, call'[d].pc, exec')
  <2> SUFFICES ASSUME NEW d \in Calls PROVE Fits(call'[d].kind, call'[d].pc, exec')
    OBVIOUS
  <2>1. CASE d = c
    BY <2>1 DEF Turns
  <2>2. CASE d # c
    BY <2>2 DEF Turns
  <2> QED
    BY <2>1, <2>2
<1>2. \A a, b \in Calls : a # b /\ call'[a].kind = "prepare" => call'[b].kind = "idle"
  <2> SUFFICES ASSUME NEW a \in Calls, NEW b \in Calls, a # b, call'[a].kind = "prepare"
               PROVE  call'[b].kind = "idle"
    OBVIOUS
  <2>1. CASE a = c
    BY <2>1 DEF Turns
  <2>2. CASE b = c
    BY <2>2 DEF Turns
  <2>3. CASE a # c /\ b # c
    BY <2>3 DEF Turns, Phases
  <2> QED
    BY <2>1, <2>2, <2>3
<1>3. exec'.state = "none" => \E d \in Calls : call'[d].kind = "prepare"
  BY DEF Turns
<1> QED
  BY <1>1, <1>2, <1>3 DEF Phases, Fits

\* Calls that fit go on to while the state of the execution does not change.
LEMMA FitsSteady ==
    ASSUME Phases, exec'.state = exec.state, exec'.closed = exec.closed, exec'.cold = exec.cold
    PROVE  \A d \in Calls : Fits(call[d].kind, call[d].pc, exec')
BY DEF Phases, Fits

\* There is another call of this kind.
Others(c, kind) == \E d \in Calls \ {c} : call[d].kind = kind

\* The deliveries are counted when one call turns.
LEMMA DeliveringTurns ==
    ASSUME Types, NEW c \in Calls, NEW kind, NEW pc, NEW h, NEW who, Turns(c, kind, pc, h, who),
           IsFiniteSet(Delivering), exec.deliveries = Cardinality(Delivering),
           exec'.deliveries = exec.deliveries + (IF kind = "deliver" THEN 1 ELSE 0)
                                 - (IF call[c].kind = "deliver" THEN 1 ELSE 0)
    PROVE  IsFiniteSet(Delivering') /\ exec'.deliveries = Cardinality(Delivering')
<1>1. exec.deliveries \in Nat
  BY FS_CardinalityType
<1>2. \A d \in Calls : d \in Delivering' <=> (IF d = c THEN kind = "deliver" ELSE d \in Delivering)
  BY DEF Turns, Delivering
<1>3. CASE kind = "deliver" /\ call[c].kind # "deliver"
  <2>1. Delivering' = Delivering \cup {c} /\ c \notin Delivering
    BY <1>2, <1>3 DEF Delivering
  <2> QED
    BY <1>1, <1>3, <2>1, FS_AddElement
<1>4. CASE kind # "deliver" /\ call[c].kind = "deliver"
  <2>1. Delivering' = Delivering \ {c} /\ c \in Delivering
    BY <1>2, <1>4 DEF Delivering
  <2> QED
    BY <1>1, <1>4, <2>1, FS_RemoveElement
<1>5. CASE (kind = "deliver") <=> (call[c].kind = "deliver")
  <2>1. Delivering' = Delivering
    BY <1>2, <1>5 DEF Delivering
  <2> QED
    BY <1>1, <1>5, <2>1
<1> QED
  BY <1>3, <1>4, <1>5

\* The flags say which calls there are when one call turns.
LEMMA FlagsTurns ==
    ASSUME Types, Flags, NEW c \in Calls, NEW kind, NEW pc, NEW h, NEW who, Turns(c, kind, pc, h, who),
           exec'.submitting <=> kind = "external" \/ Others(c, "external"),
           exec'.describing <=> kind = "describe" \/ Others(c, "describe"),
           exec'.deliveries = exec.deliveries + (IF kind = "deliver" THEN 1 ELSE 0)
                                 - (IF call[c].kind = "deliver" THEN 1 ELSE 0),
           exec'.deliveries <= MaxTransfers,
           exec'.cold => kind \in Setup \/ \E d \in Calls \ {c} : call[d].kind \in Setup,
           \A i \in Ids : child'[i].busy <=>
               (kind = "childDeliver" /\ who = i) \/ \E d \in Calls \ {c} : call[d].kind = "childDeliver" /\ call[d].who = i,
           kind \in {"childDeliver", "childClose"} => who \in Ids /\ child'[who].held,
           \A d \in Calls \ {c} : call[d].kind \in {"childDeliver", "childClose"} => child'[call[d].who].held
    PROVE  Flags'
<1>1. exec'.submitting <=> \E d \in Calls : call'[d].kind = "external"
  BY DEF Turns, Others
<1>2. exec'.describing <=> \E d \in Calls : call'[d].kind = "describe"
  BY DEF Turns, Others
<1>3. IsFiniteSet(Delivering') /\ exec'.deliveries = Cardinality(Delivering')
  BY DeliveringTurns DEF Flags
<1>4. exec'.cold => \E d \in Calls : call'[d].kind \in Setup
  BY DEF Turns
<1>5. ASSUME NEW i \in Ids PROVE child'[i].busy <=> \E d \in Calls : call'[d].kind = "childDeliver" /\ call'[d].who = i
  BY DEF Turns
<1>6. ASSUME NEW d \in Calls, call'[d].kind \in {"childDeliver", "childClose"}
      PROVE  call'[d].who \in Ids /\ child'[call'[d].who].held
  <2>1. CASE d = c
    BY <1>6, <2>1 DEF Turns
  <2>2. CASE d # c
    BY <1>6, <2>2 DEF Turns, Flags
  <2> QED
    BY <2>1, <2>2
<1>7. Delivering' = {d \in Calls : call'[d].kind = "deliver"}
  BY DEF Delivering
<1> QED
  BY <1>1, <1>2, <1>3, <1>4, <1>5, <1>6 DEF Flags

\* The flags as they were, for a call that goes on.
LEMMA FlagsStay ==
    ASSUME Types, Flags, NEW c \in Calls, NEW kind, NEW pc, NEW h, NEW who, Turns(c, kind, pc, h, who),
           kind = call[c].kind, who = call[c].who \/ kind = "ignite",
           exec'.submitting = exec.submitting, exec'.describing = exec.describing, exec'.deliveries = exec.deliveries,
           exec'.cold => exec.cold \/ kind \in Setup,
           \A i \in Ids : child'[i].busy = child[i].busy, \A i \in Ids : child[i].held => child'[i].held
    PROVE  Flags'
<1>1. exec'.deliveries = exec.deliveries + (IF kind = "deliver" THEN 1 ELSE 0)
                                 - (IF call[c].kind = "deliver" THEN 1 ELSE 0)
      /\ exec'.deliveries <= MaxTransfers
  <2>1. exec.deliveries \in Int
    BY DEF Types, Words
  <2> QED
    BY <2>1 DEF Flags
<1>2. /\ exec'.submitting <=> kind = "external" \/ Others(c, "external")
      /\ exec'.describing <=> kind = "describe" \/ Others(c, "describe")
      /\ exec'.cold => kind \in Setup \/ \E d \in Calls \ {c} : call[d].kind \in Setup
  BY DEF Flags, Others
<1>3. \A i \in Ids : child'[i].busy <=>
         (kind = "childDeliver" /\ who = i) \/ \E d \in Calls \ {c} : call[d].kind = "childDeliver" /\ call[d].who = i
  <2> SUFFICES ASSUME NEW i \in Ids
               PROVE  child[i].busy <=> (kind = "childDeliver" /\ who = i)
                          \/ \E d \in Calls \ {c} : call[d].kind = "childDeliver" /\ call[d].who = i
    OBVIOUS
  <2>1. child[i].busy <=> \E d \in Calls : call[d].kind = "childDeliver" /\ call[d].who = i
    BY DEF Flags
  <2>2. kind = "childDeliver" => who = call[c].who
    OBVIOUS
  <2> QED
    BY <2>1, <2>2
<1>4. /\ kind \in {"childDeliver", "childClose"} => who \in Ids /\ child'[who].held
      /\ \A d \in Calls \ {c} : call[d].kind \in {"childDeliver", "childClose"} => child'[call[d].who].held
  BY DEF Flags
<1> QED
  BY <1>1, <1>2, <1>3, <1>4, FlagsTurns

\* The calls that raise no flag that is counted.
Plain == {"idle", "prepare", "preinitialize", "ignite", "childWait", "childClose", "wait", "close"}

\* The flags when no call that sets one comes or goes.
LEMMA FlagsPlain ==
    ASSUME Types, Flags, NEW c \in Calls, NEW kind, NEW pc, NEW h, NEW who, Turns(c, kind, pc, h, who),
           kind \in Plain, call[c].kind \in Plain, kind = "childClose" => who \in Ids /\ child'[who].held,
           exec'.submitting = exec.submitting, exec'.describing = exec.describing, exec'.deliveries = exec.deliveries,
           exec'.cold => kind \in Setup \/ \E d \in Calls \ {c} : call[d].kind \in Setup,
           \A i \in Ids : child'[i].busy = child[i].busy,
           \A d \in Calls \ {c} : call[d].kind \in {"childDeliver", "childClose"} => child'[call[d].who].held
    PROVE  Flags'
<1>1. exec'.deliveries = exec.deliveries + (IF kind = "deliver" THEN 1 ELSE 0)
                                 - (IF call[c].kind = "deliver" THEN 1 ELSE 0)
      /\ exec'.deliveries <= MaxTransfers
  <2>1. exec.deliveries \in Int
    BY DEF Types, Words
  <2> QED
    BY <2>1 DEF Flags, Plain
<1>2. /\ exec'.submitting <=> kind = "external" \/ Others(c, "external")
      /\ exec'.describing <=> kind = "describe" \/ Others(c, "describe")
  BY DEF Flags, Others, Plain
<1>3. \A i \in Ids : child'[i].busy <=>
         (kind = "childDeliver" /\ who = i) \/ \E d \in Calls \ {c} : call[d].kind = "childDeliver" /\ call[d].who = i
  BY DEF Flags, Plain
<1>4. kind \in {"childDeliver", "childClose"} => who \in Ids /\ child'[who].held
  BY DEF Plain
<1> QED
  BY <1>1, <1>2, <1>3, <1>4, FlagsTurns

\* Whoever cleans up alone meets no call that asks for or has a handle.
LEMMA AloneClear ==
    ASSUME Types, Routed, NEW c \in Calls, NEW kind, Alone(c, kind)
    PROVE  /\ \A d \in Calls \ {c} : /\ call[d].pc \notin Asking \cup Having /\ ~At(d, "cleanup") /\ ~At(d, "acquire")
                                     /\ call[d].kind \notin Setup \cup {"prepare", "external", "deliver", "childDeliver", "childClose", "close"}
           /\ \A xs : Clear(c, xs)
<1>1. ASSUME NEW d \in Calls \ {c}
      PROVE  /\ call[d].pc \notin Asking \cup Having /\ ~At(d, "cleanup") /\ ~At(d, "acquire")
             /\ call[d].kind \notin Setup \cup {"prepare", "external", "deliver", "childDeliver", "childClose", "close"}
  <2>1. call[d].kind \in {"idle", "wait", "childWait", "describe"}
    BY DEF Alone
  <2> QED
    BY <2>1, PartKinds DEF Asking, Having, Transfer, Setup, At
<1> QED
  BY <1>1 DEF Clear

\* The words of an execution when a cleanup ends.
LEMMA EndWords ==
    ASSUME Types, NEW c, NEW kind, NEW kept, NEW healthy, Ends(c, kind, kept, healthy)
    PROVE  /\ exec' \in Words /\ exec'.closed /\ exec'.state = "closed" /\ exec'.submitting = exec.submitting
           /\ exec'.describing = exec.describing /\ exec'.deliveries = exec.deliveries
           /\ exec'.cold = (IF kind = "close" THEN exec.cold ELSE FALSE)
           /\ exec'.report = Report(kept, healthy)
<1>1. Report(kept, healthy) \in {"none", "complete", "quarantined"} /\ "closed" \in States
  BY DEF Report, States
<1> QED
  BY <1>1 DEF Ends, Types, Words

\* A cleanup that begins, goes on or ends leaves the flags and the calls right.
LEMMA CleansAdmits ==
    ASSUME Types, Routed, Phases, Single, Flags, ClosesAlone, NEW c \in Calls, NEW kind, NEW who, NEW kept, NEW healthy,
           Cleans(c, kind, who, kept, healthy), kind \in {"prepare", "preinitialize", "ignite", "close"},
           ~exec.closed, kind = call[c].kind \/ (kind = "close" /\ call[c].kind = "idle" /\ exec.state # "none"),
           kind = "ignite" \/ who = call[c].who \/ kind = "close", Alone(c, kind),
           exec.cold => kind # "close", call[c].kind = "prepare" => \A d \in Calls \ {c} : call[d].kind = "idle",
           \A i \in Ids : child'[i].busy = child[i].busy, \A i \in Ids : child'[i].held => child[i].held,
           Of(owned', "operation") \subseteq Of(owned, "operation")
    PROVE  Phases' /\ Single' /\ Flags' /\ ClosesAlone'
<1>1. \A d \in Calls \ {c} :
         call[d].kind \notin Setup \cup {"prepare", "external", "deliver", "childDeliver", "childClose", "close"}
         /\ ~At(d, "cleanup")
  BY AloneClear
<1>2. kind \in Plain /\ call[c].kind \in Plain
  BY DEF Plain
<1>3. CASE Ends(c, kind, kept, healthy)
  <2>1. Turns(c, "idle", "idle", NoHandle, 0)
    BY <1>3 DEF Ends
  <2>2. /\ exec'.closed /\ exec'.state = "closed" /\ exec'.submitting = exec.submitting
        /\ exec'.describing = exec.describing /\ exec'.deliveries = exec.deliveries
        /\ exec'.cold = (IF kind = "close" THEN exec.cold ELSE FALSE)
    BY <1>3, EndWords
  <2>3. ~exec'.cold
    BY <2>2
  <2>4. Single'
    BY <2>1, JoinsStays, SingleTurns
  <2>5. ClosesAlone'
    BY <2>1, BesideStays, AloneTurns
  <2>6. Flags'
    BY <1>1, <1>2, <2>1, <2>2, <2>3, FlagsPlain DEF Plain
  <2>7. \A d \in Calls \ {c} : Fits(call[d].kind, call[d].pc, exec')
    BY <1>1, <2>2 DEF Fits, Setup, Ran
  <2>8. Fits("idle", "idle", exec')
    BY DEF Fits, Later
  <2>9. Phases'
    BY <1>1, <2>1, <2>2, <2>7, <2>8, PhasesTurns DEF Ran
  <2> QED
    BY <2>4, <2>5, <2>6, <2>9
<1>4. CASE Proceeds(c, kind, who)
  <2>1. PICK h \in Handles : Turns(c, kind, "cleanup", h, who)
    BY <1>4 DEF Proceeds
  <2>2. exec' = exec
    BY <1>4 DEF Proceeds
  <2>4. Single'
    <3>1. Joins(c, kind, who)
      BY <1>1 DEF Joins, Alone, Idling, Setup
    <3> QED
      BY <2>1, <3>1, SingleTurns
  <2>5. ClosesAlone'
    <3>1. Beside(c, kind)
      BY <1>1 DEF Beside
    <3> QED
      BY <2>1, <3>1, AloneTurns
  <2>6. Flags'
    <3>1. exec.cold => kind \in Setup \/ \E d \in Calls \ {c} : call[d].kind \in Setup
      BY <1>1 DEF Flags, Setup
    <3> QED
      BY <1>1, <1>2, <2>1, <2>2, <3>1, FlagsPlain
  <2>7. \A d \in Calls \ {c} : Fits(call[d].kind, call[d].pc, exec')
    BY <2>2 DEF Phases
  <2>8. Fits(kind, "cleanup", exec')
    <3>1. CASE kind = call[c].kind
      BY <2>2, <3>1 DEF Fits, Phases, Later
    <3>2. CASE kind = "close"
      BY <2>2, <3>2 DEF Fits, Later
    <3> QED
      BY <3>1, <3>2
  <2>9. Phases'
    <3>1. exec'.state = "none" => kind = "prepare"
      <4>1. exec.state = "none" => \E d \in Calls : call[d].kind = "prepare"
        BY DEF Phases
      <4> QED
        BY <1>1, <2>2, <4>1
    <3>2. /\ exec'.closed => exec'.state \in {"completed", "closed"}
          /\ exec'.state = "closed" => exec'.closed
          /\ \A i \in Ids : child'[i].held => exec'.state \in Ran
          /\ Of(owned', "operation") # {} => exec'.state \in Ran
      BY <2>2 DEF Phases
    <3>3. \A d \in Calls \ {c} : /\ call[d].kind = "prepare" => kind = "idle"
                                 /\ kind = "prepare" => call[d].kind = "idle"
      BY <1>1
    <3> QED
      BY <2>1, <2>7, <2>8, <3>1, <3>2, <3>3, PhasesTurns
  <2> QED
    BY <2>4, <2>5, <2>6, <2>9
<1> QED
  BY <1>3, <1>4 DEF Cleans

\* It forgets no handle and leaves a true report.
LEMMA CleansHolds ==
    ASSUME Types, Types', Routed, Own, Known, Sweeping, Reported, NEW c \in Calls, NEW kind, NEW who, NEW kept, NEW healthy,
           Cleans(c, kind, who, kept, healthy), Alone(c, kind), ~exec.closed,
           NEW xs, Only(xs), call[c].pc \in Asking => call[c].h \in xs,
           \A x \in xs : x \in live' => x \in owned', \A x \in xs : x \in failed' => x \in live' /\ x \in owned',
           kept \subseteq failed',
           \A i \in Ids : child'[i].held => <<"child", i>> \in owned', \A g \in Of(owned', "child") : g[2] \in Ids
    PROVE  Own' /\ Known' /\ Based' /\ Sweeping' /\ Reported'
<1>1. PICK kind2 \in {kind, "idle"}, pc \in {"cleanup", "idle"}, h \in Handles, who2 \in {who, 0} : Turns(c, kind2, pc, h, who2)
  BY IdleRecord DEF Cleans, Ends, Proceeds
<1>2. pc \notin Asking \cup Having
  BY DEF Asking, Having, Transfer
<1>3. \A d \in Calls \ {c} : call[d].pc \notin Asking \cup Having /\ ~At(d, "cleanup") /\ ~At(d, "acquire")
  BY AloneClear
<1>4. Clear(c, xs) /\ Mine(c, pc, h)
  BY <1>2, AloneClear DEF Mine
<1>5. Own'
  BY <1>1, <1>4, OwnTurns
<1>6. exec'.closed => \A i \in Ids : child'[i].held => <<"child", i>> \in failed'
  <2>1. CASE Ends(c, kind, kept, healthy)
    <3>1. Of(owned', "child") \subseteq kept
      BY <2>1 DEF Ends
    <3> QED
      BY <3>1 DEF Of
  <2>2. CASE Proceeds(c, kind, who)
    BY <2>2 DEF Proceeds
  <2> QED
    BY <2>1, <2>2 DEF Cleans
<1>7. Known'
  BY <1>1, <1>2, <1>6, KnownTurns
<1>8. CASE Ends(c, kind, kept, healthy)
  <2>1. Turns(c, "idle", "idle", NoHandle, 0) /\ exec'.closed /\ exec'.report = Report(kept, healthy)
    <3>1. Turns(c, "idle", "idle", NoHandle, 0)
      BY <1>8 DEF Ends
    <3>2. exec'.closed /\ exec'.report = Report(kept, healthy)
      BY <1>8, EndWords
    <3> QED
      BY <3>1, <3>2
  <2>2. \A d \in Calls : ~At(d, "acquire")' /\ call'[d].pc \notin Asking
    BY <1>3, <2>1 DEF Turns, At, Asking
  <2>3. Based'
    BY <2>1, <2>2 DEF Based
  <2>4. Sweeping'
    BY <1>3, <2>1, SweepingTurns
  <2>5. Reported'
    <3>1. exec'.report = "complete" => owned' = {}
      BY <1>8, <2>1 DEF Ends, Report
    <3>2. live' \subseteq owned'
      BY <1>7, <2>2 DEF Known
    <3> QED
      BY <2>1, <3>1, <3>2 DEF Reported
  <2> QED
    BY <1>5, <1>7, <2>3, <2>4, <2>5
<1>9. CASE Proceeds(c, kind, who)
  <2>1. PICK g \in Handles : Turns(c, kind, "cleanup", g, who)
    BY <1>9 DEF Proceeds
  <2>2. exec' = exec /\ SweepingAt(c)'
    BY <1>9 DEF Proceeds
  <2>3. \A d \in Calls : ~At(d, "acquire")'
    BY <1>3, <2>1 DEF Turns, At
  <2>4. At(c, "cleanup")'
    BY <2>1 DEF Turns, At
  <2>5. Based'
    BY <2>3, <2>4 DEF Based
  <2>6. Sweeping'
    BY <1>3, <2>1, <2>2, SweepingTurns
  <2>7. Reported'
    BY <2>2 DEF Reported
  <2> QED
    BY <1>5, <1>7, <2>5, <2>6, <2>7
<1> QED
  BY <1>8, <1>9 DEF Cleans

\* A call goes from one of its own parts to another.
LEMMA RoutedTurns ==
    ASSUME Types, Routed, NEW c \in Calls, NEW kind, NEW pc, NEW h, NEW who, Turns(c, kind, pc, h, who), pc \in Parts(kind)
    PROVE  Routed'
BY DEF Routed, Turns

\* Nothing is touched, and the call neither asked for anything nor does.
LEMMA HoldsSteady ==
    ASSUME Shapes', Shapes, Holds, NEW c \in Calls, NEW kind, NEW pc, NEW h, NEW who, Turns(c, kind, pc, h, who),
           UNCHANGED <<owned, live, failed>>, ~At(c, "cleanup"), pc \notin {"cleanup", "acquire"},
           \A d \in Calls : ~At(d, "acquire"), exec.state # "none",
           exec'.closed = exec.closed, exec'.report = exec.report, call[c].pc \notin Asking,
           pc \notin Asking \cup Having
           \/ (call[c].pc \in Having /\ pc \in Having /\ h = call[c].h /\ Kind(pc) = Kind(call[c].pc)),
           \A i \in Ids : child'[i].held => child[i].held
    PROVE  Holds'
<1>1. Types /\ Types' /\ Own /\ Known /\ Based /\ Sweeping /\ DependencySafe /\ Reported
  BY DEF Shapes, Holds
<1>2. Only({})
  BY DEF Only
<1>3. ASSUME NEW d \in Calls \ {c}, call[d].pc \in Asking \cup Having, call[d].h[1] = "child"
      PROVE  ~child'[call[d].h[2]].held
  BY <1>1, <1>3 DEF Own
<1>4. Clear(c, {})
  BY <1>3 DEF Clear
<1>5. Mine(c, pc, h)
  <2>1. CASE pc \notin Asking \cup Having
    BY <2>1 DEF Mine
  <2>2. CASE call[c].pc \in Having /\ pc \in Having /\ h = call[c].h /\ Kind(pc) = Kind(call[c].pc)
    <3>1. /\ h[1] = Kind(pc) /\ h[2] \in Ids /\ h \in live \ failed /\ h \in owned
          /\ h[1] = "child" => ~child[h[2]].held
          /\ \A d \in Calls \ {c} : call[d].pc \in Asking \cup Having => call[d].h # h
      BY <1>1, <2>2 DEF Own
    <3> QED
      BY <2>2, <3>1 DEF Mine
  <2> QED
    BY <2>1, <2>2
<1>6. Own'
  <2>1. \A i \in Ids : child'[i].held => <<"child", i>> \in owned'
    BY <1>1 DEF Own
  <2>2. \A g \in Of(owned', "child") : g[2] \in Ids
    BY <1>1 DEF Own
  <2> QED
    BY <1>1, <1>2, <1>4, <1>5, <2>1, <2>2, OwnTurns
<1>7. Known'
  <2>1. exec'.closed => \A i \in Ids : child'[i].held => <<"child", i>> \in failed'
    BY <1>1 DEF Known
  <2> QED
    BY <1>1, <1>2, <2>1, KnownTurns
<1>8. Based'
  BY <1>1, BasedTurns
<1>9. Sweeping'
  BY <1>1, SweepingTurns
<1>10. DependencySafe' /\ Reported'
  BY <1>1, SafeTurns DEF Reported
<1> QED
  BY <1>6, <1>7, <1>8, <1>9, <1>10 DEF Holds

\* A call asks for a handle, and some that nothing is made from go before it.
LEMMA HoldsAsks ==
    ASSUME Shapes', Shapes, Holds, NEW c \in Calls, NEW kind, NEW pc \in Asking, NEW who, NEW xs \in SUBSET Handles,
           AsksFor(c, kind, pc, who, live \ xs), owned' \in {owned, owned \ xs}, failed' = failed, failed \cap xs = {},
           call[c].pc \notin Asking, call[c].pc \in Having => call[c].h \in xs,
           \A x \in xs : x[1] \in {"xfer", "child", "operation"}, Clear(c, xs),
           \A d \in Calls : ~At(d, "acquire") /\ ~At(d, "cleanup"), exec.state # "none",
           ~exec.closed, ~exec'.closed, exec'.report = exec.report, child' = child,
           \A i \in Ids : child[i].held => <<"child", i>> \in owned'
    PROVE  Holds'
<1>1. /\ Types /\ Types' /\ Own /\ Known /\ Based /\ Sweeping /\ DependencySafe /\ Reported
      /\ owned \subseteq Handles /\ live \subseteq Handles /\ failed \subseteq Handles
  BY DEF Shapes, Holds, Types
<1> DEFINE base == live \ xs
           kin == Kind(pc)
<1>2. PICK h \in Handles :
        /\ h[1] = kin /\ h[2] \in Ids /\ h \notin live \cup owned
        /\ Turns(c, kind, pc, h, who)
        /\ live' = IF Grounded(base, kin) THEN base \cup {h} ELSE base
  BY DEF AsksFor
<1>3. kin \in {"xfer", "child", "operation"} /\ kin \in Kinds
  <2>1. pc \in Pcs
    BY PcsAre DEF Asking
  <2> QED
    BY <2>1, BasisParents
<1>4. \A k \in Basis : Of(live, k) # {}
  BY <1>1 DEF Based
<1>5. \A g \in live : g[1] \in Basis => g \in base
  BY BasisParents
<1>6. Grounded(base, kin)
  <2> SUFFICES ASSUME NEW k \in ParentKinds(kin) PROVE Of(base, k) # {}
    BY DEF Grounded
  <2>1. k \in Basis
    BY <1>3, BasisParents
  <2> QED
    BY <1>4, <1>5, <2>1 DEF Of
<1>7. live' = base \cup {h}
  BY <1>2, <1>6
<1>8. \A g \in live : g[1] \in Basis => g \in live'
  BY <1>5, <1>7
<1>9. Only(xs \cup {h})
  BY <1>7 DEF Only
<1>10. h \notin failed /\ pc \notin Having /\ pc \notin {"acquire", "cleanup"}
  BY <1>1, <1>2 DEF Known, Asking, Having, Transfer
<1>11. \A d \in Calls \ {c} : call[d].pc \in Asking \cup Having => call[d].h # h
  BY <1>1, <1>2 DEF Own
<1>12. Clear(c, xs \cup {h})
  BY <1>11 DEF Clear
<1>13. Mine(c, pc, h)
  <2>1. h[1] = "child" => ~child[h[2]].held
    BY <1>1, <1>2, HandlePairs DEF Own
  <2> QED
    BY <1>2, <1>7, <1>10, <1>11, <2>1 DEF Mine
<1>14. Own'
  <2>1. \A g \in Of(owned', "child") : g[2] \in Ids
    BY <1>1 DEF Own, Of
  <2> QED
    BY <1>1, <1>2, <1>9, <1>12, <1>13, <2>1, OwnTurns
<1>15. Known'
  <2>1. \A x \in xs \cup {h} : x \in live' => x \in owned' \/ (pc \in Asking /\ h = x)
    BY <1>7
  <2>2. \A x \in xs \cup {h} : x \notin failed'
    BY <1>10
  <2> QED
    BY <1>1, <1>2, <1>9, <2>1, <2>2, KnownTurns
<1>16. Based'
  BY <1>1, <1>2, <1>8, <1>10, BasedTurns
<1>17. Sweeping'
  BY <1>1, <1>2, <1>10, SweepingTurns
<1>18. DependencySafe'
  <2>1. \A g \in live' \ live : Grounded(live', g[1])
    <3>1. Grounded(live', kin)
      BY <1>6, <1>7 DEF Grounded, Of
    <3> QED
      BY <1>2, <1>7, <3>1
  <2> QED
    BY <1>1, <1>8, <2>1, SafeTurns
<1>19. Reported'
  BY <1>1 DEF Reported
<1> QED
  BY <1>14, <1>15, <1>16, <1>17, <1>18, <1>19 DEF Holds

\* The handle a call asked for is there.
LEMMA HoldsGrants ==
    ASSUME Shapes', Shapes, Holds, NEW c \in Calls, call[c].pc \in Asking, NEW kind, NEW pc, NEW h, NEW who,
           Turns(c, kind, pc, h, who), owned' = owned \cup {call[c].h}, UNCHANGED <<live, failed>>,
           pc = "idle" \/ (pc \in Having /\ h = call[c].h /\ Kind(pc) = Kind(call[c].pc) /\ child' = child),
           \A i \in Ids : child'[i].held => child[i].held \/ <<"child", i>> = call[c].h,
           \A d \in Calls : ~At(d, "acquire") /\ ~At(d, "cleanup"), exec.state # "none",
           ~exec.closed, ~exec'.closed, exec'.report = exec.report
    PROVE  Holds'
<1>1. Types /\ Types' /\ Own /\ Known /\ Based /\ Sweeping /\ DependencySafe /\ Reported
  BY DEF Shapes, Holds
<1> DEFINE x == call[c].h
<1>2. /\ x[1] = Kind(call[c].pc) /\ x[2] \in Ids /\ x \in live \ failed /\ x \notin owned
      /\ x[1] = "child" => ~child[x[2]].held
      /\ \A d \in Calls \ {c} : call[d].pc \in Asking \cup Having => call[d].h # x
  BY <1>1 DEF Own, Asking, Having, Transfer
<1>3. Only({x})
  BY DEF Only
<1>4. Clear(c, {x})
  <2> SUFFICES ASSUME NEW d \in Calls \ {c}, call[d].pc \in Asking \cup Having
               PROVE  call[d].h # x /\ (call[d].h[1] = "child" => ~child'[call[d].h[2]].held)
    BY DEF Clear
  <2>1. call[d].h # x
    BY <1>2
  <2>2. ASSUME call[d].h[1] = "child" PROVE ~child'[call[d].h[2]].held
    <3>1. call[d].h[2] \in Ids /\ ~child[call[d].h[2]].held
      BY <1>1, <2>2 DEF Own
    <3>2. call[d].h = <<"child", call[d].h[2]>>
      BY <1>1, <2>2, CallFields, HandlePairs
    <3> QED
      BY <2>1, <3>1, <3>2
  <2> QED
    BY <2>1, <2>2
<1>5. Mine(c, pc, h)
  <2>1. CASE pc = "idle"
    BY <2>1 DEF Mine, Asking, Having, Transfer
  <2>2. CASE pc \in Having /\ h = x /\ Kind(pc) = Kind(call[c].pc) /\ child' = child
    BY <1>2, <2>2 DEF Mine
  <2> QED
    BY <2>1, <2>2
<1>6. Own'
  <2>1. \A i \in Ids : child'[i].held => <<"child", i>> \in owned'
    BY <1>1 DEF Own
  <2>2. \A g \in Of(owned', "child") : g[2] \in Ids
    BY <1>1, <1>2 DEF Own, Of
  <2> QED
    BY <1>1, <1>3, <1>4, <1>5, <2>1, <2>2, OwnTurns
<1>7. Known'
  BY <1>1, <1>2, <1>3, KnownTurns
<1>8. pc \notin {"acquire", "cleanup"}
  BY DEF Having, Transfer
<1>9. Based'
  BY <1>1, <1>8, BasedTurns
<1>10. Sweeping'
  BY <1>1, <1>8, SweepingTurns
<1>11. DependencySafe' /\ Reported'
  BY <1>1, SafeTurns DEF Reported
<1> QED
  BY <1>6, <1>7, <1>9, <1>10, <1>11 DEF Holds

\* A call ends with its handle closed, kept, or never there.
LEMMA HoldsLeaves ==
    ASSUME Shapes', Shapes, Holds, NEW c \in Calls, NEW x \in Handles, Turns(c, "idle", "idle", NoHandle, 0),
           Only({x}), x[1] \in {"xfer", "child", "operation"}, Clear(c, {x}), live' \subseteq live, owned' \subseteq owned,
           call[c].pc \in Asking \cup Having => call[c].h = x,
           x \in live' => x \in owned', x \in failed' => x \in live' /\ x \in owned',
           \A i \in Ids : child'[i].held => <<"child", i>> \in owned',
           exec.closed => \A i \in Ids : child'[i].held => <<"child", i>> \in failed',
           \A d \in Calls : ~At(d, "acquire") /\ ~At(d, "cleanup"), exec.state # "none",
           exec'.closed = exec.closed, exec'.report = exec.report
    PROVE  Holds'
<1>1. Types /\ Types' /\ Own /\ Known /\ Based /\ Sweeping /\ DependencySafe /\ Reported
  BY DEF Shapes, Holds
<1>2. \A g \in live : g[1] \in Basis => g \in live'
  BY <1>1, BasisParents DEF Types, Only
<1>3. "idle" \notin Asking \cup Having
  BY DEF Asking, Having, Transfer
<1>4. Own'
  <2>1. \A g \in Of(owned', "child") : g[2] \in Ids
    BY <1>1 DEF Own, Of
  <2>2. Mine(c, "idle", NoHandle)
    BY <1>3 DEF Mine
  <2> QED
    BY <1>1, <2>1, <2>2, OwnTurns
<1>5. Known'
  BY <1>1, <1>3, KnownTurns
<1>6. Based'
  BY <1>1, <1>2, BasedTurns
<1>7. Sweeping'
  BY <1>1, SweepingTurns
<1>8. DependencySafe'
  BY <1>1, <1>2, SafeTurns
<1>9. Reported'
  BY <1>1 DEF Reported
<1> QED
  BY <1>4, <1>5, <1>6, <1>7, <1>8, <1>9 DEF Holds

\* A call that has begun to set the execution up is alone with it, but for those
\* that wait when the execution runs.
LEMMA SetupAlone ==
    ASSUME Shapes, Admits, NEW c \in Calls, call[c].kind \in Setup, call[c].pc \in Working
    PROVE  /\ Alone(c, call[c].kind)
           /\ call[c].pc # "status" => /\ exec.state \in {"prepared", "initializing"}
                                      /\ \A d \in Calls \ {c} : call[d].kind \in {"idle", "describe"}
<1>1. Types /\ Routed /\ Phases /\ Single /\ ClosesAlone
  BY DEF Shapes, Admits
<1>2. CASE call[c].pc = "status"
  <2>1. call[c].kind = "ignite"
    BY <1>1, <1>2, PartKinds DEF At
  <2> QED
    BY <1>1, <1>2, <2>1 DEF Single, Alone, Idling
<1>3. CASE call[c].pc # "status"
  <2>1. exec.state \in {"prepared", "initializing"}
    <3>1. call[c].pc # "cleanup"
      BY DEF Working, Asking, Having, Transfer
    <3> QED
      BY <1>1, <1>3, <3>1 DEF Phases, Fits, Setup
  <2>2. ASSUME NEW d \in Calls \ {c} PROVE call[d].kind \in {"idle", "describe"}
    <3>1. call[d].kind \notin Later \cup Setup \cup {"prepare"}
      BY <1>1, <2>1 DEF Phases, Fits, Single, Ran
    <3>2. call[d].kind # "close"
      <4>1. ~At(d, "cleanup")
        BY <1>1, WorkingOpen
      <4> SUFFICES ASSUME call[d].kind = "close" PROVE FALSE
        OBVIOUS
      <4>2. call[d].pc \in {"cleanup"}
        BY <1>1 DEF Routed, Parts
      <4> QED
        BY <4>1, <4>2 DEF At
    <3>3. call[d].kind \in CallKinds
      BY <1>1, CallFields
    <3> QED
      BY <3>1, <3>2, <3>3 DEF CallKinds, Later, Setup
  <2> QED
    BY <2>1, <2>2 DEF Alone, Setup
<1> QED
  BY <1>2, <1>3

\* A cleanup keeps the values of the variables.
LEMMA CleansShapes ==
    ASSUME Shapes, NEW c \in Calls, NEW kind \in {"prepare", "preinitialize", "ignite", "close"}, NEW who, NEW kept, NEW healthy,
           Cleans(c, kind, who, kept, healthy), plan' = plan, child' \in [Ids -> Children],
           owned' \subseteq Handles, live' \subseteq Handles, failed' \subseteq Handles
    PROVE  Shapes'
<1>1. Types /\ Routed
  BY DEF Shapes
<1>2. exec' \in Words
  <2>1. CASE Ends(c, kind, kept, healthy)
    BY <1>1, <2>1, EndWords
  <2>2. CASE Proceeds(c, kind, who)
    BY <1>1, <2>2 DEF Proceeds, Types
  <2> QED
    BY <2>1, <2>2 DEF Cleans
<1>3. PICK k \in {kind, "idle"}, pc \in {"cleanup", "idle"}, h \in Handles, w \in {who, 0} :
         Turns(c, k, pc, h, w) /\ (pc = "cleanup" <=> k = kind)
  BY IdleRecord DEF Cleans, Ends, Proceeds
<1>4. pc \in Parts(k)
  BY <1>3 DEF Parts
<1>5. Types'
  BY <1>1, <1>2, <1>3 DEF Types, Turns
<1>6. Routed'
  BY <1>1, <1>3, <1>4, RoutedTurns
<1> QED
  BY <1>5, <1>6 DEF Shapes

\* The cleanup of a call that went wrong: all there was but this handle stays
\* for it.
LEMMA CleansKept ==
    ASSUME IInv, NEW c \in Calls, NEW kind \in {"prepare", "preinitialize", "ignite"}, kind = call[c].kind, NEW who, NEW healthy,
           who = call[c].who, Cleans(c, kind, who, {}, healthy), Alone(c, kind), plan' = plan, child' = child,
           kind = "prepare" => \A d \in Calls \ {c} : call[d].kind = "idle", ~exec.closed,
           NEW xs \in SUBSET Handles, Only(xs), call[c].pc \in Asking => call[c].h \in xs,
           \A x \in xs : x[1] \in {"xfer", "child", "operation"} /\ ~(x[1] = "child" /\ child[x[2]].held),
           live' \subseteq live, owned' \subseteq owned, failed' \subseteq Handles,
           \A x \in xs : x \in live' => x \in owned', \A x \in xs : x \in failed' => x \in live' /\ x \in owned'
    PROVE  IInv'
<1>1. /\ Types /\ Routed /\ Phases /\ Single /\ Flags /\ ClosesAlone
      /\ Own /\ Known /\ Based /\ Sweeping /\ DependencySafe /\ Reported
  BY DEF IInv, Shapes, Admits, Holds
<1>2. Shapes'
  <2>1. child' \in [Ids -> Children] /\ owned' \subseteq Handles /\ live' \subseteq Handles
    BY <1>1 DEF Types
  <2> QED
    BY <2>1, CleansShapes DEF IInv
<1>3. Of(owned', "operation") \subseteq Of(owned, "operation")
  BY DEF Of
<1>4. Admits'
  BY <1>1, <1>3, CleansAdmits DEF Admits
<1>5. \A i \in Ids : child'[i].held => <<"child", i>> \in owned'
  <2> SUFFICES ASSUME NEW i \in Ids, child[i].held PROVE <<"child", i>> \in owned'
    OBVIOUS
  <2>1. <<"child", i>> \in owned /\ <<"child", i>> \notin xs /\ <<"child", i>> \in Handles
    BY <1>1 DEF Own, Types
  <2> QED
    BY <2>1 DEF Only
<1>6. \A g \in Of(owned', "child") : g[2] \in Ids
  BY <1>1 DEF Own, Of
<1>7. Own' /\ Known' /\ Based' /\ Sweeping' /\ Reported'
  BY <1>1, <1>2, <1>5, <1>6, CleansHolds DEF Shapes
<1>8. \A g \in live : g[1] \in Basis => g \in live'
  BY <1>1, BasisParents DEF Types, Only
<1>9. DependencySafe'
  BY <1>1, <1>2, <1>8, SafeTurns DEF Shapes
<1> QED
  BY <1>2, <1>4, <1>7, <1>9 DEF IInv, Holds

\* How the handle of a call that cannot go on is left.
Left(x, pc) ==
    \/ pc \in Asking /\ owned' = owned /\ live' = live \ {x} /\ failed' = failed
    \/ pc \in Having /\ owned' = owned \ {x} /\ live' = live \ {x} /\ failed' = failed
    \/ pc \in Having /\ UNCHANGED <<owned, live>> /\ Remains(x)
    \/ pc \in Having /\ UNCHANGED <<owned, live, failed>>

\* A handle that is left so concerns no other call and is not lost.
LEMMA LeftFacts ==
    ASSUME Types, Own, Known, NEW c \in Calls, call[c].pc \in Asking \cup Having, NEW x, x = call[c].h, Left(x, call[c].pc)
    PROVE  /\ Only({x}) /\ x \in Handles /\ x[1] \in {"xfer", "child", "operation"}
           /\ ~(x[1] = "child" /\ child[x[2]].held)
           /\ live' \subseteq live /\ owned' \subseteq owned /\ failed' \subseteq Handles
           /\ x \in live' => x \in owned'
           /\ x \in failed' => x \in live' /\ x \in owned'
           /\ \A i \in Ids : child[i].held => <<"child", i>> \in owned'
<1>1. /\ x \in Handles /\ x[1] = Kind(call[c].pc) /\ x \in live \ failed /\ (x \in owned <=> call[c].pc \in Having)
      /\ ~(x[1] = "child" /\ child[x[2]].held)
  BY CallFields DEF Own
<1>2. x[1] \in {"xfer", "child", "operation"}
  BY <1>1, BasisParents, CallFields, PcsAre DEF Asking, Having, Transfer
<1>3. Only({x}) /\ live' \subseteq live /\ owned' \subseteq owned
  BY DEF Left, Remains, Only
<1>4. failed' \subseteq Handles
  BY <1>1 DEF Left, Remains, Types
<1>5. (x \in live' => x \in owned') /\ (x \in failed' => x \in live' /\ x \in owned')
  BY <1>1 DEF Left, Remains
<1>6. ASSUME NEW i \in Ids, child[i].held PROVE <<"child", i>> \in owned'
  <2>1. <<"child", i>> \in owned /\ <<"child", i>> # x /\ <<"child", i>> \in Handles
    BY <1>1, <1>6 DEF Own, Types
  <2> QED
    BY <1>3, <2>1 DEF Only
<1> QED
  BY <1>1, <1>2, <1>3, <1>4, <1>5, <1>6

\* A call has to do with a handle that no other call has to do with.
LEMMA OwnClear ==
    ASSUME Types, Own, NEW c \in Calls, call[c].pc \in Asking \cup Having, \A i \in Ids : child'[i].held => child[i].held
    PROVE  Clear(c, {call[c].h})
BY DEF Clear, Own

\* A call returns and the execution stands where it stood.
LEMMA AdmitsReturn ==
    ASSUME Shapes, Admits, NEW c \in Calls, Turns(c, "idle", "idle", NoHandle, 0), Flags',
           exec.state # "none", exec'.state = exec.state, exec'.closed = exec.closed, exec'.cold = exec.cold,
           \A i \in Ids : child'[i].held => exec.state \in Ran, Of(owned', "operation") # {} => exec.state \in Ran
    PROVE  Admits'
<1>1. Types /\ Phases /\ Single /\ ClosesAlone
  BY DEF Shapes, Admits
<1>2. Fits("idle", "idle", exec')
  BY DEF Fits, Later
<1>3. \A d \in Calls \ {c} : call[d].kind # "prepare"
  BY <1>1 DEF Phases, Fits
<1>4. \A d \in Calls : Fits(call[d].kind, call[d].pc, exec')
  BY <1>1, FitsSteady
<1>5. Phases'
  <2>1. (exec'.closed => exec'.state \in {"completed", "closed"}) /\ (exec'.state = "closed" => exec'.closed)
    BY <1>1 DEF Phases
  <2> QED
    BY <1>1, <1>2, <1>3, <1>4, <2>1, PhasesTurns
<1>6. Single'
  BY <1>1, JoinsStays, SingleTurns
<1>7. ClosesAlone'
  BY <1>1, BesideStays, AloneTurns
<1> QED
  BY <1>5, <1>6, <1>7 DEF Admits

\* A call that returns keeps the values of the variables.
LEMMA ReturnShapes ==
    ASSUME Shapes, NEW c \in Calls, Turns(c, "idle", "idle", NoHandle, 0), plan' = plan, exec' \in Words,
           child' \in [Ids -> Children], owned' \subseteq Handles, live' \subseteq Handles, failed' \subseteq Handles
    PROVE  Shapes'
<1>1. "idle" \in Parts("idle")
  BY DEF Parts
<1>2. Types'
  BY DEF Shapes, Types, Turns
<1> QED
  BY <1>1, <1>2, RoutedTurns DEF Shapes

\* A call returns with its handle as it was left.
LEMMA ReturnKept ==
    ASSUME IInv, NEW c \in Calls, call[c].pc \in Asking \cup Having, NEW x, x = call[c].h, Left(x, call[c].pc),
           Turns(c, "idle", "idle", NoHandle, 0), plan' = plan, exec' \in Words, child' \in [Ids -> Children],
           exec'.state = exec.state, exec'.closed = exec.closed, exec'.cold = exec.cold, exec'.report = exec.report,
           \A i \in Ids : child'[i].held => child[i].held, Flags'
    PROVE  IInv'
<1>1. /\ Types /\ Routed /\ Phases /\ Single /\ Flags /\ ClosesAlone /\ Shapes /\ Admits /\ Holds
      /\ Own /\ Known /\ Based /\ Sweeping /\ DependencySafe /\ Reported
  BY DEF IInv, Shapes, Admits, Holds
<1>2. call[c].pc \in Working
  BY DEF Working
<1>3. /\ ~exec.closed /\ exec.state # "none" /\ \A d \in Calls : ~At(d, "cleanup") /\ ~At(d, "acquire")
  BY <1>1, <1>2, WorkingOpen
<1>4. /\ Only({x}) /\ x \in Handles /\ x[1] \in {"xfer", "child", "operation"}
      /\ live' \subseteq live /\ owned' \subseteq owned /\ failed' \subseteq Handles
      /\ x \in live' => x \in owned'
      /\ x \in failed' => x \in live' /\ x \in owned'
      /\ \A i \in Ids : child[i].held => <<"child", i>> \in owned'
  BY <1>1, LeftFacts
<1>5. Shapes'
  <2>1. owned' \subseteq Handles /\ live' \subseteq Handles
    BY <1>1, <1>4 DEF Types
  <2> QED
    BY <1>1, <1>4, <2>1, ReturnShapes
<1>6. Admits'
  <2>1. (\A i \in Ids : child'[i].held => exec.state \in Ran) /\ (Of(owned', "operation") # {} => exec.state \in Ran)
    BY <1>1, <1>4 DEF Phases, Of
  <2> QED
    BY <1>1, <1>3, <2>1, AdmitsReturn
<1>7. Clear(c, {x})
  BY <1>1, OwnClear
<1>8. Holds'
  BY <1>1, <1>3, <1>4, <1>5, <1>7, HoldsLeaves
<1> QED
  BY <1>5, <1>6, <1>8 DEF IInv

\* A call that cannot go on leaves the invariant as it is, whatever became of
\* its handle.
LEMMA AbandonKept ==
    ASSUME IInv, NEW c \in Calls, call[c].pc \in Asking \cup Having, NEW x, x = call[c].h, Left(x, call[c].pc),
           Abandons(c), plan' = plan
    PROVE  IInv'
<1>1. /\ Types /\ Routed /\ Phases /\ Single /\ Flags /\ ClosesAlone /\ Shapes /\ Admits /\ Holds
      /\ Own /\ Known /\ Based /\ Sweeping /\ DependencySafe /\ Reported
  BY DEF IInv, Shapes, Admits, Holds
<1>2. call[c].pc \in Working
  BY DEF Working
<1>3. ~exec.closed
  BY <1>1, <1>2, WorkingOpen
<1>4. exec \in Words /\ child \in [Ids -> Children] /\ exec.deliveries \in Int
  BY <1>1 DEF Types, Words
<1>5. CASE call[c].kind = "ignite" /\ Cleans(c, "ignite", call[c].who, {}, TRUE) /\ UNCHANGED child
  <2>1. Alone(c, "ignite")
    BY <1>1, <1>2, <1>5, SetupAlone DEF Setup
  <2>2. /\ Only({x}) /\ x \in Handles /\ x[1] \in {"xfer", "child", "operation"}
        /\ ~(x[1] = "child" /\ child[x[2]].held)
        /\ live' \subseteq live /\ owned' \subseteq owned /\ failed' \subseteq Handles
        /\ x \in live' => x \in owned'
        /\ x \in failed' => x \in live' /\ x \in owned'
    BY <1>1, LeftFacts
  <2>3. {x} \in SUBSET Handles /\ \A y \in {x} : y = x
    BY <2>2
  <2> QED
    BY <1>3, <1>5, <2>1, <2>2, <2>3, CleansKept
<1>6. CASE /\ call[c].kind = "external" /\ exec' = [exec EXCEPT !.submitting = FALSE]
           /\ Turns(c, "idle", "idle", NoHandle, 0) /\ UNCHANGED child
  <2>1. /\ exec' \in Words /\ exec'.state = exec.state /\ exec'.closed = exec.closed /\ exec'.cold = exec.cold
        /\ exec'.report = exec.report /\ exec'.submitting = FALSE /\ exec'.describing = exec.describing
        /\ exec'.deliveries = exec.deliveries
    BY <1>4, <1>6 DEF Words
  <2>2. Flags'
    <3>1. ~Others(c, "external")
      BY <1>1, <1>6 DEF Others, Single
    <3>2. exec'.describing <=> "idle" = "describe" \/ Others(c, "describe")
      BY <1>1, <1>6, <2>1 DEF Flags, Others
    <3>3. exec'.cold => \E d \in Calls \ {c} : call[d].kind \in Setup
      BY <1>1, <1>6, <2>1 DEF Flags, Setup
    <3>4. \A i \in Ids : child'[i].busy <=> \E d \in Calls \ {c} : call[d].kind = "childDeliver" /\ call[d].who = i
      BY <1>1, <1>6 DEF Flags
    <3>5. \A d \in Calls \ {c} : call[d].kind \in {"childDeliver", "childClose"} => child'[call[d].who].held
      BY <1>1, <1>6 DEF Flags
    <3>6. exec'.deliveries = exec.deliveries + 0 - 0 /\ exec'.deliveries <= MaxTransfers
      BY <1>1, <1>4, <2>1 DEF Flags
    <3> QED
      BY <1>1, <1>6, <2>1, <3>1, <3>2, <3>3, <3>4, <3>5, <3>6, FlagsTurns
  <2> QED
    BY <1>4, <1>6, <2>1, <2>2, ReturnKept
<1>7. CASE /\ call[c].kind = "deliver" /\ exec' = [exec EXCEPT !.deliveries = @ - 1]
           /\ Turns(c, "idle", "idle", NoHandle, 0) /\ UNCHANGED child
  <2>0. ASSUME NEW n \in Int, exec' = [exec EXCEPT !.deliveries = n]
        PROVE  /\ exec' \in Words /\ exec'.state = exec.state /\ exec'.closed = exec.closed /\ exec'.cold = exec.cold
               /\ exec'.report = exec.report /\ exec'.submitting = exec.submitting /\ exec'.describing = exec.describing
               /\ exec'.deliveries = n
    BY <1>4, <2>0 DEF Words
  <2>9. exec.deliveries - 1 \in Int /\ exec' = [exec EXCEPT !.deliveries = exec.deliveries - 1]
    BY <1>4, <1>7
  <2>1. /\ exec' \in Words /\ exec'.state = exec.state /\ exec'.closed = exec.closed /\ exec'.cold = exec.cold
        /\ exec'.report = exec.report /\ exec'.submitting = exec.submitting /\ exec'.describing = exec.describing
        /\ exec'.deliveries = exec.deliveries - 1
    BY <2>0, <2>9
  <2>2. Flags'
    <3>1. exec'.submitting <=> "idle" = "external" \/ Others(c, "external")
      BY <1>1, <1>7, <2>1 DEF Flags, Others
    <3>2. exec'.describing <=> "idle" = "describe" \/ Others(c, "describe")
      BY <1>1, <1>7, <2>1 DEF Flags, Others
    <3>3. exec'.cold => \E d \in Calls \ {c} : call[d].kind \in Setup
      BY <1>1, <1>7, <2>1 DEF Flags, Setup
    <3>4. \A i \in Ids : child'[i].busy <=> \E d \in Calls \ {c} : call[d].kind = "childDeliver" /\ call[d].who = i
      BY <1>1, <1>7 DEF Flags
    <3>5. \A d \in Calls \ {c} : call[d].kind \in {"childDeliver", "childClose"} => child'[call[d].who].held
      BY <1>1, <1>7 DEF Flags
    <3>6. exec'.deliveries = exec.deliveries + 0 - 1 /\ exec'.deliveries <= MaxTransfers
      BY <1>1, <1>4, <2>1, Constants DEF Flags
    <3> QED
      BY <1>1, <1>7, <2>1, <3>1, <3>2, <3>3, <3>4, <3>5, <3>6, FlagsTurns
  <2> QED
    BY <1>4, <1>7, <2>1, <2>2, ReturnKept
<1>8. CASE /\ call[c].kind = "childDeliver" /\ child' = [child EXCEPT ![call[c].who].busy = FALSE]
           /\ Turns(c, "idle", "idle", NoHandle, 0) /\ UNCHANGED exec
  <2> DEFINE w == call[c].who
  <2>1. /\ child' \in [Ids -> Children]
        /\ \A i \in Ids : /\ child'[i].held = child[i].held
                          /\ child'[i].busy = (IF i = w THEN FALSE ELSE child[i].busy)
    BY <1>4, <1>8 DEF Children
  <2>2. Flags'
    <3>1. exec'.submitting <=> "idle" = "external" \/ Others(c, "external")
      BY <1>1, <1>8 DEF Flags, Others
    <3>2. exec'.describing <=> "idle" = "describe" \/ Others(c, "describe")
      BY <1>1, <1>8 DEF Flags, Others
    <3>3. exec'.cold => \E d \in Calls \ {c} : call[d].kind \in Setup
      BY <1>1, <1>8 DEF Flags, Setup
    <3>4. \A i \in Ids : child'[i].busy <=> \E d \in Calls \ {c} : call[d].kind = "childDeliver" /\ call[d].who = i
      <4> SUFFICES ASSUME NEW i \in Ids
                   PROVE  child'[i].busy <=> \E d \in Calls \ {c} : call[d].kind = "childDeliver" /\ call[d].who = i
        OBVIOUS
      <4>1. CASE i = w
        <5>1. \A d \in Calls \ {c} : ~(call[d].kind = "childDeliver" /\ call[d].who = w)
          BY <1>1, <1>8 DEF Single
        <5> QED
          BY <2>1, <4>1, <5>1
      <4>2. CASE i # w
        BY ZenonT(60), <1>1, <2>1, <4>2 DEF Flags
      <4> QED
        BY <4>1, <4>2
    <3>5. \A d \in Calls \ {c} : call[d].kind \in {"childDeliver", "childClose"} => child'[call[d].who].held
      BY <1>1, <2>1 DEF Flags
    <3>6. exec'.deliveries = exec.deliveries + 0 - 0 /\ exec'.deliveries <= MaxTransfers
      BY <1>1, <1>4, <1>8 DEF Flags
    <3> QED
      BY <1>1, <1>8, <3>1, <3>2, <3>3, <3>4, <3>5, <3>6, FlagsTurns
  <2> QED
    BY <1>4, <1>8, <2>1, <2>2, ReturnKept
<1> QED
  BY <1>5, <1>6, <1>7, <1>8 DEF Abandons

\* A call goes on and the execution stands where it stood.
LEMMA AdmitsStays ==
    ASSUME Shapes, Admits, NEW c \in Calls, call[c].pc \in Asking \cup Having, NEW kind, NEW pc \in Asking \cup Having, NEW h, NEW who,
           Turns(c, kind, pc, h, who), kind = call[c].kind, who = call[c].who \/ kind = "ignite",
           exec' = exec, child' = child, Of(owned', "operation") # {} => exec.state \in Ran,
           call[c].pc # "status", pc # "status"
    PROVE  Admits'
<1>1. Types /\ Routed /\ Phases /\ Single /\ Flags /\ ClosesAlone
  BY DEF Shapes, Admits
<1>2. call[c].pc \in Working
  BY DEF Working
<1>3. /\ ~exec.closed /\ exec.state # "none" /\ \A d \in Calls : ~At(d, "cleanup") /\ ~At(d, "acquire")
      /\ kind \in {"ignite", "external", "deliver", "childDeliver"}
  BY <1>1, <1>2, WorkingOpen
<1>4. pc \notin {"validate", "write", "cleanup"} /\ call[c].pc # "cleanup"
  BY DEF Asking, Having, Transfer
<1>5. Fits(kind, pc, exec')
  BY <1>1, <1>3, <1>4 DEF Phases, Fits
<1>6. \A d \in Calls \ {c} : call[d].kind # "prepare"
  BY <1>1, <1>3 DEF Phases, Fits
<1>7. \A d \in Calls : Fits(call[d].kind, call[d].pc, exec')
  BY <1>1 DEF Phases
<1>8. Phases'
  <2>1. /\ exec'.closed => exec'.state \in {"completed", "closed"}
        /\ exec'.state = "closed" => exec'.closed
        /\ \A i \in Ids : child'[i].held => exec'.state \in Ran
    BY <1>1 DEF Phases
  <2> QED
    BY <1>1, <1>3, <1>5, <1>6, <1>7, <2>1, PhasesTurns
<1>9. Single'
  BY <1>1, JoinsStays, SingleTurns
<1>10. Flags'
  BY <1>1, FlagsStay
<1>11. ClosesAlone'
  BY <1>1, <1>4, BesideStays, AloneTurns
<1> QED
  BY <1>8, <1>9, <1>10, <1>11 DEF Admits

\* A call that sets the execution up begins, goes on or returns.
LEMMA AdmitsSetup ==
    ASSUME Shapes, Admits, NEW c \in Calls, call[c].kind \in Setup \cup {"idle"},
           \A d \in Calls \ {c} : call[d].kind \in {"idle", "describe"}, exec.state \in {"prepared", "initializing"},
           NEW kind \in Setup \cup {"idle"}, NEW pc, NEW h, NEW who, Turns(c, kind, pc, h, who), pc # "cleanup",
           exec'.state \notin {"none", "closed"}, ~exec'.closed, Fits(kind, pc, exec'), exec'.cold => kind \in Setup,
           exec'.submitting = exec.submitting, exec'.describing = exec.describing, exec'.deliveries = exec.deliveries,
           child' = child, Of(owned', "operation") # {} => exec'.state \in Ran
    PROVE  Admits'
<1>1. Types /\ Routed /\ Phases /\ Single /\ Flags /\ ClosesAlone
  BY DEF Shapes, Admits
<1>3. \A i \in Ids : ~child[i].held
  BY <1>1 DEF Phases, Fits, Setup, Ran
<1>4. Phases'
  <2>1. \A d \in Calls \ {c} : Fits(call[d].kind, call[d].pc, exec')
    BY DEF Fits, Later
  <2>2. kind # "prepare"
    BY DEF Setup
  <2> QED
    BY <1>1, <1>3, <2>1, <2>2, PhasesTurns
<1>5. Single'
  <2>1. Joins(c, kind, who)
    BY DEF Joins, Setup, Idling
  <2> QED
    BY <1>1, <2>1, SingleTurns
<1>6. Flags'
  <2>1. kind \in Plain /\ call[c].kind \in Plain /\ kind # "childClose"
    BY DEF Plain, Setup
  <2> QED
    BY <1>1, <2>1, FlagsPlain
<1>7. ClosesAlone'
  <2>1. \A d \in Calls \ {c} : ~At(d, "cleanup")
    BY <1>1, PartKinds
  <2> QED
    BY <1>1, <2>1, BesideStays, AloneTurns
<1> QED
  BY <1>4, <1>5, <1>6, <1>7 DEF Admits

\* A call that goes on keeps them.
LEMMA TurnsShapes ==
    ASSUME Shapes, NEW c \in Calls, NEW kind, NEW pc, NEW h, NEW who, Turns(c, kind, pc, h, who), pc \in Parts(kind),
           plan' = plan, exec' \in Words,
           child' \in [Ids -> Children], owned' \subseteq Handles, live' \subseteq Handles, failed' \subseteq Handles
    PROVE  Shapes'
<1>1. Types'
  BY DEF Shapes, Types, Turns
<1> QED
  BY <1>1, RoutedTurns DEF Shapes

\* The validation of the storage keeps the invariant.
LEMMA ValidateKept ==
    ASSUME IInv, NEW c \in Calls, Validate(c)
    PROVE  IInv'
<1>1. /\ Types /\ Routed /\ Phases /\ Single /\ Flags /\ ClosesAlone /\ Shapes /\ Admits /\ Holds
  BY DEF IInv, Shapes, Admits
<1>2. /\ At(c, "validate") /\ Rest
      /\ \/ Stands(c, "write") /\ UNCHANGED exec
         \/ Idles(c) /\ exec' = [exec EXCEPT !.cold = FALSE]
  BY <1>1, ValidateWords
<1>3. /\ call[c].kind \in Setup /\ call[c].pc \in Working /\ call[c].pc \notin Asking \cup Having /\ call[c].pc # "cleanup"
  BY <1>1, <1>2, PartKinds DEF Working, At, Asking, Having, Transfer
<1>4. /\ ~exec.closed /\ exec.state # "none" /\ \A d \in Calls : ~At(d, "cleanup") /\ ~At(d, "acquire")
  BY <1>1, <1>3, WorkingOpen
<1>5. /\ exec.state \in {"prepared", "initializing"} /\ Fits(call[c].kind, call[c].pc, exec)
      /\ \A d \in Calls \ {c} : call[d].kind \in {"idle", "describe"}
  BY <1>1, <1>2, <1>3, SetupAlone DEF Phases, At
<1>6. Of(owned, "operation") = {}
  BY <1>1, <1>5 DEF Phases, Ran
<1>7. child' = child /\ UNCHANGED <<owned, live, failed>> /\ plan' = plan
  BY <1>2 DEF Rest
<1>8. /\ exec \in Words /\ child' \in [Ids -> Children] /\ owned' \subseteq Handles /\ live' \subseteq Handles
      /\ failed' \subseteq Handles
  BY <1>1, <1>7 DEF Types
<1>9. CASE Stands(c, "write") /\ UNCHANGED exec
  <2>1. Turns(c, call[c].kind, "write", call[c].h, call[c].who)
    BY <1>9 DEF Stands
  <2>2. "write" \in Parts(call[c].kind)
    BY <1>3 DEF Parts, Setup
  <2>3. Fits(call[c].kind, "write", exec)
    BY <1>2, <1>5 DEF Fits, At
  <2>4. Shapes'
    BY <1>1, <1>7, <1>8, <1>9, <2>1, <2>2, TurnsShapes
  <2>5. Admits'
    BY <1>1, <1>3, <1>4, <1>5, <1>6, <1>7, <1>9, <2>1, <2>3, AdmitsSetup
  <2>6. "write" \notin Asking \cup Having
    BY DEF Asking, Having, Transfer
  <2>7. Holds'
    BY <1>1, <1>3, <1>4, <1>7, <1>9, <2>1, <2>4, <2>6, HoldsSteady
  <2> QED
    BY <2>4, <2>5, <2>7 DEF IInv
<1>10. CASE Idles(c) /\ exec' = [exec EXCEPT !.cold = FALSE]
  <2>1. Turns(c, "idle", "idle", NoHandle, 0)
    BY <1>10 DEF Idles
  <2>2. /\ exec' \in Words /\ exec'.state = exec.state /\ exec'.closed = exec.closed /\ exec'.cold = FALSE
        /\ exec'.submitting = exec.submitting /\ exec'.describing = exec.describing
        /\ exec'.deliveries = exec.deliveries /\ exec'.report = exec.report
    BY <1>8, <1>10 DEF Words
  <2>3. Fits("idle", "idle", exec')
    BY DEF Fits, Later
  <2>4. Shapes'
    BY <1>1, <1>7, <1>8, <2>1, <2>2, ReturnShapes
  <2>5. Admits'
    BY <1>1, <1>3, <1>4, <1>5, <1>6, <1>7, <2>1, <2>2, <2>3, AdmitsSetup
  <2>6. "idle" \notin Asking \cup Having
    BY DEF Asking, Having, Transfer
  <2>7. Holds'
    BY <1>1, <1>3, <1>4, <1>7, <2>1, <2>2, <2>4, <2>6, HoldsSteady
  <2> QED
    BY <2>4, <2>5, <2>7 DEF IInv
<1> QED
  BY <1>2, <1>9, <1>10

\* Writing the storage keeps the invariant, the rollback of a failure included.
LEMMA WriteKept ==
    ASSUME IInv, NEW c \in Calls, Write(c)
    PROVE  IInv'
<1>1. /\ Types /\ Routed /\ Phases /\ Single /\ Flags /\ ClosesAlone /\ Shapes /\ Admits /\ Holds /\ Own /\ Known
  BY DEF IInv, Shapes, Admits, Holds
<1>2. /\ At(c, "write") /\ Rest
      /\ \/ /\ exec' = [exec EXCEPT !.stored = TRUE, !.cold = FALSE]
            /\ IF call[c].kind = "ignite" THEN Stands(c, "launch") ELSE Idles(c)
         \/ Cleans(c, call[c].kind, call[c].who, {}, TRUE)
  BY <1>1, WriteWords
<1>3. /\ call[c].kind \in Setup /\ call[c].pc \in Working /\ call[c].pc \notin Asking \cup Having /\ call[c].pc # "cleanup"
  BY <1>1, <1>2, PartKinds DEF Working, At, Asking, Having, Transfer
<1>4. /\ ~exec.closed /\ exec.state # "none" /\ \A d \in Calls : ~At(d, "cleanup") /\ ~At(d, "acquire")
  BY <1>1, <1>3, WorkingOpen
<1>5. /\ exec.state \in {"prepared", "initializing"} /\ Fits(call[c].kind, call[c].pc, exec)
      /\ \A d \in Calls \ {c} : call[d].kind \in {"idle", "describe"}
  BY <1>1, <1>2, <1>3, SetupAlone DEF Phases, At
<1>6. Of(owned, "operation") = {}
  BY <1>1, <1>5 DEF Phases, Ran
<1>7. child' = child /\ UNCHANGED <<owned, live, failed>> /\ plan' = plan
  BY <1>2 DEF Rest
<1>8. /\ exec \in Words /\ child' \in [Ids -> Children] /\ owned' \subseteq Handles /\ live' \subseteq Handles
      /\ failed' \subseteq Handles
  BY <1>1, <1>7 DEF Types
<1>9. CASE /\ exec' = [exec EXCEPT !.stored = TRUE, !.cold = FALSE]
           /\ IF call[c].kind = "ignite" THEN Stands(c, "launch") ELSE Idles(c)
  <2>1. PICK kind \in {call[c].kind, "idle"}, pc \in {"launch", "idle"}, h \in Handles, who \in Ids \cup {0} :
          Turns(c, kind, pc, h, who) /\ (pc = "launch" => kind = "ignite") /\ (pc = "idle" <=> kind = "idle")
    BY <1>1, <1>3, <1>9, CallFields, IdleRecord DEF Stands, Idles, Setup
  <2>8. kind \in Setup \cup {"idle"} /\ pc # "cleanup"
    BY <1>3, <2>1
  <2>2. /\ exec' \in Words /\ exec'.state = exec.state /\ exec'.closed = exec.closed /\ exec'.cold = FALSE
        /\ exec'.submitting = exec.submitting /\ exec'.describing = exec.describing
        /\ exec'.deliveries = exec.deliveries /\ exec'.report = exec.report
    BY <1>8, <1>9 DEF Words
  <2>3. Fits(kind, pc, exec')
    BY <1>5, <2>1, <2>2 DEF Fits, Later
  <2>4. Shapes'
    <3>1. pc \in Parts(kind)
      BY <2>1 DEF Parts
    <3> QED
      BY <1>1, <1>7, <1>8, <2>1, <2>2, <3>1, TurnsShapes
  <2>5. Admits'
    BY <1>1, <1>3, <1>4, <1>5, <1>6, <1>7, <2>1, <2>2, <2>3, <2>8, AdmitsSetup
  <2>6. pc \notin Asking \cup Having /\ pc # "cleanup" /\ pc # "acquire"
    BY <2>1 DEF Asking, Having, Transfer
  <2>7. Holds'
    BY <1>1, <1>3, <1>4, <1>7, <2>1, <2>2, <2>4, <2>6, HoldsSteady
  <2> QED
    BY <2>4, <2>5, <2>7 DEF IInv
<1>10. CASE Cleans(c, call[c].kind, call[c].who, {}, TRUE)
  <2>1. Alone(c, call[c].kind)
    BY <1>1, <1>3, SetupAlone
  <2>2. PICK kind \in {"prepare", "preinitialize", "ignite"} : kind = call[c].kind /\ kind # "prepare"
    BY <1>3 DEF Setup
  <2>3. Only({}) /\ {} \in SUBSET Handles /\ \A x \in {} : FALSE
    BY <1>7 DEF Only
  <2>4. /\ Cleans(c, kind, call[c].who, {}, TRUE) /\ Alone(c, kind) /\ call[c].pc \notin Asking
        /\ live' \subseteq live /\ owned' \subseteq owned
    BY <1>3, <1>7, <1>10, <2>1, <2>2
  <2> QED
    BY <1>4, <1>7, <1>8, <2>2, <2>3, <2>4, CleansKept
<1> QED
  BY <1>2, <1>9, <1>10

\* The client that begins to set the execution up is alone with it.
LEMMA SetupStarts ==
    ASSUME Shapes, Admits, Overlap = FALSE, NEW c \in Calls, NEW kind \in Setup, Admit(c, kind),
           exec.state = "prepared", ~exec.cold
    PROVE  /\ \A d \in Calls \ {c} : call[d].kind \in {"idle", "describe"}
           /\ \A d \in Calls : ~At(d, "cleanup") /\ ~At(d, "acquire")
<1>1. Types /\ Routed /\ Phases
  BY DEF Shapes, Admits
<1>2. \A d \in Calls : call[d].kind \notin Closing /\ call[d].kind # "ignite"
  BY DEF Admit, Polite, Setup, Patient
<1>3. \A d \in Calls : call[d].kind \notin {"prepare", "preinitialize"} \cup Later
  BY <1>1 DEF Phases, Fits, Ran
<1>4. ASSUME NEW d \in Calls PROVE call[d].kind \in {"idle", "describe"}
  <2>1. call[d].kind \in CallKinds
    BY <1>1, CallFields
  <2> QED
    BY <1>2, <1>3, <2>1 DEF CallKinds, Later, Closing
<1>5. \A d \in Calls : ~At(d, "cleanup") /\ ~At(d, "acquire")
  BY <1>1, <1>4, PartKinds
<1> QED
  BY <1>4, <1>5

\* An ignition that launches keeps the invariant, storage being ready before
\* or with it.
LEMMA LaunchesKept ==
    ASSUME IInv, NEW c \in Calls, NEW who, call[c].kind \in {"ignite", "idle"}, call[c].pc \notin Asking \cup Having,
           \A d \in Calls \ {c} : call[d].kind \in {"idle", "describe"}, exec.state \in {"prepared", "initializing"},
           \A d \in Calls : ~At(d, "cleanup") /\ ~At(d, "acquire"), ~exec.closed,
           UNCHANGED <<plan, child, failed>>, Launches(c, who)
    PROVE  IInv'
<1>1. /\ Types /\ Routed /\ Phases /\ Shapes /\ Admits /\ Holds /\ Own /\ Known
  BY DEF IInv, Shapes, Admits, Holds
<1>2. /\ exec' = [exec EXCEPT !.state = "initializing", !.cold = plan.cold] /\ owned' = owned
      /\ \E pc \in {"stage", "initialize", "submit"} : AsksFor(c, "ignite", pc, who, live)
  BY DEF Launches
<1>3. PICK pc \in {"stage", "initialize", "submit"} : AsksFor(c, "ignite", pc, who, live)
  BY <1>2
<1>4. PICK h \in Handles : Turns(c, "ignite", pc, h, who) /\ live' \subseteq live \cup {h}
  BY <1>3 DEF AsksFor
<1>5. plan.cold \in BOOLEAN /\ exec \in Words /\ "initializing" \in States
  BY <1>1 DEF Types, States
<1>6. /\ exec' \in Words /\ exec'.state = "initializing" /\ exec'.closed = exec.closed /\ exec'.cold = plan.cold
      /\ exec'.submitting = exec.submitting /\ exec'.describing = exec.describing
      /\ exec'.deliveries = exec.deliveries /\ exec'.report = exec.report
  BY <1>2, <1>5 DEF Words
<1>7. pc \in Asking /\ pc \in Parts("ignite") /\ pc \notin {"cleanup", "validate", "write"}
  BY DEF Asking, Parts
<1>8. Shapes'
  <2>1. /\ plan' = plan /\ child' \in [Ids -> Children] /\ owned' \subseteq Handles /\ live' \subseteq Handles
        /\ failed' \subseteq Handles
    BY <1>1, <1>2, <1>4 DEF Types
  <2> QED
    BY <1>1, <1>4, <1>6, <1>7, <2>1, TurnsShapes
<1>9. Admits'
  <2>1. Fits("ignite", pc, exec')
    BY <1>6, <1>7 DEF Fits, Later
  <2>2. Of(owned', "operation") = {}
    BY <1>1, <1>2 DEF Phases, Ran
  <2>3. "ignite" \in Setup /\ child' = child
    BY DEF Setup
  <2> QED
    BY <1>1, <1>4, <1>6, <1>7, <2>1, <2>2, <2>3, AdmitsSetup DEF Setup
<1>10. Holds'
  <2>1. live \ {} = live /\ {} \in SUBSET Handles /\ failed \cap {} = {} /\ \A x \in {} : FALSE
    OBVIOUS
  <2>2. AsksFor(c, "ignite", pc, who, live \ {})
    BY <1>3, <2>1
  <2>3. Clear(c, {})
    BY <1>1 DEF Clear, Own
  <2>4. \A i \in Ids : child[i].held => <<"child", i>> \in owned'
    BY <1>1, <1>2 DEF Own
  <2> QED
    BY <1>1, <1>2, <1>6, <1>7, <1>8, <2>1, <2>2, <2>3, <2>4, HoldsAsks
<1> QED
  BY <1>8, <1>9, <1>10 DEF IInv

\* The launch after the storage was written keeps the invariant.
LEMMA LaunchKept ==
    ASSUME IInv, NEW c \in Calls, Launch(c)
    PROVE  IInv'
<1>1. /\ Types /\ Routed /\ Phases /\ ClosesAlone /\ Shapes /\ Admits
  BY DEF IInv, Shapes, Admits
<1>2. At(c, "launch")
  BY DEF Launch
<1>3. /\ call[c].kind = "ignite" /\ call[c].pc \in Working /\ call[c].pc \notin Asking \cup Having
  BY <1>1, <1>2, PartKinds DEF Working, At, Asking, Having, Transfer
<1>4. /\ ~exec.closed /\ exec.state # "none" /\ \A d \in Calls : ~At(d, "cleanup") /\ ~At(d, "acquire")
  BY <1>1, <1>3, WorkingOpen
<1>5. /\ exec.state \in {"prepared", "initializing"} /\ \A d \in Calls \ {c} : call[d].kind \in {"idle", "describe"}
  BY <1>1, <1>2, <1>3, SetupAlone DEF Setup, At
<1>6. UNCHANGED <<plan, child, failed>> /\ Launches(c, call[c].who)
  BY <1>1, <1>3, <1>4, LaunchWords
<1> QED
  BY <1>3, <1>4, <1>5, <1>6, LaunchesKept

\* An ignition keeps the invariant.
LEMMA IgniteKept ==
    ASSUME IInv, Overlap = FALSE, NEW c \in Calls, Ignite(c)
    PROVE  IInv'
<1>1. /\ Types /\ Routed /\ Phases /\ ClosesAlone /\ Shapes /\ Admits /\ Holds
  BY DEF IInv, Shapes, Admits
<1>2. /\ Admit(c, "ignite") /\ exec.state = "prepared" /\ ~exec.cold
      /\ UNCHANGED <<plan, child, failed>>
      /\ \/ Launches(c, 0)
         \/ /\ exec' = [exec EXCEPT !.cold = TRUE] /\ UNCHANGED <<owned, live>>
            /\ Turns(c, "ignite", "validate", NoHandle, 0)
  BY <1>1, IgniteWords
<1>3. /\ call[c].kind = "idle" /\ ~exec.closed /\ At(c, "idle")
  BY <1>1, <1>2, PartKinds DEF Admit
<1>4. call[c].pc \notin Asking \cup Having
  BY <1>3 DEF At, Asking, Having, Transfer
<1>5. /\ \A d \in Calls \ {c} : call[d].kind \in {"idle", "describe"}
      /\ \A d \in Calls : ~At(d, "cleanup") /\ ~At(d, "acquire")
  BY <1>1, <1>2, SetupStarts DEF Setup
<1>6. CASE Launches(c, 0)
  BY <1>2, <1>3, <1>4, <1>5, <1>6, LaunchesKept
<1>7. CASE /\ exec' = [exec EXCEPT !.cold = TRUE] /\ UNCHANGED <<owned, live>>
           /\ Turns(c, "ignite", "validate", NoHandle, 0)
  <2>1. /\ exec \in Words /\ child' \in [Ids -> Children] /\ owned' \subseteq Handles /\ live' \subseteq Handles
        /\ failed' \subseteq Handles /\ plan' = plan /\ child' = child
    BY <1>1, <1>2, <1>7 DEF Types
  <2>2. /\ exec' \in Words /\ exec'.state = exec.state /\ exec'.closed = exec.closed /\ exec'.cold = TRUE
        /\ exec'.submitting = exec.submitting /\ exec'.describing = exec.describing
        /\ exec'.deliveries = exec.deliveries /\ exec'.report = exec.report
    BY <1>7, <2>1 DEF Words
  <2>3. "validate" \in Parts("ignite") /\ "ignite" \in Setup
    BY DEF Parts, Setup
  <2>4. Shapes'
    BY <1>1, <1>7, <2>1, <2>2, <2>3, TurnsShapes
  <2>5. Fits("ignite", "validate", exec')
    BY <1>2, <1>3, <2>2 DEF Fits, Later
  <2>6. Of(owned', "operation") = {}
    BY <1>1, <1>2, <1>7 DEF Phases, Ran
  <2>7. Admits'
    BY <1>1, <1>2, <1>3, <1>5, <1>7, <2>1, <2>2, <2>3, <2>5, <2>6, AdmitsSetup
  <2>8. "validate" \notin Asking \cup Having
    BY DEF Asking, Having, Transfer
  <2>9. Holds'
    BY <1>1, <1>2, <1>4, <1>5, <1>7, <2>1, <2>2, <2>4, <2>8, HoldsSteady
  <2> QED
    BY <2>4, <2>7, <2>9 DEF IInv
<1> QED
  BY <1>2, <1>6, <1>7

\* A preinitialization keeps the invariant.
LEMMA PreinitializeKept ==
    ASSUME IInv, Overlap = FALSE, NEW c \in Calls, Preinitialize(c)
    PROVE  IInv'
<1>1. /\ Types /\ Routed /\ Phases /\ ClosesAlone /\ Shapes /\ Admits /\ Holds
  BY DEF IInv, Shapes, Admits
<1>2. /\ Admit(c, "preinitialize") /\ exec.state = "prepared" /\ ~exec.cold /\ Rest
      /\ exec' = [exec EXCEPT !.cold = TRUE]
      /\ Turns(c, "preinitialize", "validate", NoHandle, 0)
  BY <1>1, PreinitializeWords
<1>3. /\ call[c].kind = "idle" /\ ~exec.closed /\ At(c, "idle")
  BY <1>1, <1>2, PartKinds DEF Admit
<1>4. call[c].pc \notin Asking \cup Having
  BY <1>3 DEF At, Asking, Having, Transfer
<1>5. /\ \A d \in Calls \ {c} : call[d].kind \in {"idle", "describe"}
      /\ \A d \in Calls : ~At(d, "cleanup") /\ ~At(d, "acquire")
  BY <1>1, <1>2, SetupStarts DEF Setup
<1>6. /\ exec \in Words /\ child' \in [Ids -> Children] /\ owned' \subseteq Handles /\ live' \subseteq Handles
      /\ failed' \subseteq Handles /\ plan' = plan /\ child' = child /\ UNCHANGED <<owned, live, failed>>
  BY <1>1, <1>2 DEF Types, Rest
<1>7. /\ exec' \in Words /\ exec'.state = exec.state /\ exec'.closed = exec.closed /\ exec'.cold = TRUE
      /\ exec'.submitting = exec.submitting /\ exec'.describing = exec.describing
      /\ exec'.deliveries = exec.deliveries /\ exec'.report = exec.report
  BY <1>2, <1>6 DEF Words
<1>8. "validate" \in Parts("preinitialize") /\ "preinitialize" \in Setup
  BY DEF Parts, Setup
<1>9. Shapes'
  BY <1>1, <1>2, <1>6, <1>7, <1>8, TurnsShapes
<1>10. Admits'
  <2>1. Fits("preinitialize", "validate", exec')
    BY <1>2, <1>7 DEF Fits, Later
  <2>2. Of(owned', "operation") = {}
    BY <1>1, <1>2, <1>6 DEF Phases, Ran
  <2> QED
    BY <1>1, <1>2, <1>3, <1>5, <1>6, <1>7, <1>8, <2>1, <2>2, AdmitsSetup
<1>11. Holds'
  <2>1. "validate" \notin Asking \cup Having
    BY DEF Asking, Having, Transfer
  <2> QED
    BY <1>1, <1>2, <1>4, <1>5, <1>6, <1>7, <1>9, <2>1, HoldsSteady
<1> QED
  BY <1>9, <1>10, <1>11 DEF IInv

\* A call begins and the execution stands where it stood.
LEMMA AdmitsStarts ==
    ASSUME Shapes, Admits, NEW c \in Calls, NEW kind, NEW pc, NEW h, NEW who, Turns(c, kind, pc, h, who),
           pc # "cleanup", kind # "prepare", exec.state # "none", exec'.state = exec.state, exec'.closed = exec.closed,
           exec'.cold = exec.cold, Fits(kind, pc, exec'), Joins(c, kind, who), Beside(c, kind), Flags',
           \A i \in Ids : child'[i].held => child[i].held, owned' = owned
    PROVE  Admits'
<1>1. Types /\ Phases /\ Single /\ ClosesAlone
  BY DEF Shapes, Admits
<1>2. \A d \in Calls \ {c} : call[d].kind # "prepare"
  BY <1>1 DEF Phases, Fits
<1>3. \A d \in Calls : Fits(call[d].kind, call[d].pc, exec')
  BY <1>1, FitsSteady
<1>4. Phases'
  <2>1. /\ exec'.closed => exec'.state \in {"completed", "closed"}
        /\ exec'.state = "closed" => exec'.closed
        /\ \A i \in Ids : child'[i].held => exec'.state \in Ran
        /\ Of(owned', "operation") # {} => exec'.state \in Ran
    BY <1>1 DEF Phases
  <2> QED
    BY <1>1, <1>2, <1>3, <2>1, PhasesTurns
<1>5. Single'
  BY <1>1, SingleTurns
<1>6. ClosesAlone'
  BY <1>1, AloneTurns
<1> QED
  BY <1>4, <1>5, <1>6 DEF Admits

\* Nobody closes a search that has run unless its client asked for it.
LEMMA RunOpen ==
    ASSUME Shapes, Admits, Overlap = FALSE, exec.state \in Ran, NEW kind, Polite(kind), kind \notin Patient
    PROVE  \A d \in Calls : ~At(d, "cleanup") /\ ~At(d, "acquire") /\ call[d].kind \notin Closing \cup {"ignite"}
<1>1. Types /\ Routed /\ Phases
  BY DEF Shapes, Admits
<1>2. \A d \in Calls : call[d].kind \notin {"prepare", "preinitialize", "ignite"} /\ call[d].kind \notin Closing
  BY <1>1 DEF Phases, Fits, Ran, Polite
<1> QED
  BY <1>1, <1>2, PartKinds DEF Closing

\* The flags for a call that begins: those it does not set are as they were.
LEMMA FlagsStart ==
    ASSUME Types, Flags, NEW c \in Calls, call[c].kind = "idle", NEW kind, NEW pc, NEW h, NEW who, Turns(c, kind, pc, h, who),
           exec'.submitting <=> kind = "external" \/ exec.submitting,
           exec'.describing <=> kind = "describe" \/ exec.describing,
           exec'.deliveries = exec.deliveries + (IF kind = "deliver" THEN 1 ELSE 0), exec'.deliveries <= MaxTransfers,
           exec'.cold = exec.cold,
           \A i \in Ids : child'[i].busy <=> (kind = "childDeliver" /\ who = i) \/ child[i].busy,
           kind \in {"childDeliver", "childClose"} => who \in Ids /\ child'[who].held,
           \A i \in Ids : child'[i].held = child[i].held
    PROVE  Flags'
<1>1. /\ exec'.submitting <=> kind = "external" \/ Others(c, "external")
      /\ exec'.describing <=> kind = "describe" \/ Others(c, "describe")
  BY DEF Flags, Others
<1>2. exec'.cold => kind \in Setup \/ \E d \in Calls \ {c} : call[d].kind \in Setup
  BY DEF Flags, Setup
<1>3. \A i \in Ids : child'[i].busy <=>
         (kind = "childDeliver" /\ who = i) \/ \E d \in Calls \ {c} : call[d].kind = "childDeliver" /\ call[d].who = i
  BY DEF Flags
<1>4. \A d \in Calls \ {c} : call[d].kind \in {"childDeliver", "childClose"} => child'[call[d].who].held
  BY DEF Flags
<1>5. exec'.deliveries = exec.deliveries + (IF kind = "deliver" THEN 1 ELSE 0) - (IF call[c].kind = "deliver" THEN 1 ELSE 0)
  <2>1. exec.deliveries \in Int
    BY DEF Types, Words
  <2> QED
    BY <2>1
<1> QED
  BY <1>1, <1>2, <1>3, <1>4, <1>5, FlagsTurns

\* A call begins with a request: an external submission or a delivery.
LEMMA AskingStarts ==
    ASSUME IInv, Overlap = FALSE, NEW c \in Calls, NEW kind \in {"external", "deliver"}, NEW pc \in Asking,
           pc \in Parts(kind), Admit(c, kind), AsksFor(c, kind, pc, 0, live), exec.state \in Ran,
           UNCHANGED <<plan, child, owned, failed>>, exec' \in Words, exec'.state = exec.state, exec'.closed = exec.closed,
           exec'.cold = exec.cold, exec'.report = exec.report, exec'.describing = exec.describing,
           exec'.submitting <=> kind = "external" \/ exec.submitting, kind = "external" => ~exec.submitting,
           exec'.deliveries = exec.deliveries + (IF kind = "deliver" THEN 1 ELSE 0), exec'.deliveries <= MaxTransfers
    PROVE  IInv'
<1>1. /\ Types /\ Routed /\ Phases /\ Flags /\ ClosesAlone /\ Shapes /\ Admits /\ Holds /\ Own /\ Known
  BY DEF IInv, Shapes, Admits, Holds
<1>2. call[c].kind = "idle" /\ ~exec.closed /\ At(c, "idle") /\ exec.state # "none"
  BY <1>1, PartKinds DEF Admit
<1>3. \A d \in Calls : ~At(d, "cleanup") /\ ~At(d, "acquire") /\ call[d].kind # "ignite"
  BY <1>1, RunOpen DEF Admit, Patient
<1>4. PICK h \in Handles : Turns(c, kind, pc, h, 0) /\ live' \subseteq live \cup {h}
  BY DEF AsksFor
<1>5. Shapes'
  <2>1. child' \in [Ids -> Children] /\ owned' \subseteq Handles /\ live' \subseteq Handles /\ failed' \subseteq Handles
    BY <1>1, <1>4 DEF Types
  <2> QED
    BY <1>1, <1>4, <2>1, TurnsShapes
<1>6. Admits'
  <2>1. Flags'
    BY <1>1, <1>2, <1>4, FlagsStart
  <2>2. Fits(kind, pc, exec')
    BY <1>2 DEF Fits
  <2>3. Joins(c, kind, 0)
    BY <1>1, <1>3 DEF Joins, Setup, Flags
  <2>4. Beside(c, kind) /\ pc # "cleanup"
    BY <1>3 DEF Beside, Asking
  <2> QED
    BY <1>1, <1>2, <1>4, <2>1, <2>2, <2>3, <2>4, AdmitsStarts
<1>7. Holds'
  <2>1. live \ {} = live /\ {} \in SUBSET Handles /\ failed \cap {} = {} /\ \A x \in {} : FALSE
    OBVIOUS
  <2>2. AsksFor(c, kind, pc, 0, live \ {})
    BY <2>1
  <2>3. Clear(c, {})
    BY <1>1 DEF Clear, Own
  <2>4. \A i \in Ids : child[i].held => <<"child", i>> \in owned'
    BY <1>1 DEF Own
  <2>5. call[c].pc \notin Asking \cup Having
    BY <1>2 DEF At, Asking, Having, Transfer
  <2> QED
    BY <1>1, <1>2, <1>3, <1>5, <2>1, <2>2, <2>3, <2>4, <2>5, HoldsAsks
<1> QED
  BY <1>5, <1>6, <1>7 DEF IInv

\* An external submission keeps the invariant.
LEMMA SubmitExternalKept ==
    ASSUME IInv, Overlap = FALSE, NEW c \in Calls, SubmitExternal(c)
    PROVE  IInv'
<1>1. Types /\ Flags
  BY DEF IInv, Shapes, Admits
<1>2. /\ Admit(c, "external") /\ exec.state = "running" /\ ~exec.submitting
      /\ exec' = [exec EXCEPT !.submitting = TRUE] /\ UNCHANGED <<plan, child, owned, failed>>
      /\ \E pc \in {"stage", "attach"} : AsksFor(c, "external", pc, 0, live)
  BY <1>1, SubmitExternalWords
<1>3. PICK pc \in {"stage", "attach"} : AsksFor(c, "external", pc, 0, live)
  BY <1>2
<1>4. pc \in Asking /\ pc \in Parts("external") /\ exec.state \in Ran
  BY <1>2 DEF Asking, Parts, Ran
<1>5. /\ exec' \in Words /\ exec'.state = exec.state /\ exec'.closed = exec.closed
      /\ exec'.cold = exec.cold /\ exec'.report = exec.report /\ exec'.describing = exec.describing
      /\ exec'.submitting = TRUE /\ exec'.deliveries = exec.deliveries /\ exec.deliveries \in Int
  BY <1>1, <1>2 DEF Types, Words
<1>6. exec'.deliveries = exec.deliveries + 0 /\ exec'.deliveries <= MaxTransfers
  BY <1>1, <1>5 DEF Flags
<1> QED
  BY <1>2, <1>3, <1>4, <1>5, <1>6, AskingStarts

\* A delivery keeps the invariant.
LEMMA DeliverKept ==
    ASSUME IInv, Overlap = FALSE, NEW c \in Calls, Deliver(c)
    PROVE  IInv'
<1>1. Types /\ Flags
  BY DEF IInv, Shapes, Admits
<1>2. /\ Admit(c, "deliver") /\ exec.state = "completed" /\ exec.deliveries < MaxTransfers
      /\ exec' = [exec EXCEPT !.deliveries = @ + 1] /\ UNCHANGED <<plan, child, owned, failed>>
      /\ AsksFor(c, "deliver", "read", 0, live)
  BY <1>1, DeliverWords
<1>3. "read" \in Asking /\ "read" \in Parts("deliver") /\ exec.state \in Ran
  BY <1>2 DEF Asking, Parts, Ran
<1>4. exec.deliveries \in Int /\ exec \in Words
  BY <1>1 DEF Types, Words
<1>5. ASSUME NEW n \in Int, exec' = [exec EXCEPT !.deliveries = n]
      PROVE  /\ exec' \in Words /\ exec'.state = exec.state /\ exec'.closed = exec.closed
             /\ exec'.cold = exec.cold /\ exec'.report = exec.report /\ exec'.describing = exec.describing
             /\ exec'.submitting = exec.submitting /\ exec'.deliveries = n
  BY <1>4, <1>5 DEF Words
<1>6. exec.deliveries + 1 \in Int /\ exec' = [exec EXCEPT !.deliveries = exec.deliveries + 1]
      /\ exec.deliveries + 1 <= MaxTransfers
  BY <1>2, <1>4, Constants
<1>7. /\ exec' \in Words /\ exec'.state = exec.state /\ exec'.closed = exec.closed
      /\ exec'.cold = exec.cold /\ exec'.report = exec.report /\ exec'.describing = exec.describing
      /\ exec'.submitting = exec.submitting /\ exec'.deliveries = exec.deliveries + 1
  BY <1>5, <1>6
<1> QED
  BY <1>2, <1>3, <1>6, <1>7, AskingStarts

\* A call begins that asks for nothing.
LEMMA PlainStarts ==
    ASSUME IInv, NEW c \in Calls, call[c].kind = "idle", NEW kind, NEW pc, NEW who, Turns(c, kind, pc, NoHandle, who),
           pc \in Parts(kind), pc \in {"childWait", "yield", "wait", "describe"}, kind # "prepare", exec.state # "none",
           \A d \in Calls : ~At(d, "acquire"), Rest \/ UNCHANGED <<plan, owned, live, failed>>,
           exec' \in Words, child' \in [Ids -> Children],
           exec'.state = exec.state, exec'.closed = exec.closed, exec'.cold = exec.cold, exec'.report = exec.report,
           Fits(kind, pc, exec'), Joins(c, kind, who), Beside(c, kind), Flags',
           \A i \in Ids : child'[i].held => child[i].held
    PROVE  IInv'
<1>1. /\ Types /\ Routed /\ Shapes /\ Admits /\ Holds
  BY DEF IInv, Shapes
<1>2. UNCHANGED <<plan, owned, live, failed>>
  BY DEF Rest
<1>3. At(c, "idle") /\ pc \notin Asking \cup Having /\ pc # "cleanup" /\ pc # "acquire"
  BY <1>1, PartKinds DEF Asking, Having, Transfer
<1>4. call[c].pc \notin Asking \cup Having /\ ~At(c, "cleanup")
  BY <1>3 DEF At, Asking, Having, Transfer
<1>5. Shapes'
  <2>1. owned' \subseteq Handles /\ live' \subseteq Handles /\ failed' \subseteq Handles
    BY <1>1, <1>2 DEF Types
  <2> QED
    BY <1>1, <1>2, <2>1, TurnsShapes
<1>6. Admits'
  BY <1>1, <1>2, <1>3, AdmitsStarts
<1>7. Holds'
  BY <1>1, <1>2, <1>3, <1>4, <1>5, HoldsSteady
<1> QED
  BY <1>5, <1>6, <1>7 DEF IInv

\* A call on an external operation keeps the invariant.
LEMMA ChildStartsKept ==
    ASSUME IInv, Overlap = FALSE, NEW c \in Calls, NEW i \in Ids, ChildWait(c, i) \/ ChildDeliver(c, i) \/ ChildClose(c, i)
    PROVE  IInv'
<1>1. /\ Types /\ Routed /\ Phases /\ Single /\ Flags /\ Shapes /\ Admits
  BY DEF IInv, Shapes, Admits
<1>2. exec \in Words /\ child \in [Ids -> Children] /\ exec.deliveries \in Int /\ exec.deliveries <= MaxTransfers
  BY <1>1 DEF Types, Words, Flags
<1>3. PICK kind \in {"childWait", "childDeliver", "childClose"}, pc \in {"childWait", "yield"} :
        /\ call[c].kind = "idle" /\ child[i].held /\ Polite(kind) /\ (kind # "childWait" => ~child[i].busy)
        /\ UNCHANGED <<plan, exec, owned, live, failed>> /\ Turns(c, kind, pc, NoHandle, i)
        /\ pc = (IF kind = "childWait" THEN "childWait" ELSE "yield")
        /\ IF kind = "childDeliver" THEN child' = [child EXCEPT ![i].busy = TRUE, ![i].attempted = TRUE]
           ELSE child' = child
  BY <1>1, ChildStarts DEF Rest
<1>4. /\ child' \in [Ids -> Children]
      /\ \A j \in Ids : /\ child'[j].held = child[j].held
                        /\ child'[j].busy <=> (kind = "childDeliver" /\ i = j) \/ child[j].busy
  <2>1. CASE kind = "childDeliver"
    <3> DEFINE r == [child[i] EXCEPT !.busy = TRUE, !.attempted = TRUE]
    <3>1. child' = [child EXCEPT ![i] = r]
      BY <1>3, <2>1
    <3>2. r \in Children /\ r.held = child[i].held /\ r.busy = TRUE
      BY <1>2 DEF Children
    <3> HIDE DEF r
    <3> QED
      BY <1>2, <2>1, <3>1, <3>2
  <2>2. CASE kind # "childDeliver"
    BY <1>2, <1>3, <2>2
  <2> QED
    BY <2>1, <2>2
<1>5. exec.state \in Ran /\ exec.state # "none"
  BY <1>1, <1>3 DEF Phases, Ran
<1>6. \A d \in Calls : ~At(d, "cleanup") /\ ~At(d, "acquire") /\ call[d].kind \notin Closing \cup {"ignite"}
  BY <1>1, <1>3, <1>5, RunOpen DEF Patient
<1>7. Flags'
  <2>1. exec'.deliveries = exec.deliveries + 0 /\ kind \notin {"external", "describe", "deliver"}
    BY <1>2, <1>3
  <2> QED
    BY <1>1, <1>2, <1>3, <1>4, <2>1, FlagsStart
<1>8. Joins(c, kind, i)
  <2> SUFFICES ASSUME NEW d \in Calls \ {c}
               PROVE  /\ kind \in Setup => call[d].kind \notin Setup
                      /\ kind = "ignite" => call[d].kind \in Idling
                      /\ call[d].kind = "ignite" => kind \in Idling
                      /\ kind \in {"external", "describe", "childClose"} => call[d].kind # kind
                      /\ kind = "childDeliver" /\ call[d].kind \in {"childDeliver", "childClose"} => i # call[d].who
                      /\ kind = "childClose" /\ call[d].kind = "childDeliver" => i # call[d].who
    BY DEF Joins
  <2>1. call[d].kind \notin {"close", "childClose", "ignite"}
    BY <1>6 DEF Closing
  <2>2. kind # "childWait" /\ call[d].kind = "childDeliver" => i # call[d].who
    BY <1>1, <1>3 DEF Flags
  <2> QED
    BY <2>1, <2>2 DEF Setup
<1>9. Fits(kind, pc, exec') /\ Beside(c, kind)
  BY <1>3, <1>5, <1>6 DEF Fits, Later, Beside
<1>10. pc \in Parts(kind)
  BY <1>3 DEF Parts
<1> QED
  BY <1>2, <1>3, <1>4, <1>5, <1>6, <1>7, <1>8, <1>9, <1>10, PlainStarts

\* A wait keeps the invariant.
LEMMA WaitKept ==
    ASSUME IInv, NEW c \in Calls, Wait(c)
    PROVE  IInv'
<1>1. /\ Types /\ Routed /\ Phases /\ Single /\ Flags /\ Shapes /\ Admits
  BY DEF IInv, Shapes, Admits
<1>2. /\ Admit(c, "wait") /\ Of(owned, "operation") # {} /\ Rest /\ UNCHANGED exec
      /\ Turns(c, "wait", "wait", NoHandle, 0)
  BY <1>1, WaitStarts
<1>3. exec \in Words /\ child' \in [Ids -> Children] /\ exec.deliveries \in Int /\ exec.deliveries <= MaxTransfers /\ child' = child
  BY <1>1, <1>2 DEF Types, Words, Flags, Rest
<1>4. exec.state \in Ran /\ exec.state # "none" /\ call[c].kind = "idle"
  BY <1>1, <1>2 DEF Phases, Ran, Admit
<1>5. \A d \in Calls : ~At(d, "acquire")
  BY <1>1, <1>4, PartKinds DEF Phases, Fits
<1>6. Flags'
  <2>1. exec'.deliveries = exec.deliveries + 0
    BY <1>2, <1>3
  <2> QED
    BY <1>1, <1>2, <1>3, <1>4, <2>1, FlagsStart
<1>7. Joins(c, "wait", 0)
  BY <1>1, JoinsStays
<1>8. Fits("wait", "wait", exec') /\ Beside(c, "wait") /\ "wait" \in Parts("wait")
  BY <1>2, <1>4 DEF Fits, Later, Beside, Parts
<1> QED
  BY <1>2, <1>3, <1>4, <1>5, <1>6, <1>7, <1>8, PlainStarts

\* A description keeps the invariant.
LEMMA DescribeKept ==
    ASSUME IInv, Overlap = FALSE, NEW c \in Calls, Describe(c)
    PROVE  IInv'
<1>1. /\ Types /\ Routed /\ Phases /\ Single /\ Flags /\ Shapes /\ Admits
  BY DEF IInv, Shapes, Admits
<1>2. /\ Admit(c, "describe") /\ ~exec.describing /\ Rest
      /\ exec' = [exec EXCEPT !.describing = TRUE]
      /\ Turns(c, "describe", "describe", NoHandle, 0)
  BY <1>1, DescribeStarts
<1>3. exec \in Words /\ child' \in [Ids -> Children] /\ exec.deliveries \in Int /\ exec.deliveries <= MaxTransfers /\ child' = child
  BY <1>1, <1>2 DEF Types, Words, Flags, Rest
<1>4. /\ exec' \in Words /\ exec'.state = exec.state /\ exec'.closed = exec.closed /\ exec'.cold = exec.cold
      /\ exec'.submitting = exec.submitting /\ exec'.describing = TRUE
      /\ exec'.deliveries = exec.deliveries /\ exec'.report = exec.report
  BY <1>2, <1>3 DEF Words
<1>5. exec.state # "none" /\ call[c].kind = "idle" /\ \A d \in Calls : call[d].kind \notin Closing
  BY <1>2 DEF Admit, Polite
<1>6. \A d \in Calls : ~At(d, "acquire")
  BY <1>1, <1>5, PartKinds DEF Phases, Fits
<1>7. Flags'
  <2>1. exec'.deliveries = exec.deliveries + 0
    BY <1>3, <1>4
  <2> QED
    BY <1>1, <1>2, <1>3, <1>4, <1>5, <2>1, FlagsStart
<1>8. Joins(c, "describe", 0)
  BY <1>1, <1>2 DEF Joins, Setup, Flags, Idling
<1>9. Fits("describe", "describe", exec') /\ Beside(c, "describe") /\ "describe" \in Parts("describe")
  BY <1>5 DEF Fits, Later, Beside, Parts, Closing
<1> QED
  BY <1>2, <1>3, <1>4, <1>5, <1>6, <1>7, <1>8, <1>9, PlainStarts

\* What close looks at tells that nobody works on the execution.
LEMMA CloseAlone ==
    ASSUME IInv, Overlap = FALSE, NEW c \in Calls, Admit(c, "close"), Quiet
    PROVE  Alone(c, "close") /\ \A d \in Calls : call[d].kind \in {"idle", "wait", "childWait"}
<1>1. Types /\ Phases /\ Flags /\ Own
  BY DEF IInv, Shapes, Admits, Holds
<1>2. /\ \A d \in Calls : call[d].kind \notin Closing /\ call[d].kind # "ignite"
      /\ exec.state # "none"
  BY DEF Admit, Polite, Patient
<1> SUFFICES ASSUME NEW d \in Calls PROVE call[d].kind \in {"idle", "wait", "childWait"}
  BY DEF Alone
<1>3. call[d].kind \notin {"prepare", "preinitialize", "external", "describe"}
  BY <1>1, <1>2 DEF Phases, Fits, Flags, Quiet
<1>4. call[d].kind # "deliver"
  <2> SUFFICES ASSUME call[d].kind = "deliver" PROVE FALSE
    OBVIOUS
  <2>1. Delivering # {}
    BY DEF Delivering
  <2>2. IsFiniteSet(Delivering) /\ Cardinality(Delivering) = 0
    BY <1>1 DEF Flags, Quiet
  <2> QED
    BY <2>1, <2>2, FS_EmptySet
<1>5. call[d].kind # "childDeliver"
  <2> SUFFICES ASSUME call[d].kind = "childDeliver" PROVE FALSE
    OBVIOUS
  <2>1. call[d].who \in Ids /\ child[call[d].who].held /\ child[call[d].who].busy
    BY <1>1 DEF Flags
  <2> DEFINE h == <<"child", call[d].who>>
  <2>2. h \in Of(owned, "child") /\ h[2] = call[d].who
    BY <1>1, <2>1 DEF Own, Of
  <2> QED
    BY <2>1, <2>2 DEF Quiet
<1>6. call[d].kind \in CallKinds
  BY <1>1, CallFields
<1> QED
  BY <1>2, <1>3, <1>4, <1>5, <1>6 DEF CallKinds, Closing

\* A closing keeps the invariant: it begins when no flag says that another call
\* has something in flight.
LEMMA CloseKept ==
    ASSUME IInv, Overlap = FALSE, NEW c \in Calls, Close(c)
    PROVE  IInv'
<1>1. /\ Types /\ Routed /\ Phases /\ Single /\ Flags /\ ClosesAlone /\ Shapes
      /\ Own /\ Known /\ Based /\ Sweeping /\ DependencySafe /\ Reported
  BY DEF IInv, Shapes, Admits, Holds
<1>2. /\ Admit(c, "close") /\ Quiet /\ Rest /\ Cleans(c, "close", 0, {}, TRUE)
  BY <1>1, CloseWords
<1>3. Alone(c, "close")
  BY <1>2, CloseAlone
<1>4. UNCHANGED <<plan, child, owned, live, failed>>
  BY <1>2 DEF Rest
<1>5. call[c].kind = "idle" /\ exec.state # "none" /\ ~exec.closed /\ ~exec.cold
  BY <1>2 DEF Admit, Quiet
<1>6. Shapes'
  <2>1. child' \in [Ids -> Children] /\ owned' \subseteq Handles /\ live' \subseteq Handles /\ failed' \subseteq Handles
    BY <1>1, <1>4 DEF Types
  <2> QED
    BY <1>1, <1>2, <1>4, <2>1, CleansShapes
<1>7. Admits'
  BY <1>1, <1>2, <1>3, <1>4, <1>5, CleansAdmits DEF Admits
<1>8. Own' /\ Known' /\ Based' /\ Sweeping' /\ Reported'
  <2>1. Only({}) /\ \A x \in {} : FALSE
    BY <1>4 DEF Only
  <2>2. (\A i \in Ids : child'[i].held => <<"child", i>> \in owned') /\ \A g \in Of(owned', "child") : g[2] \in Ids
    BY <1>1, <1>4 DEF Own
  <2>3. call[c].pc \notin Asking /\ {} \subseteq failed'
    <3>1. At(c, "idle")
      BY <1>1, <1>5, PartKinds
    <3> QED
      BY <3>1 DEF At, Asking
  <2> QED
    BY <1>1, <1>2, <1>3, <1>5, <1>6, <2>1, <2>2, <2>3, CleansHolds DEF Shapes
<1>9. DependencySafe'
  BY <1>1, <1>4, <1>6, SafeTurns DEF Shapes
<1> QED
  BY <1>6, <1>7, <1>8, <1>9 DEF IInv, Holds

\* What a call that asks for or has a handle finds.
LEMMA WorkFacts ==
    ASSUME IInv, NEW c \in Calls, call[c].pc \in Asking \cup Having
    PROVE  /\ Types /\ Routed /\ Phases /\ Single /\ Flags /\ Shapes /\ Admits /\ Holds /\ Own /\ Known
           /\ ~exec.closed /\ exec.state # "none" /\ \A d \in Calls : ~At(d, "cleanup") /\ ~At(d, "acquire")
           /\ call[c].kind \in {"ignite", "external", "deliver", "childDeliver"}
           /\ call[c].h \in Handles /\ call[c].h[1] = Kind(call[c].pc) /\ call[c].h \notin failed
           /\ call[c].h[1] \in {"xfer", "child", "operation"}
           /\ Of(owned, "operation") # {} => exec.state \in Ran
           /\ \A i \in Ids : child[i].held => <<"child", i>> \in owned /\ <<"child", i>> # call[c].h
<1>1. /\ Types /\ Routed /\ Phases /\ Single /\ Flags /\ ClosesAlone /\ Shapes /\ Admits /\ Holds /\ Own /\ Known
  BY DEF IInv, Shapes, Admits, Holds
<1>2. call[c].pc \in Working
  BY DEF Working
<1>3. call[c].h \in Handles /\ call[c].h[1] = Kind(call[c].pc) /\ call[c].h \notin failed
  BY <1>1, CallFields DEF Own
<1>4. call[c].h[1] \in {"xfer", "child", "operation"}
  BY <1>1, <1>3, BasisParents, PcsAre DEF Asking, Having, Transfer
<1>5. \A i \in Ids : child[i].held => <<"child", i>> \in owned /\ <<"child", i>> # call[c].h
  BY <1>1 DEF Own
<1>6. Of(owned, "operation") # {} => exec.state \in Ran
  BY <1>1 DEF Phases
<1>7. /\ ~exec.closed /\ exec.state # "none" /\ \A d \in Calls : ~At(d, "cleanup") /\ ~At(d, "acquire")
      /\ call[c].kind \in {"preinitialize", "ignite", "external", "deliver", "childDeliver"}
      /\ call[c].kind # "preinitialize"
  BY <1>1, <1>2, WorkingOpen
<1> QED
  BY <1>1, <1>3, <1>4, <1>5, <1>6, <1>7

\* A call gets the handle it asked for and goes on.
LEMMA GrantGoes ==
    ASSUME IInv, NEW c \in Calls, call[c].pc \in Asking, NEW pc \in Having, NEW h, h = call[c].h, NEW who, NEW kind, kind = call[c].kind,
           Turns(c, kind, pc, h, who), who = call[c].who \/ kind = "ignite", owned' = owned \cup {h},
           UNCHANGED <<plan, exec, child, live, failed>>, Kind(pc) = Kind(call[c].pc), Kind(pc) # "operation", pc \in Parts(kind)
    PROVE  IInv'
<1>1. call[c].pc \in Asking \cup Having /\ pc \in Asking \cup Having /\ pc # "status" /\ call[c].pc # "status"
  BY AskedKinds DEF Asking
<1>2. /\ Types /\ Shapes /\ Admits /\ Holds /\ ~exec.closed /\ exec.state # "none"
      /\ \A d \in Calls : ~At(d, "cleanup") /\ ~At(d, "acquire")
      /\ h \in Handles /\ h[1] = Kind(call[c].pc) /\ (Of(owned, "operation") # {} => exec.state \in Ran)
  BY <1>1, WorkFacts
<1>3. Shapes'
  <2>1. /\ exec' \in Words /\ child' \in [Ids -> Children] /\ owned' \subseteq Handles /\ live' \subseteq Handles
        /\ failed' \subseteq Handles /\ plan' = plan
    BY <1>2 DEF Types
  <2> QED
    BY <1>2, <2>1, TurnsShapes
<1>4. Of(owned', "operation") = Of(owned, "operation")
  BY <1>2 DEF Of
<1>5. Admits'
  BY <1>1, <1>2, <1>4, AdmitsStays
<1>6. Holds'
  BY <1>2, <1>3, HoldsGrants
<1> QED
  BY <1>3, <1>5, <1>6 DEF IInv

\* A call goes on with the handle it has.
LEMMA MoveGoes ==
    ASSUME IInv, NEW c \in Calls, call[c].pc \in Having, NEW pc \in Having, Stands(c, pc), pc \in Parts(call[c].kind),
           UNCHANGED <<plan, exec, child, owned, live, failed>>, Kind(pc) = Kind(call[c].pc),
           Kind(pc) # "operation"
    PROVE  IInv'
<1>1. call[c].pc \in Asking \cup Having /\ pc \in Asking \cup Having /\ call[c].pc \notin Asking /\ pc # "status"
      /\ pc \notin {"cleanup", "acquire", "status"} /\ call[c].pc # "status"
  BY AskedKinds DEF Having, Asking, Transfer
<1>2. /\ Types /\ Shapes /\ Admits /\ Holds /\ ~exec.closed /\ exec.state # "none"
      /\ \A d \in Calls : ~At(d, "cleanup") /\ ~At(d, "acquire")
      /\ (Of(owned, "operation") # {} => exec.state \in Ran)
  BY <1>1, WorkFacts
<1>3. Turns(c, call[c].kind, pc, call[c].h, call[c].who)
  BY DEF Stands
<1>4. Shapes'
  <2>1. /\ exec' \in Words /\ child' \in [Ids -> Children] /\ owned' \subseteq Handles /\ live' \subseteq Handles
        /\ failed' \subseteq Handles /\ plan' = plan
    BY <1>2 DEF Types
  <2> QED
    BY <1>2, <1>3, <2>1, TurnsShapes
<1>5. Admits'
  BY <1>1, <1>2, <1>3, AdmitsStays
<1>6. Holds'
  BY <1>1, <1>2, <1>3, <1>4, HoldsSteady
<1> QED
  BY <1>4, <1>5, <1>6 DEF IInv

\* A call gives back the handle it has and asks for the next one.
LEMMA AskGoes ==
    ASSUME IInv, NEW c \in Calls, call[c].pc \in Having, NEW pc \in Asking, NEW h, h = call[c].h, NEW kind, kind = call[c].kind,
           AsksFor(c, kind, pc, call[c].who, live \ {h}), owned' = owned \ {h},
           UNCHANGED <<plan, exec, child, failed>>, pc \in Parts(kind),
           call[c].pc # "status"
    PROVE  IInv'
<1>1. call[c].pc \in Asking \cup Having /\ pc \in Asking \cup Having /\ call[c].pc \notin Asking /\ pc # "status"
  BY DEF Having, Asking, Transfer
<1>2. /\ Types /\ Shapes /\ Admits /\ Holds /\ ~exec.closed /\ exec.state # "none" /\ Own
      /\ \A d \in Calls : ~At(d, "cleanup") /\ ~At(d, "acquire")
      /\ h \in Handles /\ h \notin failed /\ h[1] \in {"xfer", "child", "operation"}
      /\ (Of(owned, "operation") # {} => exec.state \in Ran)
      /\ \A i \in Ids : child[i].held => <<"child", i>> \in owned /\ <<"child", i>> # h
  BY <1>1, WorkFacts
<1>3. PICK g \in Handles : Turns(c, kind, pc, g, call[c].who) /\ live' \subseteq live \cup {g}
  BY DEF AsksFor
<1>4. Shapes'
  <2>1. /\ exec' \in Words /\ child' \in [Ids -> Children] /\ owned' \subseteq Handles /\ live' \subseteq Handles
        /\ failed' \subseteq Handles /\ plan' = plan
    BY <1>2, <1>3 DEF Types
  <2> QED
    BY <1>2, <1>3, <2>1, TurnsShapes
<1>5. Of(owned', "operation") \subseteq Of(owned, "operation")
  BY DEF Of
<1>6. Admits'
  BY <1>1, <1>2, <1>3, <1>5, AdmitsStays
<1>7. Holds'
  <2>1. {h} \in SUBSET Handles /\ failed \cap {h} = {} /\ \A x \in {h} : x = h
    BY <1>2
  <2>2. Clear(c, {h})
    BY <1>1, <1>2, OwnClear
  <2>3. \A i \in Ids : child[i].held => <<"child", i>> \in owned'
    BY <1>2
  <2> QED
    BY <1>1, <1>2, <1>4, <2>1, <2>2, <2>3, HoldsAsks
<1> QED
  BY <1>4, <1>6, <1>7 DEF IInv

\* The answer to the request of a transfer keeps the invariant.
LEMMA XferAnswerKept ==
    ASSUME IInv, NEW c \in Calls, XferAnswer(c)
    PROVE  IInv'
<1>1. call[c].pc \in {"stage", "read"}
  BY DEF XferAnswer
<1>2. call[c].pc \in Asking /\ call[c].pc \in Asking \cup Having
  BY <1>1 DEF Asking
<1>3. Types /\ Routed /\ call[c].kind \in {"ignite", "external", "deliver", "childDeliver"}
  BY <1>2, WorkFacts
<1>4. /\ UNCHANGED <<plan, failed>>
      /\ \/ /\ call[c].h \in live /\ owned' = owned \cup {call[c].h} /\ UNCHANGED <<live, exec, child>>
            /\ Stands(c, "move")
         \/ live' = live \ {call[c].h} /\ owned' = owned /\ Abandons(c)
  BY <1>3, XferAnswerWords
<1>5. CASE owned' = owned \cup {call[c].h} /\ UNCHANGED <<live, exec, child>> /\ Stands(c, "move")
  <2>1. "move" \in Having /\ "move" \in Parts(call[c].kind)
    BY <1>3 DEF Having, Transfer, Parts
  <2>2. Kind("move") = "xfer" /\ Kind(call[c].pc) = "xfer"
    BY <1>1, AskedKinds
  <2>3. Turns(c, call[c].kind, "move", call[c].h, call[c].who)
    BY <1>5 DEF Stands
  <2> QED
    BY <1>2, <1>4, <1>5, <2>1, <2>2, <2>3, GrantGoes
<1>6. CASE live' = live \ {call[c].h} /\ owned' = owned /\ Abandons(c)
  <2>1. Left(call[c].h, call[c].pc)
    BY <1>2, <1>4, <1>6 DEF Left
  <2> QED
    BY <1>2, <1>4, <1>6, <2>1, AbandonKept
<1> QED
  BY <1>4, <1>5, <1>6

\* A transfer that has moved or failed keeps the invariant.
LEMMA XferMovedKept ==
    ASSUME IInv, NEW c \in Calls, XferMoved(c)
    PROVE  IInv'
<1>1. /\ call[c].pc = "move" /\ "move" \in Having
      /\ "shut" \in Having /\ Kind("shut") = Kind("move") /\ Kind("shut") # "operation"
  BY AskedKinds DEF XferMoved, At, Having, Transfer
<1>2. Types /\ call[c].kind \in {"ignite", "external", "deliver", "childDeliver"}
  BY <1>1, WorkFacts
<1>3. Rest /\ UNCHANGED exec /\ Stands(c, "shut") /\ "shut" \in Parts(call[c].kind)
  BY <1>2, XferMovedWords DEF Parts, Transfer
<1> QED
  BY <1>1, <1>3, MoveGoes DEF Rest

\* The closing of a transfer keeps the invariant, whatever follows it.
LEMMA XferShutKept ==
    ASSUME IInv, NEW c \in Calls, XferShut(c)
    PROVE  IInv'
<1>1. call[c].pc = "shut" /\ call[c].pc \in Having /\ call[c].pc \in Asking \cup Having
  BY DEF XferShut, At, Having, Transfer
<1>2. /\ Types /\ call[c].kind \in {"ignite", "external", "deliver", "childDeliver"} /\ ~exec.closed /\ call[c].h \notin failed
  BY <1>1, WorkFacts
<1>3. /\ UNCHANGED plan
      /\ \/ /\ UNCHANGED failed /\ owned' = owned \ {call[c].h} /\ live' = live \ {call[c].h} /\ Abandons(c)
         \/ /\ UNCHANGED <<failed, exec, child>> /\ owned' = owned \ {call[c].h}
            /\ \E pc \in {"initialize", "submit", "attach"} :
                  /\ AsksFor(c, call[c].kind, pc, call[c].who, live \ {call[c].h})
                  /\ call[c].kind = (IF pc = "attach" THEN "external" ELSE "ignite")
         \/ Remains(call[c].h) /\ UNCHANGED <<owned, live>> /\ Abandons(c)
  BY <1>2, XferShutWords
<1>4. CASE UNCHANGED failed /\ owned' = owned \ {call[c].h} /\ live' = live \ {call[c].h} /\ Abandons(c)
  <2>1. Left(call[c].h, call[c].pc)
    BY <1>1, <1>4 DEF Left
  <2> QED
    BY <1>1, <1>3, <1>4, <2>1, AbandonKept
<1>5. CASE /\ UNCHANGED <<failed, exec, child>> /\ owned' = owned \ {call[c].h}
           /\ \E pc \in {"initialize", "submit", "attach"} :
                 /\ AsksFor(c, call[c].kind, pc, call[c].who, live \ {call[c].h})
                 /\ call[c].kind = (IF pc = "attach" THEN "external" ELSE "ignite")
  <2>1. PICK pc \in {"initialize", "submit", "attach"} :
                 /\ AsksFor(c, call[c].kind, pc, call[c].who, live \ {call[c].h})
                 /\ call[c].kind = (IF pc = "attach" THEN "external" ELSE "ignite")
    BY <1>5
  <2>2. pc \in Asking /\ pc \in Parts(call[c].kind)
    BY <2>1 DEF Asking, Parts
  <2> QED
    BY <1>1, <1>3, <1>5, <2>1, <2>2, AskGoes
<1>6. CASE Remains(call[c].h) /\ UNCHANGED <<owned, live>> /\ Abandons(c)
  <2>1. Left(call[c].h, call[c].pc)
    BY <1>1, <1>6 DEF Left
  <2> QED
    BY <1>1, <1>3, <1>6, <2>1, AbandonKept
<1> QED
  BY <1>3, <1>4, <1>5, <1>6

\* The answer to the request of the initializer keeps the invariant.
LEMMA InitializeAnswerKept ==
    ASSUME IInv, NEW c \in Calls, InitializeAnswer(c)
    PROVE  IInv'
<1>1. call[c].pc = "initialize" /\ call[c].pc \in Asking /\ call[c].pc \in Asking \cup Having
  BY DEF InitializeAnswer, At, Asking
<1>2. Types /\ Routed
  BY <1>1, WorkFacts
<1>3. call[c].kind = "ignite"
  BY <1>1, <1>2, PartKinds
<1>4. /\ UNCHANGED <<plan, failed>>
      /\ \/ /\ call[c].h \in live /\ owned' = owned \cup {call[c].h} /\ UNCHANGED <<live, exec, child>>
            /\ Turns(c, "ignite", "initWait", call[c].h, call[c].h[2])
         \/ live' = live \ {call[c].h} /\ owned' = owned /\ Abandons(c)
  BY <1>2, <1>3, InitializeAnswerWords
<1>5. CASE /\ owned' = owned \cup {call[c].h} /\ UNCHANGED <<live, exec, child>>
           /\ Turns(c, "ignite", "initWait", call[c].h, call[c].h[2])
  <2>1. "initWait" \in Having /\ "initWait" \in Parts("ignite")
    BY DEF Having, Transfer, Parts
  <2>2. Kind("initWait") = "child" /\ Kind(call[c].pc) = "child"
    BY <1>1, AskedKinds
  <2> QED
    BY <1>1, <1>3, <1>4, <1>5, <2>1, <2>2, GrantGoes
<1>6. CASE live' = live \ {call[c].h} /\ owned' = owned /\ Abandons(c)
  <2>1. Left(call[c].h, call[c].pc)
    BY <1>1, <1>4, <1>6 DEF Left
  <2> QED
    BY <1>1, <1>4, <1>6, <2>1, AbandonKept
<1> QED
  BY <1>4, <1>5, <1>6

\* The end of the initializer keeps the invariant.
LEMMA InitializeWaitedKept ==
    ASSUME IInv, NEW c \in Calls, InitializeWaited(c)
    PROVE  IInv'
<1>1. /\ call[c].pc = "initWait" /\ call[c].pc \in Having /\ call[c].pc \in Asking \cup Having
      /\ "initShut" \in Having /\ Kind("initShut") = Kind("initWait") /\ Kind("initShut") # "operation"
  BY AskedKinds DEF InitializeWaited, At, Having
<1>2. Types /\ Routed
  BY <1>1, WorkFacts
<1>3. call[c].kind = "ignite"
  BY <1>1, <1>2, PartKinds
<1>4. /\ UNCHANGED <<plan, owned, live, failed>>
      /\ (Stands(c, "initShut") /\ UNCHANGED <<exec, child>>) \/ Abandons(c)
  BY <1>2, <1>3, InitializeWaitedWords
<1>5. CASE Stands(c, "initShut") /\ UNCHANGED <<exec, child>>
  <2>1. "initShut" \in Parts(call[c].kind)
    BY <1>3 DEF Parts
  <2> QED
    BY <1>1, <1>4, <1>5, <2>1, MoveGoes
<1>6. CASE Abandons(c)
  <2>1. Left(call[c].h, call[c].pc)
    BY <1>1, <1>4 DEF Left
  <2> QED
    BY <1>1, <1>4, <1>6, <2>1, AbandonKept
<1> QED
  BY <1>4, <1>5, <1>6

\* The closing of the initializer keeps the invariant.
LEMMA InitializeShutKept ==
    ASSUME IInv, NEW c \in Calls, InitializeShut(c)
    PROVE  IInv'
<1>1. call[c].pc = "initShut" /\ call[c].pc \in Having /\ call[c].pc \in Asking \cup Having
  BY DEF InitializeShut, At, Having
<1>2. Types /\ Routed
  BY <1>1, WorkFacts
<1>3. call[c].kind = "ignite"
  BY <1>1, <1>2, PartKinds
<1>4. /\ UNCHANGED plan
      /\ \/ /\ call[c].h \notin failed /\ owned' = owned \ {call[c].h} /\ UNCHANGED <<exec, child, failed>>
            /\ AsksFor(c, "ignite", "read", call[c].who, live \ {call[c].h})
         \/ Remains(call[c].h) /\ UNCHANGED <<owned, live>> /\ Abandons(c)
  BY <1>2, <1>3, InitializeShutWords
<1>5. CASE /\ owned' = owned \ {call[c].h} /\ UNCHANGED <<exec, child, failed>>
           /\ AsksFor(c, "ignite", "read", call[c].who, live \ {call[c].h})
  <2>1. "read" \in Asking /\ "read" \in Parts("ignite")
    BY DEF Asking, Parts
  <2> QED
    BY <1>1, <1>3, <1>4, <1>5, <2>1, AskGoes
<1>6. CASE Remains(call[c].h) /\ UNCHANGED <<owned, live>> /\ Abandons(c)
  <2>1. Left(call[c].h, call[c].pc)
    BY <1>1, <1>6 DEF Left
  <2> QED
    BY <1>1, <1>4, <1>6, <2>1, AbandonKept
<1> QED
  BY <1>4, <1>5, <1>6

\* The answer to the submission keeps the invariant.
LEMMA SubmitAnswerKept ==
    ASSUME IInv, NEW c \in Calls, SubmitAnswer(c)
    PROVE  IInv'
<1>1. call[c].pc = "submit" /\ call[c].pc \in Asking /\ call[c].pc \in Asking \cup Having
  BY DEF SubmitAnswer, At, Asking
<1>2. /\ Types /\ Routed /\ Phases /\ Shapes /\ Admits /\ Holds /\ ~exec.closed /\ exec.state # "none"
      /\ \A d \in Calls : ~At(d, "cleanup") /\ ~At(d, "acquire")
      /\ call[c].h \in Handles
  BY <1>1, WorkFacts
<1>3. call[c].kind = "ignite" /\ call[c].kind \in Setup /\ call[c].pc \in Working
  BY <1>1, <1>2, PartKinds DEF Setup, Working, At
<1>4. /\ UNCHANGED <<plan, failed>>
      /\ \/ /\ call[c].h \in live /\ owned' = (owned \ Of(owned, "operation")) \cup {call[c].h}
            /\ exec' = [exec EXCEPT !.state = "running", !.cold = FALSE]
            /\ UNCHANGED <<live, child>> /\ Stands(c, "status")
         \/ live' = live \ {call[c].h} /\ owned' = owned /\ Abandons(c)
  BY <1>2, <1>3, SubmitAnswerWords
<1>5. CASE /\ call[c].h \in live /\ owned' = (owned \ Of(owned, "operation")) \cup {call[c].h}
           /\ exec' = [exec EXCEPT !.state = "running", !.cold = FALSE]
           /\ UNCHANGED <<live, child>> /\ Stands(c, "status")
  <2>1. exec.state \in {"prepared", "initializing"} /\ \A d \in Calls \ {c} : call[d].kind \in {"idle", "describe"}
    BY <1>1, <1>2, <1>3, SetupAlone
  <2>2. owned' = owned \cup {call[c].h}
    BY <1>2, <1>5, <2>1 DEF Phases, Ran
  <2>3. exec \in Words /\ "running" \in States
    BY <1>2 DEF Types, States
  <2>4. /\ exec' \in Words /\ exec'.state = "running" /\ exec'.closed = exec.closed /\ exec'.cold = FALSE
        /\ exec'.submitting = exec.submitting /\ exec'.describing = exec.describing
        /\ exec'.deliveries = exec.deliveries /\ exec'.report = exec.report
    BY <1>5, <2>3 DEF Words
  <2>5. Turns(c, "ignite", "status", call[c].h, call[c].who) /\ "status" \in Parts("ignite") /\ "status" \in Having
    BY <1>3, <1>5 DEF Stands, Parts, Having
  <2>6. Shapes'
    <3>1. /\ child' \in [Ids -> Children] /\ owned' \subseteq Handles /\ live' \subseteq Handles /\ failed' \subseteq Handles
          /\ plan' = plan
      BY <1>2, <1>4, <1>5, <2>2 DEF Types
    <3> QED
      BY <1>2, <2>4, <2>5, <3>1, TurnsShapes
  <2>7. Admits'
    <3>1. Fits("ignite", "status", exec') /\ exec'.state \in Ran
      BY <1>2, <2>4 DEF Fits, Later, Ran
    <3> QED
      BY <1>2, <1>3, <1>5, <2>1, <2>4, <2>5, <3>1, AdmitsSetup
  <2>8. Holds'
    <3>1. Kind("status") = Kind(call[c].pc)
      BY <1>1, AskedKinds
    <3> QED
      BY <1>1, <1>2, <1>4, <1>5, <2>2, <2>4, <2>5, <2>6, <3>1, HoldsGrants
  <2> QED
    BY <2>6, <2>7, <2>8 DEF IInv
<1>6. CASE live' = live \ {call[c].h} /\ owned' = owned /\ Abandons(c)
  <2>1. Left(call[c].h, call[c].pc)
    BY <1>1, <1>4, <1>6 DEF Left
  <2> QED
    BY <1>1, <1>4, <1>6, <2>1, AbandonKept
<1> QED
  BY <1>4, <1>5, <1>6

\* The answer to the question for the status keeps the invariant.
LEMMA StatusAnswerKept ==
    ASSUME IInv, NEW c \in Calls, StatusAnswer(c)
    PROVE  IInv'
<1>1. call[c].pc = "status" /\ call[c].pc \in Having /\ call[c].pc \in Asking \cup Having
  BY DEF StatusAnswer, At, Having
<1>2. Types /\ Routed /\ Phases /\ Flags /\ Single
  BY <1>1, WorkFacts
<1>3. call[c].kind = "ignite"
  BY <1>1, <1>2, PartKinds DEF At
<1>4. /\ UNCHANGED <<plan, owned, live, failed>>
      /\ (Idles(c) /\ UNCHANGED <<exec, child>>) \/ Abandons(c)
  BY <1>2, <1>3, StatusAnswerWords
<1>5. Left(call[c].h, call[c].pc)
  BY <1>1, <1>4 DEF Left
<1>6. CASE Idles(c) /\ UNCHANGED <<exec, child>>
  <2>1. Turns(c, "idle", "idle", NoHandle, 0)
    BY <1>6 DEF Idles
  <2>2. exec \in Words /\ child \in [Ids -> Children] /\ ~exec.cold
    BY <1>1, <1>2, <1>3 DEF Types, Phases, Fits
  <2>3. Flags'
    <3>1. \A d \in Calls \ {c} : call[d].kind \in {"childDeliver", "childClose"} => child'[call[d].who].held
      BY <1>2, <1>6 DEF Flags
    <3> QED
      BY <1>2, <1>3, <1>6, <2>1, <2>2, <3>1, FlagsPlain DEF Plain
  <2> QED
    BY <1>1, <1>4, <1>5, <1>6, <2>1, <2>2, <2>3, ReturnKept
<1>7. CASE Abandons(c)
  BY <1>1, <1>4, <1>5, <1>7, AbandonKept
<1> QED
  BY <1>4, <1>6, <1>7

\* The answer to an external submission keeps the invariant.
LEMMA AttachAnswerKept ==
    ASSUME IInv, NEW c \in Calls, AttachAnswer(c)
    PROVE  IInv'
<1>1. call[c].pc = "attach" /\ call[c].pc \in Asking /\ call[c].pc \in Asking \cup Having /\ Kind("attach") = "child"
  BY AskedKinds DEF AttachAnswer, At, Asking
<1>2. /\ Types /\ Routed /\ Phases /\ Single /\ Flags /\ Shapes /\ Admits /\ Holds /\ Own /\ ~exec.closed /\ exec.state # "none"
      /\ \A d \in Calls : ~At(d, "cleanup") /\ ~At(d, "acquire")
      /\ call[c].h \in Handles /\ call[c].h[1] = "child"
  BY <1>1, WorkFacts
<1>3. call[c].kind = "external"
  BY <1>1, <1>2, PartKinds DEF At
<1>4. /\ UNCHANGED <<plan, failed>>
      /\ \/ /\ call[c].h \in live /\ owned' = owned \cup {call[c].h}
            /\ child' = [child EXCEPT ![call[c].h[2]] = [NoChild EXCEPT !.held = TRUE]]
            /\ exec' = [exec EXCEPT !.submitting = FALSE] /\ UNCHANGED live /\ Idles(c)
         \/ live' = live \ {call[c].h} /\ owned' = owned /\ Abandons(c)
  BY <1>2, <1>3, AttachAnswerWords
<1>5. CASE /\ call[c].h \in live /\ owned' = owned \cup {call[c].h}
           /\ child' = [child EXCEPT ![call[c].h[2]] = [NoChild EXCEPT !.held = TRUE]]
           /\ exec' = [exec EXCEPT !.submitting = FALSE] /\ UNCHANGED live /\ Idles(c)
  <2> DEFINE w == call[c].h[2]
             n == [NoChild EXCEPT !.held = TRUE]
  <2>1. exec.state \in Ran
    BY <1>2, <1>3 DEF Phases, Fits, Later
  <2>2. w \in Ids /\ ~child[w].held /\ call[c].h = <<"child", w>>
    BY <1>1, <1>2, HandlePairs DEF Own
  <2>3. exec \in Words /\ child \in [Ids -> Children] /\ exec.deliveries \in Int /\ exec.deliveries <= MaxTransfers
    BY <1>2 DEF Types, Words, Flags
  <2>4. /\ exec' \in Words /\ exec'.state = exec.state /\ exec'.closed = exec.closed /\ exec'.cold = exec.cold
        /\ exec'.submitting = FALSE /\ exec'.describing = exec.describing
        /\ exec'.deliveries = exec.deliveries /\ exec'.report = exec.report
    BY <1>5, <2>3 DEF Words
  <2>5. n \in Children /\ n.held = TRUE /\ n.busy = FALSE
    BY DEF NoChild, Children
  <2>6. child' = [child EXCEPT ![w] = n]
    BY <1>5
  <2> HIDE DEF n
  <2>7. /\ child' \in [Ids -> Children] /\ child'[w] = n /\ \A i \in Ids : i # w => child'[i] = child[i]
    BY <2>2, <2>3, <2>5, <2>6
  <2>8. Turns(c, "idle", "idle", NoHandle, 0)
    BY <1>5 DEF Idles
  <2>9. Shapes'
    <3>1. owned' \subseteq Handles /\ live' \subseteq Handles /\ failed' \subseteq Handles /\ plan' = plan
      BY <1>2, <1>4, <1>5 DEF Types
    <3> QED
      BY <1>2, <2>4, <2>7, <2>8, <3>1, ReturnShapes
  <2>10. \A d \in Calls : call[d].kind \in {"childDeliver", "childClose"} => call[d].who # w /\ call[d].who \in Ids
    BY <1>2, <2>2 DEF Flags
  <2>11. Flags'
    <3>1. ~Others(c, "external")
      BY <1>2, <1>3 DEF Others, Single
    <3>2. exec'.describing <=> "idle" = "describe" \/ Others(c, "describe")
      BY <1>2, <1>3, <2>4 DEF Flags, Others
    <3>3. exec'.cold => \E d \in Calls \ {c} : call[d].kind \in Setup
      BY <1>2, <1>3, <2>4 DEF Flags, Setup
    <3>4. \A i \in Ids : child'[i].busy <=> \E d \in Calls \ {c} : call[d].kind = "childDeliver" /\ call[d].who = i
      <4> SUFFICES ASSUME NEW i \in Ids
                   PROVE  child'[i].busy <=> \E d \in Calls \ {c} : call[d].kind = "childDeliver" /\ call[d].who = i
        OBVIOUS
      <4>1. CASE i = w
        BY <2>5, <2>7, <2>10, <4>1
      <4>2. CASE i # w
        BY <1>2, <1>3, <2>7, <4>2 DEF Flags
      <4> QED
        BY <4>1, <4>2
    <3>5. \A d \in Calls \ {c} : call[d].kind \in {"childDeliver", "childClose"} => child'[call[d].who].held
      BY <1>2, <2>7, <2>10 DEF Flags
    <3>6. exec'.deliveries = exec.deliveries + 0 - 0 /\ exec'.deliveries <= MaxTransfers
      BY <2>3, <2>4
    <3> QED
      BY <1>2, <1>3, <2>4, <2>8, <3>1, <3>2, <3>3, <3>4, <3>5, <3>6, FlagsTurns
  <2>12. Admits'
    <3>1. \A i \in Ids : child'[i].held => exec.state \in Ran
      BY <2>1
    <3> QED
      BY <1>2, <2>1, <2>4, <2>8, <2>11, <3>1, AdmitsReturn
  <2>13. Holds'
    <3>1. \A i \in Ids : child'[i].held => child[i].held \/ <<"child", i>> = call[c].h
      BY <2>2, <2>7
    <3> QED
      BY <1>1, <1>2, <1>4, <1>5, <2>4, <2>8, <2>9, <3>1, HoldsGrants
  <2> QED
    BY <2>9, <2>12, <2>13 DEF IInv
<1>6. CASE live' = live \ {call[c].h} /\ owned' = owned /\ Abandons(c)
  <2>1. Left(call[c].h, call[c].pc)
    BY <1>1, <1>4, <1>6 DEF Left
  <2> QED
    BY <1>1, <1>4, <1>6, <2>1, AbandonKept
<1> QED
  BY <1>4, <1>5, <1>6

\* The end of an external operation keeps the invariant.
LEMMA ChildWaitedKept ==
    ASSUME IInv, NEW c \in Calls, ChildWaited(c)
    PROVE  IInv'
<1>1. /\ Types /\ Routed /\ Phases /\ Flags /\ Shapes /\ Admits /\ Holds
  BY DEF IInv, Shapes, Admits
<1>2. /\ At(c, "childWait") /\ UNCHANGED <<plan, exec, owned, live, failed>> /\ Idles(c)
      /\ \/ child' = [child EXCEPT ![call[c].who].completed = child[call[c].who].held]
         \/ UNCHANGED child
  BY <1>1, OtherAnswers
<1>3. call[c].kind = "childWait" /\ exec.state \in Ran /\ exec.state # "none"
  BY <1>1, <1>2, PartKinds DEF Phases, Fits, Later, Ran
<1>4. /\ exec \in Words /\ child \in [Ids -> Children]
  BY <1>1 DEF Types
<1>5. /\ child' \in [Ids -> Children]
      /\ \A i \in Ids : child'[i].held = child[i].held /\ child'[i].busy = child[i].busy
  <2>1. CASE UNCHANGED child
    BY <1>4, <2>1
  <2>2. CASE child' = [child EXCEPT ![call[c].who].completed = child[call[c].who].held]
    <3> DEFINE w == call[c].who
               r == [child[w] EXCEPT !.completed = child[w].held]
    <3>1. child' = [child EXCEPT ![w] = r]
      BY <2>2
    <3>2. w \in Ids => r \in Children /\ r.held = child[w].held /\ r.busy = child[w].busy
      BY <1>4 DEF Children
    <3> HIDE DEF r
    <3> QED
      BY <1>4, <3>1, <3>2
  <2> QED
    BY <1>2, <2>1, <2>2
<1>6. Turns(c, "idle", "idle", NoHandle, 0) /\ "idle" \notin Asking \cup Having
      /\ call[c].pc \notin Asking \cup Having /\ ~At(c, "cleanup")
  BY <1>2 DEF Idles, At, Asking, Having, Transfer
<1>7. Shapes'
  <2>1. owned' \subseteq Handles /\ live' \subseteq Handles /\ failed' \subseteq Handles /\ plan' = plan /\ exec' \in Words
    BY <1>1, <1>2 DEF Types
  <2> QED
    BY <1>1, <1>5, <1>6, <2>1, ReturnShapes
<1>8. Flags'
  <2>1. exec.cold => \E d \in Calls \ {c} : call[d].kind \in Setup
    BY <1>1, <1>3 DEF Flags, Setup
  <2>2. \A d \in Calls \ {c} : call[d].kind \in {"childDeliver", "childClose"} => child'[call[d].who].held
    BY <1>1, <1>5 DEF Flags
  <2> QED
    BY <1>1, <1>2, <1>3, <1>5, <1>6, <2>1, <2>2, FlagsPlain DEF Plain
<1>9. Admits'
  BY <1>1, <1>2, <1>3, <1>6, <1>8, AdmitsReturn
<1>10. Holds'
  <2>1. \A d \in Calls : ~At(d, "acquire")
    BY <1>1, <1>3, PartKinds DEF Phases, Fits
  <2> QED
    BY <1>1, <1>2, <1>3, <1>5, <1>6, <1>7, <2>1, HoldsSteady
<1> QED
  BY <1>7, <1>9, <1>10 DEF IInv

\* The end of a wait keeps the invariant, also when the execution was closed meanwhile.
LEMMA WaitedKept ==
    ASSUME IInv, NEW c \in Calls, Waited(c)
    PROVE  IInv'
<1>1. /\ Types /\ Routed /\ Phases /\ Single /\ Flags /\ ClosesAlone /\ Shapes /\ Admits /\ Holds
  BY DEF IInv, Shapes, Admits
<1>2. /\ At(c, "wait") /\ Rest /\ Idles(c)
      /\ exec' \in {exec, [exec EXCEPT !.state = "completed"]}
  BY <1>1, OtherAnswers
<1>3. call[c].kind = "wait" /\ exec.state \in Ran /\ exec.state # "none"
  BY <1>1, <1>2, PartKinds DEF Phases, Fits, Later, Ran
<1>4. /\ exec \in Words /\ "completed" \in States
  BY <1>1 DEF Types, States
<1>5. /\ exec' \in Words /\ exec'.state \in {exec.state, "completed"} /\ exec'.closed = exec.closed /\ exec'.cold = exec.cold
      /\ exec'.submitting = exec.submitting /\ exec'.describing = exec.describing
      /\ exec'.deliveries = exec.deliveries /\ exec'.report = exec.report
  <2>1. LET e == [exec EXCEPT !.state = "completed"]
        IN  /\ e \in Words /\ e.state = "completed" /\ e.closed = exec.closed /\ e.cold = exec.cold
            /\ e.submitting = exec.submitting /\ e.describing = exec.describing
            /\ e.deliveries = exec.deliveries /\ e.report = exec.report
    BY <1>4 DEF Words
  <2> QED
    BY <1>2, <1>4, <2>1
<1>6. Turns(c, "idle", "idle", NoHandle, 0) /\ "idle" \notin Asking \cup Having
      /\ call[c].pc \notin Asking \cup Having /\ ~At(c, "cleanup")
  BY <1>2 DEF Idles, At, Asking, Having, Transfer
<1>7. Shapes'
  <2>1. owned' \subseteq Handles /\ live' \subseteq Handles /\ failed' \subseteq Handles /\ plan' = plan /\ child' \in [Ids -> Children]
    BY <1>1, <1>2 DEF Types, Rest
  <2> QED
    BY <1>1, <1>5, <1>6, <2>1, ReturnShapes
<1>8. Flags'
  <2>1. exec'.cold => \E d \in Calls \ {c} : call[d].kind \in Setup
    BY <1>1, <1>3, <1>5 DEF Flags, Setup
  <2>2. \A d \in Calls \ {c} : call[d].kind \in {"childDeliver", "childClose"} => child'[call[d].who].held
    BY <1>1, <1>2 DEF Flags, Rest
  <2> QED
    BY <1>1, <1>2, <1>3, <1>5, <1>6, <2>1, <2>2, FlagsPlain DEF Plain, Rest
<1>9. Phases'
  <2>1. exec'.state \in Ran /\ exec'.state # "none"
    BY <1>3, <1>5 DEF Ran
  <2>2. \A d \in Calls : Fits(call[d].kind, call[d].pc, exec') /\ call[d].kind # "prepare"
    BY <1>1, <1>3, <1>5, <2>1 DEF Phases, Fits, Ran
  <2>3. Fits("idle", "idle", exec')
    BY DEF Fits, Later
  <2>4. (exec'.closed => exec'.state \in {"completed", "closed"}) /\ (exec'.state = "closed" => exec'.closed)
    BY <1>1, <1>5 DEF Phases
  <2> QED
    BY <1>1, <1>6, <2>1, <2>2, <2>3, <2>4, PhasesTurns
<1>10. Single' /\ ClosesAlone'
  BY <1>1, <1>6, JoinsStays, SingleTurns, BesideStays, AloneTurns
<1>11. Holds'
  <2>1. \A d \in Calls : ~At(d, "acquire")
    BY <1>1, <1>3, PartKinds DEF Phases, Fits
  <2> QED
    BY <1>1, <1>2, <1>3, <1>5, <1>6, <1>7, <2>1, HoldsSteady DEF Rest
<1> QED
  BY <1>7, <1>8, <1>9, <1>10, <1>11 DEF IInv, Admits

\* The end of a description keeps the invariant.
LEMMA DescribedKept ==
    ASSUME IInv, NEW c \in Calls, Described(c)
    PROVE  IInv'
<1>1. /\ Types /\ Routed /\ Phases /\ Single /\ Flags /\ ClosesAlone /\ Shapes /\ Admits /\ Holds
  BY DEF IInv, Shapes, Admits
<1>2. At(c, "describe") /\ Rest /\ Idles(c) /\ exec' = [exec EXCEPT !.describing = FALSE]
  BY <1>1, OtherAnswers
<1>3. call[c].kind = "describe"
  BY <1>1, <1>2, PartKinds
<1>4. exec.state # "none" /\ \A d \in Calls : ~At(d, "acquire")
  <2>1. exec.state # "none"
    BY <1>1, <1>3 DEF Phases
  <2> QED
    BY <1>1, <2>1, PartKinds DEF Phases, Fits
<1>5. /\ exec \in Words /\ exec.deliveries \in Int /\ exec.deliveries <= MaxTransfers /\ child' = child
  BY <1>1, <1>2 DEF Types, Words, Flags, Rest
<1>6. /\ exec' \in Words /\ exec'.state = exec.state /\ exec'.closed = exec.closed /\ exec'.cold = exec.cold
      /\ exec'.submitting = exec.submitting /\ exec'.describing = FALSE
      /\ exec'.deliveries = exec.deliveries /\ exec'.report = exec.report
  BY <1>2, <1>5 DEF Words
<1>7. Turns(c, "idle", "idle", NoHandle, 0) /\ "idle" \notin Asking \cup Having
      /\ call[c].pc \notin Asking \cup Having /\ ~At(c, "cleanup")
  BY <1>2 DEF Idles, At, Asking, Having, Transfer
<1>8. Shapes'
  <2>1. owned' \subseteq Handles /\ live' \subseteq Handles /\ failed' \subseteq Handles /\ plan' = plan /\ child' \in [Ids -> Children]
    BY <1>1, <1>2 DEF Types, Rest
  <2> QED
    BY <1>1, <1>6, <1>7, <2>1, ReturnShapes
<1>9. Flags'
  <2>1. exec'.submitting <=> "idle" = "external" \/ Others(c, "external")
    BY <1>1, <1>3, <1>6 DEF Flags, Others
  <2>2. ~Others(c, "describe")
    BY <1>1, <1>3 DEF Single, Others
  <2>3. exec'.cold => \E d \in Calls \ {c} : call[d].kind \in Setup
    BY <1>1, <1>3, <1>6 DEF Flags, Setup
  <2>4. \A i \in Ids : child'[i].busy <=> \E d \in Calls \ {c} : call[d].kind = "childDeliver" /\ call[d].who = i
    BY <1>1, <1>3, <1>5 DEF Flags
  <2>5. \A d \in Calls \ {c} : call[d].kind \in {"childDeliver", "childClose"} => child'[call[d].who].held
    BY <1>1, <1>5 DEF Flags
  <2>6. exec'.deliveries = exec.deliveries + 0 - 0 /\ exec'.deliveries <= MaxTransfers
    BY <1>5, <1>6
  <2> QED
    BY <1>1, <1>3, <1>6, <1>7, <2>1, <2>2, <2>3, <2>4, <2>5, <2>6, FlagsTurns
<1>10. Admits'
  <2>1. (\A i \in Ids : child'[i].held => exec.state \in Ran) /\ (Of(owned', "operation") # {} => exec.state \in Ran)
    BY <1>1, <1>2 DEF Phases, Rest
  <2> QED
    BY <1>1, <1>4, <1>6, <1>7, <1>9, <2>1, AdmitsReturn
<1>11. Holds'
  BY <1>1, <1>2, <1>4, <1>6, <1>7, <1>8, HoldsSteady DEF Rest
<1> QED
  BY <1>8, <1>10, <1>11 DEF IInv

\* The closing of an external operation, for a delivery or for good, keeps the
\* invariant.
LEMMA YieldAnswerKept ==
    ASSUME IInv, NEW c \in Calls, YieldAnswer(c)
    PROVE  IInv'
<1>1. /\ Types /\ Routed /\ Phases /\ Single /\ Flags /\ ClosesAlone /\ Shapes /\ Admits /\ Holds /\ Own /\ Known
  BY DEF IInv, Shapes, Admits, Holds
<1> DEFINE w == call[c].who
           h == <<"child", w>>
<1>2. At(c, "yield") /\ UNCHANGED <<plan, exec>>
  BY DEF YieldAnswer
<1>3. call[c].kind \in {"childDeliver", "childClose"}
  BY <1>1, <1>2, PartKinds
<1>4. /\ w \in Ids /\ child[w].held /\ h \in owned /\ h[1] = "child" /\ h \in Handles
  BY <1>1, <1>3 DEF Flags, Own, Types
<1>5. exec.state \in Ran /\ exec.state # "none" /\ \A d \in Calls : ~At(d, "acquire") /\ ~At(d, "cleanup")
  <2>1. exec.state \in Ran /\ exec.state # "none"
    BY <1>1, <1>3 DEF Phases, Fits, Later, Ran
  <2>2. \A d \in Calls : ~At(d, "acquire")
    BY <1>1, <2>1, PartKinds DEF Phases, Fits, Ran
  <2>3. \A d \in Calls : ~At(d, "cleanup")
    BY <1>1, <1>2, <1>3 DEF ClosesAlone, At
  <2> QED
    BY <2>1, <2>2, <2>3
<1>6. call[c].pc \notin Asking \cup Having
  BY <1>2 DEF At, Asking, Having, Transfer
<1>7. exec \in Words /\ child \in [Ids -> Children] /\ exec.deliveries \in Int /\ exec.deliveries <= MaxTransfers
  BY <1>1 DEF Types, Words, Flags
<1>8. exec.closed => h \in failed
  BY <1>1, <1>4 DEF Known
<1>9. ASSUME \A i \in Ids : child'[i].held => child[i].held PROVE Clear(c, {h})
  <2> SUFFICES ASSUME NEW d \in Calls \ {c}, call[d].pc \in Asking \cup Having
               PROVE  call[d].h # h /\ (call[d].h[1] = "child" => ~child'[call[d].h[2]].held)
    BY DEF Clear
  <2>1. call[d].h[2] \in Ids /\ (call[d].h[1] = "child" => ~child[call[d].h[2]].held)
    BY <1>1 DEF Own
  <2> QED
    BY <1>4, <1>9, <2>1
<1>10. /\ \/ /\ call[c].kind = "childDeliver" /\ h \notin failed /\ UNCHANGED <<child, owned, failed>>
             /\ AsksFor(c, "childDeliver", "read", w, live \ {h})
          \/ /\ call[c].kind = "childClose" /\ h \notin failed /\ UNCHANGED failed
             /\ owned' = owned \ {h} /\ live' = live \ {h}
             /\ child' = [child EXCEPT ![w] = NoChild] /\ Idles(c)
          \/ /\ Remains(h) /\ UNCHANGED <<owned, live>> /\ Idles(c)
             /\ child' = [child EXCEPT ![w].busy = IF call[c].kind = "childDeliver" THEN FALSE ELSE @]
  BY <1>1, YieldAnswerWords
<1> HIDE DEF h
<1>11. CASE /\ call[c].kind = "childDeliver" /\ h \notin failed /\ UNCHANGED <<child, owned, failed>>
            /\ AsksFor(c, "childDeliver", "read", w, live \ {h})
  <2>1. PICK g \in Handles : Turns(c, "childDeliver", "read", g, w) /\ live' \subseteq live \cup {g}
    BY <1>11 DEF AsksFor
  <2>2. ~exec.closed
    BY <1>8, <1>11
  <2>3. Shapes'
    <3>1. owned' \subseteq Handles /\ live' \subseteq Handles /\ failed' \subseteq Handles /\ plan' = plan
          /\ exec' \in Words /\ child' \in [Ids -> Children]
      BY <1>1, <1>2, <1>11, <2>1 DEF Types
    <3>2. "read" \in Parts("childDeliver")
      BY DEF Parts
    <3> QED
      BY <1>1, <2>1, <3>1, <3>2, TurnsShapes
  <2>4. Admits'
    <3>1. Flags'
      BY <1>1, <1>2, <1>11, <2>1, FlagsStay
    <3>2. Fits("childDeliver", "read", exec')
      BY <1>2, <1>5, <2>2 DEF Fits
    <3>3. Joins(c, "childDeliver", w) /\ Beside(c, "childDeliver")
      BY <1>1, <1>5, <1>11, JoinsStays, BesideStays
    <3> QED
      BY <1>1, <1>2, <1>5, <1>11, <2>1, <3>1, <3>2, <3>3, AdmitsStarts
  <2>5. Holds'
    <3>1. "read" \in Asking /\ {h} \in SUBSET Handles /\ failed \cap {h} = {} /\ \A x \in {h} : x[1] = "child"
      BY <1>4, <1>11 DEF Asking
    <3>2. Clear(c, {h})
      BY <1>9, <1>11
    <3>3. \A i \in Ids : child[i].held => <<"child", i>> \in owned'
      BY <1>1, <1>11 DEF Own
    <3>4. owned' \in {owned, owned \ {h}} /\ failed' = failed /\ child' = child /\ exec' = exec
      BY <1>2, <1>11
    <3> QED
      BY <1>1, <1>5, <1>6, <1>11, <2>2, <2>3, <3>1, <3>2, <3>3, <3>4, HoldsAsks
  <2> QED
    BY <2>3, <2>4, <2>5 DEF IInv
<1>12. CASE /\ call[c].kind = "childClose" /\ h \notin failed /\ UNCHANGED failed
            /\ owned' = owned \ {h} /\ live' = live \ {h}
            /\ child' = [child EXCEPT ![w] = NoChild] /\ Idles(c)
  <2>1. Turns(c, "idle", "idle", NoHandle, 0)
    BY <1>12 DEF Idles
  <2>2. NoChild \in Children /\ NoChild.held = FALSE /\ NoChild.busy = FALSE
    BY DEF NoChild, Children
  <2>3. child' \in [Ids -> Children] /\ child'[w] = NoChild /\ \A i \in Ids : i # w => child'[i] = child[i]
    BY <1>4, <1>7, <1>12, <2>2
  <2>4. Shapes'
    <3>1. owned' \subseteq Handles /\ live' \subseteq Handles /\ failed' \subseteq Handles /\ plan' = plan /\ exec' \in Words
      BY <1>1, <1>2, <1>12 DEF Types
    <3> QED
      BY <1>1, <2>1, <2>3, <3>1, ReturnShapes
  <2>5. \A d \in Calls \ {c} : call[d].kind \in {"childDeliver", "childClose"} => call[d].who # w /\ call[d].who \in Ids
    BY <1>1, <1>12 DEF Single, Flags
  <2>6. Flags'
    <3>1. \A i \in Ids : child'[i].busy = child[i].busy
      <4>1. child[w].busy = FALSE
        <5>1. ~\E d \in Calls : call[d].kind = "childDeliver" /\ call[d].who = w
          BY <1>12, <2>5
        <5>2. child[w].busy \in BOOLEAN
          BY <1>4, <1>7 DEF Children
        <5> QED
          BY <1>1, <1>4, <5>1, <5>2 DEF Flags
      <4> QED
        BY <2>2, <2>3, <4>1
    <3>2. \A d \in Calls \ {c} : call[d].kind \in {"childDeliver", "childClose"} => child'[call[d].who].held
      BY <1>1, <2>3, <2>5 DEF Flags
    <3>3. exec.cold => \E d \in Calls \ {c} : call[d].kind \in Setup
      BY <1>1, <1>12 DEF Flags, Setup
    <3> QED
      BY <1>1, <1>2, <1>12, <2>1, <3>1, <3>2, <3>3, FlagsPlain DEF Plain
  <2>7. Admits'
    <3>1. (\A i \in Ids : child'[i].held => exec.state \in Ran) /\ (Of(owned', "operation") # {} => exec.state \in Ran)
      BY <1>5
    <3> QED
      BY <1>1, <1>2, <1>5, <2>1, <2>6, <3>1, AdmitsReturn
  <2>8. Holds'
    <3>1. \A i \in Ids : child'[i].held => child[i].held /\ <<"child", i>> # h
      BY <2>2, <2>3, <1>4 DEF h
    <3>2. Only({h}) /\ h \notin live' /\ h \notin failed' /\ live' \subseteq live /\ owned' \subseteq owned
      BY <1>12 DEF Only
    <3>3. \A i \in Ids : child'[i].held => <<"child", i>> \in owned'
      BY <1>1, <1>12, <3>1 DEF Own
    <3>4. exec.closed => \A i \in Ids : child'[i].held => <<"child", i>> \in failed'
      BY <1>8, <1>12
    <3>5. Clear(c, {h})
      BY <1>9, <3>1
    <3> QED
      BY <1>1, <1>2, <1>4, <1>5, <1>6, <2>1, <2>4, <3>2, <3>3, <3>4, <3>5, HoldsLeaves
  <2> QED
    BY <2>4, <2>7, <2>8 DEF IInv
<1>13. CASE /\ Remains(h) /\ UNCHANGED <<owned, live>> /\ Idles(c)
            /\ child' = [child EXCEPT ![w].busy = IF call[c].kind = "childDeliver" THEN FALSE ELSE @]
  <2>1. Turns(c, "idle", "idle", NoHandle, 0)
    BY <1>13 DEF Idles
  <2> DEFINE b == IF call[c].kind = "childDeliver" THEN FALSE ELSE child[w].busy
             r == [child[w] EXCEPT !.busy = b]
  <2>2. child' = [child EXCEPT ![w] = r]
    BY <1>4, <1>7, <1>13
  <2>3. r \in Children /\ r.held = child[w].held /\ r.busy = b
    BY <1>4, <1>7 DEF Children
  <2> HIDE DEF r
  <2>4. /\ child' \in [Ids -> Children]
        /\ \A i \in Ids : /\ child'[i].held = child[i].held
                          /\ child'[i].busy = (IF i = w THEN b ELSE child[i].busy)
    BY <1>4, <1>7, <2>2, <2>3
  <2>5. h \in live /\ h \in owned
    BY <1>1, <1>4, <1>13 DEF Remains, Known
  <2>6. Shapes'
    <3>1. owned' \subseteq Handles /\ live' \subseteq Handles /\ failed' \subseteq Handles /\ plan' = plan /\ exec' \in Words
      BY <1>1, <1>2, <1>4, <1>13 DEF Types, Remains
    <3> QED
      BY <1>1, <2>1, <2>4, <3>1, ReturnShapes
  <2>7. Flags'
    <3>1. exec'.submitting <=> "idle" = "external" \/ Others(c, "external")
      BY <1>1, <1>2, <1>3 DEF Flags, Others
    <3>2. exec'.describing <=> "idle" = "describe" \/ Others(c, "describe")
      BY <1>1, <1>2, <1>3 DEF Flags, Others
    <3>3. exec'.cold => \E d \in Calls \ {c} : call[d].kind \in Setup
      BY <1>1, <1>2, <1>3 DEF Flags, Setup
    <3>4. \A i \in Ids : child'[i].busy <=> \E d \in Calls \ {c} : call[d].kind = "childDeliver" /\ call[d].who = i
      <4> SUFFICES ASSUME NEW i \in Ids
                   PROVE  child'[i].busy <=> \E d \in Calls \ {c} : call[d].kind = "childDeliver" /\ call[d].who = i
        OBVIOUS
      <4>1. CASE i = w
        <5>1. call[c].kind = "childDeliver" => \A d \in Calls \ {c} : ~(call[d].kind = "childDeliver" /\ call[d].who = w)
          BY <1>1 DEF Single
        <5>2. CASE call[c].kind = "childDeliver"
          BY <2>4, <4>1, <5>1, <5>2
        <5>3. CASE call[c].kind # "childDeliver"
          BY <1>1, <2>4, <4>1, <5>3 DEF Flags
        <5> QED
          BY <5>2, <5>3
      <4>2. CASE i # w
        BY <1>1, <2>4, <4>2 DEF Flags
      <4> QED
        BY <4>1, <4>2
    <3>5. \A d \in Calls \ {c} : call[d].kind \in {"childDeliver", "childClose"} => child'[call[d].who].held
      BY <1>1, <2>4 DEF Flags
    <3>6. exec'.deliveries = exec.deliveries + 0 - 0 /\ exec'.deliveries <= MaxTransfers
      BY <1>2, <1>7
    <3> QED
      BY <1>1, <1>3, <2>1, <3>1, <3>2, <3>3, <3>4, <3>5, <3>6, FlagsTurns
  <2>8. Admits'
    <3>1. (\A i \in Ids : child'[i].held => exec.state \in Ran) /\ (Of(owned', "operation") # {} => exec.state \in Ran)
      BY <1>5
    <3> QED
      BY <1>1, <1>2, <1>5, <2>1, <2>7, <3>1, AdmitsReturn
  <2>9. Holds'
    <3>1. Only({h}) /\ failed \subseteq failed'
      BY <1>13 DEF Only, Remains
    <3>2. \A i \in Ids : child'[i].held => <<"child", i>> \in owned'
      BY <1>1, <1>13, <2>4 DEF Own
    <3>3. exec.closed => \A i \in Ids : child'[i].held => <<"child", i>> \in failed'
      BY <1>1, <2>4, <3>1 DEF Known
    <3>4. Clear(c, {h})
      BY <1>9, <2>4
    <3>5. live' \subseteq live /\ owned' \subseteq owned /\ h \in live' /\ h \in owned'
      BY <1>13, <2>5
    <3> QED
      BY <1>1, <1>2, <1>4, <1>5, <1>6, <2>1, <2>6, <3>1, <3>2, <3>3, <3>4, <3>5, HoldsLeaves
  <2> QED
    BY <2>6, <2>8, <2>9 DEF IInv
<1> QED
  BY <1>10, <1>11, <1>12, <1>13

\* What is made from the handles of a stage is gone when the stage begins: it
\* was closed at an earlier one, or what was kept there would have skipped this.
LEMMA StageSafe ==
    ASSUME Types, NEW c \in Calls, SweepingAt(c), NEW g \in owned, Stages[call[c].stage] \in ParentKinds(g[1])
    PROVE  FALSE
<1> DEFINE s == call[c].stage
           kept == call[c].kept
           S == Stages[s]
           clean == kept \ Of(kept, S)
<1>1. /\ s \in 1 .. 9 /\ \A t \in 1 .. s - 1 : Of(owned, Stages[t]) \subseteq kept \/ Skipped(Stages[t], kept)
      /\ ~Skipped(S, clean) /\ g \in Handles /\ g[1] \in Kinds
  BY HandlePairs DEF SweepingAt, Passed, Types
<1>2. ASSUME NEW k \in Kinds, k # S, Of(clean, k) = {} PROVE Of(kept, k) = {}
  BY <1>2 DEF Of
<1>3. Of(clean, "child") = {} /\ Of(clean, "operation") = {}
  BY <1>1 DEF Skipped
<1>4. ASSUME NEW t \in 1 .. s - 1, Stages[t] = g[1], Of(kept, g[1]) = {}, ~Skipped(g[1], kept) PROVE FALSE
  <2>1. g \in Of(owned, Stages[t])
    BY <1>4 DEF Of
  <2>2. g \in kept
    BY <1>1, <1>4, <2>1
  <2> QED
    BY <1>4, <2>2 DEF Of
<1>5. s = 1 \/ s = 2 \/ s = 3 \/ s = 4 \/ s = 5 \/ s = 6 \/ s = 7 \/ s = 8 \/ s = 9
  BY <1>1
<1> HIDE DEF kept, s
<1>6. CASE S \in {"function", "view", "mailbox"}
  <2>1. g[1] \in {"child", "operation"}
    BY <1>1, <1>6 DEF ParentKinds, Kinds, s
  <2>2. Of(kept, "child") = {} /\ Of(kept, "operation") = {}
    BY <1>2, <1>3, <1>6 DEF Kinds
  <2>3. ~Skipped(g[1], kept)
    BY <2>1, <2>2 DEF Skipped
  <2>4. s \in {4, 6, 7}
    BY <1>5, <1>6, StageKinds
  <2>5. \E t \in 1 .. s - 1 : Stages[t] = g[1]
    <3>1. 1 \in 1 .. s - 1 /\ 3 \in 1 .. s - 1
      BY <2>4
    <3> QED
      BY <2>1, <3>1, StageKinds
  <2> QED
    BY <1>4, <2>1, <2>2, <2>3, <2>5
<1>7. CASE S = "module"
  <2>1. g[1] = "function"
    BY <1>1, <1>7 DEF ParentKinds, Kinds, s
  <2>2. Of(kept, "child") = {} /\ Of(kept, "operation") = {} /\ Of(kept, "function") = {}
    <3>1. Of(clean, "function") = {}
      BY <1>1, <1>7 DEF Skipped
    <3> QED
      BY <1>2, <1>3, <1>7, <3>1 DEF Kinds
  <2>3. ~Skipped(g[1], kept)
    BY <2>1, <2>2 DEF Skipped
  <2>4. s = 5
    BY <1>5, <1>7, StageKinds
  <2>5. 4 \in 1 .. s - 1 /\ Stages[4] = g[1]
    BY <2>1, <2>4, StageKinds
  <2> QED
    BY <1>4, <2>1, <2>2, <2>3, <2>5
<1>8. CASE S = "memory"
  <2>1. g[1] \in {"view", "xfer"}
    BY <1>1, <1>8 DEF ParentKinds, Kinds, s
  <2>2. Of(kept, "child") = {} /\ Of(kept, "operation") = {} /\ Of(kept, "view") = {} /\ Of(kept, "xfer") = {}
    <3>1. Of(clean, "view") = {} /\ Of(clean, "xfer") = {}
      BY <1>1, <1>8 DEF Skipped
    <3> QED
      BY <1>2, <1>3, <1>8, <3>1 DEF Kinds
  <2>3. ~Skipped(g[1], kept)
    BY <2>1, <2>2 DEF Skipped
  <2>4. s = 8
    BY <1>5, <1>8, StageKinds
  <2>5. 2 \in 1 .. s - 1 /\ 7 \in 1 .. s - 1 /\ Stages[2] = "xfer" /\ Stages[7] = "view"
    BY <2>4, StageKinds
  <2> QED
    BY <1>4, <2>1, <2>2, <2>3, <2>5
<1>9. CASE S = "runtime"
  <2>1. g[1] \in {"module", "memory", "mailbox"}
    BY <1>1, <1>9 DEF ParentKinds, Kinds, s
  <2>2. clean = {}
    BY <1>1, <1>9 DEF Skipped
  <2>3. \A k \in Kinds : k # "runtime" => Of(kept, k) = {}
    BY <1>2, <1>9, <2>2 DEF Of
  <2>4. ~Skipped(g[1], kept) /\ Of(kept, g[1]) = {}
    BY <2>1, <2>3 DEF Skipped, Kinds
  <2>5. s = 9
    BY <1>5, <1>9, StageKinds
  <2>6. /\ 5 \in 1 .. s - 1 /\ 6 \in 1 .. s - 1 /\ 8 \in 1 .. s - 1
        /\ Stages[5] = "module" /\ Stages[6] = "mailbox" /\ Stages[8] = "memory"
    BY <2>5, StageKinds
  <2> QED
    BY <1>4, <2>1, <2>4, <2>6
<1>10. S \in {"function", "view", "mailbox", "module", "memory", "runtime"}
  BY <1>1 DEF ParentKinds, s
<1> QED
  BY <1>6, <1>7, <1>8, <1>9, <1>10

\* A step of a cleanup keeps the invariant: a handle is closed that nothing is
\* made from, or it stays and is remembered.
LEMMA CleanupStepKept ==
    ASSUME IInv, NEW c \in Calls, CleanupStep(c)
    PROVE  IInv'
<1>1. /\ Types /\ Routed /\ Phases /\ Single /\ Flags /\ ClosesAlone /\ Shapes
      /\ Own /\ Known /\ Based /\ Sweeping /\ DependencySafe /\ Reported
  BY DEF IInv, Shapes, Admits, Holds
<1>2. At(c, "cleanup")
  BY DEF CleanupStep
<1>3. PICK kind \in {"prepare", "preinitialize", "ignite", "close"} : kind = call[c].kind
  BY <1>1, <1>2, PartKinds
<1>4. Alone(c, kind) /\ ~exec.closed /\ SweepingAt(c)
  BY <1>1, <1>2, <1>3, AloneStays DEF Sweeping
<1>5. \A d \in Calls \ {c} : /\ call[d].pc \notin Asking \cup Having
                             /\ call[d].kind \notin Setup \cup {"prepare", "childDeliver"}
  BY <1>1, <1>4, AloneClear
<1>6. \A i \in Ids : child[i].busy = FALSE
  <2> SUFFICES ASSUME NEW i \in Ids PROVE child[i].busy = FALSE
    OBVIOUS
  <2>1. ~\E d \in Calls : call[d].kind = "childDeliver" /\ call[d].who = i
    BY <1>3, <1>5
  <2>2. child[i].busy \in BOOLEAN
    BY <1>1 DEF Types, Children
  <2> QED
    BY <1>1, <2>1, <2>2 DEF Flags
<1>7. exec.cold => kind # "close"
  BY <1>1, <1>3, <1>5 DEF Flags, Setup
<1>8. kind = "prepare" => \A d \in Calls \ {c} : call[d].kind = "idle"
  BY <1>1, <1>3 DEF Phases
<1>9. call[c].pc \notin Asking
  BY <1>2 DEF At, Asking
<1>10. live \subseteq owned
  <2>1. \A d \in Calls : call[d].pc \notin Asking
    BY <1>5, <1>9
  <2> QED
    BY <1>1, <2>1 DEF Known
<1>11. /\ plan' = plan
       /\ \E h \in call[c].todo :
             \/ /\ h \notin failed /\ owned' = owned \ {h} /\ live' = live \ {h} /\ UNCHANGED failed
                /\ child' = (IF h[1] = "child" THEN [child EXCEPT ![h[2]] = NoChild] ELSE child)
                /\ \E healthy \in BOOLEAN : Cleans(c, call[c].kind, call[c].who, call[c].kept, healthy)
             \/ /\ Remains(h) /\ UNCHANGED <<owned, live, child>>
                /\ Cleans(c, call[c].kind, call[c].who, call[c].kept \cup {h}, TRUE)
  <2>1. failed \subseteq owned
    BY <1>1 DEF Known
  <2>2. \A g \in Of(owned, "child") : g[2] \in Ids
    BY <1>1 DEF Own
  <2> QED
    BY <1>1, <1>4, <1>6, <2>1, <2>2, CleanupStepWords
<1>12. PICK h \in call[c].todo :
             \/ /\ h \notin failed /\ owned' = owned \ {h} /\ live' = live \ {h} /\ UNCHANGED failed
                /\ child' = (IF h[1] = "child" THEN [child EXCEPT ![h[2]] = NoChild] ELSE child)
                /\ \E healthy \in BOOLEAN : Cleans(c, call[c].kind, call[c].who, call[c].kept, healthy)
             \/ /\ Remains(h) /\ UNCHANGED <<owned, live, child>>
                /\ Cleans(c, call[c].kind, call[c].who, call[c].kept \cup {h}, TRUE)
  BY <1>11
<1>13. /\ h \in owned /\ h \in Handles /\ h[1] = Stages[call[c].stage]
       /\ call[c].kept \subseteq failed
       /\ h[1] = "child" => h[2] \in Ids
  BY <1>1, <1>4 DEF SweepingAt, Of, Types, Own
\* What this step must show, whichever way the handle goes.
<1>14. ASSUME NEW kept, NEW healthy, Cleans(c, kind, call[c].who, kept, healthy),
              owned' \subseteq owned, live' \subseteq live, failed' \subseteq Handles, Only({h}), kept \subseteq failed',
              h \in live' => h \in owned', h \in failed' => h \in live' /\ h \in owned',
              child' \in [Ids -> Children], \A i \in Ids : child'[i].busy = child[i].busy,
              \A i \in Ids : child'[i].held => child[i].held /\ <<"child", i>> \in owned',
              \A g \in live' : Grounded(live', g[1])
       PROVE  IInv'
  <2>1. Shapes'
    <3>1. owned' \subseteq Handles /\ live' \subseteq Handles
      BY <1>1, <1>14 DEF Types
    <3> QED
      BY <1>1, <1>11, <1>14, <3>1, CleansShapes
  <2>2. Admits'
    <3>1. Of(owned', "operation") \subseteq Of(owned, "operation")
      BY <1>14 DEF Of
    <3>2. \A i \in Ids : child'[i].held => child[i].held
      BY <1>14
    <3> QED
      BY <1>1, <1>3, <1>4, <1>7, <1>8, <1>14, <3>1, <3>2, CleansAdmits DEF Admits
  <2>3. Own' /\ Known' /\ Based' /\ Sweeping' /\ Reported'
    <3>1. \A g \in Of(owned', "child") : g[2] \in Ids
      BY <1>1, <1>14 DEF Own, Of
    <3>2. (\A x \in {h} : x \in live' => x \in owned') /\ \A x \in {h} : x \in failed' => x \in live' /\ x \in owned'
      BY <1>14
    <3>3. \A i \in Ids : child'[i].held => <<"child", i>> \in owned'
      BY <1>14
    <3> QED
      BY <1>1, <1>4, <1>9, <1>14, <2>1, <3>1, <3>2, <3>3, CleansHolds DEF Shapes
  <2>4. DependencySafe'
    BY <1>14 DEF DependencySafe, Grounded, Of
  <2> QED
    BY <2>1, <2>2, <2>3, <2>4 DEF IInv, Holds
<1>15. CASE /\ h \notin failed /\ owned' = owned \ {h} /\ live' = live \ {h} /\ UNCHANGED failed
            /\ child' = (IF h[1] = "child" THEN [child EXCEPT ![h[2]] = NoChild] ELSE child)
            /\ \E healthy \in BOOLEAN : Cleans(c, call[c].kind, call[c].who, call[c].kept, healthy)
  <2>1. PICK healthy \in BOOLEAN : Cleans(c, call[c].kind, call[c].who, call[c].kept, healthy)
    BY <1>15
  <2>2. Cleans(c, kind, call[c].who, call[c].kept, healthy)
    BY <1>3, <2>1
  <2>3. NoChild \in Children /\ NoChild.held = FALSE /\ NoChild.busy = FALSE
    BY DEF NoChild, Children
  <2>4. /\ child' \in [Ids -> Children]
        /\ \A i \in Ids : child'[i].busy = child[i].busy
        /\ \A i \in Ids : child'[i].held => child[i].held /\ (h[1] = "child" => i # h[2])
    <3>1. child \in [Ids -> Children]
      BY <1>1 DEF Types
    <3>2. CASE h[1] = "child"
      <4>1. h[2] \in Ids /\ child' = [child EXCEPT ![h[2]] = NoChild]
        BY <1>13, <1>15, <3>2
      <4>2. child' \in [Ids -> Children] /\ child'[h[2]] = NoChild /\ \A i \in Ids : i # h[2] => child'[i] = child[i]
        BY <2>3, <3>1, <4>1
      <4> QED
        BY <1>6, <2>3, <4>2
    <3>3. CASE h[1] # "child"
      BY <1>15, <3>1, <3>3
    <3> QED
      BY <3>2, <3>3
  <2>5. \A i \in Ids : child'[i].held => child[i].held /\ <<"child", i>> \in owned'
    <3> SUFFICES ASSUME NEW i \in Ids, child'[i].held PROVE child[i].held /\ <<"child", i>> \in owned'
      OBVIOUS
    <3>1. child[i].held /\ <<"child", i>> \in owned
      BY <1>1, <2>4 DEF Own
    <3>2. <<"child", i>> # h
      BY <2>4
    <3> QED
      BY <1>15, <3>1, <3>2
  <2>6. ASSUME NEW g \in live' PROVE Grounded(live', g[1])
    <3> SUFFICES ASSUME NEW k \in ParentKinds(g[1]) PROVE Of(live', k) # {}
      BY DEF Grounded
    <3>1. g \in live /\ g \in owned
      BY <1>10, <1>15
    <3>2. Of(live, k) # {}
      BY <1>1, <3>1 DEF DependencySafe, Grounded
    <3>3. k # h[1]
      BY <1>1, <1>4, <1>13, <3>1, StageSafe
    <3> QED
      BY <1>15, <3>2, <3>3 DEF Of
  <2>7. Only({h}) /\ h \notin live' /\ h \notin failed' /\ failed' \subseteq Handles
    BY <1>1, <1>15 DEF Only, Types
  <2>8. owned' \subseteq owned /\ live' \subseteq live /\ call[c].kept \subseteq failed'
    BY <1>13, <1>15
  <2> QED
    BY <1>14, <2>2, <2>4, <2>5, <2>6, <2>7, <2>8
<1>16. CASE /\ Remains(h) /\ UNCHANGED <<owned, live, child>>
            /\ Cleans(c, call[c].kind, call[c].who, call[c].kept \cup {h}, TRUE)
  <2>1. Cleans(c, kind, call[c].who, call[c].kept \cup {h}, TRUE)
    BY <1>3, <1>16
  <2>2. failed' = failed \cup {h} /\ h \in live /\ h \in owned
    BY <1>1, <1>13, <1>16 DEF Remains, Known
  <2>3. Only({h}) /\ failed' \subseteq Handles /\ call[c].kept \cup {h} \subseteq failed'
    BY <1>1, <1>13, <1>16, <2>2 DEF Only, Types
  <2>4. child' \in [Ids -> Children] /\ \A i \in Ids : child'[i].busy = child[i].busy
    BY <1>1, <1>16 DEF Types
  <2>5. \A i \in Ids : child'[i].held => child[i].held /\ <<"child", i>> \in owned'
    BY <1>1, <1>16 DEF Own
  <2>6. \A g \in live' : Grounded(live', g[1])
    BY <1>1, <1>16 DEF DependencySafe
  <2>7. owned' \subseteq owned /\ live' \subseteq live /\ h \in live' /\ h \in owned'
    BY <1>16, <2>2
  <2> QED
    BY <1>14, <2>1, <2>2, <2>3, <2>4, <2>5, <2>6, <2>7
<1> QED
  BY <1>12, <1>15, <1>16

\* Acquiring the next handle keeps the invariant: nobody else is there, and the
\* parents of the handle have been acquired before it.
LEMMA AcquireKept ==
    ASSUME IInv, NEW c \in Calls, Acquire(c)
    PROVE  IInv'
<1>1. /\ Types /\ Routed /\ Phases /\ Single /\ Flags /\ ClosesAlone /\ Shapes
      /\ Own /\ Known /\ Based /\ Sweeping /\ DependencySafe /\ Reported
  BY DEF IInv, Shapes, Admits, Holds
<1>2. At(c, "acquire")
  BY DEF Acquire
<1>3. call[c].kind = "prepare" /\ exec.state = "none" /\ ~exec.closed
  BY <1>1, <1>2, PartKinds DEF Phases, Fits
<1>4. \A d \in Calls \ {c} : call[d].kind = "idle" /\ At(d, "idle")
  BY <1>1, <1>3, PartKinds DEF Phases
<1>5. \A d \in Calls : call[d].pc \notin Asking \cup Having /\ ~At(d, "cleanup")
  <2>1. call[c].pc \notin Asking \cup Having /\ ~At(c, "cleanup")
    BY <1>2 DEF At, Asking, Having, Transfer
  <2>2. \A d \in Calls \ {c} : call[d].pc \notin Asking \cup Having /\ ~At(d, "cleanup")
    BY <1>4 DEF At, Asking, Having, Transfer
  <2> QED
    BY <2>1, <2>2
<1>6. /\ owned = live /\ failed = {} /\ live \subseteq {<<k, 0>> : k \in Basis}
      /\ \E k \in Basis : Of(owned, k) = {}
  BY <1>1, <1>2 DEF Based
<1>7. \A i \in Ids : ~child[i].held
  BY <1>1, <1>3 DEF Phases, Ran
<1>8. /\ UNCHANGED <<plan, child, failed>>
      /\ \/ /\ Cleans(c, call[c].kind, call[c].who, {}, TRUE) /\ UNCHANGED <<owned, live>>
         \/ \E kind \in Basis :
               /\ Grounded(owned, kind) /\ Of(owned, kind) = {}
               /\ owned' = owned \cup {<<kind, 0>>} /\ live' = live \cup {<<kind, 0>>}
               /\ \/ UNCHANGED <<exec, call>> /\ \E k \in Basis : Of(owned', k) = {}
                  \/ /\ exec' = [exec EXCEPT !.state = "prepared"] /\ Idles(c)
                     /\ \A k \in Basis : Of(owned', k) # {}
  BY <1>1, <1>6, AcquireWords
<1>9. CASE Cleans(c, call[c].kind, call[c].who, {}, TRUE) /\ UNCHANGED <<owned, live>>
  <2>1. PICK kind \in {"prepare", "preinitialize", "ignite"} : kind = call[c].kind
    BY <1>3
  <2>2. Alone(c, kind)
    BY <1>4 DEF Alone
  <2>3. Cleans(c, kind, call[c].who, {}, TRUE)
    BY <1>9, <2>1
  <2>4. Only({}) /\ {} \in SUBSET Handles /\ \A x \in {} : FALSE
    BY <1>8, <1>9 DEF Only
  <2>5. plan' = plan /\ child' = child /\ live' \subseteq live /\ owned' \subseteq owned /\ failed' \subseteq Handles
    BY <1>6, <1>8, <1>9
  <2> QED
    BY <1>3, <1>4, <1>5, <2>1, <2>2, <2>3, <2>4, <2>5, CleansKept
<1>10. ASSUME NEW kind \in Basis, Grounded(owned, kind), Of(owned, kind) = {},
              owned' = owned \cup {<<kind, 0>>}, live' = live \cup {<<kind, 0>>},
              \/ UNCHANGED <<exec, call>> /\ \E k \in Basis : Of(owned', k) = {}
              \/ /\ exec' = [exec EXCEPT !.state = "prepared"] /\ Idles(c)
                 /\ \A k \in Basis : Of(owned', k) # {}
       PROVE  IInv'
  <2> DEFINE h == <<kind, 0>>
  <2>1. h \in Handles /\ h[1] = kind /\ kind \notin {"child", "operation"}
    BY HandlePairs, BasisOrder DEF Kinds
  <2>2. /\ owned' \subseteq Handles /\ live' \subseteq Handles /\ failed' \subseteq Handles
        /\ plan' = plan /\ child' \in [Ids -> Children] /\ child' = child
    BY <1>1, <1>8, <1>10, <2>1 DEF Types
  <2>3. owned' = live' /\ failed' = {} /\ live' \subseteq {<<k, 0>> : k \in Basis}
    BY <1>6, <1>8, <1>10
  <2>4. Of(owned', "operation") = {} /\ Of(owned', "child") = {}
    BY <2>3, BasisOrder DEF Of
  <2>5. \A g \in live' \ live : Grounded(live', g[1])
    BY <1>6, <1>10, <2>1 DEF Grounded, Of
  <2>6. CASE UNCHANGED <<exec, call>> /\ \E k \in Basis : Of(owned', k) = {}
    <3>1. Shapes'
      BY <1>1, <2>2, <2>6 DEF Shapes, Types, Routed
    <3>2. Admits'
      <4>1. Phases'
        BY <1>1, <2>2, <2>4, <2>6 DEF Phases
      <4>2. Single' /\ ClosesAlone'
        BY <1>1, <2>6 DEF Single, ClosesAlone, At
      <4>3. Flags'
        BY <1>1, <2>2, <2>6 DEF Flags, Delivering
      <4> QED
        BY <4>1, <4>2, <4>3 DEF Admits
    <3>3. Own'
      BY <1>5, <1>7, <2>2, <2>4, <2>6 DEF Own
    <3>4. Known'
      BY <1>3, <2>3, <2>6 DEF Known
    <3>5. Based'
      BY <1>3, <2>3, <2>6 DEF Based
    <3>6. Sweeping'
      BY <1>5, <2>6 DEF Sweeping, At
    <3>7. DependencySafe'
      BY <1>1, <1>10, <2>5, <3>1, SafeTurns DEF Shapes
    <3>8. Reported'
      BY <1>1, <1>3, <2>6 DEF Reported
    <3> QED
      BY <3>1, <3>2, <3>3, <3>4, <3>5, <3>6, <3>7, <3>8 DEF IInv, Holds
  <2>7. CASE exec' = [exec EXCEPT !.state = "prepared"] /\ Idles(c) /\ \A k \in Basis : Of(owned', k) # {}
    <3>1. Turns(c, "idle", "idle", NoHandle, 0)
      BY <2>7 DEF Idles
    <3>2. /\ exec' \in Words /\ exec'.state = "prepared" /\ exec'.closed = exec.closed /\ exec'.cold = exec.cold
          /\ exec'.report = exec.report /\ exec'.submitting = exec.submitting
          /\ exec'.describing = exec.describing /\ exec'.deliveries = exec.deliveries
      BY <1>1, <2>7 DEF Types, Words, States
    <3>3. Shapes'
      BY <1>1, <2>2, <3>1, <3>2, ReturnShapes
    <3>4. \A d \in Calls : call'[d].kind = "idle" /\ call'[d].pc = "idle"
      BY <1>4, <3>1 DEF Turns, At
    <3>5. exec'.cold = FALSE
      <4>1. ~exec.cold
        BY <1>1, <1>3, <1>4 DEF Flags, Setup
      <4>2. exec.cold \in BOOLEAN
        BY <1>1 DEF Types, Words
      <4> QED
        BY <3>2, <4>1, <4>2
    <3>6. Admits'
      <4>1. Phases'
        BY <1>3, <1>7, <2>2, <2>4, <3>2, <3>4 DEF Phases, Fits, Later, Ran
      <4>2. Single' /\ ClosesAlone'
        BY <3>4 DEF Single, ClosesAlone, At, Setup
      <4>3. Flags'
        <5>1. /\ call[c].kind \in Plain /\ "idle" \in Plain
              /\ \A d \in Calls \ {c} : call[d].kind \notin {"childDeliver", "childClose"}
          BY <1>3, <1>4 DEF Plain
        <5> QED
          BY <1>1, <2>2, <3>1, <3>2, <3>5, <5>1, FlagsPlain
      <4> QED
        BY <4>1, <4>2, <4>3 DEF Admits
    <3>7. \A d \in Calls : call'[d].pc \notin Asking \cup Having \cup {"cleanup", "acquire"}
      BY <3>4 DEF Asking, Having, Transfer
    <3>8. Own'
      BY <1>7, <2>2, <2>4, <3>7 DEF Own
    <3>9. Known'
      BY <1>3, <2>3, <3>2 DEF Known
    <3>10. Based'
      BY <2>3, <2>7, <3>7 DEF Based, At
    <3>11. Sweeping'
      BY <3>7 DEF Sweeping, At
    <3>12. DependencySafe'
      BY <1>1, <1>10, <2>5, <3>3, SafeTurns DEF Shapes
    <3>13. Reported'
      BY <1>1, <1>3, <3>2 DEF Reported
    <3> QED
      BY <3>3, <3>6, <3>8, <3>9, <3>10, <3>11, <3>12, <3>13 DEF IInv, Holds
  <2> QED
    BY <1>10, <2>6, <2>7
<1> QED
  BY <1>8, <1>9, <1>10

\* An execution begins with its preparation, and with nothing.
LEMMA InitIInv ==
    ASSUME Init
    PROVE  IInv
<1>1. PICK c \in Calls : call = [d \in Calls |->
          IF d = c THEN [Idle EXCEPT !.kind = "prepare", !.pc = "acquire"] ELSE Idle]
  BY DEF Init
<1> DEFINE r == [Idle EXCEPT !.kind = "prepare", !.pc = "acquire"]
<1>2. Idle \in Records /\ Idle.kind = "idle" /\ Idle.pc = "idle"
  BY IdleRecord DEF Idle
<1>3. r \in Records /\ r.kind = "prepare" /\ r.pc = "acquire"
  <2>1. "prepare" \in CallKinds /\ "acquire" \in UNION {Parts(k) : k \in CallKinds}
    BY DEF CallKinds, Parts
  <2> QED
    BY <1>2, <2>1 DEF Records, Idle
<1>4. /\ call \in [Calls -> Records] /\ call[c].kind = "prepare" /\ call[c].pc = "acquire"
      /\ \A d \in Calls \ {c} : call[d].kind = "idle" /\ call[d].pc = "idle"
  <2> HIDE DEF r
  <2>1. call = [d \in Calls |-> IF d = c THEN r ELSE Idle]
    BY <1>1 DEF r
  <2> QED
    BY <1>2, <1>3, <2>1
<1>5. /\ exec \in Words /\ exec.state = "none" /\ exec.closed = FALSE /\ exec.cold = FALSE /\ exec.report = "none"
      /\ exec.submitting = FALSE /\ exec.describing = FALSE /\ exec.deliveries = 0
  BY DEF Init, Words, States
<1>6. child \in [Ids -> Children] /\ \A i \in Ids : child[i].held = FALSE /\ child[i].busy = FALSE
  BY DEF Init, NoChild, Children
<1>7. owned = {} /\ live = {} /\ failed = {} /\ plan \in [continuation: BOOLEAN, cold: BOOLEAN]
  BY DEF Init
<1>8. Shapes
  <2>1. Types
    BY <1>4, <1>5, <1>6, <1>7 DEF Types
  <2>2. Routed
    BY <1>4 DEF Routed, Parts
  <2> QED
    BY <2>1, <2>2 DEF Shapes
<1>9. \A d \in Calls : call[d].kind \in {"prepare", "idle"}
                       /\ call[d].pc \notin Asking \cup Having \cup {"cleanup"}
  <2>1. \A d \in Calls : call[d].pc \in {"acquire", "idle"} /\ call[d].kind \in {"prepare", "idle"}
    BY <1>4
  <2> QED
    BY <2>1 DEF Asking, Having, Transfer
<1>10. Phases
  BY <1>4, <1>5, <1>6, <1>7, <1>9 DEF Phases, Fits, Later, Of
<1>11. Single /\ ClosesAlone
  BY <1>9 DEF Single, ClosesAlone, At, Setup
<1>12. Flags
  <2>1. Delivering = {}
    BY <1>9 DEF Delivering
  <2>2. 0 <= MaxTransfers
    BY Constants
  <2> QED
    BY <1>5, <1>6, <1>9, <2>1, <2>2, FS_EmptySet DEF Flags
<1>13. Own /\ Known
  BY <1>5, <1>6, <1>7, <1>9 DEF Own, Known, Of
<1>14. Based
  BY <1>5, <1>7, BasisOrder DEF Based, Of
<1>15. Sweeping /\ DependencySafe /\ Reported
  BY <1>5, <1>7, <1>9 DEF Sweeping, DependencySafe, Reported, At
<1> QED
  BY <1>8, <1>10, <1>11, <1>12, <1>13, <1>14, <1>15 DEF IInv, Admits, Holds

\* Every step of such a client, and of the calls it has made, keeps the invariant.
LEMMA NextKept ==
    ASSUME Overlap = FALSE, IInv, [Next]_vars
    PROVE  IInv'
<1>1. CASE UNCHANGED vars
  <2>1. UNCHANGED <<plan, exec, child, owned, live, failed, call>>
    BY <1>1 DEF vars
  <2>2. Shapes'
    BY <2>1 DEF IInv, Shapes, Types, Routed
  <2>3. Admits'
    BY <2>1 DEF IInv, Admits, Phases, Single, Flags, Delivering, ClosesAlone, At
  <2>4. Own' /\ Known' /\ Based' /\ Reported'
    BY <2>1 DEF IInv, Holds, Own, Known, Based, Reported, At
  <2>5. Sweeping' /\ DependencySafe'
    BY <2>1 DEF IInv, Holds, Sweeping, SweepingAt, Passed, DependencySafe, At
  <2> QED
    BY <2>2, <2>3, <2>4, <2>5 DEF IInv, Holds
<1>2. ASSUME NEW c \in Calls, ClientStep(c) PROVE IInv'
  <2>1. CASE Preinitialize(c)
    BY <2>1, PreinitializeKept
  <2>2. CASE Ignite(c)
    BY <2>2, IgniteKept
  <2>3. CASE SubmitExternal(c)
    BY <2>3, SubmitExternalKept
  <2>4. CASE Deliver(c)
    BY <2>4, DeliverKept
  <2>5. ASSUME NEW i \in Ids, ChildWait(c, i) \/ ChildDeliver(c, i) \/ ChildClose(c, i) PROVE IInv'
    BY <2>5, ChildStartsKept
  <2>6. CASE Wait(c)
    BY <2>6, WaitKept
  <2>7. CASE Describe(c)
    BY <2>7, DescribeKept
  <2>8. CASE Close(c)
    BY <2>8, CloseKept
  <2> QED
    BY <1>2, <2>1, <2>2, <2>3, <2>4, <2>5, <2>6, <2>7, <2>8 DEF ClientStep
<1>3. ASSUME NEW c \in Calls, Answered(c) PROVE IInv'
  <2>1. CASE Acquire(c)
    BY <2>1, AcquireKept
  <2>2. CASE Validate(c)
    BY <2>2, ValidateKept
  <2>3. CASE Write(c)
    BY <2>3, WriteKept
  <2>4. CASE Launch(c)
    BY <2>4, LaunchKept
  <2>5. CASE XferAnswer(c)
    BY <2>5, XferAnswerKept
  <2>6. CASE XferMoved(c)
    BY <2>6, XferMovedKept
  <2>7. CASE XferShut(c)
    BY <2>7, XferShutKept
  <2>8. CASE InitializeAnswer(c)
    BY <2>8, InitializeAnswerKept
  <2>9. CASE InitializeWaited(c)
    BY <2>9, InitializeWaitedKept
  <2>10. CASE InitializeShut(c)
    BY <2>10, InitializeShutKept
  <2>11. CASE SubmitAnswer(c)
    BY <2>11, SubmitAnswerKept
  <2>16. CASE StatusAnswer(c)
    BY <2>16, StatusAnswerKept
  <2>12. CASE AttachAnswer(c)
    BY <2>12, AttachAnswerKept
  <2>13. CASE YieldAnswer(c)
    BY <2>13, YieldAnswerKept
  <2>14. CASE Described(c)
    BY <2>14, DescribedKept
  <2>15. CASE CleanupStep(c)
    BY <2>15, CleanupStepKept
  <2> QED
    BY <1>3, <2>1, <2>2, <2>3, <2>4, <2>5, <2>6, <2>7, <2>8, <2>9, <2>10, <2>11, <2>12, <2>13,
       <2>14, <2>15, <2>16 DEF Answered
<1>4. ASSUME NEW c \in Calls, ChildWaited(c) PROVE IInv'
  BY <1>4, ChildWaitedKept
<1>5. ASSUME NEW c \in Calls, Waited(c) PROVE IInv'
  BY <1>5, WaitedKept
<1> QED
  BY <1>1, <1>2, <1>3, <1>4, <1>5 DEF Next

\* A closing that failed is remembered, whatever the client does.
LEMMA FailedGrows ==
    ASSUME [Next]_vars
    PROVE  failed \subseteq failed'
<1>1. CASE UNCHANGED vars
  BY <1>1 DEF vars
<1>2. ASSUME NEW c \in Calls, ClientStep(c) PROVE failed \subseteq failed'
  <2>1. ASSUME NEW i \in Ids, ChildWait(c, i) \/ ChildDeliver(c, i) \/ ChildClose(c, i) PROVE failed \subseteq failed'
    BY <2>1 DEF ChildWait, ChildDeliver, ChildClose, ChildCall
  <2>2. CASE Preinitialize(c) \/ Ignite(c) \/ SubmitExternal(c) \/ Deliver(c)
    BY <2>2 DEF Preinitialize, Ignite, SubmitExternal, Deliver
  <2>3. CASE Wait(c) \/ Describe(c) \/ Close(c)
    BY <2>3 DEF Wait, Describe, Close
  <2> QED
    BY <1>2, <2>1, <2>2, <2>3 DEF ClientStep
<1>3. \A h : FailsNow(h) \/ FailedBefore(h) => failed \subseteq failed'
  BY DEF FailsNow, FailedBefore
<1>4. ASSUME NEW c \in Calls, Answered(c) PROVE failed \subseteq failed'
  <2>1. CASE CleanupStep(c)
    <3>1. UNCHANGED failed \/ \E h : FailsNow(h) \/ FailedBefore(h)
      BY <2>1 DEF CleanupStep
    <3> QED
      BY <1>3, <3>1
  <2>2. CASE XferShut(c) \/ InitializeShut(c) \/ YieldAnswer(c)
    <3>1. UNCHANGED failed \/ \E h : FailsNow(h) \/ FailedBefore(h)
      BY <2>2 DEF XferShut, InitializeShut, YieldAnswer
    <3> QED
      BY <1>3, <3>1
  <2>3. CASE Acquire(c) \/ Validate(c) \/ Write(c) \/ Launch(c) \/ Described(c)
    BY <2>3 DEF Acquire, Validate, Write, Launch, Described
  <2>4. CASE XferAnswer(c) \/ XferMoved(c) \/ InitializeAnswer(c) \/ InitializeWaited(c)
    BY <2>4 DEF XferAnswer, XferMoved, InitializeAnswer, InitializeWaited
  <2>5. CASE SubmitAnswer(c) \/ StatusAnswer(c) \/ AttachAnswer(c)
    BY <2>5 DEF SubmitAnswer, StatusAnswer, AttachAnswer
  <2> QED
    BY <1>4, <2>1, <2>2, <2>3, <2>4, <2>5 DEF Answered
<1>5. ASSUME NEW c \in Calls, ChildWaited(c) \/ Waited(c) PROVE failed \subseteq failed'
  BY <1>5 DEF ChildWaited, Waited
<1> QED
  BY <1>1, <1>2, <1>4, <1>5 DEF Next

\* The invariant holds for every client that starts nothing while a closing it
\* asked for is pending, and uses what it is igniting when the ignition has
\* returned.
THEOREM Invariant == Overlap = FALSE => (Spec => []IInv)
<1> SUFFICES ASSUME Overlap = FALSE PROVE Spec => []IInv
  OBVIOUS
<1>1. Init => IInv
  BY InitIInv
<1>2. IInv /\ [Next]_vars => IInv'
  BY NextKept
<1> QED
  BY <1>1, <1>2, PTL DEF Spec

\* The fields of an execution and of its calls stay within their ranges, and no
\* more deliveries are under way than maxTransfers allows.
THEOREM TypeCorrect == Overlap = FALSE => (Spec => []TypeOK)
<1> SUFFICES ASSUME Overlap = FALSE PROVE Spec => []TypeOK
  OBVIOUS
<1>1. ASSUME IInv PROVE TypeOK
  <2>1. Types /\ Flags
    BY <1>1 DEF IInv, Shapes, Admits
  <2>2. exec.deliveries \in 0 .. MaxTransfers
    <3>1. exec.deliveries \in Nat /\ exec.deliveries <= MaxTransfers
      BY <2>1, FS_CardinalityType DEF Flags
    <3> QED
      BY <3>1, Constants
  <2>3. \A c \in Calls : call[c].h \in Handles /\ call[c].todo \subseteq Handles
    BY <2>1, CallFields
  <2> QED
    BY <2>1, <2>2, <2>3 DEF TypeOK, Types, Words, States
<1>2. Spec => []IInv
  BY Invariant
<1> QED
  BY <1>1, <1>2, PTL

\* Teardown and rollback release children before parents: no handle of the
\* lower runtime outlives what it was made from.
THEOREM ParentsOutlive == Overlap = FALSE => (Spec => []DependencySafe)
<1> SUFFICES ASSUME Overlap = FALSE PROVE Spec => []DependencySafe
  OBVIOUS
<1>1. IInv => DependencySafe
  BY DEF IInv, Holds
<1>2. Spec => []IInv
  BY Invariant
<1> QED
  BY <1>1, <1>2, PTL

\* No handle is lost on any path of acquisition, failure or closing: the
\* execution holds it, or the call that asked for it does.
THEOREM HandlesKnown == Overlap = FALSE => (Spec => []NothingLost)
<1> SUFFICES ASSUME Overlap = FALSE PROVE Spec => []NothingLost
  OBVIOUS
<1>1. IInv => NothingLost
  BY DEF IInv, Holds, Known, NothingLost
<1>2. Spec => []IInv
  BY Invariant
<1> QED
  BY <1>1, <1>2, PTL

\* A teardown report of "complete" is given only when the lower runtime has
\* nothing of the execution left and no closing failed.
THEOREM ReportsHold == Overlap = FALSE => (Spec => []HonestReport)
<1> SUFFICES ASSUME Overlap = FALSE PROVE Spec => []HonestReport
  OBVIOUS
<1>1. IInv => HonestReport
  BY DEF IInv, Holds, Known, Reported, HonestReport
<1>2. Spec => []IInv
  BY Invariant
<1> QED
  BY <1>1, <1>2, PTL

\* The flags that refuse a call are up exactly while the call that raised them
\* is pending, on every path out of it.
THEOREM FlagsHold == Overlap = FALSE => (Spec => []FlagsMatch)
<1> SUFFICES ASSUME Overlap = FALSE PROVE Spec => []FlagsMatch
  OBVIOUS
<1>1. IInv => FlagsMatch
  BY DEF IInv, Admits, Flags, Delivering, Setup, FlagsMatch
<1>2. Spec => []IInv
  BY Invariant
<1> QED
  BY <1>1, <1>2, PTL

\* Nothing is staged, read or submitted while a cleanup gives things back.
THEOREM CleanupAlone == Overlap = FALSE => (Spec => []ClosesAlone)
<1> SUFFICES ASSUME Overlap = FALSE PROVE Spec => []ClosesAlone
  OBVIOUS
<1>1. IInv => ClosesAlone
  BY DEF IInv, Admits
<1>2. Spec => []IInv
  BY Invariant
<1> QED
  BY <1>1, <1>2, PTL

\* A handle whose closing failed stays in the lower runtime and on record: no
\* later step closes it again or forgets it.
THEOREM QuarantineHolds == Overlap = FALSE => (Spec => QuarantineStays)
<1> SUFFICES ASSUME Overlap = FALSE PROVE Spec => QuarantineStays
  OBVIOUS
<1>1. ASSUME IInv, IInv', [Next]_vars
      PROVE  [failed \intersect live \subseteq live' /\ failed \subseteq failed']_vars
  <2>1. failed \subseteq failed'
    BY <1>1, FailedGrows
  <2>2. failed' \subseteq live'
    BY <1>1 DEF IInv, Holds, Known
  <2> QED
    BY <2>1, <2>2
<1>2. Spec => []IInv
  BY Invariant
<1>3. Spec => [][Next]_vars
  BY DEF Spec
<1> QED
  BY <1>1, <1>2, <1>3, PTL DEF QuarantineStays
=============================================================================
