-------------------------- MODULE AdapterLifecycle --------------------------
(***************************************************************************)
(* One prepared execution of the CUDA-JS runtime adapter: what it holds in *)
(* the lower runtime, the flags that admit or refuse a call, and the       *)
(* cleanup that gives everything back, children before parents.            *)
(*                                                                         *)
(* Every method is a coroutine: it runs without interruption up to an      *)
(* await, and other calls may run before it resumes.  A step is the start  *)
(* of a call, or the answer of the lower runtime to a request, with the    *)
(* code that runs from there to the next await.  A refused call changes    *)
(* nothing and is no step.                                                 *)
(*                                                                         *)
(* Source: adapters/runtimes/cuda-js/src/adapter-core.mjs.                 *)
(***************************************************************************)
EXTENDS Naturals, FiniteSets

CONSTANTS
    Calls,        \* the calls that can be pending at a time
    Ids,          \* names for handles of a kind that exist together
    MaxFaults,    \* lower requests that fail in a behaviour (bound)
    MaxTransfers, \* maxTransfers of the terminal delivery
    Overlap       \* whether the client does more than wait and describe beside
                  \* an ignition or a closing it asked for

ASSUME AdapterAssumption ==
    /\ Ids \subseteq Nat \ {0} /\ MaxFaults \in Nat
    /\ MaxTransfers \in Nat \ {0} /\ Overlap \in BOOLEAN

VARIABLES
    plan,    \* the admitted plan; cold: it has a cold initializer
    exec,    \* the fields of the execution
    child,   \* the external operations the client was given
    owned,   \* the handles the execution holds
    live,    \* the handles that exist, or were asked for, in the lower runtime
    failed,  \* failedClosures: the handles whose closing failed
    call,    \* where each pending call is
    faults   \* failures so far

vars == <<plan, exec, child, owned, live, failed, call, faults>>

Kinds == {"runtime", "module", "function", "memory", "view", "mailbox",
          "operation", "child", "xfer"}
Handles == Kinds \X (Ids \union {0})

\* What the lower runtime makes a handle from.
ParentKinds(kind) ==
    CASE kind = "runtime" -> {}
      [] kind \in {"module", "memory", "mailbox"} -> {"runtime"}
      [] kind = "function" -> {"module"}
      [] kind \in {"view", "xfer"} -> {"memory"}
      [] OTHER -> {"function", "view", "mailbox"}

Of(set, kind) == {h \in set : h[1] = kind}
Grounded(set, kind) == \A k \in ParentKinds(kind) : Of(set, k) # {}

Idle == [kind |-> "idle", pc |-> "idle", h |-> <<"runtime", 0>>, who |-> 0, bad |-> FALSE,
         stage |-> 0, todo |-> {}, kept |-> {}]
NoChild == [held |-> FALSE, completed |-> FALSE, busy |-> FALSE, attempted |-> FALSE]

Init ==
    /\ plan \in {p \in [continuation : BOOLEAN, cold : BOOLEAN] : p.cold => p.continuation}
    /\ exec = [state |-> "none", closed |-> FALSE, cold |-> FALSE, stored |-> FALSE,
               submitting |-> FALSE, describing |-> FALSE, deliveries |-> 0, report |-> "none"]
    /\ child = [i \in Ids |-> NoChild]
    /\ owned = {} /\ live = {} /\ failed = {} /\ faults = 0
    /\ \E c \in Calls : call = [d \in Calls |->
          IF d = c THEN [Idle EXCEPT !.kind = "prepare", !.pc = "acquire"] ELSE Idle]

-----------------------------------------------------------------------------
(* Requests to the lower runtime and their answers.                        *)

Fault == faults < MaxFaults /\ faults' = faults + 1

At(c, pc) == call[c].pc = pc
Goto(c, r, pc) == call' = [call EXCEPT ![c] = [r EXCEPT !.pc = pc]]
Return(c) == call' = [call EXCEPT ![c] = Idle]

Fresh(kind) == {i \in Ids : /\ <<kind, i>> \notin live \union owned
                            /\ kind = "child" => \A d \in Calls : call[d].who # i}

\* Ask for a handle, in a lower runtime that holds base: from here on the
\* handle may exist, unless what it is made from is gone.
Request(c, r, kind, pc, base) ==
    /\ Fresh(kind) # {}
    /\ LET h == <<kind, CHOOSE i \in Fresh(kind) : \A j \in Fresh(kind) : i <= j>>
       IN  /\ call' = [call EXCEPT ![c] = [r EXCEPT !.pc = pc, !.h = h, !.bad = FALSE]]
           /\ live' = IF Grounded(base, kind) THEN base \union {h} ELSE base

Granted(c) == call[c].h \in live /\ UNCHANGED <<live, faults>>
Refused(c) ==
    /\ IF call[c].h \in live THEN Fault ELSE UNCHANGED faults
    /\ live' = live \ {call[c].h}

\* Mutant of MayClose: a failed closing is repeated.
MayCloseAgain(h) == h \in Handles

\* closeOne: a closing that failed is never repeated; it fails again at once.
MayClose(h) == h \notin failed
MayFail(h) == h \in live /\ h \notin failed

FailedBefore(h) == h \in failed /\ UNCHANGED <<failed, faults>>
FailsNow(h) == MayFail(h) /\ Fault /\ failed' = failed \union {h}

\* Mutant of Registered: the handle is returned and not entered.
RegisteredNot(h) == owned

\* The new handle enters the maps of the execution.
Registered(h) == owned \union {h}

-----------------------------------------------------------------------------
(* cleanup: what could not be closed keeps what it stands on.              *)

Stages == <<"child", "xfer", "operation", "function", "module",
            "mailbox", "view", "memory", "runtime">>

\* Mutant of Skipped: a memory goes although a transfer on it would not.
SkippedButMemory(stage, kept) ==
    \/ Of(kept, "child") \union Of(kept, "operation") # {}
    \/ stage = "module" /\ Of(kept, "function") # {}
    \/ stage = "memory" /\ Of(kept, "view") # {}
    \/ stage = "runtime" /\ Of(kept, "memory") \union Of(kept, "view") # {}

\* The stages left out because of what earlier ones could not close.
Skipped(stage, kept) ==
    \/ Of(kept, "child") \union Of(kept, "operation") # {}
    \/ stage = "module" /\ Of(kept, "function") # {}
    \/ stage = "memory" /\ Of(kept, "xfer") \union Of(kept, "view") # {}
    \/ stage = "runtime" /\ kept # {}

\* Mutant of Report: only the runtime's own word counts.
ReportHealth(kept, healthy) == IF healthy THEN "complete" ELSE "quarantined"

Report(kept, healthy) == IF kept = {} /\ healthy THEN "complete" ELSE "quarantined"

\* The execution is closed only here, when its cleanup has been awaited.
Finish(c, r, kept, healthy) ==
    /\ exec' = [exec EXCEPT !.closed = TRUE, !.state = "closed",
                    !.cold = IF r.kind = "close" THEN @ ELSE FALSE,
                    !.report = Report(kept, healthy)]
    /\ Return(c)

\* On to the next stage with something to close.  A stage closes what was
\* held when it began.
Sweep(c, r, stage, kept, held, healthy) ==
    LET due == {s \in DOMAIN Stages : /\ s > stage /\ Of(held, Stages[s]) # {}
                                      /\ ~Skipped(Stages[s], kept)}
        next == CHOOSE s \in due : \A t \in due : s <= t
    IN  IF due = {}
        THEN Finish(c, r, kept, healthy)
        ELSE /\ Goto(c, [r EXCEPT !.stage = next, !.todo = Of(held, Stages[next]),
                                  !.kept = kept, !.h = Idle.h], "cleanup")
             /\ UNCHANGED exec

Cleanup(c, r) == Sweep(c, r, 0, {}, owned, TRUE) /\ UNCHANGED owned

\* One handle of the stage.  An external operation refuses while it delivers.
CleanupStep(c) ==
    /\ At(c, "cleanup")
    /\ \E h \in call[c].todo :
        LET r == [call[c] EXCEPT !.todo = @ \ {h}]
            On(kept, held, healthy) ==
                IF r.todo = {} THEN Sweep(c, r, r.stage, kept, held, healthy)
                ELSE Goto(c, [r EXCEPT !.kept = kept], "cleanup") /\ UNCHANGED exec
            Closed(healthy) ==
                /\ owned' = owned \ {h} /\ live' = live \ {h}
                /\ child' = IF h[1] = "child" THEN [child EXCEPT ![h[2]] = NoChild] ELSE child
                /\ On(r.kept, owned', healthy)
                /\ UNCHANGED failed
            Kept == On(r.kept \union {h}, owned, TRUE) /\ UNCHANGED <<owned, live, child>>
            busy == h[1] = "child" /\ child[h[2]].busy
        IN  \/ ~busy /\ MayClose(h) /\ Closed(TRUE) /\ UNCHANGED faults
            \/ h[1] = "runtime" /\ MayClose(h) /\ Closed(FALSE) /\ Fault
            \/ ~busy /\ FailsNow(h) /\ Kept
            \/ FailedBefore(h) /\ Kept
            \/ busy /\ Kept /\ UNCHANGED <<failed, faults>>
    /\ UNCHANGED plan

-----------------------------------------------------------------------------
(* prepareCudaJsExecution: acquire in this order, or roll back.            *)

Order == <<"runtime", "module", "function", "memory", "view", "mailbox">>

Acquire(c) ==
    /\ At(c, "acquire")
    /\ LET missing == {i \in DOMAIN Order : Of(owned, Order[i]) = {}}
           next == CHOOSE i \in missing : \A j \in missing : i <= j
           h == <<Order[next], 0>>
       IN  \/ /\ owned' = owned \union {h} /\ live' = live \union {h}
              /\ IF missing = {next}
                 THEN exec' = [exec EXCEPT !.state = "prepared"] /\ Return(c)
                 ELSE UNCHANGED <<exec, call>>
              /\ UNCHANGED faults
           \/ Fault /\ Cleanup(c, call[c]) /\ UNCHANGED live
    /\ UNCHANGED <<plan, child, failed>>

-----------------------------------------------------------------------------
(* A client call starts.  Unless Overlap, the client starts nothing while  *)
(* a closing it asked for is pending, and uses what it is igniting only    *)
(* when the ignition has returned: until then it may wait and describe.    *)
(* The code admits more: it looks at the state, which is "running" before  *)
(* the ignition has read its status.                                       *)

Closing == {"close", "childClose"}
Patient == {"wait", "describe"}
Polite(kind) ==
    \/ Overlap
    \/ \A d \in Calls : /\ call[d].kind \notin Closing
                        /\ kind \notin Patient => call[d].kind # "ignite"

Admit(c, kind) ==
    call[c].kind = "idle" /\ exec.state # "none" /\ ~exec.closed /\ Polite(kind)
Called(kind) == [Idle EXCEPT !.kind = kind]

Preinitialize(c) ==
    /\ Admit(c, "preinitialize")
    /\ exec.state = "prepared" /\ ~exec.cold /\ ~exec.stored
    /\ exec' = [exec EXCEPT !.cold = TRUE]
    /\ Goto(c, Called("preinitialize"), "validate")
    /\ UNCHANGED <<plan, child, owned, live, failed, faults>>

\* The snapshots are validated; a refusal leaves the execution prepared.
Validate(c) ==
    /\ At(c, "validate")
    /\ \/ Goto(c, call[c], "write") /\ UNCHANGED exec
       \/ Return(c) /\ exec' = [exec EXCEPT !.cold = FALSE]
    /\ UNCHANGED <<plan, child, owned, live, failed, faults>>

Write(c) ==
    /\ At(c, "write")
    /\ \/ /\ exec' = [exec EXCEPT !.stored = TRUE, !.cold = FALSE]
          /\ IF call[c].kind = "ignite" THEN Goto(c, call[c], "launch") ELSE Return(c)
          /\ UNCHANGED <<owned, faults>>
       \/ Fault /\ Cleanup(c, call[c])
    /\ UNCHANGED <<plan, child, live, failed>>

\* The one look at closed: after staging, before the first submission.
Submit(c, r, e, base, held) ==
    /\ owned' = held
    /\ IF e.closed
       THEN Sweep(c, r, 0, {}, held, TRUE) /\ live' = base
       ELSE /\ exec' = e
            /\ IF plan.cold THEN Request(c, r, "child", "initialize", base)
               ELSE Request(c, r, "operation", "submit", base)

\* What ignite does once storage is ready; the state is not looked at again.
LaunchFrom(c, r) ==
    LET e == [exec EXCEPT !.state = "initializing", !.cold = plan.cold]
    IN  \/ plan.cold /\ Request(c, r, "xfer", "stage", live) /\ exec' = e /\ UNCHANGED owned
        \/ Submit(c, r, e, live, owned)

Launch(c) ==
    /\ At(c, "launch")
    /\ LaunchFrom(c, call[c])
    /\ UNCHANGED <<plan, child, failed, faults>>

Ignite(c) ==
    /\ Admit(c, "ignite")
    /\ exec.state = "prepared" /\ ~exec.cold
    /\ IF exec.stored
       THEN LaunchFrom(c, Called("ignite"))
       ELSE /\ exec' = [exec EXCEPT !.cold = TRUE]
            /\ Goto(c, Called("ignite"), "validate")
            /\ UNCHANGED <<owned, live>>
    /\ UNCHANGED <<plan, child, failed, faults>>

SubmitExternal(c) ==
    /\ Admit(c, "external")
    /\ exec.state = "running" /\ plan.continuation /\ ~exec.submitting
    /\ Of(owned, "child") \union Of(owned, "xfer") = {}
    /\ exec' = [exec EXCEPT !.submitting = TRUE]
    /\ \/ Request(c, Called("external"), "xfer", "stage", live)
       \/ Request(c, Called("external"), "child", "attach", live)
    /\ UNCHANGED <<plan, child, owned, failed, faults>>

\* Mutant of TransferFree: one transfer too many.
TransferFreeOne == exec.deliveries <= MaxTransfers

TransferFree == exec.deliveries < MaxTransfers

Deliver(c) ==
    /\ Admit(c, "deliver")
    /\ exec.state = "completed" /\ TransferFree
    /\ Of(owned, "memory") # {}
    /\ exec' = [exec EXCEPT !.deliveries = @ + 1]
    /\ Request(c, Called("deliver"), "xfer", "read", live)
    /\ UNCHANGED <<plan, child, owned, failed, faults>>

\* A call on external operation i, which the client may make at any time.
ChildCall(c, i, kind, pc) ==
    /\ call[c].kind = "idle" /\ child[i].held /\ Polite(kind)
    /\ Goto(c, [Called(kind) EXCEPT !.who = i], pc)
    /\ UNCHANGED <<plan, exec, owned, live, failed, faults>>

ChildWait(c, i) == ChildCall(c, i, "childWait", "childWait") /\ UNCHANGED child

ChildDeliver(c, i) ==
    /\ child[i].completed /\ ~child[i].busy /\ ~child[i].attempted
    /\ ChildCall(c, i, "childDeliver", "yield")
    /\ child' = [child EXCEPT ![i].busy = TRUE, ![i].attempted = TRUE]

ChildClose(c, i) ==
    ~child[i].busy /\ ChildCall(c, i, "childClose", "yield") /\ UNCHANGED child

Wait(c) ==
    /\ Admit(c, "wait") /\ Of(owned, "operation") # {}
    /\ Goto(c, Called("wait"), "wait")
    /\ UNCHANGED <<plan, exec, child, owned, live, failed, faults>>

Describe(c) ==
    /\ Admit(c, "describe") /\ ~exec.describing
    /\ exec' = [exec EXCEPT !.describing = TRUE]
    /\ Goto(c, Called("describe"), "describe")
    /\ UNCHANGED <<plan, child, owned, live, failed, faults>>

\* Mutant of Quiet: a delivery of an external operation is not looked for.
QuietParent == ~exec.describing /\ exec.deliveries = 0 /\ ~exec.submitting /\ ~exec.cold

\* Nothing is in flight that close must not pull the ground from.
Quiet ==
    /\ ~exec.describing /\ exec.deliveries = 0 /\ ~exec.submitting /\ ~exec.cold
    /\ \A h \in Of(owned, "child") : ~child[h[2]].busy

Close(c) ==
    /\ Admit(c, "close") /\ Quiet
    /\ Cleanup(c, Called("close"))
    /\ UNCHANGED <<plan, child, live, failed, faults>>

-----------------------------------------------------------------------------
(* Transfers: to stage an input, to read readiness, to deliver.            *)

\* Mutant of SubmissionOver: the flag survives a failed submission.
SubmissionLeft == exec

SubmissionOver == [exec EXCEPT !.submitting = FALSE]

\* What a call does when it cannot go on.
Abandon(c, held) ==
    /\ owned' = held
    /\ CASE call[c].kind = "ignite" ->
              Sweep(c, call[c], 0, {}, held, TRUE) /\ UNCHANGED child
         [] call[c].kind = "external" ->
              exec' = SubmissionOver /\ Return(c) /\ UNCHANGED child
         [] call[c].kind = "deliver" ->
              exec' = [exec EXCEPT !.deliveries = @ - 1] /\ Return(c) /\ UNCHANGED child
         [] call[c].kind = "childDeliver" ->
              child' = [child EXCEPT ![call[c].who].busy = FALSE] /\ Return(c) /\ UNCHANGED exec

\* What it does when its transfer is complete and closed.
Transferred(c, base, held) ==
    CASE call[c].kind = "ignite" /\ call[c].who = 0 ->
           Submit(c, call[c], exec, base, held) /\ UNCHANGED child
      [] call[c].kind = "ignite" /\ call[c].who # 0 ->
           /\ Request(c, call[c], "operation", "submit", base)
           /\ owned' = held /\ UNCHANGED <<exec, child>>
      [] call[c].kind = "external" ->
           /\ Request(c, call[c], "child", "attach", base)
           /\ owned' = held /\ UNCHANGED <<exec, child>>
      [] OTHER -> Abandon(c, held) /\ live' = base

XferAnswer(c) ==
    /\ call[c].pc \in {"stage", "read"}
    /\ \/ /\ Granted(c) /\ owned' = Registered(call[c].h)
          /\ Goto(c, call[c], "move") /\ UNCHANGED <<exec, child>>
       \/ Refused(c) /\ Abandon(c, owned)
    /\ UNCHANGED <<plan, failed>>

XferMoved(c) ==
    /\ At(c, "move")
    /\ \/ Goto(c, call[c], "shut") /\ UNCHANGED faults
       \/ Fault /\ Goto(c, [call[c] EXCEPT !.bad = TRUE], "shut")
    /\ UNCHANGED <<plan, exec, child, owned, live, failed>>

XferShut(c) ==
    /\ At(c, "shut")
    /\ LET h == call[c].h
       IN  \/ /\ MayClose(h) \/ call[c].kind = "deliver"
              /\ IF call[c].bad THEN Abandon(c, owned \ {h}) /\ live' = live \ {h}
                 ELSE Transferred(c, live \ {h}, owned \ {h})
              /\ UNCHANGED <<failed, faults>>
           \/ (FailsNow(h) \/ FailedBefore(h)) /\ Abandon(c, owned) /\ UNCHANGED live
    /\ UNCHANGED plan

-----------------------------------------------------------------------------
(* Submissions, and the calls on external operations.                      *)

\* The cold initializer is a child the client never sees.
InitializeAnswer(c) ==
    /\ At(c, "initialize")
    /\ \/ /\ Granted(c) /\ owned' = Registered(call[c].h)
          /\ Goto(c, [call[c] EXCEPT !.who = call[c].h[2]], "initWait") /\ UNCHANGED <<exec, child>>
       \/ Refused(c) /\ Abandon(c, owned)
    /\ UNCHANGED <<plan, failed>>

InitializeWaited(c) ==
    /\ At(c, "initWait")
    /\ \/ Goto(c, call[c], "initShut") /\ UNCHANGED <<exec, child, owned, faults>>
       \/ Fault /\ Abandon(c, owned)
    /\ UNCHANGED <<plan, live, failed>>

\* Once the initializer is closed its readiness word is read.
InitializeShut(c) ==
    /\ At(c, "initShut")
    /\ LET h == call[c].h
       IN  \/ /\ MayClose(h) /\ owned' = owned \ {h}
              /\ Request(c, call[c], "xfer", "read", live \ {h})
              /\ UNCHANGED <<exec, child, failed, faults>>
           \/ (FailsNow(h) \/ FailedBefore(h)) /\ Abandon(c, owned) /\ UNCHANGED live
    /\ UNCHANGED plan

\* The answer replaces whatever operation the execution held.  The execution
\* is running from here on; ignite still reads its status, if it is open.
SubmitAnswer(c) ==
    /\ At(c, "submit")
    /\ \/ /\ Granted(c) /\ owned' = (owned \ Of(owned, "operation")) \union {call[c].h}
          /\ exec' = [exec EXCEPT !.state = "running", !.cold = FALSE]
          /\ IF exec.closed THEN Return(c) ELSE Goto(c, call[c], "status")
          /\ UNCHANGED child
       \/ Refused(c) /\ Abandon(c, owned)
    /\ UNCHANGED <<plan, failed>>

\* A status that cannot be read ends the running execution.
StatusAnswer(c) ==
    /\ At(c, "status")
    /\ \/ Return(c) /\ UNCHANGED <<exec, child, owned, faults>>
       \/ Fault /\ Abandon(c, owned)
    /\ UNCHANGED <<plan, live, failed>>

AttachAnswer(c) ==
    /\ At(c, "attach")
    /\ \/ /\ Granted(c) /\ owned' = Registered(call[c].h)
          /\ child' = [child EXCEPT ![call[c].h[2]] = [NoChild EXCEPT !.held = TRUE]]
          /\ exec' = SubmissionOver /\ Return(c)
       \/ Refused(c) /\ Abandon(c, owned)
    /\ UNCHANGED <<plan, failed>>

\* closeLower, for a delivery or for the closing of the external operation.
YieldAnswer(c) ==
    /\ At(c, "yield")
    /\ LET i == call[c].who
           h == <<"child", i>>
       IN  \/ /\ MayClose(h) /\ call[c].kind = "childDeliver"
              /\ Request(c, call[c], "xfer", "read", live \ {h})
              /\ UNCHANGED <<child, owned, failed, faults>>
           \/ /\ MayClose(h) /\ call[c].kind = "childClose"
              /\ owned' = owned \ {h} /\ live' = live \ {h}
              /\ child' = [child EXCEPT ![i] = NoChild]
              /\ Return(c) /\ UNCHANGED <<failed, faults>>
           \/ /\ FailsNow(h) \/ FailedBefore(h)
              /\ child' = [child EXCEPT ![i].busy = IF call[c].kind = "childDeliver" THEN FALSE ELSE @]
              /\ Return(c) /\ UNCHANGED <<owned, live>>
    /\ UNCHANGED <<plan, exec>>

ChildWaited(c) ==
    /\ At(c, "childWait")
    /\ \/ child' = [child EXCEPT ![call[c].who].completed = child[call[c].who].held]
       \/ UNCHANGED child
    /\ Return(c)
    /\ UNCHANGED <<plan, exec, owned, live, failed, faults>>

\* wait writes the state also when the execution was closed meanwhile.
Waited(c) ==
    /\ At(c, "wait")
    /\ exec' \in {exec, [exec EXCEPT !.state = "completed"]}
    /\ Return(c)
    /\ UNCHANGED <<plan, child, owned, live, failed, faults>>

Described(c) ==
    /\ At(c, "describe")
    /\ exec' = [exec EXCEPT !.describing = FALSE]
    /\ Return(c)
    /\ UNCHANGED <<plan, child, owned, live, failed, faults>>

-----------------------------------------------------------------------------

\* Steps the lower runtime answers in finite time; a search may run forever.
Answered(c) ==
    \/ Acquire(c) \/ Validate(c) \/ Write(c) \/ Launch(c)
    \/ XferAnswer(c) \/ XferMoved(c) \/ XferShut(c)
    \/ InitializeAnswer(c) \/ InitializeWaited(c) \/ InitializeShut(c)
    \/ SubmitAnswer(c) \/ StatusAnswer(c) \/ AttachAnswer(c) \/ YieldAnswer(c) \/ Described(c)
    \/ CleanupStep(c)

ClientStep(c) ==
    \/ Preinitialize(c) \/ Ignite(c) \/ SubmitExternal(c) \/ Deliver(c)
    \/ \E i \in Ids : ChildWait(c, i) \/ ChildDeliver(c, i) \/ ChildClose(c, i)
    \/ Wait(c) \/ Describe(c) \/ Close(c)

Next == \E c \in Calls : ClientStep(c) \/ Answered(c) \/ ChildWaited(c) \/ Waited(c)

Spec == Init /\ [][Next]_vars

-----------------------------------------------------------------------------

TypeOK ==
    /\ exec.state \in {"none", "prepared", "initializing", "running", "completed", "closed"}
    /\ exec.report \in {"none", "complete", "quarantined"}
    /\ exec.deliveries \in 0 .. MaxTransfers
    /\ owned \subseteq Handles /\ live \subseteq Handles /\ failed \subseteq Handles
    /\ \A c \in Calls : call[c].h \in Handles /\ call[c].todo \subseteq Handles

\* A lower handle never outlives what it was made from: teardown and
\* rollback close children first, and keep the parents of what would not close.
DependencySafe == \A h \in live : Grounded(live, h[1])

\* The execution, or the call that asked for it, knows every handle that exists.
NothingLost == \A h \in live : h \in owned \/ \E c \in Calls : call[c].h = h

\* A complete report means nothing is left in the lower runtime.
HonestReport == exec.report = "complete" => live = {} /\ failed = {}

\* On every path out of a call the flag that blocks closing is taken back.
FlagsMatch ==
    LET Some(kind) == \E c \in Calls : call[c].kind = kind
    IN  /\ exec.submitting <=> Some("external")
        /\ exec.describing <=> Some("describe")
        /\ exec.deliveries = Cardinality({c \in Calls : call[c].kind = "deliver"})
        /\ \A i \in Ids : child[i].busy <=>
              \E c \in Calls : call[c].kind = "childDeliver" /\ call[c].who = i
        /\ exec.cold => Some("preinitialize") \/ Some("ignite")

\* Nothing is staged, read or submitted while things are given back, and
\* the client's own closing waits for a description too.
ClosesAlone ==
    \A c, d \in Calls : c # d /\ At(c, "cleanup") =>
        \/ call[d].kind \in {"idle", "wait", "childWait"}
        \/ call[d].kind = "describe" /\ call[c].kind # "close"

\* What would not close stays: its closing is not tried again.
QuarantineStays == [][failed \intersect live \subseteq live' /\ failed \subseteq failed']_vars
=============================================================================
