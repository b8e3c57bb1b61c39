--------------------------- MODULE EvaluatorCohort ---------------------------
(***************************************************************************)
(* The evaluator under the collective service of a finite cohort: one      *)
(* block of lanes makes a fixed number of rounds.  In a round lane 0       *)
(* cancels what is pending when the host asked for it, and forms a batch;  *)
(* after a barrier each lane serves its own item; after another barrier    *)
(* the next round begins.  All requests were admitted before the block     *)
(* entered, and no other comes.                                            *)
(*                                                                         *)
(* Source: components/search-compiler/src/progress-cohort.mjs,             *)
(* createEvaluatorCohortService.                                           *)
(***************************************************************************)
EXTENDS TensorEvaluator

ASSUME CohortAssumption == Workers = Lanes

VARIABLES
    round,    \* rounds made
    stage,    \* what the block does: "screen", "cancel", "form", "serve" or "done"
    mailbox,  \* the host's cancellation word
    at,       \* the slot cancelPending has come to
    served    \* lanes that have reached the second barrier

cohortVars == <<vars, round, stage, mailbox, at, served>>

\* Mutant of Rounds: the last, partial batch is not counted.
RoundsDown == RequestCapacity \div ItemCapacity

\* Enough rounds for the batches the requests fill.
Rounds == (RequestCapacity + ItemCapacity - 1) \div ItemCapacity

\* Some of the slots were admitted, each once.
CohortInit ==
    \E queued \in SUBSET Slots :
        /\ slots = [s \in Slots |-> [st |-> IF s \in queued THEN "queued" ELSE "free",
                                     gen |-> IF s \in queued THEN 1 ELSE 0,
                                     cancel |-> FALSE, batch |-> 0, item |-> 0]]
        /\ input = [s \in Slots |-> IF s \in queued THEN [slot |-> s, gen |-> 1] ELSE Nothing]
        /\ result = [s \in Slots |-> Nothing]
        /\ batch = [st |-> "free", occupancy |-> 0, completed |-> 0, gen |-> 0]
        /\ lanes = [i \in Lanes |-> [slot |-> 0, gen |-> 0, status |-> "pending",
                                     features |-> Nothing, scores |-> Nothing]]
        /\ owner = [s \in Slots |-> IF s \in queued THEN "wait" ELSE "idle"]
        /\ canceller = [s \in Slots |-> NoCall]
        /\ former = [pc |-> "idle", at |-> 0, occupancy |-> 0]
        /\ worker = [w \in Workers |-> Rest]
        /\ round = 0 /\ stage = "screen" /\ mailbox = FALSE /\ at = 0 /\ served = {}

\* The host raises the word once, at any time.
HostCancels ==
    /\ ~mailbox /\ mailbox' = TRUE
    /\ UNCHANGED <<vars, round, stage, at, served>>

Screen ==
    /\ stage = "screen"
    /\ stage' = IF mailbox THEN "cancel" ELSE "form"
    /\ at' = 0
    /\ UNCHANGED <<vars, round, mailbox, served>>

\* cancelPending calls cancel for one slot after the other.
CancelPending ==
    /\ stage = "cancel"
    /\ IF at = RequestCapacity
       THEN stage' = "form" /\ UNCHANGED <<vars, at>>
       ELSE /\ UNCHANGED stage
            /\ IF slots[at].st \in {"queued", "inflight"} \/ canceller[at].pc # "idle"
               THEN Cancel(at) /\ UNCHANGED at
               ELSE at' = at + 1 /\ UNCHANGED vars
    /\ UNCHANGED <<round, mailbox, served>>

\* Lane 0 comes to the first barrier when formBatch returns.
Form ==
    /\ stage = "form"
    /\ IF \/ former.pc = "take"
          \/ batch.st = "free" /\ \E s \in Slots : slots[s].st = "queued"
       THEN FormBatch ELSE UNCHANGED vars
    /\ stage' = IF former'.pc = "idle" THEN "serve" ELSE stage
    /\ served' = {}
    /\ UNCHANGED <<round, mailbox, at>>

\* Mutant of Enter: a lane waits for an item instead of returning.
EnterWithItem(w) ==
    /\ stage = "serve" /\ worker[w].pc = "idle" /\ w \notin served
    /\ batch.st = "ready" /\ w < batch.occupancy
    /\ Capture(w, w)
    /\ UNCHANGED <<round, stage, mailbox, at, served>>

\* Each lane calls serviceItem once: it has an item, or returns at once.
Enter(w) ==
    /\ stage = "serve" /\ worker[w].pc = "idle" /\ w \notin served
    /\ IF batch.st = "ready" /\ w < batch.occupancy
       THEN Capture(w, w) /\ UNCHANGED served
       ELSE UNCHANGED vars /\ served' = served \cup {w}
    /\ UNCHANGED <<round, stage, mailbox, at>>

\* The service publishes a failed item; it retries nothing.
Serve(w) ==
    /\ stage = "serve" /\ worker[w].pc # "idle"
    /\ Work(w) /\ worker'[w].next # "retry"
    /\ served' = IF worker'[w].pc = "idle" THEN served \cup {w} ELSE served
    /\ UNCHANGED <<round, stage, mailbox, at>>

\* Mutant of Barrier: the first lane that comes goes on.
BarrierOpen ==
    /\ stage = "serve" /\ served # {}
    /\ round' = round + 1
    /\ stage' = IF round' = Rounds THEN "done" ELSE "screen"
    /\ UNCHANGED <<vars, mailbox, at, served>>

Barrier ==
    /\ stage = "serve" /\ served = Workers
    /\ round' = round + 1
    /\ stage' = IF round' = Rounds THEN "done" ELSE "screen"
    /\ UNCHANGED <<vars, mailbox, at, served>>

\* What the service returns.
Quiescent ==
    /\ batch.st = "free"
    /\ \A s \in Slots : slots[s].st \in Terminal \cup {"free", "retired"}

CohortNext ==
    \/ HostCancels \/ Screen \/ CancelPending \/ Form \/ Barrier
    \/ \E w \in Workers : Enter(w) \/ Serve(w)

\* The block runs: each of its lanes makes its next step.
CohortFairness ==
    /\ WF_cohortVars(Screen \/ CancelPending \/ Form \/ Barrier)
    /\ \A w \in Workers : WF_cohortVars(Enter(w) \/ Serve(w))

CohortSpec == CohortInit /\ [][CohortNext]_cohortVars /\ CohortFairness

-----------------------------------------------------------------------------
LeavesQuiescent == stage = "done" => Quiescent

RoundsAreSeparate ==
    stage \in {"screen", "cancel"} =>
        /\ batch.st = "free" /\ \A w \in Workers : worker[w].pc = "idle"
        /\ \A s \in Slots : slots[s].st # "inflight"

\* The rounds are separate and enough: between two of them nothing is in flight
\* and every lane is idle, and when the block leaves the service reports
\* quiescence, whatever was cancelled or failed meanwhile.
RoundsSettle == RoundsAreSeparate /\ LeavesQuiescent

\* The block calls the evaluator as OrderlySpec asks: no batch is formed while a
\* lane has counted its item and not yet compared the count with the occupancy.
CallsInOrder == [][OrderlyNext]_vars

\* The block leaves, so that every admitted request has its answer.
BlockLeaves == <>(stage = "done")
=============================================================================
