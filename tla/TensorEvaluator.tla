--------------------------- MODULE TensorEvaluator ---------------------------
(***************************************************************************)
(* The device runtime of the tensor evaluator: request slots, one batch of *)
(* item lanes, and the calls that admit, cancel, batch, prepare, execute,  *)
(* scatter, publish, retry and recycle a request.  They share words by     *)
(* compare-and-swap, acquire loads and release stores, and check by a      *)
(* token of generations that what they work on is still there.             *)
(*                                                                         *)
(* Source: adapters/evaluators/cuda-js-tensor/src/runtime-contribution.mjs.*)
(* A step is one effect on the shared words with the checks before it; what*)
(* a call read stays in its record until the next step.  One step are: the *)
(* words that batchItemMatches compares; the stores into a slot that is    *)
(* claimed, which nobody else reads; the scan for a queued request.  The   *)
(* requester's own generation goes with the slot's and is left out.        *)
(*                                                                         *)
(* Spec is these functions under callers that do as they like.  OrderlySpec*)
(* asks one thing of whoever calls formBatch, which the source's two       *)
(* callers give by a barrier: see OrderlyFormBatch.                        *)
(***************************************************************************)
EXTENDS Integers, FiniteSets

CONSTANTS
    RequestCapacity,  \* request slots
    ItemCapacity,     \* lanes of the batch
    Workers,          \* who execute items
    Cancellable,      \* slots whose requests somebody cancels
    MaxGeneration,    \* stands for 2^64 - 1, the last generation of a slot
    MaxBatch          \* stands for 2^64 - 1, the last generation of the batch

ASSUME EvaluatorAssumption ==
    /\ {RequestCapacity, ItemCapacity, MaxGeneration, MaxBatch} \subseteq Nat \ {0}
    /\ Cancellable \subseteq 0 .. RequestCapacity - 1

Slots == 0 .. RequestCapacity - 1
Lanes == 0 .. ItemCapacity - 1

VARIABLES
    slots,     \* request control words
    input,     \* the encoded request of a slot
    result,    \* the result staged for a slot
    batch,     \* batch control words
    lanes,     \* item words and the tensor's staging
    owner,     \* where the requester of a slot is
    canceller, \* the cancel call at a slot
    former,    \* the formBatch call
    worker     \* the item calls of a worker

vars == <<slots, input, result, batch, lanes, owner, canceller, former, worker>>

Terminal == {"ready", "failed", "cancelled", "stale"}
Nothing == [slot |-> 0, gen |-> 0]
NoToken == [lane |-> 0, slot |-> 0, gen |-> 0, batch |-> 0]
NoCall == [pc |-> "idle", queued |-> FALSE, answer |-> "none"]
Rest == [pc |-> "idle", token |-> NoToken, item |-> "pending", next |-> "idle",
         prev |-> 0, last |-> FALSE]

Init ==
    /\ slots = [s \in Slots |-> [st |-> "free", gen |-> 0, cancel |-> FALSE, batch |-> 0, item |-> 0]]
    /\ input = [s \in Slots |-> Nothing] /\ result = [s \in Slots |-> Nothing]
    /\ batch = [st |-> "free", occupancy |-> 0, completed |-> 0, gen |-> 0]
    /\ lanes = [i \in Lanes |-> [slot |-> 0, gen |-> 0, status |-> "pending",
                                 features |-> Nothing, scores |-> Nothing]]
    /\ owner = [s \in Slots |-> "idle"]
    /\ canceller = [s \in Slots |-> NoCall]
    /\ former = [pc |-> "idle", at |-> 0, occupancy |-> 0]
    /\ worker = [w \in Workers |-> Rest]

-----------------------------------------------------------------------------
(* admit and recycle: the requester of a slot.                             *)

\* The request is encoded while the slot is free; the slot is claimed by CAS.
AdmitClaim(s) ==
    /\ owner[s] = "idle" /\ slots[s].st = "free"
    /\ input' = [input EXCEPT ![s] = [slot |-> s, gen |-> slots[s].gen + 1]]
    /\ slots' = [slots EXCEPT ![s].st = "claimed"]
    /\ owner' = [owner EXCEPT ![s] = "admit"]
    /\ UNCHANGED <<result, batch, lanes, canceller, former, worker>>

\* Mutant of AdmitFill: the last generation is not recognised.
AdmitFillWraps(s) ==
    /\ owner[s] = "admit"
    /\ slots' = [slots EXCEPT ![s] = [@ EXCEPT !.st = "queued", !.gen = slots[s].gen + 1, !.batch = 0,
                                               !.item = 0, !.cancel = FALSE]]
    /\ owner' = [owner EXCEPT ![s] = "wait"]
    /\ UNCHANGED <<input, result, batch, lanes, canceller, former, worker>>

\* The claimed slot is filled and released to the queue.
AdmitFill(s) ==
    /\ owner[s] = "admit"
    /\ IF slots[s].gen = MaxGeneration
       THEN /\ slots' = [slots EXCEPT ![s].st = "retired"]
            /\ owner' = [owner EXCEPT ![s] = "done"]
       ELSE /\ slots' = [slots EXCEPT ![s] = [@ EXCEPT !.st = "queued", !.gen = slots[s].gen + 1, !.batch = 0,
                                                       !.item = 0, !.cancel = FALSE]]
            /\ owner' = [owner EXCEPT ![s] = "wait"]
    /\ UNCHANGED <<input, result, batch, lanes, canceller, former, worker>>

\* A requester that makes its own cancel calls has returned from them.
Recycle(s) ==
    /\ owner[s] = "wait" /\ slots[s].st \in Terminal
    /\ canceller[s].pc = "idle"
    /\ slots' = [slots EXCEPT ![s].st = "free", ![s].cancel = FALSE]
    /\ owner' = [owner EXCEPT ![s] = "idle"] /\ canceller' = [canceller EXCEPT ![s] = NoCall]
    /\ UNCHANGED <<input, result, batch, lanes, former, worker>>

Owner(s) == AdmitClaim(s) \/ AdmitFill(s) \/ Recycle(s)

-----------------------------------------------------------------------------
(* cancel.                                                                 *)

\* The call names the generation of its own request, and goes on when that is
\* queued or in flight.
CancelCall(s) ==
    /\ s \in Cancellable /\ canceller[s].pc = "idle" /\ slots[s].st \in {"queued", "inflight"}
    /\ canceller' = [canceller EXCEPT ![s] =
          [pc |-> "flag", queued |-> slots[s].st = "queued", answer |-> "none"]]
    /\ UNCHANGED <<slots, input, result, batch, lanes, owner, former, worker>>

CancelFlag(s) ==
    /\ canceller[s].pc = "flag"
    /\ slots' = [slots EXCEPT ![s].cancel = TRUE]
    /\ canceller' = [canceller EXCEPT ![s].pc = IF canceller[s].queued THEN "claim" ELSE "after",
                                      ![s].queued = FALSE]
    /\ UNCHANGED <<input, result, batch, lanes, owner, former, worker>>

\* Mutant of CancelClaim: the slot is taken without comparing its state.
CancelClaimStore(s) ==
    /\ canceller[s].pc = "claim"
    /\ slots' = [slots EXCEPT ![s].st = "publishing"]
    /\ canceller' = [canceller EXCEPT ![s].pc = "store"]
    /\ UNCHANGED <<input, result, batch, lanes, owner, former, worker>>

\* A queued request is taken out of the queue; no batch will hold it.
CancelClaim(s) ==
    /\ canceller[s].pc = "claim"
    /\ IF slots[s].st = "queued"
       THEN /\ slots' = [slots EXCEPT ![s].st = "publishing"]
            /\ canceller' = [canceller EXCEPT ![s].pc = "store"]
       ELSE canceller' = [canceller EXCEPT ![s].pc = "after"] /\ UNCHANGED slots
    /\ UNCHANGED <<input, result, batch, lanes, owner, former, worker>>

CancelStore(s) ==
    /\ canceller[s].pc = "store"
    /\ slots' = [slots EXCEPT ![s].st = "cancelled"]
    /\ canceller' = [canceller EXCEPT ![s].pc = "idle", ![s].answer = "cancelled"]
    /\ UNCHANGED <<input, result, batch, lanes, owner, former, worker>>

CancelAfter(s) ==
    /\ canceller[s].pc = "after"
    /\ canceller' = [canceller EXCEPT ![s].pc = "idle",
          ![s].answer = IF slots[s].st = "inflight" THEN "cancelled" ELSE "notReady"]
    /\ UNCHANGED <<slots, input, result, batch, lanes, owner, former, worker>>

Cancel(s) == CancelCall(s) \/ CancelFlag(s) \/ CancelClaim(s) \/ CancelStore(s) \/ CancelAfter(s)

-----------------------------------------------------------------------------
(* formBatch.                                                              *)

\* Mutant of FormScan: the count of the batch before is kept.
FormScanKeepsCount ==
    /\ former.pc = "idle" /\ batch.st = "free"
    /\ \E s \in Slots : slots[s].st = "queued"
    /\ batch' = [batch EXCEPT !.st = "forming"]
    /\ former' = [pc |-> "take", at |-> 0, occupancy |-> 0]
    /\ UNCHANGED <<slots, input, result, lanes, owner, canceller, worker>>

\* The free batch is claimed when a request is queued.
FormScan ==
    /\ former.pc = "idle" /\ batch.st = "free"
    /\ \E s \in Slots : slots[s].st = "queued"
    /\ IF batch.gen = MaxBatch
       THEN batch' = [batch EXCEPT !.st = "retired"] /\ UNCHANGED former
       ELSE /\ batch' = [batch EXCEPT !.st = "forming", !.occupancy = 0, !.completed = 0]
            /\ former' = [pc |-> "take", at |-> 0, occupancy |-> 0]
    /\ UNCHANGED <<slots, input, result, lanes, owner, canceller, worker>>

\* The next slot, when it is queued, becomes an item.
FormTake ==
    /\ former.pc = "take" /\ former.at < RequestCapacity /\ former.occupancy < ItemCapacity
    /\ LET s == former.at
           i == former.occupancy
       IN  IF slots[s].st = "queued"
           THEN /\ slots' = [slots EXCEPT ![s] = [@ EXCEPT !.st = "inflight", !.item = i,
                                                           !.batch = batch.gen + 1]]
                /\ lanes' = [lanes EXCEPT ![i] = [@ EXCEPT !.slot = s, !.gen = slots[s].gen,
                                                           !.status = "pending"]]
                /\ former' = [former EXCEPT !.at = s + 1, !.occupancy = i + 1]
           ELSE former' = [former EXCEPT !.at = s + 1] /\ UNCHANGED <<slots, lanes>>
    /\ UNCHANGED <<input, result, batch, owner, canceller, worker>>

FormEnd ==
    /\ former.pc = "take"
    /\ former.at = RequestCapacity \/ former.occupancy = ItemCapacity
    /\ batch' = IF former.occupancy = 0 THEN [batch EXCEPT !.st = "free"]
                ELSE [batch EXCEPT !.st = "ready", !.gen = @ + 1, !.occupancy = former.occupancy]
    /\ former' = [former EXCEPT !.pc = "idle"]
    /\ UNCHANGED <<slots, input, result, lanes, owner, canceller, worker>>

FormBatch == FormScan \/ FormTake \/ FormEnd

-----------------------------------------------------------------------------
(* The items of a batch.                                                   *)

\* batchItemMatches: the token names what the lane and the slot hold now.
Matches(t) ==
    /\ batch.st = "ready" /\ batch.gen = t.batch /\ t.lane < batch.occupancy
    /\ lanes[t.lane].slot = t.slot /\ lanes[t.lane].gen = t.gen
    /\ slots[t.slot].st = "inflight" /\ slots[t.slot].gen = t.gen
    /\ slots[t.slot].batch = t.batch /\ slots[t.slot].item = t.lane

Moves(w, pc) ==
    worker' = [worker EXCEPT ![w] = IF pc = "idle" THEN Rest ELSE [@ EXCEPT !.pc = pc]]

\* The item's status is stored in the next step of w.
Marks(w, status, next) ==
    worker' = [worker EXCEPT ![w] = [@ EXCEPT !.pc = "mark", !.item = status, !.next = next]]

\* serviceItem: a worker takes the token of a lane of the ready batch that no
\* other worker holds.
Capture(w, i) ==
    /\ worker[w].pc = "idle" /\ batch.st = "ready" /\ i < batch.occupancy
    /\ LET t == [lane |-> i, slot |-> lanes[i].slot, gen |-> lanes[i].gen, batch |-> batch.gen]
       IN  /\ \A v \in Workers : worker[v].pc = "idle" \/ worker[v].token # t
           /\ worker' = [worker EXCEPT ![w] = [@ EXCEPT !.pc = "prepare", !.token = t]]
    /\ UNCHANGED <<slots, input, result, batch, lanes, owner, canceller, former>>

\* prepareItem, up to the copy.
Prepare(w) ==
    LET t == worker[w].token IN
    /\ worker[w].pc = "prepare"
    /\ IF ~Matches(t) THEN Moves(w, "publish")
       ELSE IF slots[t.slot].cancel THEN Marks(w, "cancelled", "publish")
       ELSE Moves(w, "copyIn")
    /\ UNCHANGED <<slots, input, result, batch, lanes, owner, canceller, former>>

CopyIn(w) ==
    LET t == worker[w].token IN
    /\ worker[w].pc = "copyIn"
    /\ lanes' = [lanes EXCEPT ![t.lane] = [@ EXCEPT !.features = input[t.slot],
                                                    !.status = "prepared"]]
    /\ Moves(w, "execute")
    /\ UNCHANGED <<slots, input, result, batch, owner, canceller, former>>

\* executeItem, up to the tensor.
Execute(w) ==
    LET t == worker[w].token IN
    /\ worker[w].pc = "execute"
    /\ IF ~Matches(t) \/ lanes[t.lane].status # "prepared" THEN Moves(w, "publish")
       ELSE IF slots[t.slot].cancel THEN Marks(w, "cancelled", "publish")
       ELSE Moves(w, "tensor")
    /\ UNCHANGED <<slots, input, result, batch, lanes, owner, canceller, former>>

\* The tensor computes the lane's scores, or fails and leaves what was there.
Tensor(w, ok) ==
    LET t == worker[w].token IN
    /\ worker[w].pc = "tensor"
    /\ lanes' = IF ok THEN [lanes EXCEPT ![t.lane].scores = lanes[t.lane].features] ELSE lanes
    /\ Moves(w, IF ok THEN "computed" ELSE "failed")
    /\ UNCHANGED <<slots, input, result, batch, owner, canceller, former>>

\* executeItem, after the tensor.  A failed item is published or retried.
Executed(w, retries) ==
    LET t == worker[w].token IN
    /\ worker[w].pc \in {"computed", "failed"}
    /\ IF ~Matches(t) THEN Moves(w, "publish")
       ELSE IF slots[t.slot].cancel THEN Marks(w, "cancelled", "publish")
       ELSE IF worker[w].pc = "computed" THEN Marks(w, "computed", "scatter")
       ELSE Marks(w, "failed", IF retries THEN "retry" ELSE "publish")
    /\ UNCHANGED <<slots, input, result, batch, lanes, owner, canceller, former>>

Mark(w) ==
    LET t == worker[w].token IN
    /\ worker[w].pc = "mark"
    /\ lanes' = [lanes EXCEPT ![t.lane].status = worker[w].item]
    /\ worker' = [worker EXCEPT ![w] = IF worker[w].next = "idle" THEN Rest
                                       ELSE [@ EXCEPT !.pc = worker[w].next, !.next = "idle"]]
    /\ UNCHANGED <<slots, input, result, batch, owner, canceller, former>>

\* scatterItem: the scores are copied between two checks of the token.
Scatter(w) ==
    LET t == worker[w].token IN
    /\ worker[w].pc = "scatter"
    /\ IF ~Matches(t) \/ lanes[t.lane].status # "computed" THEN Moves(w, "publish")
       ELSE IF slots[t.slot].cancel THEN Marks(w, "cancelled", "publish")
       ELSE Moves(w, "copyOut")
    /\ UNCHANGED <<slots, input, result, batch, lanes, owner, canceller, former>>

\* Mutant of CopyOut: the offset of the item is forgotten.
CopyOutFirst(w) ==
    /\ worker[w].pc = "copyOut"
    /\ result' = [result EXCEPT ![worker[w].token.slot] = lanes[0].scores]
    /\ Moves(w, "scattered")
    /\ UNCHANGED <<slots, input, batch, lanes, owner, canceller, former>>

CopyOut(w) ==
    LET t == worker[w].token IN
    /\ worker[w].pc = "copyOut"
    /\ result' = [result EXCEPT ![t.slot] = lanes[t.lane].scores]
    /\ Moves(w, "scattered")
    /\ UNCHANGED <<slots, input, batch, lanes, owner, canceller, former>>

Scattered(w) ==
    /\ worker[w].pc = "scattered"
    /\ IF Matches(worker[w].token) THEN Marks(w, "scattered", "publish") ELSE Moves(w, "publish")
    /\ UNCHANGED <<slots, input, result, batch, lanes, owner, canceller, former>>

\* publishItem, up to the claim: what is published is decided here.
Publish(w) ==
    LET t == worker[w].token
        status == lanes[t.lane].status
    IN
    /\ worker[w].pc = "publish"
    /\ IF ~Matches(t) \/ status \notin {"scattered", "failed", "cancelled", "stale"} THEN Moves(w, "idle")
       ELSE IF slots[t.slot].cancel /\ status = "scattered" THEN Marks(w, "cancelled", "claim")
       ELSE worker' = [worker EXCEPT ![w] = [@ EXCEPT !.pc = "claim", !.item = status]]
    /\ UNCHANGED <<slots, input, result, batch, lanes, owner, canceller, former>>

PublishClaim(w) ==
    LET t == worker[w].token IN
    /\ worker[w].pc = "claim"
    /\ IF slots[t.slot].st = "inflight"
       THEN slots' = [slots EXCEPT ![t.slot].st = "publishing"] /\ Moves(w, "finish")
       ELSE Moves(w, "idle") /\ UNCHANGED slots
    /\ UNCHANGED <<input, result, batch, lanes, owner, canceller, former>>

\* finishBatchItem: the item's status is taken once, the item is counted, and
\* the occupancy is loaded afterwards: the last one counted frees the batch.
Finish(w) ==
    LET t == worker[w].token IN
    /\ worker[w].pc = "finish"
    /\ IF batch.st = "ready" /\ batch.gen = t.batch /\ lanes[t.lane].status = worker[w].item
       THEN lanes' = [lanes EXCEPT ![t.lane].status = "published"] /\ Moves(w, "count")
       ELSE Moves(w, IF worker[w].item = "retrying" THEN "idle" ELSE "unfinished") /\ UNCHANGED lanes
    /\ UNCHANGED <<slots, input, result, batch, owner, canceller, former>>

Count(w) ==
    /\ worker[w].pc = "count"
    /\ batch' = [batch EXCEPT !.completed = @ + 1]
    /\ worker' = [worker EXCEPT ![w] = [@ EXCEPT !.pc = "compare", !.prev = batch.completed]]
    /\ UNCHANGED <<slots, input, result, lanes, owner, canceller, former>>

\* Mutant of Compare: the first item that is counted frees the batch.
CompareFirst(w) ==
    /\ worker[w].pc = "compare"
    /\ worker' = [worker EXCEPT ![w] = [@ EXCEPT !.pc = "counted", !.prev = 0, !.last = TRUE]]
    /\ UNCHANGED <<slots, input, result, batch, lanes, owner, canceller, former>>

Compare(w) ==
    /\ worker[w].pc = "compare"
    /\ worker' = [worker EXCEPT ![w] = [@ EXCEPT !.pc = "counted", !.prev = 0,
                                                 !.last = worker[w].prev + 1 = batch.occupancy]]
    /\ UNCHANGED <<slots, input, result, batch, lanes, owner, canceller, former>>

Counted(w) ==
    /\ worker[w].pc = "counted"
    /\ batch' = IF worker[w].last THEN [batch EXCEPT !.st = "free"] ELSE batch
    /\ Moves(w, IF worker[w].item = "retrying" THEN "idle" ELSE "finished")
    /\ UNCHANGED <<slots, input, result, lanes, owner, canceller, former>>

\* The terminal state of the request is released.
Outcome(item) == IF item = "scattered" THEN "ready" ELSE item

Release(w) ==
    LET t == worker[w].token IN
    /\ worker[w].pc \in {"finished", "unfinished"}
    /\ slots' = [slots EXCEPT ![t.slot].st =
                    IF worker[w].pc = "finished" THEN Outcome(worker[w].item) ELSE "stale"]
    /\ Moves(w, "idle")
    /\ UNCHANGED <<input, result, batch, lanes, owner, canceller, former>>

\* retryItem: the item is taken, then the slot, which is queued again.
Retry(w) ==
    LET t == worker[w].token IN
    /\ worker[w].pc = "retry"
    /\ IF ~Matches(t) THEN Moves(w, "idle") /\ UNCHANGED lanes
       ELSE IF slots[t.slot].cancel THEN Marks(w, "cancelled", "publish") /\ UNCHANGED lanes
       ELSE IF lanes[t.lane].status # "failed" THEN Moves(w, "idle") /\ UNCHANGED lanes
       ELSE /\ lanes' = [lanes EXCEPT ![t.lane].status = "retrying"]
            /\ worker' = [worker EXCEPT ![w] = [@ EXCEPT !.pc = "retake", !.item = "retrying"]]
    /\ UNCHANGED <<slots, input, result, batch, owner, canceller, former>>

RetryTake(w) ==
    LET t == worker[w].token IN
    /\ worker[w].pc = "retake"
    /\ IF slots[t.slot].st = "inflight"
       THEN slots' = [slots EXCEPT ![t.slot].st = "claimed"] /\ Moves(w, "requeue")
       ELSE Marks(w, "failed", "idle") /\ UNCHANGED slots
    /\ UNCHANGED <<input, result, batch, lanes, owner, canceller, former>>

Requeue(w) ==
    LET t == worker[w].token IN
    /\ worker[w].pc = "requeue"
    /\ slots' = [slots EXCEPT ![t.slot].st = "queued"]
    /\ Moves(w, "finish")
    /\ UNCHANGED <<input, result, batch, lanes, owner, canceller, former>>

Work(w) ==
    \/ Prepare(w) \/ CopyIn(w) \/ Execute(w) \/ (\E ok \in BOOLEAN : Tensor(w, ok))
    \/ (\E retries \in BOOLEAN : Executed(w, retries)) \/ Mark(w)
    \/ Scatter(w) \/ CopyOut(w) \/ Scattered(w)
    \/ Publish(w) \/ PublishClaim(w) \/ Finish(w) \/ Count(w) \/ Compare(w)
    \/ Counted(w) \/ Release(w)
    \/ Retry(w) \/ RetryTake(w) \/ Requeue(w)

Next ==
    \/ \E s \in Slots : Owner(s) \/ Cancel(s)
    \/ FormBatch
    \/ \E w \in Workers : Work(w) \/ \E i \in Lanes : Capture(w, i)

Spec == Init /\ [][Next]_vars

\* formBatch is not begun while an item call is between its addition and its load
\* of the occupancy: that call would compare its count with the next batch.
OrderlyFormBatch ==
    /\ former.pc = "idle" => \A w \in Workers : worker[w].pc # "compare"
    /\ FormBatch

OrderlyNext ==
    \/ \E s \in Slots : Owner(s) \/ Cancel(s)
    \/ OrderlyFormBatch
    \/ \E w \in Workers : Work(w) \/ \E i \in Lanes : Capture(w, i)

OrderlySpec == Init /\ [][OrderlyNext]_vars

-----------------------------------------------------------------------------
Generations == 0 .. MaxGeneration
Payloads == [slot: Slots, gen: 0 .. MaxGeneration + 1]
Statuses == {"pending", "prepared", "computed", "scattered", "failed", "cancelled", "stale",
             "retrying", "published"}
Tokens == [lane: Lanes, slot: Slots, gen: Generations, batch: 0 .. MaxBatch]

\* The type invariant: control words, staging and the calls' own variables.
TypeOK ==
    /\ slots \in [Slots -> [st: Terminal \cup {"free", "claimed", "queued", "inflight",
                                               "publishing", "retired"},
                            gen: Generations, cancel: BOOLEAN, batch: 0 .. MaxBatch, item: Lanes]]
    /\ input \in [Slots -> Payloads] /\ result \in [Slots -> Payloads]
    /\ batch \in [st: {"free", "forming", "ready", "retired"}, occupancy: 0 .. ItemCapacity,
                  completed: 0 .. ItemCapacity, gen: 0 .. MaxBatch]
    /\ lanes \in [Lanes -> [slot: Slots, gen: Generations, status: Statuses,
                            features: Payloads, scores: Payloads]]
    /\ owner \in [Slots -> {"idle", "admit", "wait", "done"}]
    /\ canceller \in [Slots -> [pc: {"idle", "flag", "claim", "store", "after"},
                                queued: BOOLEAN, answer: {"none", "cancelled", "notReady"}]]
    /\ former \in [pc: {"idle", "take"}, at: 0 .. RequestCapacity,
                   occupancy: 0 .. ItemCapacity]
    /\ worker \in [Workers -> [pc: {"idle", "prepare", "copyIn", "execute", "tensor", "computed",
                                    "failed", "mark", "scatter", "copyOut", "scattered", "publish",
                                    "claim", "finish", "count", "compare", "counted", "finished",
                                    "unfinished", "retry", "retake", "requeue"},
                               token: Tokens, item: Statuses,
                               next: {"idle", "publish", "scatter", "retry", "claim"},
                               prev: 0 .. ItemCapacity, last: BOOLEAN]]

\* A result a consumer may read is the one computed from the request that the
\* slot holds: no worker, late or fast, leaves another request's scores there.
ReadyIsOwn ==
    \A s \in Slots : slots[s].st = "ready" => result[s] = [slot |-> s, gen |-> slots[s].gen]

\* A request in flight is an unfinished item of the batch being formed or
\* served: claims, retries and cancellations never strand one.
InFlightHasLane ==
    \A s \in Slots : slots[s].st = "inflight" =>
        LET i == slots[s].item IN
        /\ lanes[i].slot = s /\ lanes[i].gen = slots[s].gen /\ lanes[i].status # "published"
        /\ \/ batch.st = "ready" /\ slots[s].batch = batch.gen /\ i < batch.occupancy
           \/ former.pc = "take" /\ i < former.occupancy

\* A cancel call that answered "cancelled" was ordered before the publication:
\* the request it named does not become ready.
CancelledIsNotReady ==
    \A s \in Slots :
        canceller[s].answer = "cancelled" => slots[s].st # "ready"

BatchAccounted ==
    LET published == {i \in Lanes : i < batch.occupancy /\ lanes[i].status = "published"}
        at(pc) == {w \in Workers : worker[w].pc = pc}
    IN  batch.st = "ready" =>
          /\ Cardinality(published) = batch.completed + Cardinality(at("count"))
          /\ batch.completed = batch.occupancy =>
                \/ \E w \in at("compare") : worker[w].prev + 1 = batch.occupancy
                \/ \E w \in at("counted") : worker[w].last

UnfinishedIsOpen ==
    batch.st = "ready" =>
        \A i \in Lanes : i < batch.occupancy /\ lanes[i].status \notin {"published", "retrying"} =>
            slots[lanes[i].slot].st \in {"inflight", "publishing", "claimed"}

\* A batch comes to its end: the items counted are those published, the one who
\* counted the last is about to free it, and an item nobody finished has a
\* request that is still open, so that a worker can finish it.
BatchFinishes == BatchAccounted /\ UnfinishedIsOpen

\* What a requester sees of its slot is what EvaluationSlots promises.
Phase(s) ==
    CASE slots[s].st = "retired" -> "retired"
      [] slots[s].st \in Terminal -> "answered"
      [] slots[s].st \notin Terminal \cup {"retired"} /\ owner[s] = "wait" -> "open"
      [] OTHER -> "idle"
Promise == INSTANCE EvaluationSlots WITH
    phase <- [s \in Slots |-> Phase(s)],
    gen <- [s \in Slots |-> slots[s].gen],
    outcome <- [s \in Slots |-> IF slots[s].st \in Terminal THEN slots[s].st ELSE "none"],
    value <- [s \in Slots |-> IF slots[s].st = "ready" THEN result[s] ELSE Nothing]
ImplementsSlots == Promise!Spec
=============================================================================
