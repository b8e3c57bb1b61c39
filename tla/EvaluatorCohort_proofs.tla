----------------------- MODULE EvaluatorCohort_proofs -----------------------
(***************************************************************************)
(* The collective service settles, for any number of requests and lanes:   *)
(* between two rounds nothing is in flight, and its rounds are enough, so  *)
(* that it reports quiescence when the block leaves.  The evaluator's own  *)
(* invariant is taken from TensorEvaluator_proofs: every step of the block *)
(* is one of its steps.                                                    *)
(***************************************************************************)
EXTENDS EvaluatorCohort, TensorEvaluator_proofs

Queued == {s \in Slots : slots[s].st = "queued"}

\* The rounds: what the block does agrees with its counters, and no lane and no
\* cancel call is at work in another stage.
Staged ==
    /\ stage \in {"screen", "cancel", "form", "serve", "done"}
    /\ round \in 0 .. Rounds /\ (stage = "done" <=> round = Rounds)
    /\ at \in 0 .. RequestCapacity /\ served \subseteq Workers
    /\ stage # "form" => former.pc = "idle"
    /\ stage \in {"screen", "cancel", "done"} => batch.st = "free"
    /\ stage = "form" /\ former.pc = "idle" => batch.st = "free"
    /\ batch.st # "retired"
    /\ batch.gen <= IF stage = "serve" THEN round + 1 ELSE round
    /\ \A s \in Slots : canceller[s].pc # "idle" => stage = "cancel" /\ s = at

\* What is queued fits into the rounds that are left.
Fitting ==
    LET queued == Cardinality(Queued) IN
    /\ stage \in {"screen", "cancel", "done"} \/ (stage = "form" /\ former.pc = "idle") =>
          Queued = {} \/ queued + round * ItemCapacity <= RequestCapacity
    /\ stage = "form" /\ former.pc = "take" =>
          /\ queued + former.occupancy + round * ItemCapacity <= RequestCapacity
          /\ \A s \in Queued : s >= former.at
    /\ stage = "serve" =>
          Queued = {} \/ queued + (round + 1) * ItemCapacity <= RequestCapacity

\* Nobody admits or retries: a slot is claimed by nobody, and published by a
\* lane or by the cancel call.
Closing ==
    \A s \in Slots :
        /\ slots[s].st # "claimed"
        /\ slots[s].st = "publishing" =>
              \/ canceller[s].pc = "store"
              \/ \E w \in Workers : /\ worker[w].pc \in {"finish", "count", "compare", "counted", "finished"}
                                    /\ worker[w].token.slot = s

\* A lane at work has its own item of this batch, and when it is done with it
\* the item is published.
Serving(w) ==
    /\ worker[w].next # "retry" /\ worker[w].item # "retrying"
    /\ worker[w].pc \notin {"retry", "retake", "requeue"}
    /\ worker[w].pc # "idle" => /\ stage = "serve" /\ w \notin served
                                /\ worker[w].token.lane = w /\ worker[w].token.batch = batch.gen
    /\ worker[w].pc = "publish" /\ Matches(worker[w].token) =>
          lanes[w].status \in {"scattered", "failed", "cancelled"}
    /\ worker[w].pc \in {"count", "compare", "counted", "finished"} => lanes[w].status = "published"
    /\ stage = "serve" /\ w \in served /\ batch.st = "ready" /\ w < batch.occupancy =>
          lanes[w].status = "published"

CohortInv == Staged /\ Fitting /\ Closing /\ \A w \in Workers : Serving(w)

-----------------------------------------------------------------------------
(* Counting.                                                               *)

\* The rounds hold every request, and a round more is a batch more.
LEMMA RoundsCover ==
    /\ Rounds \in Nat \ {0} /\ RequestCapacity <= Rounds * ItemCapacity
    /\ \A r \in Nat : (r + 1) * ItemCapacity = r * ItemCapacity + ItemCapacity
    /\ \A r \in Nat : r * ItemCapacity \in Nat
<1>1. RequestCapacity \in Nat \ {0} /\ ItemCapacity \in Nat \ {0}
  BY EvaluatorAssumption DEF EvaluatorAssumption
<1>2. Rounds \in Nat \ {0} /\ RequestCapacity <= Rounds * ItemCapacity
  BY <1>1 DEF Rounds
<1>3. \A r \in Nat : (r + 1) * ItemCapacity = r * ItemCapacity + ItemCapacity
  BY <1>1
<1>4. \A r \in Nat : r * ItemCapacity \in Nat
  BY <1>1
<1> QED
  BY <1>2, <1>3, <1>4

\* Sets of slots are finite.
LEMMA SomeSlots ==
    ASSUME NEW Q \in SUBSET Slots
    PROVE  /\ IsFiniteSet(Q) /\ Cardinality(Q) \in Nat /\ Cardinality(Q) <= RequestCapacity
           /\ Q # {} => Cardinality(Q) > 0
<1>1. IsFiniteSet(Slots) /\ Cardinality(Slots) = RequestCapacity
  <2>1. RequestCapacity \in Nat \ {0} /\ Slots = 0 .. RequestCapacity - 1
    BY EvaluatorAssumption DEF EvaluatorAssumption, Slots
  <2>2. IsFiniteSet(0 .. RequestCapacity - 1)
        /\ Cardinality(0 .. RequestCapacity - 1) =
              IF 0 > RequestCapacity - 1 THEN 0 ELSE RequestCapacity - 1 - 0 + 1
    BY <2>1, FS_Interval
  <2> QED
    BY <2>1, <2>2
<1>2. IsFiniteSet(Q) /\ Cardinality(Q) <= RequestCapacity
  BY <1>1, FS_Subset
<1>3. Cardinality(Q) \in Nat /\ (Cardinality(Q) = 0 <=> Q = {})
  BY <1>2, FS_CardinalityType, FS_EmptySet
<1> QED
  BY <1>2, <1>3

\* Fewer of them, and one fewer.
LEMMA FewerSlots ==
    ASSUME NEW Q \in SUBSET Slots
    PROVE  /\ \A P \in SUBSET Q : Cardinality(P) <= Cardinality(Q)
           /\ \A s \in Q : Cardinality(Q \ {s}) = Cardinality(Q) - 1
<1>1. IsFiniteSet(Q)
  BY SomeSlots
<1>2. \A P \in SUBSET Q : Cardinality(P) <= Cardinality(Q)
  BY <1>1, FS_Subset
<1>3. \A s \in Q : Cardinality(Q \ {s}) = Cardinality(Q) - 1
  BY <1>1, FS_RemoveElement
<1> QED
  BY <1>2, <1>3

\* The words of the block and of the evaluator that are compared.
LEMMA CohortWords ==
    ASSUME Types, Staged
    PROVE  /\ round \in Nat /\ batch.gen \in Nat /\ former.pc \in {"idle", "take"}
           /\ former.occupancy \in 0 .. ItemCapacity /\ former.at \in 0 .. RequestCapacity
           /\ batch.occupancy \in 0 .. ItemCapacity
           /\ ItemCapacity \in Nat /\ RequestCapacity \in Nat /\ Rounds \in Nat
           /\ Workers = Lanes /\ Queued \in SUBSET Slots
BY SizesAre, RoundsCover, CohortAssumption DEF Types, Staged, CohortAssumption, Queued

\* In another stage than the service every lane is at rest, and so are the
\* cancel calls in another stage than their own.
LEMMA AtRest ==
    ASSUME CohortInv
    PROVE  /\ stage # "serve" => \A w \in Workers : worker[w].pc = "idle"
           /\ stage # "cancel" => \A s \in Slots : canceller[s].pc = "idle"
           /\ \A w \in served : worker[w].pc = "idle"
BY DEF CohortInv, Serving, Staged

\* Every step of the block is a step of the evaluator, or none.
LEMMA BlockSteps ==
    ASSUME Types, CohortInv, [CohortNext]_cohortVars PROVE [OrderlyNext]_vars
<1>1. CASE CancelPending
  <2>1. at # RequestCapacity => at \in Slots
    BY SizesAre DEF CohortInv, Staged, Slots
  <2> QED
    BY <1>1, <2>1 DEF CancelPending, OrderlyNext
<1>2. CASE Form
  <2>1. \A w \in Workers : worker[w].pc # "compare"
    BY <1>2, AtRest DEF Form
  <2> QED
    BY <1>2, <2>1 DEF Form, OrderlyNext, OrderlyFormBatch
<1>3. ASSUME NEW w \in Workers, Enter(w) PROVE [OrderlyNext]_vars
  BY <1>3, CohortAssumption DEF Enter, OrderlyNext, CohortAssumption
<1>4. ASSUME NEW w \in Workers, Serve(w) PROVE [OrderlyNext]_vars
  BY <1>4 DEF Serve, OrderlyNext
<1>5. CASE HostCancels \/ Screen \/ Barrier \/ UNCHANGED cohortVars
  BY <1>5 DEF HostCancels, Screen, Barrier, cohortVars
<1> QED
  BY <1>1, <1>2, <1>3, <1>4, <1>5 DEF CohortNext

-----------------------------------------------------------------------------
(* The steps of lane 0 for the whole block.                                *)

\* What the evaluator's words say is as it was.
LEMMA QuietBlock ==
    ASSUME CohortInv, UNCHANGED vars
    PROVE  /\ Closing' /\ Queued' = Queued
           /\ \A w \in Workers : Matches(worker[w].token)' <=> Matches(worker[w].token)
BY DEF CohortInv, Closing, Queued, Matches, vars

\* The host's word, and the screen of it, change nothing else.
LEMMA ScreenKeeps ==
    ASSUME Types, CohortInv, HostCancels \/ Screen \/ UNCHANGED cohortVars PROVE CohortInv'
<1>1. UNCHANGED vars /\ UNCHANGED <<round, served>>
  BY DEF HostCancels, Screen, cohortVars
<1>2. \/ UNCHANGED <<stage, at>>
      \/ stage = "screen" /\ stage' \in {"cancel", "form"} /\ at' = 0
  BY DEF HostCancels, Screen, cohortVars
<1>3. Staged'
  BY <1>1, <1>2, AtRest, SizesAre DEF CohortInv, Staged, vars
<1>4. Fitting'
  BY <1>1, <1>2, QuietBlock DEF CohortInv, Staged, Fitting, vars
<1>5. ASSUME NEW w \in Workers PROVE Serving(w)'
  BY <1>1, <1>2, QuietBlock DEF CohortInv, Serving, vars
<1> QED
  BY <1>1, <1>3, <1>4, <1>5, QuietBlock DEF CohortInv

\* A cancel call takes a request out of the queue, and touches no other slot.
LEMMA CancelChanges ==
    ASSUME Types, NEW s \in Slots, Cancel(s)
    PROVE  /\ UNCHANGED <<batch, lanes, former, worker>>
           /\ \A x \in Slots \ {s} : slots'[x] = slots[x] /\ canceller'[x] = canceller[x]
           /\ \/ slots'[s].st = slots[s].st /\ (canceller[s].pc = "store" => canceller'[s].pc = "store")
              \/ slots'[s].st = "publishing" /\ canceller'[s].pc = "store"
              \/ slots'[s].st = "cancelled"
<1>1. slots[s] \in Records /\ canceller[s] \in CancelCalls
  BY DEF Types
<1>2. /\ UNCHANGED <<batch, lanes, former, worker>>
      /\ \A x \in Slots \ {s} : slots'[x] = slots[x] /\ canceller'[x] = canceller[x]
  BY DEF Cancel, CancelCall, CancelFlag, CancelClaim, CancelStore, CancelAfter, Types
<1>3. CASE CancelCall(s) \/ CancelAfter(s)
  BY <1>2, <1>3 DEF CancelCall, CancelAfter
<1>4. CASE CancelFlag(s)
  BY <1>1, <1>2, <1>4 DEF CancelFlag, Types, Records
<1>5. CASE CancelClaim(s)
  <2>1. CASE slots[s].st = "queued"
    BY <1>1, <1>2, <1>5, <2>1 DEF CancelClaim, Types, Records, CancelCalls
  <2>2. CASE slots[s].st # "queued"
    BY <1>2, <1>5, <2>2 DEF CancelClaim
  <2> QED
    BY <2>1, <2>2
<1>6. CASE CancelStore(s)
  BY <1>1, <1>2, <1>6 DEF CancelStore, Types, Records
<1> QED
  BY <1>2, <1>3, <1>4, <1>5, <1>6 DEF Cancel

\* cancelPending: the queue only shrinks, and no call is left behind.
LEMMA CancelKeeps ==
    ASSUME Types, CohortInv, CancelPending PROVE CohortInv'
<1>1. stage = "cancel" /\ UNCHANGED <<round, mailbox, served>>
  BY DEF CancelPending
<1>2. \A w \in Workers : worker[w].pc = "idle"
  BY <1>1, AtRest
<1>3. CASE at = RequestCapacity
  <2>1. stage' = "form" /\ UNCHANGED vars /\ at' = at
    BY <1>3 DEF CancelPending
  <2>2. \A s \in Slots : s # at
    BY <1>3, SizesAre DEF Slots
  <2>3. Staged'
    BY <1>1, <2>1, <2>2 DEF CohortInv, Staged, vars
  <2>4. Fitting'
    BY <1>1, <2>1, QuietBlock DEF CohortInv, Staged, Fitting, vars
  <2>5. ASSUME NEW w \in Workers PROVE Serving(w)'
    BY <1>1, <1>2, <2>1 DEF CohortInv, Serving, vars
  <2> QED
    BY <2>1, <2>3, <2>4, <2>5, QuietBlock DEF CohortInv
<1>4. CASE at # RequestCapacity /\ Cancel(at)
  <2>1. at \in Slots /\ at' = at /\ stage' = stage
    <3>1. at \in Slots
      BY <1>4, SizesAre DEF CohortInv, Staged, Slots
    <3>2. slots[at].st \in {"queued", "inflight"} \/ canceller[at].pc # "idle"
      BY <1>4 DEF Cancel, CancelCall, CancelFlag, CancelClaim, CancelStore, CancelAfter
    <3> QED
      BY <1>4, <3>1, <3>2 DEF CancelPending
  <2>2. /\ UNCHANGED <<batch, lanes, former, worker>>
        /\ \A x \in Slots \ {at} : slots'[x] = slots[x] /\ canceller'[x] = canceller[x]
        /\ \/ slots'[at].st = slots[at].st /\ (canceller[at].pc = "store" => canceller'[at].pc = "store")
           \/ slots'[at].st = "publishing" /\ canceller'[at].pc = "store"
           \/ slots'[at].st = "cancelled"
    BY <1>4, <2>1, CancelChanges
  <2>3. Staged'
    BY <1>1, <2>1, <2>2 DEF CohortInv, Staged
  <2>4. Queued' \in SUBSET Queued
    BY <2>1, <2>2 DEF Queued
  <2>5. Fitting'
    <3>1. Cardinality(Queued') <= Cardinality(Queued) /\ Cardinality(Queued') \in Nat /\ Cardinality(Queued) \in Nat
      BY <2>4, FewerSlots, SomeSlots DEF Queued
    <3>2. round \in Nat /\ round * ItemCapacity \in Nat /\ RequestCapacity \in Nat
      BY CohortWords, RoundsCover DEF CohortInv
    <3>3. Queued = {} \/ Cardinality(Queued) + round * ItemCapacity <= RequestCapacity
      BY <1>1 DEF CohortInv, Fitting
    <3>4. Queued' = {} \/ Cardinality(Queued') + round * ItemCapacity <= RequestCapacity
      BY <2>4, <3>1, <3>2, <3>3
    <3> QED
      BY <1>1, <2>1, <3>4 DEF Fitting
  <2>6. Closing'
    BY <1>2, <2>1, <2>2 DEF CohortInv, Closing
  <2>7. ASSUME NEW w \in Workers PROVE Serving(w)'
    BY <1>1, <1>2, <2>1, <2>2 DEF CohortInv, Serving
  <2> QED
    BY <2>3, <2>5, <2>6, <2>7 DEF CohortInv
<1>5. CASE at # RequestCapacity /\ ~Cancel(at)
  <2>1. /\ stage' = stage /\ at' = at + 1 /\ UNCHANGED vars
        /\ canceller[at].pc = "idle"
    BY <1>5 DEF CancelPending
  <2>2. at + 1 \in 0 .. RequestCapacity
    BY <1>5, SizesAre DEF CohortInv, Staged
  <2>3. Staged'
    BY <1>1, <2>1, <2>2 DEF CohortInv, Staged, vars
  <2>4. Fitting'
    BY <1>1, <2>1, QuietBlock DEF CohortInv, Fitting, vars
  <2>5. ASSUME NEW w \in Workers PROVE Serving(w)'
    BY <1>1, <1>2, <2>1 DEF CohortInv, Serving, vars
  <2> QED
    BY <2>1, <2>3, <2>4, <2>5, QuietBlock DEF CohortInv
<1> QED
  BY <1>3, <1>4, <1>5

\* While a batch is formed no lane works, and no cancel call is made.
LEMMA FormKeeps ==
    ASSUME IInv, CohortInv, Rounds <= MaxBatch, Form PROVE CohortInv'
<1>1. /\ stage = "form" /\ served' = {} /\ UNCHANGED <<round, mailbox, at>>
      /\ stage' = IF former'.pc = "idle" THEN "serve" ELSE stage
      /\ Types /\ Staged /\ Fitting
  BY DEF Form, IInv, CohortInv
<1>2. /\ \A w \in Workers : worker[w].pc = "idle"
      /\ \A s \in Slots : canceller[s].pc = "idle"
  BY <1>1, AtRest
<1>3. /\ round \in Nat /\ batch.gen \in Nat /\ former.pc \in {"idle", "take"} /\ ItemCapacity \in Nat
      /\ RequestCapacity \in Nat /\ Rounds \in Nat /\ Queued \in SUBSET Slots
      /\ former.occupancy \in 0 .. ItemCapacity /\ former.at \in 0 .. RequestCapacity
      /\ Cardinality(Queued) \in Nat /\ round * ItemCapacity \in Nat /\ MaxBatch \in Nat
  BY <1>1, CohortWords, RoundsCover, SomeSlots, SizesAre
<1>4. batch.gen <= round /\ round < Rounds
  BY <1>1, <1>3 DEF Staged
\* What is left to show when the requests and the calls are untouched.
<1>5. ASSUME UNCHANGED <<canceller, worker>>, former'.pc \in {"idle", "take"},
             batch'.gen <= IF former'.pc = "idle" THEN round + 1 ELSE round,
             batch'.st # "retired",
             \A s \in Slots : slots'[s].st \in {"claimed", "publishing"} => slots'[s].st = slots[s].st,
             Fitting'
      PROVE  CohortInv'
  <2>1. Staged'
    BY <1>1, <1>2, <1>5 DEF Staged
  <2>2. Closing'
    BY <1>2, <1>5 DEF CohortInv, Closing
  <2>3. ASSUME NEW w \in Workers PROVE Serving(w)'
    BY <1>1, <1>2, <1>5 DEF CohortInv, Serving
  <2> QED
    BY <1>5, <2>1, <2>2, <2>3 DEF CohortInv
<1>6. CASE ~(former.pc = "take" \/ (batch.st = "free" /\ \E s \in Slots : slots[s].st = "queued"))
  <2>1. UNCHANGED vars
    BY <1>6 DEF Form
  <2>2. former.pc = "idle" /\ Queued = {} /\ batch.st = "free"
    BY <1>1, <1>3, <1>6 DEF Staged, Queued
  <2>3. stage' = "serve" /\ Queued' = {}
    BY <1>1, <2>1, <2>2, QuietBlock DEF vars
  <2>4. Fitting'
    BY <2>3 DEF Fitting
  <2> QED
    BY <1>3, <1>4, <1>5, <2>1, <2>2, <2>4 DEF vars
<1>7. CASE FormScan
  <2>1. /\ former.pc = "idle" /\ Queued # {} /\ batch.gen # MaxBatch
        /\ UNCHANGED <<slots, lanes, canceller, worker>>
    BY <1>3, <1>4, <1>7 DEF FormScan, Queued
  <2>2. /\ batch' = [batch EXCEPT !.st = "forming", !.occupancy = 0, !.completed = 0]
        /\ former' = [pc |-> "take", at |-> 0, occupancy |-> 0]
    BY <1>7, <2>1 DEF FormScan
  <2>3. batch'.gen = batch.gen /\ batch'.st = "forming"
    BY <1>1, <2>2 DEF Types
  <2>4. Queued' = Queued
    BY <2>1 DEF Queued
  <2>5. Cardinality(Queued) + round * ItemCapacity <= RequestCapacity
    BY <1>1, <2>1 DEF Fitting
  <2>6. \A s \in Queued : s >= 0
    BY SizesAre DEF Queued
  <2>7. Fitting'
    BY <1>1, <1>3, <2>2, <2>4, <2>5, <2>6 DEF Fitting
  <2> QED
    BY <1>4, <1>5, <2>1, <2>2, <2>3, <2>7
<1>8. CASE FormTake
  <2>1. /\ former.pc = "take" /\ former.at < RequestCapacity /\ former.occupancy < ItemCapacity
        /\ UNCHANGED <<batch, canceller, worker>>
    BY <1>8 DEF FormTake
  <2>2. PICK s \in Slots : s = former.at
    BY <1>3, <2>1 DEF Slots
  <2>3. /\ Cardinality(Queued) + former.occupancy + round * ItemCapacity <= RequestCapacity
        /\ \A x \in Queued : x >= s
    BY <1>1, <2>1, <2>2 DEF Fitting
  <2>4. former \in [pc: {"idle", "take"}, at: 0 .. RequestCapacity, occupancy: 0 .. ItemCapacity]
    BY <1>1 DEF Types
  <2>5. Queued \subseteq Slots /\ Slots \subseteq Nat /\ s \in Nat
    BY SizesAre DEF Queued
  <2>6. CASE slots[s].st # "queued"
    <3>1. former' = [former EXCEPT !.at = s + 1] /\ UNCHANGED slots
      BY <2>2, <2>6, <1>8 DEF FormTake
    <3>2. former'.pc = "take" /\ former'.at = s + 1 /\ former'.occupancy = former.occupancy
      BY <2>1, <2>4, <3>1
    <3>3. Queued' = Queued /\ s \notin Queued
      BY <2>6, <3>1 DEF Queued
    <3>4. \A x \in Queued' : x >= s + 1
      BY <2>3, <2>5, <3>3
    <3>5. Fitting'
      BY <1>1, <2>3, <3>2, <3>3, <3>4 DEF Fitting
    <3> QED
      BY <1>1, <1>4, <1>5, <2>1, <3>1, <3>2, <3>5 DEF Staged
  <2>7. CASE slots[s].st = "queued"
    <3>1. /\ former' = [former EXCEPT !.at = s + 1, !.occupancy = former.occupancy + 1]
          /\ slots' = [slots EXCEPT ![s] = [slots[s] EXCEPT !.st = "inflight", !.item = former.occupancy,
                                                            !.batch = batch.gen + 1]]
      BY <2>2, <2>7, <1>8 DEF FormTake
    <3>2. former'.pc = "take" /\ former'.at = s + 1 /\ former'.occupancy = former.occupancy + 1
      BY <2>1, <2>4, <3>1
    <3>3. slots'[s].st = "inflight" /\ \A x \in Slots \ {s} : slots'[x] = slots[x]
      <4>1. slots[s] \in Records
        BY <1>1 DEF Types
      <4> QED
        BY <1>1, <3>1, <4>1 DEF Types, Records
    <3>4. Queued' = Queued \ {s} /\ s \in Queued
      BY <2>7, <3>3 DEF Queued
    <3>5. Cardinality(Queued') = Cardinality(Queued) - 1
      BY <1>3, <3>4, FewerSlots
    <3>6. \A x \in Queued' : x >= s + 1
      BY <2>3, <2>5, <3>4
    <3>7. Cardinality(Queued') + former'.occupancy + round * ItemCapacity <= RequestCapacity
      BY <1>3, <2>3, <3>2, <3>5
    <3>8. Fitting'
      BY <1>1, <3>2, <3>6, <3>7 DEF Fitting
    <3> QED
      BY <1>1, <1>4, <1>5, <2>1, <3>2, <3>3, <3>8 DEF Staged
  <2> QED
    BY <2>6, <2>7
<1>9. CASE FormEnd
  <2>1. /\ former.pc = "take" /\ former' = [former EXCEPT !.pc = "idle"]
        /\ former.at = RequestCapacity \/ former.occupancy = ItemCapacity
        /\ UNCHANGED <<slots, canceller, worker>>
    BY <1>9 DEF FormEnd
  <2>2. former'.pc = "idle" /\ stage' = "serve"
    BY <1>1, <2>1 DEF Types
  <2>3. batch'.gen <= round + 1 /\ batch'.st \in {"free", "ready"}
    BY <1>1, <1>3, <1>4, <1>9 DEF FormEnd, Types
  <2>4. /\ Cardinality(Queued) + former.occupancy + round * ItemCapacity <= RequestCapacity
        /\ \A x \in Queued : x >= former.at
    BY <1>1, <2>1 DEF Fitting
  <2>5. Queued' = Queued
    BY <2>1 DEF Queued
  <2>6. Queued = {} \/ Cardinality(Queued) + (round + 1) * ItemCapacity <= RequestCapacity
    <3>1. CASE former.at = RequestCapacity
      <4>1. \A x \in Slots : ~(x >= RequestCapacity)
        BY <1>3 DEF Slots
      <4> QED
        BY <1>3, <2>4, <3>1, <4>1
    <3>2. CASE former.occupancy = ItemCapacity
      <4>1. (round + 1) * ItemCapacity = round * ItemCapacity + ItemCapacity
        BY <1>3, RoundsCover
      <4> QED
        BY <1>3, <2>4, <3>2, <4>1
    <3> QED
      BY <2>1, <3>1, <3>2
  <2>7. Fitting'
    BY <1>1, <2>2, <2>5, <2>6 DEF Fitting
  <2> QED
    BY <1>5, <2>1, <2>2, <2>3, <2>7
<1> QED
  BY <1>6, <1>7, <1>8, <1>9 DEF Form, FormBatch

\* When every lane is at rest and its item published, the batch was freed.
LEMMA AllServed ==
    ASSUME IInv, CohortInv, stage = "serve", served = Workers PROVE batch.st = "free"
<1>1. Types /\ Staged /\ \A w \in Workers : worker[w].pc = "idle"
  BY AtRest DEF IInv, CohortInv
<1>2. Workers = Lanes /\ batch.occupancy \in 0 .. ItemCapacity /\ ItemCapacity \in Nat
  BY <1>1, CohortWords
<1>3. batch.st # "forming" /\ batch.st # "retired"
  BY <1>1 DEF IInv, Forming, Staged
<1>4. SUFFICES ASSUME batch.st = "ready" PROVE FALSE
  BY <1>1, <1>3 DEF Types
<1>5. \A i \in Lanes : i < batch.occupancy => lanes[i].status = "published"
  BY <1>2, <1>4 DEF CohortInv, Serving
<1>6. At("count") = {} /\ \A w \in Workers : ~Ends(w)
  BY <1>1 DEF At, Ends
<1>7. Published = {i \in Lanes : i < batch.occupancy}
  BY <1>5 DEF Published
<1>8. Published = 0 .. batch.occupancy - 1
  BY <1>2, <1>7 DEF Lanes
<1>9. Cardinality(Published) = batch.occupancy
  <2>1. PICK b \in Int : b = batch.occupancy - 1
    BY <1>2
  <2>2. Cardinality(0 .. b) = IF 0 > b THEN 0 ELSE b - 0 + 1
    BY FS_Interval
  <2> QED
    BY <1>2, <1>8, <2>1, <2>2
<1>10. Cardinality(At("count")) = 0
  BY <1>6, FS_EmptySet
<1>11. batch.completed = batch.occupancy
  <2>1. batch.completed \in Nat
    BY <1>1, <1>2 DEF Types
  <2> QED
    BY <1>2, <1>4, <1>9, <1>10, <2>1 DEF IInv, Accounted
<1> QED
  BY <1>4, <1>6, <1>11 DEF IInv, Accounted

\* The second barrier: the next round begins, or the block leaves.
LEMMA BarrierKeeps ==
    ASSUME IInv, CohortInv, Barrier PROVE CohortInv'
<1>1. /\ stage = "serve" /\ served = Workers /\ round' = round + 1
      /\ stage' = IF round' = Rounds THEN "done" ELSE "screen"
      /\ UNCHANGED <<mailbox, at, served>> /\ UNCHANGED vars
  BY DEF Barrier
<1>2. Types /\ Staged /\ Fitting
  BY DEF IInv, CohortInv
<1>3. \A w \in Workers : worker[w].pc = "idle"
  BY <1>1, AtRest
<1>4. batch.st = "free"
  BY <1>1, AllServed
<1>5. round \in Nat /\ Rounds \in Nat /\ round < Rounds
  BY <1>1, <1>2, CohortWords DEF Staged
<1>6. Staged'
  BY <1>1, <1>2, <1>4, <1>5 DEF Staged, vars
<1>7. Fitting'
  BY <1>1, <1>2, QuietBlock DEF Fitting
<1>8. ASSUME NEW w \in Workers PROVE Serving(w)'
  BY <1>1, <1>3 DEF CohortInv, Serving, vars
<1> QED
  BY <1>1, <1>6, <1>7, <1>8, QuietBlock DEF CohortInv

-----------------------------------------------------------------------------
(* The service of the lanes.                                               *)

\* A lane enters with the item of its own number, or has none.
LEMMA EnterKeeps ==
    ASSUME IInv, CohortInv, NEW w \in Workers, Enter(w) PROVE CohortInv'
<1>1. /\ stage = "serve" /\ worker[w].pc = "idle" /\ w \notin served
      /\ UNCHANGED <<round, stage, mailbox, at>> /\ Types /\ Staged /\ Fitting
  BY DEF Enter, IInv, CohortInv
<1>2. CASE batch.st = "ready" /\ w < batch.occupancy
  <2>1. Capture(w, w) /\ UNCHANGED served
    BY <1>2 DEF Enter
  <2> DEFINE t == [lane |-> w, slot |-> lanes[w].slot, gen |-> lanes[w].gen, batch |-> batch.gen]
  <2>2. /\ worker' = [worker EXCEPT ![w] = [worker[w] EXCEPT !.pc = "prepare", !.token = t]]
        /\ UNCHANGED <<slots, batch, lanes, canceller, former>>
    BY <2>1 DEF Capture
  <2>3. worker[w] \in Calls
    BY <1>1 DEF Types
  <2>4. /\ worker'[w].pc = "prepare" /\ worker'[w].token = t
        /\ worker'[w].next = worker[w].next /\ worker'[w].item = worker[w].item
        /\ \A v \in Workers \ {w} : worker'[v] = worker[v]
    BY <1>1, <2>2, <2>3 DEF Types, Calls
  <2>5. t.lane = w /\ t.batch = batch.gen
    OBVIOUS
  <2> HIDE DEF t
  <2>6. Staged'
    BY <1>1, <2>1, <2>2 DEF Staged
  <2>7. Fitting'
    BY <1>1, <2>2 DEF Fitting, Queued
  <2>8. Closing'
    BY <1>1, <2>2, <2>4 DEF CohortInv, Closing
  <2>9. Serving(w)'
    BY <1>1, <2>1, <2>2, <2>4, <2>5 DEF CohortInv, Serving
  <2>10. ASSUME NEW v \in Workers \ {w} PROVE Serving(v)'
    <3>1. Serving(v) /\ worker'[v] = worker[v]
      BY <2>4 DEF CohortInv
    <3> QED
      BY <1>1, <2>1, <2>2, <3>1 DEF Serving, Matches
  <2> QED
    BY <2>6, <2>7, <2>8, <2>9, <2>10 DEF CohortInv
<1>3. CASE ~(batch.st = "ready" /\ w < batch.occupancy)
  <2>1. UNCHANGED vars /\ served' = served \cup {w}
    BY <1>3 DEF Enter
  <2>2. Staged'
    BY <1>1, <2>1 DEF Staged, vars
  <2>3. Fitting'
    BY <1>1, <2>1, QuietBlock DEF Fitting, vars
  <2>4. ASSUME NEW v \in Workers PROVE Serving(v)'
    BY <1>1, <1>3, <2>1, QuietBlock DEF CohortInv, Serving, vars
  <2> QED
    BY <2>1, <2>2, <2>3, <2>4, QuietBlock DEF CohortInv
<1> QED
  BY <1>2, <1>3

\* What a step of a lane at its item changes.
LEMMA WorkChanges ==
    ASSUME Types, NEW w \in Workers, Work(w)
    PROVE  /\ UNCHANGED <<former, owner, canceller>> /\ worker[w].pc # "idle"
           /\ \A v \in Workers \ {w} : worker'[v] = worker[v]
           /\ worker'[w].pc # "idle" => worker'[w].token = worker[w].token
           /\ \A i \in Lanes : lanes'[i].slot = lanes[i].slot /\ lanes'[i].gen = lanes[i].gen
           /\ \A i \in Lanes : i # worker[w].token.lane => lanes'[i] = lanes[i]
           /\ batch'.gen = batch.gen /\ batch'.occupancy = batch.occupancy
           /\ batch'.st = batch.st \/ batch'.st = "free"
           /\ \A s \in Slots : s # worker[w].token.slot => slots'[s] = slots[s]
<1> DEFINE t == worker[w].token
<1>1. /\ worker[w] \in Calls /\ lanes \in [Lanes -> Words] /\ slots \in [Slots -> Records]
      /\ worker \in [Workers -> Calls]
      /\ batch \in [st: {"free", "forming", "ready", "retired"}, occupancy: 0 .. ItemCapacity,
                    completed: 0 .. ItemCapacity, gen: 0 .. MaxBatch]
  BY SMTT(30) DEF Types
<1>2. UNCHANGED <<former, owner, canceller>> /\ worker[w].pc # "idle"
  BY DEF Work, Prepare, CopyIn, Execute, Tensor, Executed, Mark, Scatter, CopyOut, Scattered, Publish,
     PublishClaim, Finish, Count, Compare, Counted, Release, Retry, RetryTake, Requeue
<1>3. \E c : worker' = [worker EXCEPT ![w] = c] /\ (c.pc # "idle" => c.token = t)
  <2>1. \A pc : Moves(w, pc) => \E c : worker' = [worker EXCEPT ![w] = c] /\ (c.pc # "idle" => c.token = t)
    BY <1>1 DEF Moves, Rest, Calls
  <2>2. \A status, next : Marks(w, status, next) =>
           \E c : worker' = [worker EXCEPT ![w] = c] /\ (c.pc # "idle" => c.token = t)
    BY ZenonT(60), <1>1 DEF Marks, Calls
  <2>3. CASE Mark(w)
    <3>1. worker' = [worker EXCEPT ![w] = Rest]
          \/ worker' = [worker EXCEPT ![w] = [worker[w] EXCEPT !.pc = worker[w].next, !.next = "idle"]]
      BY <2>3 DEF Mark
    <3> QED
      BY ZenonT(60), <1>1, <3>1 DEF Rest, Calls
  <2>4. CASE Publish(w)
    <3>1. \/ \E pc : Moves(w, pc)
          \/ \E status, next : Marks(w, status, next)
          \/ \E item : worker' = [worker EXCEPT ![w] = [worker[w] EXCEPT !.pc = "claim", !.item = item]]
      BY <2>4 DEF Publish
    <3> QED
      BY <1>1, <2>1, <2>2, <3>1 DEF Calls
  <2>5. CASE Count(w)
    <3>1. \E prev : worker' = [worker EXCEPT ![w] = [worker[w] EXCEPT !.pc = "compare", !.prev = prev]]
      BY <2>5 DEF Count
    <3> QED
      BY ZenonT(60), <1>1, <3>1 DEF Calls
  <2>8. CASE Compare(w)
    <3>1. \E last : worker' = [worker EXCEPT ![w] = [worker[w] EXCEPT !.pc = "counted", !.prev = 0, !.last = last]]
      BY <2>8 DEF Compare
    <3> QED
      BY ZenonT(60), <1>1, <3>1 DEF Calls
  <2>6. CASE Retry(w)
    <3>1. \/ \E pc : Moves(w, pc)
          \/ \E status, next : Marks(w, status, next)
          \/ worker' = [worker EXCEPT ![w] = [worker[w] EXCEPT !.pc = "retake", !.item = "retrying"]]
      BY <2>6 DEF Retry
    <3> QED
      BY <1>1, <2>1, <2>2, <3>1 DEF Calls
  <2>7. CASE ~(Mark(w) \/ Publish(w) \/ Count(w) \/ Compare(w) \/ Retry(w))
    <3>1. (\E pc : Moves(w, pc)) \/ (\E status, next : Marks(w, status, next))
      BY <2>7 DEF Work, Prepare, CopyIn, Execute, Tensor, Executed, Scatter, CopyOut, Scattered,
         PublishClaim, Finish, Counted, Release, RetryTake, Requeue
    <3> QED
      BY <2>1, <2>2, <3>1
  <2> QED
    BY <2>3, <2>4, <2>5, <2>6, <2>7, <2>8
<1>4. /\ \A v \in Workers \ {w} : worker'[v] = worker[v]
      /\ worker'[w].pc # "idle" => worker'[w].token = worker[w].token
  BY <1>1, <1>3
<1>5. lanes' = lanes \/ \E x \in Words : /\ lanes' = [lanes EXCEPT ![t.lane] = x]
                                        /\ x.slot = lanes[t.lane].slot /\ x.gen = lanes[t.lane].gen
  <2>0. t \in Tokens /\ t.lane \in Lanes /\ t.slot \in Slots /\ lanes[t.lane] \in Words
    BY TokenTypes
  <2>1. PICK l \in Words : l = lanes[t.lane]
    BY <2>0
  <2>2. \A status \in Items : /\ [l EXCEPT !.status = status] \in Words
                              /\ [l EXCEPT !.status = status].slot = l.slot
                              /\ [l EXCEPT !.status = status].gen = l.gen
    BY DEF Words
  <2>3. ASSUME NEW status \in Items, lanes' = [lanes EXCEPT ![t.lane].status = status]
        PROVE  \E x \in Words : /\ lanes' = [lanes EXCEPT ![t.lane] = x]
                                /\ x.slot = lanes[t.lane].slot /\ x.gen = lanes[t.lane].gen
    BY <2>1, <2>2, <2>3
  <2>4. CASE CopyIn(w)
    <3>1. input[t.slot] \in Payloads
      BY <2>0 DEF Types
    <3>2. PICK f \in Payloads : f = input[t.slot]
      BY <3>1
    <3>3. lanes' = [lanes EXCEPT ![t.lane] = [l EXCEPT !.features = f, !.status = "prepared"]]
      BY <2>1, <2>4, <3>2 DEF CopyIn
    <3>4. /\ [l EXCEPT !.features = f, !.status = "prepared"] \in Words
          /\ [l EXCEPT !.features = f, !.status = "prepared"].slot = l.slot
          /\ [l EXCEPT !.features = f, !.status = "prepared"].gen = l.gen
      BY DEF Words, Items
    <3> QED
      BY <2>1, <3>3, <3>4
  <2>5. CASE \E ok \in BOOLEAN : Tensor(w, ok)
    <3>1. PICK f \in Payloads : f = lanes[t.lane].features
      BY <2>0 DEF Words
    <3>2. lanes' = lanes \/ lanes' = [lanes EXCEPT ![t.lane] = [l EXCEPT !.scores = f]]
      BY <2>1, <2>5, <3>1 DEF Tensor
    <3>3. /\ [l EXCEPT !.scores = f] \in Words
          /\ [l EXCEPT !.scores = f].slot = l.slot /\ [l EXCEPT !.scores = f].gen = l.gen
      BY DEF Words
    <3> QED
      BY <2>1, <3>2, <3>3
  <2>6. CASE Mark(w)
    <3>1. worker[w].item \in Items /\ lanes' = [lanes EXCEPT ![t.lane].status = worker[w].item]
      BY <1>1, <2>6 DEF Mark, Calls
    <3> QED
      BY <2>3, <3>1
  <2>7. CASE Finish(w) \/ Retry(w)
    <3>1. lanes' = lanes \/ \E status \in Items : lanes' = [lanes EXCEPT ![t.lane].status = status]
      BY <2>7 DEF Finish, Retry, Items
    <3> QED
      BY ZenonT(60), <2>3, <3>1
  <2>8. CASE ~(CopyIn(w) \/ (\E ok \in BOOLEAN : Tensor(w, ok)) \/ Mark(w) \/ Finish(w) \/ Retry(w))
    BY <2>8 DEF Work, Prepare, Execute, Executed, Scatter, CopyOut, Scattered, Publish,
       PublishClaim, Count, Compare, Counted, Release, RetryTake, Requeue
  <2> QED
    BY <2>4, <2>5, <2>6, <2>7, <2>8
<1>6. /\ \A i \in Lanes : lanes'[i].slot = lanes[i].slot /\ lanes'[i].gen = lanes[i].gen
      /\ \A i \in Lanes : i # worker[w].token.lane => lanes'[i] = lanes[i]
  BY SMTT(30), <1>1, <1>5
<1>7. /\ batch'.gen = batch.gen /\ batch'.occupancy = batch.occupancy
      /\ batch'.st = batch.st \/ batch'.st = "free"
  BY ZenonT(60), <1>1 DEF Work, Prepare, CopyIn, Execute, Tensor, Executed, Mark, Scatter, CopyOut, Scattered, Publish,
     PublishClaim, Finish, Count, Compare, Counted, Release, Retry, RetryTake, Requeue
<1>8. \A s \in Slots : s # worker[w].token.slot => slots'[s] = slots[s]
  BY <1>1 DEF Work, Prepare, CopyIn, Execute, Tensor, Executed, Mark, Scatter, CopyOut, Scattered, Publish,
     PublishClaim, Finish, Count, Compare, Counted, Release, Retry, RetryTake, Requeue
<1> QED
  BY <1>2, <1>4, <1>6, <1>7, <1>8

\* What the lane's call knows, and what it may not be at.
LEMMA ServedCall ==
    ASSUME IInv, CohortInv, NEW w \in Workers, worker[w].pc # "idle"
    PROVE  /\ Types /\ worker[w] \in Calls /\ worker[w].token \in Tokens /\ worker[w].token.slot \in Slots
           /\ w \in Lanes /\ worker[w].token.lane = w /\ worker[w].token.batch = batch.gen
           /\ worker[w].item # "retrying" /\ worker[w].pc \notin {"retry", "retake", "requeue", "unfinished"}
           /\ Knows(worker[w]) /\ Serving(w)
<1>1. Types /\ Knows(worker[w]) /\ Serving(w)
  BY DEF IInv, Settled, CohortInv
<1>2. /\ worker[w] \in Calls /\ worker[w].token \in Tokens /\ worker[w].token.slot \in Slots
      /\ worker[w].token.lane \in Lanes
  BY <1>1, TokenTypes
<1>3. worker[w].pc # "unfinished"
  BY <1>2 DEF Calls, Pcs
<1> QED
  BY <1>1, <1>2, <1>3 DEF Serving

\* The lane takes its own slot from the batch, or releases the answer in it.
LEMMA ServeSlots ==
    ASSUME IInv, CohortInv, NEW w \in Workers, Work(w)
    PROVE  \/ UNCHANGED slots /\ worker[w].pc \notin {"claim", "finished"}
           \/ /\ worker[w].pc = "claim" /\ worker'[w].pc = "finish"
              /\ slots[worker[w].token.slot].st = "inflight"
              /\ slots'[worker[w].token.slot].st = "publishing"
           \/ /\ worker[w].pc = "finished" /\ worker'[w].pc = "idle"
              /\ slots[worker[w].token.slot].st = "publishing"
              /\ slots'[worker[w].token.slot].st \in {"ready", "failed", "cancelled"}
<1>1. PICK t \in Tokens : t = worker[w].token
  BY WorkChanges, ServedCall DEF IInv
<1>2. /\ Types /\ t.slot \in Slots /\ Knows(worker[w]) /\ worker[w].item # "retrying"
      /\ worker[w].pc \notin {"retry", "retake", "requeue", "unfinished"}
  BY <1>1, WorkChanges, ServedCall DEF IInv
<1>3. slots \in [Slots -> Records] /\ worker \in [Workers -> Calls] /\ slots[t.slot] \in Records
  BY <1>2 DEF Types
<1>4. CASE PublishClaim(w)
  <2>1. worker[w].pc = "claim" /\ slots[t.slot].st = "inflight"
    BY <1>1, <1>2, <1>4 DEF PublishClaim, Knows, Working, Matches
  <2>2. slots' = [slots EXCEPT ![t.slot].st = "publishing"] /\ Moves(w, "finish")
    BY <1>1, <1>4, <2>1 DEF PublishClaim
  <2>3. worker'[w].pc = "finish"
    BY <1>2, <1>3, <2>2, MovesTo DEF Pcs
  <2>4. slots'[t.slot].st = "publishing"
    BY <1>2, <1>3, <2>2 DEF Records
  <2> QED
    BY <1>1, <2>1, <2>3, <2>4
<1>5. CASE Release(w)
  <2>1. worker[w].pc = "finished" /\ worker[w].item \in {"scattered", "failed", "cancelled"}
    BY <1>2, <1>5 DEF Release, Knows
  <2>2. slots[t.slot].st = "publishing"
    BY <1>1, <1>2, <2>1 DEF IInv, Taken, Publisher
  <2>3. PICK st \in {"ready", "failed", "cancelled"} : slots' = [slots EXCEPT ![t.slot].st = st]
    BY <1>1, <1>5, <2>1 DEF Release, Outcome
  <2>4. slots'[t.slot].st = st
    BY <1>2, <1>3, <2>3 DEF Records
  <2>5. worker'[w].pc = "idle"
    BY <1>3, <1>5, MovesIdle DEF Release
  <2> QED
    BY <1>1, <2>1, <2>2, <2>4, <2>5
<1>6. CASE ~PublishClaim(w) /\ ~Release(w)
  BY <1>2, <1>6 DEF Work, Prepare, CopyIn, Execute, Tensor, Executed, Mark, Scatter, CopyOut, Scattered,
     Publish, Finish, Count, Compare, Counted, Retry, RetryTake, Requeue
<1> QED
  BY <1>4, <1>5, <1>6

-----------------------------------------------------------------------------
(* Where a lane comes to.                                                  *)

\* An item that is published next has its outcome, and a lane that leaves its
\* item leaves it published, or the batch freed.
Arrives(w) ==
    /\ worker'[w].item # "retrying" /\ worker'[w].pc \notin {"retry", "retake", "requeue"}
    /\ worker'[w].pc = "publish" => \/ lanes'[w].status \in {"scattered", "failed", "cancelled"}
                                    \/ ~Matches(worker[w].token)
    /\ worker'[w].pc \in {"count", "compare", "counted", "finished"} => lanes'[w].status = "published"
    /\ worker'[w].pc = "idle" => batch'.st # "ready" \/ lanes'[w].status = "published"

\* It stays with its item, at another step that is not the last.
LEMMA ArrivesWith ==
    ASSUME Types, NEW w \in Workers, NEW c \in Calls, worker' = [worker EXCEPT ![w] = c],
           c.item # "retrying",
           c.pc \notin {"idle", "publish", "count", "compare", "counted", "finished", "retry", "retake", "requeue"}
    PROVE  Arrives(w)
<1>1. worker'[w] = c
  BY DEF Types
<1> QED
  BY <1>1 DEF Arrives

\* The checks of the token: what fails goes to be published.
LEMMA CheckArrives ==
    ASSUME IInv, CohortInv, NEW w \in Workers, worker'[w].next # "retry",
           \/ Prepare(w) \/ Execute(w) \/ (\E retries \in BOOLEAN : Executed(w, retries))
           \/ Scatter(w) \/ Scattered(w)
    PROVE  Arrives(w)
<1>1. worker[w].pc # "idle" /\ lanes' = lanes
  BY DEF Prepare, Execute, Executed, Scatter, Scattered
<1>2. /\ Types /\ worker[w] \in Calls /\ worker[w].token.lane = w /\ worker[w].item # "retrying"
      /\ Knows(worker[w])
  BY <1>1, ServedCall
<1>3. worker[w].pc = "execute" => lanes[w].status = "prepared"
  BY <1>2 DEF Knows
<1>4. worker[w].pc = "scatter" => lanes[w].status = "computed"
  BY <1>2 DEF Knows
<1>5. ASSUME Moves(w, "publish"), ~Matches(worker[w].token) PROVE Arrives(w)
  <2>1. PICK c \in Calls : worker' = [worker EXCEPT ![w] = c] /\ c.pc = "publish" /\ c.item = worker[w].item
    BY <1>2, <1>5, MovesTo DEF Pcs
  <2>2. worker'[w] = c
    BY <1>2, <2>1 DEF Types
  <2> QED
    BY <1>2, <1>5, <2>1, <2>2 DEF Arrives
<1>6. ASSUME NEW pc \in {"copyIn", "tensor", "copyOut"}, Moves(w, pc) PROVE Arrives(w)
  <2>1. PICK c \in Calls : worker' = [worker EXCEPT ![w] = c] /\ c.pc = pc /\ c.item = worker[w].item
    BY <1>2, <1>6, MovesTo DEF Pcs
  <2> QED
    BY <1>2, <2>1, ArrivesWith
<1>7. ASSUME NEW item \in {"cancelled", "computed", "failed", "scattered"},
             NEW next \in {"publish", "scatter", "retry"}, Marks(w, item, next)
      PROVE  Arrives(w)
  <2>1. PICK c \in Calls : worker' = [worker EXCEPT ![w] = c] /\ c.pc = "mark" /\ c.item = item
    BY <1>2, <1>7, MarksTo DEF Items
  <2> QED
    BY <1>2, <2>1, ArrivesWith
<1>8. CASE Prepare(w)
  BY <1>5, <1>6, <1>7, <1>8 DEF Prepare
<1>9. CASE Execute(w)
  BY <1>2, <1>3, <1>5, <1>6, <1>7, <1>9 DEF Execute
<1>10. CASE \E retries \in BOOLEAN : Executed(w, retries)
  BY <1>5, <1>7, <1>10 DEF Executed
<1>11. CASE Scatter(w)
  BY <1>2, <1>4, <1>5, <1>6, <1>7, <1>11 DEF Scatter
<1>12. CASE Scattered(w)
  BY <1>5, <1>7, <1>12 DEF Scattered
<1> QED
  BY <1>8, <1>9, <1>10, <1>11, <1>12

\* The copies, the tensor and the store of the item's status.
LEMMA StoreArrives ==
    ASSUME IInv, CohortInv, NEW w \in Workers,
           CopyIn(w) \/ (\E ok \in BOOLEAN : Tensor(w, ok)) \/ CopyOut(w) \/ Mark(w)
    PROVE  Arrives(w)
<1>1. worker[w].pc # "idle"
  BY DEF CopyIn, Tensor, CopyOut, Mark
<1>2. /\ Types /\ worker[w] \in Calls /\ worker[w].token.lane = w /\ worker[w].item # "retrying"
      /\ Knows(worker[w]) /\ Serving(w) /\ w \in Lanes
  BY <1>1, ServedCall
<1>3. ASSUME NEW pc \in {"execute", "computed", "failed", "scattered"}, Moves(w, pc) PROVE Arrives(w)
  <2>1. PICK c \in Calls : worker' = [worker EXCEPT ![w] = c] /\ c.pc = pc /\ c.item = worker[w].item
    BY <1>2, <1>3, MovesTo DEF Pcs
  <2> QED
    BY <1>2, <2>1, ArrivesWith
<1>4. CASE CopyIn(w) \/ (\E ok \in BOOLEAN : Tensor(w, ok)) \/ CopyOut(w)
  BY <1>3, <1>4 DEF CopyIn, Tensor, CopyOut
<1>5. CASE Mark(w)
  <2>1. /\ worker[w].item \in {"computed", "scattered", "failed", "cancelled"}
        /\ worker[w].next \in {"publish", "scatter", "claim"}
        /\ worker[w].next = "publish" => worker[w].item # "computed"
    BY <1>2, <1>5 DEF Mark, Knows, Serving, Calls
  <2>2. lanes'[w].status = worker[w].item
    <3>1. lanes \in [Lanes -> Words] /\ lanes' = [lanes EXCEPT ![w].status = worker[w].item]
      BY <1>2, <1>5 DEF Mark, Types
    <3> QED
      BY <1>2, <3>1 DEF Words
  <2>3. worker'[w].pc = worker[w].next /\ worker'[w].item = worker[w].item
    <3>1. worker' = [worker EXCEPT ![w] = [worker[w] EXCEPT !.pc = worker[w].next, !.next = "idle"]]
      BY <1>5, <2>1 DEF Mark
    <3> QED
      BY <1>2, <3>1 DEF Types, Calls
  <2> QED
    BY <2>1, <2>2, <2>3 DEF Arrives
<1> QED
  BY <1>4, <1>5

\* From the publication of the item to its answer.
LEMMA PublishArrives ==
    ASSUME IInv, CohortInv, NEW w \in Workers,
           Publish(w) \/ PublishClaim(w) \/ Finish(w) \/ Count(w) \/ Compare(w) \/ Counted(w) \/ Release(w)
    PROVE  Arrives(w)
<1>1. worker[w].pc # "idle"
  BY DEF Publish, PublishClaim, Finish, Count, Compare, Counted, Release
<1>2. /\ Types /\ worker[w] \in Calls /\ worker[w].token \in Tokens /\ worker[w].token.lane = w
      /\ worker[w].token.batch = batch.gen /\ worker[w].item # "retrying"
      /\ Knows(worker[w]) /\ Serving(w) /\ w \in Lanes /\ worker[w].pc # "unfinished"
  BY <1>1, ServedCall
<1>3. lanes[w] \in Words /\ worker \in [Workers -> Calls] /\ lanes \in [Lanes -> Words]
  BY <1>2 DEF Types
<1>4. ASSUME Moves(w, "idle") PROVE worker'[w].pc = "idle" /\ worker'[w].item # "retrying"
  <2>1. worker'[w] = Rest
    BY <1>3, <1>4, MovesIdle
  <2> QED
    BY <2>1 DEF Rest
<1>5. CASE Publish(w)
  <2>1. CASE ~Matches(worker[w].token)
    <3>1. lanes' = lanes /\ batch' = batch /\ Moves(w, "idle") /\ Lapsed(worker[w].token)
      BY <1>2, <1>5, <2>1 DEF Publish, Knows
    <3>2. batch.st # "ready" \/ lanes[w].status = "published"
      BY <1>2, <3>1 DEF Lapsed
    <3> QED
      BY <1>4, <3>1, <3>2 DEF Arrives
  <2>2. CASE Matches(worker[w].token)
    <3>1. lanes[w].status \in {"scattered", "failed", "cancelled"}
      BY <1>2, <1>5, <2>2 DEF Publish, Serving
    <3>2. CASE slots[worker[w].token.slot].cancel /\ lanes[w].status = "scattered"
      <4>1. Marks(w, "cancelled", "claim")
        BY <1>2, <1>5, <2>2, <3>1, <3>2 DEF Publish
      <4>2. PICK c \in Calls : worker' = [worker EXCEPT ![w] = c] /\ c.pc = "mark" /\ c.item = "cancelled"
        BY <1>2, <4>1, MarksTo DEF Items
      <4> QED
        BY <1>2, <4>2, ArrivesWith
    <3>3. CASE ~(slots[worker[w].token.slot].cancel /\ lanes[w].status = "scattered")
      <4>1. worker' = [worker EXCEPT ![w] = [worker[w] EXCEPT !.pc = "claim", !.item = lanes[w].status]]
        BY <1>2, <1>5, <2>2, <3>1, <3>3 DEF Publish
      <4>2. worker'[w].pc = "claim" /\ worker'[w].item = lanes[w].status
        BY <1>2, <1>3, <4>1 DEF Calls
      <4> QED
        BY <3>1, <4>2 DEF Arrives
    <3> QED
      BY <3>2, <3>3
  <2> QED
    BY <2>1, <2>2
<1>6. CASE PublishClaim(w)
  <2>1. Moves(w, "finish")
    BY <1>2, <1>6 DEF PublishClaim, Knows, Working, Matches
  <2>2. PICK c \in Calls : worker' = [worker EXCEPT ![w] = c] /\ c.pc = "finish" /\ c.item = worker[w].item
    BY <1>2, <2>1, MovesTo DEF Pcs
  <2> QED
    BY <1>2, <2>2, ArrivesWith
<1>7. CASE Finish(w)
  <2>1. batch.st = "ready" /\ lanes[w].status = worker[w].item
    BY <1>2, <1>7 DEF Finish, Knows, Present
  <2>2. lanes' = [lanes EXCEPT ![w].status = "published"] /\ Moves(w, "count")
    BY <1>2, <1>7, <2>1 DEF Finish
  <2>3. PICK c \in Calls : worker' = [worker EXCEPT ![w] = c] /\ c.pc = "count" /\ c.item = worker[w].item
    BY <1>2, <2>2, MovesTo DEF Pcs
  <2>4. worker'[w] = c
    BY <1>3, <2>3
  <2>5. lanes'[w].status = "published"
    BY <1>2, <1>3, <2>2 DEF Words
  <2> QED
    BY <1>2, <2>3, <2>4, <2>5 DEF Arrives
<1>8. CASE Count(w)
  <2>1. lanes' = lanes /\ lanes[w].status = "published"
    BY <1>2, <1>8 DEF Count, Serving
  <2>2. PICK prev : worker' = [worker EXCEPT ![w] = [worker[w] EXCEPT !.pc = "compare", !.prev = prev]]
    BY <1>8 DEF Count
  <2>3. worker'[w].pc = "compare" /\ worker'[w].item = worker[w].item
    BY <1>2, <1>3, <2>2 DEF Calls
  <2> QED
    BY <1>2, <2>1, <2>3 DEF Arrives
<1>11. CASE Compare(w)
  <2>1. lanes' = lanes /\ lanes[w].status = "published"
    BY <1>2, <1>11 DEF Compare, Serving
  <2>2. PICK last \in BOOLEAN : worker' = [worker EXCEPT ![w] = [worker[w] EXCEPT !.pc = "counted", !.prev = 0, !.last = last]]
    BY <1>11 DEF Compare
  <2>3. worker'[w].pc = "counted" /\ worker'[w].item = worker[w].item
    BY <1>2, <1>3, <2>2 DEF Calls
  <2> QED
    BY <1>2, <2>1, <2>3 DEF Arrives
<1>9. CASE Counted(w)
  <2>1. lanes' = lanes /\ lanes[w].status = "published" /\ Moves(w, "finished")
    BY <1>2, <1>9 DEF Counted, Serving
  <2>2. PICK c \in Calls : worker' = [worker EXCEPT ![w] = c] /\ c.pc = "finished" /\ c.item = worker[w].item
    BY <1>2, <2>1, MovesTo DEF Pcs
  <2>3. worker'[w] = c
    BY <1>3, <2>2
  <2> QED
    BY <1>2, <2>1, <2>2, <2>3 DEF Arrives
<1>10. CASE Release(w)
  <2>1. worker[w].pc = "finished" /\ lanes' = lanes /\ Moves(w, "idle")
    BY <1>2, <1>10 DEF Release
  <2>2. lanes[w].status = "published"
    BY <1>2, <2>1 DEF Serving
  <2> QED
    BY <1>4, <2>1, <2>2 DEF Arrives
<1> QED
  BY <1>5, <1>6, <1>7, <1>8, <1>9, <1>10, <1>11

\* Whatever the lane does.
LEMMA WorkArrives ==
    ASSUME IInv, CohortInv, NEW w \in Workers, Work(w), worker'[w].next # "retry" PROVE Arrives(w)
<1>1. worker[w].pc # "idle"
  BY WorkChanges DEF IInv
<1>2. ~Retry(w) /\ ~RetryTake(w) /\ ~Requeue(w)
  BY <1>1, ServedCall DEF Retry, RetryTake, Requeue
<1> QED
  BY <1>2, CheckArrives, StoreArrives, PublishArrives DEF Work

\* No request is queued or claimed by it, and what is published is in one of the
\* hands that publish.
LEMMA ServeCloses ==
    ASSUME IInv, CohortInv, NEW w \in Workers, Work(w), Arrives(w) PROVE Closing' /\ Queued' = Queued
<1> DEFINE Publishing == {"finish", "count", "compare", "counted", "finished"}
<1>1. /\ UNCHANGED canceller /\ worker[w].pc # "idle"
      /\ \A v \in Workers \ {w} : worker'[v] = worker[v]
      /\ worker'[w].pc # "idle" => worker'[w].token = worker[w].token
      /\ \A x \in Slots : x # worker[w].token.slot => slots'[x] = slots[x]
  BY WorkChanges DEF IInv
<1>2. PICK s \in Slots : s = worker[w].token.slot
  BY <1>1, ServedCall
<1>3. \/ UNCHANGED slots /\ worker[w].pc \notin {"claim", "finished"}
      \/ worker'[w].pc = "finish" /\ slots[s].st = "inflight" /\ slots'[s].st = "publishing"
      \/ slots[s].st = "publishing" /\ slots'[s].st \in {"ready", "failed", "cancelled"}
  BY <1>2, ServeSlots
<1>4. Queued' = Queued
  BY <1>1, <1>2, <1>3 DEF Queued
<1>5. worker[w].pc \in Publishing /\ worker[w].pc # "finished" => worker'[w].pc \in Publishing
  <2>1. CASE worker[w].pc = "finish"
    <3>1. Finish(w)
      BY <2>1 DEF Work, Prepare, CopyIn, Execute, Tensor, Executed, Mark, Scatter, CopyOut, Scattered,
         Publish, PublishClaim, Count, Compare, Counted, Release, Retry, RetryTake, Requeue
    <3>2. Moves(w, "count") /\ Types
      BY ZenonT(60), <2>1, <3>1, ServedCall DEF Finish, Knows, Present
    <3> QED
      BY <3>2, MovesTo DEF Pcs, Types
  <2>2. CASE worker[w].pc = "count"
    <3>1. Count(w)
      BY <2>2 DEF Work, Prepare, CopyIn, Execute, Tensor, Executed, Mark, Scatter, CopyOut, Scattered,
         Publish, PublishClaim, Finish, Compare, Counted, Release, Retry, RetryTake, Requeue
    <3>2. PICK prev : worker' = [worker EXCEPT ![w] = [worker[w] EXCEPT !.pc = "compare", !.prev = prev]]
      BY <3>1 DEF Count
    <3> QED
      BY <2>2, <3>2, ServedCall DEF Calls, Types
  <2>4. CASE worker[w].pc = "compare"
    <3>1. Compare(w)
      BY <2>4 DEF Work, Prepare, CopyIn, Execute, Tensor, Executed, Mark, Scatter, CopyOut, Scattered,
         Publish, PublishClaim, Finish, Count, Counted, Release, Retry, RetryTake, Requeue
    <3>2. PICK last \in BOOLEAN : worker' = [worker EXCEPT ![w] = [worker[w] EXCEPT !.pc = "counted", !.prev = 0, !.last = last]]
      BY <3>1 DEF Compare
    <3> QED
      BY <2>4, <3>2, ServedCall DEF Calls, Types
  <2>3. CASE worker[w].pc = "counted"
    <3>1. Counted(w)
      BY <2>3 DEF Work, Prepare, CopyIn, Execute, Tensor, Executed, Mark, Scatter, CopyOut, Scattered,
         Publish, PublishClaim, Finish, Count, Compare, Release, Retry, RetryTake, Requeue
    <3>2. Moves(w, "finished") /\ Types
      BY <2>3, <3>1, ServedCall DEF Counted
    <3> QED
      BY <3>2, MovesTo DEF Pcs, Types
  <2> QED
    BY <2>1, <2>2, <2>3, <2>4
<1>6. ASSUME NEW x \in Slots, slots'[x].st = "publishing"
      PROVE  \/ canceller'[x].pc = "store"
             \/ \E v \in Workers : worker'[v].pc \in Publishing /\ worker'[v].token.slot = x
  <2>1. CASE x # s
    <3>1. \/ canceller[x].pc = "store"
          \/ \E v \in Workers : worker[v].pc \in Publishing /\ worker[v].token.slot = x
      BY <1>1, <1>2, <1>6, <2>1 DEF CohortInv, Closing
    <3> QED
      BY <1>1, <1>2, <2>1, <3>1
  <2>2. CASE x = s /\ slots' = slots /\ worker[w].pc # "finished"
    <3>1. \/ canceller[x].pc = "store"
          \/ \E v \in Workers : worker[v].pc \in Publishing /\ worker[v].token.slot = x
      BY <1>6, <2>2 DEF CohortInv, Closing
    <3> QED
      BY <1>1, <1>2, <1>5, <2>2, <3>1
  <2>3. CASE x = s /\ worker'[w].pc = "finish"
    BY <1>1, <1>2, <2>3
  <2> QED
    BY <1>3, <1>6, <2>1, <2>2, <2>3
<1>7. \A x \in Slots : slots'[x].st # "claimed"
  BY <1>1, <1>2, <1>3 DEF CohortInv, Closing
<1> QED
  BY <1>4, <1>6, <1>7 DEF Closing

\* Nobody else's token becomes true.
LEMMA ServeMatches ==
    ASSUME IInv, CohortInv, NEW w \in Workers, Work(w), NEW t \in Tokens, Matches(t)' PROVE Matches(t)
<1>1. t.lane \in Lanes /\ t.slot \in Slots
  BY DEF Tokens
<1>2. /\ \A i \in Lanes : lanes'[i].slot = lanes[i].slot /\ lanes'[i].gen = lanes[i].gen
      /\ batch'.gen = batch.gen /\ batch'.occupancy = batch.occupancy
      /\ batch'.st = batch.st \/ batch'.st = "free"
      /\ \A x \in Slots : x # worker[w].token.slot => slots'[x] = slots[x]
  BY WorkChanges DEF IInv
<1>3. slots'[t.slot].st = "inflight"
  BY DEF Matches
<1>4. slots'[t.slot] = slots[t.slot]
  BY <1>1, <1>2, <1>3, ServeSlots
<1> QED
  BY <1>1, <1>2, <1>4 DEF Matches

\* A lane serves its item.
LEMMA ServeKeeps ==
    ASSUME IInv, CohortInv, NEW w \in Workers, Serve(w) PROVE CohortInv'
<1>1. /\ stage = "serve" /\ worker[w].pc # "idle" /\ Work(w) /\ worker'[w].next # "retry"
      /\ served' = IF worker'[w].pc = "idle" THEN served \cup {w} ELSE served
      /\ UNCHANGED <<round, stage, mailbox, at>> /\ Types /\ Staged /\ Fitting
  BY DEF Serve, IInv, CohortInv
<1>2. /\ UNCHANGED <<former, canceller>>
      /\ \A v \in Workers \ {w} : worker'[v] = worker[v]
      /\ worker'[w].pc # "idle" => worker'[w].token = worker[w].token
      /\ \A i \in Lanes : i # worker[w].token.lane => lanes'[i] = lanes[i]
      /\ batch'.gen = batch.gen /\ batch'.occupancy = batch.occupancy
      /\ batch'.st = batch.st \/ batch'.st = "free"
  BY <1>1, WorkChanges
<1>3. Arrives(w)
  BY <1>1, WorkArrives
<1>4. Closing' /\ Queued' = Queued
  BY <1>1, <1>3, ServeCloses
<1>5. /\ worker[w].token \in Tokens /\ worker[w].token.lane = w /\ worker[w].token.batch = batch.gen
      /\ w \notin served
  BY <1>1, ServedCall DEF Serving
<1>6. Workers = Lanes
  BY <1>1, CohortWords
<1>7. Staged'
  BY <1>1, <1>2 DEF Staged
<1>8. Fitting'
  BY <1>1, <1>2, <1>4 DEF Fitting
<1>9. Serving(w)'
  <2>1. PICK t \in Tokens : t = worker[w].token
    BY <1>5
  <2>2. worker'[w].pc = "publish" /\ Matches(worker[w].token)' => lanes'[w].status \in {"scattered", "failed", "cancelled"}
    <3>1. SUFFICES ASSUME worker'[w].pc = "publish", Matches(worker[w].token)'
                   PROVE  lanes'[w].status \in {"scattered", "failed", "cancelled"}
      OBVIOUS
    <3>2. worker'[w].token = t
      BY <1>2, <2>1, <3>1
    <3>3. Matches(t)'
      BY <3>1, <3>2 DEF Matches
    <3>4. Matches(t)
      BY <1>1, <3>3, ServeMatches
    <3> QED
      BY <1>3, <2>1, <3>1, <3>4 DEF Arrives
  <2>3. worker'[w].pc # "idle" => w \notin served'
    BY <1>1, <1>5
  <2>4. w \in served' => worker'[w].pc = "idle"
    BY <1>1, <1>5
  <2>5. stage' = "serve" /\ w \in served' /\ batch'.st = "ready" => lanes'[w].status = "published"
    BY <1>3, <2>4 DEF Arrives
  <2> QED
    BY <1>1, <1>2, <1>3, <1>5, <2>2, <2>3, <2>5 DEF Serving, Arrives
<1>10. ASSUME NEW v \in Workers \ {w} PROVE Serving(v)'
  <2>1. Serving(v) /\ worker'[v] = worker[v] /\ lanes'[v] = lanes[v] /\ (v \in served' <=> v \in served)
    BY <1>1, <1>2, <1>5, <1>6 DEF CohortInv
  <2>2. worker[v].token \in Tokens
    BY <1>1, TokenTypes
  <2>3. Matches(worker[v].token)' => Matches(worker[v].token)
    BY <1>1, <2>2, <2>1, ServeMatches
  <2>4. worker[v].pc = "publish" /\ Matches(worker[v].token)' => lanes[v].status \in {"scattered", "failed", "cancelled"}
    BY <2>1, <2>3 DEF Serving
  <2> QED
    BY <1>1, <1>2, <2>1, <2>4 DEF Serving
<1> QED
  BY <1>4, <1>7, <1>8, <1>9, <1>10 DEF CohortInv

-----------------------------------------------------------------------------
(* The block settles.                                                      *)

\* Before the block enters, some requests are queued and nothing else is done.
LEMMA CohortInitHolds == ASSUME CohortInit PROVE IInv /\ CohortInv
<1>1. PICK queued \in SUBSET Slots :
        /\ slots = [s \in Slots |-> [st |-> IF s \in queued THEN "queued" ELSE "free",
                                     gen |-> IF s \in queued THEN 1 ELSE 0,
                                     cancel |-> FALSE, batch |-> 0, item |-> 0]]
        /\ input = [s \in Slots |-> IF s \in queued THEN [slot |-> s, gen |-> 1] ELSE Nothing]
        /\ result = [s \in Slots |-> Nothing]
        /\ batch = [st |-> "free", occupancy |-> 0, completed |-> 0, gen |-> 0]
        /\ lanes = [i \in Lanes |-> [slot |-> 0, gen |-> 0, status |-> "pending",
                                     features |-> Nothing, scores |-> Nothing]]
        /\ owner = [s \in Slots |-> IF s \in queued THEN "wait" ELSE "idle"]
        /\ canceller = [s \in Slots |-> NoCall]
        /\ former = [pc |-> "idle", at |-> 0, occupancy |-> 0]
        /\ worker = [w \in Workers |-> Rest]
        /\ round = 0 /\ stage = "screen" /\ mailbox = FALSE /\ at = 0 /\ served = {}
  BY DEF CohortInit
<1>2. 1 \in Generations /\ 1 \in 0 .. MaxGeneration + 1
  BY EvaluatorAssumption DEF EvaluatorAssumption, Generations
<1>3. Types
  <2>1. Nothing \in Payloads /\ \A s \in Slots : [slot |-> s, gen |-> 1] \in Payloads
    BY SizesAre, <1>2 DEF Nothing, Payloads
  <2>2. \A st \in {"queued", "free"}, gen \in {0, 1} :
           [st |-> st, gen |-> gen, cancel |-> FALSE, batch |-> 0, item |-> 0] \in Records
    BY SizesAre, <1>2 DEF Records, States
  <2>3. [slot |-> 0, gen |-> 0, status |-> "pending", features |-> Nothing, scores |-> Nothing] \in Words
    BY <2>1, SizesAre DEF Words, Items
  <2>4. slots \in [Slots -> Records]
    BY <1>1, <2>2
  <2>5. input \in [Slots -> Payloads] /\ result \in [Slots -> Payloads]
    BY <1>1, <2>1
  <2> QED
    BY <1>1, <2>3, <2>4, <2>5, RestIsCall, SizesAre DEF Types, NoCall, CancelCalls
<1>4. \A w \in Workers : worker[w].pc = "idle" /\ worker[w].item = "pending" /\ worker[w].next = "idle"
  BY <1>1 DEF Rest
<1>5. \A s \in Slots : /\ slots[s].st = IF s \in queued THEN "queued" ELSE "free"
                       /\ slots[s].gen = IF s \in queued THEN 1 ELSE 0
                       /\ owner[s] = IF s \in queued THEN "wait" ELSE "idle"
                       /\ input[s] = IF s \in queued THEN [slot |-> s, gen |-> 1] ELSE Nothing
                       /\ canceller[s].pc = "idle"
  BY <1>1 DEF NoCall
<1>6. batch.st = "free" /\ batch.gen = 0 /\ former.pc = "idle"
  BY <1>1
<1>7. Requested /\ Taken
  BY ZenonT(60), <1>4, <1>5 DEF Requested, Taken, Stage, Publisher
<1>8. Forming /\ InFlight /\ Held /\ Open /\ ReadyIsOwn
  BY <1>4, <1>5, <1>6 DEF Forming, InFlight, Held, Open, ReadyIsOwn
<1>9. Settled
  BY <1>4 DEF Settled, Knows, Stages, Working
<1>10. At("count") = {} /\ \A w \in Workers : worker[w].pc # "compare" /\ ~Ends(w)
  BY <1>4 DEF At, Ends
<1>11. Accounted
  BY <1>6, <1>10, FS_EmptySet DEF Accounted
<1>12. Staged
  BY <1>1, <1>5, <1>6, SizesAre, RoundsCover DEF Staged
<1>13. Fitting
  <2>1. Cardinality(Queued) <= RequestCapacity /\ Cardinality(Queued) \in Nat /\ 0 * ItemCapacity = 0
    BY SomeSlots, SizesAre DEF Queued
  <2> QED
    BY <1>1, <1>6, <2>1, SizesAre DEF Fitting
<1>14. Closing
  BY <1>5 DEF Closing
<1>15. \A w \in Workers : Serving(w)
  BY <1>1, <1>4 DEF Serving
<1> QED
  BY <1>3, <1>7, <1>8, <1>9, <1>11, <1>12, <1>13, <1>14, <1>15 DEF IInv, CohortInv

\* Every step of the block keeps both invariants.
LEMMA BlockKeeps ==
    ASSUME Rounds <= MaxBatch, IInv, CohortInv, [CohortNext]_cohortVars PROVE IInv' /\ CohortInv'
<1>1. Types
  BY DEF IInv
<1>2. IInv'
  BY <1>1, BlockSteps, StepHolds
<1>3. CohortInv'
  BY <1>1, ScreenKeeps, CancelKeeps, FormKeeps, BarrierKeeps, EnterKeeps, ServeKeeps DEF CohortNext
<1> QED
  BY <1>2, <1>3

\* What the service promises follows.
LEMMA BlockSettles == ASSUME IInv, CohortInv PROVE RoundsSettle
<1>1. Types /\ Staged /\ Fitting /\ Closing
  BY DEF IInv, CohortInv
<1>2. batch.st = "free" => \A s \in Slots : slots[s].st # "inflight"
  BY DEF IInv, InFlight
<1>3. RoundsAreSeparate
  BY <1>1, <1>2, AtRest DEF RoundsAreSeparate, Staged
<1>4. ASSUME stage = "done" PROVE Quiescent
  <2>1. batch.st = "free" /\ round = Rounds
    BY <1>1, <1>4 DEF Staged
  <2>2. Queued = {}
    <3>1. Queued = {} \/ Cardinality(Queued) + Rounds * ItemCapacity <= RequestCapacity
      BY <1>1, <1>4, <2>1 DEF Fitting
    <3>2. RequestCapacity <= Rounds * ItemCapacity /\ Rounds * ItemCapacity \in Nat /\ RequestCapacity \in Nat
      BY RoundsCover, SizesAre
    <3>3. Cardinality(Queued) \in Nat /\ (Queued # {} => Cardinality(Queued) > 0)
      BY <1>1, CohortWords, SomeSlots
    <3> QED
      BY <3>1, <3>2, <3>3
  <2>3. \A s \in Slots : slots[s].st \notin {"claimed", "publishing"}
    BY <1>1, <1>4, AtRest DEF Closing
  <2>4. \A s \in Slots : slots[s].st \in States
    BY <1>1 DEF Types, Records
  <2> QED
    BY <1>2, <2>1, <2>2, <2>3, <2>4 DEF Quiescent, Queued, States, Terminal
<1> QED
  BY <1>3, <1>4 DEF RoundsSettle, LeavesQuiescent

\* The rounds are separate and enough.  Between two rounds nothing is in flight and
\* every lane is idle, and when the block leaves the service reports quiescence,
\* for any number of requests and lanes and whatever the host cancels or the tensor
\* fails; the batch's generation must not run out while the block runs.
THEOREM CohortSettles == ASSUME Rounds <= MaxBatch PROVE CohortSpec => []RoundsSettle
<1>1. CohortInit => IInv /\ CohortInv
  BY CohortInitHolds
<1>2. (IInv /\ CohortInv) /\ [CohortNext]_cohortVars => (IInv /\ CohortInv)'
  BY BlockKeeps
<1>3. IInv /\ CohortInv => RoundsSettle
  BY BlockSettles
<1> QED
  BY <1>1, <1>2, <1>3, PTL DEF CohortSpec

\* The block calls the evaluator in the order OrderlySpec asks for: lane 0 forms a
\* batch between two barriers, when every lane has returned from its item, so that
\* no lane has yet to compare its count with the occupancy of the batch before.
THEOREM BlockIsOrderly == ASSUME Rounds <= MaxBatch PROVE CohortSpec => CallsInOrder
<1>1. CohortInit => IInv /\ CohortInv
  BY CohortInitHolds
<1>2. (IInv /\ CohortInv) /\ [CohortNext]_cohortVars => (IInv /\ CohortInv)'
  BY BlockKeeps
<1>3. (IInv /\ CohortInv) /\ [CohortNext]_cohortVars => [OrderlyNext]_vars
  BY BlockSteps DEF IInv
<1> QED
  BY <1>1, <1>2, <1>3, PTL DEF CohortSpec, CallsInOrder

=============================================================================
