----------------------- MODULE TensorEvaluator_proofs -----------------------
(***************************************************************************)
(* What holds of the tensor evaluator for any number of slots, lanes and   *)
(* workers: a token is worked on by one worker and stays true while it is, *)
(* a slot that is being published or queued again is in one hand, and so   *)
(* every request is answered once, by its own result, and every batch has  *)
(* an end.                                                                 *)
(***************************************************************************)
EXTENDS TensorEvaluator, FiniteSetTheorems, TLAPS

\* What the words can be; no item and no slot is ever stale.
States == {"free", "claimed", "queued", "inflight", "publishing", "retired", "ready", "failed", "cancelled"}
Items == {"pending", "prepared", "computed", "scattered", "failed", "cancelled", "retrying", "published"}
Pcs == {"idle", "prepare", "copyIn", "execute", "tensor", "computed", "failed", "mark", "scatter", "copyOut",
        "scattered", "publish", "claim", "finish", "count", "compare", "counted", "finished", "retry", "retake", "requeue"}
Records == [st: States, gen: Generations, cancel: BOOLEAN, batch: 0 .. MaxBatch, item: Lanes]
Words == [slot: Slots, gen: Generations, status: Items, features: Payloads, scores: Payloads]
Calls == [pc: Pcs, token: Tokens, item: Items, next: {"idle", "publish", "scatter", "retry", "claim"},
          prev: 0 .. ItemCapacity, last: BOOLEAN]
CancelCalls == [pc: {"idle", "flag", "claim", "store", "after"}, queued: BOOLEAN,
                answer: {"none", "cancelled", "notReady"}]
Types ==
    /\ slots \in [Slots -> Records]
    /\ input \in [Slots -> Payloads] /\ result \in [Slots -> Payloads]
    /\ batch \in [st: {"free", "forming", "ready", "retired"}, occupancy: 0 .. ItemCapacity,
                  completed: 0 .. ItemCapacity, gen: 0 .. MaxBatch]
    /\ lanes \in [Lanes -> Words]
    /\ owner \in [Slots -> {"idle", "admit", "wait", "done"}]
    /\ canceller \in [Slots -> CancelCalls]
    /\ former \in [pc: {"idle", "take"}, at: 0 .. RequestCapacity, occupancy: 0 .. ItemCapacity]
    /\ worker \in [Workers -> Calls]

\* The states of a slot whose requester is there.
Stage(at, st) ==
    \/ at = "idle" /\ st = "free"
    \/ at = "admit" /\ st = "claimed"
    \/ at = "wait" /\ st \in {"queued", "inflight", "publishing", "claimed", "ready", "failed", "cancelled"}
    \/ at = "done" /\ st = "retired"

\* The requester and the slot: what is encoded is the request of this generation.
Requested ==
    \A s \in Slots :
        /\ Stage(owner[s], slots[s].st)
        /\ owner[s] = "admit" => input[s] = [slot |-> s, gen |-> slots[s].gen + 1]
        /\ owner[s] = "wait" => input[s] = [slot |-> s, gen |-> slots[s].gen]
        /\ canceller[s].pc = "store" => slots[s].st = "publishing"

\* Who publishes a request has it alone, and so has who queues it again.
Publisher(w) == worker[w].pc \in {"finish", "count", "compare", "counted", "finished"} /\ worker[w].item # "retrying"
Taken ==
    /\ \A w \in Workers : Publisher(w) =>
          LET s == worker[w].token.slot
          IN  slots[s].st = "publishing" /\ slots[s].gen = worker[w].token.gen /\ canceller[s].pc # "store"
    /\ \A w \in Workers : worker[w].pc = "requeue" =>
          slots[worker[w].token.slot].st = "claimed" /\ owner[worker[w].token.slot] = "wait"
    /\ \A w, v \in Workers : Publisher(w) /\ Publisher(v) /\ worker[w].token.slot = worker[v].token.slot => w = v
    /\ \A w, v \in Workers : worker[w].pc = "requeue" /\ worker[v].pc = "requeue"
                             /\ worker[w].token.slot = worker[v].token.slot => w = v

\* The request of a lane is in flight in a batch.
Placed(i, b) ==
    LET s == lanes[i].slot
    IN  slots[s].st = "inflight" /\ slots[s].gen = lanes[i].gen /\ slots[s].batch = b /\ slots[s].item = i

\* A batch that is being formed has the requests it has taken so far.
Forming ==
    /\ former.pc = "take" <=> batch.st = "forming"
    /\ batch.st = "forming" => batch.completed = 0 /\ batch.gen < MaxBatch
    /\ batch.st = "forming" => \A i \in Lanes : i < former.occupancy =>
          Placed(i, batch.gen + 1) /\ lanes[i].status = "pending"

\* InFlightHasLane, with the number of the batch also while it is formed.
InFlight ==
    \A s \in Slots : slots[s].st = "inflight" =>
        LET i == slots[s].item IN
        /\ lanes[i].slot = s /\ lanes[i].gen = slots[s].gen /\ lanes[i].status # "published"
        /\ \/ batch.st = "ready" /\ slots[s].batch = batch.gen /\ i < batch.occupancy
           \/ batch.st = "forming" /\ slots[s].batch = batch.gen + 1 /\ i < former.occupancy

\* A token of the present batch is what its lane holds, and is in one hand.
TokenOf(i) == [lane |-> i, slot |-> lanes[i].slot, gen |-> lanes[i].gen, batch |-> batch.gen]
Held ==
    /\ \A w \in Workers : worker[w].pc # "idle" =>
          /\ worker[w].token.batch <= batch.gen
          /\ batch.st = "ready" /\ worker[w].token.batch = batch.gen =>
                worker[w].token = TokenOf(worker[w].token.lane) /\ worker[w].token.lane < batch.occupancy
    /\ \A w, v \in Workers : worker[w].pc # "idle" /\ worker[v].pc # "idle" /\ worker[w].token = worker[v].token => w = v

\* An item nobody finished is in flight, or in the hand that finishes it.
Finishing(w) == worker[w].pc \in {"finish", "requeue"}
Open ==
    batch.st = "ready" => \A i \in Lanes : i < batch.occupancy /\ lanes[i].status # "published" =>
        Placed(i, batch.gen) \/ \E w \in Workers : Finishing(w) /\ worker[w].token = TokenOf(i)

\* A token that is no longer true, and will not be again.
Lapsed(t) == t.batch # batch.gen \/ batch.st # "ready" \/ lanes[t.lane].status = "published"
Present(t) == batch.st = "ready" /\ t.batch = batch.gen

\* Where a worker is, and what it knows of its item there: c is its call.
Working == {"copyIn", "execute", "tensor", "computed", "failed", "mark", "scatter", "copyOut", "scattered",
            "claim", "retry", "retake"}
Knows(c) ==
    LET t == c.token
        status == lanes[t.lane].status
    IN
    /\ c.pc \in Working => Matches(t)
    /\ c.pc \in {"prepare", "publish"} => Matches(t) \/ Lapsed(t)
    /\ c.pc = "mark" => /\ c.item \in {"computed", "scattered", "failed", "cancelled"}
                        /\ c.next # "idle" /\ (c.next = "scatter" <=> c.item = "computed")
                        /\ c.next = "claim" => c.item = "cancelled"
    /\ c.pc = "execute" => status = "prepared"
    /\ c.pc = "scatter" => status = "computed"
    /\ c.pc = "claim" => status = c.item /\ c.item \in {"scattered", "failed", "cancelled"}
    /\ c.pc \in {"retake", "requeue"} => status = c.item /\ c.item = "retrying"
    /\ c.pc \in {"finish", "requeue"} => Present(t) /\ ~Matches(t) /\ status = c.item
    /\ c.pc = "finish" => c.item \in {"scattered", "failed", "cancelled", "retrying"}
    /\ c.pc = "count" => Present(t) /\ status = "published"
    /\ c.pc \in {"count", "compare", "counted"} => c.item \in {"scattered", "failed", "cancelled", "retrying"}
    /\ c.pc = "finished" => c.item \in {"scattered", "failed", "cancelled"}

\* What is staged on the way from the request to its result is the request's own.
Own(t) == [slot |-> t.slot, gen |-> t.gen]
Stages(c) ==
    LET t == c.token
        status == lanes[t.lane].status
    IN
    /\ c.pc \in {"execute", "tensor"} => lanes[t.lane].features = Own(t)
    /\ c.pc \in {"computed", "scatter", "copyOut"} => lanes[t.lane].scores = Own(t)
    /\ c.pc = "mark" /\ c.item = "computed" => lanes[t.lane].scores = Own(t)
    /\ c.pc = "scattered" => result[t.slot] = Own(t)
    /\ c.pc = "publish" /\ Matches(t) /\ status = "scattered" => result[t.slot] = Own(t)
    /\ c.pc \in {"mark", "claim", "finish", "count", "compare", "counted", "finished"} /\ c.item = "scattered" =>
          result[t.slot] = Own(t)
Settled == \A w \in Workers : Knows(worker[w]) /\ Stages(worker[w])

\* The items are counted, and who counted the last one, and nobody else, frees the
\* batch: it will find that out, or has found it out.
At(pc) == {w \in Workers : worker[w].pc = pc}
Published == {i \in Lanes : i < batch.occupancy /\ lanes[i].status = "published"}
Ends(w) ==
    \/ worker[w].pc = "compare" /\ worker[w].prev + 1 = batch.occupancy
    \/ worker[w].pc = "counted" /\ worker[w].last
Accounted ==
    /\ IsFiniteSet(At("count"))
    /\ \A w \in Workers : worker[w].pc = "compare" =>
          worker[w].prev + 1 <= batch.completed /\ batch.st # "forming"
    /\ \A w \in Workers : Ends(w) => batch.st = "ready" /\ batch.completed = batch.occupancy
    /\ \A w, v \in Workers : Ends(w) /\ Ends(v) => w = v
    /\ batch.st = "ready" =>
          /\ Cardinality(Published) = batch.completed + Cardinality(At("count"))
          /\ batch.completed = batch.occupancy => \E w \in Workers : Ends(w)

IInv ==
    /\ Types /\ Requested /\ Taken /\ Forming /\ InFlight /\ Held /\ Open
    /\ Settled /\ Accounted /\ ReadyIsOwn

-----------------------------------------------------------------------------
(* The words are in their sets, and the first state is in the invariant.   *)

\* The bounds are numbers, and there is a slot and a lane.
LEMMA SizesAre ==
    /\ RequestCapacity \in Nat /\ ItemCapacity \in Nat /\ MaxGeneration \in Nat /\ MaxBatch \in Nat
    /\ 0 \in Slots /\ 0 \in Lanes /\ 0 \in Generations
    /\ Slots \subseteq Nat /\ Lanes \subseteq Nat
BY EvaluatorAssumption DEF EvaluatorAssumption, Slots, Lanes, Generations

\* The words of one slot, lane and call.
LEMMA WordTypes ==
    ASSUME Types
    PROVE  /\ \A s \in Slots : slots[s] \in Records
           /\ \A i \in Lanes : lanes[i] \in Words
           /\ \A w \in Workers : worker[w] \in Calls
BY DEF Types

\* A token names a slot and a lane that exist.
LEMMA TokenTypes ==
    ASSUME Types, NEW w \in Workers
    PROVE  /\ worker[w] \in Calls /\ worker[w].token \in Tokens
           /\ worker[w].token.lane \in Lanes /\ worker[w].token.slot \in Slots
           /\ worker[w].token.gen \in Generations /\ worker[w].token.batch \in 0 .. MaxBatch
           /\ lanes[worker[w].token.lane] \in Words /\ slots[worker[w].token.slot] \in Records
BY DEF Types, Calls, Tokens

\* A worker at rest is in its set.
LEMMA RestIsCall == Rest \in Calls /\ NoToken \in Tokens
<1>1. NoToken \in Tokens
  BY SizesAre DEF NoToken, Tokens
<1> QED
  BY <1>1, SizesAre DEF Rest, Calls, Pcs, Items

\* The first state is in the invariant.
LEMMA InitHolds == ASSUME Init PROVE IInv
<1>1. Types
  <2>1. Nothing \in Payloads
    BY SizesAre DEF Nothing, Payloads
  <2>2. [st |-> "free", gen |-> 0, cancel |-> FALSE, batch |-> 0, item |-> 0] \in Records
    BY SizesAre DEF Records, States
  <2>3. [slot |-> 0, gen |-> 0, status |-> "pending", features |-> Nothing, scores |-> Nothing] \in Words
    BY <2>1, SizesAre DEF Words, Items
  <2> QED
    BY <2>1, <2>2, <2>3, RestIsCall, SizesAre DEF Init, Types, NoCall, CancelCalls
<1>2. \A w \in Workers : worker[w].pc = "idle" /\ worker[w].item = "pending"
  BY DEF Init, Rest
<1>3. \A s \in Slots : slots[s].st = "free" /\ owner[s] = "idle" /\ canceller[s].pc = "idle"
  BY DEF Init, NoCall
<1>4. batch.st = "free" /\ former.pc = "idle"
  BY DEF Init
<1>5. Requested /\ Taken
  BY <1>2, <1>3 DEF Requested, Taken, Stage, Publisher
<1>6. Forming /\ InFlight /\ Held /\ Open /\ ReadyIsOwn
  BY <1>2, <1>3, <1>4 DEF Forming, InFlight, Held, Open, ReadyIsOwn
<1>7. Settled
  BY <1>2 DEF Settled, Knows, Stages, Working
<1>8. At("count") = {} /\ \A w \in Workers : worker[w].pc # "compare" /\ ~Ends(w)
  BY <1>2 DEF At, Ends
<1>9. Accounted
  BY <1>4, <1>8, FS_EmptySet DEF Accounted
<1> QED
  BY <1>1, <1>5, <1>6, <1>7, <1>9 DEF IInv

-----------------------------------------------------------------------------
(* What a step leaves of what it does not touch.                           *)

\* The slots that are in flight stay as they are, and no slot is added.
SameFlight ==
    \A s \in Slots : slots[s].st = "inflight" \/ slots'[s].st = "inflight" =>
        /\ slots'[s].st = slots[s].st /\ slots'[s].gen = slots[s].gen
        /\ slots'[s].batch = slots[s].batch /\ slots'[s].item = slots[s].item
SameTokens == \A i \in Lanes : lanes'[i].slot = lanes[i].slot /\ lanes'[i].gen = lanes[i].gen

\* A call knows what it knew when its own words are as they were.
LEMMA Undisturbed ==
    ASSUME NEW c \in Calls, Knows(c), Stages(c),
           lanes'[c.token.lane] = lanes[c.token.lane], result'[c.token.slot] = result[c.token.slot],
           Matches(c.token)' <=> Matches(c.token), Present(c.token)' <=> Present(c.token),
           Lapsed(c.token) => Lapsed(c.token)'
    PROVE  Knows(c)' /\ Stages(c)'
BY DEF Knows, Stages, Working, Own


\* Two tokens that are both true of a lane, or of a slot, are one.
LEMMA OneToken ==
    ASSUME NEW t \in Tokens, NEW u \in Tokens, Matches(t), Matches(u), t.lane = u.lane \/ t.slot = u.slot
    PROVE  t = u
<1>1. t.lane = u.lane /\ t.slot = u.slot /\ t.gen = u.gen /\ t.batch = u.batch
  BY DEF Matches
<1> QED
  BY <1>1 DEF Tokens

\* A true token is the one its lane has now, in a ready batch.
LEMMA MatchesIs ==
    ASSUME NEW t \in Tokens, Matches(t)
    PROVE  t = TokenOf(t.lane) /\ Present(t) /\ t.lane < batch.occupancy /\ Placed(t.lane, batch.gen)
<1>1. t = [lane |-> t.lane, slot |-> t.slot, gen |-> t.gen, batch |-> t.batch]
  BY DEF Tokens
<1> QED
  BY <1>1 DEF Matches, TokenOf, Present, Placed

\* Two workers do not hold the same lane of the present batch.
LEMMA OneHolder ==
    ASSUME Held, NEW w \in Workers, NEW v \in Workers, worker[w].pc # "idle", worker[v].pc # "idle",
           Present(worker[w].token), Present(worker[v].token), worker[w].token.lane = worker[v].token.lane
    PROVE  w = v
BY DEF Held, Present

-----------------------------------------------------------------------------
(* A step of one worker, or of none, beside the batch.                     *)

\* A worker that is not being counted, before the step and after it.
Uncounted(v) ==
    {worker[v].pc, worker'[v].pc} \cap {"compare", "counted"} = {}

\* The count of the batch is as it was when nobody who is being counted moves.
LEMMA AccountedStill ==
    ASSUME Accounted, batch' = batch, Published' = Published, At("count")' = At("count"),
           \A v \in Workers : worker'[v] = worker[v] \/ Uncounted(v)
    PROVE  Accounted'
<1>1. \A v \in Workers : /\ Ends(v)' <=> Ends(v)
                         /\ worker'[v].pc = "compare" => worker[v].pc = "compare" /\ worker'[v] = worker[v]
  BY DEF Ends, Uncounted
<1> QED
  BY <1>1 DEF Accounted

\* A worker edits only the item and the result that its true token names.
Edits(t) ==
    /\ Matches(t) /\ SameTokens
    /\ \A i \in Lanes : i # t.lane => lanes'[i] = lanes[i]
    /\ lanes'[t.lane].status # "published"
    /\ \A s \in Slots : s # t.slot => result'[s] = result[s]
Framed(w) ==
    /\ UNCHANGED <<batch, former>> /\ SameFlight
    /\ \A v \in Workers : v # w => worker'[v] = worker[v]
    /\ w \in Workers =>
         /\ worker'[w].pc # "idle" => worker[w].pc # "idle" /\ worker'[w].token = worker[w].token
         /\ worker[w].pc \in {"finish", "requeue"} => worker'[w].pc \in {"finish", "requeue"}
         /\ worker[w].pc \notin {"count", "compare", "counted"} /\ worker'[w].pc \notin {"count", "compare", "counted"}
    /\ UNCHANGED <<lanes, result>> \/ (w \in Workers /\ worker[w].pc # "idle" /\ Edits(worker[w].token))

\* Such a step leaves the words a token is compared with.
LEMMA FramedTokens == ASSUME NEW w, Framed(w) PROVE SameTokens
BY DEF Framed, Edits, SameTokens

\* A published item stays it, and an unpublished one too.
LEMMA FramedPublished ==
    ASSUME IInv, NEW w, Framed(w), NEW i \in Lanes
    PROVE  (lanes'[i].status = "published") <=> (lanes[i].status = "published")
<1>1. CASE UNCHANGED lanes
  BY <1>1
<1>2. CASE w \in Workers /\ Edits(worker[w].token)
  <2> DEFINE t == worker[w].token
  <2>1. t \in Tokens
    BY <1>2, TokenTypes DEF IInv
  <2>2. CASE i # t.lane
    BY <1>2, <2>2 DEF Edits
  <2>3. CASE i = t.lane
    <3>1. t.slot \in Slots /\ Matches(t)
      BY <1>2, <2>1 DEF Tokens, Edits
    <3>2. lanes[i].status # "published"
      BY <2>3, <3>1 DEF Matches, IInv, InFlight
    <3> QED
      BY <1>2, <2>3, <3>2 DEF Edits
  <2> QED
    BY <2>2, <2>3
<1> QED
  BY <1>1, <1>2 DEF Framed

\* What the other workers know, a step of this kind leaves.
LEMMA FramedOthers ==
    ASSUME IInv, NEW w, Framed(w), NEW v \in Workers, v # w
    PROVE  Knows(worker[v])' /\ Stages(worker[v])'
<1> DEFINE u == worker[v].token
<1>1. worker'[v] = worker[v] /\ worker[v] \in Calls /\ u \in Tokens /\ u.lane \in Lanes /\ u.slot \in Slots
  BY TokenTypes DEF Framed, IInv
<1>2. Knows(worker[v]) /\ Stages(worker[v])
  BY DEF IInv, Settled
<1>3. SameFlight /\ SameTokens /\ batch' = batch
  BY FramedTokens DEF Framed
<1>4. (Matches(u)' <=> Matches(u)) /\ (Present(u)' <=> Present(u))
  BY <1>1, <1>3 DEF SameFlight, SameTokens, Matches, Present
<1>5. Lapsed(u) => Lapsed(u)'
  BY <1>1, <1>3, FramedPublished DEF Lapsed
<1>6. CASE lanes'[u.lane] = lanes[u.lane] /\ result'[u.slot] = result[u.slot]
  <2> DEFINE c == worker[v]
  <2>1. PICK k \in Calls : k = c
    BY <1>1
  <2>2. Knows(k) /\ Stages(k)
    BY <1>2, <2>1
  <2>3. /\ lanes'[k.token.lane] = lanes[k.token.lane] /\ result'[k.token.slot] = result[k.token.slot]
        /\ Lapsed(k.token) => Lapsed(k.token)'
    BY <1>5, <1>1, <1>3, <1>6, <2>1, FramedPublished DEF Lapsed
  <2>4. (Matches(k.token)' <=> Matches(k.token)) /\ (Present(k.token)' <=> Present(k.token))
    BY <1>1, <1>3, <2>1 DEF SameFlight, SameTokens, Matches, Present
  <2>5. Knows(k)' /\ Stages(k)'
    BY <2>2, <2>3, <2>4, Undisturbed
  <2>6. worker'[v] = k
    BY <1>1, <2>1
  <2> QED
    BY <2>5, <2>6 DEF Knows, Stages
<1>7. CASE ~(lanes'[u.lane] = lanes[u.lane] /\ result'[u.slot] = result[u.slot])
  <2> DEFINE t == worker[w].token
  <2>1. w \in Workers /\ Edits(t)
    BY <1>7 DEF Framed
  <2>2. t \in Tokens /\ Matches(t) /\ worker[w].pc # "idle" /\ t.slot \in Slots
    BY <1>7, <2>1, TokenTypes DEF Framed, Edits, IInv
  <2>0. u.lane = t.lane \/ u.slot = t.slot
    BY <1>1, <1>7, <2>1 DEF Edits
  <2>3. worker[v].pc # "idle" => ~Matches(u)
    <3>1. ASSUME worker[v].pc # "idle", Matches(u) PROVE FALSE
      <4>1. t = u
        BY <1>1, <2>2, <2>0, <3>1, OneToken
      <4> QED
        BY <2>1, <2>2, <3>1, <4>1 DEF IInv, Held
    <3> QED
      BY <3>1
  <2>4. worker[v].pc \notin Working
    BY <1>2, <2>3 DEF Knows, Working
  <2>5. Present(t) /\ slots[t.slot].st = "inflight"
    BY <2>2 DEF Matches, Present
  <2>6. worker[v].pc \in {"finish", "requeue", "count"} => u.lane # t.lane
    BY <1>2, <2>1, <2>2, <2>5, OneHolder DEF Knows, IInv
  <2>7. worker[v].pc \in {"finish", "requeue", "count"} => lanes'[u.lane] = lanes[u.lane]
    BY <1>1, <2>1, <2>6 DEF Edits
  <2>8. worker[v].pc \in {"finish", "count", "compare", "counted", "finished"} /\ worker[v].item = "scattered" => u.slot # t.slot
    BY <2>5 DEF IInv, Taken, Publisher
  <2>9. worker[v].pc \in {"finish", "count", "compare", "counted", "finished"} /\ worker[v].item = "scattered" =>
            result'[u.slot] = result[u.slot]
    BY <1>1, <2>1, <2>8 DEF Edits
  <2> HIDE DEF t
  <2>10. PICK k \in Calls : k = worker[v]
    BY <1>1
  <2>11. Knows(k) /\ Stages(k)
    BY <1>2, <2>10
  <2>12. /\ k.pc \in {"finish", "requeue", "count"} => lanes'[k.token.lane] = lanes[k.token.lane]
         /\ k.pc \in {"finish", "count", "compare", "counted", "finished"} /\ k.item = "scattered" =>
               result'[k.token.slot] = result[k.token.slot]
         /\ Lapsed(k.token) => Lapsed(k.token)'
    BY <1>5, <2>7, <2>9, <2>10, <1>1, <1>3, FramedPublished DEF Lapsed
  <2>13. (Present(k.token)' <=> Present(k.token)) /\ (k.pc # "idle" => ~Matches(k.token)) /\ (Matches(k.token)' <=> Matches(k.token))
    BY <1>1, <1>3, <2>3, <2>10 DEF SameFlight, SameTokens, Matches, Present
  <2>14. k.pc \notin Working
    BY <2>4, <2>10
  <2>15. Knows(k)'
    BY <2>11, <2>12, <2>13, <2>14 DEF Knows, Working
  <2>16. Stages(k)'
    BY <2>11, <2>12, <2>13, <2>14 DEF Stages, Working, Own
  <2>17. worker'[v] = k
    BY <1>1, <2>10
  <2> QED
    BY <2>15, <2>16, <2>17 DEF Knows, Stages
<1> QED
  BY <1>6, <1>7

\* The batch, its lanes and its tokens are as they were.
LEMMA FramedBatch ==
    ASSUME IInv, NEW w, Framed(w)
    PROVE  Forming' /\ InFlight' /\ Held' /\ Open' /\ Accounted'
<1>1. SameFlight /\ SameTokens /\ batch' = batch /\ former' = former
  BY FramedTokens DEF Framed
<1>2. \A i \in Lanes : lanes'[i].status = "published" <=> lanes[i].status = "published"
  BY FramedPublished
<1>3. \A i \in Lanes : lanes[i].slot \in Slots
  BY WordTypes DEF IInv, Words
<1>4. \A i \in Lanes : Placed(i, batch.gen)' <=> Placed(i, batch.gen)
  BY <1>1, <1>3 DEF Placed, SameFlight, SameTokens
<1>5. batch.st = "ready" \/ lanes' = lanes
  BY DEF Framed, Edits, Matches
<1>6. Forming'
  BY <1>1, <1>3, <1>5 DEF IInv, Forming, Placed, SameFlight, SameTokens
<1>7. InFlight'
  <2>1. \A s \in Slots : slots[s].item \in Lanes
    BY WordTypes DEF IInv, Records
  <2> QED
    BY <1>1, <1>2, <2>1 DEF IInv, InFlight, SameFlight, SameTokens
<1>8. \A v \in Workers :
                          /\ worker'[v].pc # "idle" => worker[v].pc # "idle" /\ worker'[v].token = worker[v].token
                          /\ worker[v].pc \in {"finish", "requeue"} => worker'[v].pc \in {"finish", "requeue"}
                          /\ (worker'[v].pc = "count") <=> (worker[v].pc = "count")
                          /\ worker'[v] = worker[v] \/ Uncounted(v)
  BY DEF Framed, Uncounted
<1>9. \A v \in Workers : worker[v].token.lane \in Lanes
  BY TokenTypes DEF IInv
<1>10. Held'
  <2>1. ASSUME NEW v \in Workers, worker'[v].pc # "idle"
        PROVE  /\ worker'[v].token = worker[v].token /\ worker[v].token.batch <= batch.gen
               /\ batch.st = "ready" /\ worker[v].token.batch = batch.gen =>
                     worker[v].token = TokenOf(worker[v].token.lane) /\ worker[v].token.lane < batch.occupancy
    BY <1>8, <2>1 DEF IInv, Held
  <2>2. ASSUME NEW v \in Workers, worker'[v].pc # "idle"
        PROVE  LET t == worker'[v].token
               IN  /\ t.batch <= batch'.gen
                   /\ batch'.st = "ready" /\ t.batch = batch'.gen =>
                         /\ t = [lane |-> t.lane, slot |-> lanes'[t.lane].slot, gen |-> lanes'[t.lane].gen, batch |-> batch'.gen]
                         /\ t.lane < batch'.occupancy
    <3>1. worker[v].token.lane \in Lanes
      BY <1>9
    <3> QED
      BY <1>1, <2>1, <2>2, <3>1 DEF TokenOf, SameTokens
  <2>3. \A v, u \in Workers : worker'[v].pc # "idle" /\ worker'[u].pc # "idle" /\ worker'[v].token = worker'[u].token => v = u
    BY <1>8 DEF IInv, Held
  <2> QED
    BY <2>2, <2>3 DEF Held, TokenOf
<1>11. Open'
  <2> SUFFICES ASSUME batch'.st = "ready", NEW i \in Lanes, i < batch'.occupancy, lanes'[i].status # "published"
               PROVE  Placed(i, batch.gen)' \/ \E v \in Workers : Finishing(v)' /\ worker'[v].token = TokenOf(i)'
    BY DEF Open
  <2>1. Placed(i, batch.gen) \/ \E v \in Workers : Finishing(v) /\ worker[v].token = TokenOf(i)
    BY <1>1, <1>2 DEF IInv, Open
  <2>2. TokenOf(i)' = TokenOf(i)
    BY <1>1 DEF TokenOf, SameTokens
  <2> QED
    BY <1>4, <1>8, <2>1, <2>2 DEF Finishing
<1>12. Accounted'
  <2>1. At("count")' = At("count") /\ Published' = Published
    BY <1>1, <1>2, <1>8 DEF At, Published
  <2> QED
    BY <1>1, <1>8, <2>1, AccountedStill DEF IInv
<1> QED
  BY <1>6, <1>7, <1>10, <1>11, <1>12

-----------------------------------------------------------------------------
(* The requester and the canceller.                                        *)

\* A step of neither a worker nor the former leaves the batch alone.
LEMMA Beside ==
    ASSUME IInv, UNCHANGED <<result, batch, lanes, former, worker>>, SameFlight
    PROVE  Forming' /\ InFlight' /\ Held' /\ Open' /\ Settled' /\ Accounted'
<1>1. PICK w : w \notin Workers
  BY NoSetContainsEverything
<1>2. Framed(w)
  BY <1>1 DEF Framed
<1>3. \A v \in Workers : Knows(worker[v])' /\ Stages(worker[v])'
  BY <1>1, <1>2, FramedOthers
<1> QED
  BY <1>2, <1>3, FramedBatch DEF Settled

\* Where a requester and its slot can be.
LEMMA Stages2 ==
    ASSUME Requested, NEW s \in Slots
    PROVE  /\ owner[s] = "idle" => slots[s].st = "free"
           /\ owner[s] = "admit" => slots[s].st = "claimed"
           /\ slots[s].st \in {"queued", "inflight", "publishing", "ready", "failed", "cancelled"} => owner[s] = "wait"
BY DEF Requested, Stage

\* admit claims the slot: its request is encoded before anybody can see it.
LEMMA AdmitClaimHolds == ASSUME IInv, NEW s \in Slots, AdmitClaim(s) PROVE IInv'
<1>1. slots[s].st = "free" /\ owner[s] = "idle" /\ slots[s].gen \in Generations /\ slots[s] \in Records
  BY WordTypes DEF AdmitClaim, IInv, Records
<1>2. [slot |-> s, gen |-> slots[s].gen + 1] \in Payloads
  BY <1>1, SizesAre DEF Payloads, Generations
<1>3. Types'
  BY <1>1, <1>2 DEF AdmitClaim, IInv, Types, Records, States
<1>4. SameFlight /\ Requested' /\ Taken' /\ ReadyIsOwn'
  <2>1. \A x \in Slots : /\ x # s => slots'[x] = slots[x] /\ owner'[x] = owner[x] /\ input'[x] = input[x]
                         /\ slots'[x].gen = slots[x].gen
    BY WordTypes DEF AdmitClaim, IInv, Types
  <2>2. slots'[s].st = "claimed" /\ owner'[s] = "admit" /\ input'[s] = [slot |-> s, gen |-> slots[s].gen + 1]
    BY DEF AdmitClaim, IInv, Types
  <2>3. SameFlight
    BY <1>1, <2>1, <2>2 DEF SameFlight
  <2>4. Requested'
    BY <1>1, <2>1, <2>2 DEF AdmitClaim, IInv, Requested, Stage
  <2>5. Taken'
    BY <1>1, <2>1, <2>2, TokenTypes DEF AdmitClaim, IInv, Taken, Publisher
  <2>6. ReadyIsOwn'
    BY <2>1, <2>2 DEF AdmitClaim, IInv, ReadyIsOwn
  <2> QED
    BY <2>3, <2>4, <2>5, <2>6
<1> QED
  BY <1>3, <1>4, Beside DEF AdmitClaim, IInv

\* admit fills the slot: what is queued is the request that was encoded.
LEMMA AdmitFillHolds == ASSUME IInv, NEW s \in Slots, AdmitFill(s) PROVE IInv'
<1>1. slots[s].st = "claimed" /\ owner[s] = "admit" /\ slots[s].gen \in Generations /\ slots[s] \in Records
  BY WordTypes, Stages2 DEF AdmitFill, IInv, Records
<1>2. PICK r \in Records : /\ slots' = [slots EXCEPT ![s] = r]
                           /\ \/ r.st = "retired" /\ owner' = [owner EXCEPT ![s] = "done"]
                              \/ r.st = "queued" /\ r.gen = slots[s].gen + 1 /\ owner' = [owner EXCEPT ![s] = "wait"]
  <2>1. CASE slots[s].gen = MaxGeneration
    <3> DEFINE r == [slots[s] EXCEPT !.st = "retired"]
    <3>1. r \in Records /\ r.st = "retired"
      BY <1>1 DEF States, Records
    <3>2. slots' = [slots EXCEPT ![s] = r] /\ owner' = [owner EXCEPT ![s] = "done"]
      BY <2>1 DEF AdmitFill
    <3> HIDE DEF r
    <3> QED
      BY <3>1, <3>2
  <2>2. CASE slots[s].gen # MaxGeneration
    <3> DEFINE g == slots[s].gen + 1
               r == [slots[s] EXCEPT !.st = "queued", !.gen = g, !.batch = 0, !.item = 0, !.cancel = FALSE]
    <3>1. slots' = [slots EXCEPT ![s] = r] /\ owner' = [owner EXCEPT ![s] = "wait"]
      BY <2>2 DEF AdmitFill
    <3>2. g \in Generations
      BY <1>1, <2>2, SizesAre DEF Generations
    <3> HIDE DEF g
    <3>3. r \in Records /\ r.st = "queued" /\ r.gen = g
      <4>1. slots[s] \in Records
        BY <1>1
      <4>2. g \in Generations /\ 0 \in Lanes /\ 0 \in 0 .. MaxBatch /\ "queued" \in States
        BY <3>2, SizesAre DEF States
      <4> QED
        BY <4>1, <4>2 DEF Records
    <3> HIDE DEF r
    <3> QED
      BY <3>1, <3>3 DEF g
  <2> QED
    BY <2>1, <2>2
<1>3. UNCHANGED <<input, result, batch, lanes, canceller, former, worker>>
  BY DEF AdmitFill
<1>4. \A x \in Slots : x # s => slots'[x] = slots[x] /\ owner'[x] = owner[x]
  BY <1>2 DEF IInv, Types
<1>5. \/ slots'[s].st = "retired" /\ owner'[s] = "done"
      \/ slots'[s].st = "queued" /\ owner'[s] = "wait" /\ slots'[s].gen = slots[s].gen + 1
  BY <1>2 DEF IInv, Types
<1>6. Types'
  BY <1>2, <1>3 DEF IInv, Types
<1>7. SameFlight
  BY <1>1, <1>4, <1>5 DEF SameFlight
<1>8. Requested'
  <2>1. canceller[s].pc # "store" /\ input[s] = [slot |-> s, gen |-> slots[s].gen + 1]
    BY <1>1 DEF IInv, Requested
  <2>2. Stage(owner'[s], slots'[s].st) /\ owner'[s] # "admit"
    BY <1>5 DEF Stage
  <2>3. owner'[s] = "wait" => input[s] = [slot |-> s, gen |-> slots'[s].gen]
    BY <1>5, <2>1
  <2> QED
    BY <1>3, <1>4, <2>1, <2>2, <2>3 DEF IInv, Requested
<1>9. Taken'
  BY <1>1, <1>3, <1>4, <1>5, TokenTypes DEF IInv, Taken, Publisher
<1>10. ReadyIsOwn'
  BY <1>3, <1>4, <1>5 DEF IInv, ReadyIsOwn
<1> QED
  BY <1>3, <1>6, <1>7, <1>8, <1>9, <1>10, Beside DEF IInv

\* recycle gives the slot back.
LEMMA RecycleHolds == ASSUME IInv, NEW s \in Slots, Recycle(s) PROVE IInv'
<1> DEFINE r == [slots[s] EXCEPT !.st = "free", !.cancel = FALSE]
<1>1. slots[s].st \in Terminal /\ owner[s] = "wait" /\ slots[s] \in Records
  BY WordTypes DEF Recycle, IInv
<1>2. slots' = [slots EXCEPT ![s] = r]
  BY <1>1 DEF Recycle, IInv, Types, Records
<1>3. r \in Records /\ r.st = "free" /\ r.gen = slots[s].gen
  <2>1. slots[s] \in Records
    BY <1>1
  <2> QED
    BY <2>1 DEF Records, States
<1> HIDE DEF r
<1>4. NoCall \in CancelCalls /\ NoCall.pc = "idle"
  BY DEF NoCall, CancelCalls
<1>5. UNCHANGED <<input, result, batch, lanes, former, worker>>
  BY DEF Recycle
<1>6. Types'
  <2>1. slots' \in [Slots -> Records]
    BY <1>2, <1>3 DEF IInv, Types
  <2>2. owner' \in [Slots -> {"idle", "admit", "wait", "done"}] /\ canceller' \in [Slots -> CancelCalls]
    BY <1>4 DEF Recycle, IInv, Types
  <2> QED
    BY <1>5, <2>1, <2>2 DEF IInv, Types
<1>7. \A x \in Slots : x # s => slots'[x] = slots[x] /\ owner'[x] = owner[x] /\ canceller'[x] = canceller[x]
  BY <1>2 DEF Recycle, IInv, Types
<1>8. slots'[s].st = "free" /\ owner'[s] = "idle" /\ canceller'[s].pc = "idle"
  BY <1>2, <1>3, <1>4 DEF Recycle, IInv, Types
<1>9. SameFlight
  BY <1>1, <1>7, <1>8 DEF SameFlight, Terminal
<1>10. Requested'
  BY <1>5, <1>7, <1>8 DEF IInv, Requested, Stage
<1>11. \A w \in Workers : /\ Publisher(w) => worker[w].token.slot # s
                          /\ worker[w].pc = "requeue" => worker[w].token.slot # s
  BY <1>1 DEF IInv, Taken, Terminal
<1>12. Taken'
  BY <1>5, <1>7, <1>11, TokenTypes DEF IInv, Taken, Publisher
<1>13. ReadyIsOwn'
  BY <1>5, <1>7, <1>8 DEF IInv, ReadyIsOwn
<1> QED
  BY <1>5, <1>6, <1>9, <1>10, <1>12, <1>13, Beside DEF IInv

\* cancel sets the flag, in whatever state the slot is by now.
LEMMA CancelFlagHolds == ASSUME IInv, NEW s \in Slots, CancelFlag(s) PROVE IInv'
<1> DEFINE r == [slots[s] EXCEPT !.cancel = TRUE]
           pc == IF canceller[s].queued THEN "claim" ELSE "after"
           c == [canceller[s] EXCEPT !.pc = pc, !.queued = FALSE]
<1>1. slots[s] \in Records /\ slots' = [slots EXCEPT ![s] = r] /\ canceller[s].pc = "flag"
  BY WordTypes DEF CancelFlag, IInv, Types
<1>2. canceller' = [canceller EXCEPT ![s] = c] /\ canceller[s] \in CancelCalls
  BY DEF CancelFlag, IInv, Types
<1>3. r \in Records /\ r.st = slots[s].st /\ r.gen = slots[s].gen /\ r.batch = slots[s].batch /\ r.item = slots[s].item
  <2>1. slots[s] \in Records
    BY <1>1
  <2> QED
    BY <2>1 DEF Records
<1>4. pc \in {"claim", "after"}
  OBVIOUS
<1> HIDE DEF pc
<1>5. c \in CancelCalls /\ c.pc = pc
  BY <1>2, <1>4 DEF CancelCalls
<1> HIDE DEF r, c
<1>6. UNCHANGED <<input, result, batch, lanes, owner, former, worker>>
  BY DEF CancelFlag
<1>7. Types'
  BY <1>1, <1>2, <1>3, <1>5, <1>6 DEF IInv, Types
<1>8. \A x \in Slots :
        /\ slots'[x].st = slots[x].st /\ slots'[x].gen = slots[x].gen
        /\ slots'[x].batch = slots[x].batch /\ slots'[x].item = slots[x].item
        /\ canceller'[x].pc = "store" => canceller[x].pc = "store"
  BY <1>1, <1>2, <1>3, <1>4, <1>5 DEF IInv, Types
<1>9. SameFlight
  BY <1>8 DEF SameFlight
<1>10. Requested'
  BY <1>6, <1>8 DEF IInv, Requested
<1>11. ReadyIsOwn'
  BY <1>6, <1>8 DEF IInv, ReadyIsOwn
<1>12. Taken'
  BY <1>6, <1>8, TokenTypes DEF IInv, Taken, Publisher
<1> QED
  BY <1>6, <1>7, <1>9, <1>10, <1>11, <1>12, Beside DEF IInv

\* cancel begins, or looks at the slot a last time.
LEMMA CancelWaitHolds == ASSUME IInv, NEW s \in Slots, CancelCall(s) \/ CancelAfter(s) PROVE IInv'
<1>1. UNCHANGED <<slots, input, result, batch, lanes, owner, former, worker>>
  BY DEF CancelCall, CancelAfter
<1>2. PICK c \in CancelCalls : canceller' = [canceller EXCEPT ![s] = c] /\ c.pc # "store"
  <2>1. CASE CancelCall(s)
    <3> DEFINE c == [pc |-> "flag", queued |-> slots[s].st = "queued", answer |-> "none"]
    <3>1. c \in CancelCalls /\ c.pc = "flag"
      BY DEF CancelCalls
    <3>2. canceller' = [canceller EXCEPT ![s] = c]
      BY <2>1 DEF CancelCall
    <3> HIDE DEF c
    <3> QED
      BY <3>1, <3>2
  <2>2. CASE CancelAfter(s)
    <3> DEFINE a == IF slots[s].st = "inflight" THEN "cancelled" ELSE "notReady"
               c == [canceller[s] EXCEPT !.pc = "idle", !.answer = a]
    <3>1. canceller' = [canceller EXCEPT ![s] = c] /\ canceller[s] \in CancelCalls
      BY <2>2 DEF CancelAfter, IInv, Types
    <3>2. a \in {"cancelled", "notReady"}
      OBVIOUS
    <3> HIDE DEF a
    <3>3. c \in CancelCalls /\ c.pc = "idle"
      BY <3>1, <3>2 DEF CancelCalls
    <3> HIDE DEF c
    <3> QED
      BY <3>1, <3>3
  <2> QED
    BY <2>1, <2>2
<1>3. \A x \in Slots : canceller'[x].pc = "store" => canceller[x].pc = "store"
  BY <1>2 DEF IInv, Types
<1>4. SameFlight
  BY <1>1 DEF SameFlight
<1>5. Types'
  BY <1>1, <1>2 DEF IInv, Types
<1>6. Requested' /\ ReadyIsOwn'
  BY <1>1, <1>3 DEF IInv, Requested, ReadyIsOwn
<1>7. Taken'
  BY <1>1, <1>3, TokenTypes DEF IInv, Taken, Publisher
<1> QED
  BY <1>1, <1>4, <1>5, <1>6, <1>7, Beside DEF IInv

\* cancel takes a request out of the queue; no worker publishes that one.
LEMMA CancelClaimHolds == ASSUME IInv, NEW s \in Slots, CancelClaim(s) PROVE IInv'
<1>1. UNCHANGED <<input, result, batch, lanes, owner, former, worker>>
  BY DEF CancelClaim
<1>2. slots[s] \in Records /\ canceller[s] \in CancelCalls
  BY DEF IInv, Types
<1>3. CASE slots[s].st = "queued"
  <2> DEFINE r == [slots[s] EXCEPT !.st = "publishing"]
             c == [canceller[s] EXCEPT !.pc = "store"]
  <2>1. slots' = [slots EXCEPT ![s] = r] /\ canceller' = [canceller EXCEPT ![s] = c]
    BY <1>3 DEF CancelClaim
  <2>2. r \in Records /\ r.st = "publishing" /\ r.gen = slots[s].gen /\ c \in CancelCalls
    BY <1>2 DEF Records, States, CancelCalls
  <2> HIDE DEF r, c
  <2>3. Types'
    BY <1>1, <2>1, <2>2 DEF IInv, Types
  <2>4. \A x \in Slots : /\ x # s => slots'[x] = slots[x] /\ canceller'[x] = canceller[x]
                         /\ slots'[x].gen = slots[x].gen
    BY <2>1, <2>2 DEF IInv, Types
  <2>5. slots'[s].st = "publishing"
    BY <2>1, <2>2 DEF IInv, Types
  <2>6. SameFlight
    BY <1>3, <2>4, <2>5 DEF SameFlight
  <2>7. Requested'
    BY <1>1, <1>3, <2>4, <2>5 DEF IInv, Requested, Stage
  <2>8. \A w \in Workers : /\ Publisher(w) => worker[w].token.slot # s
                           /\ worker[w].pc = "requeue" => worker[w].token.slot # s
    BY <1>3 DEF IInv, Taken
  <2>9. Taken'
    BY <1>1, <2>4, <2>8, TokenTypes DEF IInv, Taken, Publisher
  <2>10. ReadyIsOwn'
    BY <1>1, <2>4, <2>5 DEF IInv, ReadyIsOwn
  <2> QED
    BY <1>1, <2>3, <2>6, <2>7, <2>9, <2>10, Beside DEF IInv
<1>4. CASE slots[s].st # "queued"
  <2> DEFINE c == [canceller[s] EXCEPT !.pc = "after"]
  <2>1. slots' = slots /\ canceller' = [canceller EXCEPT ![s] = c]
    BY <1>4 DEF CancelClaim
  <2>2. c \in CancelCalls /\ c.pc = "after"
    BY <1>2 DEF CancelCalls
  <2> HIDE DEF c
  <2>3. Types'
    BY <1>1, <2>1, <2>2 DEF IInv, Types
  <2>4. \A x \in Slots : canceller'[x].pc = "store" => canceller[x].pc = "store"
    BY <2>1, <2>2 DEF IInv, Types
  <2>5. SameFlight
    BY <2>1 DEF SameFlight
  <2>6. Requested' /\ ReadyIsOwn'
    BY <1>1, <2>1, <2>4 DEF IInv, Requested, ReadyIsOwn
  <2>7. Taken'
    BY <1>1, <2>1, <2>4, TokenTypes DEF IInv, Taken, Publisher
  <2> QED
    BY <1>1, <2>3, <2>5, <2>6, <2>7, Beside DEF IInv
<1> QED
  BY <1>3, <1>4

\* cancel answers the request it took.
LEMMA CancelStoreHolds == ASSUME IInv, NEW s \in Slots, CancelStore(s) PROVE IInv'
<1> DEFINE r == [slots[s] EXCEPT !.st = "cancelled"]
           c == [canceller[s] EXCEPT !.pc = "idle", !.answer = "cancelled"]
<1>1. UNCHANGED <<input, result, batch, lanes, owner, former, worker>> /\ canceller[s].pc = "store"
  BY DEF CancelStore
<1>2. slots[s] \in Records /\ canceller[s] \in CancelCalls /\ slots[s].st = "publishing"
  BY <1>1 DEF IInv, Types, Requested
<1>3. slots' = [slots EXCEPT ![s] = r] /\ canceller' = [canceller EXCEPT ![s] = c]
  BY DEF CancelStore, IInv, Types
<1>4. r \in Records /\ r.st = "cancelled" /\ r.gen = slots[s].gen /\ c \in CancelCalls /\ c.pc = "idle"
  BY <1>2 DEF Records, States, CancelCalls
<1> HIDE DEF r, c
<1>5. Types'
  BY <1>1, <1>3, <1>4 DEF IInv, Types
<1>6. \A x \in Slots : /\ x # s => slots'[x] = slots[x] /\ canceller'[x] = canceller[x]
                       /\ slots'[x].gen = slots[x].gen
  BY <1>3, <1>4 DEF IInv, Types
<1>7. slots'[s].st = "cancelled" /\ canceller'[s].pc = "idle"
  BY <1>3, <1>4 DEF IInv, Types
<1>8. SameFlight
  BY <1>2, <1>6, <1>7 DEF SameFlight
<1>9. Requested'
  BY <1>1, <1>2, <1>6, <1>7 DEF IInv, Requested, Stage
<1>10. \A w \in Workers : /\ Publisher(w) => worker[w].token.slot # s
                          /\ worker[w].pc = "requeue" => worker[w].token.slot # s
  BY <1>1, <1>2 DEF IInv, Taken
<1>11. Taken'
  BY <1>1, <1>6, <1>10, TokenTypes DEF IInv, Taken, Publisher
<1>12. ReadyIsOwn'
  BY <1>1, <1>6, <1>7 DEF IInv, ReadyIsOwn
<1> QED
  BY <1>1, <1>5, <1>8, <1>9, <1>11, <1>12, Beside DEF IInv

\* The requester's and the canceller's steps.
LEMMA SlotStepsHold == ASSUME IInv, NEW s \in Slots, Owner(s) \/ Cancel(s) PROVE IInv'
BY AdmitClaimHolds, AdmitFillHolds, RecycleHolds, CancelFlagHolds, CancelWaitHolds, CancelClaimHolds, CancelStoreHolds
   DEF Owner, Cancel

-----------------------------------------------------------------------------
(* The steps of a worker that only its own item feels.                     *)

\* A worker goes on with what it knows.
LEMMA MovesTo ==
    ASSUME Types, NEW w \in Workers, NEW pc \in Pcs, pc # "idle", Moves(w, pc)
    PROVE  \E c \in Calls : /\ worker' = [worker EXCEPT ![w] = c] /\ c.pc = pc
                            /\ c.token = worker[w].token /\ c.item = worker[w].item
                            /\ c.next = worker[w].next /\ c.last = worker[w].last
<1> DEFINE c == [worker[w] EXCEPT !.pc = pc]
<1>1. worker[w] \in Calls
  BY DEF Types
<1>2. c \in Calls /\ c.pc = pc /\ c.token = worker[w].token /\ c.item = worker[w].item
      /\ c.next = worker[w].next /\ c.last = worker[w].last
  BY <1>1 DEF Calls
<1>3. worker' = [worker EXCEPT ![w] = c]
  BY DEF Moves
<1> HIDE DEF c
<1> QED
  BY <1>2, <1>3

\* A worker gives its item up.
LEMMA MovesIdle ==
    ASSUME NEW w \in Workers, Moves(w, "idle")
    PROVE  worker' = [worker EXCEPT ![w] = Rest] /\ Rest.pc = "idle"
BY DEF Moves, Rest

\* A worker is about to store the status of its item.
LEMMA MarksTo ==
    ASSUME Types, NEW w \in Workers, NEW item \in Items,
           NEW next \in {"idle", "publish", "scatter", "retry", "claim"}, Marks(w, item, next)
    PROVE  \E c \in Calls : /\ worker' = [worker EXCEPT ![w] = c] /\ c.pc = "mark"
                            /\ c.token = worker[w].token /\ c.item = item /\ c.next = next
<1> DEFINE c == [worker[w] EXCEPT !.pc = "mark", !.item = item, !.next = next]
<1>1. worker[w] \in Calls
  BY DEF Types
<1>2. c \in Calls /\ c.pc = "mark" /\ c.token = worker[w].token /\ c.item = item /\ c.next = next
  BY <1>1 DEF Calls, Pcs
<1>3. worker' = [worker EXCEPT ![w] = c]
  BY DEF Marks
<1> HIDE DEF c
<1> QED
  BY <1>2, <1>3

\* Who is about to change a request's slot or the count.
Busy == {"finish", "count", "compare", "counted", "finished", "requeue"}

\* A step that changes at most the item and the result of its true token.
LEMMA Private ==
    ASSUME IInv, NEW w \in Workers, NEW c \in Calls, worker' = [worker EXCEPT ![w] = c],
           UNCHANGED <<slots, input, batch, owner, canceller, former>>,
           worker[w].pc \notin Busy, worker[w].pc # "idle", c.pc \notin Busy,
           c.pc # "idle" => c.token = worker[w].token,
           lanes' \in [Lanes -> Words], result' \in [Slots -> Payloads],
           UNCHANGED <<lanes, result>> \/ Edits(worker[w].token),
           Knows(c)', Stages(c)'
    PROVE  IInv'
<1>1. worker'[w] = c /\ \A v \in Workers : v # w => worker'[v] = worker[v]
  BY DEF IInv, Types
<1>2. Types'
  BY DEF IInv, Types
<1>3. SameFlight
  BY DEF SameFlight
<1>4. Framed(w)
  BY <1>1, <1>3 DEF Framed, Busy
<1>5. Forming' /\ InFlight' /\ Held' /\ Open' /\ Accounted'
  BY <1>4, FramedBatch
<1>6. Settled'
  <2>1. Knows(worker[w])' /\ Stages(worker[w])'
    BY <1>1 DEF Knows, Stages
  <2>2. \A v \in Workers : v # w => Knows(worker[v])' /\ Stages(worker[v])'
    BY <1>4, FramedOthers
  <2> QED
    BY <2>1, <2>2 DEF Settled
<1>7. Requested'
  BY DEF IInv, Requested
<1>8. Taken'
  BY <1>1 DEF IInv, Taken, Publisher, Busy
<1>9. ReadyIsOwn'
  BY DEF IInv, ReadyIsOwn, Edits, Matches
<1> QED
  BY <1>2, <1>5, <1>6, <1>7, <1>8, <1>9 DEF IInv

\* The same, when the step changes nothing but the call.
LEMMA PrivateStill ==
    ASSUME IInv, NEW w \in Workers, NEW c \in Calls, worker' = [worker EXCEPT ![w] = c],
           UNCHANGED <<slots, input, result, batch, lanes, owner, canceller, former>>,
           worker[w].pc \notin Busy, worker[w].pc # "idle", c.pc \notin Busy,
           c.pc # "idle" => c.token = worker[w].token,
           Knows(c), Stages(c)
    PROVE  IInv'
<1>1. Knows(c)' /\ Stages(c)'
  BY SMTT(30) DEF Knows, Stages, Working, Own, Matches, Present, Lapsed
<1>2. lanes' \in [Lanes -> Words] /\ result' \in [Slots -> Payloads]
  BY DEF IInv, Types
<1> QED
  BY <1>1, <1>2, Private

\* A worker may always stop.
LEMMA StopHolds ==
    ASSUME IInv, NEW w \in Workers, Moves(w, "idle"),
           UNCHANGED <<slots, input, result, batch, lanes, owner, canceller, former>>,
           worker[w].pc \notin Busy, worker[w].pc # "idle"
    PROVE  IInv'
<1>1. worker' = [worker EXCEPT ![w] = Rest] /\ Rest.pc = "idle" /\ Rest \in Calls
  BY MovesIdle, RestIsCall
<1>2. Knows(Rest) /\ Stages(Rest)
  BY <1>1 DEF Knows, Stages, Working
<1> QED
  BY <1>1, <1>2, PrivateStill DEF Busy

\* prepareItem, up to the copy: the token is found true, or is no longer.
LEMMA PrepareHolds == ASSUME IInv, NEW w \in Workers, Prepare(w) PROVE IInv'
<1> DEFINE t == worker[w].token
<1>1. worker[w].pc = "prepare" /\ UNCHANGED <<slots, input, result, batch, lanes, owner, canceller, former>>
  BY DEF Prepare
<1>2. Types /\ (Matches(t) \/ Lapsed(t))
  BY <1>1 DEF IInv, Settled, Knows
<1>3. CASE ~Matches(t)
  <2>1. PICK c \in Calls : worker' = [worker EXCEPT ![w] = c] /\ c.pc = "publish" /\ c.token = t
    BY <1>2, <1>3, MovesTo DEF Prepare, Pcs
  <2>2. Knows(c) /\ Stages(c)
    BY <1>2, <1>3, <2>1 DEF Knows, Stages, Working
  <2> QED
    BY <1>1, <2>1, <2>2, PrivateStill DEF Busy
<1>4. CASE Matches(t) /\ slots[t.slot].cancel
  <2>1. PICK c \in Calls : worker' = [worker EXCEPT ![w] = c] /\ c.pc = "mark" /\ c.token = t
                           /\ c.item = "cancelled" /\ c.next = "publish"
    BY <1>2, <1>4, MarksTo DEF Prepare, Items
  <2>2. Knows(c) /\ Stages(c)
    BY <1>4, <2>1 DEF Knows, Stages, Working
  <2> QED
    BY <1>1, <2>1, <2>2, PrivateStill DEF Busy
<1>5. CASE Matches(t) /\ ~slots[t.slot].cancel
  <2>1. PICK c \in Calls : worker' = [worker EXCEPT ![w] = c] /\ c.pc = "copyIn" /\ c.token = t
    BY <1>2, <1>5, MovesTo DEF Prepare, Pcs
  <2>2. Knows(c) /\ Stages(c)
    BY <1>5, <2>1 DEF Knows, Stages, Working
  <2> QED
    BY <1>1, <2>1, <2>2, PrivateStill DEF Busy
<1> QED
  BY <1>3, <1>4, <1>5

\* executeItem, up to the tensor.
LEMMA ExecuteHolds == ASSUME IInv, NEW w \in Workers, Execute(w) PROVE IInv'
<1> DEFINE t == worker[w].token
<1>1. worker[w].pc = "execute" /\ UNCHANGED <<slots, input, result, batch, lanes, owner, canceller, former>>
  BY DEF Execute
<1>2. Types /\ Matches(t) /\ lanes[t.lane].status = "prepared" /\ lanes[t.lane].features = Own(t)
  BY <1>1 DEF IInv, Settled, Knows, Stages, Working
<1>3. CASE slots[t.slot].cancel
  <2>1. PICK c \in Calls : worker' = [worker EXCEPT ![w] = c] /\ c.pc = "mark" /\ c.token = t
                           /\ c.item = "cancelled" /\ c.next = "publish"
    BY <1>2, <1>3, MarksTo DEF Execute, Items
  <2>2. Knows(c) /\ Stages(c)
    BY <1>2, <2>1 DEF Knows, Stages, Working
  <2> QED
    BY <1>1, <2>1, <2>2, PrivateStill DEF Busy
<1>4. CASE ~slots[t.slot].cancel
  <2>1. PICK c \in Calls : worker' = [worker EXCEPT ![w] = c] /\ c.pc = "tensor" /\ c.token = t
    BY <1>2, <1>4, MovesTo DEF Execute, Pcs
  <2>2. Knows(c) /\ Stages(c)
    BY <1>2, <2>1 DEF Knows, Stages, Working
  <2> QED
    BY <1>1, <2>1, <2>2, PrivateStill DEF Busy
<1> QED
  BY <1>3, <1>4

\* executeItem, after the tensor.
LEMMA ExecutedHolds == ASSUME IInv, NEW w \in Workers, NEW retries \in BOOLEAN, Executed(w, retries) PROVE IInv'
<1> DEFINE t == worker[w].token
<1>1. worker[w].pc \in {"computed", "failed"} /\ UNCHANGED <<slots, input, result, batch, lanes, owner, canceller, former>>
  BY DEF Executed
<1>2. Types /\ Matches(t) /\ (worker[w].pc = "computed" => lanes[t.lane].scores = Own(t))
  BY <1>1 DEF IInv, Settled, Knows, Stages, Working
<1>3. \E item \in {"cancelled", "computed", "failed"}, next \in {"publish", "scatter", "retry"} :
          /\ Marks(w, item, next)
          /\ item = "computed" => worker[w].pc = "computed"
          /\ next = "scatter" <=> item = "computed"
  <2>1. CASE slots[t.slot].cancel
    BY <1>2, <2>1 DEF Executed
  <2>2. CASE ~slots[t.slot].cancel /\ worker[w].pc = "computed"
    BY <1>2, <2>2 DEF Executed
  <2>3. CASE ~slots[t.slot].cancel /\ worker[w].pc # "computed"
    BY <1>2, <2>3 DEF Executed
  <2> QED
    BY <2>1, <2>2, <2>3
<1>4. PICK c \in Calls : /\ worker' = [worker EXCEPT ![w] = c] /\ c.pc = "mark" /\ c.token = t
                         /\ c.item \in {"cancelled", "computed", "failed"} /\ c.next \in {"publish", "scatter", "retry"}
                         /\ c.item = "computed" => worker[w].pc = "computed"
                         /\ (c.next = "scatter") <=> (c.item = "computed")
  BY <1>2, <1>3, MarksTo DEF Items
<1>5. Knows(c) /\ Stages(c)
  BY <1>2, <1>4 DEF Knows, Stages, Working
<1> QED
  BY <1>1, <1>4, <1>5, PrivateStill DEF Busy

\* scatterItem, up to the copy.
LEMMA ScatterHolds == ASSUME IInv, NEW w \in Workers, Scatter(w) PROVE IInv'
<1> DEFINE t == worker[w].token
<1>1. worker[w].pc = "scatter" /\ UNCHANGED <<slots, input, result, batch, lanes, owner, canceller, former>>
  BY DEF Scatter
<1>2. Types /\ Matches(t) /\ lanes[t.lane].status = "computed" /\ lanes[t.lane].scores = Own(t)
  BY <1>1 DEF IInv, Settled, Knows, Stages, Working
<1>3. CASE slots[t.slot].cancel
  <2>1. PICK c \in Calls : worker' = [worker EXCEPT ![w] = c] /\ c.pc = "mark" /\ c.token = t
                           /\ c.item = "cancelled" /\ c.next = "publish"
    BY <1>2, <1>3, MarksTo DEF Scatter, Items
  <2>2. Knows(c) /\ Stages(c)
    BY <1>2, <2>1 DEF Knows, Stages, Working
  <2> QED
    BY <1>1, <2>1, <2>2, PrivateStill DEF Busy
<1>4. CASE ~slots[t.slot].cancel
  <2>1. PICK c \in Calls : worker' = [worker EXCEPT ![w] = c] /\ c.pc = "copyOut" /\ c.token = t
    BY <1>2, <1>4, MovesTo DEF Scatter, Pcs
  <2>2. Knows(c) /\ Stages(c)
    BY <1>2, <2>1 DEF Knows, Stages, Working
  <2> QED
    BY <1>1, <2>1, <2>2, PrivateStill DEF Busy
<1> QED
  BY <1>3, <1>4

\* scatterItem, after the copy.
LEMMA ScatteredHolds == ASSUME IInv, NEW w \in Workers, Scattered(w) PROVE IInv'
<1> DEFINE t == worker[w].token
<1>1. worker[w].pc = "scattered" /\ UNCHANGED <<slots, input, result, batch, lanes, owner, canceller, former>>
  BY DEF Scattered
<1>2. Types /\ Matches(t) /\ result[t.slot] = Own(t)
  BY <1>1 DEF IInv, Settled, Knows, Stages, Working
<1>3. PICK c \in Calls : worker' = [worker EXCEPT ![w] = c] /\ c.pc = "mark" /\ c.token = t
                         /\ c.item = "scattered" /\ c.next = "publish"
  BY <1>2, MarksTo DEF Scattered, Items
<1>4. Knows(c) /\ Stages(c)
  BY <1>2, <1>3 DEF Knows, Stages, Working
<1> QED
  BY <1>1, <1>3, <1>4, PrivateStill DEF Busy

\* publishItem, up to the claim: the status that is published is the lane's.
LEMMA PublishHolds == ASSUME IInv, NEW w \in Workers, Publish(w) PROVE IInv'
<1> DEFINE t == worker[w].token
           status == lanes[t.lane].status
<1>1. worker[w].pc = "publish" /\ UNCHANGED <<slots, input, result, batch, lanes, owner, canceller, former>>
  BY DEF Publish
<1>2. Types /\ worker[w] \in Calls /\ status \in Items
  BY TokenTypes DEF IInv, Words
<1>3. CASE ~Matches(t) \/ status \notin {"scattered", "failed", "cancelled", "stale"}
  <2>1. Moves(w, "idle")
    BY <1>3 DEF Publish
  <2> QED
    BY <1>1, <2>1, StopHolds DEF Busy
<1>4. CASE Matches(t) /\ status \in {"scattered", "failed", "cancelled", "stale"} /\ slots[t.slot].cancel /\ status = "scattered"
  <2>1. PICK c \in Calls : worker' = [worker EXCEPT ![w] = c] /\ c.pc = "mark" /\ c.token = t
                           /\ c.item = "cancelled" /\ c.next = "claim"
    BY <1>2, <1>4, MarksTo DEF Publish, Items
  <2>2. Knows(c) /\ Stages(c)
    BY <1>4, <2>1 DEF Knows, Stages, Working
  <2> QED
    BY <1>1, <2>1, <2>2, PrivateStill DEF Busy
<1>5. CASE Matches(t) /\ status \in {"scattered", "failed", "cancelled", "stale"} /\ ~(slots[t.slot].cancel /\ status = "scattered")
  <2>1. status \in {"scattered", "failed", "cancelled"}
    BY <1>2, <1>5 DEF Items
  <2>2. status = "scattered" => result[t.slot] = Own(t)
    BY <1>1, <1>5 DEF IInv, Settled, Stages
  <2>3. worker' = [worker EXCEPT ![w] = [worker[w] EXCEPT !.pc = "claim", !.item = status]]
    BY <1>5 DEF Publish
  <2>4. PICK i \in Items : i = status
    BY <1>2
  <2> DEFINE c == [worker[w] EXCEPT !.pc = "claim", !.item = i]
  <2>5. c \in Calls /\ c.pc = "claim" /\ c.item = i /\ c.token = t
    <3>1. worker[w] \in Calls
      BY <1>2
    <3> QED
      BY <3>1 DEF Calls, Pcs
  <2>6. worker' = [worker EXCEPT ![w] = c]
    BY <2>3, <2>4
  <2> HIDE DEF c
  <2>7. Knows(c) /\ Stages(c)
    BY <1>5, <2>1, <2>2, <2>4, <2>5 DEF Knows, Stages, Working
  <2> QED
    BY <1>1, <2>5, <2>6, <2>7, PrivateStill DEF Busy
<1> QED
  BY <1>3, <1>4, <1>5

\* A store into the item that a true token names.
LEMMA ItemStored ==
    ASSUME IInv, NEW t \in Tokens, Matches(t), NEW k \in Words, lanes' = [lanes EXCEPT ![t.lane] = k],
           k.slot = lanes[t.lane].slot, k.gen = lanes[t.lane].gen, k.status # "published",
           result' = result, UNCHANGED <<slots, batch>>
    PROVE  Edits(t) /\ lanes' \in [Lanes -> Words] /\ lanes'[t.lane] = k /\ Matches(t)'
<1>1. t.lane \in Lanes
  BY DEF Tokens
<1>2. lanes \in [Lanes -> Words]
  BY DEF IInv, Types
<1>3. lanes' \in [Lanes -> Words] /\ lanes'[t.lane] = k /\ \A i \in Lanes : i # t.lane => lanes'[i] = lanes[i]
  BY <1>1, <1>2
<1>4. SameTokens
  BY <1>1, <1>3 DEF SameTokens
<1>5. Edits(t)
  BY <1>3, <1>4 DEF Edits
<1>6. Matches(t)'
  BY <1>1, <1>4 DEF Matches, SameTokens
<1> QED
  BY <1>3, <1>5, <1>6

\* The words of a lane, one of them or two stored.
LEMMA LaneWords ==
    ASSUME NEW k \in Words, NEW status \in Items, NEW p \in Payloads
    PROVE  /\ [k EXCEPT !.features = p, !.status = status] \in Words
           /\ [k EXCEPT !.features = p, !.status = status].slot = k.slot
           /\ [k EXCEPT !.features = p, !.status = status].gen = k.gen
           /\ [k EXCEPT !.features = p, !.status = status].status = status
           /\ [k EXCEPT !.features = p, !.status = status].features = p
           /\ [k EXCEPT !.scores = p] \in Words
           /\ [k EXCEPT !.scores = p].slot = k.slot /\ [k EXCEPT !.scores = p].gen = k.gen
           /\ [k EXCEPT !.scores = p].status = k.status /\ [k EXCEPT !.scores = p].scores = p
           /\ [k EXCEPT !.status = status] \in Words
           /\ [k EXCEPT !.status = status].slot = k.slot /\ [k EXCEPT !.status = status].gen = k.gen
           /\ [k EXCEPT !.status = status].status = status
           /\ [k EXCEPT !.status = status].features = k.features
           /\ [k EXCEPT !.status = status].scores = k.scores
BY DEF Words

\* The request of a true token is the one encoded.
LEMMA InputIsOwn ==
    ASSUME IInv, NEW t \in Tokens, Matches(t)
    PROVE  input[t.slot] = Own(t) /\ input[t.slot] \in Payloads /\ result[t.slot] \in Payloads
           /\ lanes[t.lane] \in Words /\ lanes[t.lane].status # "published"
<1>1. t.slot \in Slots /\ t.lane \in Lanes
  BY DEF Tokens
<1>2. slots[t.slot].st = "inflight" /\ slots[t.slot].gen = t.gen
  BY DEF Matches
<1>3. owner[t.slot] = "wait"
  BY <1>1, <1>2, Stages2 DEF IInv
<1>4. lanes[t.lane].status # "published"
  BY <1>1, <1>2 DEF IInv, InFlight, Matches
<1> QED
  BY <1>1, <1>2, <1>3, <1>4 DEF IInv, Requested, Own, Types

\* What is copied to the lane is the request that its token names.
LEMMA CopyInHolds == ASSUME IInv, NEW w \in Workers, CopyIn(w) PROVE IInv'
<1>1. worker[w].pc = "copyIn" /\ UNCHANGED <<slots, input, result, batch, owner, canceller, former>> /\ Types
  BY DEF CopyIn, IInv
<1>2. PICK t \in Tokens : t = worker[w].token
  BY <1>1, TokenTypes
<1>3. Matches(t)
  BY <1>1, <1>2 DEF IInv, Settled, Knows, Working
<1>4. PICK l \in Words : l = lanes[t.lane]
  BY <1>3, InputIsOwn
<1>5. PICK p \in Payloads : p = input[t.slot]
  BY <1>3, InputIsOwn
<1> DEFINE k == [l EXCEPT !.features = p, !.status = "prepared"]
<1>6. lanes' = [lanes EXCEPT ![t.lane] = k]
  BY <1>2, <1>4, <1>5 DEF CopyIn
<1>7. k \in Words /\ k.slot = l.slot /\ k.gen = l.gen /\ k.status = "prepared" /\ k.features = p
  BY DEF Words, Items
<1> HIDE DEF k
<1>8. Edits(t) /\ lanes' \in [Lanes -> Words] /\ lanes'[t.lane] = k /\ Matches(t)'
  BY <1>1, <1>3, <1>4, <1>6, <1>7, ItemStored
<1>9. PICK c \in Calls : worker' = [worker EXCEPT ![w] = c] /\ c.pc = "execute" /\ c.token = t
  BY <1>1, <1>2, MovesTo DEF CopyIn, Pcs
<1>10. p = Own(t)
  BY <1>3, <1>5, InputIsOwn
<1>11. Knows(c)' /\ Stages(c)'
  BY <1>7, <1>8, <1>9, <1>10 DEF Knows, Stages, Working, Own
<1>12. result' \in [Slots -> Payloads]
  BY <1>1 DEF Types
<1> QED
  BY <1>1, <1>2, <1>8, <1>9, <1>11, <1>12, Private DEF Busy

\* What the tensor computes is from that request.
LEMMA TensorHolds == ASSUME IInv, NEW w \in Workers, NEW ok \in BOOLEAN, Tensor(w, ok) PROVE IInv'
<1>1. worker[w].pc = "tensor" /\ UNCHANGED <<slots, input, result, batch, owner, canceller, former>> /\ Types
  BY DEF Tensor, IInv
<1>2. PICK t \in Tokens : t = worker[w].token
  BY <1>1, TokenTypes
<1>3. Matches(t) /\ lanes[t.lane].features = Own(t)
  BY <1>1, <1>2 DEF IInv, Settled, Knows, Stages, Working
<1>4. PICK l \in Words : l = lanes[t.lane]
  BY <1>3, InputIsOwn
<1>5. CASE ok
  <2>1. PICK p \in Payloads : p = l.features
    BY DEF Words
  <2> DEFINE k == [l EXCEPT !.scores = p]
  <2>2. lanes' = [lanes EXCEPT ![t.lane] = k]
    BY <1>2, <1>4, <1>5, <2>1 DEF Tensor, Types
  <2>3. k \in Words /\ k.slot = l.slot /\ k.gen = l.gen /\ k.status = l.status /\ k.scores = p
    <3>1. "prepared" \in Items
      BY DEF Items
    <3> QED
      BY ZenonT(60), <3>1, LaneWords
  <2> HIDE DEF k
  <2>4. l.status # "published"
    BY <1>3, <1>4, InputIsOwn
  <2>5. Edits(t) /\ lanes' \in [Lanes -> Words] /\ lanes'[t.lane] = k /\ Matches(t)'
    BY <1>1, <1>3, <1>4, <2>2, <2>3, <2>4, ItemStored
  <2>6. PICK c \in Calls : worker' = [worker EXCEPT ![w] = c] /\ c.pc = "computed" /\ c.token = t
    <3>1. Moves(w, "computed")
      BY <1>5 DEF Tensor
    <3> QED
      BY <1>1, <1>2, <3>1, MovesTo DEF Pcs
  <2>7. Knows(c)' /\ Stages(c)'
    BY <1>3, <1>4, <2>1, <2>3, <2>5, <2>6 DEF Knows, Stages, Working, Own
  <2>8. result' \in [Slots -> Payloads]
    BY <1>1 DEF Types
  <2> QED
    BY <1>1, <1>2, <2>5, <2>6, <2>7, <2>8, Private DEF Busy
<1>6. CASE ~ok
  <2>1. lanes' = lanes /\ Moves(w, "failed")
    BY <1>6 DEF Tensor
  <2>2. PICK c \in Calls : worker' = [worker EXCEPT ![w] = c] /\ c.pc = "failed" /\ c.token = t
    BY <1>1, <1>2, <2>1, MovesTo DEF Pcs
  <2>3. Knows(c) /\ Stages(c)
    BY <1>3, <2>2 DEF Knows, Stages, Working
  <2> QED
    BY <1>1, <1>2, <2>1, <2>2, <2>3, PrivateStill DEF Busy
<1> QED
  BY <1>5, <1>6

\* The status is stored by the worker that has the item alone.
LEMMA MarkHolds == ASSUME IInv, NEW w \in Workers, Mark(w) PROVE IInv'
<1>1. worker[w].pc = "mark" /\ UNCHANGED <<slots, input, result, batch, owner, canceller, former>> /\ Types
  BY DEF Mark, IInv
<1>2. PICK t \in Tokens : t = worker[w].token
  BY <1>1, TokenTypes
<1>3. PICK d \in Calls : d = worker[w]
  BY <1>1, TokenTypes
<1>4. Knows(d) /\ Stages(d) /\ d.pc = "mark" /\ d.token = t
  BY <1>1, <1>2, <1>3 DEF IInv, Settled
<1>5. Matches(t) /\ d.item \in {"computed", "scattered", "failed", "cancelled"} /\ d.next \in {"publish", "scatter", "retry", "claim"}
  BY <1>4 DEF Knows, Working, Calls
<1>6. PICK l \in Words : l = lanes[t.lane]
  BY <1>5, InputIsOwn
<1>7. PICK item \in Items : item = d.item
  BY DEF Calls
<1> DEFINE k == [l EXCEPT !.status = item]
<1>8. lanes' = [lanes EXCEPT ![t.lane] = k]
  BY <1>1, <1>2, <1>3, <1>6, <1>7 DEF Mark, Types
<1>9. k \in Words /\ k.slot = l.slot /\ k.gen = l.gen /\ k.status = item /\ k.features = l.features /\ k.scores = l.scores
  <2>1. l.features \in Payloads
    BY DEF Words
  <2> QED
    BY <2>1, LaneWords
<1> HIDE DEF k
<1>10. Edits(t) /\ lanes' \in [Lanes -> Words] /\ lanes'[t.lane] = k /\ Matches(t)'
  <2>1. k.status # "published"
    BY <1>5, <1>7, <1>9
  <2> QED
    BY <1>1, <1>5, <1>6, <1>8, <1>9, <2>1, ItemStored
<1>11. PICK next \in {"publish", "scatter", "retry", "claim"} : next = d.next
  BY <1>5
<1> DEFINE c == [d EXCEPT !.pc = next, !.next = "idle"]
<1>12. worker' = [worker EXCEPT ![w] = c]
  BY <1>3, <1>11 DEF Mark
<1>13. c \in Calls /\ c.pc = next /\ c.token = t /\ c.item = d.item
  BY <1>4 DEF Calls, Pcs
<1> HIDE DEF c
<1>14. Knows(c)'
  BY <1>4, <1>5, <1>7, <1>9, <1>10, <1>11, <1>13 DEF Knows, Working
<1>15. Stages(c)'
  BY <1>1, <1>4, <1>5, <1>6, <1>7, <1>9, <1>10, <1>11, <1>13 DEF Knows, Stages, Own
<1>16. result' \in [Slots -> Payloads]
  BY <1>1 DEF Types
<1> QED
  BY <1>1, <1>2, <1>10, <1>12, <1>13, <1>14, <1>15, <1>16, Private DEF Busy

\* What is copied to the slot is what was computed from its own request.
LEMMA CopyOutHolds == ASSUME IInv, NEW w \in Workers, CopyOut(w) PROVE IInv'
<1>1. worker[w].pc = "copyOut" /\ UNCHANGED <<slots, input, batch, lanes, owner, canceller, former>> /\ Types
  BY DEF CopyOut, IInv
<1>2. PICK t \in Tokens : t = worker[w].token
  BY <1>1, TokenTypes
<1>3. Matches(t) /\ lanes[t.lane].scores = Own(t) /\ t.slot \in Slots /\ t.lane \in Lanes
  BY <1>1, <1>2 DEF IInv, Settled, Knows, Stages, Working, Tokens
<1>4. result' = [result EXCEPT ![t.slot] = lanes[t.lane].scores] /\ lanes[t.lane].scores \in Payloads
  BY <1>1, <1>2, <1>3 DEF CopyOut, Types, Words
<1>5. result' \in [Slots -> Payloads] /\ result'[t.slot] = Own(t) /\ \A s \in Slots : s # t.slot => result'[s] = result[s]
  BY <1>1, <1>3, <1>4 DEF Types
<1>6. Edits(t)
  BY <1>1, <1>3, <1>5, InputIsOwn DEF Edits, SameTokens
<1>7. PICK c \in Calls : worker' = [worker EXCEPT ![w] = c] /\ c.pc = "scattered" /\ c.token = t
  BY <1>1, <1>2, MovesTo DEF CopyOut, Pcs
<1>8. Matches(t)'
  BY <1>1, <1>3 DEF Matches
<1>9. Knows(c)' /\ Stages(c)'
  BY <1>5, <1>7, <1>8 DEF Knows, Stages, Working, Own
<1>10. lanes' \in [Lanes -> Words]
  BY <1>1 DEF Types
<1> QED
  BY <1>1, <1>2, <1>5, <1>6, <1>7, <1>9, <1>10, Private DEF Busy

\* retryItem, up to the slot: only who failed the item takes it.
LEMMA RetryHolds == ASSUME IInv, NEW w \in Workers, Retry(w) PROVE IInv'
<1>1. worker[w].pc = "retry" /\ UNCHANGED <<slots, input, result, batch, owner, canceller, former>> /\ Types
  BY DEF Retry, IInv
<1>2. PICK t \in Tokens : t = worker[w].token
  BY <1>1, TokenTypes
<1>3. Matches(t)
  BY <1>1, <1>2 DEF IInv, Settled, Knows, Working
<1>4. CASE slots[t.slot].cancel
  <2>1. lanes' = lanes /\ Marks(w, "cancelled", "publish")
    BY <1>2, <1>3, <1>4 DEF Retry
  <2>2. PICK c \in Calls : worker' = [worker EXCEPT ![w] = c] /\ c.pc = "mark" /\ c.token = t
                           /\ c.item = "cancelled" /\ c.next = "publish"
    BY <1>1, <1>2, <2>1, MarksTo DEF Items
  <2>3. Knows(c) /\ Stages(c)
    BY <1>3, <2>2 DEF Knows, Stages, Working
  <2> QED
    BY <1>1, <1>2, <2>1, <2>2, <2>3, PrivateStill DEF Busy
<1>5. CASE ~slots[t.slot].cancel /\ lanes[t.lane].status # "failed"
  <2>1. lanes' = lanes /\ Moves(w, "idle")
    BY <1>2, <1>3, <1>5 DEF Retry
  <2> QED
    BY <1>1, <2>1, StopHolds DEF Busy
<1>6. CASE ~slots[t.slot].cancel /\ lanes[t.lane].status = "failed"
  <2>1. PICK l \in Words : l = lanes[t.lane]
    BY <1>3, InputIsOwn
  <2>2. PICK d \in Calls : d = worker[w]
    BY <1>1, TokenTypes
  <2> DEFINE k == [l EXCEPT !.status = "retrying"]
             c == [d EXCEPT !.pc = "retake", !.item = "retrying"]
  <2>3. lanes' = [lanes EXCEPT ![t.lane] = k] /\ worker' = [worker EXCEPT ![w] = c]
    BY <1>1, <1>2, <1>3, <1>6, <2>1, <2>2 DEF Retry, Types
  <2>4. k \in Words /\ k.slot = l.slot /\ k.gen = l.gen /\ k.status = "retrying"
    <3>1. l.features \in Payloads /\ "retrying" \in Items
      BY DEF Words, Items
    <3> QED
      BY <3>1, LaneWords
  <2>5. c \in Calls /\ c.pc = "retake" /\ c.item = "retrying" /\ c.token = d.token
    BY DEF Calls, Pcs, Items
  <2> HIDE DEF k, c
  <2>6. Edits(t) /\ lanes' \in [Lanes -> Words] /\ lanes'[t.lane] = k /\ Matches(t)'
    BY <1>1, <1>3, <2>1, <2>3, <2>4, ItemStored
  <2>7. c.token = t
    BY <1>2, <2>2, <2>5
  <2>8. Knows(c)' /\ Stages(c)'
    BY <2>4, <2>5, <2>6, <2>7 DEF Knows, Stages, Working
  <2>9. result' \in [Slots -> Payloads]
    BY <1>1 DEF Types
  <2> QED
    BY <1>1, <1>2, <2>3, <2>5, <2>6, <2>7, <2>8, <2>9, Private DEF Busy
<1> QED
  BY <1>4, <1>5, <1>6

-----------------------------------------------------------------------------
(* The steps of a worker that move a request's slot.                       *)

\* The terminal state is released by the one who publishes; none is stale.
LEMMA ReleaseHolds == ASSUME IInv, NEW w \in Workers, Release(w) PROVE IInv'
<1>1. worker[w].pc = "finished" /\ UNCHANGED <<input, result, batch, lanes, owner, canceller, former>> /\ Types
  BY TokenTypes DEF Release, IInv, Calls, Pcs
<1>2. PICK t \in Tokens : t = worker[w].token
  BY <1>1, TokenTypes
<1>3. t.slot \in Slots
  BY DEF Tokens
<1>4. Publisher(w) /\ worker[w].item \in {"scattered", "failed", "cancelled"}
  BY <1>1 DEF IInv, Settled, Knows, Publisher
<1>5. slots[t.slot].st = "publishing" /\ slots[t.slot].gen = t.gen /\ canceller[t.slot].pc # "store"
  BY <1>2, <1>4 DEF IInv, Taken
<1>6. PICK st \in {"ready", "failed", "cancelled"} :
          slots' = [slots EXCEPT ![t.slot].st = st] /\ (st = "ready" => worker[w].item = "scattered")
  BY <1>1, <1>2, <1>4 DEF Release, Outcome
<1>7. /\ \A x \in Slots : x # t.slot => slots'[x] = slots[x]
      /\ slots'[t.slot].st = st /\ slots'[t.slot].gen = slots[t.slot].gen /\ slots' \in [Slots -> Records]
  <2>1. PICK q \in Records : q = slots[t.slot]
    BY <1>1, <1>3 DEF Types
  <2> DEFINE r == [q EXCEPT !.st = st]
  <2>2. slots' = [slots EXCEPT ![t.slot] = r]
    BY <1>1, <1>6, <2>1 DEF Types
  <2>3. r \in Records /\ r.st = st /\ r.gen = q.gen
    BY DEF Records, States
  <2> HIDE DEF r
  <2> QED
    BY <1>1, <1>3, <2>1, <2>2, <2>3 DEF Types
<1>8. worker' = [worker EXCEPT ![w] = Rest] /\ Rest \in Calls /\ Rest.pc = "idle"
  BY MovesIdle, RestIsCall DEF Release
<1>9. worker'[w].pc = "idle" /\ \A v \in Workers : v # w => worker'[v] = worker[v]
  BY <1>1, <1>8 DEF Types
<1>10. Types'
  BY <1>1, <1>7, <1>8 DEF Types
<1>11. SameFlight
  BY <1>5, <1>7 DEF SameFlight
<1>12. Framed(w)
  BY <1>1, <1>9, <1>11 DEF Framed
<1>13. Forming' /\ InFlight' /\ Held' /\ Open' /\ Accounted'
  BY <1>12, FramedBatch
<1>14. Settled'
  <2>1. Knows(worker[w])' /\ Stages(worker[w])'
    BY <1>9 DEF Knows, Stages, Working
  <2> QED
    BY <1>12, <2>1, FramedOthers DEF Settled
<1>15. Requested'
  <2>1. owner[t.slot] = "wait"
    BY <1>3, <1>5, Stages2 DEF IInv
  <2>2. Stage(owner[t.slot], slots'[t.slot].st)
    BY <1>7, <2>1 DEF Stage
  <2> QED
    BY <1>1, <1>5, <1>7, <2>2 DEF IInv, Requested
<1>16. Taken'
  <2>1. \A v \in Workers : v # w /\ Publisher(v) => worker[v].token.slot # t.slot
    BY <1>2, <1>4 DEF IInv, Taken
  <2>2. \A v \in Workers : worker[v].pc = "requeue" => worker[v].token.slot # t.slot
    BY <1>5 DEF IInv, Taken
  <2>3. ~Publisher(w)' /\ worker'[w].pc # "requeue"
    BY <1>9 DEF Publisher
  <2>4. \A v \in Workers : v # w => (Publisher(v)' <=> Publisher(v))
    BY <1>9 DEF Publisher
  <2>5. \A v \in Workers : worker[v].token.slot \in Slots
    BY <1>1, TokenTypes
  <2> QED
    BY <1>1, <1>7, <1>9, <2>1, <2>2, <2>3, <2>4, <2>5 DEF IInv, Taken
<1>17. ReadyIsOwn'
  <2>1. st = "ready" => result[t.slot] = Own(t)
    BY <1>1, <1>2, <1>6 DEF IInv, Settled, Stages
  <2> QED
    BY <1>1, <1>5, <1>7, <2>1 DEF IInv, ReadyIsOwn, Own
<1> QED
  BY <1>10, <1>13, <1>14, <1>15, <1>16, <1>17 DEF IInv

\* The request goes back to the queue from the hand that took it.
LEMMA RequeueHolds == ASSUME IInv, NEW w \in Workers, Requeue(w) PROVE IInv'
<1>1. worker[w].pc = "requeue" /\ UNCHANGED <<input, result, batch, lanes, owner, canceller, former>> /\ Types
  BY DEF Requeue, IInv
<1>2. PICK t \in Tokens : t = worker[w].token
  BY <1>1, TokenTypes
<1>3. t.slot \in Slots
  BY DEF Tokens
<1>4. slots[t.slot].st = "claimed" /\ owner[t.slot] = "wait"
  BY <1>1, <1>2 DEF IInv, Taken
<1>5. /\ \A x \in Slots : x # t.slot => slots'[x] = slots[x]
      /\ slots'[t.slot].st = "queued" /\ slots'[t.slot].gen = slots[t.slot].gen /\ slots' \in [Slots -> Records]
  <2>1. PICK q \in Records : q = slots[t.slot]
    BY <1>1, <1>3 DEF Types
  <2> DEFINE r == [q EXCEPT !.st = "queued"]
  <2>2. slots' = [slots EXCEPT ![t.slot] = r]
    BY <1>1, <1>2, <2>1 DEF Requeue, Types
  <2>3. r \in Records /\ r.st = "queued" /\ r.gen = q.gen
    BY DEF Records, States
  <2> HIDE DEF r
  <2> QED
    BY <1>1, <1>3, <2>1, <2>2, <2>3 DEF Types
<1>6. PICK c \in Calls : worker' = [worker EXCEPT ![w] = c] /\ c.pc = "finish" /\ c.token = t /\ c.item = worker[w].item
  BY <1>1, <1>2, MovesTo DEF Requeue, Pcs
<1>7. worker'[w] = c /\ \A v \in Workers : v # w => worker'[v] = worker[v]
  BY <1>1, <1>6 DEF Types
<1>8. Types'
  BY <1>1, <1>5, <1>6 DEF Types
<1>9. SameFlight
  BY <1>4, <1>5 DEF SameFlight
<1>10. Framed(w)
  BY <1>1, <1>2, <1>6, <1>7, <1>9 DEF Framed
<1>11. Forming' /\ InFlight' /\ Held' /\ Open' /\ Accounted'
  BY <1>10, FramedBatch
<1>12. c.item = "retrying" /\ lanes[t.lane].status = "retrying" /\ Present(t)
  BY <1>1, <1>2, <1>6 DEF IInv, Settled, Knows
<1>13. Settled'
  <2>1. ~Matches(t)' /\ Present(t)'
    BY <1>1, <1>5, <1>12 DEF Matches, Present
  <2>2. Knows(c)' /\ Stages(c)'
    BY <1>1, <1>6, <1>12, <2>1 DEF Knows, Stages, Working
  <2>3. Knows(worker[w])' /\ Stages(worker[w])'
    BY <1>7, <2>2 DEF Knows, Stages
  <2> QED
    BY <1>10, <2>3, FramedOthers DEF Settled
<1>14. Requested'
  <2>1. Stage(owner[t.slot], slots'[t.slot].st) /\ canceller[t.slot].pc # "store"
    BY <1>3, <1>4, <1>5 DEF IInv, Requested, Stage
  <2> QED
    BY <1>1, <1>4, <1>5, <2>1 DEF IInv, Requested
<1>15. Taken'
  <2>1. \A v \in Workers : v # w /\ worker[v].pc = "requeue" => worker[v].token.slot # t.slot
    BY <1>1, <1>2 DEF IInv, Taken
  <2>2. \A v \in Workers : Publisher(v) => worker[v].token.slot # t.slot
    BY <1>4 DEF IInv, Taken
  <2>3. ~Publisher(w)' /\ worker'[w].pc # "requeue"
    BY <1>6, <1>7, <1>12 DEF Publisher
  <2>4. \A v \in Workers : v # w => (Publisher(v)' <=> Publisher(v))
    BY <1>7 DEF Publisher
  <2>5. \A v \in Workers : worker[v].token.slot \in Slots
    BY <1>1, TokenTypes
  <2> QED
    BY <1>1, <1>5, <1>7, <2>1, <2>2, <2>3, <2>4, <2>5 DEF IInv, Taken
<1>16. ReadyIsOwn'
  BY <1>1, <1>5 DEF IInv, ReadyIsOwn
<1> QED
  BY <1>8, <1>11, <1>13, <1>14, <1>15, <1>16 DEF IInv

\* The request of a true token leaves the flight, into the hand of its worker.
LEMMA TakesSlot ==
    ASSUME IInv, NEW w \in Workers, NEW t \in Tokens, t = worker[w].token, Matches(t),
           NEW c \in Calls, worker' = [worker EXCEPT ![w] = c], c.token = t, c.item = worker[w].item,
           NEW st, slots' = [slots EXCEPT ![t.slot].st = st],
           \/ worker[w].pc = "claim" /\ c.pc = "finish" /\ st = "publishing"
           \/ worker[w].pc = "retake" /\ c.pc = "requeue" /\ st = "claimed",
           UNCHANGED <<input, result, batch, lanes, owner, canceller, former>>
    PROVE  IInv'
<1>1. Types /\ t.slot \in Slots /\ t.lane \in Lanes
  BY DEF IInv, Tokens
<1>2. slots[t.slot].st = "inflight" /\ slots[t.slot].gen = t.gen /\ slots[t.slot].item = t.lane
  BY DEF Matches
<1>3. /\ \A x \in Slots : x # t.slot => slots'[x] = slots[x]
      /\ slots'[t.slot].st = st /\ slots'[t.slot].gen = slots[t.slot].gen /\ slots' \in [Slots -> Records]
  <2>1. PICK q \in Records : q = slots[t.slot]
    BY <1>1 DEF Types
  <2>2. PICK z \in States : z = st
    BY DEF States
  <2> DEFINE r == [q EXCEPT !.st = z]
  <2>3. slots' = [slots EXCEPT ![t.slot] = r]
    BY <1>1, <2>1, <2>2 DEF Types
  <2>4. r \in Records /\ r.st = z /\ r.gen = q.gen
    BY DEF Records
  <2> HIDE DEF r
  <2> QED
    BY <1>1, <2>1, <2>2, <2>3, <2>4 DEF Types
<1>4. worker'[w] = c /\ \A v \in Workers : v # w => worker'[v] = worker[v]
  BY <1>1 DEF Types
<1>5. Types'
  BY <1>1, <1>3 DEF Types
<1>6. st \in {"publishing", "claimed"} /\ ~Matches(t)'
  BY <1>3 DEF Matches
<1>7. \A u \in Tokens : u # t => (Matches(u)' <=> Matches(u))
  <2> SUFFICES ASSUME NEW u \in Tokens, u # t PROVE Matches(u)' <=> Matches(u)
    OBVIOUS
  <2>1. CASE u.slot = t.slot
    <3>1. ~Matches(u)
      BY <2>1, OneToken
    <3>2. ~Matches(u)'
      BY <1>3, <1>6, <2>1 DEF Matches
    <3> QED
      BY <3>1, <3>2
  <2>2. CASE u.slot # t.slot
    <3>1. u.slot \in Slots
      BY DEF Tokens
    <3> QED
      BY <1>3, <2>2, <3>1 DEF Matches
  <2> QED
    BY <2>1, <2>2
<1>8. t = TokenOf(t.lane) /\ Present(t) /\ t.lane < batch.occupancy /\ batch.st = "ready"
  BY MatchesIs DEF Present
<1>9. Settled'
  <2>1. Knows(worker[w])
    BY DEF IInv, Settled
  <2>2. /\ lanes[t.lane].status = c.item
        /\ c.pc = "finish" => c.item \in {"scattered", "failed", "cancelled"}
        /\ c.pc = "requeue" => c.item = "retrying"
    BY <2>1 DEF Knows
  <2>3. Present(t)'
    BY <1>8 DEF Present
  <2>4. Knows(c)'
    BY <1>6, <2>2, <2>3 DEF Knows, Working
  <2>5. c.pc = "finish" /\ c.item = "scattered" => result[t.slot] = Own(t)
    BY DEF IInv, Settled, Stages
  <2>6. Stages(c)'
    BY <2>5 DEF Stages, Own
  <2>7. ASSUME NEW v \in Workers, v # w PROVE Knows(worker[v])' /\ Stages(worker[v])'
    <3>1. PICK k \in Calls : k = worker[v]
      BY <1>1, TokenTypes
    <3>2. Knows(k) /\ Stages(k) /\ k.token \in Tokens
      BY <3>1 DEF IInv, Settled, Calls
    <3>3. k.pc # "idle" => k.token # t
      BY <2>7, <3>1 DEF IInv, Held
    <3>4. Knows(k)' /\ Stages(k)'
      <4>1. CASE k.pc = "idle"
        BY <4>1 DEF Knows, Stages, Working
      <4>2. CASE k.pc # "idle"
        <5>1. Matches(k.token)' <=> Matches(k.token)
          BY <1>7, <3>2, <3>3, <4>2
        <5>2. (Present(k.token)' <=> Present(k.token)) /\ (Lapsed(k.token) => Lapsed(k.token)')
          BY DEF Present, Lapsed
        <5> QED
          BY <3>2, <5>1, <5>2, Undisturbed
      <4> QED
        BY <4>1, <4>2
    <3>5. worker'[v] = k
      BY <1>4, <2>7, <3>1
    <3> QED
      BY SMTT(30), <3>4, <3>5 DEF Knows, Stages
  <2>8. Knows(worker[w])' /\ Stages(worker[w])'
    BY <1>4, <2>4, <2>6 DEF Knows, Stages
  <2> QED
    BY <2>7, <2>8 DEF Settled
<1>10. Requested'
  <2>1. owner[t.slot] = "wait" /\ canceller[t.slot].pc # "store"
    BY <1>1, <1>2, Stages2 DEF IInv, Requested
  <2>2. Stage(owner[t.slot], slots'[t.slot].st)
    BY <1>3, <1>6, <2>1 DEF Stage
  <2> QED
    BY SMTT(30), <1>3, <2>1, <2>2 DEF IInv, Requested
<1>11. Taken'
  <2>1. \A v \in Workers : /\ Publisher(v) => worker[v].token.slot # t.slot
                           /\ worker[v].pc = "requeue" => worker[v].token.slot # t.slot
    BY <1>2 DEF IInv, Taken
  <2>2. \A v \in Workers : v # w => (Publisher(v)' <=> Publisher(v))
    BY <1>4 DEF Publisher
  <2>3. Publisher(w)' => c.pc = "finish" /\ st = "publishing"
    BY <1>4 DEF Publisher
  <2>4. worker'[w].pc = "requeue" => st = "claimed" /\ owner[t.slot] = "wait"
    BY <1>1, <1>2, <1>4, Stages2 DEF IInv
  <2>5. \A v \in Workers : worker[v].token.slot \in Slots
    BY <1>1, TokenTypes
  <2>6. canceller[t.slot].pc # "store"
    BY <1>1, <1>2 DEF IInv, Requested
  <2>7. worker'[w].token = worker[w].token /\ (~Publisher(w)' \/ worker'[w].pc # "requeue")
    BY <1>4 DEF Publisher
  <2>8. ASSUME NEW v \in Workers, Publisher(v)'
        PROVE  LET s == worker'[v].token.slot
               IN  slots'[s].st = "publishing" /\ slots'[s].gen = worker'[v].token.gen /\ canceller'[s].pc # "store"
    <3>1. CASE v = w
      BY SMTT(30), <1>2, <1>3, <2>3, <2>6, <2>7, <2>8, <3>1
    <3>2. CASE v # w
      <4>1. Publisher(v) /\ worker'[v] = worker[v] /\ worker[v].token.slot # t.slot /\ worker[v].token.slot \in Slots
        BY <1>4, <2>1, <2>2, <2>5, <2>8, <3>2
      <4> QED
        BY SMTT(30), <1>3, <4>1 DEF IInv, Taken
    <3> QED
      BY <3>1, <3>2
  <2>9. ASSUME NEW v \in Workers, worker'[v].pc = "requeue"
        PROVE  slots'[worker'[v].token.slot].st = "claimed" /\ owner'[worker'[v].token.slot] = "wait"
    <3>1. CASE v = w
      BY <1>3, <2>4, <2>7, <2>9, <3>1
    <3>2. CASE v # w
      <4>1. worker[v].pc = "requeue" /\ worker'[v] = worker[v] /\ worker[v].token.slot # t.slot /\ worker[v].token.slot \in Slots
        BY <1>4, <2>1, <2>5, <2>9, <3>2
      <4> QED
        BY SMTT(30), <1>3, <4>1 DEF IInv, Taken
    <3> QED
      BY <3>1, <3>2
  <2>10. \A v, u \in Workers : Publisher(v)' /\ Publisher(u)' /\ worker'[v].token.slot = worker'[u].token.slot => v = u
    BY <1>4, <2>1, <2>2, <2>7 DEF IInv, Taken
  <2>11. \A v, u \in Workers : worker'[v].pc = "requeue" /\ worker'[u].pc = "requeue"
                               /\ worker'[v].token.slot = worker'[u].token.slot => v = u
    BY <1>4, <2>1, <2>7 DEF IInv, Taken
  <2> QED
    BY <2>8, <2>9, <2>10, <2>11 DEF Taken
<1>12. Forming'
  BY <1>8 DEF IInv, Forming
<1>13. InFlight'
  BY <1>3, <1>6 DEF IInv, InFlight
<1>14. Held'
  <2>1. \A v \in Workers : worker'[v].token = worker[v].token /\ (worker'[v].pc # "idle" => worker[v].pc # "idle")
    BY <1>4
  <2> QED
    BY SMTT(30), <2>1 DEF IInv, Held, TokenOf
<1>15. Open'
  <2> SUFFICES ASSUME batch'.st = "ready", NEW i \in Lanes, i < batch'.occupancy, lanes'[i].status # "published"
               PROVE  Placed(i, batch.gen)' \/ \E v \in Workers : Finishing(v)' /\ worker'[v].token = TokenOf(i)'
    BY DEF Open
  <2>1. TokenOf(i)' = TokenOf(i) /\ lanes[i].slot \in Slots
    BY <1>1, WordTypes DEF TokenOf, Words
  <2>2. CASE i = t.lane
    BY <1>4, <1>8, <2>1, <2>2 DEF Finishing
  <2>3. CASE i # t.lane
    <3>1. Placed(i, batch.gen) => Placed(i, batch.gen)'
      BY <1>2, <1>3, <2>1, <2>3 DEF Placed
    <3>2. \A v \in Workers : Finishing(v) => v # w
      BY DEF Finishing
    <3>3. Placed(i, batch.gen) \/ \E v \in Workers : Finishing(v) /\ worker[v].token = TokenOf(i)
      BY DEF IInv, Open
    <3> QED
      BY <1>4, <2>1, <3>1, <3>2, <3>3 DEF Finishing
  <2> QED
    BY <2>2, <2>3
<1>16. Accounted'
  <2>1. At("count")' = At("count") /\ Published' = Published
    BY <1>4 DEF At, Published
  <2>2. \A v \in Workers : worker'[v] = worker[v] \/ Uncounted(v)
    BY <1>4 DEF Uncounted
  <2> QED
    BY <2>1, <2>2, AccountedStill DEF IInv
<1>17. ReadyIsOwn'
  BY <1>3, <1>6 DEF IInv, ReadyIsOwn
<1> QED
  BY <1>5, <1>9, <1>10, <1>11, <1>12, <1>13, <1>14, <1>15, <1>16, <1>17 DEF IInv

\* publishItem and retryItem take the slot; who does is the only one.
LEMMA TakeHolds == ASSUME IInv, NEW w \in Workers, PublishClaim(w) \/ RetryTake(w) PROVE IInv'
<1>1. UNCHANGED <<input, result, batch, lanes, owner, canceller, former>> /\ Types /\ worker[w].pc \in {"claim", "retake"}
  BY DEF PublishClaim, RetryTake, IInv
<1>2. PICK t \in Tokens : t = worker[w].token
  BY <1>1, TokenTypes
<1>3. Matches(t) /\ slots[t.slot].st = "inflight"
  BY <1>1, <1>2 DEF IInv, Settled, Knows, Working, Matches
<1>4. CASE PublishClaim(w)
  <2>1. slots' = [slots EXCEPT ![t.slot].st = "publishing"] /\ Moves(w, "finish") /\ worker[w].pc = "claim"
    BY <1>2, <1>3, <1>4 DEF PublishClaim
  <2>2. PICK c \in Calls : worker' = [worker EXCEPT ![w] = c] /\ c.pc = "finish" /\ c.token = t /\ c.item = worker[w].item
    BY <1>1, <1>2, <2>1, MovesTo DEF Pcs
  <2> QED
    BY <1>1, <1>2, <1>3, <2>1, <2>2, TakesSlot
<1>5. CASE RetryTake(w)
  <2>1. slots' = [slots EXCEPT ![t.slot].st = "claimed"] /\ Moves(w, "requeue") /\ worker[w].pc = "retake"
    BY <1>2, <1>3, <1>5 DEF RetryTake
  <2>2. PICK c \in Calls : worker' = [worker EXCEPT ![w] = c] /\ c.pc = "requeue" /\ c.token = t /\ c.item = worker[w].item
    BY <1>1, <1>2, <2>1, MovesTo DEF Pcs
  <2> QED
    BY <1>1, <1>2, <1>3, <2>1, <2>2, TakesSlot
<1> QED
  BY <1>4, <1>5

-----------------------------------------------------------------------------
(* The count of the batch.                                                 *)

\* The published items are some of those the batch has.
LEMMA Counting ==
    ASSUME Types, Accounted
    PROVE  /\ batch.occupancy \in Nat /\ batch.occupancy <= ItemCapacity /\ batch.completed \in Nat
           /\ IsFiniteSet(Published) /\ Cardinality(Published) \in Nat /\ Cardinality(Published) <= batch.occupancy
           /\ Cardinality(Published) = batch.occupancy => Published = 0 .. batch.occupancy - 1
           /\ IsFiniteSet(At("count")) /\ Cardinality(At("count")) \in Nat
<1>1. batch.occupancy \in Nat /\ batch.occupancy <= ItemCapacity /\ batch.completed \in Nat
  BY SizesAre DEF Types
<1> DEFINE S == 0 .. batch.occupancy - 1
<1>2. IsFiniteSet(S) /\ Cardinality(S) = batch.occupancy
  <2>1. PICK n \in Int : n = batch.occupancy - 1
    BY <1>1
  <2>2. IsFiniteSet(0 .. n) /\ Cardinality(0 .. n) = IF 0 > n THEN 0 ELSE n - 0 + 1
    BY FS_Interval
  <2>3. (IF 0 > n THEN 0 ELSE n - 0 + 1) = batch.occupancy
    BY <1>1, <2>1
  <2> QED
    BY <2>1, <2>2, <2>3
<1>3. Published \in SUBSET S
  BY <1>1 DEF Published, Lanes
<1>4. IsFiniteSet(Published) /\ Cardinality(Published) <= batch.occupancy
      /\ (Cardinality(Published) = batch.occupancy => Published = S)
  BY <1>2, <1>3, FS_Subset
<1>5. Cardinality(Published) \in Nat
  BY <1>4, FS_CardinalityType
<1>6. IsFiniteSet(At("count")) /\ Cardinality(At("count")) \in Nat
  BY FS_CardinalityType DEF Accounted
<1> QED
  BY <1>1, <1>4, <1>5, <1>6

\* While an item is being counted, the batch is not all counted.
LEMMA CountingLeft ==
    ASSUME Types, Accounted, batch.st = "ready", NEW w \in At("count")
    PROVE  batch.completed < batch.occupancy
<1>1. Cardinality(At("count")) # 0
  BY Counting, FS_EmptySet
<1> QED
  BY <1>1, Counting DEF Accounted

\* When they are all counted, they are all published and no one is to count.
LEMMA AllCounted ==
    ASSUME Types, Accounted, batch.st = "ready", batch.completed = batch.occupancy
    PROVE  At("count") = {} /\ \A i \in Lanes : i < batch.occupancy => lanes[i].status = "published"
<1>1. Cardinality(Published) = batch.completed + Cardinality(At("count"))
  BY DEF Accounted
<1>2. Cardinality(At("count")) = 0 /\ Cardinality(Published) = batch.occupancy
  BY <1>1, Counting
<1>3. At("count") = {} /\ Published = 0 .. batch.occupancy - 1
  BY <1>2, Counting, FS_EmptySet
<1> QED
  BY <1>3, Counting DEF Published, Lanes

\* The slots are as they were, and so is who has one in hand.
LEMMA Handover ==
    ASSUME IInv, NEW w \in Workers, NEW c \in Calls, worker' = [worker EXCEPT ![w] = c],
           UNCHANGED <<slots, input, result, owner, canceller>>, c.pc # "requeue",
           c.pc \in Busy => c.token = worker[w].token /\ worker[w].pc \in Busy \ {"requeue"} /\ c.item = worker[w].item
    PROVE  Requested' /\ Taken' /\ ReadyIsOwn'
<1>1. worker'[w] = c /\ \A v \in Workers : v # w => worker'[v] = worker[v]
  BY DEF IInv, Types
<1>2. \A v \in Workers : Publisher(v)' => Publisher(v) /\ worker'[v].token = worker[v].token
  BY <1>1 DEF Publisher, Busy
<1>3. \A v \in Workers : worker'[v].pc = "requeue" => worker[v].pc = "requeue" /\ worker'[v].token = worker[v].token
  BY <1>1
<1>4. Taken'
  BY <1>2, <1>3 DEF IInv, Taken
<1> QED
  BY <1>4 DEF IInv, Requested, ReadyIsOwn

\* finishBatchItem publishes the item of the batch it belongs to.
LEMMA FinishHolds == ASSUME IInv, NEW w \in Workers, Finish(w) PROVE IInv'
<1>1. worker[w].pc = "finish" /\ UNCHANGED <<slots, input, result, batch, owner, canceller, former>> /\ Types
  BY DEF Finish, IInv
<1>2. PICK t \in Tokens : t = worker[w].token
  BY <1>1, TokenTypes
<1>3. Present(t) /\ ~Matches(t) /\ lanes[t.lane].status = worker[w].item /\ t.lane \in Lanes
      /\ worker[w].item \in {"scattered", "failed", "cancelled", "retrying"}
  BY <1>1, <1>2 DEF IInv, Settled, Knows, Tokens
<1>4. t = TokenOf(t.lane) /\ t.lane < batch.occupancy
  BY <1>1, <1>2, <1>3 DEF IInv, Held, Present
<1>5. lanes' = [lanes EXCEPT ![t.lane].status = "published"] /\ Moves(w, "count")
  BY <1>1, <1>2, <1>3 DEF Finish, Present
<1>6. /\ \A i \in Lanes : i # t.lane => lanes'[i] = lanes[i]
      /\ lanes'[t.lane].status = "published" /\ lanes' \in [Lanes -> Words] /\ SameTokens
  <2>1. PICK l \in Words : l = lanes[t.lane]
    BY <1>1, <1>3 DEF Types
  <2> DEFINE k == [l EXCEPT !.status = "published"]
  <2>2. lanes' = [lanes EXCEPT ![t.lane] = k]
    BY <1>1, <1>5, <2>1 DEF Types
  <2>3. k \in Words /\ k.slot = l.slot /\ k.gen = l.gen /\ k.status = "published"
    BY DEF Words, Items
  <2> HIDE DEF k
  <2> QED
    BY <1>1, <1>3, <2>1, <2>2, <2>3 DEF Types, SameTokens
<1>7. PICK c \in Calls : worker' = [worker EXCEPT ![w] = c] /\ c.pc = "count" /\ c.token = t /\ c.item = worker[w].item
  BY <1>1, <1>2, <1>5, MovesTo DEF Pcs
<1>8. worker'[w] = c /\ \A v \in Workers : v # w => worker'[v] = worker[v]
  BY <1>1, <1>7 DEF Types
<1>9. Types'
  BY <1>1, <1>6, <1>7 DEF Types
<1>10. Requested' /\ Taken' /\ ReadyIsOwn'
  BY <1>1, <1>2, <1>7, Handover DEF Busy
<1>11. Settled'
  <2>1. Knows(c)' /\ Stages(c)'
    <3>1. c.item = "scattered" => result[t.slot] = Own(t)
      BY <1>1, <1>2, <1>7 DEF IInv, Settled, Stages
    <3>2. Present(t)'
      BY <1>1, <1>3 DEF Present
    <3> QED
      BY <1>1, <1>3, <1>6, <1>7, <3>1, <3>2 DEF Knows, Stages, Working, Own
  <2>2. ASSUME NEW v \in Workers, v # w PROVE Knows(worker[v])' /\ Stages(worker[v])'
    <3>1. PICK k \in Calls : k = worker[v]
      BY <1>1, TokenTypes
    <3>2. Knows(k) /\ Stages(k) /\ k.token \in Tokens /\ k.token.lane \in Lanes
      BY <3>1 DEF IInv, Settled, Calls, Tokens
    <3>3. (Matches(k.token)' <=> Matches(k.token)) /\ (Present(k.token)' <=> Present(k.token))
      BY <1>1, <1>6, <3>2 DEF Matches, Present, SameTokens
    <3>4. Lapsed(k.token) => Lapsed(k.token)'
      BY <1>1, <1>6, <3>2 DEF Lapsed
    <3>5. ASSUME k.token.lane # t.lane PROVE Knows(k)' /\ Stages(k)'
      BY <1>1, <1>6, <3>2, <3>3, <3>4, <3>5, Undisturbed
    <3>6. ASSUME k.token.lane = t.lane PROVE Knows(k)' /\ Stages(k)'
      <4>1. k.pc # "idle" => ~Present(k.token)
        BY <1>1, <1>2, <1>3, <2>2, <3>1, <3>6, OneHolder DEF IInv
      <4>2. k.pc # "idle" => ~Matches(k.token)
        BY <4>1 DEF Matches, Present
      <4>3. k.pc \notin Working \cup {"finish", "requeue", "count"}
        BY <3>2, <4>1, <4>2 DEF Knows, Working
      <4>4. Knows(k)'
        BY <3>2, <3>3, <3>4, <4>2, <4>3 DEF Knows, Working
      <4>5. Stages(k)'
        BY <1>1, <3>2, <3>3, <4>2, <4>3 DEF Stages, Working, Own
      <4> QED
        BY <4>4, <4>5
    <3>7. Knows(k)' /\ Stages(k)' /\ worker'[v] = k
      BY <1>8, <2>2, <3>1, <3>5, <3>6
    <3> QED
      BY <3>7 DEF Knows, Stages
  <2>3. Knows(worker[w])' /\ Stages(worker[w])'
    BY <1>8, <2>1 DEF Knows, Stages
  <2> QED
    BY <2>2, <2>3 DEF Settled
<1>12. Forming'
  BY <1>1, <1>3 DEF IInv, Forming, Present
<1>13. InFlight'
  <2> SUFFICES ASSUME NEW s \in Slots, slots[s].st = "inflight", slots[s].item = t.lane PROVE FALSE
    <3>1. \A s \in Slots : slots[s].item \in Lanes
      BY <1>1 DEF Types, Records
    <3> QED
      BY <1>1, <1>6, <3>1 DEF IInv, InFlight, SameTokens
  <2>1. /\ lanes[t.lane].slot = s /\ lanes[t.lane].gen = slots[s].gen
        /\ slots[s].batch = batch.gen /\ batch.st = "ready"
    BY <1>3 DEF IInv, InFlight, Present
  <2>2. t.slot = s /\ t.gen = slots[s].gen /\ t.batch = batch.gen
    BY <1>4, <2>1 DEF TokenOf
  <2> QED
    BY <1>3, <1>4, <2>1, <2>2 DEF Matches
<1>14. Held'
  <2>1. \A v \in Workers : worker'[v].token = worker[v].token /\ (worker'[v].pc # "idle" => worker[v].pc # "idle")
    BY <1>1, <1>2, <1>7, <1>8
  <2>2. \A i \in Lanes : TokenOf(i)' = TokenOf(i)
    BY <1>1, <1>6 DEF SameTokens, TokenOf
  <2>3. \A v \in Workers : worker[v].token.lane \in Lanes
    BY <1>1, TokenTypes
  <2>4. ASSUME NEW v \in Workers, worker'[v].pc # "idle"
        PROVE  LET u == worker'[v].token
               IN  /\ u.batch <= batch'.gen
                   /\ batch'.st = "ready" /\ u.batch = batch'.gen =>
                         /\ u = [lane |-> u.lane, slot |-> lanes'[u.lane].slot, gen |-> lanes'[u.lane].gen, batch |-> batch'.gen]
                         /\ u.lane < batch'.occupancy
    <3>1. worker[v].pc # "idle"
      BY <2>1, <2>4
    <3> QED
      BY SMTT(30), <1>1, <1>6, <2>1, <2>3, <3>1 DEF IInv, Held, TokenOf, SameTokens
  <2>5. \A v, u \in Workers : worker'[v].pc # "idle" /\ worker'[u].pc # "idle" /\ worker'[v].token = worker'[u].token => v = u
    BY <2>1 DEF IInv, Held
  <2> QED
    BY <2>4, <2>5 DEF Held, TokenOf
<1>15. Open'
  <2> SUFFICES ASSUME batch'.st = "ready", NEW i \in Lanes, i < batch'.occupancy, lanes'[i].status # "published"
               PROVE  Placed(i, batch.gen)' \/ \E v \in Workers : Finishing(v)' /\ worker'[v].token = TokenOf(i)'
    BY <1>1 DEF Open
  <2>1. TokenOf(i)' = TokenOf(i) /\ (Placed(i, batch.gen)' <=> Placed(i, batch.gen))
    BY <1>1, <1>6 DEF TokenOf, SameTokens, Placed
  <2>2. i # t.lane /\ lanes[i].status # "published"
    BY <1>6
  <2>3. Placed(i, batch.gen) \/ \E v \in Workers : Finishing(v) /\ worker[v].token = TokenOf(i)
    BY <1>1, <2>2 DEF IInv, Open
  <2>4. \A v \in Workers : worker[v].token = TokenOf(i) => v # w
    BY <1>2, <2>2 DEF TokenOf
  <2> QED
    BY <1>8, <2>1, <2>3, <2>4 DEF Finishing
<1>16. Accounted'
  <2>1. w \notin At("count") /\ t.lane \notin Published
    BY <1>1, <1>3 DEF At, Published
  <2>2. At("count")' = At("count") \cup {w}
    BY <1>7, <1>8 DEF At
  <2>3. Published' = Published \cup {t.lane}
    BY <1>1, <1>3, <1>4, <1>6 DEF Published
  <2>4. \A v \in Workers : (Ends(v)' <=> Ends(v)) /\ (worker'[v].pc = "compare" => worker'[v] = worker[v])
    BY <1>1, <1>7, <1>8 DEF Ends
  <2>5. /\ IsFiniteSet(At("count")') /\ Cardinality(At("count")') = Cardinality(At("count")) + 1
        /\ Cardinality(Published') = Cardinality(Published) + 1
    <3>1. IsFiniteSet(At("count")) /\ IsFiniteSet(Published)
      BY Counting DEF IInv
    <3>2. /\ IsFiniteSet(At("count") \cup {w})
          /\ Cardinality(At("count") \cup {w}) = IF w \in At("count") THEN Cardinality(At("count")) ELSE Cardinality(At("count")) + 1
      BY <3>1, FS_AddElement
    <3>3. Cardinality(Published \cup {t.lane}) = IF t.lane \in Published THEN Cardinality(Published) ELSE Cardinality(Published) + 1
      BY <3>1, FS_AddElement
    <3> QED
      BY <2>1, <2>2, <2>3, <3>2, <3>3
  <2>6. Cardinality(Published) \in Nat /\ Cardinality(At("count")) \in Nat /\ batch.completed \in Nat
    BY <1>1, Counting DEF IInv
  <2>7. batch.st = "ready" => Cardinality(Published) = batch.completed + Cardinality(At("count"))
    BY DEF IInv, Accounted
  <2>8. batch'.st = "ready" => Cardinality(Published') = batch'.completed + Cardinality(At("count")')
    BY <1>1, <2>5, <2>6, <2>7
  <2> QED
    BY <1>1, <2>4, <2>5, <2>8 DEF IInv, Accounted
<1> QED
  BY <1>9, <1>10, <1>11, <1>12, <1>13, <1>14, <1>15, <1>16 DEF IInv

\* What is known of items and slots that stay, in a batch that goes on.
LEMMA KnownStill ==
    ASSUME UNCHANGED <<slots, lanes, result>>, NEW c \in Calls, Knows(c), Stages(c),
           batch'.st = batch.st, batch'.gen = batch.gen, batch'.occupancy = batch.occupancy
    PROVE  Knows(c)' /\ Stages(c)'
BY SMTT(30) DEF Knows, Stages, Working, Own, Matches, Present, Lapsed

\* And so for a worker that does not move.
LEMMA OthersStill ==
    ASSUME IInv, UNCHANGED <<slots, lanes, result>>, NEW v \in Workers, worker'[v] = worker[v],
           batch'.st = batch.st, batch'.gen = batch.gen, batch'.occupancy = batch.occupancy
    PROVE  Knows(worker[v])' /\ Stages(worker[v])'
<1>1. PICK k \in Calls : k = worker[v]
  BY TokenTypes DEF IInv
<1>2. Knows(k) /\ Stages(k)
  BY <1>1 DEF IInv, Settled
<1>3. Knows(k)' /\ Stages(k)' /\ worker'[v] = k
  BY <1>1, <1>2, KnownStill
<1> QED
  BY <1>3 DEF Knows, Stages

\* The batch is formed, served and held as before, whatever its count.
LEMMA BatchStill ==
    ASSUME IInv, UNCHANGED <<slots, lanes, former>>,
           batch'.st = batch.st, batch'.gen = batch.gen, batch'.occupancy = batch.occupancy, batch.st = "ready",
           \A v \in Workers : worker'[v].token = worker[v].token \/ worker'[v].pc = "idle",
           \A v \in Workers : worker[v].pc = "idle" => worker'[v].pc = "idle",
           \A v \in Workers : Finishing(v) => worker'[v] = worker[v]
    PROVE  Forming' /\ InFlight' /\ Held' /\ Open'
<1>1. Forming' /\ InFlight'
  BY DEF IInv, Forming, InFlight
<1>2. \A i \in Lanes : TokenOf(i)' = TokenOf(i) /\ (Placed(i, batch.gen)' <=> Placed(i, batch.gen))
  BY DEF TokenOf, Placed
<1>3. Held'
  <2>1. ASSUME NEW v \in Workers, worker'[v].pc # "idle"
        PROVE  LET u == worker'[v].token
               IN  /\ u.batch <= batch'.gen
                   /\ batch'.st = "ready" /\ u.batch = batch'.gen =>
                         /\ u = [lane |-> u.lane, slot |-> lanes'[u.lane].slot, gen |-> lanes'[u.lane].gen, batch |-> batch'.gen]
                         /\ u.lane < batch'.occupancy
    BY <2>1 DEF IInv, Held, TokenOf
  <2>2. \A v, u \in Workers : worker'[v].pc # "idle" /\ worker'[u].pc # "idle" /\ worker'[v].token = worker'[u].token => v = u
    BY DEF IInv, Held
  <2> QED
    BY <2>1, <2>2 DEF Held, TokenOf
<1>4. Open'
  <2> SUFFICES ASSUME NEW i \in Lanes, i < batch.occupancy, lanes[i].status # "published"
               PROVE  Placed(i, batch.gen)' \/ \E v \in Workers : Finishing(v)' /\ worker'[v].token = TokenOf(i)'
    BY DEF Open, Placed
  <2>1. Placed(i, batch.gen) \/ \E v \in Workers : Finishing(v) /\ worker[v].token = TokenOf(i)
    BY DEF IInv, Open
  <2> QED
    BY <1>2, <2>1 DEF Finishing
<1> QED
  BY <1>1, <1>3, <1>4

\* An item is counted once.
LEMMA CountHolds == ASSUME IInv, NEW w \in Workers, Count(w) PROVE IInv'
<1>1. worker[w].pc = "count" /\ UNCHANGED <<slots, input, result, lanes, owner, canceller, former>> /\ Types /\ Accounted
  BY DEF Count, IInv
<1>2. PICK d \in Calls : d = worker[w]
  BY <1>1, TokenTypes
<1>3. Knows(d) /\ Stages(d)
  BY <1>2 DEF IInv, Settled
<1>4. batch.st = "ready"
  BY <1>1, <1>2, <1>3 DEF Knows, Present
<1>5. batch.completed < batch.occupancy /\ w \in At("count")
  BY <1>1, <1>4, CountingLeft DEF At
<1>6. PICK n \in 0 .. ItemCapacity : n = batch.completed + 1
  BY <1>1, <1>5, Counting, SizesAre
<1>7. batch' = [batch EXCEPT !.completed = n]
  BY <1>6 DEF Count
<1>8. /\ batch'.st = "ready" /\ batch'.gen = batch.gen /\ batch'.occupancy = batch.occupancy /\ batch'.completed = n
      /\ batch' \in [st: {"free", "forming", "ready", "retired"}, occupancy: 0 .. ItemCapacity,
                     completed: 0 .. ItemCapacity, gen: 0 .. MaxBatch]
  BY <1>1, <1>4, <1>7 DEF Types
<1>9. PICK k \in 0 .. ItemCapacity : k = batch.completed
  BY <1>1 DEF Types
<1> DEFINE c == [d EXCEPT !.pc = "compare", !.prev = k]
<1>10. worker' = [worker EXCEPT ![w] = c]
  BY <1>2, <1>9 DEF Count
<1>11. c \in Calls /\ c.pc = "compare" /\ c.token = d.token /\ c.item = d.item /\ c.prev + 1 = n
  BY <1>6, <1>9 DEF Calls, Pcs
<1> HIDE DEF c
<1>12. worker'[w] = c /\ \A v \in Workers : v # w => worker'[v] = worker[v]
  BY <1>1, <1>10 DEF Types
<1>13. Types'
  BY <1>1, <1>8, <1>10, <1>11 DEF Types
<1>14. Requested' /\ Taken' /\ ReadyIsOwn'
  BY <1>1, <1>2, <1>10, <1>11, Handover DEF Busy
<1>15. Forming' /\ InFlight' /\ Held' /\ Open'
  <2>1. \A v \in Workers : Finishing(v) => worker'[v] = worker[v]
    BY <1>1, <1>12 DEF Finishing
  <2>2. \A v \in Workers : worker'[v].token = worker[v].token \/ worker'[v].pc = "idle"
    BY <1>2, <1>11, <1>12
  <2>3. \A v \in Workers : worker[v].pc = "idle" => worker'[v].pc = "idle"
    BY <1>1, <1>12
  <2> QED
    BY <1>1, <1>4, <1>8, <2>1, <2>2, <2>3, BatchStill
<1>16. Settled'
  <2>1. Knows(c)' /\ Stages(c)'
    BY <1>1, <1>2, <1>3, <1>11 DEF Knows, Stages, Working, Own
  <2>2. Knows(worker[w])' /\ Stages(worker[w])'
    BY <1>12, <2>1 DEF Knows, Stages
  <2>3. \A v \in Workers : v # w => Knows(worker[v])' /\ Stages(worker[v])'
    BY <1>1, <1>4, <1>8, <1>12, OthersStill
  <2> QED
    BY <2>2, <2>3 DEF Settled
<1>17. Accounted'
  <2>1. At("count")' = At("count") \ {w}
    BY <1>1, <1>11, <1>12 DEF At
  <2>2. Published' = Published
    BY <1>1, <1>8 DEF Published
  <2>3. IsFiniteSet(At("count")) /\ Cardinality(At("count")) \in Nat /\ Cardinality(Published) \in Nat /\ batch.completed \in Nat
    BY <1>1, Counting
  <2>4. /\ IsFiniteSet(At("count") \ {w})
        /\ Cardinality(At("count") \ {w}) = IF w \in At("count") THEN Cardinality(At("count")) - 1 ELSE Cardinality(At("count"))
    BY <2>3, FS_RemoveElement
  <2>5. Cardinality(At("count")') = Cardinality(At("count")) - 1
    BY <1>5, <2>1, <2>4
  <2>6. Cardinality(Published) = batch.completed + Cardinality(At("count"))
    BY <1>1, <1>4 DEF Accounted
  <2>7. Cardinality(Published') = batch'.completed + Cardinality(At("count")')
    BY <1>6, <1>8, <2>2, <2>3, <2>5, <2>6
  <2>8. IsFiniteSet(At("count")')
    BY <2>1, <2>4
  <2>9. Ends(w)' <=> batch'.completed = batch'.occupancy
    BY <1>8, <1>11, <1>12 DEF Ends
  <2>10. ASSUME NEW v \in Workers, v # w
         PROVE  ~Ends(v)' /\ (worker'[v].pc = "compare" => worker'[v].prev + 1 <= batch'.completed)
    <3>1. worker'[v] = worker[v] /\ worker[v] \in Calls
      BY <1>1, <1>12, <2>10, TokenTypes
    <3>2. ~Ends(v)
      BY <1>1, <1>5, Counting DEF Accounted
    <3>3. ~Ends(v)'
      BY <1>8, <3>1, <3>2 DEF Ends
    <3>4. worker[v].pc = "compare" => worker[v].prev + 1 <= batch.completed
      BY <1>1 DEF Accounted
    <3>5. worker[v].prev \in Nat
      BY <3>1, SizesAre DEF Calls
    <3> QED
      BY <1>6, <1>8, <2>3, <3>1, <3>3, <3>4, <3>5
  <2>11. worker'[w].prev + 1 <= batch'.completed /\ batch'.st # "forming"
    BY <1>6, <1>8, <1>11, <1>12
  <2>12. \A v \in Workers : worker'[v].pc = "compare" => worker'[v].prev + 1 <= batch'.completed /\ batch'.st # "forming"
    BY <1>8, <2>10, <2>11
  <2>13. \A v \in Workers : Ends(v)' => v = w
    BY <2>10
  <2> QED
    BY <1>8, <2>7, <2>8, <2>9, <2>12, <2>13 DEF Accounted
<1> QED
  BY <1>13, <1>14, <1>15, <1>16, <1>17 DEF IInv

\* Everything but the count stays, when a worker whose item was counted moves on
\* and leaves the batch as it is.
LEMMA CountedMoves ==
    ASSUME IInv, NEW w \in Workers, worker[w].pc \in {"compare", "counted"}, NEW c \in Calls,
           worker' = [worker EXCEPT ![w] = c],
           UNCHANGED <<slots, input, result, batch, lanes, owner, canceller, former>>,
           c.pc \in {"idle", "counted", "finished"},
           c.pc # "idle" => c.token = worker[w].token /\ c.item = worker[w].item,
           Knows(c)', Stages(c)'
    PROVE  /\ Types' /\ Requested' /\ Taken' /\ Forming' /\ InFlight' /\ Held' /\ Open'
           /\ Settled' /\ ReadyIsOwn'
<1>1. Types /\ worker'[w] = c /\ \A v \in Workers : v # w => worker'[v] = worker[v]
  BY DEF IInv, Types
<1>2. Types'
  BY <1>1 DEF Types
<1>3. Requested' /\ Taken' /\ ReadyIsOwn'
  BY Handover DEF Busy
<1>4. Forming' /\ InFlight'
  BY DEF IInv, Forming, InFlight, Placed
<1>5. Held'
  <2>1. \A v \in Workers : worker'[v].pc # "idle" => worker[v].pc # "idle" /\ worker'[v].token = worker[v].token
    BY <1>1
  <2> QED
    BY <2>1 DEF IInv, Held, TokenOf
<1>6. Open'
  <2>1. \A v \in Workers : Finishing(v) => worker'[v] = worker[v]
    BY <1>1 DEF Finishing
  <2> SUFFICES ASSUME batch.st = "ready", NEW i \in Lanes, i < batch.occupancy, lanes[i].status # "published"
               PROVE  Placed(i, batch.gen)' \/ \E v \in Workers : Finishing(v)' /\ worker'[v].token = TokenOf(i)'
    BY DEF Open
  <2>2. Placed(i, batch.gen) \/ \E v \in Workers : Finishing(v) /\ worker[v].token = TokenOf(i)
    BY DEF IInv, Open
  <2>3. TokenOf(i)' = TokenOf(i) /\ (Placed(i, batch.gen)' <=> Placed(i, batch.gen))
    BY DEF TokenOf, Placed
  <2> QED
    BY <2>1, <2>2, <2>3 DEF Finishing
<1>7. Settled'
  <2>1. Knows(worker[w])' /\ Stages(worker[w])'
    BY <1>1 DEF Knows, Stages
  <2>2. \A v \in Workers : v # w => Knows(worker[v])' /\ Stages(worker[v])'
    BY <1>1, OthersStill
  <2> QED
    BY <2>1, <2>2 DEF Settled
<1> QED
  BY <1>2, <1>3, <1>4, <1>5, <1>6, <1>7

\* Who counted the last item, and only who did, finds its count to be the
\* occupancy: the batch it was counted in is still there, or no other has begun.
LEMMA CompareHolds == ASSUME IInv, NEW w \in Workers, Compare(w) PROVE IInv'
<1>1. worker[w].pc = "compare" /\ UNCHANGED <<slots, input, result, batch, lanes, owner, canceller, former>>
      /\ Types /\ Accounted
  BY DEF Compare, IInv
<1>2. PICK d \in Calls : d = worker[w]
  BY <1>1, TokenTypes
<1>3. Knows(d) /\ Stages(d) /\ d.pc = "compare"
  BY <1>1, <1>2 DEF IInv, Settled
<1>4. PICK b \in BOOLEAN : b <=> d.prev + 1 = batch.occupancy
  OBVIOUS
<1> DEFINE c == [d EXCEPT !.pc = "counted", !.prev = 0, !.last = b]
<1>5. worker' = [worker EXCEPT ![w] = c]
  <2>1. (d.prev + 1 = batch.occupancy) = b
    BY <1>4
  <2> QED
    BY <1>2, <2>1 DEF Compare
<1>6. c \in Calls /\ c.pc = "counted" /\ c.token = d.token /\ c.item = d.item /\ c.last = b
  <2>1. "counted" \in Pcs /\ 0 \in 0 .. ItemCapacity
    BY SizesAre DEF Pcs
  <2> QED
    BY <2>1 DEF Calls
<1> HIDE DEF c
<1>7. worker'[w] = c /\ \A v \in Workers : v # w => worker'[v] = worker[v]
  BY <1>1, <1>5 DEF Types
<1>8. Knows(c)' /\ Stages(c)'
  BY <1>1, <1>3, <1>6 DEF Knows, Stages, Working, Own
<1>9. /\ Types' /\ Requested' /\ Taken' /\ Forming' /\ InFlight' /\ Held' /\ Open'
      /\ Settled' /\ ReadyIsOwn'
  BY <1>1, <1>2, <1>5, <1>6, <1>8, CountedMoves
<1>10. Accounted'
  <2>1. At("count")' = At("count") /\ Published' = Published
    BY <1>1, <1>6, <1>7 DEF At, Published
  <2>2. Ends(w)' <=> Ends(w)
    BY <1>1, <1>2, <1>4, <1>6, <1>7 DEF Ends
  <2>3. \A v \in Workers : v # w => (Ends(v)' <=> Ends(v))
    BY <1>1, <1>7 DEF Ends
  <2>4. \A v \in Workers : worker'[v].pc = "compare" => worker'[v] = worker[v]
    BY <1>6, <1>7
  <2> QED
    BY <1>1, <2>1, <2>2, <2>3, <2>4 DEF Accounted
<1> QED
  BY <1>9, <1>10 DEF IInv

\* Who counted the last item frees the batch, when no one else has to count.
LEMMA CountedHolds == ASSUME IInv, NEW w \in Workers, Counted(w) PROVE IInv'
<1>1. worker[w].pc = "counted" /\ UNCHANGED <<slots, input, result, lanes, owner, canceller, former>> /\ Types /\ Accounted
  BY DEF Counted, IInv
<1>2. PICK d \in Calls : d = worker[w]
  BY <1>1, TokenTypes
<1>3. Knows(d) /\ Stages(d) /\ d.pc = "counted" /\ d.item \in {"scattered", "failed", "cancelled", "retrying"}
  BY <1>1, <1>2 DEF IInv, Settled, Knows
<1>4. PICK c \in Calls : /\ worker' = [worker EXCEPT ![w] = c]
                         /\ \/ c.pc = "idle"
                            \/ c.pc = "finished" /\ c.token = d.token /\ c.item = d.item /\ c.item # "retrying"
  <2>1. CASE worker[w].item = "retrying"
    BY <2>1, MovesIdle, RestIsCall DEF Counted
  <2>2. CASE worker[w].item # "retrying"
    <3>1. Moves(w, "finished")
      BY <2>2 DEF Counted
    <3> QED
      BY <1>1, <1>2, <2>2, <3>1, MovesTo DEF Pcs
  <2> QED
    BY <2>1, <2>2
<1>5. worker'[w] = c /\ \A v \in Workers : v # w => worker'[v] = worker[v]
  BY <1>1, <1>4 DEF Types
<1>6. batch' \in [st: {"free", "forming", "ready", "retired"}, occupancy: 0 .. ItemCapacity,
                  completed: 0 .. ItemCapacity, gen: 0 .. MaxBatch]
      /\ batch'.gen = batch.gen /\ batch'.occupancy = batch.occupancy /\ batch'.completed = batch.completed
  BY <1>1 DEF Counted, Types
<1>7. Types'
  BY <1>1, <1>4, <1>6 DEF Types
<1>8. Requested' /\ Taken' /\ ReadyIsOwn'
  BY <1>1, <1>2, <1>4, Handover DEF Busy
<1>9. Knows(c)' /\ Stages(c)'
  BY <1>1, <1>3, <1>4 DEF Knows, Stages, Working, Own
<1>10. Knows(worker[w])' /\ Stages(worker[w])'
  BY <1>5, <1>9 DEF Knows, Stages
<1>11. At("count")' = At("count") /\ ~Ends(w)'
  BY <1>1, <1>4, <1>5 DEF At, Ends
<1>12. \A v \in Workers : /\ v # w => (Ends(v)' <=> Ends(v))
                          /\ worker'[v].pc = "compare" => worker'[v] = worker[v]
  BY <1>1, <1>4, <1>5, <1>6 DEF Ends
<1>13. \A v \in Workers : worker'[v].pc # "idle" => worker[v].pc # "idle" /\ worker'[v].token = worker[v].token
  BY <1>1, <1>2, <1>4, <1>5
<1>14. CASE ~worker[w].last
  <2>1. batch' = batch
    BY <1>14 DEF Counted
  <2>2. /\ Types' /\ Requested' /\ Taken' /\ Forming' /\ InFlight' /\ Held' /\ Open'
        /\ Settled' /\ ReadyIsOwn'
    BY <1>1, <1>2, <1>4, <1>9, <2>1, CountedMoves
  <2>3. Accounted'
    <3>1. Published' = Published /\ ~Ends(w)
      BY <1>1, <1>14, <2>1 DEF Published, Ends
    <3>2. \A v \in Workers : (Ends(v)' <=> Ends(v)) /\ (worker'[v].pc = "compare" => worker'[v] = worker[v])
      BY <1>11, <1>12, <3>1
    <3> QED
      BY <1>1, <1>11, <2>1, <3>1, <3>2 DEF Accounted
  <2> QED
    BY <2>2, <2>3 DEF IInv
<1>15. CASE worker[w].last
  <2>1. batch.st = "ready" /\ batch.completed = batch.occupancy
    BY <1>1, <1>15 DEF Accounted, Ends
  <2>2. batch'.st = "free"
    BY <1>1, <1>15 DEF Counted, Types
  <2>3. At("count") = {} /\ \A i \in Lanes : i < batch.occupancy => lanes[i].status = "published"
    BY <1>1, <2>1, AllCounted
  <2>4. \A t \in Tokens : Lapsed(t)' /\ ~Matches(t)' /\ ~Present(t)'
    BY <2>2 DEF Lapsed, Matches, Present
  <2>5. \A s \in Slots : slots[s].st # "inflight"
    <3>1. \A s \in Slots : slots[s].item \in Lanes
      BY <1>1 DEF Types, Records
    <3> QED
      BY <2>1, <2>3, <3>1 DEF IInv, InFlight
  <2>6. \A t \in Tokens : ~Matches(t)
    BY <2>5 DEF Matches, Tokens
  <2>7. ASSUME NEW v \in Workers, v # w PROVE Knows(worker[v])' /\ Stages(worker[v])'
    <3>1. PICK k \in Calls : k = worker[v]
      BY <1>1, TokenTypes
    <3>2. Knows(k) /\ Stages(k) /\ k.token \in Tokens /\ k.token.lane \in Lanes
      BY <3>1 DEF IInv, Settled, Calls, Tokens
    <3>3. k.pc \notin Working
      BY <2>6, <3>2 DEF Knows, Working
    <3>4. k.pc # "count"
      BY <2>3, <3>1 DEF At
    <3>5. k.pc \notin {"finish", "requeue"}
      <4>1. SUFFICES ASSUME k.pc \in {"finish", "requeue"} PROVE FALSE
        OBVIOUS
      <4>2. Present(k.token) /\ lanes[k.token.lane].status # "published"
        BY <3>2, <4>1 DEF Knows
      <4>3. k.token.lane < batch.occupancy
        BY <3>1, <4>1, <4>2 DEF IInv, Held, Present
      <4> QED
        BY <2>3, <3>2, <4>2, <4>3
    <3>6. Knows(k)'
      BY <2>4, <3>2, <3>3, <3>4, <3>5 DEF Knows, Working
    <3>7. Stages(k)'
      BY <1>1, <2>4, <3>2, <3>3, <3>4, <3>5 DEF Stages, Working, Own
    <3>8. worker'[v] = k
      BY <1>5, <2>7, <3>1
    <3> QED
      BY <3>6, <3>7, <3>8 DEF Knows, Stages
  <2>8. Settled'
    BY <1>10, <2>7 DEF Settled
  <2>9. Forming'
    BY <1>1, <2>1, <2>2 DEF IInv, Forming
  <2>10. InFlight'
    BY <1>1, <2>5 DEF InFlight
  <2>11. Held'
    BY <1>1, <1>6, <1>13, <2>2 DEF IInv, Held
  <2>12. Open'
    BY <2>2 DEF Open
  <2>13. Accounted'
    <3>0. Ends(w)
      BY <1>1, <1>15 DEF Ends
    <3>4. \A v \in Workers : v # w => ~Ends(v)
      BY <1>1, <3>0 DEF Accounted
    <3>1. \A v \in Workers : ~Ends(v)'
      BY <1>11, <1>12, <3>4
    <3>2. IsFiniteSet(At("count")')
      BY <1>1, <1>11 DEF Accounted
    <3>3. \A v \in Workers : worker'[v].pc = "compare" => worker'[v].prev + 1 <= batch'.completed
      <4>1. batch'.completed = batch.completed
        BY <1>6
      <4>2. \A v \in Workers : worker[v].pc = "compare" => worker[v].prev + 1 <= batch.completed
        BY <1>1 DEF Accounted
      <4>3. \A v \in Workers : worker'[v].pc = "compare" => worker'[v] = worker[v]
        BY <1>12
      <4> QED
        BY <4>1, <4>2, <4>3
    <3> QED
      BY <2>2, <3>1, <3>2, <3>3 DEF Accounted
  <2> QED
    BY <1>7, <1>8, <2>8, <2>9, <2>10, <2>11, <2>12, <2>13 DEF IInv
<1> QED
  BY <1>14, <1>15

\* serviceItem takes a token that is true, or is published, and in no other hand.
LEMMA CaptureHolds == ASSUME IInv, NEW w \in Workers, NEW i \in Lanes, Capture(w, i) PROVE IInv'
<1> DEFINE t == [lane |-> i, slot |-> lanes[i].slot, gen |-> lanes[i].gen, batch |-> batch.gen]
<1>1. /\ worker[w].pc = "idle" /\ batch.st = "ready" /\ i < batch.occupancy /\ Types
      /\ UNCHANGED <<slots, input, result, batch, lanes, owner, canceller, former>>
  BY DEF Capture, IInv
<1>2. t = TokenOf(i) /\ t \in Tokens /\ t.batch = batch.gen /\ t.lane = i
  BY <1>1, WordTypes DEF TokenOf, Tokens, Words, Types
<1>3. \A v \in Workers : worker[v].pc # "idle" => worker[v].token # t
  BY DEF Capture
<1>4. PICK u \in Tokens : u = t
  BY <1>2
<1>5. PICK d \in Calls : d = worker[w]
  BY <1>1, TokenTypes
<1> DEFINE c == [d EXCEPT !.pc = "prepare", !.token = u]
<1>6. worker' = [worker EXCEPT ![w] = c]
  BY <1>4, <1>5 DEF Capture
<1>7. c \in Calls /\ c.pc = "prepare" /\ c.token = u
  BY DEF Calls, Pcs
<1> HIDE DEF c, t
<1>8. worker'[w] = c /\ \A v \in Workers : v # w => worker'[v] = worker[v]
  BY <1>1, <1>6 DEF Types
<1>9. Types'
  BY <1>1, <1>6, <1>7 DEF Types
<1>10. Requested' /\ Taken' /\ ReadyIsOwn'
  BY <1>1, <1>6, <1>7, Handover DEF Busy
<1>11. Forming' /\ InFlight'
  BY <1>1 DEF IInv, Forming, InFlight
<1>12. Held'
  <2>1. TokenOf(i) = u /\ u.lane = i /\ u.batch = batch.gen /\ batch.gen <= batch.gen
    BY <1>1, <1>2, <1>4 DEF Types
  <2>2. ASSUME NEW v \in Workers, worker'[v].pc # "idle"
        PROVE  /\ worker'[v].token.batch <= batch.gen
               /\ worker'[v].token.batch = batch.gen => /\ worker'[v].token = TokenOf(worker'[v].token.lane)
                                                        /\ worker'[v].token.lane < batch.occupancy
    <3>1. CASE v = w
      BY <1>1, <1>7, <1>8, <2>1, <3>1
    <3>2. CASE v # w
      BY <1>1, <1>8, <2>2, <3>2 DEF IInv, Held
    <3> QED
      BY <3>1, <3>2
  <2>3. \A v, x \in Workers : worker'[v].pc # "idle" /\ worker'[x].pc # "idle" /\ worker'[v].token = worker'[x].token => v = x
    BY <1>3, <1>4, <1>7, <1>8 DEF IInv, Held
  <2> QED
    BY <1>1, <2>2, <2>3 DEF Held, TokenOf
<1>13. Open'
  <2> SUFFICES ASSUME NEW j \in Lanes, j < batch.occupancy, lanes[j].status # "published"
               PROVE  Placed(j, batch.gen)' \/ \E v \in Workers : Finishing(v)' /\ worker'[v].token = TokenOf(j)'
    BY <1>1 DEF Open
  <2>1. Placed(j, batch.gen) \/ \E v \in Workers : Finishing(v) /\ worker[v].token = TokenOf(j)
    BY <1>1 DEF IInv, Open
  <2>2. TokenOf(j)' = TokenOf(j) /\ (Placed(j, batch.gen)' <=> Placed(j, batch.gen))
    BY <1>1 DEF TokenOf, Placed
  <2>3. \A v \in Workers : Finishing(v) => worker'[v] = worker[v]
    BY <1>1, <1>8 DEF Finishing
  <2> QED
    BY <2>1, <2>2, <2>3 DEF Finishing
<1>14. Settled'
  <2>1. Matches(u) \/ Lapsed(u)
    <3>1. CASE lanes[i].status = "published"
      BY <1>2, <1>4, <3>1 DEF Lapsed
    <3>2. CASE lanes[i].status # "published"
      <4>1. Placed(i, batch.gen)
        <5>1. \A v \in Workers : Finishing(v) => worker[v].token # TokenOf(i)
          BY <1>2, <1>3 DEF Finishing
        <5> QED
          BY <1>1, <3>2, <5>1 DEF IInv, Open
      <4>2. u.lane = i /\ u.slot = lanes[i].slot /\ u.gen = lanes[i].gen /\ u.batch = batch.gen
        BY <1>4 DEF t
      <4> QED
        BY <1>1, <4>1, <4>2 DEF Placed, Matches
    <3> QED
      BY <3>1, <3>2
  <2>2. Knows(c) /\ Stages(c)
    <3> QED
      BY <1>7, <2>1 DEF Knows, Stages, Working
  <2>3. Knows(c)' /\ Stages(c)'
    BY <1>1, <1>7, <2>2, KnownStill
  <2>4. Knows(worker[w])' /\ Stages(worker[w])'
    BY <1>8, <2>3 DEF Knows, Stages
  <2>5. \A v \in Workers : v # w => Knows(worker[v])' /\ Stages(worker[v])'
    BY <1>1, <1>8, OthersStill
  <2> QED
    BY <2>4, <2>5 DEF Settled
<1>15. Accounted'
  <2>1. At("count")' = At("count") /\ Published' = Published
    BY <1>1, <1>7, <1>8 DEF At, Published
  <2>2. \A v \in Workers : worker'[v] = worker[v] \/ Uncounted(v)
    BY <1>1, <1>7, <1>8 DEF Uncounted
  <2> QED
    BY <1>1, <2>1, <2>2, AccountedStill DEF IInv
<1> QED
  BY <1>9, <1>10, <1>11, <1>12, <1>13, <1>14, <1>15 DEF IInv

-----------------------------------------------------------------------------
(* The batch is formed.                                                    *)

\* While no batch is ready, no one has an item in hand that could be touched.
LEMMA Quiet ==
    ASSUME IInv, batch.st # "ready", NEW v \in Workers
    PROVE  /\ worker[v].pc \notin Working \cup {"finish", "requeue", "count"}
           /\ ~Ends(v)
<1>1. Knows(worker[v]) /\ worker[v] \in Calls
  BY TokenTypes DEF IInv, Settled
<1>2. worker[v].pc \notin Working \cup {"finish", "requeue", "count"}
  BY <1>1 DEF Knows, Matches, Present
<1>3. ~Ends(v)
  BY DEF IInv, Accounted
<1> QED
  BY <1>2, <1>3

\* The tokens that are still held then are of an older batch.
LEMMA QuietStays ==
    ASSUME IInv, batch.st # "ready", UNCHANGED <<result, worker>>,
           batch'.st # "ready" \/ (batch'.gen = batch.gen + 1 /\ batch.gen \in Nat)
    PROVE  Settled'
<1> SUFFICES ASSUME NEW v \in Workers
             PROVE  Knows(worker[v])' /\ Stages(worker[v])'
  BY DEF Settled
<1>1. PICK k \in Calls : k = worker[v]
  BY TokenTypes DEF IInv
<1>2. worker'[v] = k
  BY <1>1
<1>3. Knows(k) /\ Stages(k) /\ k.pc \notin Working \cup {"finish", "requeue", "count"}
  BY <1>1, Quiet DEF IInv, Settled
<1>4. k.pc # "idle" => k.token.batch \in Nat /\ k.token.batch <= batch.gen
  BY <1>1, TokenTypes, SizesAre DEF IInv, Held
<1>5. k.pc # "idle" => ~Matches(k.token)' /\ Lapsed(k.token)'
  BY <1>4 DEF Matches, Lapsed
<1>6. Knows(k)'
  BY <1>3, <1>5 DEF Knows, Working
<1>7. Stages(k)'
  BY <1>3, <1>5 DEF Stages, Working, Own
<1> QED
  BY <1>2, <1>6, <1>7 DEF Knows, Stages

\* What is left when the step only writes words of the batch.
LEMMA FormedBeside ==
    ASSUME IInv, UNCHANGED <<slots, input, result, owner, canceller, worker>>
    PROVE  Requested' /\ Taken' /\ ReadyIsOwn'
BY DEF IInv, Requested, Taken, Publisher, ReadyIsOwn

\* No one is counting then, and if no one has yet to compare its count, no one
\* will take the next batch for the last one.
LEMMA QuietCount ==
    ASSUME IInv, batch.st # "ready", UNCHANGED worker, \A v \in Workers : worker[v].pc # "compare"
    PROVE  /\ At("count")' = {} /\ IsFiniteSet(At("count")')
           /\ \A v \in Workers : worker'[v].pc # "compare" /\ ~Ends(v)'
<1>1. At("count")' = {}
  BY Quiet DEF At
<1>2. \A v \in Workers : worker'[v].pc # "compare" /\ ~Ends(v)'
  BY Quiet DEF Ends
<1> QED
  BY <1>1, <1>2, FS_EmptySet

\* formBatch claims the batch, when no one has yet to compare its count with the
\* occupancy of the one before.
LEMMA FormScanHolds == ASSUME IInv, FormScan, \A v \in Workers : worker[v].pc # "compare" PROVE IInv'
<1>1. /\ batch.st = "free" /\ former.pc = "idle" /\ Types
      /\ UNCHANGED <<slots, input, result, lanes, owner, canceller, worker>>
  BY DEF FormScan, IInv
<1>2. batch.gen \in Nat /\ batch.gen <= MaxBatch /\ MaxBatch \in Nat
  BY <1>1, SizesAre DEF Types
<1>3. \/ batch'.st = "retired" /\ former' = former
      \/ /\ batch'.st = "forming" /\ batch'.completed = 0 /\ batch'.gen < MaxBatch
         /\ former' = [pc |-> "take", at |-> 0, occupancy |-> 0]
  <2>1. CASE batch.gen = MaxBatch
    BY <1>1, <2>1 DEF FormScan, Types
  <2>2. CASE batch.gen # MaxBatch
    <3>1. batch' = [batch EXCEPT !.st = "forming", !.occupancy = 0, !.completed = 0]
          /\ former' = [pc |-> "take", at |-> 0, occupancy |-> 0]
      BY <2>2 DEF FormScan
    <3>2. batch'.st = "forming" /\ batch'.completed = 0 /\ batch'.gen = batch.gen
      BY <1>1, <3>1 DEF Types
    <3> QED
      BY <1>2, <2>2, <3>1, <3>2
  <2> QED
    BY <2>1, <2>2
<1>4. /\ batch'.gen = batch.gen
      /\ batch' \in [st: {"free", "forming", "ready", "retired"}, occupancy: 0 .. ItemCapacity,
                     completed: 0 .. ItemCapacity, gen: 0 .. MaxBatch]
  <2>1. 0 \in 0 .. ItemCapacity
    BY SizesAre
  <2> QED
    BY ZenonT(60), <1>1, <2>1 DEF FormScan, Types
<1>5. Types'
  <2>1. former' \in [pc: {"idle", "take"}, at: 0 .. RequestCapacity, occupancy: 0 .. ItemCapacity]
    BY <1>1, <1>3, SizesAre DEF Types
  <2> QED
    BY <1>1, <1>4, <2>1 DEF Types
<1>6. \A s \in Slots : slots[s].st # "inflight"
  BY <1>1 DEF IInv, InFlight
<1>7. Forming'
  <2>1. \A i \in Lanes : ~(i < 0)
    BY DEF Lanes
  <2> QED
    BY <1>1, <1>3, <2>1 DEF Forming
<1>8. InFlight'
  BY <1>1, <1>6 DEF InFlight
<1>9. Held'
  BY <1>1, <1>3, <1>4 DEF IInv, Held
<1>10. Open'
  BY <1>3 DEF Open
<1>11. Settled'
  BY <1>1, <1>3, QuietStays
<1>12. Accounted'
  BY <1>1, <1>3, QuietCount DEF Accounted
<1> QED
  BY <1>1, <1>5, <1>7, <1>8, <1>9, <1>10, <1>11, <1>12, FormedBeside DEF IInv

\* formBatch releases the batch under a number no token has.
LEMMA FormEndHolds == ASSUME IInv, FormEnd PROVE IInv'
<1>1. /\ former.pc = "take" /\ batch.st = "forming" /\ Types /\ batch.completed = 0 /\ batch.gen < MaxBatch
      /\ UNCHANGED <<slots, input, result, lanes, owner, canceller, worker>>
  BY DEF FormEnd, IInv, Forming
<1>2. /\ batch.gen \in Nat /\ MaxBatch \in Nat /\ former.occupancy \in 0 .. ItemCapacity /\ ItemCapacity \in Nat
      /\ batch \in [st: {"free", "forming", "ready", "retired"}, occupancy: 0 .. ItemCapacity,
                    completed: 0 .. ItemCapacity, gen: 0 .. MaxBatch]
  BY <1>1, SizesAre DEF Types
<1>3. former'.pc = "idle" /\ former' \in [pc: {"idle", "take"}, at: 0 .. RequestCapacity, occupancy: 0 .. ItemCapacity]
  BY <1>1 DEF FormEnd, Types
<1>4. Requested' /\ Taken' /\ ReadyIsOwn'
  BY <1>1, FormedBeside
<1>7. \A v \in Workers : worker[v].pc # "compare"
  BY <1>1 DEF IInv, Accounted
<1>5. CASE former.occupancy = 0
  <2>1. batch' = [batch EXCEPT !.st = "free"]
    BY <1>5 DEF FormEnd
  <2>2. batch'.st = "free" /\ batch'.gen = batch.gen
        /\ batch' \in [st: {"free", "forming", "ready", "retired"}, occupancy: 0 .. ItemCapacity,
                       completed: 0 .. ItemCapacity, gen: 0 .. MaxBatch]
    BY <1>2, <2>1
  <2>3. Types'
    BY <1>1, <1>3, <2>2 DEF Types
  <2>4. \A s \in Slots : slots[s].st # "inflight"
    <3>1. \A s \in Slots : slots[s].item \in Lanes
      BY <1>1, WordTypes DEF Records
    <3> QED
      BY <1>1, <1>5, <3>1 DEF IInv, InFlight, Lanes
  <2>5. Forming' /\ InFlight' /\ Open'
    BY <1>1, <1>3, <2>2, <2>4 DEF Forming, InFlight, Open
  <2>6. Held'
    BY <1>1, <2>2 DEF IInv, Held
  <2>7. Settled'
    BY <1>1, <2>2, QuietStays
  <2>8. Accounted'
    BY <1>1, <1>7, <2>2, QuietCount DEF Accounted
  <2> QED
    BY <1>4, <2>3, <2>5, <2>6, <2>7, <2>8 DEF IInv
<1>6. CASE former.occupancy # 0
  <2>1. batch' = [batch EXCEPT !.st = "ready", !.gen = batch.gen + 1, !.occupancy = former.occupancy]
    BY <1>6 DEF FormEnd
  <2>2. batch'.st = "ready" /\ batch'.gen = batch.gen + 1 /\ batch'.occupancy = former.occupancy /\ batch'.completed = 0
    BY <1>1, <1>2, <2>1
  <2>3. batch' \in [st: {"free", "forming", "ready", "retired"}, occupancy: 0 .. ItemCapacity,
                    completed: 0 .. ItemCapacity, gen: 0 .. MaxBatch]
    <3> DEFINE g == batch.gen + 1
    <3>1. g \in 0 .. MaxBatch
      BY <1>1, <1>2
    <3>2. batch' = [batch EXCEPT !.st = "ready", !.gen = g, !.occupancy = former.occupancy]
      BY <2>1
    <3> HIDE DEF g
    <3> QED
      BY <1>2, <3>1, <3>2
  <2>4. Types'
    BY <1>1, <1>3, <2>3 DEF Types
  <2>5. \A i \in Lanes : i < former.occupancy => Placed(i, batch.gen + 1) /\ lanes[i].status = "pending"
    BY <1>1 DEF IInv, Forming
  <2>6. Forming'
    BY <1>3, <2>2 DEF Forming
  <2>7. InFlight'
    BY <1>1, <2>2 DEF IInv, InFlight
  <2>8. Held'
    <3>1. \A w \in Workers : worker[w].pc # "idle" => worker[w].token.batch \in Nat /\ worker[w].token.batch <= batch.gen
      BY <1>1, TokenTypes, SizesAre DEF IInv, Held
    <3>2. \A w \in Workers : worker'[w].pc # "idle" =>
              worker'[w].token.batch <= batch'.gen /\ worker'[w].token.batch # batch'.gen
      BY <1>1, <1>2, <2>2, <3>1
    <3>3. \A w, v \in Workers : worker'[w].pc # "idle" /\ worker'[v].pc # "idle" /\ worker'[w].token = worker'[v].token => w = v
      BY <1>1 DEF IInv, Held
    <3> QED
      BY <3>2, <3>3 DEF Held
  <2>9. Open'
    BY <1>1, <2>2, <2>5 DEF Open, Placed
  <2>10. Settled'
    BY <1>1, <1>2, <2>2, QuietStays
  <2>11. Published' = {}
    BY <1>1, <2>2, <2>5 DEF Published
  <2>12. Accounted'
    <3>1. Cardinality(Published') = 0 /\ Cardinality(At("count")') = 0
      BY <1>1, <1>7, <2>11, QuietCount, FS_EmptySet
    <3>2. batch'.completed # batch'.occupancy
      BY <1>6, <2>2
    <3> QED
      BY <1>1, <1>7, <2>2, <3>1, <3>2, QuietCount DEF Accounted
  <2> QED
    BY <1>4, <2>4, <2>6, <2>7, <2>8, <2>9, <2>10, <2>12 DEF IInv
<1> QED
  BY <1>5, <1>6

\* formBatch takes a queued request into the next lane.
LEMMA FormTakeHolds == ASSUME IInv, FormTake PROVE IInv'
<1>1. /\ former.pc = "take" /\ batch.st = "forming" /\ Types
      /\ UNCHANGED <<input, result, batch, owner, canceller, worker>>
  BY DEF FormTake, IInv, Forming
<1>0. /\ former.at \in 0 .. RequestCapacity /\ former.occupancy \in 0 .. ItemCapacity
      /\ former.at < RequestCapacity /\ former.occupancy < ItemCapacity
  BY <1>1 DEF FormTake, Types
<1>2. PICK s \in Slots : s = former.at
  BY <1>0, SizesAre DEF Slots
<1>3. PICK i \in Lanes : i = former.occupancy
  BY <1>0, SizesAre DEF Lanes
<1>4. Settled' /\ Accounted' /\ Open'
  <2>1. \A v \in Workers : worker[v].pc # "compare"
    BY <1>1 DEF IInv, Accounted
  <2>2. Accounted'
    BY <1>1, <2>1, QuietCount DEF Accounted
  <2> QED
    BY <1>1, <2>2, QuietStays DEF Open
<1>5. \A x \in Slots, j \in Lanes : x \in Nat /\ j \in Nat /\ x + 1 \in 0 .. RequestCapacity /\ j + 1 \in 0 .. ItemCapacity
  BY SizesAre DEF Slots, Lanes
<1>6. CASE slots[s].st # "queued"
  <2>1. former' = [former EXCEPT !.at = s + 1] /\ UNCHANGED <<slots, lanes>>
    BY <1>2, <1>6 DEF FormTake
  <2>2. former'.pc = former.pc /\ former'.occupancy = former.occupancy
        /\ former' \in [pc: {"idle", "take"}, at: 0 .. RequestCapacity, occupancy: 0 .. ItemCapacity]
    BY <1>1, <1>5, <2>1 DEF Types
  <2>3. Types'
    BY <1>1, <2>1, <2>2 DEF Types
  <2>4. Forming' /\ InFlight' /\ Held'
    BY <1>1, <2>1, <2>2 DEF IInv, Forming, InFlight, Held, Placed, TokenOf
  <2>5. Requested' /\ Taken' /\ ReadyIsOwn'
    BY <1>1, <2>1, FormedBeside
  <2> QED
    BY <1>4, <2>3, <2>4, <2>5 DEF IInv
<1>7. CASE slots[s].st = "queued"
  <2>1. PICK q \in Records : q = slots[s]
    BY <1>1, WordTypes
  <2>2. PICK l \in Words : l = lanes[i]
    BY <1>1, WordTypes
  <2>3. PICK b \in 0 .. MaxBatch : b = batch.gen + 1
    BY <1>1, SizesAre DEF IInv, Forming, Types
  <2> DEFINE r == [q EXCEPT !.st = "inflight", !.item = i, !.batch = b]
             m == [l EXCEPT !.slot = s, !.gen = q.gen, !.status = "pending"]
  <2>4. /\ slots' = [slots EXCEPT ![s] = r] /\ lanes' = [lanes EXCEPT ![i] = m]
        /\ former' = [former EXCEPT !.at = s + 1, !.occupancy = i + 1]
    BY <1>2, <1>3, <1>7, <2>1, <2>2, <2>3 DEF FormTake
  <2>5. r \in Records /\ r.st = "inflight" /\ r.item = i /\ r.batch = b /\ r.gen = q.gen
    BY DEF Records, States
  <2>6. q.gen \in Generations
    BY DEF Records
  <2>7. m \in Words /\ m.slot = s /\ m.gen = q.gen /\ m.status = "pending"
    BY <2>6 DEF Words, Items
  <2> HIDE DEF r, m
  <2>8. /\ former'.pc = "take" /\ former'.occupancy = i + 1
        /\ former' \in [pc: {"idle", "take"}, at: 0 .. RequestCapacity, occupancy: 0 .. ItemCapacity]
    BY <1>1, <1>5, <2>4 DEF Types
  <2>9. /\ slots'[s] = r /\ \A x \in Slots : x # s => slots'[x] = slots[x]
        /\ lanes'[i] = m /\ \A j \in Lanes : j # i => lanes'[j] = lanes[j]
    BY <1>1, <2>4 DEF Types
  <2>10. Types'
    BY <1>1, <2>4, <2>5, <2>7, <2>8 DEF Types
  <2>11. owner[s] = "wait" /\ canceller[s].pc # "store"
    BY <1>7 DEF IInv, Requested, Stage
  <2>12. Requested'
    <3>1. Stage("wait", "inflight")
      BY DEF Stage
    <3>2. \A x \in Slots : x # s => /\ Stage(owner'[x], slots'[x].st)
                                    /\ owner'[x] = "admit" => input'[x] = [slot |-> x, gen |-> slots'[x].gen + 1]
                                    /\ owner'[x] = "wait" => input'[x] = [slot |-> x, gen |-> slots'[x].gen]
                                    /\ canceller'[x].pc = "store" => slots'[x].st = "publishing"
      BY <1>1, <2>9 DEF IInv, Requested
    <3>3. input[s] = [slot |-> s, gen |-> slots[s].gen]
      BY <2>11 DEF IInv, Requested
    <3> QED
      BY ZenonT(60), <1>1, <2>1, <2>5, <2>9, <2>11, <3>1, <3>2, <3>3 DEF Requested
  <2>13. Taken'
    <3>1. \A w \in Workers : Publisher(w) \/ worker[w].pc = "requeue" =>
              slots'[worker[w].token.slot] = slots[worker[w].token.slot]
      BY <1>1, <1>7, <2>9, TokenTypes DEF IInv, Taken
    <3> QED
      BY <1>1, <3>1 DEF IInv, Taken, Publisher
  <2>14. ReadyIsOwn'
    BY <1>1, <2>5, <2>9 DEF IInv, ReadyIsOwn
  <2>15. Forming'
    <3> SUFFICES ASSUME NEW j \in Lanes, j < i + 1
                 PROVE  Placed(j, batch.gen + 1)' /\ lanes'[j].status = "pending"
      BY <1>1, <2>8 DEF Forming, IInv
    <3>1. CASE j = i
      BY <1>1, <2>1, <2>3, <2>5, <2>7, <2>9, <3>1 DEF Placed
    <3>2. CASE j # i
      <4>1. j < former.occupancy
        BY <1>3, <1>5, <3>2
      <4>2. Placed(j, batch.gen + 1) /\ lanes[j].status = "pending"
        BY <1>1, <4>1 DEF IInv, Forming
      <4>3. lanes[j].slot \in Slots /\ lanes[j].slot # s
        BY <1>1, <1>7, <4>2, WordTypes DEF Words, Placed
      <4> QED
        BY <1>1, <2>9, <3>2, <4>2, <4>3 DEF Placed
    <3> QED
      BY <3>1, <3>2
  <2>16. InFlight'
    <3> SUFFICES ASSUME NEW x \in Slots, slots'[x].st = "inflight"
                 PROVE  LET j == slots'[x].item
                        IN  /\ lanes'[j].slot = x /\ lanes'[j].gen = slots'[x].gen /\ lanes'[j].status # "published"
                            /\ batch'.st = "forming" /\ slots'[x].batch = batch'.gen + 1 /\ j < former'.occupancy
      BY DEF InFlight
    <3>1. CASE x = s
      BY <1>1, <1>5, <2>1, <2>3, <2>5, <2>7, <2>8, <2>9, <3>1
    <3>2. CASE x # s
      <4>1. slots'[x] = slots[x] /\ slots[x].item \in Lanes
        BY <1>1, <2>9, <3>2, WordTypes DEF Records
      <4>2. LET j == slots[x].item
            IN  /\ lanes[j].slot = x /\ lanes[j].gen = slots[x].gen /\ lanes[j].status # "published"
                /\ slots[x].batch = batch.gen + 1 /\ j < former.occupancy
        BY <1>1, <4>1 DEF IInv, InFlight
      <4>3. slots[x].item # i /\ slots[x].item < i + 1
        BY <1>3, <1>5, <4>1, <4>2
      <4> QED
        BY <1>1, <2>8, <2>9, <4>1, <4>2, <4>3
    <3> QED
      BY <3>1, <3>2
  <2>17. Held'
    BY <1>1 DEF IInv, Held
  <2> QED
    BY <1>4, <2>10, <2>12, <2>13, <2>14, <2>15, <2>16, <2>17 DEF IInv
<1> QED
  BY <1>6, <1>7

-----------------------------------------------------------------------------
(* The properties that the runs check.                                     *)

\* Every step keeps the invariant.
LEMMA StepHolds == ASSUME IInv, [OrderlyNext]_vars PROVE IInv'
<1>1. CASE UNCHANGED vars
  <2>1. UNCHANGED <<slots, input, result, batch, lanes, owner, canceller, former, worker>>
    BY <1>1 DEF vars
  <2>2. Types' /\ Requested' /\ Taken' /\ ReadyIsOwn'
    BY <2>1 DEF IInv, Types, Requested, Taken, Publisher, ReadyIsOwn
  <2>3. SameFlight
    BY <2>1 DEF SameFlight
  <2> QED
    BY <2>1, <2>2, <2>3, Beside DEF IInv
<1>2. ASSUME NEW s \in Slots, Owner(s) \/ Cancel(s)
      PROVE  IInv'
  BY <1>2, SlotStepsHold
<1>3. CASE OrderlyFormBatch
  <2>1. FormScan => former.pc = "idle"
    BY DEF FormScan
  <2> QED
    BY <1>3, <2>1, FormScanHolds, FormTakeHolds, FormEndHolds DEF OrderlyFormBatch, FormBatch
<1>4. ASSUME NEW w \in Workers, Work(w)
      PROVE  IInv'
  BY <1>4, PrepareHolds, CopyInHolds, ExecuteHolds, TensorHolds, ExecutedHolds, MarkHolds, ScatterHolds, CopyOutHolds,
     ScatteredHolds, PublishHolds, TakeHolds, FinishHolds, CountHolds, CompareHolds, CountedHolds, ReleaseHolds, RetryHolds,
     RequeueHolds DEF Work
<1>5. ASSUME NEW w \in Workers, NEW i \in Lanes, Capture(w, i)
      PROVE  IInv'
  BY <1>5, CaptureHolds
<1> QED
  BY <1>1, <1>2, <1>3, <1>4, <1>5 DEF OrderlyNext

\* The inductive invariant holds of every state, for any number of slots, lanes and
\* workers: tokens of the present batch are true until their item is published and
\* are in one hand, and a slot between its states is in one hand.
THEOREM Invariant == OrderlySpec => []IInv
<1>1. Init => IInv
  BY InitHolds
<1>2. IInv /\ [OrderlyNext]_vars => IInv'
  BY StepHolds
<1> QED
  BY <1>1, <1>2, PTL DEF OrderlySpec

\* The type invariant: the words and the calls' variables stay in their sets, and
\* no generation passes its last value.
THEOREM TypeCorrect == OrderlySpec => []TypeOK
<1>1. IInv => TypeOK
  <2> SUFFICES ASSUME Types
               PROVE  TypeOK
    BY DEF IInv
  <2>1. \A r \in Records : r \in [st: Terminal \cup {"free", "claimed", "queued", "inflight", "publishing", "retired"},
                                  gen: Generations, cancel: BOOLEAN, batch: 0 .. MaxBatch, item: Lanes]
    BY DEF Records, States, Terminal
  <2>2. \A l \in Words : l \in [slot: Slots, gen: Generations, status: Statuses, features: Payloads, scores: Payloads]
    BY DEF Words, Items, Statuses
  <2>3. \A c \in Calls : c \in [pc: {"idle", "prepare", "copyIn", "execute", "tensor", "computed",
                                     "failed", "mark", "scatter", "copyOut", "scattered", "publish",
                                     "claim", "finish", "count", "compare", "counted", "finished", "unfinished",
                                     "retry", "retake", "requeue"},
                                token: Tokens, item: Statuses,
                                next: {"idle", "publish", "scatter", "retry", "claim"},
                                prev: 0 .. ItemCapacity, last: BOOLEAN]
    BY DEF Calls, Pcs, Items, Statuses
  <2> HIDE DEF Records, Words, Calls
  <2>4. slots \in [Slots -> [st: Terminal \cup {"free", "claimed", "queued", "inflight", "publishing", "retired"},
                             gen: Generations, cancel: BOOLEAN, batch: 0 .. MaxBatch, item: Lanes]]
    BY <2>1 DEF Types
  <2>5. lanes \in [Lanes -> [slot: Slots, gen: Generations, status: Statuses, features: Payloads, scores: Payloads]]
    BY <2>2 DEF Types
  <2>6. worker \in [Workers -> [pc: {"idle", "prepare", "copyIn", "execute", "tensor", "computed",
                                     "failed", "mark", "scatter", "copyOut", "scattered", "publish",
                                     "claim", "finish", "count", "compare", "counted", "finished", "unfinished",
                                     "retry", "retake", "requeue"},
                                token: Tokens, item: Statuses,
                                next: {"idle", "publish", "scatter", "retry", "claim"},
                                prev: 0 .. ItemCapacity, last: BOOLEAN]]
    BY <2>3 DEF Types
  <2>7. canceller \in [Slots -> [pc: {"idle", "flag", "claim", "store", "after"},
                                 queued: BOOLEAN, answer: {"none", "cancelled", "notReady"}]]
    BY DEF Types, CancelCalls
  <2> QED
    BY <2>4, <2>5, <2>6, <2>7 DEF Types, TypeOK
<1> QED
  BY <1>1, Invariant, PTL

\* A result that can be read is the one computed from the request the slot holds,
\* although lanes and slots are used again by other requests: the two checks of the
\* token around each copy (batchItemMatches) are enough.
THEOREM ResultIsOwn == OrderlySpec => []ReadyIsOwn
<1>1. IInv => ReadyIsOwn
  BY DEF IInv
<1> QED
  BY <1>1, Invariant, PTL

\* A request in flight is an unfinished item of the batch: neither formBatch nor
\* publishItem, retryItem or cancel strands one.
THEOREM FlightHasLane == OrderlySpec => []InFlightHasLane
<1>1. IInv => InFlightHasLane
  BY DEF IInv, InFlight, Forming, InFlightHasLane
<1> QED
  BY <1>1, Invariant, PTL

\* No request is ever answered "stale", and no worker is about to: the branch of
\* publishItem after a failed finishBatchItem is never reached.
THEOREM NeverStale == OrderlySpec => [](\A s \in Slots, w \in Workers : slots[s].st # "stale" /\ worker[w].pc # "unfinished")
<1>1. IInv => \A s \in Slots, w \in Workers : slots[s].st # "stale" /\ worker[w].pc # "unfinished"
  <2>1. ASSUME Types, NEW s \in Slots
        PROVE  slots[s].st # "stale"
    BY <2>1 DEF Types, Records, States
  <2>2. ASSUME Types, NEW w \in Workers
        PROVE  worker[w].pc # "unfinished"
    BY <2>2 DEF Types, Calls, Pcs
  <2> QED
    BY <2>1, <2>2 DEF IInv
<1> QED
  BY <1>1, Invariant, PTL

\* A batch comes to its end: its published items are those counted or being
\* counted, completed reaches occupancy only when somebody is about to free the
\* batch, and an item nobody finished belongs to a request that is still open.
THEOREM BatchEnds == OrderlySpec => []BatchFinishes
<1>1. IInv => BatchAccounted
  BY DEF IInv, Accounted, BatchAccounted, Ends, At, Published
<1>2. IInv => UnfinishedIsOpen
  <2> SUFFICES ASSUME IInv, batch.st = "ready", NEW i \in Lanes, i < batch.occupancy,
                      lanes[i].status \notin {"published", "retrying"}
               PROVE  slots[lanes[i].slot].st \in {"inflight", "publishing", "claimed"}
    BY DEF UnfinishedIsOpen
  <2>1. CASE Placed(i, batch.gen)
    BY <2>1 DEF Placed
  <2>2. ASSUME NEW w \in Workers, Finishing(w), worker[w].token = TokenOf(i)
        PROVE  slots[lanes[i].slot].st \in {"inflight", "publishing", "claimed"}
    <3>1. Knows(worker[w]) /\ worker[w].token.lane = i /\ worker[w].token.slot = lanes[i].slot
      BY <2>2 DEF IInv, Settled, TokenOf
    <3>2. worker[w].pc = "requeue" => slots[lanes[i].slot].st = "claimed"
      BY <3>1 DEF IInv, Taken
    <3>3. worker[w].pc = "finish" => worker[w].item = lanes[i].status
      BY <3>1 DEF Knows
    <3>4. worker[w].pc = "finish" => Publisher(w)
      BY <3>3 DEF Publisher
    <3>5. worker[w].pc = "finish" => slots[lanes[i].slot].st = "publishing"
      BY <3>1, <3>4 DEF IInv, Taken
    <3> QED
      BY <2>2, <3>2, <3>5 DEF Finishing
  <2> QED
    BY <2>1, <2>2 DEF IInv, Open
<1> QED
  BY <1>1, <1>2, Invariant, PTL DEF BatchFinishes

-----------------------------------------------------------------------------
(* EvaluationSlots is implemented.                                         *)

\* The variables of EvaluationSlots, as this module has them.
Seen == [s \in Slots |-> Phase(s)]
Gens == [s \in Slots |-> slots[s].gen]
Outcomes == [s \in Slots |-> IF slots[s].st \in Terminal THEN slots[s].st ELSE "none"]
Values == [s \in Slots |-> IF slots[s].st = "ready" THEN result[s] ELSE Nothing]

\* A slot of which the requester sees nothing new.
Kept(s) ==
    /\ slots'[s].gen = slots[s].gen
    /\ \/ /\ slots'[s].st = slots[s].st /\ owner'[s] = owner[s]
          /\ slots[s].st = "ready" => result'[s] = result[s]
       \/ /\ {slots[s].st, slots'[s].st} \subseteq {"queued", "inflight", "publishing", "claimed"}
          /\ owner[s] = "wait" /\ owner'[s] = "wait"
       \/ /\ {slots[s].st, slots'[s].st} \subseteq {"free", "claimed"}
          /\ owner[s] # "wait" /\ owner'[s] # "wait"

\* The requester of such a slot sees what it saw.
LEMMA KeptIsUnseen ==
    ASSUME NEW s \in Slots, Kept(s)
    PROVE  Seen'[s] = Seen[s] /\ Gens'[s] = Gens[s] /\ Outcomes'[s] = Outcomes[s] /\ Values'[s] = Values[s]
BY DEF Kept, Seen, Gens, Outcomes, Values, Phase, Terminal

\* If that is so of every slot, the step is none of EvaluationSlots.
LEMMA Stutters ==
    ASSUME \A s \in Slots : Kept(s)
    PROVE  UNCHANGED <<Seen, Gens, Outcomes, Values>>
<1>1. \A s \in Slots : Seen'[s] = Seen[s] /\ Gens'[s] = Gens[s] /\ Outcomes'[s] = Outcomes[s] /\ Values'[s] = Values[s]
  BY KeptIsUnseen
<1> QED
  BY <1>1 DEF Seen, Gens, Outcomes, Values

\* What a requester sees, state by state.
LEMMA PhaseIs ==
    ASSUME NEW s \in Slots
    PROVE  /\ slots[s].st = "retired" => Seen[s] = "retired"
           /\ slots[s].st \in Terminal => Seen[s] = "answered"
           /\ slots[s].st \notin Terminal \cup {"retired"} => Seen[s] = IF owner[s] = "wait" THEN "open" ELSE "idle"
<1>1. Seen[s] = Phase(s)
  BY DEF Seen
<1>2. CASE slots[s].st = "retired"
  <2>1. slots[s].st \notin Terminal
    BY <1>2 DEF Terminal
  <2> QED
    BY <1>1, <1>2, <2>1 DEF Phase
<1>3. CASE slots[s].st \in Terminal
  <2>1. slots[s].st # "retired"
    BY <1>3 DEF Terminal
  <2> QED
    BY <1>1, <1>3, <2>1 DEF Phase
<1>4. CASE slots[s].st \notin Terminal \cup {"retired"}
  <2>1. slots[s].st # "retired" /\ slots[s].st \notin Terminal
    BY <1>4
  <2>2. CASE owner[s] = "wait"
    BY <1>1, <2>1, <2>2 DEF Phase
  <2>3. CASE owner[s] # "wait"
    BY <1>1, <2>1, <2>3 DEF Phase
  <2> QED
    BY <2>1, <2>2, <2>3
<1> QED
  BY <1>2, <1>3, <1>4

\* The same of the next state.
LEMMA PhaseIsNext ==
    ASSUME NEW s \in Slots
    PROVE  /\ slots'[s].st = "retired" => Seen'[s] = "retired"
           /\ slots'[s].st \in Terminal => Seen'[s] = "answered"
           /\ slots'[s].st \notin Terminal \cup {"retired"} => Seen'[s] = IF owner'[s] = "wait" THEN "open" ELSE "idle"
<1>1. Seen'[s] = Phase(s)'
  BY DEF Seen
<1>2. CASE slots'[s].st = "retired"
  <2>1. slots'[s].st \notin Terminal
    BY <1>2 DEF Terminal
  <2> QED
    BY <1>1, <1>2, <2>1 DEF Phase
<1>3. CASE slots'[s].st \in Terminal
  <2>1. slots'[s].st # "retired"
    BY <1>3 DEF Terminal
  <2> QED
    BY <1>1, <1>3, <2>1 DEF Phase
<1>4. CASE slots'[s].st \notin Terminal \cup {"retired"}
  <2>1. slots'[s].st # "retired" /\ slots'[s].st \notin Terminal
    BY <1>4
  <2>2. CASE owner'[s] = "wait"
    BY <1>1, <2>1, <2>2 DEF Phase
  <2>3. CASE owner'[s] # "wait"
    BY <1>1, <2>1, <2>3 DEF Phase
  <2> QED
    BY <2>1, <2>2, <2>3
<1> QED
  BY <1>2, <1>3, <1>4

\* A function that differs from another at one argument.
LEMMA DiffersAt ==
    ASSUME NEW D, NEW f, NEW g, f = [x \in D |-> f[x]], g = [x \in D |-> g[x]], NEW s \in D,
           \A x \in D : x # s => g[x] = f[x]
    PROVE  g = [f EXCEPT ![s] = g[s]] /\ (g[s] = f[s] => g = f)
OBVIOUS

\* The step is one at s.
LEMMA OnlyAt ==
    ASSUME NEW s \in Slots, \A x \in Slots : x # s => Kept(x)
    PROVE  /\ Seen' = [Seen EXCEPT ![s] = Seen'[s]] /\ Gens' = [Gens EXCEPT ![s] = Gens'[s]]
           /\ Outcomes' = [Outcomes EXCEPT ![s] = Outcomes'[s]] /\ Values' = [Values EXCEPT ![s] = Values'[s]]
           /\ Gens'[s] = Gens[s] => Gens' = Gens
           /\ Outcomes'[s] = Outcomes[s] => Outcomes' = Outcomes
           /\ Values'[s] = Values[s] => Values' = Values
<1>1. \A x \in Slots : x # s => Seen'[x] = Seen[x] /\ Gens'[x] = Gens[x]
                                /\ Outcomes'[x] = Outcomes[x] /\ Values'[x] = Values[x]
  BY KeptIsUnseen
<1>2. Seen = [x \in Slots |-> Seen[x]] /\ Seen' = [x \in Slots |-> Seen'[x]]
  BY DEF Seen
<1>3. Gens = [x \in Slots |-> Gens[x]] /\ Gens' = [x \in Slots |-> Gens'[x]]
  BY DEF Gens
<1>4. Outcomes = [x \in Slots |-> Outcomes[x]] /\ Outcomes' = [x \in Slots |-> Outcomes'[x]]
  BY DEF Outcomes
<1>5. Values = [x \in Slots |-> Values[x]] /\ Values' = [x \in Slots |-> Values'[x]]
  BY DEF Values
<1> QED
  BY <1>1, <1>2, <1>3, <1>4, <1>5, DiffersAt

\* The actions of EvaluationSlots, on these variables.
LEMMA PromiseIs ==
    ASSUME NEW s \in Slots
    PROVE  /\ Promise!Submit(s) <=>
                /\ Seen[s] = "idle" /\ Gens[s] < MaxGeneration
                /\ Seen' = [Seen EXCEPT ![s] = "open"] /\ Gens' = [Gens EXCEPT ![s] = Gens[s] + 1]
                /\ Outcomes' = Outcomes /\ Values' = Values
           /\ Promise!Answer(s) <=>
                /\ Seen[s] = "open" /\ Seen' = [Seen EXCEPT ![s] = "answered"]
                /\ \/ /\ Outcomes' = [Outcomes EXCEPT ![s] = "ready"]
                      /\ Values' = [Values EXCEPT ![s] = [slot |-> s, gen |-> Gens[s]]]
                   \/ /\ \E o \in {"failed", "cancelled"} : Outcomes' = [Outcomes EXCEPT ![s] = o]
                      /\ Values' = Values
                /\ Gens' = Gens
           /\ Promise!Free(s) <=>
                /\ Seen[s] = "answered" /\ Seen' = [Seen EXCEPT ![s] = "idle"]
                /\ Outcomes' = [Outcomes EXCEPT ![s] = "none"] /\ Values' = [Values EXCEPT ![s] = Nothing]
                /\ Gens' = Gens
           /\ Promise!Retire(s) <=>
                /\ Seen[s] = "idle" /\ Gens[s] = MaxGeneration /\ Seen' = [Seen EXCEPT ![s] = "retired"]
                /\ Gens' = Gens /\ Outcomes' = Outcomes /\ Values' = Values
<1>1. Promise!Submit(s) <=>
                /\ Seen[s] = "idle" /\ Gens[s] < MaxGeneration
                /\ Seen' = [Seen EXCEPT ![s] = "open"] /\ Gens' = [Gens EXCEPT ![s] = Gens[s] + 1]
                /\ Outcomes' = Outcomes /\ Values' = Values
  BY DEF Promise!Submit, Seen, Gens, Outcomes, Values
<1>2. Promise!Answer(s) <=>
                /\ Seen[s] = "open" /\ Seen' = [Seen EXCEPT ![s] = "answered"]
                /\ \/ /\ Outcomes' = [Outcomes EXCEPT ![s] = "ready"]
                      /\ Values' = [Values EXCEPT ![s] = [slot |-> s, gen |-> Gens[s]]]
                   \/ /\ \E o \in {"failed", "cancelled"} : Outcomes' = [Outcomes EXCEPT ![s] = o]
                      /\ Values' = Values
                /\ Gens' = Gens
  BY DEF Promise!Answer, Seen, Gens, Outcomes, Values
<1>3. Promise!Free(s) <=>
                /\ Seen[s] = "answered" /\ Seen' = [Seen EXCEPT ![s] = "idle"]
                /\ Outcomes' = [Outcomes EXCEPT ![s] = "none"] /\ Values' = [Values EXCEPT ![s] = Nothing]
                /\ Gens' = Gens
  BY DEF Promise!Free, Seen, Gens, Outcomes, Values
<1>4. Promise!Retire(s) <=>
                /\ Seen[s] = "idle" /\ Gens[s] = MaxGeneration /\ Seen' = [Seen EXCEPT ![s] = "retired"]
                /\ Gens' = Gens /\ Outcomes' = Outcomes /\ Values' = Values
  BY DEF Promise!Retire, Seen, Gens, Outcomes, Values
<1> QED
  BY <1>1, <1>2, <1>3, <1>4

SlotsStep == [Promise!Next]_<<Seen, Gens, Outcomes, Values>>

\* A request is answered: by a failure, by a cancellation, or by its own result.
LEMMA AnswerImplements ==
    ASSUME NEW s \in Slots, \A x \in Slots : x # s => Kept(x),
           owner[s] = "wait", owner'[s] = "wait", slots[s].st = "publishing", slots'[s].gen = slots[s].gen,
           \/ slots'[s].st \in {"failed", "cancelled"}
           \/ slots'[s].st = "ready" /\ result'[s] = [slot |-> s, gen |-> slots[s].gen]
    PROVE  SlotsStep
<1>1. Seen[s] = "open" /\ Seen'[s] = "answered"
  BY PhaseIs, PhaseIsNext DEF Terminal
<1>2. Gens[s] = slots[s].gen /\ Gens'[s] = slots[s].gen
  BY DEF Gens
<1>3. Gens' = Gens
  BY <1>2, OnlyAt
<1>4. CASE slots'[s].st \in {"failed", "cancelled"}
  <2>1. Outcomes'[s] = slots'[s].st /\ Values'[s] = Values[s]
    BY <1>4 DEF Outcomes, Values, Terminal
  <2>2. Values' = Values
    BY <2>1, OnlyAt
  <2>3. Promise!Answer(s)
    BY <1>1, <1>3, <1>4, <2>1, <2>2, OnlyAt, PromiseIs
  <2> QED
    BY <2>3 DEF SlotsStep, Promise!Next
<1>5. CASE slots'[s].st = "ready" /\ result'[s] = [slot |-> s, gen |-> slots[s].gen]
  <2>1. Outcomes'[s] = "ready" /\ Values'[s] = [slot |-> s, gen |-> slots[s].gen]
    BY <1>5 DEF Outcomes, Values, Terminal
  <2>2. Promise!Answer(s)
    BY <1>1, <1>2, <1>3, <2>1, OnlyAt, PromiseIs
  <2> QED
    BY <2>2 DEF SlotsStep, Promise!Next
<1> QED
  BY <1>4, <1>5

\* What a filled slot holds.
LEMMA FillWords ==
    ASSUME IInv, NEW s \in Slots, AdmitFill(s), slots[s].gen # MaxGeneration
    PROVE  slots'[s].st = "queued" /\ slots'[s].gen = slots[s].gen + 1 /\ owner'[s] = "wait"
<1>1. PICK q \in Records : q = slots[s]
  BY WordTypes DEF IInv
<1> DEFINE g == slots[s].gen + 1
<1>2. slots' = [slots EXCEPT ![s] = [q EXCEPT !.st = "queued", !.gen = g, !.batch = 0, !.item = 0, !.cancel = FALSE]]
  BY <1>1 DEF AdmitFill
<1> HIDE DEF g
<1>3. slots'[s] = [q EXCEPT !.st = "queued", !.gen = g, !.batch = 0, !.item = 0, !.cancel = FALSE]
  BY <1>2 DEF IInv, Types
<1>4. slots'[s].st = "queued" /\ slots'[s].gen = g
  BY <1>3 DEF Records
<1>5. owner'[s] = "wait"
  BY DEF AdmitFill, IInv, Types
<1> QED
  BY <1>4, <1>5 DEF g

\* admit and recycle are Submit, Retire and Free; the claim is not seen.
LEMMA OwnerImplements == ASSUME IInv, NEW s \in Slots, Owner(s) PROVE SlotsStep
<1>1. \A x \in Slots : x # s => Kept(x)
  BY DEF Owner, AdmitClaim, AdmitFill, Recycle, Kept, IInv, Types
<1>2. slots[s] \in Records /\ slots[s].gen \in Nat /\ slots[s].gen <= MaxGeneration /\ MaxGeneration \in Nat
  BY WordTypes, SizesAre DEF IInv, Records, Generations
<1>3. CASE AdmitClaim(s)
  <2>1. slots'[s].st = "claimed" /\ slots'[s].gen = slots[s].gen /\ owner'[s] = "admit"
    BY <1>2, <1>3 DEF AdmitClaim, IInv, Types, Records
  <2>2. Kept(s)
    BY <1>3, <2>1 DEF AdmitClaim, Kept
  <2> QED
    BY <1>1, <2>2, Stutters DEF SlotsStep
<1>4. CASE AdmitFill(s) /\ slots[s].gen = MaxGeneration
  <2>1. slots[s].st = "claimed" /\ owner[s] = "admit"
    BY <1>4 DEF AdmitFill, IInv, Requested, Stage
  <2>2. slots'[s].st = "retired" /\ slots'[s].gen = slots[s].gen
    BY <1>2, <1>4 DEF AdmitFill, IInv, Types, Records
  <2>3. Seen[s] = "idle" /\ Seen'[s] = "retired" /\ Gens[s] = MaxGeneration
    BY <1>4, <2>1, <2>2, PhaseIs, PhaseIsNext DEF Gens, Terminal
  <2>4. Gens'[s] = Gens[s] /\ Outcomes'[s] = Outcomes[s] /\ Values'[s] = Values[s]
    BY <2>1, <2>2 DEF Gens, Outcomes, Values, Terminal
  <2>5. UNCHANGED <<Gens, Outcomes, Values>>
    BY <1>1, <2>4, OnlyAt
  <2>6. Promise!Retire(s)
    BY <1>1, <2>3, <2>5, OnlyAt, PromiseIs
  <2> QED
    BY <2>6 DEF SlotsStep, Promise!Next
<1>5. CASE AdmitFill(s) /\ slots[s].gen # MaxGeneration
  <2>1. slots[s].st = "claimed" /\ owner[s] = "admit"
    BY <1>5 DEF AdmitFill, IInv, Requested, Stage
  <2>2. slots'[s].st = "queued" /\ slots'[s].gen = slots[s].gen + 1 /\ owner'[s] = "wait"
    BY <1>2, <1>5, FillWords
  <2>3. Seen[s] = "idle" /\ Seen'[s] = "open" /\ Gens[s] < MaxGeneration
    BY <1>2, <1>5, <2>1, <2>2, PhaseIs, PhaseIsNext DEF Gens, Terminal
  <2>4. Gens'[s] = Gens[s] + 1 /\ Outcomes'[s] = Outcomes[s] /\ Values'[s] = Values[s]
    BY <2>1, <2>2 DEF Gens, Outcomes, Values, Terminal
  <2>5. UNCHANGED <<Outcomes, Values>>
    BY <1>1, <2>4, OnlyAt
  <2>6. Promise!Submit(s)
    BY <1>1, <2>3, <2>4, <2>5, OnlyAt, PromiseIs
  <2> QED
    BY <2>6 DEF SlotsStep, Promise!Next
<1>6. CASE Recycle(s)
  <2>1. slots[s].st \in Terminal /\ owner[s] = "wait"
    BY <1>6 DEF Recycle
  <2>2. slots'[s].st = "free" /\ slots'[s].gen = slots[s].gen /\ owner'[s] = "idle"
    BY <1>2, <1>6 DEF Recycle, IInv, Types, Records
  <2>3. Seen[s] = "answered" /\ Seen'[s] = "idle"
    BY <2>1, <2>2, PhaseIs, PhaseIsNext DEF Terminal
  <2>4. Gens'[s] = Gens[s] /\ Outcomes'[s] = "none" /\ Values'[s] = Nothing
    BY <2>1, <2>2 DEF Gens, Outcomes, Values, Terminal
  <2>5. UNCHANGED Gens
    BY <1>1, <2>4, OnlyAt
  <2>6. Promise!Free(s)
    BY <1>1, <2>3, <2>4, <2>5, OnlyAt, PromiseIs
  <2> QED
    BY <2>6 DEF SlotsStep, Promise!Next
<1> QED
  BY <1>3, <1>4, <1>5, <1>6 DEF Owner

\* cancel answers a request it took out of the queue, and is otherwise not seen.
LEMMA CancelImplements == ASSUME IInv, NEW s \in Slots, Cancel(s) PROVE SlotsStep
<1>1. \A x \in Slots : x # s => Kept(x)
  BY DEF Cancel, CancelCall, CancelFlag, CancelClaim, CancelStore, CancelAfter, Kept, IInv, Types
<1>2. slots[s] \in Records /\ Stage(owner[s], slots[s].st)
  BY WordTypes DEF IInv, Requested
<1>3. CASE CancelStore(s)
  <2>1. slots[s].st = "publishing"
    BY <1>3 DEF CancelStore, IInv, Requested
  <2>2. owner[s] = "wait" /\ owner' = owner
    BY <1>2, <1>3, <2>1 DEF CancelStore, Stage
  <2>3. slots'[s].st = "cancelled" /\ slots'[s].gen = slots[s].gen
    BY <1>2, <1>3 DEF CancelStore, IInv, Types, Records
  <2> QED
    BY <1>1, <2>1, <2>2, <2>3, AnswerImplements
<1>4. CASE CancelClaim(s)
  <2>1. CASE slots[s].st = "queued"
    <3>1. slots'[s].st = "publishing" /\ slots'[s].gen = slots[s].gen /\ owner' = owner
      BY <1>2, <1>4, <2>1 DEF CancelClaim, IInv, Types, Records
    <3>2. owner[s] = "wait"
      BY <1>2, <2>1 DEF Stage
    <3> QED
      BY <1>1, <2>1, <3>1, <3>2, Stutters DEF Kept, SlotsStep
  <2>2. CASE slots[s].st # "queued"
    BY <1>1, <1>4, <2>2, Stutters DEF CancelClaim, Kept, SlotsStep
  <2> QED
    BY <2>1, <2>2
<1>5. CASE CancelFlag(s)
  <2>1. slots'[s].st = slots[s].st /\ slots'[s].gen = slots[s].gen /\ UNCHANGED <<owner, result>>
    BY <1>2, <1>5 DEF CancelFlag, IInv, Types, Records
  <2> QED
    BY <1>1, <2>1, Stutters DEF Kept, SlotsStep
<1>6. CASE CancelCall(s) \/ CancelAfter(s)
  BY <1>6, Stutters DEF CancelCall, CancelAfter, Kept, SlotsStep
<1> QED
  BY <1>3, <1>4, <1>5, <1>6 DEF Cancel

\* A request that is taken into a batch, or queued again, is still open.
LEMMA FormImplements == ASSUME IInv, FormBatch PROVE SlotsStep
<1>1. CASE FormTake
  <2> SUFFICES ASSUME NEW s \in Slots
               PROVE  Kept(s)
    BY Stutters DEF SlotsStep
  <2>1. CASE slots'[s] = slots[s]
    BY <1>1, <2>1 DEF FormTake, Kept
  <2>2. CASE slots'[s] # slots[s]
    <3>1. s = former.at /\ slots[s].st = "queued"
      BY <1>1, <2>2 DEF FormTake, IInv, Types
    <3>2. PICK q \in Records : q = slots[s]
      BY WordTypes DEF IInv
    <3> DEFINE b == batch.gen + 1
               i == former.occupancy
    <3>5. slots' = [slots EXCEPT ![s] = [q EXCEPT !.st = "inflight", !.item = i, !.batch = b]] /\ owner' = owner
      BY <1>1, <3>1, <3>2 DEF FormTake
    <3> HIDE DEF b, i
    <3>6. slots'[s] = [q EXCEPT !.st = "inflight", !.item = i, !.batch = b]
      BY <3>5 DEF IInv, Types
    <3>3. slots'[s].st = "inflight" /\ slots'[s].gen = slots[s].gen /\ owner' = owner
      BY ZenonT(60), <3>2, <3>5, <3>6 DEF Records
    <3>4. owner[s] = "wait"
      BY <3>1 DEF IInv, Requested, Stage
    <3> QED
      BY <3>1, <3>3, <3>4 DEF Kept
  <2> QED
    BY <2>1, <2>2
<1>2. CASE FormScan \/ FormEnd
  BY <1>2, Stutters DEF FormScan, FormEnd, Kept, SlotsStep
<1> QED
  BY <1>1, <1>2 DEF FormBatch

\* A worker answers the request when it releases the terminal state, and only then.
LEMMA WorkImplements == ASSUME IInv, NEW w \in Workers, Work(w) PROVE SlotsStep
<1>1. PICK t \in Tokens : t = worker[w].token
  BY TokenTypes DEF IInv
<1>2. t.slot \in Slots /\ slots[t.slot] \in Records /\ Stage(owner[t.slot], slots[t.slot].st) /\ Knows(worker[w]) /\ Stages(worker[w])
  BY <1>1, WordTypes DEF IInv, Requested, Settled, Tokens
<1>3. CASE Release(w)
  <2>1. worker[w].pc = "finished" /\ worker[w].item \in {"scattered", "failed", "cancelled"}
    BY <1>2, <1>3, TokenTypes DEF Release, Knows, IInv, Calls, Pcs
  <2>2. slots[t.slot].st = "publishing" /\ slots[t.slot].gen = t.gen
    BY <1>1, <2>1 DEF IInv, Taken, Publisher
  <2>3. owner[t.slot] = "wait" /\ owner' = owner /\ result' = result
    BY <1>2, <1>3, <2>2 DEF Release, Stage
  <2>4. /\ slots'[t.slot].st = Outcome(worker[w].item) /\ slots'[t.slot].gen = slots[t.slot].gen
        /\ \A x \in Slots : x # t.slot => Kept(x)
    BY <1>1, <1>2, <1>3, <2>1 DEF Release, Kept, IInv, Types, Records
  <2>5. CASE worker[w].item = "scattered"
    <3>1. result[t.slot] = [slot |-> t.slot, gen |-> t.gen]
      BY <1>1, <1>2, <2>1, <2>5 DEF Stages, Own
    <3>2. slots'[t.slot].st = "ready"
      BY <2>4, <2>5 DEF Outcome
    <3> QED
      BY <1>2, <2>2, <2>3, <2>4, <3>1, <3>2, AnswerImplements
  <2>6. CASE worker[w].item # "scattered"
    <3>1. slots'[t.slot].st \in {"failed", "cancelled"}
      BY <2>1, <2>4, <2>6 DEF Outcome
    <3> QED
      BY <1>2, <2>2, <2>3, <2>4, <3>1, AnswerImplements
  <2> QED
    BY <2>5, <2>6
<1>4. CASE CopyOut(w)
  <2>1. slots[t.slot].st # "ready"
    BY <1>1, <1>2, <1>4 DEF CopyOut, Knows, Working, Matches
  <2>2. UNCHANGED <<slots, owner>> /\ \A x \in Slots : x # t.slot => result'[x] = result[x]
    BY <1>1, <1>4 DEF CopyOut, IInv, Types
  <2>3. \A x \in Slots : Kept(x)
    BY <2>1, <2>2 DEF Kept
  <2> QED
    BY <2>3, Stutters DEF SlotsStep
<1>5. CASE PublishClaim(w) \/ RetryTake(w)
  <2>1. slots[t.slot].st = "inflight"
    BY <1>1, <1>2, <1>5 DEF PublishClaim, RetryTake, Knows, Working, Matches
  <2>2. owner[t.slot] = "wait"
    BY <1>2, <2>1 DEF Stage
  <2>3. slots'[t.slot].st \in {"publishing", "claimed"} /\ slots'[t.slot].gen = slots[t.slot].gen /\ owner' = owner
        /\ \A x \in Slots : x # t.slot => Kept(x)
    BY SMTT(30), <1>1, <1>2, <1>5, <2>1 DEF PublishClaim, RetryTake, Kept, IInv, Types, Records
  <2>4. Kept(t.slot)
    BY <2>1, <2>2, <2>3 DEF Kept
  <2> QED
    BY SMTT(30), <2>3, <2>4, Stutters DEF SlotsStep
<1>6. CASE Requeue(w)
  <2>1. slots[t.slot].st = "claimed" /\ owner[t.slot] = "wait"
    BY <1>1, <1>6 DEF Requeue, IInv, Taken
  <2>2. slots'[t.slot].st = "queued" /\ slots'[t.slot].gen = slots[t.slot].gen /\ owner' = owner
        /\ \A x \in Slots : x # t.slot => Kept(x)
    BY <1>1, <1>2, <1>6 DEF Requeue, Kept, IInv, Types, Records
  <2>3. Kept(t.slot)
    BY <2>1, <2>2 DEF Kept
  <2> QED
    BY <2>2, <2>3, Stutters DEF SlotsStep
<1>7. CASE UNCHANGED <<slots, owner, result>>
  BY <1>7, Stutters DEF Kept, SlotsStep
<1> QED
  BY <1>3, <1>4, <1>5, <1>6, <1>7
     DEF Work, Prepare, CopyIn, Execute, Tensor, Executed, Mark, Scatter, Scattered, Publish, Finish, Count, Compare, Counted, Retry

\* Every step is one of EvaluationSlots, or is not seen.
LEMMA StepImplements == ASSUME IInv, [OrderlyNext]_vars PROVE SlotsStep
<1>1. CASE UNCHANGED vars
  <2>1. \A s \in Slots : Kept(s)
    BY <1>1 DEF vars, Kept
  <2> QED
    BY <2>1, Stutters DEF SlotsStep
<1>2. ASSUME NEW w \in Workers, NEW i \in Lanes, Capture(w, i)
      PROVE  SlotsStep
  <2>1. \A s \in Slots : Kept(s)
    BY <1>2 DEF Capture, Kept
  <2> QED
    BY <2>1, Stutters DEF SlotsStep
<1> QED
  BY <1>1, <1>2, OwnerImplements, CancelImplements, FormImplements, WorkImplements DEF OrderlyNext, OrderlyFormBatch

\* The first state is one of EvaluationSlots.
LEMMA InitImplements == ASSUME Init PROVE Promise!Init
<1>1. \A s \in Slots : slots[s].st = "free" /\ slots[s].gen = 0 /\ owner[s] = "idle"
  BY DEF Init
<1> QED
  BY <1>1 DEF Promise!Init, Phase, Terminal

\* The slots keep what EvaluationSlots promises, whatever the workers, the
\* canceller and the batch do: a request is answered once, by the requester's
\* cancel call or by a worker's publication, and a result is its own.
THEOREM EvaluatorImplementsSlots == OrderlySpec => ImplementsSlots
<1>1. Init => Promise!Init
  BY InitImplements
<1>2. IInv /\ [OrderlyNext]_vars => SlotsStep
  BY StepImplements
<1> QED
  BY <1>1, <1>2, Invariant, PTL DEF OrderlySpec, ImplementsSlots, Promise!Spec, SlotsStep, Seen, Gens, Outcomes, Values
=============================================================================
