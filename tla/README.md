# A TLA+ model of CUDA-MCGS

CUDA-MCGS generates programs for Monte Carlo Graph Search that stay on the GPU.
A compiler, `components/search-compiler`, turns profiles into the source of
device kernels; an evaluator adapter contributes the device side of a tensor
evaluator; a runtime adapter prepares, ignites and observes the search through
the public CUDA-JS port. The state that is hard to reason about lives in device
memory and is shared by kernels and lanes through 32-bit words, compare-and-swap,
acquire loads and release stores. That state and the generated functions that
change it are what this project models first.

## 1. The system

| Part | State it keeps | Operations | Who else touches it |
|---|---|---|---|
| Resident Output (`resident-session-output.mjs`) | two snapshot slots with a status word each, the authority words (focus fence, publication, slot) | `reserve`, `abort`, `publish`, `acquire`, `release`, `observe`, `terminal` | the controller writes; observer kernels borrow at any time |
| Resident Session (`resident-session-output.mjs`, `resident-entries.mjs`, `resident-stop.mjs`) | one command mailbox, the identity and generation last recorded, the first stop cause | `external` (upload, poll), `apply`, the control and controller entries | command kernels launched by the host; the controller |
| Resident Graph (`resident-graph.mjs`) | nodes with generations, candidate edges in spans, span tags and lists, a hash table, a clock | `spanAllocate`, `spanFree`, `lookup`, `ttVacancy`, `reclaimOne`, `admit`, `realize` | Session (focus) and Progress (path, evaluation), all on the device thread |
| Resident Progress (`resident-progress.mjs`) | the current work, its path records, leases, prepared backups, the request in flight, counters, the stop words | `advance`, `consume`, `backup`, `dispose`, `body` | Session's stop causes, the evaluator's answer |
| Tensor evaluator runtime (`adapters/evaluators/cuda-js-tensor`) | request slots, one batch of item lanes, staging, generations of both | `admit`, `cancel`, `formBatch`, the item functions, `retryItem`, `recycle` | requesters, cancellers, the batch former and the workers, concurrently |
| Evaluator cohort service (`progress-cohort.mjs`) | the round and the barriers of a block | the collective loop | the host's cancellation mailbox |
| CUDA-JS runtime adapter (`adapters/runtimes/cuda-js`) | a prepared execution and every lower object it owns | `preinitialize`, `ignite`, `submitExternal`, `deliver`, `describe`, `wait`, `close` | callers, interleaved at every `await` |
| Cooperative and finite device search (`cooperative-device-search.mjs`, `finite-device-search.mjs`) | an append-only graph, one path, a frontier result merged by 32 lanes | the search loop | the host's cancellation mailbox |
| Normalizers, composer, program package, foundation | nothing between calls | documents in, documents or diagnostics out | - |
| `experiments/search-semantics-reference` | reference machines of the owners' contracts | one reducer each | recorded cases |

How they interact: the *controller* kernel is the single device thread of the
resident search. In each round it applies a pending command (Session), admits or
realizes nodes (Graph), moves the current work (Progress), publishes a snapshot
(Output), and decides whether the continuation repeats. Command kernels and
observer kernels are launched by the host and overlap with it freely. Evaluation
requests go from Progress to the evaluator's slots and are served by a block of
lanes between rounds.

What makes each part correct:

- **Output** - a reader gets one publication whole or nothing; a borrowed slot is
  never rewritten; no order of retirements, releases and failures loses a slot;
  every reader comes back; the terminal payload is delivered.
- **Session** - one writer of the mailbox; each packet answered once and in order;
  accepted packets take effect once, in the order of their generations; a refusal
  changes nothing; the first stop cause is kept; a cancel is the last packet.
- **Graph** - the edge arena is divided, without loss or overlap, between the live
  nodes and the free blocks; one node per state and lookup finds it; what is held
  stays; what went stale stays stale.
- **Progress** - each work ends exactly once; what the Policy was told of prepared
  backups and reserved edges is what the path holds; the books balance when the
  search stops, whatever was refused on the way.
- **Evaluator** - a request is answered once, with its own result; a request in
  flight has a lane; the batch is freed exactly when its last item is done.
- **Cohort** - the fixed number of rounds suffices; rounds do not overlap.
- **Adapter** - lower objects are released children first, or retained and
  reported; none is lost; one that would not close is not closed again; the flags
  that block a close are taken back on every path.
- **Device search** - what lane 0 acts on is the answer of the lanes about that
  node, and no failing lane is passed over; each work is committed, abandoned or quarantined once, and then holds nothing;
  every reservation of an edge is released, where the cancellation is looked at early, too.

`PROJECT.json` lists the parts, modelled or not, under `components`, and under
`hazards` every place in this code where a test would hardly reach a mistake.

## 2. Modules

| Module | What it is |
|---|---|
| `SnapshotRegister` | abstract: a register of one snapshot; reads give a current one or nothing |
| `ResidentOutput` | the double buffer, one step per shared word |
| `ResidentOutput_proofs` | its theorems |
| `ResidentSession` | the mailbox, `apply`, the stop latch and the round loop |
| `ResidentSession_proofs` | its theorems |
| `Spans` | the span functions as operators on the words of a store |
| `GraphStore` | hash table, reclamation, admission and realization as operators on the words of the graph |
| `GraphStore_proofs` | what each of these operators keeps: lemmas, no theorem of a specification |
| `ResidentProgress` | the three kernels of a round on that graph: packets, evaluation, descent, backup, the end |
| `ResidentProgress_proofs` | its theorems |
| `EvaluationSlots` | abstract: a request is answered once, with its own result |
| `TensorEvaluator` | slots, batch, lanes and the calls on them, one step per shared effect |
| `TensorEvaluator_proofs` | its theorems |
| `EvaluatorCohort` | the same actions composed with the block's rounds and barriers |
| `EvaluatorCohort_proofs` | its theorem, from the evaluator's invariant |
| `AdapterLifecycle` | one prepared execution of the runtime adapter, cut at every `await` |
| `AdapterLifecycle_proofs` | what each step does, and its theorems |
| `DeviceSearch` | a search by one thread, or by a block of lanes together, one launch |
| `DeviceSearch_proofs` | its theorems |
| `MC...` | small constants for TLC |

### ResidentOutput
`authority` holds words 1 to 5 of the authority buffer; `status[s]` is the first
word of slot `s` with the code's five values; `words[s]` the others. Row words are
abstracted to the publication they belong to, since what a reader could see wrong
is rows of two publications in one copy. `ctl` and `rd[r]` are the program
counters and locals of the controller and of each reader kernel; straight-line
sequences of loads or stores are word orders (`NextFence`, `NextWord`, ...), so that
each word is a step of its own without an action per word. `published` is a
history of the captured words. `Terminal` is the read the controller makes when
it stops. `FinalRound` and `PublishProgress` follow `resident-entries.mjs`;
`PublishFocus` is the commit part of `apply`. Memory is sequentially consistent:
the code orders its words by device-scope release and acquire, and the model has
no weaker order.

### ResidentSession
`command` is the mailbox; a packet's state and action payload is abstracted to
what decides its fate: kind, arena, the expected focus, identity, generation.
`Width` words of identity are compared as `equal128` and `newer128` do. The
results of Domain replay, Graph admission, Output reservation and publication,
and the Progress round are free choices over what those calls return, failures
included, so each way out of `apply` is taken. `Repeats` is the continuation's
condition, `Latched` the first-cause latch.

### Spans, GraphStore, ResidentProgress
The graph functions run to completion on one device thread, so each is an operator
from the words before a call to the words after it. A domain is a constant: the
successors and the hash of each state, and the states an admission refuses before the lookup
(`Malformed`) or after it (`Unplayable`). Hooks that may refuse are choices.

`ResidentProgress` is their client. A round is `control` (`NoPacket`, `CancelPacket`,
`ReplayFails`, `AdmitFocus`, `AdvanceFocus`), `Body`, and the controller kernel, which is cut at the
nodes of a descent (`Controller`, `Begin`, `Descend`, `Leaf`, `Evaluate`, `Fail`) only to
keep its many choices apart: no other kernel of the round runs in between. `Stop`,
`Release`, `Unprotect`, `Dispose` and `Backup` are functions from the words and the Policy's
ledger to the same, in the order of the code, so that each way out of a descent or a
backup goes through them. `policy` counts what the Policy was told: backups prepared and not
completed or abandoned, edges reserved and not released. `first`, `drain` and `stop` are
words 82, 83 and 17, and `final` word 84. Simplified: the Domain relates a state exactly
to an equal one on the path; disposition 2 of a transition (pressure) has the effect of
disposition 1; stop cause 10 (counters used up) is the cause 8; the round limit may be
reached in any round; the backup phase word is 0 between kernels and is left out.

### AdapterLifecycle
A coroutine per client call: a step runs from one `await` to the next, and any other
pending call may run in between. `owned` is what the maps of the execution name, `live`
what exists in the lower runtime, or was asked for and is not answered yet, and `failed`
the map of failed closings. The lower runtime is an assumption: it makes a handle while
what the handle is made from exists, it may refuse, fail or not close (`MaxFaults` times), and it
may leave any promise pending. `Polite` is what a client is expected to do: beside an ignition that
has not returned it only waits or describes, and beside a closing it does nothing. `Overlap` is
false in one run and true in the other. The code itself does not ask for that: an external
call, a delivery or a close looks at the state and the flags, and the state is "running" from the
submission on, while `ignite` still awaits the status of the operation (`StatusAnswer`) and gives
everything back when the status is refused. One handle stands for all those of a kind that the
preparation makes, and one transfer for the stages of a call.

### DeviceSearch
`core` says which of the two generated cores runs; they share the admission, the backup, the
release and the decision. The finite core is one thread: `Forgo`, `Claim` and `Visit` are
its loop, which looks at the cancellation word before a work is claimed and again after a node is
pushed, and asks the Policy before it expands. The rest of this section is the cooperative
core, whose `advance` looks before it pushes and expands before it asks.

`section` is the part between two barriers and `arrived` the lanes that wait at its
end; lane 0 alone works in each section but `merge`. A section of lane 0 is one step: the
lanes that wait read nothing it writes before the barrier. The cancellation word changes at
any time; it is read at the two points where the code reads it, at the start of `advance` and
before the first step of a backup. The hooks return what they like, lane by lane in the merge:
a value, "go on", an ordinary failure, or the word `Empty` (4294967295), which the contract allows
as a failure and `Merge` uses for "nobody has answered yet".
Assumed: the block is one warp whose lanes leave a barrier together and make the test that
follows it (`m[35]`, `m[6]`) there; `contract.md` describes the stages so, but nothing in
the generated text puts a barrier between that test and lane 0's next write.

### TensorEvaluator, EvaluatorCohort
Each generated function is cut where it touches a word another call may write; what
it read stays in the record of the call. `batchItemMatches` is one step: it reads
words that only the holder of the item's claim, or the former of the next batch,
change. (It and `Finish` load the state and the generation of the batch with the rest: while an
item is captured and not counted its batch can neither be freed nor formed anew, so neither word
moves between the loads.) Three assumptions, all taken from how the repository calls the
functions: an item is worked on by one worker at a time (the cohort gives each lane its own
item, and the resident search has one lane); a requester recycles its slot after the cancel calls
it made have returned; and no batch is begun while a call has added to the count (`Count`) and not
yet loaded the occupancy it compares its count with (`Compare`). The last one is `OrderlySpec`, and
the runs and theorems about `TensorEvaluator` are about it. `Spec` leaves it out, and there
`InFlightHasLane` is false: see section 3. `EvaluatorCohort` adds the block: lane 0 screens and
forms, barriers, one item per lane, `Rounds` rounds. That the block calls in this order is not
assumed there but checked and proved (`CallsInOrder`, `BlockIsOrderly`).

## 3. What is checked

Twelve runs. States are TLC's distinct states.

| Run | Question | Bounds and why they suffice |
|---|---|---|
| `output_reuse` (215,794) | Are slots exclusive, whole and never lost; does a reader see a reused root as new; does everyone come back? | one observer and the terminal read against the writer, so that three parties meet on two slots; three publications, so that a slot is reused while borrowed; two foci that differ only in the generation; two attempts |
| `output_terminal` (violation) | Is the terminal payload always delivered? | one observer and the code's three attempts |
| `session_screen` (644,218) | Does every way a packet is refused, retried, replayed or accepted leave mailbox, focus and identity right, and is a pending packet resolved? | three uploads of six packets over three rounds: accepted, then replayed or older, then newer; generations that differ in either word; pressure possible in each round |
| `session_replay` (violation) | Do generations order accepted packets when a packet without a generation is staged too? | three uploads, four rounds |
| `progress` (84,085) | Are the arena, the hash table, what is held, and the books right under reuse, refusal and cancellation? | four states that are admitted and a fifth that is refused, for three slots, four edge cells and three entries, two of them colliding; a cycle, so that a node occurs twice on a path; three pieces of work, two generations: enough for spans to merge on either side |
| `evaluator_items` (1,288,918) | Do slots, lanes and workers, called in order, keep the promise of `EvaluationSlots`? | two of each, two generations of slots and batches |
| `evaluator_cancel` (violation) | Is a request whose cancellation was acknowledged kept from becoming ready? | one of each |
| `evaluator_cohort` (8,886) | Are the rounds enough, separate and in the order the evaluator needs, and does the block leave? | up to three requests for two lanes: one full batch and one partial one |
| `adapter_polite` (32,012) | Is teardown dependency-safe, complete and honest when the lower runtime fails anywhere? | two calls pending at a time and two faults: one to make a cleanup start, one inside it |
| `adapter_overlap` (violation) | ... also when the client closes what it is igniting? | no faults are needed |
| `search_block` (91,472) | Is the merge of the lanes right, and is every work settled? | both cores; three lanes, so that one disagrees with two, or fails before or after them; a path that visits a node twice; two pieces of work; the last nonce within reach |
| `search_cancel` (violation) | Is every reservation of an edge released? | two lanes, one cancellation |

Symmetry is used for the workers of `evaluator_items`, which checks no liveness.
`CHECK_DEADLOCK FALSE` stands where the program ends: a search that stopped, slots
retired, a block that left, an execution that is closed. The 32-bit and 64-bit
limits at which the code refuses (`4294967294`, `2^64 - 1`) are small constants, so
that the refusal happens inside the run.

Five runs show the code doing other than a document of the repository says; the
details are in `PROJECT.json` under `findings`:

- `output_terminal`: observers can use up the attempts of the terminal read, which
  has no slot of its own.
- `session_replay`: a packet refused for a missing generation is recorded, and
  resets what later packets are compared with. `session_screen` has no such packet,
  and the theorem about order states that as its assumption.
- `evaluator_cancel`: between the load of the cancel flag and the claim in
  `publishItem` a cancel call answers "cancelled" for a request that becomes ready.
- `adapter_overlap`: `close` is admitted while `ignite` awaits its submission, and
  releases what the operation is being submitted on. The same gap (nothing marks an
  execution as closing until its cleanup was awaited) also admits a second close, a
  delivery or an external call during a close; `wait` writes `completed` over `closed`;
  and after a preinitialization inside `ignite` there is a turn of the event loop in which
  a second `ignite` or a `close` finds no flag set. From the submission until `status()` is
  answered (line 774) the execution is "running" while `ignite` is pending: an external call begun
  there may find its parents released by the cleanup of a refused status. `ClosesAlone` says what `adapter_polite`
  has instead.
- `search_cancel`: a cancellation after an edge was reserved and before its child is
  visited leaves the reservation. `WorkSettled` in `search_block` says that this is the only
  way: exactly the edge selected last, and only with stop cause 2. The finite core,
  which pushes before it looks, leaves none: `WorkSettled` says that, too.

Two more disagreements have no run of their own; each is where a property had to be stated with its
condition:

- `finishBatchItem` adds to the count (`runtime-contribution.mjs:290`) and loads the occupancy
  afterwards (line 291). Worker A counts the first of two items and is delayed; B counts the second
  and frees the batch; `formBatch` forms one of a single item; A now finds 0 + 1 = 1 and frees that
  batch with its item in flight. TLC finds this in 38 steps when the run `evaluator_items` is
  given `Spec` in place of `OrderlySpec`. The repository asks callers for a finite cohort in one block
  (`adapters/evaluators/cuda-js-tensor/README.md:32`, which leaves a multi-block service open), and
  there it cannot happen.
- A lane of a cooperative search that returns 4294967295 before any other lane has answered swaps
  the empty word for itself (`cooperative-device-search.mjs:118`), and the answer of the others is
  taken. `contract.md:17` calls every result but 0 and 1 a failure, and `cooperative.test.mjs:30`
  expects a failure to reject. `OneAnswer` says what is left: any other failure rejects, and so
  does this one when it comes after an answer or when all lanes return it.

With two command kernels, a kernel that polls while the other uploads reads words of two
packets, so `ReplyIsAnAnswer` is checked with one; the code promises nothing else, and
hosts serialise their commands. That two kernels never write at the same time, and that
packets are still answered in order, is proved for any number of them (section 4).

### Fairness
`ReaderFairSpec`: each reader kernel that was launched goes on (weak fairness of its
steps); the controller has none, so `ReadersAnswer` and `SpareReturns` do not depend
on it. `FairSpec` of the Session: command kernels and the controller go
on, as running kernels do; the host is not obliged to launch anything.
The adapter has no liveness property and no fairness: a promise of the lower runtime may
stay pending for ever. `CohortSpec`:
each lane, and lane 0's screening and forming, go on; the host need not cancel.
No strong fairness is assumed anywhere.

## 4. What is proved

Every theorem is proved for all values of the constants; what it assumes of them is named
with it. Each module of proofs states an invariant `IInv` that is inductive (TLC checked
each of them on the runs' instances before it was proved), shows `Init => IInv` and that every
action keeps it, and draws the runs' properties from it. (Of the invariant of Progress TLC cannot
enumerate the layout of the arena, which quantifies over sets of blocks and over rankings; it
checked the other parts, and `ArenaDivided` for that one.)

| Module | Theorems | Assumes |
|---|---|---|
| `ResidentOutput_proofs` | `TypeCorrect`, `BorrowExclusive`, `BorrowedUnwritten`, `SpareNeverLeaks`, `CurrentServable`, `AnswersWhole`; `OutputImplementsRegister`: the double buffer implements `SnapshotRegister` | `OutputAssumption`: types, and `Terminal` is not an observer |
| `ResidentSession_proofs` | `TypeCorrect`, `UploadsExclude`, `AnsweredOnceInOrder`, `FirstCauseKept`, `AnswersAreKept` | `SessionAssumption`: types |
| | `FocusGenerationsRise` | every staged packet carries an identity and a generation |
| | `ReplyIsWhole` | one command kernel at a time, as the adapter launches them |
| `ResidentProgress_proofs`, on `GraphStore_proofs` | `TypeCorrect`, `ArenaStaysDivided`, `StatesAreUnique`, `ChildrenFollow`, `HeldNodesHold`, `LedgerHolds`, `EndsInBalance` | `SpansAssumption`, `GraphAssumption`, `ProgressAssumption`: positive capacities, no state with more moves than `MaxActions`, at most `TTCapacity` probes |
| `TensorEvaluator_proofs` | `TypeCorrect`, `ResultIsOwn`, `FlightHasLane`, `BatchEnds`, `NeverStale`; `EvaluatorImplementsSlots`: the runtime implements `EvaluationSlots` | `EvaluatorAssumption`: types; that an item is in one hand is a guard of the model, and the order of the calls is `OrderlySpec` (section 2) |
| `EvaluatorCohort_proofs` | `CohortSettles`: rounds do not overlap and are enough; `BlockIsOrderly`: the block calls in the order of `OrderlySpec` | one worker a lane; no more rounds than the batch has generations (2^64 - 1) |
| `AdapterLifecycle_proofs` | `TypeCorrect`, `ParentsOutlive`, `HandlesKnown`, `ReportsHold`, `FlagsHold`, `CleanupAlone`, `QuarantineHolds` | the client only waits or describes beside an ignition and does nothing beside a closing (`Overlap` is false), as in `adapter_polite`; `adapter_overlap` shows what happens else |
| `DeviceSearch_proofs` | `TypeCorrect`, `OneAnswerHolds`, `WorkSettles`, `FiniteCoreReleases`, `PathsFit` | `SearchAssumption`: types, lane 0 exists |

**The argument for the Output.** The properties are not inductive. The invariant is
`IInv == TypeOK /\ BorrowOK /\ ContentOK /\ KnowledgeOK`:

- `BorrowOK` ties the status of each slot to the program counters: which statuses the
  spare and the current slot can have at each point of the controller, and that a
  slot marked borrowed has exactly one holder. `BorrowExclusive`, `BorrowedUnwritten`
  and `SpareNeverLeaks` follow from it.
- `ContentOK` says what the words hold: the current slot is the last publication, the
  spare one is written up to the controller's position, and any slot that can be
  borrowed is one whole publication, except the one about to be announced.
- `KnowledgeOK` says what a reader may rely on at each of its program counters:
  the publication it saw, what its copy agrees with, and the bound from below on how
  old it may be. The re-check then gives `AnswersWhole`; the refinement shows that at
  the last re-checked word the snapshot is still the latest one.

**The argument for the Session.** `IInv == TypeOK /\ RoundsLeft /\ MailboxOK`, where
`MailboxOK` adds to the two properties that the controller is inside `apply` only
while the mailbox is pending. For the order of generations, `StagedOK` says that what is
in the mailbox was staged by the host, and `OrderOK` that the recorded generation is as
new as any accepted one and that a screened packet is newer; `NewerTransitive` proves
`newer128` transitive for any width.

`AnswersHold` rests on `AnswersOK`: the focus is moved only between the commit and the
acknowledgement of one packet, a packet is applied only while nothing has stopped or cancelled
the search, and only a quarantine (first cause 11) leaves the focus moved for good.
`ReplyIsAnAnswer` rests on `ReplyOK`: an acknowledged mailbox is changed by a command kernel
only, so that with one of them the words it reads are those of one answer.

**The argument for graph and progress.** The graph is dealt with as a data structure first:
`GraphStore_proofs` shows of each function of the graph that it keeps `GraphInv` and, of what
callers rely on, `Tended` (protected nodes with their leased edges, the protections themselves)
and `Steered` (where the edges of protected nodes lead, but for the one edge `realize` sets).

- `Layout`, `Lists` and `Ranked` say of the span store that free and taken blocks divide the arena
  with equal tags at both ends and no two free neighbours, that each free block is linked in the
  list of its length, and that no list is a circle. A hole (the cells a function has taken off and
  not put back yet) carries them through `spanUnlink`, the merges of `spanFree` and the split of
  `spanAllocate`. `ChainLemma` walks a list by well-founded induction on the rank.
- `Slotted` is the free list of node slots: it is entered nowhere twice, so a slot popped is
  nobody's. `Known`: the entry of a live node lies among its probes and before the first
  unused entry, which reclamation cannot create, since it leaves tombstones. `Spaced` gives
  each live node with candidates its own taken block; `Bred` says that what an edge remembers
  of a child was true of that generation of its slot.

`ResidentProgress_proofs` adds accounts. `Books(x, k)` says what a situation `x` still holds
when the first `k` occurrences of its path have let go: protections, distinct leases, prepared
backups, the totals and the Policy's ledger are the counts over the occurrences ahead. Disposal
goes from `Books(x, 0)` to `Books(x, Len(path))` one occurrence at a time, and an advance adds one;
since every failure goes through `dispose`, each is covered by the same lemma. `Kempt` is
`Books(x, 0)` with what ties each occurrence to the one before, and `IInv` adds what is pending at each place
of the thread. That no counter falls below zero, and no `dispose` finds an edge or a node
stale (stop 11), follows. `Joined` says that each edge of the path leads to the node that follows
it, and the loose edge to the node to be reached next; it is inductive relative to `IInv`
(`AlwaysJoined`), and the two give `Intact`, the part of `HeldNodesLive` about what `backup`
checks: in no reachable state would it find its path changed.

**The argument for the evaluator.** What makes the checks of `batchItemMatches` enough is that a
token of the present batch stays true until its own item is published, and is in one hand
(`Held`, `Knows`); a token of an older batch never becomes true again. On that rest: a slot that is
published or queued again is in one hand (`Taken`), what is staged for a request on its way
through the lane is its own (`Stages`), a slot in flight has its lane (`InFlight`), and an item
nobody finished has an open request (`Open`). `Accounted` counts: the published lanes are the
counted ones and those about to be. `Ends` follows a call from its count to the comparison: while
it lies in between nobody begins a batch, so the occupancy it loads is that of the batch it
counted in, and exactly one worker sees the last and frees the batch. In
the refinement `AdmitFill` is `Submit` or `Retire`, `CancelStore` and `Release` are `Answer`,
`Recycle` is `Free`, and every other step stutters.

**The argument for the cohort.** Every step of the block is a step of the evaluator
(`BlockSteps`), so that its invariant is taken over. `CohortInv` adds the rounds (`Staged`), that
the lanes at work are in their own stage with an item of this batch (`Serving`), and a count
(`Fitting`): what is queued after `round` batches, and what is in the batch, fits in the rounds
left, because a batch that leaves something in the queue is full. `Serving` also gives
`CallsInOrder`: lane 0 forms a batch when every lane has returned from its item.

**The argument for the adapter.** The first part of `AdapterLifecycle_proofs` says once what each action changes,
and the rest uses only that. `IInv` has three parts: `Shapes`, the values; `Admits`, which calls there
can be together (the flags are set exactly while a call they stand for is pending, so that what
admits a call can be trusted on every path of a failure); `Holds`, what the execution and each
pending call own, and how far a cleanup has come: the stages before its own are empty, or kept
with what would not close. `DependencySafe` is the hardest: a parent is closed only after
its children's stage was passed, and nothing that would ask for a child of it can be pending then.

**The argument for the device searches.** `IInv` ties the section and the lanes that have arrived to
the loop (`Flow`), counts each work once (`Counts`), makes protection and reservation functions of
the path (`Protection`, `Flight`), and carries `OneAnswer` through the merge (`Merging`): each lane that
has arrived gave the merged word or the empty one, and one of them gave the merged word unless it is
still empty, or they are known to differ.

**What the proofs found.** A CASE in the refinement mapping of the evaluator had arms that
overlapped, which TLC resolves by their order and the language does not; it was corrected.

**Only model-checked.** Liveness (`BlockLeaves` and the other properties with `<>`: fairness needs
ENABLED, which is out of reach of this prover) and the five properties that runs show violated.
Every invariant of a passing run is proved. Only proved: `UploadsExclude`, which is plain with the
one kernel of the runs, `FiniteCoreReleases`, `PathsFit`, `NeverStale`.

## 5. Not modelled

- Re-entry of a cooperative search that is over (it replaces stop 11 by 6 and may decide):
  one launch is modelled, as the contract speaks of one invocation per operation.
- The warp-collective variant of the item service: its lanes cooperate on one item's
  data, its control is that of the item functions.
- Lanes of a block that fall behind each other after a barrier (see DeviceSearch).
- Numeric content of policies and tensors, encodings of rows, text generation.
- Normalizers, composer and package, admission of plans: pure functions over documents.
  They and the conformance suites are the larger part of the repository's lines; nothing
  in them changes state between two calls.
- Weak memory: all words are accessed with device-scope acquire and release or
  compare-and-swap where kernels share them, and the model is sequentially consistent.
- The reference machines of `experiments/search-semantics-reference`, the prototypes,
  fixtures, conformance suites, scripts and documents.

## 6. Plan

Done so far, in this order: Output, Session, graph, evaluator and cohort; Progress, the
adapter and the device searches; the proofs of every invariant the passing runs check.
What is left:

1. **Reference machines** of `experiments/search-semantics-reference`: resource ledger,
   session, graph reclaim, framework lifecycle, where they state contracts the generated
   code does not show.
