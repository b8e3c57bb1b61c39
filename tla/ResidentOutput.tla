--------------------------- MODULE ResidentOutput ---------------------------
(***************************************************************************)
(* The double-buffered Output of the resident search: one device-owned     *)
(* controller publishes root snapshots into two slots, observer kernels    *)
(* borrow the current slot with compare-and-swap, copy it and re-check the *)
(* authority words, and the controller reads its own terminal payload the  *)
(* same way when the search stops.                                         *)
(*                                                                         *)
(* Source: components/search-compiler/src/resident-session-output.mjs      *)
(* (reserve, release, acquire, publish, observe, terminal) and the callers *)
(* in resident-entries.mjs.  Every atomic load, store and compare-and-swap *)
(* on a word another kernel writes is a step of its own.                   *)
(***************************************************************************)
EXTENDS Integers, Sequences, FiniteSets

CONSTANTS
    Observers,        \* observer kernels that may run at the same time
    Terminal,         \* the terminal read made by the controller itself
    Foci,             \* focus roots: records [root, generation]
    MaxPublication,   \* stands for 4294967294, where publication is refused
    MaxEpoch,         \* stands for 4294967294, where focus changes are refused
    Attempts          \* acquire's attempts, 3 in the code

ASSUME OutputAssumption ==
    /\ Terminal \notin Observers
    /\ Foci # {}
    /\ Foci \subseteq [root: Nat, generation: Nat]
    /\ MaxPublication \in Nat \ {0}
    /\ MaxEpoch \in Nat \ {0}
    /\ Attempts \in Nat \ {0}

Readers == Observers \cup {Terminal}

\* Slot states (layout.slotStates)
Vacant == 0
Writing == 1
Ready == 2
Borrowed == 3
RetiredBorrowed == 4

Slots == {0, 1}
FenceWords == {"root", "generation", "epoch"}
HeaderWords == FenceWords \cup {"publication"}

\* Row words stand for the payload: they carry the publication they belong to.
SlotWords == HeaderWords \cup {"rows"}
AuthorityWords == HeaderWords \cup {"slot"}

\* Straight-line code as word orders: the word that follows each word.
NextFence == [root |-> "generation", generation |-> "epoch", epoch |-> "end"]
NextWord == [publication |-> "root", root |-> "generation",
             generation |-> "epoch", epoch |-> "rows", rows |-> "end"]
NextRecheck == [root |-> "generation", generation |-> "epoch",
                epoch |-> "publication", publication |-> "end"]

VARIABLES
    authority,   \* authority[1..5]: the fence, the publication, its slot
    status,      \* snapshot[base] of each slot
    words,       \* the other words of each slot
    ctl,         \* the controller: program counter and private header words
    rd,          \* each reader: program counter and locals
    published    \* history: the words each publication was captured with

vars == <<authority, status, words, ctl, rd, published>>

Blank == [w \in SlotWords |-> 0]
Fence(r) == [w \in FenceWords |-> r[w]]
Idle == [pc |-> "idle", at |-> "end", want |-> [w \in FenceWords |-> 0],
         attempt |-> 0, seen |-> 0, slot |-> 0, copy |-> Blank,
         result |-> "none", from |-> 0]

\* The state bootstrap leaves: publication 1 of the initial root in slot 0.
Bootstrapped(f) ==
    LET first == [publication |-> 1, root |-> f.root,
                  generation |-> f.generation, epoch |-> 1, rows |-> 1]
    IN  /\ authority = [root |-> f.root, generation |-> f.generation,
                        epoch |-> 1, publication |-> 1, slot |-> 0]
        /\ status = [s \in Slots |-> IF s = 0 THEN Ready ELSE Vacant]
        /\ words = [s \in Slots |-> IF s = 0 THEN first ELSE Blank]
        /\ ctl = [pc |-> "idle", at |-> "end", purpose |-> "progress",
                  focus |-> Fence(first), loaded |-> Vacant,
                  quarantined |-> FALSE]
        /\ rd = [r \in Readers |-> Idle]
        /\ published = <<first>>

Init == \E f \in Foci : Bootstrapped(f)

-----------------------------------------------------------------------------
(* The controller: reserve, apply's commit of a focus, publish.            *)

Spare == 1 - authority["slot"]
Captured == [publication |-> authority["publication"] + 1,
             root |-> ctl.focus["root"], generation |-> ctl.focus["generation"],
             epoch |-> ctl.focus["epoch"],
             rows |-> authority["publication"] + 1]

\* reserve: the status of the spare slot is loaded; anything but vacant or
\* ready is pressure, and the caller returns without a publication.
ReserveLoad(purpose, focus) ==
    /\ ctl.pc = "idle" /\ ~ctl.quarantined
    /\ authority["publication"] < MaxPublication
    /\ status[Spare] \in {Vacant, Ready}
    /\ ctl' = [ctl EXCEPT !.pc = "reserve", !.purpose = purpose,
                          !.loaded = status[Spare],
                          !.focus = focus]
    /\ UNCHANGED <<authority, status, words, rd, published>>

\* The controller entry publishes when the root facts changed.
PublishProgress == ReserveLoad("progress", ctl.focus)

\* apply: an accepted admit or ready advance reserves before it commits.  The
\* new focus takes effect on the header words only after the reservation.
PublishFocus ==
    /\ authority["epoch"] < MaxEpoch
    /\ \E f \in Foci :
          ReserveLoad("focus", [root |-> f.root, generation |-> f.generation,
                                epoch |-> authority["epoch"] + 1])

\* reserve: CAS(status, writing).  Losing it is pressure, and the focus stays.
ReserveCas ==
    /\ ctl.pc = "reserve"
    /\ IF status[Spare] = ctl.loaded
       THEN /\ status' = [status EXCEPT ![Spare] = Writing]
            /\ ctl' = [ctl EXCEPT
                          !.pc = IF ctl.purpose = "focus" THEN "commit" ELSE "write",
                          !.at = IF ctl.purpose = "focus" THEN "root" ELSE "publication"]
       ELSE /\ ctl' = [ctl EXCEPT !.pc = "idle", !.focus = Fence(authority)]
            /\ UNCHANGED status
    /\ UNCHANGED <<authority, words, rd, published>>

\* apply stores the authority fence one word at a time.
CommitWord ==
    /\ ctl.pc = "commit"
    /\ authority' = [authority EXCEPT ![ctl.at] = ctl.focus[ctl.at]]
    /\ ctl' = IF NextFence[ctl.at] = "end"
              THEN [ctl EXCEPT !.pc = "write", !.at = "publication"]
              ELSE [ctl EXCEPT !.at = NextFence[ctl.at]]
    /\ UNCHANGED <<status, words, rd, published>>

\* Mutant of WriteWord: the row base is taken from the old slot.
WriteWordOld ==
    /\ ctl.pc = "write"
    /\ words' = [words EXCEPT ![IF ctl.at = "rows" THEN authority["slot"] ELSE Spare][ctl.at]
                                  = Captured[ctl.at]]
    /\ ctl' = IF NextWord[ctl.at] = "end"
              THEN [ctl EXCEPT !.pc = "ready", !.at = "end"]
              ELSE [ctl EXCEPT !.at = NextWord[ctl.at]]
    /\ UNCHANGED <<authority, status, rd, published>>

\* publish fills the reserved slot word by word.
WriteWord ==
    /\ ctl.pc = "write"
    /\ words' = [words EXCEPT ![Spare][ctl.at] = Captured[ctl.at]]
    /\ ctl' = IF NextWord[ctl.at] = "end"
              THEN [ctl EXCEPT !.pc = "ready", !.at = "end"]
              ELSE [ctl EXCEPT !.at = NextWord[ctl.at]]
    /\ UNCHANGED <<authority, status, rd, published>>

\* Mutant of WriteFails: the early return leaves the slot in writing.
WriteFailsLeak ==
    /\ ctl.pc = "write" /\ ctl.at = "rows"
    /\ ctl' = [ctl EXCEPT !.pc = "idle", !.at = "end",
                          !.quarantined = ctl.purpose = "focus"]
    /\ UNCHANGED <<authority, status, words, rd, published>>

\* A row that fails its edge check or its encoding hook vacates the slot; in
\* the commit of a focus, the fence already stored, the search is quarantined.
WriteFails ==
    /\ ctl.pc = "write" /\ ctl.at = "rows"
    /\ status' = [status EXCEPT ![Spare] = Vacant]
    /\ ctl' = [ctl EXCEPT !.pc = "idle", !.at = "end",
                          !.quarantined = ctl.purpose = "focus"]
    /\ UNCHANGED <<authority, words, rd, published>>

MarkReady ==
    /\ ctl.pc = "ready"
    /\ status' = [status EXCEPT ![Spare] = Ready]
    /\ ctl' = [ctl EXCEPT !.pc = "publication"]
    /\ UNCHANGED <<authority, words, rd, published>>

StorePublication ==
    /\ ctl.pc = "publication"
    /\ authority' = [authority EXCEPT !["publication"] = @ + 1]
    /\ published' = Append(published, Captured)
    /\ ctl' = [ctl EXCEPT !.pc = "slot"]
    /\ UNCHANGED <<status, words, rd>>

StoreSlot ==
    /\ ctl.pc = "slot"
    /\ authority' = [authority EXCEPT !["slot"] = Spare]
    /\ ctl' = [ctl EXCEPT !.pc = "retire"]
    /\ UNCHANGED <<status, words, rd, published>>

\* Mutant of Retire: the compare-and-swap addresses the new slot.
RetireNew ==
    /\ ctl.pc = "retire"
    /\ status' = [status EXCEPT ![authority["slot"]] = IF @ = Ready THEN Vacant ELSE @]
    /\ ctl' = [ctl EXCEPT !.pc = IF status[Spare] = Borrowed THEN "retireBorrowed"
                                                             ELSE "idle"]
    /\ UNCHANGED <<authority, words, rd, published>>

\* CAS(old, ready, vacant); only a prior of borrowed leads to the second CAS.
Retire ==
    /\ ctl.pc = "retire"
    /\ status' = [status EXCEPT ![Spare] = IF @ = Ready THEN Vacant ELSE @]
    /\ ctl' = [ctl EXCEPT !.pc = IF status[Spare] = Borrowed THEN "retireBorrowed"
                                                             ELSE "idle"]
    /\ UNCHANGED <<authority, words, rd, published>>

\* CAS(old, borrowed, retiredBorrowed); the borrower may have released it.
RetireBorrowed ==
    /\ ctl.pc = "retireBorrowed"
    /\ status' = [status EXCEPT ![Spare] = IF @ = Borrowed THEN RetiredBorrowed ELSE @]
    /\ ctl' = [ctl EXCEPT !.pc = "idle"]
    /\ UNCHANGED <<authority, words, rd, published>>

\* The last round: the controller makes its terminal read, once.
FinalRound ==
    /\ ctl.pc = "idle"
    /\ ctl' = [ctl EXCEPT !.pc = "stopped"]
    /\ rd' = [rd EXCEPT ![Terminal] =
                 [Idle EXCEPT !.pc = "fence", !.at = "root", !.want = Fence(authority),
                              !.from = authority["publication"]]]
    /\ UNCHANGED <<authority, status, words, published>>

Controller ==
    \/ PublishProgress \/ PublishFocus \/ ReserveCas \/ CommitWord \/ WriteWord
    \/ WriteFails \/ MarkReady \/ StorePublication \/ StoreSlot \/ Retire
    \/ RetireBorrowed \/ FinalRound

-----------------------------------------------------------------------------
(* The readers: acquire, observe, release, terminal.                       *)


NextCheck == [publication |-> "authorityPublication",
              authorityPublication |-> "root", root |-> "generation",
              generation |-> "epoch", epoch |-> "authorityEpoch",
              authorityEpoch |-> "authoritySlot", authoritySlot |-> "end"]

\* acquire's conditions on the borrowed slot, in the order of its || chain.
Checks(r, at) ==
    LET me == rd[r] IN
    CASE at = "publication" -> words[me.slot]["publication"] = me.seen
      [] at = "authorityPublication" -> authority["publication"] = me.seen
      [] at = "authorityEpoch" -> authority["epoch"] = me.want["epoch"]
      [] at = "authoritySlot" -> authority["slot"] = me.slot
      [] OTHER -> words[me.slot][at] = me.want[at]

Goto(r, pc, at) == rd' = [rd EXCEPT ![r].pc = pc, ![r].at = at]

\* The kernel's answer: "ready" with its copy, or "unavailable".
Answer(r, result) ==
    rd' = [rd EXCEPT ![r] =
              IF result = "ready"
              THEN [rd[r] EXCEPT !.pc = "done", !.attempt = 0, !.seen = 0, !.slot = 0,
                                 !.result = "ready"]
              ELSE [Idle EXCEPT !.pc = "done", !.result = "unavailable"]]

\* Mutant of Retry: one attempt too many.
RetryOneMore(r) ==
    IF rd[r].attempt < Attempts
    THEN rd' = [rd EXCEPT ![r].pc = "fence", ![r].at = "root",
                          ![r].attempt = @ + 1, ![r].seen = 0, ![r].slot = 0,
                          ![r].result = "none"]
    ELSE Answer(r, "unavailable")

\* Mutant of Retry: the loop has no bound.
RetryForever(r) ==
    rd' = [rd EXCEPT ![r].pc = "fence", ![r].at = "root", ![r].seen = 0,
                     ![r].slot = 0, ![r].result = "none"]

\* continue in acquire's loop: the next attempt, or no slot after the last one.
Retry(r) ==
    IF rd[r].attempt + 1 < Attempts
    THEN rd' = [rd EXCEPT ![r].pc = "fence", ![r].at = "root",
                          ![r].attempt = @ + 1, ![r].seen = 0, ![r].slot = 0,
                          ![r].result = "none"]
    ELSE Answer(r, "unavailable")

Resume(r) ==
    IF rd[r].result = "retry" THEN Retry(r) ELSE Answer(r, rd[r].result)

\* A launch asks for a fence the host has been told of by a reply.
Observe(o) ==
    /\ rd[o].pc \in {"idle", "done"}
    /\ \E p \in DOMAIN published :
          rd' = [rd EXCEPT ![o] = [Idle EXCEPT !.pc = "fence", !.at = "root",
                                      !.want = Fence(published[p]),
                                      !.from = authority["publication"]]]
    /\ UNCHANGED <<authority, status, words, ctl, published>>

CheckFence(r) ==
    /\ rd[r].pc = "fence"
    /\ IF authority[rd[r].at] # rd[r].want[rd[r].at]
       THEN Answer(r, "unavailable")
       ELSE IF NextFence[rd[r].at] = "end" THEN Goto(r, "publication", "end")
            ELSE Goto(r, "fence", NextFence[rd[r].at])
    /\ UNCHANGED <<authority, status, words, ctl, published>>

LoadPublication(r) ==
    /\ rd[r].pc = "publication"
    /\ rd' = [rd EXCEPT ![r].pc = "slot", ![r].seen = authority["publication"]]
    /\ UNCHANGED <<authority, status, words, ctl, published>>

LoadSlot(r) ==
    /\ rd[r].pc = "slot"
    /\ rd' = [rd EXCEPT ![r].pc = "borrow", ![r].slot = authority["slot"]]
    /\ UNCHANGED <<authority, status, words, ctl, published>>

\* Mutant of Borrow: a slot another reader borrowed is borrowed again.
BorrowShared(r) ==
    /\ rd[r].pc = "borrow"
    /\ IF status[rd[r].slot] \in {Ready, Borrowed}
       THEN /\ status' = [status EXCEPT ![rd[r].slot] = Borrowed]
            /\ Goto(r, "check", "publication")
       ELSE Retry(r) /\ UNCHANGED status
    /\ UNCHANGED <<authority, words, ctl, published>>

\* CAS(slot, ready, borrowed)
Borrow(r) ==
    /\ rd[r].pc = "borrow"
    /\ IF status[rd[r].slot] = Ready
       THEN /\ status' = [status EXCEPT ![rd[r].slot] = Borrowed]
            /\ Goto(r, "check", "publication")
       ELSE Retry(r) /\ UNCHANGED status
    /\ UNCHANGED <<authority, words, ctl, published>>

Check(r) ==
    /\ rd[r].pc = "check"
    /\ IF ~Checks(r, rd[r].at)
       THEN rd' = [rd EXCEPT ![r].pc = "release", ![r].at = "end", ![r].result = "retry"]
       ELSE IF NextCheck[rd[r].at] = "end" THEN Goto(r, "copy", "publication")
            ELSE Goto(r, "check", NextCheck[rd[r].at])
    /\ UNCHANGED <<authority, status, words, ctl, published>>

\* observe and terminal copy the same words; only observe re-checks authority.
Copy(r) ==
    /\ rd[r].pc = "copy"
    /\ LET at == rd[r].at
           last == NextWord[at] = "end"
       IN  rd' = [rd EXCEPT
              ![r].copy[at] = words[rd[r].slot][at],
              ![r].pc = IF ~last THEN "copy"
                        ELSE IF r = Terminal THEN "release" ELSE "recheck",
              ![r].at = IF ~last THEN NextWord[at]
                        ELSE IF r = Terminal THEN "end" ELSE "root",
              ![r].result = IF last /\ r = Terminal THEN "ready" ELSE @]
    /\ UNCHANGED <<authority, status, words, ctl, published>>

\* Mutant of Recheck: the authority is not read again.
RecheckNothing(r) ==
    /\ rd[r].pc = "recheck"
    /\ rd' = [rd EXCEPT ![r].pc = "release", ![r].at = "end", ![r].result = "ready"]
    /\ UNCHANGED <<authority, status, words, ctl, published>>

\* Even a matching snapshot may hold no row that passes the restriction.
Recheck(r) ==
    /\ rd[r].pc = "recheck"
    /\ LET at == rd[r].at
           same == IF at = "publication" THEN authority[at] = rd[r].copy[at]
                                         ELSE authority[at] = rd[r].want[at]
           leave(result) == rd' = [rd EXCEPT ![r].pc = "release", ![r].at = "end",
                                             ![r].result = result]
       IN  \/ ~same /\ leave("unavailable")
           \/ same /\ NextRecheck[at] # "end" /\ Goto(r, "recheck", NextRecheck[at])
           \/ same /\ NextRecheck[at] = "end" /\ leave("ready")
           \/ same /\ NextRecheck[at] = "end" /\ leave("unavailable")
    /\ UNCHANGED <<authority, status, words, ctl, published>>

\* Mutant of Release: a slot retired under the borrow is not given back.
ReleaseForgetsRetired(r) ==
    /\ rd[r].pc = "release"
    /\ status' = [status EXCEPT ![rd[r].slot] = IF @ = Borrowed THEN Ready ELSE @]
    /\ Resume(r)
    /\ UNCHANGED <<authority, words, ctl, published>>

\* release: CAS(borrowed, ready); only a prior of retiredBorrowed leads on.
Release(r) ==
    /\ rd[r].pc = "release"
    /\ status' = [status EXCEPT ![rd[r].slot] = IF @ = Borrowed THEN Ready ELSE @]
    /\ IF status[rd[r].slot] = RetiredBorrowed THEN Goto(r, "releaseRetired", "end")
                                               ELSE Resume(r)
    /\ UNCHANGED <<authority, words, ctl, published>>

\* CAS(retiredBorrowed, vacant)
ReleaseRetired(r) ==
    /\ rd[r].pc = "releaseRetired"
    /\ status' = [status EXCEPT ![rd[r].slot] = IF @ = RetiredBorrowed THEN Vacant ELSE @]
    /\ Resume(r)
    /\ UNCHANGED <<authority, words, ctl, published>>

Step(r) ==
    \/ CheckFence(r) \/ LoadPublication(r) \/ LoadSlot(r) \/ Borrow(r) \/ Check(r)
    \/ Copy(r) \/ Recheck(r) \/ Release(r) \/ ReleaseRetired(r)

Next ==
    \/ Controller
    \/ \E o \in Observers : Observe(o)
    \/ \E r \in Readers : Step(r)

Spec == Init /\ [][Next]_vars

\* A launched kernel runs to its end whatever the other kernels do.
ReaderFairSpec == Spec /\ \A r \in Readers : WF_vars(Step(r))

-----------------------------------------------------------------------------
(* Properties                                                              *)

Words == [SlotWords -> Nat]
ControllerPcs == {"idle", "reserve", "commit", "write", "ready", "publication",
                  "slot", "retire", "retireBorrowed", "stopped"}
HoldingPcs == {"check", "copy", "recheck", "release", "releaseRetired"}
ReaderPcs == HoldingPcs \cup {"idle", "fence", "publication", "slot", "borrow", "done"}

ControllerStates ==
    [pc: ControllerPcs, at: SlotWords \cup {"end"}, purpose: {"progress", "focus"},
     focus: [FenceWords -> Nat], loaded: {Vacant, Ready}, quarantined: BOOLEAN]
ReaderStates ==
    [pc: ReaderPcs, at: SlotWords \cup DOMAIN NextCheck \cup {"end"},
     want: [FenceWords -> Nat], attempt: 0 .. Attempts - 1, seen: Nat, slot: Slots,
     copy: Words, result: {"none", "retry", "ready", "unavailable"}, from: Nat]

AuthorityOK == authority \in [AuthorityWords -> Nat] /\ authority["slot"] \in Slots
StatusOK == status \in [Slots -> Vacant .. RetiredBorrowed]
WordsOK == words \in [Slots -> Words]
HistoryOK == published \in Seq(Words) /\ Len(published) > 0
ControllerOK ==
    /\ ctl \in ControllerStates
    /\ ctl.pc = "commit" => ctl.at \in FenceWords
    /\ ctl.pc = "write" => ctl.at \in SlotWords
ReaderOK(me) ==
    /\ me \in ReaderStates
    /\ me.pc = "fence" => me.at \in FenceWords
    /\ me.pc = "check" => me.at \in DOMAIN NextCheck
    /\ me.pc = "copy" => me.at \in SlotWords
    /\ me.pc = "recheck" => me.at \in HeaderWords
    /\ me.result # "none" <=> me.pc \in {"release", "releaseRetired", "done"}
ReadersOK == DOMAIN rd = Readers /\ \A r \in Readers : ReaderOK(rd[r])

\* The type invariant of the authority, the slots, the controller, the readers
\* and the history: acquire never exceeds its attempts, and each program
\* counter comes with an operand its code can be at.
TypeOK ==
    /\ AuthorityOK /\ StatusOK /\ WordsOK /\ ControllerOK /\ ReadersOK /\ HistoryOK

Holds(r, s) == rd[r].pc \in HoldingPcs /\ rd[r].slot = s

\* A slot is marked borrowed exactly while one reader is between its
\* successful CAS in acquire and the CAS of release that gives it back.
BorrowedByExactlyOne ==
    /\ \A s \in Slots : status[s] \in {Borrowed, RetiredBorrowed}
                           <=> \E r \in Readers : Holds(r, s)
    /\ \A q, r \in Readers, s \in Slots : Holds(q, s) /\ Holds(r, s) => q = r

\* publish never rewrites a word of a slot that a reader has borrowed, not
\* even after the slot was retired under the borrow.
BorrowedSlotImmutable ==
    [][\A s \in Slots, r \in Readers : Holds(r, s) => words'[s] = words[s]]_vars

\* The slot the authority names is ready or borrowed at every instant, and
\* holds, whole, the last publication (or the one the StoreSlot step replaces).
CurrentSlotServable ==
    LET held == words[authority["slot"]] IN
    /\ status[authority["slot"]] \in {Ready, Borrowed}
    /\ held = published[held["publication"]]
    /\ held["publication"] = authority["publication"] \/ ctl.pc = "slot"

\* A ready answer of observe or terminal is one publication, all of whose
\* words were captured together, under the requested fence, and not older
\* than the publication that was current when the kernel started.
ReadyAnswerIsOnePublication ==
    \A r \in Readers : rd[r].result = "ready" =>
        /\ \E p \in DOMAIN published : rd[r].copy = published[p]
        /\ Fence(rd[r].copy) = rd[r].want
        /\ rd[r].copy["publication"] >= rd[r].from

\* Between publications the spare slot is reservable unless a reader holds
\* it: no failed CAS, lost race or abandoned attempt leaks a slot.
SpareRecovers ==
    ctl.pc \in {"idle", "stopped"} =>
        \/ status[Spare] \in {Vacant, Ready}
        \/ \E r \in Readers : Holds(r, Spare)

\* The Output implements the snapshot register; a read takes effect when the
\* last authority word is re-checked (observe) or the copy is complete
\* (terminal, when the controller publishes no more).
Register == INSTANCE SnapshotRegister WITH
    latest <- published[Len(published)],
    asked <- [r \in Readers |-> rd[r].want],
    answer <- [r \in Readers |-> IF rd[r].result = "ready" THEN rd[r].copy ELSE <<>>],
    Snapshots <- Words,
    None <- <<>>
ImplementsRegister == Register!RSpec

\* Every launched observer, and the terminal read, answers: the bounded
\* attempts of acquire wait neither for the controller nor for other readers.
ReadersAnswer ==
    \A r \in Readers : (rd[r].pc \notin {"idle", "done"}) ~> (rd[r].pc = "done")

\* A slot that a reader keeps from the controller becomes reservable again,
\* also when the controller takes no step.
SpareReturns ==
    (status[Spare] \in {Borrowed, RetiredBorrowed}) ~> (status[Spare] \in {Vacant, Ready})

\* The terminal slot "cannot be consumed by live observations": a search that
\* stops without quarantine delivers its terminal payload.
TerminalDelivered ==
    rd[Terminal].pc = "done" /\ ~ctl.quarantined => rd[Terminal].result = "ready"
=============================================================================
