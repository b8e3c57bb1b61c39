------------------------ MODULE ResidentOutput_proofs ------------------------
(***************************************************************************)
(* Machine-checked proofs about the resident Output, for every number of   *)
(* observers, every set of focus roots and every bound.                    *)
(***************************************************************************)
EXTENDS ResidentOutput, TLAPS

-----------------------------------------------------------------------------
(* The type invariant.                                                     *)

\* The words the helpers walk stay inside their orders.
LEMMA WordOrders ==
    /\ \A w \in FenceWords : NextFence[w] \in FenceWords \cup {"end"}
    /\ \A w \in SlotWords : NextWord[w] \in SlotWords \cup {"end"}
    /\ \A w \in HeaderWords : NextRecheck[w] \in HeaderWords \cup {"end"}
    /\ \A w \in DOMAIN NextCheck : NextCheck[w] \in DOMAIN NextCheck \cup {"end"}
BY DEF FenceWords, HeaderWords, SlotWords, NextFence, NextWord, NextRecheck, NextCheck

LEMMA WordSets ==
    /\ FenceWords \subseteq HeaderWords
    /\ HeaderWords \subseteq SlotWords /\ HeaderWords \subseteq AuthorityWords
    /\ "root" \in FenceWords /\ "generation" \in FenceWords /\ "epoch" \in FenceWords
    /\ "publication" \in HeaderWords /\ "slot" \in AuthorityWords /\ "rows" \in SlotWords
BY DEF FenceWords, HeaderWords, SlotWords, AuthorityWords

\* The idle reader is a reader state, whatever it is about to ask for.
LEMMA IdleReader ==
    ASSUME NEW want \in [FenceWords -> Nat], NEW from \in Nat
    PROVE  /\ ReaderOK(Idle)
           /\ ReaderOK([Idle EXCEPT !.pc = "fence", !.at = "root", !.want = want, !.from = from])
           /\ ReaderOK([Idle EXCEPT !.pc = "done", !.result = "unavailable"])
<1>1. [w \in FenceWords |-> 0] \in [FenceWords -> Nat] /\ Blank \in Words
  BY DEF Blank, Words
<1>2. 0 \in 0 .. Attempts - 1
  BY OutputAssumption DEF OutputAssumption
<1>3. ReaderOK(Idle)
  BY <1>1, <1>2 DEF Idle, ReaderOK, ReaderStates, ReaderPcs, HoldingPcs, Slots
<1>4. ReaderOK([Idle EXCEPT !.pc = "fence", !.at = "root", !.want = want, !.from = from])
  BY <1>1, <1>2, WordSets DEF Idle, ReaderOK, ReaderStates, ReaderPcs, HoldingPcs, Slots
<1>5. ReaderOK([Idle EXCEPT !.pc = "done", !.result = "unavailable"])
  BY <1>1, <1>2 DEF Idle, ReaderOK, ReaderStates, ReaderPcs, HoldingPcs, Slots
<1> QED
  BY <1>3, <1>4, <1>5

LEMMA SpareType == ASSUME AuthorityOK PROVE Spare \in Slots /\ Spare # authority["slot"]
BY DEF AuthorityOK, Spare, Slots

LEMMA CapturedType == ASSUME AuthorityOK, ControllerOK PROVE Captured \in Words
BY WordSets DEF AuthorityOK, ControllerOK, ControllerStates, Captured, Words, SlotWords,
   HeaderWords, FenceWords, AuthorityWords

LEMMA InitType == ASSUME Init PROVE TypeOK
<1>1. PICK f \in Foci : Bootstrapped(f)
  BY DEF Init
<1>2. f.root \in Nat /\ f.generation \in Nat
  BY OutputAssumption DEF OutputAssumption
<1>3. AuthorityOK
  BY <1>1, <1>2 DEF Bootstrapped, AuthorityOK, AuthorityWords, HeaderWords, FenceWords, Slots
<1>4. StatusOK
  BY <1>1 DEF Bootstrapped, StatusOK, Vacant, Ready, RetiredBorrowed
<1> DEFINE first == [publication |-> 1, root |-> f.root, generation |-> f.generation,
                     epoch |-> 1, rows |-> 1]
<1>5. first \in Words
  BY <1>2 DEF Words, SlotWords, HeaderWords, FenceWords
<1>6. Blank \in Words
  BY DEF Blank, Words
<1>7. WordsOK
  BY <1>1, <1>5, <1>6 DEF Bootstrapped, WordsOK
<1>8. HistoryOK
  BY <1>1, <1>5 DEF Bootstrapped, HistoryOK
<1>9. Fence(first) \in [FenceWords -> Nat]
  BY <1>5, WordSets DEF Fence, Words
<1>10. ControllerOK
  BY <1>1, <1>9 DEF Bootstrapped, ControllerOK, ControllerStates, ControllerPcs
<1>11. ReadersOK
  BY <1>1, IdleReader, <1>9 DEF Bootstrapped, ReadersOK
<1> QED
  BY <1>3, <1>4, <1>7, <1>8, <1>10, <1>11 DEF TypeOK

LEMMA ControllerType == ASSUME TypeOK, Controller PROVE TypeOK'
<1> USE SpareType, WordSets, CapturedType DEF TypeOK
<1>1. CASE PublishProgress \/ PublishFocus
  <2>1. PICK purpose \in {"progress", "focus"}, focus \in [FenceWords -> Nat] :
            ReserveLoad(purpose, focus)
    <3>1. CASE PublishProgress
      BY <3>1 DEF PublishProgress, ControllerOK, ControllerStates
    <3>2. CASE PublishFocus
      <4>1. PICK f \in Foci : ReserveLoad("focus", [root |-> f.root, generation |-> f.generation,
                                                    epoch |-> authority["epoch"] + 1])
        BY <3>2 DEF PublishFocus
      <4>2. f.root \in Nat /\ f.generation \in Nat /\ authority["epoch"] + 1 \in Nat
        BY OutputAssumption DEF OutputAssumption, AuthorityOK
      <4>3. [root |-> f.root, generation |-> f.generation, epoch |-> authority["epoch"] + 1]
               \in [FenceWords -> Nat]
        BY <4>2 DEF FenceWords
      <4> QED
        BY <4>1, <4>3
    <3> QED
      BY <1>1, <3>1, <3>2
  <2>2. ControllerOK'
    BY <2>1 DEF ReserveLoad, ControllerOK, ControllerStates, ControllerPcs
  <2> QED
    BY <2>1, <2>2 DEF ReserveLoad, AuthorityOK, StatusOK, WordsOK, ReadersOK, HistoryOK
<1>2. CASE ReserveCas
  <2>1. Fence(authority) \in [FenceWords -> Nat]
    BY DEF Fence, AuthorityOK
  <2>2. ControllerOK'
    <3>2. CASE status[Spare] = ctl.loaded
      BY ZenonT(60), <1>2, <3>2 DEF ReserveCas, ControllerOK, ControllerStates, ControllerPcs
    <3>3. CASE status[Spare] # ctl.loaded
      BY ZenonT(60), <1>2, <2>1, <3>3 DEF ReserveCas, ControllerOK, ControllerStates, ControllerPcs
    <3> QED
      BY <3>2, <3>3
  <2>3. StatusOK'
    BY <1>2 DEF ReserveCas, StatusOK, Vacant, Writing, RetiredBorrowed
  <2> QED
    BY <1>2, <2>2, <2>3 DEF ReserveCas, AuthorityOK, WordsOK, ReadersOK, HistoryOK
<1>3. CASE CommitWord
  <2>1. ControllerOK'
    BY <1>3, WordOrders DEF CommitWord, ControllerOK, ControllerStates, ControllerPcs
  <2>2. AuthorityOK'
    BY <1>3 DEF CommitWord, AuthorityOK, ControllerOK, ControllerStates, FenceWords
  <2> QED
    BY <1>3, <2>1, <2>2 DEF CommitWord, StatusOK, WordsOK, ReadersOK, HistoryOK
<1>4. CASE WriteWord
  <2>1. ControllerOK'
    <3>1. ctl.at \in SlotWords
      BY <1>4 DEF WriteWord, ControllerOK
    <3>2. NextWord[ctl.at] \in SlotWords \cup {"end"}
      BY <3>1, WordOrders
    <3>3. CASE NextWord[ctl.at] = "end"
      BY <1>4, <3>3 DEF WriteWord, ControllerOK, ControllerStates, ControllerPcs
    <3>4. CASE NextWord[ctl.at] # "end"
      BY <1>4, <3>2, <3>4 DEF WriteWord, ControllerOK, ControllerStates, ControllerPcs
    <3> QED
      BY <3>3, <3>4
  <2>2. WordsOK'
    BY <1>4 DEF WriteWord, WordsOK, Words, ControllerOK
  <2> QED
    BY <1>4, <2>1, <2>2 DEF WriteWord, AuthorityOK, StatusOK, ReadersOK, HistoryOK
<1>5. CASE WriteFails
  <2>1. ControllerOK'
    BY <1>5 DEF WriteFails, ControllerOK, ControllerStates, ControllerPcs
  <2>2. StatusOK'
    BY <1>5 DEF WriteFails, StatusOK, Vacant, RetiredBorrowed
  <2> QED
    BY <1>5, <2>1, <2>2 DEF WriteFails, AuthorityOK, WordsOK, ReadersOK, HistoryOK
<1>6. CASE MarkReady
  <2>1. ControllerOK'
    BY <1>6 DEF MarkReady, ControllerOK, ControllerStates, ControllerPcs
  <2>2. StatusOK'
    BY <1>6 DEF MarkReady, StatusOK, Vacant, Ready, RetiredBorrowed
  <2> QED
    BY <1>6, <2>1, <2>2 DEF MarkReady, AuthorityOK, WordsOK, ReadersOK, HistoryOK
<1>7. CASE StorePublication
  <2>1. ControllerOK'
    BY <1>7 DEF StorePublication, ControllerOK, ControllerStates, ControllerPcs
  <2>2. AuthorityOK'
    BY <1>7 DEF StorePublication, AuthorityOK
  <2>3. HistoryOK'
    BY <1>7 DEF StorePublication, HistoryOK
  <2> QED
    BY <1>7, <2>1, <2>2, <2>3 DEF StorePublication, StatusOK, WordsOK, ReadersOK
<1>8. CASE StoreSlot
  <2>1. ControllerOK'
    BY <1>8 DEF StoreSlot, ControllerOK, ControllerStates, ControllerPcs
  <2>2. AuthorityOK'
    BY <1>8 DEF StoreSlot, AuthorityOK, Slots
  <2> QED
    BY <1>8, <2>1, <2>2 DEF StoreSlot, StatusOK, WordsOK, ReadersOK, HistoryOK
<1>9. CASE Retire
  <2>1. ControllerOK'
    BY <1>9 DEF Retire, ControllerOK, ControllerStates, ControllerPcs
  <2>2. StatusOK'
    BY <1>9 DEF Retire, StatusOK, Vacant, RetiredBorrowed
  <2> QED
    BY <1>9, <2>1, <2>2 DEF Retire, AuthorityOK, WordsOK, ReadersOK, HistoryOK
<1>10. CASE RetireBorrowed
  <2>1. ControllerOK'
    BY <1>10 DEF RetireBorrowed, ControllerOK, ControllerStates, ControllerPcs
  <2>2. StatusOK'
    BY <1>10 DEF RetireBorrowed, StatusOK, Vacant, RetiredBorrowed
  <2> QED
    BY <1>10, <2>1, <2>2 DEF RetireBorrowed, AuthorityOK, WordsOK, ReadersOK, HistoryOK
<1>11. CASE FinalRound
  <2>1. ControllerOK'
    BY <1>11 DEF FinalRound, ControllerOK, ControllerStates, ControllerPcs
  <2>2. Fence(authority) \in [FenceWords -> Nat] /\ authority["publication"] \in Nat
    BY DEF Fence, AuthorityOK
  <2>3. ReadersOK'
    BY <1>11, <2>2, IdleReader DEF FinalRound, ReadersOK
  <2> QED
    BY <1>11, <2>1, <2>3 DEF FinalRound, AuthorityOK, StatusOK, WordsOK, HistoryOK
<1> QED
  BY <1>1, <1>2, <1>3, <1>4, <1>5, <1>6, <1>7, <1>8, <1>9, <1>10, <1>11 DEF Controller

\* A step of one reader changes its own record and, at most, slot states.
LEMMA OneReader ==
    ASSUME ReadersOK, NEW r \in Readers, NEW me \in ReaderStates, ReaderOK(me),
           rd' = [rd EXCEPT ![r] = me]
    PROVE  ReadersOK'
BY DEF ReadersOK

LEMMA AnswerType ==
    ASSUME TypeOK, NEW r \in Readers, NEW result \in {"ready", "unavailable"}, Answer(r, result)
    PROVE  ReadersOK'
<1>1. 0 \in 0 .. Attempts - 1 /\ 0 \in Slots
  BY OutputAssumption DEF OutputAssumption, Slots
<1>2. CASE result = "ready"
  <2> DEFINE me == [rd[r] EXCEPT !.pc = "done", !.attempt = 0, !.seen = 0, !.slot = 0,
                                 !.result = "ready"]
  <2>1. me \in ReaderStates /\ ReaderOK(me)
    BY ZenonT(60), <1>1 DEF TypeOK, ReadersOK, ReaderOK, ReaderStates, ReaderPcs
  <2> QED
    BY <1>2, <2>1, OneReader DEF Answer, TypeOK
<1>3. CASE result # "ready"
  <2>1. [w \in FenceWords |-> 0] \in [FenceWords -> Nat]
    OBVIOUS
  <2> QED
    BY <1>3, <2>1, IdleReader, OneReader DEF Answer, TypeOK, ReaderOK
<1> QED
  BY <1>2, <1>3

LEMMA RetryType == ASSUME TypeOK, NEW r \in Readers, Retry(r) PROVE ReadersOK'
<1>1. CASE rd[r].attempt + 1 < Attempts
  <2> DEFINE me == [rd[r] EXCEPT !.pc = "fence", !.at = "root", !.attempt = @ + 1,
                                 !.seen = 0, !.slot = 0, !.result = "none"]
  <2>1. rd[r] \in ReaderStates /\ rd[r].attempt \in 0 .. Attempts - 1
    BY DEF TypeOK, ReadersOK, ReaderOK, ReaderStates
  <2>2. rd[r].attempt + 1 \in 0 .. Attempts - 1
    BY <1>1, <2>1, OutputAssumption DEF OutputAssumption
  <2>3. me \in ReaderStates /\ ReaderOK(me)
    BY <2>1, <2>2, WordSets DEF ReaderOK, ReaderStates, ReaderPcs, Slots
  <2>4. rd' = [rd EXCEPT ![r] = me]
    BY <1>1 DEF Retry
  <2> QED
    BY <2>3, <2>4, OneReader DEF TypeOK
<1>2. CASE ~(rd[r].attempt + 1 < Attempts)
  BY <1>2, AnswerType DEF Retry
<1> QED
  BY <1>1, <1>2

LEMMA ResumeType ==
    ASSUME TypeOK, NEW r \in Readers, rd[r].pc \in {"release", "releaseRetired"}, Resume(r)
    PROVE  ReadersOK'
<1>1. rd[r].result \in {"retry", "ready", "unavailable"}
  BY DEF TypeOK, ReadersOK, ReaderOK, ReaderStates
<1> QED
  BY <1>1, RetryType, AnswerType DEF Resume

LEMMA GotoType ==
    ASSUME TypeOK, NEW r \in Readers, NEW pc \in ReaderPcs, NEW at, Goto(r, pc, at),
           at \in SlotWords \cup DOMAIN NextCheck \cup {"end"},
           pc = "fence" => at \in FenceWords, pc = "check" => at \in DOMAIN NextCheck,
           pc = "copy" => at \in SlotWords, pc = "recheck" => at \in HeaderWords,
           rd[r].pc \in {"release", "releaseRetired", "done"}
              <=> pc \in {"release", "releaseRetired", "done"}
    PROVE  ReadersOK'
<1> DEFINE me == [rd[r] EXCEPT !.pc = pc, !.at = at]
<1>1. rd[r] \in ReaderStates /\ ReaderOK(rd[r])
  BY DEF TypeOK, ReadersOK, ReaderOK
<1>2. me \in ReaderStates
  BY <1>1 DEF ReaderStates
<1>3. ReaderOK(me)
  BY <1>1, <1>2 DEF ReaderOK, ReaderStates
<1> QED
  BY <1>2, <1>3, OneReader DEF Goto, TypeOK

\* Only slot states are left to check once a step of a reader is shown to
\* leave the readers typed.
LEMMA ReaderFrame ==
    ASSUME TypeOK, ReadersOK', StatusOK', UNCHANGED <<authority, words, ctl, published>>
    PROVE  TypeOK'
BY DEF TypeOK, AuthorityOK, WordsOK, ControllerOK, HistoryOK

LEMMA StepType == ASSUME TypeOK, NEW r \in Readers, Step(r) PROVE TypeOK'
<1> USE WordOrders, WordSets
<1>1. rd[r] \in ReaderStates /\ ReaderOK(rd[r])
  BY DEF TypeOK, ReadersOK, ReaderOK
<1>2. rd[r].slot \in Slots /\ rd[r].copy \in Words
  BY <1>1 DEF ReaderStates
<1>3. StatusOK /\ (UNCHANGED status => StatusOK')
  BY DEF TypeOK, StatusOK
<1>4. CASE CheckFence(r)
  <2>1. rd[r].at \in FenceWords /\ NextFence[rd[r].at] \in FenceWords \cup {"end"}
    BY <1>1, <1>4 DEF CheckFence, ReaderOK
  <2>2. ReadersOK'
    BY <1>4, <2>1, AnswerType, GotoType DEF CheckFence, ReaderPcs
  <2> QED
    BY <1>3, <1>4, <2>2, ReaderFrame DEF CheckFence
<1>5. CASE LoadPublication(r)
  <2> DEFINE me == [rd[r] EXCEPT !.pc = "slot", !.seen = authority["publication"]]
  <2>1. authority["publication"] \in Nat
    BY DEF TypeOK, AuthorityOK
  <2>2. me \in ReaderStates /\ ReaderOK(me)
    BY <1>1, <1>5, <2>1 DEF LoadPublication, ReaderOK, ReaderStates, ReaderPcs
  <2>3. rd' = [rd EXCEPT ![r] = me]
    BY <1>5 DEF LoadPublication
  <2> QED
    BY <1>3, <1>5, <2>2, <2>3, OneReader, ReaderFrame DEF LoadPublication, TypeOK
<1>6. CASE LoadSlot(r)
  <2> DEFINE me == [rd[r] EXCEPT !.pc = "borrow", !.slot = authority["slot"]]
  <2>1. me \in ReaderStates /\ ReaderOK(me)
    BY <1>1, <1>6 DEF LoadSlot, ReaderOK, ReaderStates, ReaderPcs, TypeOK, AuthorityOK
  <2>2. rd' = [rd EXCEPT ![r] = me]
    BY <1>6 DEF LoadSlot
  <2> QED
    BY <1>3, <1>6, <2>1, <2>2, OneReader, ReaderFrame DEF LoadSlot, TypeOK
<1>7. CASE Borrow(r)
  <2>1. StatusOK'
    BY <1>2, <1>3, <1>7 DEF Borrow, StatusOK, Vacant, Borrowed, RetiredBorrowed
  <2>2. "publication" \in DOMAIN NextCheck
    BY DEF NextCheck
  <2>3. ReadersOK'
    BY <1>7, <2>2, RetryType, GotoType DEF Borrow, ReaderPcs, HoldingPcs
  <2> QED
    BY <1>7, <2>1, <2>3, ReaderFrame DEF Borrow
<1>8. CASE Check(r)
  <2>1. rd[r].at \in DOMAIN NextCheck /\ NextCheck[rd[r].at] \in DOMAIN NextCheck \cup {"end"}
    BY <1>1, <1>8 DEF Check, ReaderOK
  <2>2. CASE ~Checks(r, rd[r].at)
    <3> DEFINE me == [rd[r] EXCEPT !.pc = "release", !.at = "end", !.result = "retry"]
    <3>1. me \in ReaderStates /\ ReaderOK(me)
      BY <1>1 DEF ReaderOK, ReaderStates, ReaderPcs, HoldingPcs
    <3>2. rd' = [rd EXCEPT ![r] = me]
      BY <1>8, <2>2 DEF Check
    <3> QED
      BY <1>3, <1>8, <3>1, <3>2, OneReader, ReaderFrame DEF Check, TypeOK
  <2>3. CASE Checks(r, rd[r].at)
    <3>1. ReadersOK'
      BY <1>8, <2>1, <2>3, GotoType DEF Check, ReaderPcs, HoldingPcs
    <3> QED
      BY <1>3, <1>8, <3>1, ReaderFrame DEF Check
  <2> QED
    BY <2>2, <2>3
<1>9. CASE Copy(r)
  <2> DEFINE at == rd[r].at
             last == NextWord[at] = "end"
             word == words[rd[r].slot][at]
             me == [rd[r] EXCEPT
                       !.copy[at] = word,
                       !.pc = IF ~last THEN "copy"
                              ELSE IF r = Terminal THEN "release" ELSE "recheck",
                       !.at = IF ~last THEN NextWord[at]
                              ELSE IF r = Terminal THEN "end" ELSE "root",
                       !.result = IF last /\ r = Terminal THEN "ready" ELSE @]
  <2>1. at \in SlotWords /\ NextWord[at] \in SlotWords \cup {"end"}
    BY <1>1, <1>9 DEF Copy, ReaderOK
  <2>2. word \in Nat
    BY <1>2, <2>1 DEF TypeOK, WordsOK, Words
  <2>3. [rd[r].copy EXCEPT ![at] = word] \in Words
    BY <1>2, <2>1, <2>2 DEF Words
  <2>4. me \in ReaderStates /\ ReaderOK(me)
    <3>1. CASE ~last
      BY <1>1, <1>9, <2>1, <2>3, <3>1 DEF Copy, ReaderOK, ReaderStates, ReaderPcs, HoldingPcs
    <3>2. CASE last
      BY ZenonT(60), <1>1, <1>9, <2>1, <2>3, <3>2 DEF Copy, ReaderOK, ReaderStates, ReaderPcs, HoldingPcs
    <3> QED
      BY <3>1, <3>2
  <2>5. rd' = [rd EXCEPT ![r] = me]
    BY <1>9 DEF Copy
  <2> QED
    BY <1>3, <1>9, <2>4, <2>5, OneReader, ReaderFrame DEF Copy, TypeOK
<1>10. CASE Recheck(r)
  <2>1. rd[r].at \in HeaderWords /\ NextRecheck[rd[r].at] \in HeaderWords \cup {"end"}
    BY <1>1, <1>10 DEF Recheck, ReaderOK
  <2>2. CASE Goto(r, "recheck", NextRecheck[rd[r].at]) /\ NextRecheck[rd[r].at] # "end"
    <3>1. ReadersOK'
      BY <1>10, <2>1, <2>2, GotoType DEF Recheck, ReaderPcs, HoldingPcs
    <3> QED
      BY <1>3, <1>10, <3>1, ReaderFrame DEF Recheck
  <2>3. CASE \E result \in {"ready", "unavailable"} :
                rd' = [rd EXCEPT ![r].pc = "release", ![r].at = "end", ![r].result = result]
    <3>1. PICK result \in {"ready", "unavailable"} :
                rd' = [rd EXCEPT ![r].pc = "release", ![r].at = "end", ![r].result = result]
      BY <2>3
    <3> DEFINE me == [rd[r] EXCEPT !.pc = "release", !.at = "end", !.result = result]
    <3>2. me \in ReaderStates /\ ReaderOK(me)
      BY <1>1 DEF ReaderOK, ReaderStates, ReaderPcs, HoldingPcs
    <3>3. rd' = [rd EXCEPT ![r] = me]
      BY <3>1
    <3> QED
      BY <1>3, <1>10, <3>2, <3>3, OneReader, ReaderFrame DEF Recheck, TypeOK
  <2> QED
    BY <1>10, <2>2, <2>3 DEF Recheck
<1>11. CASE Release(r)
  <2>1. StatusOK'
    BY <1>2, <1>3, <1>11 DEF Release, StatusOK, Vacant, Ready, RetiredBorrowed
  <2>2. ReadersOK'
    BY <1>11, ResumeType, GotoType DEF Release, ReaderPcs, HoldingPcs
  <2> QED
    BY <1>11, <2>1, <2>2, ReaderFrame DEF Release
<1>12. CASE ReleaseRetired(r)
  <2>1. StatusOK'
    BY <1>2, <1>3, <1>12 DEF ReleaseRetired, StatusOK, Vacant, RetiredBorrowed
  <2>2. ReadersOK'
    BY <1>12, ResumeType DEF ReleaseRetired
  <2> QED
    BY <1>12, <2>1, <2>2, ReaderFrame DEF ReleaseRetired
<1> QED
  BY <1>4, <1>5, <1>6, <1>7, <1>8, <1>9, <1>10, <1>11, <1>12 DEF Step

LEMMA NextType == ASSUME TypeOK, [Next]_vars PROVE TypeOK'
<1>1. CASE Controller
  BY <1>1, ControllerType
<1>2. ASSUME NEW o \in Observers, Observe(o) PROVE TypeOK'
  <2>1. PICK p \in DOMAIN published :
            rd' = [rd EXCEPT ![o] = [Idle EXCEPT !.pc = "fence", !.at = "root",
                                        !.want = Fence(published[p]),
                                        !.from = authority["publication"]]]
    BY <1>2 DEF Observe
  <2>2. Fence(published[p]) \in [FenceWords -> Nat] /\ authority["publication"] \in Nat
    BY SMTT(30), WordSets DEF TypeOK, HistoryOK, AuthorityOK, Fence, Words
  <2> DEFINE me == [Idle EXCEPT !.pc = "fence", !.at = "root", !.want = Fence(published[p]),
                                !.from = authority["publication"]]
  <2>3. ReaderOK(me)
    BY <2>2, IdleReader
  <2>4. ReadersOK'
    BY <2>1, <2>3 DEF TypeOK, ReadersOK, Readers
  <2> QED
    BY <1>2, <2>4, ReaderFrame DEF Observe, TypeOK, StatusOK
<1>3. CASE UNCHANGED vars
  BY <1>3 DEF vars, TypeOK, AuthorityOK, StatusOK, WordsOK, ControllerOK, ReadersOK, HistoryOK
<1> QED
  BY <1>1, <1>2, <1>3, StepType DEF Next

\* acquire stays within its attempts, and every operand, slot state and copied
\* word is one the code can hold, whatever the number of observers.
THEOREM TypeCorrect == Spec => []TypeOK
<1>1. Init => TypeOK
  BY InitType
<1>2. TypeOK /\ [Next]_vars => TypeOK'
  BY NextType
<1> QED
  BY <1>1, <1>2, PTL DEF Spec

-----------------------------------------------------------------------------
(* Borrowing.  BorrowedByExactlyOne is not inductive: it needs the phase    *)
(* of the publication, which says what the controller may find in a slot.  *)

PhaseOK ==
    /\ status[authority["slot"]] \in {Ready, Borrowed}
    /\ ctl.pc \in {"commit", "write", "ready"} => status[Spare] = Writing
    /\ ctl.pc \in {"publication", "slot", "retire", "retireBorrowed"}
          => status[Spare] \in {Ready, Borrowed}
    /\ ctl.pc = "reserve" => status[Spare] \in {Vacant, Ready, Borrowed}
    /\ ctl.pc \in {"idle", "stopped"} => status[Spare] # Writing

ReleaseOK ==
    \A r \in Readers : rd[r].pc = "releaseRetired" => status[rd[r].slot] = RetiredBorrowed

\* The terminal read belongs to the controller's last round.
TerminalOK == ctl.pc # "stopped" => rd[Terminal].pc = "idle"

BorrowOK == BorrowedByExactlyOne /\ PhaseOK /\ ReleaseOK /\ TerminalOK

LEMMA SlotStates == Vacant = 0 /\ Writing = 1 /\ Ready = 2 /\ Borrowed = 3 /\ RetiredBorrowed = 4
BY DEF Vacant, Writing, Ready, Borrowed, RetiredBorrowed

LEMMA TwoSlots == ASSUME AuthorityOK PROVE \A s \in Slots : s = Spare \/ s = authority["slot"]
BY DEF AuthorityOK, Spare, Slots

LEMMA InitBorrow == ASSUME Init PROVE BorrowOK
<1>1. PICK f \in Foci : Bootstrapped(f)
  BY DEF Init
<1>2. \A r \in Readers : rd[r].pc = "idle"
  BY <1>1 DEF Bootstrapped, Idle
<1>3. status = [s \in Slots |-> IF s = 0 THEN Ready ELSE Vacant] /\ authority["slot"] = 0
  BY <1>1 DEF Bootstrapped
<1>4. BorrowedByExactlyOne
  BY <1>2, <1>3, SlotStates DEF BorrowedByExactlyOne, Holds, HoldingPcs
<1>5. PhaseOK
  BY <1>1, <1>3, SlotStates DEF PhaseOK, Bootstrapped, Spare, Slots
<1> QED
  BY <1>2, <1>4, <1>5 DEF BorrowOK, ReleaseOK, TerminalOK, Readers

LEMMA ControllerBorrow == ASSUME TypeOK, BorrowOK, Controller PROVE BorrowOK'
<1> USE SlotStates, SpareType, TwoSlots DEF TypeOK, BorrowOK
<1>1. CASE PublishProgress \/ PublishFocus
  <2>1. PICK purpose, focus : ReserveLoad(purpose, focus)
    BY <1>1 DEF PublishProgress, PublishFocus
  <2>2. ctl'.pc = "reserve"
    BY <2>1 DEF ReserveLoad, ControllerOK, ControllerStates
  <2> QED
    BY <2>1, <2>2 DEF ReserveLoad, PhaseOK, ReleaseOK, TerminalOK, BorrowedByExactlyOne, Holds, Spare
<1>2. CASE ReserveCas
  <2>1. CASE status[Spare] = ctl.loaded
    <3>1. /\ ctl.loaded \in {Vacant, Ready} /\ ctl'.pc \in {"commit", "write"}
          /\ status' = [status EXCEPT ![Spare] = Writing] /\ UNCHANGED rd
      BY <1>2, <2>1 DEF ReserveCas, ControllerOK, ControllerStates
    <3>2. PhaseOK'
      BY <1>2, <2>1, <3>1 DEF ReserveCas, PhaseOK, Spare, StatusOK, AuthorityOK
    <3>3. \A s \in Slots : status'[s] \in {Borrowed, RetiredBorrowed}
                             <=> status[s] \in {Borrowed, RetiredBorrowed}
      BY <1>2, <2>1, <3>1 DEF ReserveCas, StatusOK
    <3>4. BorrowedByExactlyOne'
      BY <1>2, <3>3 DEF ReserveCas, BorrowedByExactlyOne, Holds
    <3>5. ReleaseOK'
      BY <2>1, <3>1 DEF ReleaseOK, StatusOK
    <3> QED
      BY <1>2, <3>1, <3>2, <3>4, <3>5 DEF ReserveCas, TerminalOK
  <2>2. CASE status[Spare] # ctl.loaded
    <3>1. ctl'.pc = "idle" /\ ctl.pc = "reserve" /\ UNCHANGED <<status, rd, authority>>
      BY <1>2, <2>2 DEF ReserveCas, ControllerOK, ControllerStates
    <3> QED
      BY <3>1 DEF PhaseOK, ReleaseOK, TerminalOK, BorrowedByExactlyOne, Holds, Spare
  <2> QED
    BY <2>1, <2>2
<1>3. CASE CommitWord
  <2>1. ctl.pc = "commit" /\ ctl'.pc \in {"commit", "write"} /\ UNCHANGED <<status, rd>>
    BY <1>3 DEF CommitWord, ControllerOK, ControllerStates
  <2>2. authority'["slot"] = authority["slot"]
    BY <1>3, <2>1, WordSets DEF CommitWord, AuthorityOK, ControllerOK, FenceWords
  <2> QED
    BY <2>1, <2>2 DEF PhaseOK, ReleaseOK, TerminalOK, BorrowedByExactlyOne, Holds, Spare
<1>4. CASE WriteWord
  <2>1. ctl.pc = "write" /\ ctl'.pc \in {"write", "ready"} /\ UNCHANGED <<authority, status, rd>>
    BY <1>4 DEF WriteWord, ControllerOK, ControllerStates
  <2> QED
    BY <2>1 DEF PhaseOK, ReleaseOK, TerminalOK, BorrowedByExactlyOne, Holds, Spare
<1>5. CASE WriteFails
  <2>1. ctl.pc = "write" /\ ctl'.pc = "idle" /\ UNCHANGED <<authority, rd>>
        /\ status' = [status EXCEPT ![Spare] = Vacant]
    BY <1>5 DEF WriteFails, ControllerOK, ControllerStates
  <2>2. \A s \in Slots : status'[s] \in {Borrowed, RetiredBorrowed}
                           <=> status[s] \in {Borrowed, RetiredBorrowed}
    BY <2>1 DEF StatusOK, PhaseOK
  <2>3. ReleaseOK'
    BY <2>1 DEF ReleaseOK, StatusOK, PhaseOK
  <2>4. PhaseOK'
    BY <2>1 DEF PhaseOK, Spare, StatusOK, AuthorityOK
  <2> QED
    BY <2>1, <2>2, <2>3, <2>4 DEF TerminalOK, BorrowedByExactlyOne, Holds
<1>6. CASE MarkReady
  <2>1. ctl.pc = "ready" /\ ctl'.pc = "publication" /\ UNCHANGED <<authority, rd>>
        /\ status' = [status EXCEPT ![Spare] = Ready]
    BY <1>6 DEF MarkReady, ControllerOK, ControllerStates
  <2>2. \A s \in Slots : status'[s] \in {Borrowed, RetiredBorrowed}
                           <=> status[s] \in {Borrowed, RetiredBorrowed}
    BY <2>1 DEF StatusOK, PhaseOK
  <2>3. ReleaseOK'
    BY <2>1 DEF ReleaseOK, StatusOK, PhaseOK
  <2>4. PhaseOK'
    BY <2>1 DEF PhaseOK, Spare, StatusOK, AuthorityOK
  <2> QED
    BY <2>1, <2>2, <2>3, <2>4 DEF TerminalOK, BorrowedByExactlyOne, Holds
<1>7. CASE StorePublication
  <2>1. ctl.pc = "publication" /\ ctl'.pc = "slot" /\ UNCHANGED <<status, rd>>
        /\ authority'["slot"] = authority["slot"]
    BY <1>7 DEF StorePublication, ControllerOK, ControllerStates, AuthorityOK, AuthorityWords
  <2> QED
    BY <2>1 DEF PhaseOK, ReleaseOK, TerminalOK, BorrowedByExactlyOne, Holds, Spare
<1>8. CASE StoreSlot
  <2>1. ctl.pc = "slot" /\ ctl'.pc = "retire" /\ UNCHANGED <<status, rd>>
        /\ authority'["slot"] = Spare
    BY <1>8, WordSets DEF StoreSlot, ControllerOK, ControllerStates, AuthorityOK
  <2>2. Spare' = authority["slot"]
    BY <2>1 DEF Spare, Slots, AuthorityOK
  <2> QED
    BY <2>1, <2>2 DEF PhaseOK, ReleaseOK, TerminalOK, BorrowedByExactlyOne, Holds
<1>9. CASE Retire
  <2>1. ctl.pc = "retire" /\ UNCHANGED <<authority, rd>>
        /\ status' = [status EXCEPT ![Spare] = IF @ = Ready THEN Vacant ELSE @]
        /\ ctl'.pc = IF status[Spare] = Borrowed THEN "retireBorrowed" ELSE "idle"
    BY <1>9 DEF Retire, ControllerOK, ControllerStates
  <2>2. \A s \in Slots : status'[s] \in {Borrowed, RetiredBorrowed}
                           <=> status[s] \in {Borrowed, RetiredBorrowed}
    BY <2>1 DEF StatusOK, PhaseOK
  <2>3. ReleaseOK'
    BY <2>1 DEF ReleaseOK, StatusOK, PhaseOK
  <2>4. PhaseOK'
    BY <2>1 DEF PhaseOK, Spare, StatusOK, AuthorityOK
  <2> QED
    BY <2>1, <2>2, <2>3, <2>4 DEF TerminalOK, BorrowedByExactlyOne, Holds
<1>10. CASE RetireBorrowed
  <2>1. ctl.pc = "retireBorrowed" /\ ctl'.pc = "idle" /\ UNCHANGED <<authority, rd>>
        /\ status' = [status EXCEPT ![Spare] = IF @ = Borrowed THEN RetiredBorrowed ELSE @]
    BY <1>10 DEF RetireBorrowed, ControllerOK, ControllerStates
  <2>2. \A s \in Slots : status'[s] \in {Borrowed, RetiredBorrowed}
                           <=> status[s] \in {Borrowed, RetiredBorrowed}
    BY <2>1 DEF StatusOK, PhaseOK
  <2>3. ReleaseOK'
    BY <2>1 DEF ReleaseOK, StatusOK, PhaseOK
  <2>4. PhaseOK'
    BY <2>1 DEF PhaseOK, Spare, StatusOK, AuthorityOK
  <2> QED
    BY <2>1, <2>2, <2>3, <2>4 DEF TerminalOK, BorrowedByExactlyOne, Holds
<1>11. CASE FinalRound
  <2>1. ctl.pc = "idle" /\ ctl'.pc = "stopped" /\ UNCHANGED <<authority, status>>
    BY <1>11 DEF FinalRound, ControllerOK, ControllerStates
  <2>2. rd[Terminal].pc = "idle" /\ rd'[Terminal].pc = "fence"
        /\ \A r \in Readers : r # Terminal => rd'[r] = rd[r]
    BY <1>11, <2>1 DEF FinalRound, ReadersOK, Readers, TerminalOK, Idle
  <2>3. \A r \in Readers, s \in Slots : Holds(r, s)' <=> Holds(r, s)
    BY <2>2 DEF Holds, HoldingPcs
  <2>4. BorrowedByExactlyOne'
    BY <2>1, <2>3 DEF BorrowedByExactlyOne
  <2> QED
    BY <2>1, <2>2, <2>4 DEF PhaseOK, ReleaseOK, TerminalOK, Spare
<1> QED
  BY <1>1, <1>2, <1>3, <1>4, <1>5, <1>6, <1>7, <1>8, <1>9, <1>10, <1>11 DEF Controller

\* A step that leaves every slot, the controller and every hold as they are.
LEMMA SameHolds ==
    ASSUME BorrowOK, UNCHANGED <<authority, status, ctl>>,
           \A q \in Readers, s \in Slots : Holds(q, s)' <=> Holds(q, s),
           \A q \in Readers : rd'[q].pc = "releaseRetired" => rd'[q] = rd[q],
           rd'[Terminal].pc = "idle" \/ ctl.pc = "stopped"
    PROVE  BorrowOK'
BY DEF BorrowOK, BorrowedByExactlyOne, PhaseOK, ReleaseOK, TerminalOK, Spare

\* What the steps that end an attempt leave of the reader: no hold.
LEMMA EndedAttempt ==
    ASSUME TypeOK, NEW r \in Readers, Retry(r) \/ Resume(r) \/ \E x : Answer(r, x)
    PROVE  /\ rd'[r].pc \in {"fence", "done"}
           /\ \A q \in Readers : q # r => rd'[q] = rd[q]
<1>1. DOMAIN rd = Readers /\ rd[r] \in ReaderStates
  BY DEF TypeOK, ReadersOK, ReaderOK
<1>2. ASSUME NEW x, Answer(r, x)
      PROVE  rd'[r].pc = "done" /\ \A q \in Readers : q # r => rd'[q] = rd[q]
  BY <1>1, <1>2 DEF Answer, ReaderStates, Idle
<1>3. ASSUME Retry(r)
      PROVE  /\ rd'[r].pc \in {"fence", "done"}
             /\ \A q \in Readers : q # r => rd'[q] = rd[q]
  <2>1. CASE rd[r].attempt + 1 < Attempts
    BY <1>1, <1>3, <2>1 DEF Retry, ReaderStates
  <2>2. CASE ~(rd[r].attempt + 1 < Attempts)
    BY <1>2, <1>3, <2>2 DEF Retry
  <2> QED
    BY <2>1, <2>2
<1> QED
  BY <1>2, <1>3 DEF Resume

LEMMA MovedOn ==
    ASSUME TypeOK, NEW r \in Readers, NEW pc, NEW at, Goto(r, pc, at)
    PROVE  /\ rd'[r].pc = pc /\ rd'[r].slot = rd[r].slot /\ rd'[r].seen = rd[r].seen
           /\ rd'[r].want = rd[r].want /\ rd'[r].from = rd[r].from /\ rd'[r].copy = rd[r].copy
           /\ rd'[r].at = at /\ rd'[r].result = rd[r].result
           /\ \A q \in Readers : q # r => rd'[q] = rd[q]
BY DEF Goto, TypeOK, ReadersOK, ReaderOK, ReaderStates

LEMMA StepBorrow == ASSUME TypeOK, BorrowOK, NEW r \in Readers, Step(r) PROVE BorrowOK'
<1> USE SlotStates DEF TypeOK
<1>1. DOMAIN rd = Readers /\ rd[r] \in ReaderStates /\ rd[r].slot \in Slots
  BY DEF ReadersOK, ReaderOK, ReaderStates
<1>2. rd[r].pc # "idle" /\ UNCHANGED <<authority, words, ctl, published>>
  BY DEF Step, CheckFence, LoadPublication, LoadSlot, Borrow, Check, Copy, Recheck, Release,
         ReleaseRetired
<1>3. r = Terminal => ctl.pc = "stopped"
  BY <1>2 DEF BorrowOK, TerminalOK
<1>4. Terminal \in Readers
  BY DEF Readers
<1>5. CASE CheckFence(r)
  <2>1. rd[r].pc = "fence" /\ UNCHANGED status
    BY <1>5 DEF CheckFence
  <2>2. rd'[r].pc \in {"publication", "fence", "done"} /\ \A q \in Readers : q # r => rd'[q] = rd[q]
    BY <1>5, EndedAttempt, MovedOn DEF CheckFence
  <2> QED
    BY <1>2, <1>3, <1>4, <2>1, <2>2, SameHolds DEF Holds, HoldingPcs, BorrowOK, TerminalOK
<1>6. CASE LoadPublication(r) \/ LoadSlot(r)
  <2>1. rd[r].pc \in {"publication", "slot"} /\ UNCHANGED status
    BY <1>6 DEF LoadPublication, LoadSlot
  <2>2. rd'[r].pc \in {"slot", "borrow"} /\ \A q \in Readers : q # r => rd'[q] = rd[q]
    BY <1>1, <1>6 DEF LoadPublication, LoadSlot, ReaderStates
  <2> QED
    BY <1>2, <1>3, <1>4, <2>1, <2>2, SameHolds DEF Holds, HoldingPcs, BorrowOK, TerminalOK
<1>7. CASE Borrow(r)
  <2>1. CASE status[rd[r].slot] # Ready
    <3>1. rd[r].pc = "borrow" /\ UNCHANGED status
      BY <1>7, <2>1 DEF Borrow
    <3>2. rd'[r].pc \in {"fence", "done"} /\ \A q \in Readers : q # r => rd'[q] = rd[q]
      BY <1>7, <2>1, EndedAttempt DEF Borrow
    <3> QED
      BY <1>2, <1>3, <1>4, <3>1, <3>2, SameHolds DEF Holds, HoldingPcs, BorrowOK, TerminalOK
  <2>2. CASE status[rd[r].slot] = Ready
    <3>1. rd[r].pc = "borrow" /\ status' = [status EXCEPT ![rd[r].slot] = Borrowed]
      BY <1>7, <2>2 DEF Borrow
    <3>2. /\ rd'[r].pc = "check" /\ rd'[r].slot = rd[r].slot
          /\ \A q \in Readers : q # r => rd'[q] = rd[q]
      BY <1>7, <2>2, MovedOn DEF Borrow
    <3>3. \A q \in Readers : ~Holds(q, rd[r].slot)
      BY <1>1, <2>2 DEF BorrowOK, BorrowedByExactlyOne
    <3>4. \A q \in Readers, s \in Slots :
             Holds(q, s)' <=> (Holds(q, s) \/ (q = r /\ s = rd[r].slot))
      BY <3>1, <3>2 DEF Holds, HoldingPcs
    <3>5. BorrowedByExactlyOne'
      BY <1>1, <3>1, <3>3, <3>4 DEF BorrowOK, BorrowedByExactlyOne, StatusOK
    <3>6. PhaseOK'
      BY <1>1, <1>2, <2>2, <3>1, SpareType DEF BorrowOK, PhaseOK, Spare, StatusOK, AuthorityOK
    <3>7. ReleaseOK'
      BY <1>1, <2>2, <3>1, <3>2 DEF BorrowOK, ReleaseOK, StatusOK
    <3> QED
      BY <1>2, <1>3, <1>4, <3>2, <3>5, <3>6, <3>7 DEF BorrowOK, TerminalOK
  <2> QED
    BY <2>1, <2>2
<1>8. CASE Check(r) \/ Copy(r) \/ Recheck(r)
  <2>1. rd[r].pc \in {"check", "copy", "recheck"} /\ UNCHANGED status
    BY <1>8 DEF Check, Copy, Recheck
  <2>2. /\ rd'[r].pc \in {"check", "copy", "recheck", "release"} /\ rd'[r].slot = rd[r].slot
        /\ \A q \in Readers : q # r => rd'[q] = rd[q]
    <3>1. CASE Check(r)
      BY <1>1, <3>1, MovedOn DEF Check, ReaderStates
    <3>2. CASE Copy(r)
      BY <1>1, <3>2 DEF Copy, ReaderStates
    <3>3. CASE Recheck(r)
      BY <1>1, <3>3, MovedOn DEF Recheck, ReaderStates
    <3> QED
      BY <1>8, <3>1, <3>2, <3>3
  <2> QED
    BY <1>2, <1>3, <1>4, <2>1, <2>2, SameHolds DEF Holds, HoldingPcs, BorrowOK, TerminalOK
<1>9. CASE Release(r) /\ status[rd[r].slot] = RetiredBorrowed
  <2>1. rd[r].pc = "release" /\ status' = status
    BY <1>1, <1>9 DEF Release, StatusOK
  <2>2. /\ rd'[r].pc = "releaseRetired" /\ rd'[r].slot = rd[r].slot
        /\ \A q \in Readers : q # r => rd'[q] = rd[q]
    BY <1>9, MovedOn DEF Release
  <2>3. \A q \in Readers, s \in Slots : Holds(q, s)' <=> Holds(q, s)
    BY <2>1, <2>2 DEF Holds, HoldingPcs
  <2> QED
    BY <1>2, <1>3, <1>4, <1>9, <2>1, <2>2, <2>3 DEF BorrowOK, BorrowedByExactlyOne, PhaseOK,
       ReleaseOK, TerminalOK, Spare
<1>10. CASE (Release(r) /\ status[rd[r].slot] # RetiredBorrowed) \/ ReleaseRetired(r)
  <2>1. rd[r].pc \in {"release", "releaseRetired"} /\ Holds(r, rd[r].slot)
    BY <1>10 DEF Release, ReleaseRetired, Holds, HoldingPcs
  <2>2. rd'[r].pc \in {"fence", "done"} /\ \A q \in Readers : q # r => rd'[q] = rd[q]
    BY <1>10, EndedAttempt DEF Release, ReleaseRetired
  <2>3. status[rd[r].slot] \in {Borrowed, RetiredBorrowed}
    BY <1>1, <2>1 DEF BorrowOK, BorrowedByExactlyOne
  <2>4. \/ status[rd[r].slot] = Borrowed /\ status' = [status EXCEPT ![rd[r].slot] = Ready]
        \/ status[rd[r].slot] = RetiredBorrowed /\ status' = [status EXCEPT ![rd[r].slot] = Vacant]
    BY <1>1, <1>10, <2>3 DEF Release, ReleaseRetired, BorrowOK, ReleaseOK
  <2>5. \A q \in Readers : q # r => ~Holds(q, rd[r].slot)
    BY <1>1, <2>1 DEF BorrowOK, BorrowedByExactlyOne
  <2>6. \A q \in Readers, s \in Slots : Holds(q, s)' <=> (Holds(q, s) /\ q # r)
    BY <2>2 DEF Holds, HoldingPcs
  <2>7. BorrowedByExactlyOne'
    <3>1. \A s \in Slots : s # rd[r].slot => status'[s] = status[s] /\ ~Holds(r, s)
      BY <2>4 DEF StatusOK, Holds
    <3>2. status'[rd[r].slot] \in {Ready, Vacant}
      BY <1>1, <2>4 DEF StatusOK
    <3> QED
      BY <2>5, <2>6, <3>1, <3>2 DEF BorrowOK, BorrowedByExactlyOne
  <2>8. PhaseOK'
    BY <1>1, <1>2, <2>4, SpareType, TwoSlots DEF BorrowOK, PhaseOK, Spare, StatusOK, AuthorityOK
  <2>9. ReleaseOK'
    BY <1>1, <2>2, <2>4, <2>5 DEF BorrowOK, ReleaseOK, StatusOK, Holds, HoldingPcs, ReadersOK, ReaderOK, ReaderStates
  <2> QED
    BY <1>2, <1>3, <1>4, <2>2, <2>7, <2>8, <2>9 DEF BorrowOK, TerminalOK
<1> QED
  BY <1>5, <1>6, <1>7, <1>8, <1>9, <1>10 DEF Step

LEMMA NextBorrow == ASSUME TypeOK, BorrowOK, [Next]_vars PROVE BorrowOK'
<1>1. ASSUME NEW o \in Observers, Observe(o) PROVE BorrowOK'
  <2>1. /\ rd[o].pc \in {"idle", "done"} /\ rd'[o].pc = "fence"
        /\ \A q \in Readers : q # o => rd'[q] = rd[q]
        /\ UNCHANGED <<authority, status, ctl>>
    BY <1>1 DEF Observe, TypeOK, ReadersOK, Idle, Readers
  <2>2. o # Terminal /\ Terminal \in Readers
    BY OutputAssumption DEF OutputAssumption, Readers
  <2> QED
    BY <2>1, <2>2, SameHolds DEF Holds, HoldingPcs, BorrowOK, TerminalOK
<1>2. CASE UNCHANGED vars
  BY <1>2 DEF vars, BorrowOK, BorrowedByExactlyOne, Holds, PhaseOK, ReleaseOK, TerminalOK, Spare
<1> QED
  BY <1>1, <1>2, ControllerBorrow, StepBorrow DEF Next

LEMMA BorrowInvariant == Spec => [](TypeOK /\ BorrowOK)
<1>1. Init => TypeOK /\ BorrowOK
  BY InitType, InitBorrow
<1>2. TypeOK /\ BorrowOK /\ [Next]_vars => (TypeOK /\ BorrowOK)'
  BY NextType, NextBorrow
<1> QED
  BY <1>1, <1>2, PTL DEF Spec

\* However many observers race, acquire and release keep a slot marked
\* borrowed exactly while one reader holds it.
THEOREM BorrowExclusive == Spec => []BorrowedByExactlyOne
<1>1. BorrowOK => BorrowedByExactlyOne
  BY DEF BorrowOK
<1> QED
  BY <1>1, BorrowInvariant, PTL

\* A reader that holds a slot finds its words as they were.
LEMMA HeldUnwritten ==
    ASSUME TypeOK, BorrowOK, [Next]_vars, NEW r \in Readers, rd[r].pc \in HoldingPcs
    PROVE  words'[rd[r].slot] = words[rd[r].slot]
<1>1. Holds(r, rd[r].slot) /\ rd[r].slot \in Slots
  BY DEF Holds, TypeOK, ReadersOK, ReaderOK, ReaderStates
<1>2. CASE WriteWord
  <2>1. status[Spare] = Writing /\ Spare \in Slots
    BY <1>2, SpareType DEF WriteWord, BorrowOK, PhaseOK, TypeOK
  <2>2. rd[r].slot # Spare
    BY <1>1, <2>1, SlotStates DEF BorrowOK, BorrowedByExactlyOne
  <2> QED
    BY <1>1, <1>2, <2>2 DEF WriteWord, TypeOK, WordsOK
<1>3. CASE ~WriteWord
  <2>1. UNCHANGED words
    BY ZenonT(60), <1>3 DEF Next, vars, Controller, PublishProgress, PublishFocus, ReserveLoad, ReserveCas,
           CommitWord, WriteFails, MarkReady, StorePublication, StoreSlot, Retire,
           RetireBorrowed, FinalRound, Observe, Step, CheckFence, LoadPublication, LoadSlot,
           Borrow, Check, Copy, Recheck, Release, ReleaseRetired
  <2> QED
    BY <2>1
<1> QED
  BY <1>2, <1>3

\* publish writes only the reserved slot, which nobody has borrowed.
THEOREM BorrowedUnwritten == Spec => BorrowedSlotImmutable
<1>1. TypeOK /\ BorrowOK /\ [Next]_vars
         => \A s \in Slots, r \in Readers : Holds(r, s) => words'[s] = words[s]
  BY HeldUnwritten DEF Holds
<1> QED
  BY <1>1, BorrowInvariant, PTL DEF Spec, BorrowedSlotImmutable

\* No lost race, refused row or late release leaks the spare slot.
THEOREM SpareNeverLeaks == Spec => []SpareRecovers
<1>1. ASSUME TypeOK, BorrowOK PROVE SpareRecovers
  <2>1. Spare \in Slots /\ status[Spare] \in Vacant .. RetiredBorrowed
    BY <1>1, SpareType DEF TypeOK, StatusOK
  <2>2. ctl.pc \in {"idle", "stopped"} => status[Spare] # Writing
    BY <1>1 DEF BorrowOK, PhaseOK
  <2> QED
    BY <1>1, <2>1, <2>2, SlotStates DEF SpareRecovers, BorrowOK, BorrowedByExactlyOne
<1> QED
  BY <1>1, BorrowInvariant, PTL

-----------------------------------------------------------------------------
(* Contents.  A reader may trust what it copies because a readable slot     *)
(* holds one publication whole, except the slot that is marked ready but    *)
(* not yet announced, whose publication word no reader has seen.            *)

\* The words publish has written, or a reader has copied, before each word.
Before == [publication |-> {}, root |-> {"publication"},
           generation |-> {"publication", "root"},
           epoch |-> {"publication", "root", "generation"},
           rows |-> {"publication", "root", "generation", "epoch"}]

Readable(s) == status[s] \in {Ready, Borrowed, RetiredBorrowed}
Whole(s) ==
    /\ words[s]["publication"] \in DOMAIN published
    /\ words[s] = published[words[s]["publication"]]

ContentOK ==
    /\ Len(published) = authority["publication"]
    /\ \A p \in DOMAIN published : published[p]["publication"] = p
    /\ ctl.pc = "write" => \A w \in Before[ctl.at] : words[Spare][w] = Captured[w]
    /\ ctl.pc \in {"ready", "publication"} => words[Spare] = Captured
    /\ ctl.pc = "slot" => /\ words[Spare] = published[Len(published)]
                          /\ Whole(authority["slot"])
    /\ ctl.pc # "slot" => words[authority["slot"]] = published[Len(published)]
    /\ \A s \in Slots : Readable(s) => Whole(s) \/ (s = Spare /\ ctl.pc = "publication")

LEMMA WordsBefore ==
    /\ \A w \in SlotWords : NextWord[w] # "end" => Before[NextWord[w]] = Before[w] \cup {w}
    /\ \A w \in SlotWords : NextWord[w] = "end" => SlotWords = Before[w] \cup {w}
    /\ \A w \in SlotWords : w \notin Before[w] /\ Before[w] \subseteq SlotWords
    /\ Before["publication"] = {}
BY DEF Before, NextWord, SlotWords, HeaderWords, FenceWords

LEMMA InitContent == ASSUME Init PROVE ContentOK
<1>1. PICK f \in Foci : Bootstrapped(f)
  BY DEF Init
<1> DEFINE first == [publication |-> 1, root |-> f.root, generation |-> f.generation,
                     epoch |-> 1, rows |-> 1]
<1>2. /\ authority["publication"] = 1 /\ authority["slot"] = 0 /\ ctl.pc = "idle"
      /\ published = <<first>> /\ words[0] = first /\ status[0] = Ready /\ status[1] = Vacant
      /\ first["publication"] = 1
  BY <1>1, SlotStates DEF Bootstrapped, Slots
<1>3. Len(published) = 1 /\ DOMAIN published = {1} /\ published[1] = first
  BY <1>2
<1>4. Whole(0) /\ ~Readable(1)
  BY <1>2, <1>3, SlotStates DEF Whole, Readable
<1> QED
  BY <1>2, <1>3, <1>4 DEF ContentOK, Slots

\* The steps that touch neither words nor the history nor announce a slot.
LEMMA SameContent ==
    ASSUME TypeOK, ContentOK, UNCHANGED <<words, published>>,
           authority'["publication"] = authority["publication"],
           authority'["slot"] = authority["slot"],
           \A s \in Slots : Readable(s)' => Readable(s),
           ctl.pc \notin {"slot", "publication"}, ctl'.pc \notin {"slot", "publication", "ready"},
           ctl'.pc = "write" => ctl'.at = "publication"
    PROVE  ContentOK'
<1>1. Spare' = Spare /\ \A s \in Slots : Whole(s)' <=> Whole(s)
  BY DEF Spare, Whole
<1> QED
  BY <1>1, WordsBefore DEF ContentOK

LEMMA ControllerContent == ASSUME TypeOK, BorrowOK, ContentOK, Controller PROVE ContentOK'
<1> USE SpareType DEF TypeOK
<1>1. CASE PublishProgress \/ PublishFocus
  <2>1. PICK purpose, focus : ReserveLoad(purpose, focus)
    BY <1>1 DEF PublishProgress, PublishFocus
  <2>2. ctl.pc = "idle" /\ ctl'.pc = "reserve" /\ UNCHANGED <<authority, status, words, published>>
    BY <2>1 DEF ReserveLoad, ControllerOK, ControllerStates
  <2> QED
    BY <2>2, SameContent DEF Readable
<1>2. CASE ReserveCas
  <2>1. /\ ctl.pc = "reserve" /\ ctl'.pc \in {"commit", "write", "idle"}
        /\ ctl'.pc = "write" => ctl'.at = "publication"
        /\ UNCHANGED <<authority, words, published>>
    BY <1>2 DEF ReserveCas, ControllerOK, ControllerStates
  <2>2. \A s \in Slots : Readable(s)' => Readable(s)
    BY <1>2, SlotStates DEF ReserveCas, Readable, StatusOK
  <2> QED
    BY <2>1, <2>2, SameContent
<1>3. CASE CommitWord
  <2>1. /\ ctl.pc = "commit" /\ ctl'.pc \in {"commit", "write"}
        /\ ctl'.pc = "write" => ctl'.at = "publication"
        /\ UNCHANGED <<status, words, published>>
    BY <1>3 DEF CommitWord, ControllerOK, ControllerStates
  <2>2. authority'["slot"] = authority["slot"] /\ authority'["publication"] = authority["publication"]
    BY <1>3, <2>1, WordSets DEF CommitWord, AuthorityOK, ControllerOK, FenceWords
  <2> QED
    BY <2>1, <2>2, SameContent DEF Readable
<1>4. CASE WriteWord
  <2>1. /\ ctl.pc = "write" /\ UNCHANGED <<authority, status, published>>
        /\ words' = [words EXCEPT ![Spare][ctl.at] = Captured[ctl.at]]
    BY <1>4 DEF WriteWord
  <2>2. ctl.at \in SlotWords /\ status[Spare] = Writing
    BY <2>1 DEF ControllerOK, BorrowOK, PhaseOK
  <2>3. /\ words'[authority["slot"]] = words[authority["slot"]]
        /\ words'[Spare] = [words[Spare] EXCEPT ![ctl.at] = Captured[ctl.at]]
    BY <2>1 DEF AuthorityOK, WordsOK
  <2>4. Spare' = Spare /\ ctl'.focus = ctl.focus
    BY <1>4, <2>1 DEF WriteWord, Spare, ControllerOK, ControllerStates
  <2>5. Captured' = Captured
    BY <2>1, <2>4 DEF Captured
  <2>6. \A w \in Before[ctl.at] \cup {ctl.at} : words'[Spare][w] = Captured[w]
    BY <2>1, <2>2, <2>3, WordsBefore DEF ContentOK, WordsOK, Words
  <2>7. \A s \in Slots : Readable(s)' => Whole(s)'
    <3>1. ~Readable(Spare)'
      BY <2>1, <2>2, <2>4, SlotStates DEF Readable
    <3>2. Readable(authority["slot"]) => Whole(authority["slot"])
      BY <2>1 DEF ContentOK, AuthorityOK
    <3> QED
      BY <2>1, <2>3, <2>4, <3>1, <3>2, TwoSlots DEF Readable, Whole
  <2>8. CASE NextWord[ctl.at] = "end"
    <3>1. ctl'.pc = "ready"
      BY <1>4, <2>8 DEF WriteWord, ControllerOK, ControllerStates
    <3>2. words'[Spare] = Captured
      <4>1. words'[Spare] \in Words /\ Captured \in Words
        BY <2>2, <2>3, CapturedType DEF WordsOK, Words
      <4>2. \A w \in SlotWords : words'[Spare][w] = Captured[w]
        BY <2>2, <2>6, <2>8, WordsBefore
      <4> QED
        BY <4>1, <4>2 DEF Words
    <3> QED
      BY <2>1, <2>3, <2>4, <2>5, <2>7, <3>1, <3>2 DEF ContentOK
  <2>9. CASE NextWord[ctl.at] # "end"
    <3>1. ctl'.pc = "write" /\ ctl'.at = NextWord[ctl.at]
      BY <1>4, <2>1, <2>9 DEF WriteWord, ControllerOK, ControllerStates
    <3>2. \A w \in Before[ctl'.at] : words'[Spare][w] = Captured[w]
      BY <2>2, <2>6, <2>9, <3>1, WordsBefore
    <3> QED
      BY <2>1, <2>3, <2>4, <2>5, <2>7, <3>1, <3>2 DEF ContentOK
  <2> QED
    BY <2>8, <2>9
<1>5. CASE WriteFails
  <2>1. /\ ctl.pc = "write" /\ ctl'.pc = "idle" /\ UNCHANGED <<authority, words, published>>
        /\ status' = [status EXCEPT ![Spare] = Vacant]
    BY <1>5 DEF WriteFails, ControllerOK, ControllerStates
  <2>2. \A s \in Slots : Readable(s)' => Readable(s)
    BY <2>1, SlotStates DEF Readable, StatusOK
  <2> QED
    BY <2>1, <2>2, SameContent
<1>6. CASE MarkReady
  <2>1. /\ ctl.pc = "ready" /\ ctl'.pc = "publication" /\ UNCHANGED <<authority, words, published>>
        /\ ctl'.focus = ctl.focus
        /\ status' = [status EXCEPT ![Spare] = Ready]
    BY <1>6 DEF MarkReady, ControllerOK, ControllerStates
  <2>2. Spare' = Spare /\ Captured' = Captured /\ \A s \in Slots : Whole(s)' <=> Whole(s)
    BY <2>1 DEF Spare, Captured, Whole
  <2>3. \A s \in Slots : s # Spare => (Readable(s)' <=> Readable(s))
    BY <2>1 DEF Readable, StatusOK
  <2> QED
    BY <2>1, <2>2, <2>3 DEF ContentOK
<1>7. CASE StorePublication
  <2>1. /\ ctl.pc = "publication" /\ ctl'.pc = "slot" /\ UNCHANGED <<status, words>>
        /\ published' = Append(published, Captured)
        /\ authority'["slot"] = authority["slot"]
        /\ authority'["publication"] = authority["publication"] + 1
    BY <1>7 DEF StorePublication, ControllerOK, ControllerStates, AuthorityOK, AuthorityWords, HeaderWords
  <2>2. Captured \in Words /\ Captured["publication"] = Len(published) + 1
    BY CapturedType DEF Captured, ContentOK
  <2>3. /\ Len(published') = Len(published) + 1 /\ DOMAIN published = 1 .. Len(published)
        /\ DOMAIN published' = 1 .. Len(published) + 1
        /\ \A p \in DOMAIN published : published'[p] = published[p]
        /\ published'[Len(published) + 1] = Captured
    BY <2>1, <2>2 DEF HistoryOK
  <2>4. \A p \in DOMAIN published' : published'[p]["publication"] = p
    BY <2>2, <2>3 DEF ContentOK, HistoryOK
  <2>5. \A s \in Slots : Whole(s) => Whole(s)'
    BY <2>1, <2>3 DEF Whole
  <2>6. words[Spare] = Captured /\ Whole(authority["slot"])
    <3>1. words[authority["slot"]] = published[Len(published)] /\ words[Spare] = Captured
      BY <2>1 DEF ContentOK
    <3>2. Len(published) \in DOMAIN published
      BY DEF HistoryOK
    <3> QED
      BY <3>1, <3>2 DEF Whole, ContentOK
  <2>7. Whole(Spare)'
    BY <2>1, <2>2, <2>3, <2>6 DEF Whole, Spare
  <2>8. Spare' = Spare
    BY <2>1 DEF Spare
  <2>9. Whole(authority["slot"])' /\ words'[Spare'] = published'[Len(published')]
    BY <2>1, <2>3, <2>5, <2>6, <2>8 DEF AuthorityOK, Whole
  <2>10. Len(published') = authority'["publication"]
    BY <2>1, <2>3 DEF ContentOK
  <2>11. \A s \in Slots : Whole(s)'
    BY <2>5, <2>6, <2>7, <2>8, TwoSlots DEF AuthorityOK
  <2> QED
    BY <2>1, <2>4, <2>9, <2>10, <2>11 DEF ContentOK
<1>8. CASE StoreSlot
  <2>1. /\ ctl.pc = "slot" /\ ctl'.pc = "retire" /\ UNCHANGED <<status, words, published>>
        /\ authority'["slot"] = Spare /\ authority'["publication"] = authority["publication"]
    BY <1>8, WordSets DEF StoreSlot, ControllerOK, ControllerStates, AuthorityOK
  <2>2. \A s \in Slots : Readable(s)' => Whole(s)'
    BY <2>1 DEF ContentOK, Readable, Whole
  <2> QED
    BY <2>1, <2>2 DEF ContentOK
<1>9. CASE Retire \/ RetireBorrowed
  <2>1. /\ ctl.pc \in {"retire", "retireBorrowed"} /\ ctl'.pc \in {"retireBorrowed", "idle"}
        /\ UNCHANGED <<authority, words, published>>
    BY <1>9 DEF Retire, RetireBorrowed, ControllerOK, ControllerStates
  <2>2. \A s \in Slots : Readable(s)' => Readable(s)
    BY <1>9, SlotStates DEF Retire, RetireBorrowed, Readable, StatusOK
  <2> QED
    BY <2>1, <2>2, SameContent
<1>10. CASE FinalRound
  <2>1. ctl.pc = "idle" /\ ctl'.pc = "stopped" /\ UNCHANGED <<authority, status, words, published>>
    BY <1>10 DEF FinalRound, ControllerOK, ControllerStates
  <2> QED
    BY <2>1, SameContent DEF Readable
<1> QED
  BY <1>1, <1>2, <1>3, <1>4, <1>5, <1>6, <1>7, <1>8, <1>9, <1>10 DEF Controller

\* A reader changes slot states only, and never makes a slot readable.
LEMMA ReaderContent ==
    ASSUME TypeOK, ContentOK, UNCHANGED <<authority, words, ctl, published>>,
           \A s \in Slots : Readable(s)' => Readable(s)
    PROVE  ContentOK'
<1>1. Spare' = Spare /\ Captured' = Captured /\ \A s \in Slots : Whole(s)' <=> Whole(s)
  BY DEF Spare, Captured, Whole
<1>2. authority["slot"] \in Slots
  BY DEF TypeOK, AuthorityOK
<1> QED
  BY <1>1, <1>2 DEF ContentOK

LEMMA StepReadable ==
    ASSUME TypeOK, NEW r \in Readers, Step(r)
    PROVE  UNCHANGED <<authority, words, ctl, published>> /\ \A s \in Slots : Readable(s)' => Readable(s)
<1>1. StatusOK /\ rd[r].slot \in Slots
  BY DEF TypeOK, ReadersOK, ReaderOK, ReaderStates
<1>2. CASE Borrow(r) \/ Release(r) \/ ReleaseRetired(r)
  BY <1>1, <1>2, SlotStates DEF Borrow, Release, ReleaseRetired, Readable, StatusOK
<1>3. CASE ~(Borrow(r) \/ Release(r) \/ ReleaseRetired(r))
  BY <1>3 DEF Step, CheckFence, LoadPublication, LoadSlot, Check, Copy, Recheck, Readable
<1> QED
  BY <1>2, <1>3

LEMMA NextContent == ASSUME TypeOK, BorrowOK, ContentOK, [Next]_vars PROVE ContentOK'
<1>1. ASSUME NEW o \in Observers, Observe(o) PROVE ContentOK'
  BY <1>1, ReaderContent DEF Observe, Readable
<1>2. ASSUME NEW r \in Readers, Step(r) PROVE ContentOK'
  BY <1>2, StepReadable, ReaderContent
<1>3. CASE UNCHANGED vars
  BY <1>3, ReaderContent DEF vars, Readable
<1> QED
  BY <1>1, <1>2, <1>3, ControllerContent DEF Next

LEMMA ContentInvariant == Spec => [](TypeOK /\ BorrowOK /\ ContentOK)
<1>1. Init => TypeOK /\ BorrowOK /\ ContentOK
  BY InitType, InitBorrow, InitContent
<1>2. TypeOK /\ BorrowOK /\ ContentOK /\ [Next]_vars => (TypeOK /\ BorrowOK /\ ContentOK)'
  BY NextType, NextBorrow, NextContent
<1> QED
  BY <1>1, <1>2, PTL DEF Spec

\* An observer always finds a slot it may borrow, and in it the last
\* publication whole (or, while the slot word is due, the one before).
THEOREM CurrentServable == Spec => []CurrentSlotServable
<1>1. ASSUME TypeOK, BorrowOK, ContentOK PROVE CurrentSlotServable
  <2>1. status[authority["slot"]] \in {Ready, Borrowed} /\ authority["slot"] \in Slots
    BY <1>1 DEF BorrowOK, PhaseOK, TypeOK, AuthorityOK
  <2>2. Len(published) \in DOMAIN published
    BY <1>1 DEF TypeOK, HistoryOK
  <2>3. CASE ctl.pc = "slot"
    BY <1>1, <2>1, <2>3 DEF ContentOK, Whole, CurrentSlotServable
  <2>4. CASE ctl.pc # "slot"
    BY <1>1, <2>1, <2>2, <2>4 DEF ContentOK, CurrentSlotServable
  <2> QED
    BY <2>3, <2>4
<1> QED
  BY <1>1, ContentInvariant, PTL

-----------------------------------------------------------------------------
(* Answers.  What each reader knows at each of its program points.          *)

\* The snapshot words acquire has compared before each of its conditions.
Compared == [publication |-> {}, authorityPublication |-> {}, root |-> {},
             generation |-> {"root"}, epoch |-> {"root", "generation"},
             authorityEpoch |-> FenceWords, authoritySlot |-> FenceWords]

Served(me) ==
    /\ \E p \in DOMAIN published : me.copy = published[p]
    /\ Fence(me.copy) = me.want
    /\ me.copy["publication"] >= me.from

KnowsOK(me) ==
    /\ me.pc \notin {"idle", "done"} => me.from <= authority["publication"]
    /\ me.pc \in {"slot", "borrow", "check", "copy", "recheck"} =>
          me.from <= me.seen /\ me.seen <= authority["publication"]
    /\ me.pc = "check" =>
          /\ me.at # "publication" => words[me.slot]["publication"] = me.seen
          /\ \A w \in Compared[me.at] : words[me.slot][w] = me.want[w]
    /\ me.pc \in {"copy", "recheck"} =>
          /\ words[me.slot]["publication"] = me.seen
          /\ \A w \in FenceWords : words[me.slot][w] = me.want[w]
    /\ me.pc = "copy" => \A w \in Before[me.at] : me.copy[w] = words[me.slot][w]
    /\ me.pc = "recheck" => me.copy = words[me.slot]
    /\ me.result = "ready" => Served(me)

\* Nothing is published under the terminal read.
TerminalLast ==
    rd[Terminal].pc \in {"slot", "borrow", "check", "copy"} =>
        rd[Terminal].seen = authority["publication"]

KnowledgeOK == TerminalLast /\ \A r \in Readers : KnowsOK(rd[r])

IInv == TypeOK /\ BorrowOK /\ ContentOK /\ KnowledgeOK

LEMMA InitKnowledge == ASSUME Init PROVE KnowledgeOK
<1>1. PICK f \in Foci : Bootstrapped(f)
  BY DEF Init
<1>2. rd = [r \in Readers |-> Idle] /\ Terminal \in Readers
  BY <1>1 DEF Bootstrapped, Readers
<1>3. authority["publication"] <= authority["publication"]
  BY <1>1 DEF Bootstrapped
<1> QED
  BY <1>2, <1>3 DEF KnowledgeOK, TerminalLast, KnowsOK, Idle

\* A slot a reader holds and whose publication word is one it has seen in the
\* authority is not the slot being announced, so it is whole.
LEMMA HeldWhole ==
    ASSUME IInv, NEW r \in Readers, rd[r].pc \in {"copy", "recheck"}
    PROVE  /\ words[rd[r].slot] = published[rd[r].seen]
           /\ rd[r].seen \in DOMAIN published
<1> DEFINE s == rd[r].slot
<1>1. s \in Slots /\ Holds(r, s)
  BY DEF IInv, TypeOK, ReadersOK, ReaderOK, ReaderStates, Holds, HoldingPcs
<1>2. Readable(s)
  BY <1>1 DEF IInv, BorrowOK, BorrowedByExactlyOne, Readable
<1>3. words[s]["publication"] = rd[r].seen /\ rd[r].seen <= authority["publication"]
  BY DEF IInv, KnowledgeOK, KnowsOK
<1>4. ASSUME s = Spare, ctl.pc = "publication" PROVE FALSE
  <2>1. words[s]["publication"] = authority["publication"] + 1
    BY <1>4 DEF IInv, ContentOK, Captured
  <2> QED
    BY <1>3, <2>1, WordSets DEF IInv, TypeOK, AuthorityOK
<1> QED
  BY <1>1, <1>2, <1>3, <1>4 DEF IInv, ContentOK, Whole

\* Steps of others do not disturb what a reader knows: the slot it holds keeps
\* its words, publications are only appended.
LEMMA KeepsKnowing ==
    ASSUME IInv, NEW r \in Readers, rd'[r] = rd[r],
           rd[r].pc \in HoldingPcs => words'[rd[r].slot] = words[rd[r].slot],
           authority'["publication"] \in Nat,
           authority["publication"] <= authority'["publication"],
           DOMAIN published \subseteq DOMAIN published',
           \A p \in DOMAIN published : published'[p] = published[p]
    PROVE  KnowsOK(rd[r])'
<1>1. KnowsOK(rd[r]) /\ rd[r].from \in Nat /\ rd[r].seen \in Nat /\ authority["publication"] \in Nat
  BY WordSets DEF IInv, KnowledgeOK, TypeOK, ReadersOK, ReaderOK, ReaderStates, AuthorityOK
<1> QED
  BY <1>1 DEF KnowsOK, Served, HoldingPcs

\* Publications are numbered upwards and never rewritten.
LEMMA Appends ==
    ASSUME IInv, [Next]_vars
    PROVE  /\ authority["publication"] \in Nat /\ authority'["publication"] \in Nat
           /\ authority["publication"] <= authority'["publication"]
           /\ DOMAIN published \subseteq DOMAIN published'
           /\ \A p \in DOMAIN published : published'[p] = published[p]
<1>1. AuthorityOK' /\ AuthorityOK /\ HistoryOK
  BY NextType DEF IInv, TypeOK
<1>2. authority["publication"] \in Nat /\ authority'["publication"] \in Nat
  BY <1>1, WordSets DEF AuthorityOK
<1>3. CASE StorePublication
  <2>1. Captured \in Words
    BY CapturedType DEF IInv, TypeOK
  <2>2. authority'["publication"] = authority["publication"] + 1
    BY <1>1, <1>3, WordSets DEF StorePublication, AuthorityOK
  <2>3. DOMAIN published = 1 .. Len(published) /\ DOMAIN published' = 1 .. Len(published) + 1
        /\ \A p \in DOMAIN published : published'[p] = published[p]
    BY <1>1, <1>3, <2>1 DEF StorePublication, HistoryOK
  <2>4. Len(published) \in Nat
    BY <1>1 DEF HistoryOK
  <2> QED
    BY <1>2, <2>2, <2>3, <2>4
<1>4. CASE ~StorePublication
  <2>1. UNCHANGED published
    BY <1>4 DEF Next, vars, Controller, PublishProgress, PublishFocus, ReserveLoad, ReserveCas,
           CommitWord, WriteWord, WriteFails, MarkReady, StoreSlot, Retire, RetireBorrowed,
           FinalRound, Observe, Step, CheckFence, LoadPublication, LoadSlot, Borrow, Check, Copy,
           Recheck, Release, ReleaseRetired
  <2>2. ContentOK'
    BY NextContent DEF IInv
  <2> QED
    BY <1>2, <2>1, <2>2 DEF IInv, ContentOK
<1> QED
  BY <1>3, <1>4

LEMMA ReadyAnswer ==
    ASSUME IInv, NEW r \in Readers, rd[r].pc \in {"copy", "recheck"}, NEW copy,
           copy = words[rd[r].slot]
    PROVE  /\ copy = published[rd[r].seen] /\ rd[r].seen \in DOMAIN published
           /\ Fence(copy) = rd[r].want
           /\ copy["publication"] = rd[r].seen
           /\ copy["publication"] >= rd[r].from
<1>1. KnowsOK(rd[r]) /\ rd[r] \in ReaderStates
  BY DEF IInv, KnowledgeOK, TypeOK, ReadersOK, ReaderOK
<1>2. rd[r].want = [w \in FenceWords |-> rd[r].want[w]]
  BY <1>1 DEF ReaderStates
<1>3. Fence(copy) = [w \in FenceWords |-> copy[w]]
  BY DEF Fence
<1>4. \A w \in FenceWords : copy[w] = rd[r].want[w]
  BY <1>1 DEF KnowsOK
<1> QED
  BY <1>1, <1>2, <1>3, <1>4, HeldWhole DEF KnowsOK, ReaderStates

\* Ending an attempt: nothing is known, or the answer already given stands.
LEMMA EndedKnows ==
    ASSUME IInv, NEW r \in Readers, UNCHANGED <<authority, published>>,
           KnowsOK(rd[r]), rd[r].pc \notin {"idle", "done"},
           \/ rd[r].pc \in {"release", "releaseRetired"} /\ Resume(r)
           \/ Retry(r)
           \/ Answer(r, "unavailable")
    PROVE  KnowsOK(rd[r])'
<1>1. DOMAIN rd = Readers /\ rd[r] \in ReaderStates /\ ReaderOK(rd[r])
  BY DEF IInv, TypeOK, ReadersOK, ReaderOK
<1>2. ASSUME Answer(r, "unavailable") PROVE KnowsOK(rd[r])'
  BY <1>1, <1>2 DEF Answer, KnowsOK, Idle
<1>3. ASSUME Retry(r) PROVE KnowsOK(rd[r])'
  <2>1. CASE rd[r].attempt + 1 < Attempts
    <3>1. rd'[r].pc = "fence" /\ rd'[r].from = rd[r].from /\ rd'[r].result = "none"
      BY <1>1, <1>3, <2>1 DEF Retry, ReaderStates
    <3> QED
      BY <3>1 DEF KnowsOK
  <2>2. CASE ~(rd[r].attempt + 1 < Attempts)
    BY <1>2, <1>3, <2>2 DEF Retry
  <2> QED
    BY <2>1, <2>2
<1>4. ASSUME rd[r].result = "ready", Answer(r, "ready") PROVE KnowsOK(rd[r])'
  <2>1. /\ rd'[r].pc = "done" /\ rd'[r].copy = rd[r].copy
        /\ rd'[r].want = rd[r].want /\ rd'[r].from = rd[r].from
    BY <1>1, <1>4 DEF Answer, ReaderStates
  <2> QED
    BY <1>4, <2>1 DEF KnowsOK, Served
<1>5. ASSUME rd[r].pc \in {"release", "releaseRetired"}, Resume(r) PROVE KnowsOK(rd[r])'
  <2>1. rd[r].result \in {"retry", "ready", "unavailable"}
    BY <1>1, <1>5 DEF ReaderOK, ReaderStates
  <2> QED
    BY <1>2, <1>3, <1>4, <1>5, <2>1 DEF Resume
<1> QED
  BY <1>2, <1>3, <1>5

LEMMA StepKnows == ASSUME IInv, NEW r \in Readers, Step(r) PROVE KnowsOK(rd[r])'
<1>1. DOMAIN rd = Readers /\ rd[r] \in ReaderStates /\ ReaderOK(rd[r]) /\ KnowsOK(rd[r])
  BY DEF IInv, KnowledgeOK, TypeOK, ReadersOK, ReaderOK
<1>2. UNCHANGED <<authority, words, ctl, published>> /\ authority["publication"] \in Nat
  BY WordSets, StepReadable DEF IInv, TypeOK, AuthorityOK
<1>3. rd[r].pc # "idle" /\ rd[r].pc # "done"
  BY DEF Step, CheckFence, LoadPublication, LoadSlot, Borrow, Check, Copy, Recheck, Release,
         ReleaseRetired
<1>4. CASE CheckFence(r)
  <2>1. CASE Answer(r, "unavailable")
    BY <1>1, <1>2, <1>3, <2>1, EndedKnows
  <2>2. CASE ~Answer(r, "unavailable")
    <3>1. /\ rd'[r].pc \in {"publication", "fence"} /\ rd'[r].from = rd[r].from
          /\ rd'[r].result = rd[r].result
      BY <1>4, <2>2, MovedOn DEF CheckFence, IInv
    <3>2. rd[r].result = "none"
      BY <1>1, <1>4 DEF CheckFence, ReaderOK
    <3> QED
      BY <1>1, <1>2, <1>3, <3>1, <3>2 DEF KnowsOK
  <2> QED
    BY <2>1, <2>2
<1>5. CASE LoadPublication(r)
  <2>1. /\ rd'[r].pc = "slot" /\ rd'[r].seen = authority["publication"]
        /\ rd'[r].from = rd[r].from /\ rd'[r].result = rd[r].result /\ rd[r].pc = "publication"
    BY <1>1, <1>5 DEF LoadPublication, ReaderStates
  <2>2. rd[r].result = "none"
    BY <1>1, <2>1 DEF ReaderOK
  <2> QED
    BY <1>1, <1>2, <2>1, <2>2 DEF KnowsOK
<1>6. CASE LoadSlot(r)
  <2>1. /\ rd'[r].pc = "borrow" /\ rd'[r].seen = rd[r].seen
        /\ rd'[r].from = rd[r].from /\ rd'[r].result = rd[r].result /\ rd[r].pc = "slot"
    BY <1>1, <1>6 DEF LoadSlot, ReaderStates
  <2>2. rd[r].result = "none"
    BY <1>1, <2>1 DEF ReaderOK
  <2> QED
    BY <1>1, <1>2, <2>1, <2>2 DEF KnowsOK
<1>7. CASE Borrow(r)
  <2>1. CASE status[rd[r].slot] # Ready
    BY <1>1, <1>2, <1>3, <1>7, <2>1, EndedKnows DEF Borrow
  <2>2. CASE status[rd[r].slot] = Ready
    <3>1. rd[r].pc = "borrow" /\ Goto(r, "check", "publication")
      BY <1>7, <2>2 DEF Borrow
    <3>2. rd[r].result = "none" /\ Compared["publication"] = {}
      BY <1>1, <3>1 DEF ReaderOK, Compared
    <3>3. /\ rd'[r].pc = "check" /\ rd'[r].at = "publication" /\ rd'[r].seen = rd[r].seen
          /\ rd'[r].from = rd[r].from /\ rd'[r].result = "none"
      BY <3>1, <3>2, MovedOn DEF IInv
    <3> QED
      BY <1>1, <1>2, <3>1, <3>2, <3>3 DEF KnowsOK
  <2> QED
    BY <2>1, <2>2
<1>8. CASE Check(r)
  <2>1. rd[r].pc = "check" /\ rd[r].at \in DOMAIN NextCheck /\ rd[r].result = "none"
    BY <1>1, <1>8 DEF Check, ReaderOK
  <2>2. CASE ~Checks(r, rd[r].at)
    <3>1. rd'[r].pc = "release" /\ rd'[r].from = rd[r].from /\ rd'[r].result = "retry"
      BY <1>1, <1>8, <2>2 DEF Check, ReaderStates
    <3> QED
      BY <1>1, <1>2, <2>1, <3>1 DEF KnowsOK
  <2>3. CASE Checks(r, rd[r].at)
    <3> DEFINE next == NextCheck[rd[r].at]
    <3>1. /\ rd'[r].slot = rd[r].slot /\ rd'[r].seen = rd[r].seen /\ rd'[r].want = rd[r].want
          /\ rd'[r].from = rd[r].from /\ rd'[r].copy = rd[r].copy /\ rd'[r].result = "none"
          /\ \/ next = "end" /\ rd'[r].pc = "copy" /\ rd'[r].at = "publication"
             \/ next # "end" /\ rd'[r].pc = "check" /\ rd'[r].at = next
      BY <1>8, <2>1, <2>3, MovedOn DEF Check, IInv
    <3>2. words[rd[r].slot]["publication"] = rd[r].seen
      BY <1>1, <2>1, <2>3 DEF KnowsOK, Checks
    <3>3. next # "end" => \A w \in Compared[next] : words[rd[r].slot][w] = rd[r].want[w]
      BY <1>1, <2>1, <2>3 DEF KnowsOK, Checks, Compared, NextCheck, FenceWords
    <3>4. next = "end" => \A w \in FenceWords : words[rd[r].slot][w] = rd[r].want[w]
      BY <1>1, <2>1, <2>3 DEF KnowsOK, Checks, Compared, NextCheck, FenceWords
    <3>5. CASE next = "end"
      BY <1>1, <1>2, <2>1, <3>1, <3>2, <3>4, <3>5, WordsBefore DEF KnowsOK
    <3>6. CASE next # "end"
      BY <1>1, <1>2, <2>1, <3>1, <3>2, <3>3, <3>6 DEF KnowsOK
    <3> QED
      BY <3>5, <3>6
  <2> QED
    BY <2>2, <2>3
<1>9. CASE Copy(r)
  <2> DEFINE at == rd[r].at
             slot == rd[r].slot
  <2>1. rd[r].pc = "copy" /\ at \in SlotWords /\ rd[r].result = "none"
    BY <1>1, <1>9 DEF Copy, ReaderOK
  <2>2. /\ rd'[r].slot = slot /\ rd'[r].seen = rd[r].seen /\ rd'[r].want = rd[r].want
        /\ rd'[r].from = rd[r].from /\ rd'[r].copy = [rd[r].copy EXCEPT ![at] = words[slot][at]]
    BY <1>1, <1>9 DEF Copy, ReaderStates
  <2>3. \A w \in Before[at] \cup {at} : rd'[r].copy[w] = words[slot][w]
    BY <1>1, <2>1, <2>2, WordsBefore DEF KnowsOK, ReaderStates, Words
  <2>4. CASE NextWord[at] # "end"
    <3>1. rd'[r].pc = "copy" /\ rd'[r].at = NextWord[at] /\ rd'[r].result = "none"
      BY <1>1, <1>9, <2>1, <2>4 DEF Copy, ReaderStates
    <3>2. Before[NextWord[at]] = Before[at] \cup {at}
      BY <2>1, <2>4, WordsBefore
    <3> QED
      BY <1>1, <1>2, <2>1, <2>2, <2>3, <3>1, <3>2 DEF KnowsOK
  <2>5. CASE NextWord[at] = "end"
    <3>1. rd'[r].copy = words[slot]
      <4>1. \A w \in SlotWords : rd'[r].copy[w] = words[slot][w]
        BY <2>1, <2>3, <2>5, WordsBefore
      <4>2. rd[r].copy \in Words /\ words[slot] \in Words
        BY <1>1 DEF IInv, TypeOK, WordsOK, ReaderStates
      <4> QED
        BY <2>2, <4>1, <4>2 DEF Words
    <3>2. /\ words[slot] = published[rd[r].seen] /\ rd[r].seen \in DOMAIN published
          /\ Fence(words[slot]) = rd[r].want /\ words[slot]["publication"] >= rd[r].from
      BY <2>1, ReadyAnswer
    <3>3. Served(rd[r])'
      BY <1>2, <2>2, <3>1, <3>2 DEF Served, Fence
    <3>4. /\ rd'[r].pc = IF r = Terminal THEN "release" ELSE "recheck"
      BY <1>1, <1>9, <2>5 DEF Copy, ReaderStates
    <3> QED
      BY <1>1, <1>2, <2>1, <2>2, <3>1, <3>3, <3>4 DEF KnowsOK
  <2> QED
    BY <2>4, <2>5
<1>10. CASE Recheck(r)
  <2>1. rd[r].pc = "recheck" /\ rd[r].result = "none" /\ rd[r].copy = words[rd[r].slot]
    BY <1>1, <1>10 DEF Recheck, ReaderOK, KnowsOK
  <2>2. Served(rd[r])
    BY <2>1, ReadyAnswer DEF Served
  <2>3. /\ rd'[r].slot = rd[r].slot /\ rd'[r].seen = rd[r].seen /\ rd'[r].want = rd[r].want
        /\ rd'[r].from = rd[r].from /\ rd'[r].copy = rd[r].copy
        /\ \/ rd'[r].pc = "recheck" /\ rd'[r].result = "none"
           \/ rd'[r].pc = "release"
    BY <1>1, <1>10, <2>1 DEF Recheck, Goto, ReaderStates
  <2>4. Served(rd[r])'
    BY <1>2, <2>2, <2>3 DEF Served, Fence
  <2> QED
    BY <1>1, <1>2, <2>1, <2>3, <2>4 DEF KnowsOK
<1>11. CASE Release(r)
  <2>1. CASE status[rd[r].slot] # RetiredBorrowed
    BY <1>1, <1>2, <1>3, <1>11, <2>1, EndedKnows DEF Release
  <2>2. CASE status[rd[r].slot] = RetiredBorrowed
    <3>1. /\ rd'[r].pc = "releaseRetired" /\ rd'[r].want = rd[r].want /\ rd'[r].from = rd[r].from
          /\ rd'[r].copy = rd[r].copy /\ rd'[r].result = rd[r].result
      BY <1>11, <2>2, MovedOn DEF Release, IInv
    <3> QED
      BY <1>1, <1>2, <1>3, <3>1 DEF KnowsOK, Served
  <2> QED
    BY <2>1, <2>2
<1>12. CASE ReleaseRetired(r)
  BY <1>1, <1>2, <1>3, <1>12, EndedKnows DEF ReleaseRetired
<1> QED
  BY <1>4, <1>5, <1>6, <1>7, <1>8, <1>9, <1>10, <1>11, <1>12 DEF Step

\* Whatever one reader's step does to the slots, it is its own record it writes.
LEMMA OthersStay ==
    ASSUME TypeOK, NEW r \in Readers, Step(r)
    PROVE  \A q \in Readers : q # r => rd'[q] = rd[q]
<1>1. DOMAIN rd = Readers
  BY DEF TypeOK, ReadersOK
<1>2. ASSUME Retry(r) \/ Resume(r) \/ \E x : Answer(r, x)
      PROVE  \A q \in Readers : q # r => rd'[q] = rd[q]
  BY <1>2, EndedAttempt
<1>3. CASE CheckFence(r)
  BY <1>2, <1>3, MovedOn DEF CheckFence
<1>4. CASE LoadPublication(r) \/ LoadSlot(r) \/ Copy(r)
  BY <1>1, <1>4 DEF LoadPublication, LoadSlot, Copy
<1>5. CASE Borrow(r)
  BY <1>2, <1>5, MovedOn DEF Borrow
<1>6. CASE Check(r) \/ Recheck(r)
  BY <1>1, <1>6 DEF Check, Recheck, Goto
<1>7. CASE Release(r)
  BY <1>2, <1>7, MovedOn DEF Release
<1>8. CASE ReleaseRetired(r)
  BY <1>2, <1>8 DEF ReleaseRetired
<1> QED
  BY <1>3, <1>4, <1>5, <1>6, <1>7, <1>8 DEF Step

\* The terminal read is entered with nothing loaded, and once it is under way
\* the controller is stopped and no publication follows.
LEMMA StepTerminal == ASSUME IInv, Step(Terminal) PROVE TerminalLast'
<1> DEFINE r == Terminal
<1>1. r \in Readers /\ DOMAIN rd = Readers /\ rd[r] \in ReaderStates /\ TypeOK
  BY DEF Readers, IInv, TypeOK, ReadersOK, ReaderOK
<1>2. UNCHANGED <<authority, words, ctl, published>>
  BY <1>1, StepReadable
<1>3. ASSUME Retry(r) \/ Resume(r) \/ \E x : Answer(r, x) PROVE TerminalLast'
  BY <1>1, <1>3, EndedAttempt DEF TerminalLast
<1>4. CASE CheckFence(r)
  <2>1. CASE Answer(r, "unavailable")
    BY <1>3, <2>1
  <2>2. CASE ~Answer(r, "unavailable")
    BY <1>1, <1>4, <2>2, MovedOn DEF CheckFence, TerminalLast
  <2> QED
    BY <2>1, <2>2
<1>5. CASE LoadPublication(r)
  BY <1>1, <1>2, <1>5 DEF LoadPublication, TerminalLast, ReaderStates
<1>6. CASE LoadSlot(r)
  BY <1>1, <1>2, <1>6 DEF LoadSlot, TerminalLast, ReaderStates, IInv, KnowledgeOK
<1>7. CASE Borrow(r)
  <2>1. CASE status[rd[r].slot] = Ready
    <3>1. Goto(r, "check", "publication") /\ rd[r].pc = "borrow"
      BY <1>7, <2>1 DEF Borrow
    <3> QED
      BY <1>1, <1>2, <3>1, MovedOn DEF TerminalLast, IInv, KnowledgeOK
  <2>2. CASE status[rd[r].slot] # Ready
    BY <1>3, <1>7, <2>2 DEF Borrow
  <2> QED
    BY <2>1, <2>2
<1>8. CASE Check(r)
  <2>1. rd[r].pc = "check" /\ rd'[r].seen = rd[r].seen
    BY <1>1, <1>8 DEF Check, Goto, ReaderStates
  <2> QED
    BY <1>2, <2>1 DEF TerminalLast, IInv, KnowledgeOK
<1>9. CASE Copy(r)
  <2>1. rd[r].pc = "copy" /\ rd'[r].seen = rd[r].seen
    BY <1>1, <1>9 DEF Copy, ReaderStates
  <2> QED
    BY <1>2, <2>1 DEF TerminalLast, IInv, KnowledgeOK
<1>10. CASE Recheck(r)
  <2>1. rd'[r].pc \in {"release", "recheck"}
    BY <1>1, <1>10 DEF Recheck, Goto, ReaderStates
  <2> QED
    BY <2>1 DEF TerminalLast
<1>11. CASE Release(r)
  <2>1. CASE status[rd[r].slot] # RetiredBorrowed
    BY <1>3, <1>11, <2>1 DEF Release
  <2>2. CASE status[rd[r].slot] = RetiredBorrowed
    BY <1>1, <1>11, <2>2, MovedOn DEF Release, TerminalLast
  <2> QED
    BY <2>1, <2>2
<1>12. CASE ReleaseRetired(r)
  BY <1>3, <1>12 DEF ReleaseRetired
<1> QED
  BY <1>4, <1>5, <1>6, <1>7, <1>8, <1>9, <1>10, <1>11, <1>12 DEF Step

LEMMA NextKnowledge == ASSUME IInv, [Next]_vars PROVE KnowledgeOK'
<1>1. TypeOK /\ BorrowOK /\ ContentOK /\ KnowledgeOK /\ Terminal \in Readers /\ DOMAIN rd = Readers
  BY DEF IInv, TypeOK, ReadersOK, Readers
<1>2. ASSUME NEW r \in Readers, rd'[r] = rd[r] PROVE KnowsOK(rd[r])'
  <2>1. rd[r].pc \in HoldingPcs => words'[rd[r].slot] = words[rd[r].slot]
    BY <1>1, HeldUnwritten
  <2> QED
    BY <1>2, <2>1, Appends, KeepsKnowing
<1>3. ASSUME NEW r \in Readers, Step(r) PROVE KnowledgeOK'
  <2>1. \A q \in Readers : q # r => rd'[q] = rd[q]
    BY <1>1, <1>3, OthersStay
  <2>2. \A q \in Readers : KnowsOK(rd[q])'
    BY <1>2, <1>3, <2>1, StepKnows
  <2>3. TerminalLast'
    <3>1. CASE r = Terminal
      BY <1>3, <3>1, StepTerminal
    <3>2. CASE r # Terminal
      <4>1. UNCHANGED authority
        BY <1>1, <1>3, StepReadable
      <4> QED
        BY <1>1, <2>1, <3>2, <4>1 DEF TerminalLast, KnowledgeOK
    <3> QED
      BY <3>1, <3>2
  <2> QED
    BY <2>2, <2>3 DEF KnowledgeOK
<1>4. ASSUME NEW o \in Observers, Observe(o) PROVE KnowledgeOK'
  <2>1. o \in Readers /\ o # Terminal
    BY OutputAssumption DEF Readers, OutputAssumption
  <2>2. PICK p \in DOMAIN published :
           rd' = [rd EXCEPT ![o] = [Idle EXCEPT !.pc = "fence", !.at = "root",
                                       !.want = Fence(published[p]),
                                       !.from = authority["publication"]]]
    BY <1>4 DEF Observe
  <2>3. UNCHANGED authority
    BY <1>4 DEF Observe
  <2>4. /\ \A q \in Readers : q # o => rd'[q] = rd[q]
        /\ rd'[o].pc = "fence" /\ rd'[o].result = "none"
        /\ rd'[o].from = authority["publication"]
    BY <1>1, <2>1, <2>2 DEF Idle
  <2>5. authority["publication"] \in Nat
    BY <1>1, WordSets DEF TypeOK, AuthorityOK
  <2>6. KnowsOK(rd[o])'
    BY <2>3, <2>4, <2>5 DEF KnowsOK
  <2>7. TerminalLast'
    BY <1>1, <2>1, <2>3, <2>4 DEF TerminalLast, KnowledgeOK
  <2> QED
    BY <1>2, <2>4, <2>6, <2>7 DEF KnowledgeOK
<1>5. CASE FinalRound
  <2>1. /\ \A q \in Readers : q # Terminal => rd'[q] = rd[q]
        /\ rd'[Terminal].pc = "fence" /\ rd'[Terminal].result = "none"
        /\ rd'[Terminal].from = authority["publication"] /\ UNCHANGED authority
    BY <1>1, <1>5 DEF FinalRound, Idle
  <2>2. authority["publication"] \in Nat
    BY <1>1, WordSets DEF TypeOK, AuthorityOK
  <2>3. KnowsOK(rd[Terminal])'
    BY <2>1, <2>2 DEF KnowsOK
  <2>4. TerminalLast'
    BY <2>1 DEF TerminalLast
  <2> QED
    BY <1>2, <2>1, <2>3, <2>4 DEF KnowledgeOK
<1>6. CASE Controller /\ ~FinalRound
  <2>1. UNCHANGED rd /\ ctl.pc # "stopped"
    BY <1>6 DEF Controller, PublishProgress, PublishFocus, ReserveLoad, ReserveCas, CommitWord,
           WriteWord, WriteFails, MarkReady, StorePublication, StoreSlot, Retire, RetireBorrowed
  <2>2. TerminalLast'
    BY <1>1, <2>1 DEF BorrowOK, TerminalOK, TerminalLast
  <2> QED
    BY <1>2, <2>1, <2>2 DEF KnowledgeOK
<1>7. CASE UNCHANGED vars
  BY <1>1, <1>2, <1>7 DEF vars, KnowledgeOK, TerminalLast
<1> QED
  BY <1>3, <1>4, <1>5, <1>6, <1>7 DEF Next

LEMMA IInvariant == Spec => []IInv
<1>1. Init => IInv
  BY InitType, InitBorrow, InitContent, InitKnowledge DEF IInv
<1>2. IInv /\ [Next]_vars => IInv'
  BY NextType, NextBorrow, NextContent, NextKnowledge DEF IInv
<1> QED
  BY <1>1, <1>2, PTL DEF Spec

\* For any number of observers, foci, publications and attempts: what observe
\* and terminal hand out as ready is one publication, under the fence that was
\* asked for and not older than the start of the read.
THEOREM AnswersWhole == Spec => []ReadyAnswerIsOnePublication
<1>1. IInv => ReadyAnswerIsOnePublication
  BY DEF IInv, KnowledgeOK, KnowsOK, Served, ReadyAnswerIsOnePublication
<1> QED
  BY <1>1, IInvariant, PTL

-----------------------------------------------------------------------------
(* The Output implements the snapshot register.                            *)

\* What a reader's step is to the register: an answer given or withdrawn, one
\* that stands, or the register read at this instant.
Withdrawn(r) == rd'[r].result # "ready"
Stands(r) ==
    /\ rd[r].result = "ready" /\ rd'[r].result = "ready"
    /\ rd'[r].copy = rd[r].copy /\ rd'[r].want = rd[r].want
ReadNow(r) ==
    /\ rd[r].result # "ready" /\ rd'[r].result = "ready"
    /\ rd'[r].copy = published[Len(published)] /\ rd'[r].want = rd[r].want
    /\ Fence(rd'[r].copy) = rd[r].want

LEMMA EndedAnswer ==
    ASSUME TypeOK, NEW r \in Readers,
           \/ rd[r].pc \in {"release", "releaseRetired"} /\ Resume(r)
           \/ Retry(r)
           \/ Answer(r, "unavailable")
    PROVE  Withdrawn(r) \/ Stands(r)
<1>1. DOMAIN rd = Readers /\ rd[r] \in ReaderStates
  BY DEF TypeOK, ReadersOK, ReaderOK
<1>2. ASSUME Answer(r, "unavailable") PROVE Withdrawn(r)
  BY <1>1, <1>2 DEF Answer, Withdrawn, Idle
<1>3. ASSUME Retry(r) PROVE Withdrawn(r)
  BY <1>1, <1>2, <1>3 DEF Retry, Withdrawn, ReaderStates
<1>4. ASSUME rd[r].pc \in {"release", "releaseRetired"}, Resume(r) PROVE Withdrawn(r) \/ Stands(r)
  <2>1. CASE rd[r].result = "ready"
    <3>1. Answer(r, "ready")
      BY <1>4, <2>1 DEF Resume
    <3> QED
      BY <1>1, <2>1, <3>1 DEF Answer, Stands, ReaderStates
  <2>2. CASE rd[r].result = "retry"
    BY <1>3, <1>4, <2>2 DEF Resume
  <2>3. CASE rd[r].result # "ready" /\ rd[r].result # "retry"
    <3>1. rd[r].result = "unavailable"
      BY <1>1, <1>4, <2>3 DEF ReaderStates, TypeOK, ReadersOK, ReaderOK
    <3> QED
      BY <1>2, <1>4, <3>1 DEF Resume
  <2> QED
    BY <2>1, <2>2, <2>3
<1> QED
  BY <1>2, <1>3, <1>4

LEMMA StepAnswer ==
    ASSUME IInv, NEW r \in Readers, Step(r)
    PROVE  Withdrawn(r) \/ Stands(r) \/ ReadNow(r)
<1>1. /\ TypeOK /\ ContentOK /\ KnowledgeOK
      /\ DOMAIN rd = Readers /\ rd[r] \in ReaderStates /\ ReaderOK(rd[r])
  BY DEF IInv, TypeOK, ReadersOK, ReaderOK
<1>2. rd[r].pc \in {"release", "releaseRetired"} \/ rd[r].result = "none"
  BY <1>1 DEF ReaderOK, Step, CheckFence, LoadPublication, LoadSlot, Borrow, Check, Copy, Recheck,
     Release, ReleaseRetired
<1>3. CASE CheckFence(r)
  <2>1. rd[r].result = "none"
    BY <1>1, <1>3 DEF CheckFence, ReaderOK
  <2> QED
    BY <1>1, <1>3, <2>1, EndedAnswer, MovedOn DEF CheckFence, Withdrawn
<1>4. CASE LoadPublication(r) \/ LoadSlot(r)
  <2>1. rd'[r].result = rd[r].result /\ rd[r].result = "none"
    BY <1>1, <1>4 DEF LoadPublication, LoadSlot, ReaderOK, ReaderStates
  <2> QED
    BY <2>1 DEF Withdrawn
<1>5. CASE Borrow(r)
  <2>1. rd[r].result = "none"
    BY <1>1, <1>5 DEF Borrow, ReaderOK
  <2> QED
    BY <1>1, <1>5, <2>1, EndedAnswer, MovedOn DEF Borrow, Withdrawn
<1>6. CASE Check(r)
  <2>1. rd[r].result = "none" /\ rd'[r].result \in {rd[r].result, "retry"}
    BY <1>1, <1>6 DEF Check, Goto, ReaderOK, ReaderStates
  <2> QED
    BY <2>1 DEF Withdrawn
<1>7. CASE Copy(r)
  <2> DEFINE at == rd[r].at
             slot == rd[r].slot
  <2>1. rd[r].pc = "copy" /\ at \in SlotWords /\ rd[r].result = "none"
    BY <1>1, <1>7 DEF Copy, ReaderOK
  <2>2. CASE ~(NextWord[at] = "end" /\ r = Terminal)
    <3>1. rd'[r].result = rd[r].result
      BY <1>1, <1>7, <2>2 DEF Copy, ReaderStates
    <3> QED
      BY <2>1, <3>1 DEF Withdrawn
  <2>3. CASE NextWord[at] = "end" /\ r = Terminal
    <3>1. /\ rd'[r].result = "ready" /\ rd'[r].want = rd[r].want
          /\ rd'[r].copy = [rd[r].copy EXCEPT ![at] = words[slot][at]]
      BY <1>1, <1>7, <2>3 DEF Copy, ReaderStates
    <3>2. rd'[r].copy = words[slot]
      <4>1. rd[r].copy \in Words /\ words[slot] \in Words
        BY <1>1 DEF TypeOK, WordsOK, ReaderStates
      <4>2. \A w \in SlotWords : rd'[r].copy[w] = words[slot][w]
        BY <1>1, <2>1, <2>3, <3>1, <4>1, WordsBefore DEF KnowledgeOK, KnowsOK, Words
      <4> QED
        BY <3>1, <4>1, <4>2 DEF Words
    <3>3. words[slot] = published[rd[r].seen] /\ Fence(words[slot]) = rd[r].want
      BY <2>1, ReadyAnswer
    <3>4. rd[r].seen = Len(published)
      BY <1>1, <2>1, <2>3 DEF KnowledgeOK, TerminalLast, ContentOK
    <3> QED
      BY <2>1, <3>1, <3>2, <3>3, <3>4 DEF ReadNow
  <2> QED
    BY <2>2, <2>3
<1>8. CASE Recheck(r)
  <2> DEFINE at == rd[r].at
  <2>1. /\ rd[r].pc = "recheck" /\ at \in HeaderWords /\ rd[r].result = "none"
        /\ rd[r].copy = words[rd[r].slot]
    BY <1>1, <1>8 DEF Recheck, ReaderOK, KnowledgeOK, KnowsOK
  <2>2. /\ rd'[r].want = rd[r].want /\ rd'[r].copy = rd[r].copy
        /\ \/ rd'[r].result \in {"none", "unavailable"}
           \/ /\ rd'[r].result = "ready" /\ NextRecheck[at] = "end"
              /\ at = "publication" => authority["publication"] = rd[r].copy["publication"]
    BY <1>1, <1>8, <2>1 DEF Recheck, Goto, ReaderStates
  <2>3. NextRecheck[at] = "end" => at = "publication"
    BY <2>1 DEF NextRecheck, HeaderWords, FenceWords
  <2>4. /\ rd[r].copy = published[rd[r].seen] /\ Fence(rd[r].copy) = rd[r].want
        /\ rd[r].copy["publication"] = rd[r].seen
    BY <2>1, ReadyAnswer
  <2>5. CASE rd'[r].result = "ready"
    BY <1>1, <2>1, <2>2, <2>3, <2>4, <2>5 DEF ReadNow, ContentOK
  <2>6. CASE rd'[r].result # "ready"
    BY <2>6 DEF Withdrawn
  <2> QED
    BY <2>5, <2>6
<1>9. CASE Release(r)
  <2>1. CASE status[rd[r].slot] # RetiredBorrowed
    BY <1>1, <1>9, <2>1, EndedAnswer DEF Release
  <2>2. CASE status[rd[r].slot] = RetiredBorrowed
    <3>1. rd'[r].result = rd[r].result /\ rd'[r].copy = rd[r].copy /\ rd'[r].want = rd[r].want
      BY <1>1, <1>9, <2>2, MovedOn DEF Release
    <3> QED
      BY <3>1 DEF Withdrawn, Stands
  <2> QED
    BY <2>1, <2>2
<1>10. CASE ReleaseRetired(r)
  BY <1>1, <1>10, EndedAnswer DEF ReleaseRetired
<1> QED
  BY <1>3, <1>4, <1>5, <1>6, <1>7, <1>8, <1>9, <1>10 DEF Step

\* A step of one reader, seen from the register.
LEMMA ReaderRefines ==
    ASSUME TypeOK, TypeOK', NEW r \in Readers, UNCHANGED published,
           \A q \in Readers : q # r => rd'[q] = rd[q],
           Withdrawn(r) \/ Stands(r) \/ ReadNow(r)
    PROVE  [Register!RNext]_Register!rvars
<1> DEFINE latest == published[Len(published)]
           asked == [q \in Readers |-> rd[q].want]
           answer == [q \in Readers |-> IF rd[q].result = "ready" THEN rd[q].copy ELSE <<>>]
<1>1. latest' = latest
  OBVIOUS
<1>2. asked' = [q \in Readers |-> rd'[q].want]
      /\ answer' = [q \in Readers |-> IF rd'[q].result = "ready" THEN rd'[q].copy ELSE <<>>]
  OBVIOUS
<1>3. CASE Withdrawn(r)
  <2>1. \A q \in Readers : rd'[q].want \in [FenceWords -> Nat]
    BY DEF TypeOK, ReadersOK, ReaderOK, ReaderStates
  <2>2. asked' \in [Readers -> [FenceWords -> Nat]]
    BY <1>2, <2>1
  <2>3. answer' = [answer EXCEPT ![r] = <<>>]
    BY <1>2, <1>3 DEF Withdrawn
  <2>4. Register!Ask(r)
    BY <1>1, <1>2, <2>2, <2>3 DEF Register!Ask
  <2> QED
    BY <2>4 DEF Register!RNext
<1>4. CASE Stands(r)
  <2>1. asked' = asked /\ answer' = answer
    BY <1>2, <1>4 DEF Stands
  <2> QED
    BY <1>1, <2>1 DEF Register!rvars
<1>5. CASE ReadNow(r)
  <2>1. asked' = asked /\ answer[r] = <<>> /\ answer' = [answer EXCEPT ![r] = latest]
    BY <1>2, <1>5 DEF ReadNow
  <2>2. Register!FenceOf(latest) = asked[r]
    BY <1>5 DEF ReadNow, Fence, Register!FenceOf
  <2>3. Register!Serve(r)
    BY <1>1, <2>1, <2>2 DEF Register!Serve
  <2> QED
    BY <2>3 DEF Register!RNext
<1> QED
  BY <1>3, <1>4, <1>5

LEMMA NextRefines ==
    ASSUME IInv, [Next]_vars
    PROVE  [Register!RNext]_Register!rvars
<1>1. TypeOK /\ TypeOK' /\ ContentOK /\ BorrowOK /\ DOMAIN rd = Readers
  BY NextType DEF IInv, TypeOK, ReadersOK
<1>2. ASSUME NEW r \in Readers, Step(r) PROVE [Register!RNext]_Register!rvars
  <2>1. UNCHANGED published
    BY <1>1, <1>2, StepReadable
  <2> QED
    BY <1>1, <1>2, <2>1, OthersStay, StepAnswer, ReaderRefines
<1>3. ASSUME NEW o \in Observers, Observe(o) PROVE [Register!RNext]_Register!rvars
  <2>1. o \in Readers /\ UNCHANGED published
    BY <1>3 DEF Readers, Observe
  <2>2. (\A q \in Readers : q # o => rd'[q] = rd[q]) /\ Withdrawn(o)
    BY <1>1, <1>3, <2>1 DEF Observe, Withdrawn, Idle
  <2> QED
    BY <1>1, <2>1, <2>2, ReaderRefines
<1>4. CASE FinalRound
  <2>1. Terminal \in Readers /\ UNCHANGED published
    BY <1>4 DEF Readers, FinalRound
  <2>2. (\A q \in Readers : q # Terminal => rd'[q] = rd[q]) /\ Withdrawn(Terminal)
    BY <1>1, <1>4, <2>1 DEF FinalRound, Withdrawn, Idle
  <2> QED
    BY <1>1, <2>1, <2>2, ReaderRefines
<1>5. CASE StorePublication
  <2>1. UNCHANGED rd /\ published' = Append(published, Captured) /\ Captured \in Words
    BY <1>1, <1>5, CapturedType DEF StorePublication, TypeOK
  <2>2. Len(published) \in Nat /\ published' [Len(published')] = Captured
    BY <1>1, <2>1 DEF TypeOK, HistoryOK
  <2>3. /\ Captured.publication = authority["publication"] + 1
        /\ published[Len(published)].publication = authority["publication"]
    BY <1>1 DEF Captured, ContentOK, TypeOK, HistoryOK
  <2>4. Register!Publish
    BY <2>1, <2>2, <2>3 DEF Register!Publish
  <2> QED
    BY <2>4 DEF Register!RNext
<1>6. CASE UNCHANGED <<rd, published>>
  BY <1>6 DEF Register!rvars
<1>7. CASE Controller /\ ~FinalRound /\ ~StorePublication
  <2>1. UNCHANGED <<rd, published>>
    BY <1>7 DEF Controller, PublishProgress, PublishFocus, ReserveLoad, ReserveCas, CommitWord,
           WriteWord, WriteFails, MarkReady, StoreSlot, Retire, RetireBorrowed
  <2> QED
    BY <1>6, <2>1
<1>8. CASE UNCHANGED vars
  BY <1>6, <1>8 DEF vars
<1> QED
  BY <1>2, <1>3, <1>4, <1>5, <1>7, <1>8 DEF Next

LEMMA InitRefines == ASSUME Init PROVE Register!RInit
<1>1. PICK f \in Foci : Bootstrapped(f)
  BY DEF Init
<1>2. TypeOK
  BY InitType
<1>3. Len(published) = 1 /\ published[1].publication = 1
  BY <1>1 DEF Bootstrapped
<1>4. published[1] \in Words
  BY <1>2, <1>3 DEF TypeOK, HistoryOK
<1>5. \A r \in Readers : rd[r].want \in [FenceWords -> Nat] /\ rd[r].result # "ready"
  BY <1>1 DEF Bootstrapped, Idle
<1> QED
  BY <1>3, <1>4, <1>5 DEF Register!RInit

\* The double buffer implements the register, for any number of observers:
\* every word-by-word publication and every borrowed copy is one step of it.
THEOREM OutputImplementsRegister == Spec => ImplementsRegister
<1>1. Init => Register!RInit
  BY InitRefines
<1>2. IInv /\ [Next]_vars => [Register!RNext]_Register!rvars
  BY NextRefines
<1> QED
  BY <1>1, <1>2, IInvariant, PTL DEF Spec, ImplementsRegister, Register!RSpec
=============================================================================
