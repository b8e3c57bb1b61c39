----------------------- MODULE ResidentSession_proofs -----------------------
(***************************************************************************)
(* What holds of the command mailbox for any number of command kernels,    *)
(* packets, rounds and words of an identity: uploads exclude each other,   *)
(* packets are answered once and in order, and, when every packet carries  *)
(* an identity and a generation, accepted focus changes come in the order  *)
(* of their generations.  And what a host may conclude from the answers it *)
(* reads: the focus is the one of the last accepted answer, nothing is     *)
(* applied after an accepted cancel, the first cause to stop the search    *)
(* stays, and, with one command kernel at a time, a reply that shows an    *)
(* acknowledgement is the answer of one packet.                            *)
(***************************************************************************)
EXTENDS ResidentSession, FiniteSetTheorems, TLAPS

LEMMA Codes ==
    /\ Empty = 0 /\ Uploading = 1 /\ Pending = 2 /\ Acknowledged = 3
    /\ Accepted = 0 /\ Invalid = 1 /\ Pressure = 2 /\ Unavailable = 3 /\ Duplicate = 4
    /\ Stale = 5 /\ AdvanceNotReady = 6 /\ InvalidRoot = 7 /\ Conflict = 8
    /\ GenerationExhausted = 9 /\ Quarantined = 10
    /\ Admit = 1 /\ ReadyAdvance = 2 /\ Cancel = 3
BY DEF Empty, Uploading, Pending, Acknowledged, Accepted, Invalid, Pressure, Unavailable,
   Duplicate, Stale, AdvanceNotReady, InvalidRoot, Conflict, GenerationExhausted, Quarantined,
   Admit, ReadyAdvance, Cancel

LEMMA PacketWords ==
    /\ Zero \in Wide
    /\ \A q \in Packets : q.id \in Wide /\ q.generation \in Wide
    /\ None \in Packets /\ NoReply \in Mailboxes /\ NoFocus \in Responses
<1>1. Zero \in Wide
  BY DEF Zero, Wide
<1>2. NoFocus \in Responses
  BY DEF NoFocus, Responses
<1>3. None \in Packets /\ NoReply \in Mailboxes
  BY <1>2, Codes DEF Packets, NoReply, Mailboxes, Results
<1>4. \A q \in Packets : q.id \in Wide /\ q.generation \in Wide
  BY <1>1, SessionAssumption DEF SessionAssumption, Packets, None
<1> QED
  BY <1>1, <1>2, <1>3, <1>4

LEMMA MailboxWords ==
    ASSUME NEW m \in Mailboxes, NEW phase \in Empty .. Acknowledged, NEW result \in Results,
           NEW packet \in Packets, NEW response \in Responses
    PROVE  /\ [m EXCEPT !.phase = phase] \in Mailboxes
           /\ [m EXCEPT !.result = result] \in Mailboxes
           /\ [m EXCEPT !.response = response] \in Mailboxes
           /\ [m EXCEPT !.packet = packet, !.response = response] \in Mailboxes
           /\ m.phase \in Empty .. Acknowledged /\ m.result \in Results
           /\ m.packet \in Packets /\ m.response \in Responses
BY DEF Mailboxes

LEMMA PhasesAndResults ==
    /\ {Empty, Uploading, Pending, Acknowledged} \subseteq Empty .. Acknowledged
    /\ {Accepted, Invalid, Pressure, Unavailable, Duplicate, Stale, AdvanceNotReady,
        InvalidRoot, Conflict, GenerationExhausted, Quarantined} \subseteq Results
BY Codes DEF Results

LEMMA InitType == ASSUME Init PROVE TypeOK
<1>1. PICK t \in Targets : authority = [root |-> t, epoch |-> 1, publication |-> 1, cancel |-> FALSE]
  BY DEF Init
<1>2. t \in Nat /\ 0 \in 0 .. MaxRounds
  BY SessionAssumption DEF SessionAssumption
<1> QED
  BY <1>1, <1>2, PacketWords, Codes DEF Init, TypeOK, PortPcs, ControllerPcs, Results

LEMMA PortType == ASSUME TypeOK, NEW c \in Ports, PortStep(c) \/ Launch(c) PROVE TypeOK'
<1> DEFINE Kernels == [pc: PortPcs, packet: Packets, loaded: {Empty, Acknowledged},
                       reply: Mailboxes, result: {0, Pressure}]
<1>1. /\ port \in [Ports -> Kernels] /\ command \in Mailboxes
      /\ port[c] \in Kernels /\ port[c].packet \in Packets /\ port[c].reply \in Mailboxes
      /\ command.packet \in Packets /\ uploads \in Seq(Packets)
  BY DEF TypeOK, Mailboxes
<1>2. ASSUME NEW k \in Kernels, port' = [port EXCEPT ![c] = k] PROVE port' \in [Ports -> Kernels]
  BY <1>1, <1>2
<1>3. ASSUME NEW result \in {0, Pressure}, ReadFrom(c, result) PROVE port' \in [Ports -> Kernels]
  BY <1>1, <1>3, PacketWords DEF ReadFrom, PortPcs, ReadNext
<1>4. ASSUME NEW pc \in PortPcs, At(c, pc) PROVE port' \in [Ports -> Kernels]
  BY <1>1, <1>4 DEF At
<1>5. SUFFICES /\ port' \in [Ports -> Kernels]
               /\ command' \in Mailboxes
               /\ uploads' \in Seq(Packets)
               /\ UNCHANGED <<authority, identity, ctl, stop, answers>>
  BY DEF TypeOK
<1>6. CASE LaunchUpload(c)
  <2>1. PICK q \in Requests : port' = [port EXCEPT ![c] = [pc |-> "load", packet |-> q,
                                loaded |-> Empty, reply |-> NoReply, result |-> 0]]
    BY <1>6 DEF LaunchUpload
  <2>2. [pc |-> "load", packet |-> q, loaded |-> Empty, reply |-> NoReply, result |-> 0] \in Kernels
    BY PacketWords DEF PortPcs, Packets
  <2> QED
    BY <1>1, <1>2, <1>6, <2>1, <2>2 DEF LaunchUpload
<1>7. CASE LaunchPoll(c)
  BY <1>1, <1>3, <1>7 DEF LaunchPoll
<1>8. CASE LoadPhase(c)
  <2>1. CASE command.phase \in {Empty, Acknowledged}
    <3> DEFINE k == [port[c] EXCEPT !.pc = "claim", !.loaded = command.phase]
    <3>1. k \in Kernels
      BY <1>1, <2>1 DEF PortPcs
    <3>2. port' = [port EXCEPT ![c] = k]
      BY <1>8, <2>1 DEF LoadPhase
    <3> QED
      BY <1>1, <1>2, <1>8, <3>1, <3>2 DEF LoadPhase
  <2>2. CASE command.phase \notin {Empty, Acknowledged}
    BY <1>1, <1>3, <1>8, <2>2 DEF LoadPhase
  <2> QED
    BY <2>1, <2>2
<1>9. CASE Claim(c)
  <2>1. CASE command.phase = port[c].loaded
    <3>1. command' \in Mailboxes
      <4> HIDE DEF Kernels
      <4>1. command' = [command EXCEPT !.phase = Uploading]
        BY <1>9, <2>1 DEF Claim
      <4>2. Uploading \in Empty .. Acknowledged
        BY PhasesAndResults
      <4>3. command \in Mailboxes
        BY <1>1
      <4> QED
        BY <4>1, <4>2, <4>3 DEF Mailboxes
    <3>2. "storePacket" \in PortPcs
      BY DEF PortPcs
    <3> QED
      BY <1>1, <1>4, <1>9, <2>1, <3>1, <3>2 DEF Claim
  <2>2. CASE command.phase # port[c].loaded
    BY <1>1, <1>3, <1>9, <2>2 DEF Claim
  <2> QED
    BY <2>1, <2>2
<1>10. CASE StorePacket(c)
  <2>1. command' \in Mailboxes
    <3> HIDE DEF Kernels
    <3>1. command' = [command EXCEPT !.packet = port[c].packet, !.response = NoFocus]
      BY <1>10 DEF StorePacket
    <3>2. NoFocus \in Responses /\ port[c].packet \in Packets /\ command \in Mailboxes
      BY <1>1, PacketWords
    <3> QED
      BY <3>1, <3>2 DEF Mailboxes
  <2>2. "storeUnavailable" \in PortPcs
    BY DEF PortPcs
  <2> QED
    BY <1>1, <1>4, <1>10, <2>1, <2>2 DEF StorePacket
<1>11. CASE StoreUnavailable(c)
  <2>1. command' \in Mailboxes
    BY <1>1, <1>11, MailboxWords, PhasesAndResults, PacketWords DEF StoreUnavailable
  <2>2. "storePending" \in PortPcs
    BY DEF PortPcs
  <2> QED
    BY <1>1, <1>4, <1>11, <2>1, <2>2 DEF StoreUnavailable
<1>12. CASE StorePending(c)
  <2>1. command' \in Mailboxes
    BY <1>1, <1>12, MailboxWords, PhasesAndResults, PacketWords DEF StorePending
  <2> QED
    BY <1>1, <1>3, <1>12, <2>1 DEF StorePending
<1>13. CASE ReadReply(c)
  <2> DEFINE w == port[c].pc
             k == [port[c] EXCEPT !.reply = [port[c].reply EXCEPT ![w] = command[w]],
                                  !.pc = ReadNext[w]]
  <2>1. w \in {"phase", "result", "packet", "response"} /\ ReadNext[w] \in PortPcs
    BY <1>13 DEF ReadReply, ReadNext, PortPcs
  <2>2. [port[c].reply EXCEPT ![w] = command[w]] \in Mailboxes
    <3> HIDE DEF Kernels
    <3>1. /\ [port[c].reply EXCEPT !.phase = command.phase] \in Mailboxes
          /\ [port[c].reply EXCEPT !.result = command.result] \in Mailboxes
          /\ [port[c].reply EXCEPT !.packet = command.packet] \in Mailboxes
          /\ [port[c].reply EXCEPT !.response = command.response] \in Mailboxes
      BY <1>1 DEF Mailboxes
    <3> QED
      BY <2>1, <3>1
  <2>3. k \in Kernels
    BY <1>1, <2>1, <2>2
  <2>4. port' = [port EXCEPT ![c] = k]
    BY <1>1, <1>13, <2>1 DEF ReadReply
  <2> QED
    BY <1>1, <1>2, <1>13, <2>3, <2>4 DEF ReadReply
<1> QED
  BY <1>6, <1>7, <1>8, <1>9, <1>10, <1>11, <1>12, <1>13 DEF PortStep, Launch

LEMMA GotoType ==
    ASSUME TypeOK, NEW pc \in ControllerPcs, NEW result \in Results, NEW target \in Nat,
           Goto(pc, result, target)
    PROVE  ctl' \in [pc: ControllerPcs, result: Results, target: Nat, rounds: 0 .. MaxRounds]
<1>1. ctl \in [pc: ControllerPcs, result: Results, target: Nat, rounds: 0 .. MaxRounds]
  BY DEF TypeOK
<1> QED
  BY <1>1 DEF Goto

LEMMA AuthorityType ==
    ASSUME NEW a \in [root: Nat, epoch: Nat, publication: Nat, cancel: BOOLEAN], NEW root \in Nat
    PROVE  /\ [a EXCEPT !.root = root, !.epoch = @ + 1]
                 \in [root: Nat, epoch: Nat, publication: Nat, cancel: BOOLEAN]
           /\ [a EXCEPT !.publication = @ + 1]
                 \in [root: Nat, epoch: Nat, publication: Nat, cancel: BOOLEAN]
<1>1. a.epoch + 1 \in Nat /\ a.publication + 1 \in Nat
  OBVIOUS
<1> QED
  BY <1>1

LEMMA ScreenResults ==
    ASSUME NEW q PROVE Screen(q) \in {Accepted, Invalid, Duplicate, Stale, Conflict, GenerationExhausted}
BY DEF Screen

\* While the continuation runs, the bound on its rounds is not used up.
RoundsLeft == ctl.pc # "stopped" => ctl.rounds < MaxRounds

LEMMA ControllerType == ASSUME TypeOK, RoundsLeft, Controller PROVE TypeOK'
<1> DEFINE Controls == [pc: ControllerPcs, result: Results, target: Nat, rounds: 0 .. MaxRounds]
           Authorities == [root: Nat, epoch: Nat, publication: Nat, cancel: BOOLEAN]
           Stops == [cause: Nat, first: Nat]
           Identities == [id: Wide, generation: Wide]
<1>1. /\ command \in Mailboxes /\ authority \in Authorities /\ identity \in Identities
      /\ ctl \in Controls /\ stop \in Stops /\ answers \in Seq(Answers) /\ 0 \in Nat
  BY DEF TypeOK
<1>2. /\ command.packet \in Packets /\ command.response \in Responses
      /\ ctl.result \in Results /\ ctl.target \in Nat /\ authority.cancel \in BOOLEAN
      /\ \A t \in Targets : t \in Nat
  BY <1>1, SessionAssumption DEF Mailboxes, SessionAssumption
<1>3. SUFFICES /\ command' \in Mailboxes
               /\ authority' \in Authorities
               /\ identity' \in Identities
               /\ ctl' \in Controls
               /\ stop' \in Stops
               /\ answers' \in Seq(Answers)
               /\ UNCHANGED <<port, uploads>>
  BY DEF TypeOK
<1>4. {"control", "reserve", "commit", "publish", "result", "response", "acknowledge", "latch",
       "controller", "stopped"} \subseteq ControllerPcs
  BY DEF ControllerPcs
<1>5. ASSUME StopWith(11) PROVE stop' \in Stops
  BY <1>1, <1>5 DEF StopWith
<1> HIDE DEF Controls, Authorities, Stops, Identities
<1>6. CASE NothingPending
  BY <1>1, <1>4, <1>6, GotoType, PhasesAndResults, Codes DEF NothingPending, Controls
<1>7. CASE Refuse
  <2>1. PICK result \in Results : Goto("result", result, 0)
    BY <1>7, ScreenResults, PhasesAndResults DEF Refuse
  <2> QED
    BY <1>1, <1>4, <1>7, <2>1, GotoType DEF Refuse, Controls
<1>8. CASE ApplyAdmit
  <2>1. PICK pc \in ControllerPcs, result \in Results, target \in Nat : Goto(pc, result, target)
    BY <1>1, <1>2, <1>4, <1>8, PhasesAndResults DEF ApplyAdmit
  <2>2. stop' \in Stops
    BY <1>1, <1>5, <1>8 DEF ApplyAdmit
  <2> QED
    BY <1>1, <1>8, <2>1, <2>2, GotoType DEF ApplyAdmit, Controls
<1>9. CASE ApplyReadyAdvance
  <2>1. PICK pc \in ControllerPcs, result \in Results, target \in Nat : Goto(pc, result, target)
    BY <1>1, <1>2, <1>4, <1>9, PhasesAndResults DEF ApplyReadyAdvance
  <2> QED
    BY <1>1, <1>9, <2>1, GotoType DEF ApplyReadyAdvance, Controls
<1>10. CASE ApplyCancel
  <2>1. Goto("result", Accepted, 0) /\ authority' = [authority EXCEPT !.cancel = TRUE]
    BY <1>10 DEF ApplyCancel
  <2>2. authority' \in Authorities
    BY <1>1, <2>1 DEF Authorities
  <2> QED
    BY <1>1, <1>4, <1>10, <2>1, <2>2, GotoType, PhasesAndResults DEF ApplyCancel, Controls
<1>11. CASE Reserve
  <2>1. PICK pc \in ControllerPcs, result \in Results : Goto(pc, result, ctl.target)
    BY <1>4, <1>11, PhasesAndResults DEF Reserve
  <2> QED
    BY <1>1, <1>2, <1>11, <2>1, GotoType DEF Reserve, Controls
<1>12. CASE Commit
  <2>1. Goto("publish", Accepted, ctl.target)
    BY <1>12 DEF Commit
  <2>2. authority' \in Authorities
    <3>1. authority' = [authority EXCEPT !.root = ctl.target, !.epoch = @ + 1]
      BY <1>12 DEF Commit
    <3>2. ctl.target \in Nat /\ authority \in Authorities
      BY <1>1, <1>2
    <3> QED
      BY <3>1, <3>2, AuthorityType DEF Authorities
  <2> QED
    BY <1>1, <1>2, <1>4, <1>12, <2>1, <2>2, GotoType, PhasesAndResults DEF Commit, Controls
<1>13. CASE Publish
  <2>1. PICK result \in Results : Goto("result", result, ctl.target)
    BY <1>13, PhasesAndResults DEF Publish
  <2>2. authority' \in Authorities /\ stop' \in Stops
    BY <1>1, <1>5, <1>13 DEF Publish, Authorities
  <2> QED
    BY <1>1, <1>2, <1>4, <1>13, <2>1, <2>2, GotoType DEF Publish, Controls
<1>14. CASE StoreResult
  <2>1. ctl' \in Controls
    BY <1>1, <1>4, <1>14 DEF StoreResult, Controls
  <2>2. command' \in Mailboxes
    BY <1>1, <1>2, <1>14 DEF StoreResult, Mailboxes
  <2> QED
    BY <1>1, <1>14, <2>1, <2>2 DEF StoreResult
<1>15. CASE StoreResponse
  <2>1. ctl' \in Controls
    BY <1>1, <1>4, <1>15 DEF StoreResponse, Controls
  <2>2. Focus \in Responses
    BY <1>1 DEF Focus, Responses, Authorities
  <2>3. command' \in Mailboxes
    BY <1>1, <1>15, <2>2 DEF StoreResponse, Mailboxes
  <2> QED
    BY <1>1, <1>15, <2>1, <2>3 DEF StoreResponse
<1>16. CASE Acknowledge
  <2>1. ctl' \in Controls
    BY <1>1, <1>4, <1>16 DEF Acknowledge, Controls
  <2>2. command' = [command EXCEPT !.phase = Acknowledged] /\ Acknowledged \in Empty .. Acknowledged
    BY <1>16, PhasesAndResults DEF Acknowledge
  <2>3. command' \in Mailboxes
    BY <1>1, <2>2 DEF Mailboxes
  <2>4. identity' \in Identities
    BY <1>1, <1>2, <1>16, PacketWords DEF Acknowledge, Identities
  <2>5. [packet |-> command.packet, result |-> ctl.result, response |-> command.response] \in Answers
    BY <1>2 DEF Answers
  <2> QED
    BY <1>1, <1>16, <2>1, <2>3, <2>4, <2>5 DEF Acknowledge
<1>17. CASE Latch
  <2>1. ctl' \in Controls
    BY <1>1, <1>4, <1>17 DEF Latch, Controls
  <2>2. stop' \in Stops
    BY <1>1, <1>2, <1>17 DEF Latch, Latched, Stops
  <2> QED
    BY <1>1, <1>17, <2>1, <2>2 DEF Latch
<1>18. CASE Round
  <2>1. PICK cause \in {0, 6, 11} :
          LET s == IF cause = 0 THEN stop ELSE Latched([stop EXCEPT !.cause = cause])
              last == Latched(s)
          IN  /\ stop' = IF Repeats(s) THEN s
                         ELSE [last EXCEPT !.first = IF @ = 0 THEN 14 ELSE @]
              /\ ctl' = [ctl EXCEPT !.pc = IF Repeats(s) THEN "control" ELSE "stopped",
                                    !.rounds = Counted]
              /\ \/ UNCHANGED authority
                 \/ authority' = [authority EXCEPT !.publication = @ + 1]
    BY ZenonT(60), <1>18 DEF Round
  <2> DEFINE s == IF cause = 0 THEN stop ELSE Latched([stop EXCEPT !.cause = cause])
  <2> DEFINE last == Latched(s)
  <2>2. s \in Stops /\ last \in Stops
    <3>1. \A r \in Stops : Latched(r) \in Stops
      BY <1>2 DEF Stops, Latched
    <3>2. [stop EXCEPT !.cause = cause] \in Stops
      BY <1>1 DEF Stops
    <3> QED
      BY <1>1, <3>1, <3>2
  <2>3. stop' \in Stops
    <3>1. stop' = s \/ stop' = [last EXCEPT !.first = IF @ = 0 THEN 14 ELSE @]
      BY <2>1
    <3>2. [last EXCEPT !.first = IF @ = 0 THEN 14 ELSE @] \in Stops
      <4> HIDE DEF s, last
      <4> QED
        BY <2>2 DEF Stops
    <3> QED
      BY <2>2, <3>1, <3>2
  <2>4. authority' \in Authorities
    BY <1>1, <2>1 DEF Authorities
  <2>5. Counted \in 0 .. MaxRounds
    <3>1. ctl.rounds \in 0 .. MaxRounds /\ ctl.rounds < MaxRounds /\ MaxRounds \in Nat
      BY <1>1, <1>18, SessionAssumption DEF Controls, Round, RoundsLeft, SessionAssumption
    <3> QED
      BY <3>1 DEF Counted
  <2>6. ctl' \in Controls
    BY <1>1, <1>4, <2>1, <2>5 DEF Controls
  <2> QED
    BY <1>1, <1>18, <2>3, <2>4, <2>6 DEF Round
<1> QED
  BY <1>6, <1>7, <1>8, <1>9, <1>10, <1>11, <1>12, <1>13, <1>14, <1>15, <1>16, <1>17, <1>18
     DEF Controller

-----------------------------------------------------------------------------
(* The invariant.                                                          *)

\* From the screen to the acknowledgement the packet stays pending.
Applying == {"reserve", "commit", "publish", "result", "response", "acknowledge"}

\* The kernels exclude each other, the controller applies a pending packet
\* only, and each pending packet has been answered or is in the mailbox.
MailboxOK ==
    /\ OneWriter
    /\ ctl.pc \in Applying => command.phase = Pending
    /\ AnsweredInOrder

IInv == TypeOK /\ RoundsLeft /\ MailboxOK

LEMMA InitInv == ASSUME Init PROVE IInv
<1>1. RoundsLeft
  BY SessionAssumption DEF Init, RoundsLeft, SessionAssumption
<1>2. MailboxOK
  BY Codes DEF Init, MailboxOK, OneWriter, AnsweredInOrder, Writes, Applying, NoReply
<1> QED
  BY <1>1, <1>2, InitType DEF IInv

LEMMA RoundsStep == ASSUME TypeOK, RoundsLeft, Next PROVE RoundsLeft'
<1>1. ctl \in [pc: ControllerPcs, result: Results, target: Nat, rounds: 0 .. MaxRounds]
  BY DEF TypeOK
<1>2. MaxRounds \in Nat
  BY SessionAssumption DEF SessionAssumption
<1>3. CASE Round
  <2>1. PICK s : ctl' = [ctl EXCEPT !.pc = IF Repeats(s) THEN "control" ELSE "stopped",
                                    !.rounds = Counted]
    BY <1>3 DEF Round
  <2> QED
    BY <1>1, <2>1 DEF Repeats, RoundsLeft
<1>4. CASE Controller /\ ~Round
  <2>1. ctl.pc # "stopped" /\ ctl'.rounds = ctl.rounds
    BY <1>1, <1>4 DEF Controller, NothingPending, Refuse, Screened, ApplyAdmit, ApplyReadyAdvance,
       ApplyCancel, Reserve, Commit, Publish, StoreResult, StoreResponse, Acknowledge, Latch, Goto
  <2> QED
    BY <2>1 DEF RoundsLeft
<1>5. CASE \E c \in Ports : Launch(c) \/ PortStep(c)
  BY <1>5 DEF RoundsLeft, Launch, PortStep, LaunchUpload, LaunchPoll, LoadPhase, Claim,
     StorePacket, StoreUnavailable, StorePending, ReadReply
<1> QED
  BY <1>3, <1>4, <1>5 DEF Next

LEMMA MailboxPort ==
    ASSUME TypeOK, MailboxOK, NEW c \in Ports, PortStep(c) \/ Launch(c) PROVE MailboxOK'
<1> DEFINE pcs(d) == port[d].pc
<1>1. /\ command.phase \in Empty .. Acknowledged
      /\ \A d \in Ports : port[d].loaded \in {Empty, Acknowledged}
      /\ uploads \in Seq(Packets) /\ answers \in Seq(Answers)
  BY DEF TypeOK, Mailboxes
<1>2. UNCHANGED <<ctl, answers>>
  BY DEF Launch, PortStep, LaunchUpload, LaunchPoll, LoadPhase, Claim,
     StorePacket, StoreUnavailable, StorePending, ReadReply
<1>3. \A d \in Ports \ {c} : Writes(d)' <=> Writes(d)
  <2>1. ASSUME NEW d \in Ports \ {c} PROVE port'[d] = port[d]
    BY <2>1 DEF TypeOK, Launch, PortStep, LaunchUpload, LaunchPoll, LoadPhase, Claim,
       StorePacket, StoreUnavailable, StorePending, ReadReply, At, ReadFrom
  <2> QED
    BY <2>1 DEF Writes
<1>4. ASSUME UNCHANGED <<command, uploads>>, Writes(c)' <=> Writes(c) PROVE MailboxOK'
  BY <1>2, <1>3, <1>4 DEF MailboxOK, OneWriter, AnsweredInOrder, Writes
<1>5. ASSUME command.phase # Pending, command'.phase # Pending, UNCHANGED uploads,
             command.phase = Uploading => Writes(c),
             command'.phase = Uploading /\ Writes(c)'
      PROVE  MailboxOK'
  <2>1. OneWriter'
    BY <1>3, <1>5 DEF MailboxOK, OneWriter, Writes
  <2>2. AnsweredInOrder' /\ ctl'.pc \notin Applying
    BY <1>2, <1>5 DEF MailboxOK, AnsweredInOrder
  <2> QED
    BY <2>1, <2>2 DEF MailboxOK
<1>6. \A pc : At(c, pc) => port'[c].pc = pc
  BY DEF At, TypeOK
<1>7. \A result : ReadFrom(c, result) => port'[c].pc = "phase"
  BY DEF ReadFrom, TypeOK
<1>8. CASE LaunchUpload(c)
  <2>1. port'[c].pc = "load"
    BY <1>8 DEF LaunchUpload, TypeOK
  <2> QED
    BY <1>4, <1>8, <2>1 DEF LaunchUpload, Writes
<1>9. CASE LaunchPoll(c)
  BY <1>4, <1>7, <1>9 DEF LaunchPoll, Writes
<1>10. CASE LoadPhase(c)
  <2>1. port'[c].pc \in {"claim", "phase"}
    BY <1>7, <1>10 DEF LoadPhase, TypeOK
  <2> QED
    BY <1>4, <1>10, <2>1 DEF LoadPhase, Writes
<1>11. CASE Claim(c)
  <2>1. CASE command.phase = port[c].loaded
    <3>1. command' = [command EXCEPT !.phase = Uploading] /\ port'[c].pc = "storePacket"
      BY <1>6, <1>11, <2>1 DEF Claim
    <3>2. command'.phase = Uploading
      BY <3>1 DEF TypeOK, Mailboxes
    <3>3. UNCHANGED uploads
      BY <1>11 DEF Claim
    <3> QED
      BY <1>1, <1>5, <2>1, <3>1, <3>2, <3>3, Codes DEF Writes
  <2>2. CASE command.phase # port[c].loaded
    BY <1>4, <1>7, <1>11, <2>2 DEF Claim, Writes
  <2> QED
    BY <2>1, <2>2
<1>12. CASE StorePacket(c) \/ StoreUnavailable(c)
  <2>1. Writes(c) /\ command'.phase = command.phase /\ UNCHANGED uploads
    BY <1>12 DEF StorePacket, StoreUnavailable, Writes, TypeOK, Mailboxes
  <2>2. Writes(c)'
    BY <1>6, <1>12 DEF StorePacket, StoreUnavailable, Writes
  <2>3. command.phase = Uploading
    BY <2>1 DEF MailboxOK, OneWriter
  <2> QED
    BY <1>5, <2>1, <2>2, <2>3, Codes
<1>13. CASE StorePending(c)
  <2>1. Writes(c) /\ ~Writes(c)'
    BY <1>7, <1>13 DEF StorePending, Writes
  <2>2. command.phase = Uploading /\ \A d \in Ports : ~Writes(d)'
    BY <1>3, <2>1 DEF MailboxOK, OneWriter
  <2>3. command'.phase = Pending /\ command'.packet = command.packet
    BY <1>13 DEF StorePending, TypeOK, Mailboxes
  <2>4. uploads' = Append(uploads, command.packet)
    BY <1>13 DEF StorePending
  <2>5. OneWriter'
    BY <2>2, <2>3, Codes DEF OneWriter, Writes
  <2>6. AnsweredInOrder'
    <3>1. Len(uploads) = Len(answers) /\ \A i \in 1 .. Len(answers) : answers[i].packet = uploads[i]
      BY <1>1, <2>2, Codes DEF MailboxOK, AnsweredInOrder
    <3>2. Len(uploads') = Len(uploads) + 1 /\ uploads'[Len(uploads) + 1] = command.packet
      BY <1>1, <2>4
    <3>3. \A i \in 1 .. Len(uploads) : uploads'[i] = uploads[i]
      BY <1>1, <2>4
    <3> QED
      BY <1>1, <1>2, <2>3, <3>1, <3>2, <3>3 DEF AnsweredInOrder
  <2> QED
    BY <2>3, <2>5, <2>6 DEF MailboxOK
<1>14. CASE ReadReply(c)
  <2>1. port'[c].pc = ReadNext[port[c].pc]
    BY <1>14 DEF ReadReply, TypeOK, ReadNext
  <2>2. ~Writes(c) /\ ~Writes(c)'
    BY <1>14, <2>1 DEF ReadReply, ReadNext, Writes
  <2> QED
    BY <1>4, <1>14, <2>2 DEF ReadReply
<1> QED
  BY <1>8, <1>9, <1>10, <1>11, <1>12, <1>13, <1>14 DEF PortStep, Launch

LEMMA MailboxController == ASSUME TypeOK, MailboxOK, Controller PROVE MailboxOK'
<1>1. /\ command \in Mailboxes /\ uploads \in Seq(Packets) /\ answers \in Seq(Answers)
      /\ ctl \in [pc: ControllerPcs, result: Results, target: Nat, rounds: 0 .. MaxRounds]
  BY DEF TypeOK
<1>2. UNCHANGED <<port, uploads>>
  BY DEF Controller, NothingPending, Refuse, Screened, ApplyAdmit, ApplyReadyAdvance,
     ApplyCancel, Reserve, Commit, Publish, StoreResult, StoreResponse, Acknowledge, Latch, Round
<1>3. ASSUME command'.phase = command.phase, command'.packet = command.packet, UNCHANGED answers,
             ctl'.pc \in Applying => command.phase = Pending
      PROVE  MailboxOK'
  BY <1>2, <1>3 DEF MailboxOK, OneWriter, AnsweredInOrder, Writes
<1>4. \A pc, result, target : Goto(pc, result, target) => ctl'.pc = pc
  BY <1>1 DEF Goto
<1>5. CASE NothingPending
  BY <1>3, <1>4, <1>5 DEF NothingPending, Applying
<1>6. CASE Refuse \/ ApplyAdmit \/ ApplyReadyAdvance \/ ApplyCancel
  BY <1>3, <1>6 DEF Refuse, Screened, ApplyAdmit, ApplyReadyAdvance, ApplyCancel
<1>7. CASE Reserve \/ Commit \/ Publish
  BY <1>3, <1>7 DEF Reserve, Commit, Publish, MailboxOK, Applying
<1>8. CASE StoreResult \/ StoreResponse
  <2>1. command'.phase = command.phase /\ command'.packet = command.packet
    BY <1>1, <1>8 DEF StoreResult, StoreResponse, Mailboxes
  <2> QED
    BY <1>3, <1>8, <2>1 DEF StoreResult, StoreResponse, MailboxOK, Applying
<1>9. CASE Acknowledge
  <2>1. /\ command.phase = Pending /\ command'.phase = Acknowledged
        /\ command'.packet = command.packet /\ ctl'.pc = "latch"
    BY <1>1, <1>9 DEF Acknowledge, MailboxOK, Applying, Mailboxes
  <2>2. PICK a : answers' = Append(answers, a) /\ a.packet = command.packet
    BY <1>9 DEF Acknowledge
  <2>3. OneWriter'
    BY <1>2, <2>1, Codes DEF MailboxOK, OneWriter, Writes
  <2>4. AnsweredInOrder'
    <3>1. /\ Len(uploads) = Len(answers) + 1 /\ uploads[Len(answers) + 1] = command.packet
          /\ \A i \in 1 .. Len(answers) : answers[i].packet = uploads[i]
      BY <1>1, <2>1 DEF MailboxOK, AnsweredInOrder
    <3>2. /\ Len(answers') = Len(answers) + 1 /\ answers'[Len(answers) + 1] = a
          /\ \A i \in 1 .. Len(answers) : answers'[i] = answers[i]
      <4>1. a \in Answers
        BY <1>1, <1>9, <2>2 DEF Acknowledge, Answers, Mailboxes
      <4> QED
        BY <1>1, <2>2, <4>1
    <3> QED
      BY <1>1, <1>2, <2>1, <2>2, <3>1, <3>2, Codes DEF AnsweredInOrder
  <2> QED
    BY <2>1, <2>3, <2>4 DEF MailboxOK, Applying
<1>10. CASE Latch \/ Round
  <2>1. ctl'.pc \notin Applying
    BY <1>1, <1>10 DEF Latch, Round, Applying
  <2> QED
    BY <1>3, <1>10, <2>1 DEF Latch, Round
<1> QED
  BY <1>5, <1>6, <1>7, <1>8, <1>9, <1>10 DEF Controller

LEMMA StutterInv == ASSUME IInv, UNCHANGED vars PROVE IInv'
BY DEF IInv, TypeOK, RoundsLeft, MailboxOK, OneWriter, AnsweredInOrder, Writes, vars

LEMMA IInvariant == Spec => []IInv
<1>1. Init => IInv
  BY InitInv
<1>2. IInv /\ [Next]_vars => IInv'
  <2>1. ASSUME IInv, Next PROVE IInv'
    <3>1. CASE Controller
      BY <2>1, <3>1, ControllerType, RoundsStep, MailboxController DEF IInv
    <3>2. CASE \E c \in Ports : Launch(c) \/ PortStep(c)
      BY <2>1, <3>2, PortType, RoundsStep, MailboxPort DEF IInv
    <3> QED
      BY <2>1, <3>1, <3>2 DEF Next
  <2> QED
    BY <2>1, StutterInv
<1> QED
  BY <1>1, <1>2, PTL DEF Spec

\* The type invariant, for every number of kernels, packets and rounds.
THEOREM TypeCorrect == Spec => []TypeOK
<1>1. IInv => TypeOK
  BY DEF IInv
<1> QED
  BY <1>1, IInvariant, PTL

\* Only one command kernel writes the mailbox, and only in the uploading phase.
THEOREM UploadsExclude == Spec => []OneWriter
<1>1. IInv => OneWriter
  BY DEF IInv, MailboxOK
<1> QED
  BY <1>1, IInvariant, PTL

\* Every packet made pending is acknowledged once, in order, with none lost.
THEOREM AnsweredOnceInOrder == Spec => []AnsweredInOrder
<1>1. IInv => AnsweredInOrder
  BY DEF IInv, MailboxOK
<1> QED
  BY <1>1, IInvariant, PTL

-----------------------------------------------------------------------------
(* The order of focus generations.                                         *)

\* The packets a careful host stages: an identity and a generation in each.
Stamped(q) == ~Equal128(q.id, Zero) /\ ~Equal128(q.generation, Zero)

\* A packet that is being uploaded or is pending is one the host staged.
StagedOK ==
    /\ \A c \in Ports : port[c].pc \in {"load", "claim", "storePacket"} => port[c].packet \in Requests
    /\ \A c \in Ports :
          port[c].pc \in {"storeUnavailable", "storePending"} => command.packet \in Requests
    /\ command.phase = Pending => command.packet \in Requests

\* The recorded generation is as new as any accepted one, and a packet that
\* will be recorded is newer than it.
OrderOK ==
    /\ \A i \in FocusAnswers :
          \/ answers[i].packet.generation = identity.generation
          \/ Newer128(identity.generation, answers[i].packet.generation)
    /\ ctl.pc \in Applying /\ ctl.result \notin {Duplicate, Stale}
          => Newer128(command.packet.generation, identity.generation)
    /\ ctl.pc \in {"reserve", "commit", "publish"} => ctl.result = Accepted
    /\ AcceptedInOrder

LEMMA NewerTransitive ==
    ASSUME NEW f \in Wide, NEW g \in Wide, NEW h \in Wide, Newer128(f, g), Newer128(g, h)
    PROVE  Newer128(f, h)
<1>1. PICK v \in 1 .. Width : f[v] > g[v] /\ \A x \in v + 1 .. Width : f[x] = g[x]
  BY DEF Newer128
<1>2. PICK w \in 1 .. Width : g[w] > h[w] /\ \A x \in w + 1 .. Width : g[x] = h[x]
  BY DEF Newer128
<1>3. \A x \in 1 .. Width : f[x] \in Nat /\ g[x] \in Nat /\ h[x] \in Nat
  BY DEF Wide
<1>4. v \in Int /\ w \in Int /\ Width \in Nat
  BY SessionAssumption DEF SessionAssumption
<1>5. CASE v < w
  BY <1>1, <1>2, <1>3, <1>4, <1>5 DEF Newer128
<1>6. CASE v >= w
  <2>1. f[v] > h[v]
    BY <1>1, <1>2, <1>3, <1>4, <1>6
  <2>2. \A x \in v + 1 .. Width : f[x] = h[x]
    BY <1>1, <1>2, <1>3, <1>4, <1>6
  <2> QED
    BY <2>1, <2>2 DEF Newer128
<1> QED
  BY <1>4, <1>5, <1>6

LEMMA StagedPort ==
    ASSUME TypeOK, MailboxOK, StagedOK, NEW c \in Ports, PortStep(c) \/ Launch(c) PROVE StagedOK'
<1>1. command \in Mailboxes /\ \A d \in Ports \ {c} : port'[d] = port[d]
  BY DEF TypeOK, Launch, PortStep, LaunchUpload, LaunchPoll, LoadPhase, Claim,
     StorePacket, StoreUnavailable, StorePending, ReadReply, At, ReadFrom
<1>2. \A pc : At(c, pc) => port'[c].pc = pc /\ port'[c].packet = port[c].packet
  BY DEF At, TypeOK
<1>3. \A result : ReadFrom(c, result) => port'[c].pc = "phase"
  BY DEF ReadFrom, TypeOK
<1>4. ASSUME command'.packet = command.packet, command'.phase = Pending => command.packet \in Requests,
             port'[c].pc \in {"load", "claim", "storePacket"} => port'[c].packet \in Requests,
             port'[c].pc \in {"storeUnavailable", "storePending"} => command.packet \in Requests
      PROVE  StagedOK'
  BY <1>1, <1>4 DEF StagedOK
<1>5. CASE LaunchUpload(c)
  <2>1. port'[c].pc = "load" /\ port'[c].packet \in Requests
    BY <1>5 DEF LaunchUpload, TypeOK
  <2> QED
    BY <1>4, <1>5, <2>1 DEF LaunchUpload, StagedOK
<1>6. CASE LaunchPoll(c)
  BY <1>3, <1>4, <1>6 DEF LaunchPoll, StagedOK
<1>7. CASE LoadPhase(c)
  <2>1. port'[c].pc = "phase" \/ (port'[c].pc = "claim" /\ port'[c].packet = port[c].packet)
    BY <1>3, <1>7 DEF LoadPhase, TypeOK
  <2>2. port[c].packet \in Requests
    BY <1>7 DEF LoadPhase, StagedOK
  <2> QED
    BY <1>4, <1>7, <2>1, <2>2 DEF LoadPhase, StagedOK
<1>8. CASE Claim(c)
  <2>1. CASE command.phase = port[c].loaded
    <3>1. command' = [command EXCEPT !.phase = Uploading] /\ At(c, "storePacket")
      BY <1>8, <2>1 DEF Claim
    <3>2. command'.packet = command.packet /\ command'.phase = Uploading
      BY <1>1, <3>1 DEF Mailboxes
    <3>3. port[c].packet \in Requests
      BY <1>8 DEF Claim, StagedOK
    <3> QED
      BY <1>2, <1>4, <3>1, <3>2, <3>3, Codes
  <2>2. CASE command.phase # port[c].loaded
    BY <1>3, <1>4, <1>8, <2>2 DEF Claim, StagedOK
  <2> QED
    BY <2>1, <2>2
<1>9. CASE StorePacket(c)
  <2>1. command'.packet = port[c].packet /\ port[c].packet \in Requests
    BY <1>1, <1>9 DEF StorePacket, StagedOK, Mailboxes
  <2>2. port'[c].pc = "storeUnavailable"
    BY <1>2, <1>9 DEF StorePacket
  <2>3. \A d \in Ports \ {c} : ~Writes(d)
    BY <1>9 DEF MailboxOK, OneWriter, Writes, StorePacket
  <2> QED
    BY <1>1, <2>1, <2>2, <2>3 DEF StagedOK, Writes
<1>10. CASE StoreUnavailable(c)
  <2>1. /\ command'.packet = command.packet /\ command'.phase = command.phase
        /\ port'[c].pc = "storePending"
    BY <1>1, <1>2, <1>10 DEF StoreUnavailable, Mailboxes
  <2>2. command.packet \in Requests
    BY <1>10 DEF StagedOK, StoreUnavailable
  <2> QED
    BY <1>4, <2>1, <2>2
<1>11. CASE StorePending(c)
  <2>1. command'.packet = command.packet /\ port'[c].pc = "phase"
    BY <1>1, <1>3, <1>11 DEF StorePending, Mailboxes
  <2>2. command.packet \in Requests
    BY <1>11 DEF StagedOK, StorePending
  <2> QED
    BY <1>4, <2>1, <2>2
<1>12. CASE ReadReply(c)
  <2>1. port'[c].pc \in {"result", "packet", "response", "done"}
    BY <1>12 DEF ReadReply, TypeOK, ReadNext
  <2> QED
    BY <1>4, <1>12, <2>1 DEF ReadReply, StagedOK
<1> QED
  BY <1>5, <1>6, <1>7, <1>8, <1>9, <1>10, <1>11, <1>12 DEF PortStep, Launch

LEMMA StagedController ==
    ASSUME TypeOK, MailboxOK, StagedOK, Controller PROVE StagedOK' /\ command'.packet = command.packet
<1>1. command \in Mailboxes
  BY DEF TypeOK
<1>2. UNCHANGED port
  BY DEF Controller, NothingPending, Refuse, Screened, ApplyAdmit, ApplyReadyAdvance,
     ApplyCancel, Reserve, Commit, Publish, StoreResult, StoreResponse, Acknowledge, Latch, Round
<1>3. CASE StoreResult \/ StoreResponse
  <2>1. command'.packet = command.packet /\ command'.phase = command.phase
    BY <1>1, <1>3 DEF StoreResult, StoreResponse, Mailboxes
  <2> QED
    BY <1>2, <2>1 DEF StagedOK
<1>4. CASE Acknowledge
  <2>1. command'.packet = command.packet /\ command'.phase = Acknowledged
    BY <1>1, <1>4 DEF Acknowledge, Mailboxes
  <2> QED
    BY <1>2, <2>1, Codes DEF StagedOK
<1>5. CASE ~(StoreResult \/ StoreResponse \/ Acknowledge)
  <2>1. UNCHANGED command
    BY <1>5 DEF Controller, NothingPending, Refuse, Screened, ApplyAdmit, ApplyReadyAdvance,
       ApplyCancel, Reserve, Commit, Publish, Latch, Round
  <2> QED
    BY <1>2, <2>1 DEF StagedOK
<1> QED
  BY <1>3, <1>4, <1>5

LEMMA OrderPort ==
    ASSUME TypeOK, MailboxOK, OrderOK, NEW c \in Ports, PortStep(c) \/ Launch(c) PROVE OrderOK'
<1>1. UNCHANGED <<answers, identity, ctl>>
  BY DEF Launch, PortStep, LaunchUpload, LaunchPoll, LoadPhase, Claim,
     StorePacket, StoreUnavailable, StorePending, ReadReply
<1>2. ctl.pc \in Applying => UNCHANGED command
  <2>1. SUFFICES ASSUME command.phase = Pending PROVE UNCHANGED command
    BY DEF MailboxOK
  <2>2. ~Writes(c) /\ port[c].loaded # Pending
    BY <2>1, Codes DEF MailboxOK, OneWriter, TypeOK
  <2>3. CASE Claim(c)
    BY <2>1, <2>2, <2>3 DEF Claim
  <2>4. CASE StorePacket(c) \/ StoreUnavailable(c) \/ StorePending(c)
    BY <2>2, <2>4 DEF StorePacket, StoreUnavailable, StorePending, Writes
  <2> QED
    BY <2>3, <2>4 DEF Launch, PortStep, LaunchUpload, LaunchPoll, LoadPhase, ReadReply
<1> QED
  BY <1>1, <1>2 DEF OrderOK, FocusAnswers, IsFocus, AcceptedInOrder

LEMMA ScreenNewer ==
    ASSUME NEW q, Stamped(q), Screen(q) \notin {Duplicate, Stale}
    PROVE  Newer128(q.generation, identity.generation) /\ Screen(q) # Invalid
BY Codes DEF Screen, Stamped

LEMMA OrderController ==
    ASSUME TypeOK, MailboxOK, StagedOK, OrderOK, Controller, \A q \in Requests : Stamped(q)
    PROVE  OrderOK'
<1>1. /\ command \in Mailboxes /\ answers \in Seq(Answers)
      /\ ctl \in [pc: ControllerPcs, result: Results, target: Nat, rounds: 0 .. MaxRounds]
      /\ identity.generation \in Wide /\ command.packet.generation \in Wide
      /\ \A i \in 1 .. Len(answers) : answers[i].packet.generation \in Wide
  <2>1. /\ command \in Mailboxes /\ answers \in Seq(Answers)
        /\ ctl \in [pc: ControllerPcs, result: Results, target: Nat, rounds: 0 .. MaxRounds]
        /\ identity.generation \in Wide
    BY DEF TypeOK
  <2>2. command.packet \in Packets /\ \A i \in 1 .. Len(answers) : answers[i] \in Answers
    BY <2>1 DEF Mailboxes
  <2>3. \A i \in 1 .. Len(answers) : answers[i].packet \in Packets
    BY <2>2 DEF Answers
  <2> QED
    BY <2>1, <2>2, <2>3, PacketWords
<1>2. \A pc, result, target : Goto(pc, result, target) => ctl'.pc = pc /\ ctl'.result = result
  BY <1>1 DEF Goto
<1>3. command'.packet = command.packet
  BY StagedController
<1>4. ASSUME UNCHANGED <<answers, identity>>,
             ctl'.pc \in Applying /\ ctl'.result \notin {Duplicate, Stale}
                => Newer128(command.packet.generation, identity.generation),
             ctl'.pc \in {"reserve", "commit", "publish"} => ctl'.result = Accepted
      PROVE  OrderOK'
  BY <1>3, <1>4 DEF OrderOK, FocusAnswers, IsFocus, AcceptedInOrder
<1>5. CASE NothingPending
  BY <1>2, <1>4, <1>5 DEF NothingPending, Applying
<1>6. command.phase = Pending => Stamped(command.packet)
  BY DEF StagedOK
<1>7. CASE Refuse
  <2>1. /\ command.phase = Pending
        /\ ctl'.pc = "result"
        /\ ctl'.result = IF Screen(command.packet) # Accepted THEN Screen(command.packet) ELSE Invalid
    BY <1>2, <1>7 DEF Refuse
  <2> QED
    BY <1>4, <1>6, <1>7, <2>1, ScreenNewer, Codes DEF Refuse
<1>8. CASE ApplyAdmit \/ ApplyReadyAdvance \/ ApplyCancel
  <2>1. command.phase = Pending /\ Screen(command.packet) = Accepted
    BY <1>8 DEF ApplyAdmit, ApplyReadyAdvance, ApplyCancel, Screened
  <2>2. ctl'.pc \in {"reserve", "commit", "publish"} => ctl'.result = Accepted
    BY <1>2, <1>8 DEF ApplyAdmit, ApplyReadyAdvance, ApplyCancel
  <2> QED
    BY <1>4, <1>6, <1>8, <2>1, <2>2, ScreenNewer, Codes DEF ApplyAdmit, ApplyReadyAdvance, ApplyCancel
<1>9. ASSUME ctl.pc \in Applying, ctl.result \notin {Duplicate, Stale}
      PROVE  Newer128(command.packet.generation, identity.generation)
  BY <1>9 DEF OrderOK
<1>10. CASE StoreResult \/ StoreResponse
  <2>1. ctl'.result = ctl.result /\ ctl.pc \in Applying /\ ctl'.pc \notin {"reserve", "commit", "publish"}
    BY <1>1, <1>10 DEF StoreResult, StoreResponse, Applying
  <2> QED
    BY <1>4, <1>9, <1>10, <2>1 DEF StoreResult, StoreResponse
<1>11. CASE Acknowledge
  <2>1. PICK a \in Answers : /\ answers' = Append(answers, a) /\ a.packet = command.packet
                             /\ a.result = ctl.result
    BY <1>1, <1>11 DEF Acknowledge, Answers, Mailboxes
  <2>2. ctl'.pc \notin Applying /\ ctl.pc \in Applying
    BY <1>1, <1>11 DEF Acknowledge, Applying
  <2>3. /\ Len(answers') = Len(answers) + 1 /\ answers'[Len(answers) + 1] = a
        /\ \A i \in 1 .. Len(answers) : answers'[i] = answers[i]
    BY <1>1, <2>1
  <2>4. CASE ctl.result \in {Duplicate, Stale}
    <3>1. identity' = identity /\ ~IsFocus(a)
      BY <1>11, <2>1, <2>4, Codes DEF Acknowledge, IsFocus
    <3>2. FocusAnswers' = FocusAnswers
      BY <1>1, <2>3, <3>1 DEF FocusAnswers, IsFocus
    <3> QED
      BY <2>2, <2>3, <3>1, <3>2 DEF OrderOK, AcceptedInOrder, FocusAnswers, Applying
  <2>5. CASE ctl.result \notin {Duplicate, Stale}
    <3>1. identity'.generation = a.packet.generation
      BY <1>11, <2>1, <2>5 DEF Acknowledge
    <3>2. Newer128(a.packet.generation, identity.generation)
      BY <1>9, <2>1, <2>2, <2>5
    <3>3. \A i \in FocusAnswers : Newer128(a.packet.generation, answers[i].packet.generation)
      <4>1. ASSUME NEW i \in FocusAnswers PROVE Newer128(a.packet.generation, answers[i].packet.generation)
        <5>1. answers[i].packet.generation \in Wide
          BY <1>1 DEF FocusAnswers
        <5> QED
          BY <1>1, <2>1, <3>2, <5>1, NewerTransitive DEF OrderOK
      <4> QED
        BY <4>1
    <3>4. FocusAnswers' \subseteq FocusAnswers \cup {Len(answers) + 1}
      BY <1>1, <2>3 DEF FocusAnswers, IsFocus
    <3>5. AcceptedInOrder'
      <4>1. ASSUME NEW i \in FocusAnswers', NEW j \in FocusAnswers', i < j
            PROVE  Newer128(answers'[j].packet.generation, answers'[i].packet.generation)
        <5>1. i \in FocusAnswers /\ i \in 1 .. Len(answers)
          BY <1>1, <3>4, <4>1 DEF FocusAnswers
        <5>2. CASE j \in FocusAnswers
          BY <2>3, <4>1, <5>1, <5>2 DEF OrderOK, AcceptedInOrder, FocusAnswers
        <5>3. CASE j = Len(answers) + 1
          BY <2>3, <3>3, <5>1, <5>3
        <5> QED
          BY <3>4, <5>2, <5>3
      <4> QED
        BY <4>1 DEF AcceptedInOrder
    <3>6. \A i \in FocusAnswers' :
             \/ answers'[i].packet.generation = identity'.generation
             \/ Newer128(identity'.generation, answers'[i].packet.generation)
      <4>1. ASSUME NEW i \in FocusAnswers, i # Len(answers) + 1
            PROVE  Newer128(identity'.generation, answers'[i].packet.generation)
        BY <2>3, <3>1, <3>3, <4>1 DEF FocusAnswers
      <4> QED
        BY <2>3, <3>1, <3>4, <4>1
    <3> QED
      BY <2>2, <3>5, <3>6 DEF OrderOK, Applying
  <2> QED
    BY <2>4, <2>5
<1>12. CASE Latch \/ Round
  <2>1. ctl'.pc \notin Applying
    BY <1>1, <1>12 DEF Latch, Round, Applying
  <2> QED
    BY <1>4, <1>12, <2>1 DEF Latch, Round, Applying
<1>13. CASE Reserve \/ Commit \/ Publish
  <2>1. ctl.pc \in Applying /\ UNCHANGED <<answers, identity>>
    BY <1>13 DEF Reserve, Commit, Publish, Applying
  <2>2. ctl.result \notin {Duplicate, Stale}
    BY <1>13, Codes DEF Reserve, Commit, Publish, OrderOK
  <2>3. ctl'.pc \in {"reserve", "commit", "publish"} => ctl'.result = Accepted
    BY <1>2, <1>13 DEF Reserve, Commit, Publish
  <2> QED
    BY <1>4, <1>9, <2>1, <2>2, <2>3
<1> QED
  BY <1>5, <1>7, <1>8, <1>10, <1>11, <1>12, <1>13 DEF Controller

\* When every packet the host stages carries an identity and a generation,
\* accepted focus changes are in the order of their generations, however many
\* kernels, refusals and retries come between.  (Without that hypothesis a
\* packet refused for a zero generation resets the recorded one.)
THEOREM FocusGenerationsRise ==
    ASSUME \A q \in Requests : Stamped(q) PROVE Spec => []AcceptedInOrder
<1> DEFINE Inv == IInv /\ StagedOK /\ OrderOK
<1>1. Init => Inv
  <2> SUFFICES ASSUME Init PROVE StagedOK /\ OrderOK
    BY InitInv
  <2> QED
    BY Codes DEF Init, StagedOK, OrderOK, FocusAnswers, AcceptedInOrder, Applying, NoReply
<1>2. Inv /\ [Next]_vars => Inv'
  <2> SUFFICES ASSUME Inv, [Next]_vars PROVE Inv'
    OBVIOUS
  <2>1. TypeOK /\ RoundsLeft /\ MailboxOK
    BY DEF IInv
  <2>2. CASE Controller
    BY <2>1, <2>2, ControllerType, RoundsStep, MailboxController, StagedController, OrderController
       DEF IInv, Next
  <2>3. CASE \E c \in Ports : Launch(c) \/ PortStep(c)
    BY <2>1, <2>3, PortType, RoundsStep, MailboxPort, StagedPort, OrderPort DEF IInv, Next
  <2>4. CASE UNCHANGED vars
    <3>1. StagedOK' /\ OrderOK'
      BY <2>4 DEF StagedOK, OrderOK, FocusAnswers, IsFocus, AcceptedInOrder, vars
    <3> QED
      BY <2>4, <3>1, StutterInv
  <2> QED
    BY <2>2, <2>3, <2>4 DEF Next
<1>3. Inv => AcceptedInOrder
  BY DEF OrderOK
<1> HIDE DEF Inv
<1> QED
  BY <1>1, <1>2, <1>3, PTL DEF Spec

-----------------------------------------------------------------------------
(* What a step leaves alone.                                               *)

\* While a packet is pending no command kernel changes the mailbox, and none
\* ever touches the focus, the controller or the answers.
LEMMA PortKeeps ==
    ASSUME TypeOK, MailboxOK, NEW c \in Ports, PortStep(c) \/ Launch(c)
    PROVE  /\ UNCHANGED <<authority, ctl, stop, answers>>
           /\ command.phase = Pending => UNCHANGED command
<1>1. UNCHANGED <<authority, ctl, stop, answers>>
  BY DEF Launch, PortStep, LaunchUpload, LaunchPoll, LoadPhase, Claim,
     StorePacket, StoreUnavailable, StorePending, ReadReply
<1>2. ASSUME command.phase = Pending PROVE UNCHANGED command
  <2>1. ~Writes(c) /\ port[c].loaded # Pending
    BY <1>2, Codes DEF MailboxOK, OneWriter, TypeOK
  <2>2. CASE Claim(c)
    BY <1>2, <2>1, <2>2 DEF Claim
  <2>3. CASE StorePacket(c) \/ StoreUnavailable(c) \/ StorePending(c)
    BY <2>1, <2>3 DEF StorePacket, StoreUnavailable, StorePending, Writes
  <2> QED
    BY <2>2, <2>3 DEF Launch, PortStep, LaunchUpload, LaunchPoll, LoadPhase, ReadReply
<1> QED
  BY <1>1, <1>2

\* The controller leaves the packet in the mailbox, and the command kernels.
LEMMA ControllerKeeps ==
    ASSUME TypeOK, Controller PROVE command'.packet = command.packet /\ UNCHANGED port
<1>1. command \in Mailboxes
  BY DEF TypeOK
<1>2. CASE StoreResult \/ StoreResponse \/ Acknowledge
  BY <1>1, <1>2 DEF StoreResult, StoreResponse, Acknowledge, Mailboxes
<1>3. CASE ~(StoreResult \/ StoreResponse \/ Acknowledge)
  BY <1>3 DEF Controller, NothingPending, Refuse, Screened, ApplyAdmit, ApplyReadyAdvance,
     ApplyCancel, Reserve, Commit, Publish, Latch, Round
<1> QED
  BY <1>2, <1>3

\* The controller's goto sets the counter, the result and the target.
LEMMA GotoSets ==
    ASSUME TypeOK, NEW pc, NEW result, NEW target, Goto(pc, result, target)
    PROVE  ctl'.pc = pc /\ ctl'.result = result /\ ctl'.target = target
<1>1. ctl \in [pc: ControllerPcs, result: Results, target: Nat, rounds: 0 .. MaxRounds]
  BY DEF TypeOK
<1> QED
  BY <1>1 DEF Goto

\* A stop with a cause sets the cause, and the first cause if there was none.
LEMMA StopSets ==
    ASSUME TypeOK, NEW cause, StopWith(cause)
    PROVE  stop'.cause = cause /\ stop'.first = IF stop.first = 0 THEN cause ELSE stop.first
BY DEF StopWith

\* The words the controller works on.
LEMMA Words ==
    ASSUME TypeOK
    PROVE  /\ command \in Mailboxes /\ command.packet \in Packets
           /\ command.response \in Responses /\ command.result \in Results
           /\ authority \in [root: Nat, epoch: Nat, publication: Nat, cancel: BOOLEAN]
           /\ ctl \in [pc: ControllerPcs, result: Results, target: Nat, rounds: 0 .. MaxRounds]
           /\ stop \in [cause: Nat, first: Nat]
           /\ answers \in Seq(Answers)
BY DEF TypeOK, Mailboxes

-----------------------------------------------------------------------------
(* The first cause.                                                        *)

\* A latch leaves a cause that is there, and latches a cause of its own only
\* when the search was stopped or cancelled.
LEMMA LatchedFirst ==
    ASSUME NEW s \in [cause: Nat, first: Nat], authority.cancel \in BOOLEAN
    PROVE  /\ Latched(s) \in [cause: Nat, first: Nat]
           /\ Latched(s).cause = s.cause
           /\ s.first # 0 => Latched(s).first = s.first
           /\ Latched(s).first # 0 => s.first # 0 \/ s.cause # 0 \/ authority.cancel
BY DEF Latched

\* What the controller kernel makes of the stop words and the counter.
LEMMA RoundStop ==
    ASSUME TypeOK, Round
    PROVE  /\ stop.first # 0 => stop'.first = stop.first
           /\ ctl'.pc \in {"control", "stopped"}
           /\ ctl'.pc = "control" => UNCHANGED stop /\ stop.cause = 0 /\ ~authority.cancel
           /\ authority'.root = authority.root /\ authority'.epoch = authority.epoch
           /\ authority'.cancel = authority.cancel
<1> DEFINE Stops == [cause: Nat, first: Nat]
<1>1. authority.cancel \in BOOLEAN /\ stop \in Stops
  BY DEF TypeOK
<1>2. PICK cause \in {0, 6, 11} :
          LET s == IF cause = 0 THEN stop ELSE Latched([stop EXCEPT !.cause = cause])
              last == Latched(s)
          IN  /\ stop' = IF Repeats(s) THEN s
                         ELSE [last EXCEPT !.first = IF @ = 0 THEN 14 ELSE @]
              /\ ctl' = [ctl EXCEPT !.pc = IF Repeats(s) THEN "control" ELSE "stopped",
                                    !.rounds = Counted]
  BY DEF Round
<1> DEFINE set == [stop EXCEPT !.cause = cause]
<1> DEFINE s == IF cause = 0 THEN stop ELSE Latched(set)
<1> DEFINE last == Latched(s)
<1>3. set \in Stops /\ set.cause = cause /\ set.first = stop.first
  BY <1>1
<1>4. /\ s \in Stops
      /\ stop.first # 0 => s.first = stop.first
      /\ cause # 0 => s.cause # 0
  <2>1. /\ Latched(set) \in Stops /\ Latched(set).cause = set.cause
        /\ set.first # 0 => Latched(set).first = set.first
    <3> HIDE DEF set
    <3> QED
      BY <1>1, <1>3, LatchedFirst
  <2> QED
    BY <1>1, <1>3, <2>1
<1>5. last \in Stops /\ (s.first # 0 => last.first = s.first)
  <2> HIDE DEF s
  <2> QED
    BY <1>1, <1>4, LatchedFirst
<1>6. /\ stop' = IF Repeats(s) THEN s ELSE [last EXCEPT !.first = IF @ = 0 THEN 14 ELSE @]
      /\ ctl'.pc = IF Repeats(s) THEN "control" ELSE "stopped"
  <2>1. ctl' = [ctl EXCEPT !.pc = IF Repeats(s) THEN "control" ELSE "stopped", !.rounds = Counted]
    BY <1>2
  <2>2. ctl \in [pc: ControllerPcs, result: Results, target: Nat, rounds: 0 .. MaxRounds]
    BY DEF TypeOK
  <2> HIDE DEF s
  <2>3. ctl'.pc = IF Repeats(s) THEN "control" ELSE "stopped"
    BY <2>1, <2>2
  <2> USE DEF s
  <2> QED
    BY <1>2, <2>3
<1>7. stop.first # 0 => stop'.first = stop.first
  <2> HIDE DEF s, last
  <2>1. CASE Repeats(s)
    BY <1>4, <1>6, <2>1
  <2>2. CASE ~Repeats(s)
    <3>1. stop' = [last EXCEPT !.first = IF @ = 0 THEN 14 ELSE @]
      BY <1>6, <2>2
    <3>2. last.first # 0 => stop'.first = last.first
      BY <1>5, <3>1
    <3> QED
      BY <1>4, <1>5, <3>2
  <2> QED
    BY <2>1, <2>2
<1>8. ctl'.pc = "control" => UNCHANGED stop /\ stop.cause = 0 /\ ~authority.cancel
  <2>1. SUFFICES ASSUME ctl'.pc = "control" PROVE UNCHANGED stop /\ stop.cause = 0 /\ ~authority.cancel
    OBVIOUS
  <2>2. Repeats(s) /\ stop' = s
    <3> HIDE DEF s, last
    <3> QED
      BY <1>6, <2>1
  <2>3. s.cause = 0 /\ ~authority.cancel
    <3> HIDE DEF s, last
    <3> QED
      BY <2>2 DEF Repeats
  <2>4. cause = 0
    <3> HIDE DEF s, last
    <3> QED
      BY <1>4, <2>3
  <2> QED
    BY <2>2, <2>3, <2>4
<1>9. /\ authority'.root = authority.root /\ authority'.epoch = authority.epoch
      /\ authority'.cancel = authority.cancel
  BY DEF Round, TypeOK
<1>10. ctl'.pc \in {"control", "stopped"}
  <2> HIDE DEF s, last
  <2> QED
    BY <1>6
<1> QED
  BY <1>7, <1>8, <1>9, <1>10

\* The first cause that stops the search is the one it reports, whatever fails
\* or is cancelled later.
THEOREM FirstCauseKept == Spec => FirstCauseStays
<1>1. TypeOK /\ [Next]_vars => [stop.first # 0 => stop'.first = stop.first]_vars
  <2> SUFFICES ASSUME TypeOK, Next, stop.first # 0 PROVE stop'.first = stop.first
    OBVIOUS
  <2>1. CASE Round
    BY <2>1, RoundStop
  <2>2. CASE Latch
    BY <2>2, LatchedFirst DEF Latch, TypeOK
  <2>3. CASE ApplyAdmit \/ Publish
    BY <2>3, StopSets DEF ApplyAdmit, Publish
  <2>4. CASE Controller /\ ~(Round \/ Latch \/ ApplyAdmit \/ Publish)
    BY <2>4 DEF Controller, NothingPending, Refuse, ApplyReadyAdvance, ApplyCancel, Reserve,
       Commit, StoreResult, StoreResponse, Acknowledge
  <2>5. CASE \E c \in Ports : Launch(c) \/ PortStep(c)
    BY <2>5 DEF Launch, PortStep, LaunchUpload, LaunchPoll, LoadPhase, Claim,
       StorePacket, StoreUnavailable, StorePending, ReadReply
  <2> QED
    BY <2>1, <2>2, <2>3, <2>4, <2>5 DEF Next
<1> QED
  BY <1>1, TypeCorrect, PTL DEF Spec, FirstCauseStays

-----------------------------------------------------------------------------
(* The answers hold.                                                       *)

\* Where a refused or accepted packet is on its way to its answer.
Replying == {"result", "response", "acknowledge"}
FocusKinds == {Admit, ReadyAdvance}

\* The focus is the one of the last accepted answer, and its epoch counts them;
\* or it has moved on, by the one packet that is being answered.
Settled ==
    /\ authority.epoch = 1 + Cardinality(FocusAnswers)
    /\ \A i \in FocusAnswers :
          (\A j \in FocusAnswers : j <= i) =>
              /\ answers[i].response.root = authority.root
              /\ answers[i].response.epoch = authority.epoch
Moved == authority.epoch = 2 + Cardinality(FocusAnswers)

\* A packet is applied only while nothing has stopped the search or cancelled it.
CausesOK ==
    /\ ctl.pc \in {"control", "reserve", "commit", "publish"} =>
          stop.first = 0 /\ ~authority.cancel
    /\ stop.first # 0 => stop.cause # 0 \/ authority.cancel \/ ctl.pc = "stopped"

\* The focus moves between the commit and the acknowledgement of one packet;
\* only a broken search leaves it moved without an answer that says so.
MovingOK ==
    /\ ctl.pc \in {"reserve", "commit", "publish"} => command.packet.kind \in FocusKinds
    /\ ctl.pc \in {"control", "reserve", "commit", "latch", "controller", "stopped"}
          => Settled \/ stop.first = 11
    /\ ctl.pc = "publish" => Moved
    /\ ctl.pc \in Replying =>
          \/ stop.first = 11
          \/ ctl.result = Accepted /\ command.packet.kind \in FocusKinds /\ Moved
          \/ ~(ctl.result = Accepted /\ command.packet.kind \in FocusKinds) /\ Settled
    /\ ctl.pc = "acknowledge" => /\ command.response.root = authority.root
                                 /\ command.response.epoch = authority.epoch

\* An accepted cancel is seen by the round that answers it.
CancelOK ==
    /\ ctl.pc \in Replying /\ ctl.result = Accepted /\ command.packet.kind = Cancel
          => authority.cancel
    /\ \A i \in 1 .. Len(answers) :
          answers[i].packet.kind = Cancel /\ answers[i].result = Accepted =>
              authority.cancel /\ i = Len(answers) /\ ctl.pc \in {"latch", "controller", "stopped"}

AnswersOK == CausesOK /\ MovingOK /\ CancelOK

\* What another answer makes of the accepted ones.
LEMMA OneMoreAnswer ==
    ASSUME answers \in Seq(Answers), NEW a \in Answers, answers' = Append(answers, a)
    PROVE  /\ Len(answers') = Len(answers) + 1 /\ answers'[Len(answers) + 1] = a
           /\ \A i \in 1 .. Len(answers) : answers'[i] = answers[i]
           /\ ~IsFocus(a) => FocusAnswers' = FocusAnswers
           /\ IsFocus(a) => /\ FocusAnswers' = FocusAnswers \cup {Len(answers) + 1}
                            /\ Cardinality(FocusAnswers') = Cardinality(FocusAnswers) + 1
           /\ Cardinality(FocusAnswers) \in Nat
           /\ \A i \in FocusAnswers : i \in 1 .. Len(answers)
<1>1. /\ Len(answers') = Len(answers) + 1 /\ answers'[Len(answers) + 1] = a
      /\ \A i \in 1 .. Len(answers) : answers'[i] = answers[i]
      /\ Len(answers) \in Nat
  OBVIOUS
<1>2. ~IsFocus(a) => FocusAnswers' = FocusAnswers
  BY <1>1 DEF FocusAnswers, IsFocus
<1>3. IsFocus(a) => FocusAnswers' = FocusAnswers \cup {Len(answers) + 1}
  BY <1>1 DEF FocusAnswers, IsFocus
<1>4. \A i \in FocusAnswers : i \in 1 .. Len(answers)
  BY DEF FocusAnswers
<1>5. IsFiniteSet(FocusAnswers)
  <2>1. IsFiniteSet(1 .. Len(answers))
    BY <1>1, FS_Interval
  <2>2. FocusAnswers \subseteq 1 .. Len(answers)
    BY <1>4
  <2> QED
    BY <2>1, <2>2, FS_Subset
<1>6. Cardinality(FocusAnswers) \in Nat
  BY <1>5, FS_CardinalityType
<1>7. Cardinality(FocusAnswers \cup {Len(answers) + 1}) = Cardinality(FocusAnswers) + 1
  <2>1. Len(answers) + 1 \notin FocusAnswers
    BY <1>1, <1>4
  <2> QED
    BY <1>5, <2>1, FS_AddElement
<1> QED
  BY <1>1, <1>2, <1>3, <1>4, <1>6, <1>7

\* With the answers, the root and the epoch, Settled and Moved stay as they are.
LEMMA SettledKept ==
    ASSUME UNCHANGED answers, authority'.root = authority.root, authority'.epoch = authority.epoch
    PROVE  Settled' = Settled /\ Moved' = Moved
<1>1. FocusAnswers' = FocusAnswers
  BY DEF FocusAnswers, IsFocus
<1> QED
  BY <1>1 DEF Settled, Moved

LEMMA CausesController ==
    ASSUME TypeOK, CausesOK, Controller PROVE CausesOK'
<1>1. /\ stop \in [cause: Nat, first: Nat]
      /\ ctl \in [pc: ControllerPcs, result: Results, target: Nat, rounds: 0 .. MaxRounds]
      /\ authority \in [root: Nat, epoch: Nat, publication: Nat, cancel: BOOLEAN]
  BY Words
<1>2. CASE NothingPending \/ Refuse \/ ApplyReadyAdvance \/ Reserve
  <2>1. /\ UNCHANGED <<authority, stop>>
        /\ ctl.pc \in {"control", "reserve"}
    BY <1>2 DEF NothingPending, Refuse, ApplyReadyAdvance, Screened, Reserve
  <2>2. ctl'.pc # "stopped"
    BY <1>2, GotoSets DEF NothingPending, Refuse, ApplyReadyAdvance, Reserve
  <2> QED
    BY <2>1, <2>2 DEF CausesOK
<1>3. CASE ApplyAdmit
  <2>1. UNCHANGED authority /\ ctl.pc = "control"
    BY <1>3 DEF ApplyAdmit, Screened
  <2>2. CASE UNCHANGED stop
    BY <2>1, <2>2 DEF CausesOK
  <2>3. CASE ~UNCHANGED stop
    <3>1. ctl'.pc = "result" /\ stop'.cause = 11
      BY <1>3, <2>3, GotoSets, StopSets DEF ApplyAdmit
    <3> QED
      BY <3>1 DEF CausesOK
  <2> QED
    BY <2>2, <2>3
<1>4. CASE ApplyCancel
  <2>1. authority'.cancel /\ ctl'.pc = "result"
    <3>1. authority' = [authority EXCEPT !.cancel = TRUE]
      BY <1>4 DEF ApplyCancel
    <3>2. ctl'.pc = "result"
      BY <1>4, GotoSets DEF ApplyCancel
    <3> QED
      BY <1>1, <3>1, <3>2
  <2> QED
    BY <2>1 DEF CausesOK
<1>5. CASE Commit
  <2>1. authority'.cancel = authority.cancel /\ UNCHANGED stop /\ ctl.pc = "commit"
    <3>1. authority' = [authority EXCEPT !.root = ctl.target, !.epoch = @ + 1]
      BY <1>5 DEF Commit
    <3>2. authority'.cancel = authority.cancel
      BY <1>1, <3>1
    <3> QED
      BY <1>5, <3>2 DEF Commit
  <2> QED
    BY <2>1 DEF CausesOK
<1>6. CASE Publish
  <2>1. ctl'.pc = "result" /\ ctl.pc = "publish"
    BY <1>6, GotoSets DEF Publish
  <2>2. UNCHANGED stop \/ stop'.cause = 11
    BY <1>6, StopSets DEF Publish
  <2> QED
    BY <2>1, <2>2 DEF CausesOK
<1>7. CASE StoreResult \/ StoreResponse \/ Acknowledge
  <2>1. UNCHANGED <<authority, stop>> /\ ctl.pc # "stopped"
        /\ ctl'.pc \in {"response", "latch", "acknowledge"}
    BY <1>1, <1>7 DEF StoreResult, StoreResponse, Acknowledge
  <2> QED
    BY <2>1 DEF CausesOK
<1>8. CASE Latch
  <2>1. UNCHANGED authority /\ stop' = Latched(stop) /\ ctl.pc = "latch" /\ ctl'.pc = "controller"
    BY <1>1, <1>8 DEF Latch
  <2>2. stop'.cause = stop.cause
        /\ (stop'.first # 0 => stop.first # 0 \/ stop.cause # 0 \/ authority.cancel)
    BY <1>1, <2>1, LatchedFirst
  <2> QED
    BY <2>1, <2>2 DEF CausesOK
<1>9. CASE Round
  <2>1. ctl.pc = "controller"
    BY <1>9 DEF Round
  <2> QED
    BY <1>9, <2>1, RoundStop DEF CausesOK
<1> QED
  BY <1>2, <1>3, <1>4, <1>5, <1>6, <1>7, <1>8, <1>9 DEF Controller

LEMMA MovingController ==
    ASSUME TypeOK, MailboxOK, CausesOK, MovingOK, Controller PROVE MovingOK'
<1>1. /\ command \in Mailboxes /\ answers \in Seq(Answers)
      /\ stop \in [cause: Nat, first: Nat]
      /\ ctl \in [pc: ControllerPcs, result: Results, target: Nat, rounds: 0 .. MaxRounds]
      /\ authority \in [root: Nat, epoch: Nat, publication: Nat, cancel: BOOLEAN]
  BY Words
<1>2. command'.packet = command.packet
  BY ControllerKeeps
<1>3. CASE NothingPending \/ Refuse \/ ApplyAdmit \/ ApplyReadyAdvance \/ ApplyCancel
  <2>1. ctl.pc = "control" /\ UNCHANGED <<command, answers>>
    BY <1>3 DEF NothingPending, Refuse, ApplyAdmit, ApplyReadyAdvance, ApplyCancel, Screened
  <2>2. authority'.root = authority.root /\ authority'.epoch = authority.epoch
    BY <1>1, <1>3 DEF NothingPending, Refuse, ApplyAdmit, ApplyReadyAdvance, ApplyCancel
  <2>3. Settled'
    BY <2>1, <2>2, SettledKept DEF CausesOK, MovingOK
  <2>4. ctl'.pc \in {"latch", "result", "reserve"}
    BY <1>3, GotoSets DEF NothingPending, Refuse, ApplyAdmit, ApplyReadyAdvance, ApplyCancel
  <2>5. ctl'.pc = "reserve" => command.packet.kind \in FocusKinds
    BY <1>3, GotoSets DEF NothingPending, Refuse, ApplyAdmit, ApplyReadyAdvance, ApplyCancel,
       Screened, FocusKinds
  <2>6. ctl'.pc = "result" => ~(ctl'.result = Accepted /\ command.packet.kind \in FocusKinds)
    <3>1. CASE Refuse \/ ApplyAdmit \/ ApplyReadyAdvance
      <4>1. ctl'.pc = "result" => ctl'.result # Accepted
        BY <3>1, GotoSets, Codes DEF Refuse, ApplyAdmit, ApplyReadyAdvance
      <4> QED
        BY <4>1
    <3>2. CASE ApplyCancel
      BY <3>2, Codes DEF ApplyCancel, Screened, FocusKinds
    <3>3. CASE NothingPending
      BY <3>3, GotoSets DEF NothingPending
    <3> QED
      BY <1>3, <3>1, <3>2, <3>3
  <2> QED
    BY <1>2, <2>3, <2>4, <2>5, <2>6 DEF MovingOK, Replying
<1>4. CASE Reserve
  <2>1. ctl.pc = "reserve" /\ UNCHANGED <<command, answers, authority, stop>>
    BY <1>4 DEF Reserve
  <2>2. Settled' /\ command.packet.kind \in FocusKinds
    BY <2>1, SettledKept DEF CausesOK, MovingOK
  <2>3. ctl'.pc = "commit" \/ (ctl'.pc = "result" /\ ctl'.result # Accepted)
    BY <1>4, GotoSets, Codes DEF Reserve
  <2> QED
    BY <1>2, <2>2, <2>3 DEF MovingOK, Replying
<1>5. CASE Commit
  <2>1. ctl.pc = "commit" /\ UNCHANGED <<answers, stop>> /\ ctl'.pc = "publish"
    BY <1>5, GotoSets DEF Commit
  <2>2. authority' = [authority EXCEPT !.root = ctl.target, !.epoch = @ + 1]
    BY <1>5 DEF Commit
  <2>3. authority'.epoch = authority.epoch + 1
    BY <1>1, <2>2
  <2>4. Settled /\ command.packet.kind \in FocusKinds
    BY <2>1 DEF CausesOK, MovingOK
  <2>5. Moved'
    <3>1. FocusAnswers' = FocusAnswers
      BY <2>1 DEF FocusAnswers, IsFocus
    <3>2. authority.epoch = 1 + Cardinality(FocusAnswers)
      BY <2>4 DEF Settled
    <3>3. Cardinality(FocusAnswers) \in Nat
      <4>1. IsFiniteSet(1 .. Len(answers)) /\ FocusAnswers \subseteq 1 .. Len(answers)
        BY <1>1, FS_Interval DEF FocusAnswers
      <4> QED
        BY <4>1, FS_Subset, FS_CardinalityType
    <3> QED
      BY <2>3, <3>1, <3>2, <3>3 DEF Moved
  <2> QED
    BY <1>2, <2>1, <2>4, <2>5 DEF MovingOK, Replying
<1>6. CASE Publish
  <2>1. /\ ctl.pc = "publish" /\ UNCHANGED <<answers, command>> /\ ctl'.pc = "result"
        /\ authority'.root = authority.root /\ authority'.epoch = authority.epoch
    BY <1>1, <1>6, GotoSets DEF Publish
  <2>2. ctl'.result = Accepted \/ stop'.first = 11
    <3>1. stop.first = 0
      BY <2>1 DEF CausesOK
    <3> QED
      BY <1>6, <3>1, GotoSets, StopSets DEF Publish
  <2>3. Moved' /\ command.packet.kind \in FocusKinds
    BY <2>1, SettledKept DEF MovingOK
  <2> QED
    BY <1>2, <2>1, <2>2, <2>3 DEF MovingOK, Replying
<1>7. CASE StoreResult \/ StoreResponse
  <2>1. /\ ctl.pc \in Replying /\ UNCHANGED <<answers, authority, stop>>
        /\ ctl'.result = ctl.result
    BY <1>1, <1>7 DEF StoreResult, StoreResponse, Replying
  <2>2. Settled' = Settled /\ Moved' = Moved
    BY <2>1, SettledKept
  <2>3. \/ ctl'.pc = "response"
        \/ ctl'.pc = "latch" /\ ctl.result = Pressure
        \/ ctl'.pc = "acknowledge" /\ command' = [command EXCEPT !.response = Focus]
    BY <1>1, <1>7 DEF StoreResult, StoreResponse
  <2>4. ctl'.pc = "acknowledge" => /\ command'.response.root = authority.root
                                   /\ command'.response.epoch = authority.epoch
    <3>1. command' = [command EXCEPT !.response = Focus] => command'.response = Focus
      BY <1>1 DEF Mailboxes
    <3> QED
      BY <2>3, <3>1 DEF Focus
  <2> QED
    BY <1>2, <2>1, <2>2, <2>3, <2>4, Codes DEF MovingOK, Replying
<1>8. CASE Acknowledge
  <2> DEFINE a == [packet |-> command.packet, result |-> ctl.result, response |-> command.response]
  <2>1. /\ ctl.pc = "acknowledge" /\ ctl'.pc = "latch" /\ UNCHANGED <<authority, stop>>
        /\ answers' = Append(answers, a)
    BY <1>1, <1>8 DEF Acknowledge
  <2>2. a \in Answers /\ a.packet = command.packet /\ a.result = ctl.result /\ a.response = command.response
    BY <1>1 DEF Answers, Mailboxes
  <2>3. /\ Len(answers') = Len(answers) + 1 /\ answers'[Len(answers) + 1] = a
        /\ \A i \in 1 .. Len(answers) : answers'[i] = answers[i]
        /\ ~IsFocus(a) => FocusAnswers' = FocusAnswers
        /\ IsFocus(a) => /\ FocusAnswers' = FocusAnswers \cup {Len(answers) + 1}
                         /\ Cardinality(FocusAnswers') = Cardinality(FocusAnswers) + 1
        /\ Cardinality(FocusAnswers) \in Nat
        /\ \A i \in FocusAnswers : i \in 1 .. Len(answers)
    <3> HIDE DEF a
    <3> QED
      BY <1>1, <2>1, <2>2, OneMoreAnswer
  <2>4. IsFocus(a) <=> ctl.result = Accepted /\ command.packet.kind \in FocusKinds
    BY <2>2 DEF IsFocus, FocusKinds
  <2>5. SUFFICES ASSUME stop.first # 11 PROVE Settled'
    BY <2>1 DEF MovingOK, Replying
  <2>6. CASE IsFocus(a)
    <3>1. authority'.epoch = 1 + Cardinality(FocusAnswers')
      BY <2>1, <2>3, <2>4, <2>5, <2>6 DEF MovingOK, Replying, Moved
    <3>2. ASSUME NEW i \in FocusAnswers', \A j \in FocusAnswers' : j <= i
          PROVE  /\ answers'[i].response.root = authority'.root
                 /\ answers'[i].response.epoch = authority'.epoch
      <4>1. i = Len(answers) + 1
        <5>1. Len(answers) + 1 <= i /\ Len(answers) \in Nat
          BY <1>1, <2>3, <2>6, <3>2
        <5> QED
          BY <2>3, <2>6, <5>1
      <4> QED
        BY <2>1, <2>2, <2>3, <4>1 DEF MovingOK
    <3> QED
      BY <3>1, <3>2 DEF Settled
  <2>7. CASE ~IsFocus(a)
    <3>1. Settled
      BY <2>1, <2>4, <2>5, <2>7 DEF MovingOK, Replying
    <3> QED
      BY <2>1, <2>3, <2>7, <3>1 DEF Settled
  <2> QED
    BY <2>6, <2>7
<1>9. CASE Latch \/ Round
  <2>1. /\ ctl.pc \in {"latch", "controller"} /\ UNCHANGED <<command, answers>>
        /\ ctl'.pc \in {"control", "controller", "stopped"}
        /\ authority'.root = authority.root /\ authority'.epoch = authority.epoch
    BY <1>1, <1>9, RoundStop DEF Latch, Round
  <2>2. stop.first = 11 => stop'.first = 11
    BY <1>1, <1>9, RoundStop, LatchedFirst DEF Latch
  <2>3. Settled' \/ stop'.first = 11
    BY <2>1, <2>2, SettledKept DEF MovingOK
  <2> QED
    BY <2>1, <2>3 DEF MovingOK, Replying
<1> QED
  BY <1>3, <1>4, <1>5, <1>6, <1>7, <1>8, <1>9 DEF Controller

LEMMA CancelController ==
    ASSUME TypeOK, MovingOK, CausesOK, CancelOK, Controller PROVE CancelOK'
<1>1. /\ command \in Mailboxes /\ answers \in Seq(Answers)
      /\ ctl \in [pc: ControllerPcs, result: Results, target: Nat, rounds: 0 .. MaxRounds]
      /\ authority \in [root: Nat, epoch: Nat, publication: Nat, cancel: BOOLEAN]
  BY Words
<1>2. command'.packet = command.packet
  BY ControllerKeeps
<1>3. CASE Acknowledge
  <2> DEFINE a == [packet |-> command.packet, result |-> ctl.result, response |-> command.response]
  <2>1. /\ ctl.pc = "acknowledge" /\ ctl'.pc = "latch" /\ UNCHANGED authority
        /\ answers' = Append(answers, a)
    BY <1>1, <1>3 DEF Acknowledge
  <2>2. a \in Answers /\ a.packet = command.packet /\ a.result = ctl.result
    BY <1>1 DEF Answers, Mailboxes
  <2>3. /\ Len(answers') = Len(answers) + 1 /\ answers'[Len(answers) + 1] = a
        /\ \A i \in 1 .. Len(answers) : answers'[i] = answers[i]
        /\ Len(answers) \in Nat
    <3> HIDE DEF a
    <3> QED
      BY <1>1, <2>1, <2>2
  <2>4. \A i \in 1 .. Len(answers) : ~(answers[i].packet.kind = Cancel /\ answers[i].result = Accepted)
    BY <2>1 DEF CancelOK
  <2>5. a.packet.kind = Cancel /\ a.result = Accepted => authority.cancel
    BY <2>1, <2>2 DEF CancelOK, Replying
  <2>6. ASSUME NEW i \in 1 .. Len(answers'), answers'[i].packet.kind = Cancel, answers'[i].result = Accepted
        PROVE  authority.cancel /\ i = Len(answers')
    <3>1. i = Len(answers) + 1
      BY <2>3, <2>4, <2>6
    <3> HIDE DEF a
    <3> QED
      BY <2>3, <2>5, <2>6, <3>1
  <2> QED
    BY <2>1, <2>6 DEF CancelOK, Replying
<1>4. CASE ~Acknowledge
  <2>1. UNCHANGED answers /\ (authority.cancel => authority'.cancel)
    BY <1>1, <1>4, RoundStop DEF Controller, NothingPending, Refuse, ApplyAdmit, ApplyReadyAdvance,
       ApplyCancel, Reserve, Commit, Publish, StoreResult, StoreResponse, Latch, Round
  <2>2. ctl.pc \in {"latch", "controller"} /\ authority.cancel => ctl'.pc \in {"controller", "stopped"}
    <3>1. CASE Latch
      BY <1>1, <3>1 DEF Latch
    <3>2. CASE Round
      BY <3>2, RoundStop
    <3>3. CASE ~(Latch \/ Round)
      BY <3>3, <1>4 DEF Controller, NothingPending, Refuse, ApplyAdmit, ApplyReadyAdvance,
         ApplyCancel, Screened, Reserve, Commit, Publish, StoreResult, StoreResponse
    <3> QED
      BY <3>1, <3>2, <3>3
  <2>3. ctl.pc # "stopped"
    BY DEF Controller, NothingPending, Refuse, ApplyAdmit, ApplyReadyAdvance, ApplyCancel, Screened,
       Reserve, Commit, Publish, StoreResult, StoreResponse, Acknowledge, Latch, Round
  <2>4. \A i \in 1 .. Len(answers) :
           answers[i].packet.kind = Cancel /\ answers[i].result = Accepted =>
              authority'.cancel /\ i = Len(answers) /\ ctl'.pc \in {"latch", "controller", "stopped"}
    BY <2>1, <2>2, <2>3 DEF CancelOK
  <2>5. ctl'.pc \in Replying /\ ctl'.result = Accepted /\ command.packet.kind = Cancel => authority'.cancel
    <3>1. CASE ApplyCancel
      <4>1. authority' = [authority EXCEPT !.cancel = TRUE]
        BY <3>1 DEF ApplyCancel
      <4> QED
        BY <1>1, <4>1
    <3>2. CASE NothingPending \/ Refuse \/ ApplyAdmit \/ ApplyReadyAdvance
      BY <3>2, GotoSets, Codes DEF NothingPending, Refuse, ApplyAdmit, ApplyReadyAdvance, Replying
    <3>3. CASE Reserve \/ Commit \/ Publish
      <4>1. command.packet.kind # Cancel
        BY <3>3, Codes DEF Reserve, Commit, Publish, MovingOK, FocusKinds
      <4> QED
        BY <4>1
    <3>4. CASE StoreResult \/ StoreResponse
      <4>1. ctl.pc \in Replying /\ ctl'.result = ctl.result /\ UNCHANGED authority
        BY <1>1, <3>4 DEF StoreResult, StoreResponse, Replying
      <4> QED
        BY <4>1 DEF CancelOK
    <3>5. CASE Latch \/ Round
      BY <1>1, <3>5, RoundStop DEF Latch, Replying
    <3> QED
      BY <1>4, <3>1, <3>2, <3>3, <3>4, <3>5 DEF Controller
  <2> QED
    BY <1>2, <2>1, <2>4, <2>5 DEF CancelOK
<1> QED
  BY <1>3, <1>4

LEMMA AnswersPort ==
    ASSUME TypeOK, MailboxOK, AnswersOK, NEW c \in Ports, PortStep(c) \/ Launch(c) PROVE AnswersOK'
<1>1. UNCHANGED <<authority, ctl, stop, answers>>
  BY PortKeeps
<1>2. ctl.pc \in {"reserve", "commit", "publish"} \cup Replying => UNCHANGED command
  BY PortKeeps DEF MailboxOK, Applying, Replying
<1>3. Settled' = Settled /\ Moved' = Moved
  BY <1>1, SettledKept
<1>4. CausesOK'
  BY <1>1 DEF AnswersOK, CausesOK
<1>5. MovingOK'
  <2>1. ctl.pc = "acknowledge" => UNCHANGED command
    BY <1>2 DEF Replying
  <2>2. ctl.pc \in Replying => UNCHANGED command
    BY <1>2
  <2> QED
    BY <1>1, <1>2, <1>3, <2>1, <2>2 DEF AnswersOK, MovingOK
<1>6. CancelOK'
  BY <1>1, <1>2 DEF AnswersOK, CancelOK
<1> QED
  BY <1>4, <1>5, <1>6 DEF AnswersOK

LEMMA AnswersStutter == ASSUME AnswersOK, UNCHANGED vars PROVE AnswersOK'
<1>1. Settled' = Settled /\ Moved' = Moved
  BY SettledKept DEF vars
<1> QED
  BY <1>1 DEF AnswersOK, CausesOK, MovingOK, CancelOK, vars

LEMMA AnswersInit == ASSUME Init PROVE AnswersOK
<1>1. PICK t \in Targets : authority = [root |-> t, epoch |-> 1, publication |-> 1, cancel |-> FALSE]
  BY DEF Init
<1>2. FocusAnswers = {}
  BY DEF Init, FocusAnswers
<1>3. Cardinality(FocusAnswers) = 0
  BY <1>2, FS_EmptySet
<1>4. Settled
  BY <1>1, <1>2, <1>3 DEF Settled
<1> QED
  BY <1>1, <1>4 DEF Init, AnswersOK, CausesOK, MovingOK, CancelOK, Replying

LEMMA AnswersInvariant == Spec => [](IInv /\ AnswersOK)
<1>1. Init => IInv /\ AnswersOK
  BY InitInv, AnswersInit
<1>2. IInv /\ AnswersOK /\ [Next]_vars => IInv' /\ AnswersOK'
  <2> SUFFICES ASSUME IInv, AnswersOK, [Next]_vars PROVE IInv' /\ AnswersOK'
    OBVIOUS
  <2>1. TypeOK /\ RoundsLeft /\ MailboxOK
    BY DEF IInv
  <2>2. CASE Controller
    <3>1. IInv'
      BY <2>1, <2>2, ControllerType, RoundsStep, MailboxController DEF IInv, Next
    <3>2. AnswersOK'
      BY <2>1, <2>2, CausesController, MovingController, CancelController DEF AnswersOK
    <3> QED
      BY <3>1, <3>2
  <2>3. CASE \E c \in Ports : Launch(c) \/ PortStep(c)
    <3>1. IInv'
      BY <2>1, <2>3, PortType, RoundsStep, MailboxPort DEF IInv, Next
    <3>2. AnswersOK'
      BY <2>1, <2>3, AnswersPort
    <3> QED
      BY <3>1, <3>2
  <2>4. CASE UNCHANGED vars
    BY <2>4, StutterInv, AnswersStutter
  <2> QED
    BY <2>2, <2>3, <2>4 DEF Next
<1> QED
  BY <1>1, <1>2, PTL DEF Spec

\* What was answered holds: between packets the focus is the one of the last
\* accepted answer, unless the search is broken, and a refused packet moved
\* nothing; after an accepted cancel no packet is applied or answered.
THEOREM AnswersAreKept == Spec => []AnswersHold
<1>1. TypeOK /\ AnswersOK => AnswersHold
  <2> SUFFICES ASSUME TypeOK, AnswersOK PROVE AnswersHold
    OBVIOUS
  <2>1. ctl.pc \in ControllerPcs
    BY Words
  <2>2. FocusIsLastAccepted
    BY <2>1 DEF AnswersOK, MovingOK, FocusIsLastAccepted, Settled, ControllerPcs
  <2>3. CancelIsLast
    BY DEF AnswersOK, CancelOK, CancelIsLast
  <2> QED
    BY <2>2, <2>3 DEF AnswersHold
<1> QED
  BY <1>1, AnswersInvariant, TypeCorrect, PTL

-----------------------------------------------------------------------------
(* The reply.                                                              *)

\* The words of an acknowledged mailbox are those of the last answer.
LastAnswer ==
    /\ ctl.pc \in {"response", "acknowledge"} => command.result = ctl.result
    /\ command.phase = Acknowledged =>
          /\ Len(answers) > 0
          /\ answers[Len(answers)] = [packet |-> command.packet, result |-> command.result,
                                      response |-> command.response]

\* A kernel that read the acknowledged phase reads on in that mailbox.
ReadOK ==
    \A c \in Ports :
        port[c].pc \in {"result", "packet", "response"} /\ port[c].reply.phase = Acknowledged =>
            /\ command.phase = Acknowledged
            /\ port[c].pc # "result" => port[c].reply.result = command.result
            /\ port[c].pc = "response" => port[c].reply.packet = command.packet

ReplyOK == LastAnswer /\ ReadOK /\ ReplyIsAnAnswer

\* One word of the reply is read, the others stay.
LEMMA ReadsOneWord ==
    ASSUME TypeOK, NEW c \in Ports, ReadReply(c)
    PROVE  /\ port[c].pc \in {"phase", "result", "packet", "response"}
           /\ port'[c].pc = ReadNext[port[c].pc]
           /\ port'[c].reply.phase =
                 IF port[c].pc = "phase" THEN command.phase ELSE port[c].reply.phase
           /\ port'[c].reply.result =
                 IF port[c].pc = "result" THEN command.result ELSE port[c].reply.result
           /\ port'[c].reply.packet =
                 IF port[c].pc = "packet" THEN command.packet ELSE port[c].reply.packet
           /\ port'[c].reply.response =
                 IF port[c].pc = "response" THEN command.response ELSE port[c].reply.response
           /\ \A d \in Ports \ {c} : port'[d] = port[d]
           /\ UNCHANGED <<command, answers>>
<1> DEFINE w == port[c].pc
           r == port[c].reply
           k == [port[c] EXCEPT !.reply = [r EXCEPT ![w] = command[w]], !.pc = ReadNext[w]]
<1>1. /\ port \in [Ports -> [pc: PortPcs, packet: Packets, loaded: {Empty, Acknowledged},
                             reply: Mailboxes, result: {0, Pressure}]]
      /\ command \in Mailboxes /\ r \in Mailboxes
  BY DEF TypeOK
<1>2. w \in {"phase", "result", "packet", "response"}
  BY DEF ReadReply, ReadNext
<1>3. port' = [port EXCEPT ![c] = k]
  BY <1>1, <1>2 DEF ReadReply
<1>4. port'[c] = k /\ \A d \in Ports \ {c} : port'[d] = port[d]
  BY <1>1, <1>3
<1>5. k.pc = ReadNext[w] /\ k.reply = [r EXCEPT ![w] = command[w]]
  BY <1>1
<1> DEFINE q == [r EXCEPT ![w] = command[w]]
<1>6. /\ q.phase = IF w = "phase" THEN command.phase ELSE r.phase
      /\ q.result = IF w = "result" THEN command.result ELSE r.result
      /\ q.packet = IF w = "packet" THEN command.packet ELSE r.packet
      /\ q.response = IF w = "response" THEN command.response ELSE r.response
  <2>1. PICK x \in Mailboxes, m \in Mailboxes : x = r /\ m = command
    BY <1>1
  <2>2. \A v \in {"phase", "result", "packet", "response"} :
           LET y == [x EXCEPT ![v] = m[v]]
           IN  /\ y.phase = IF v = "phase" THEN m.phase ELSE x.phase
               /\ y.result = IF v = "result" THEN m.result ELSE x.result
               /\ y.packet = IF v = "packet" THEN m.packet ELSE x.packet
               /\ y.response = IF v = "response" THEN m.response ELSE x.response
    BY DEF Mailboxes
  <2> QED
    BY <1>2, <2>1, <2>2
<1> QED
  BY <1>2, <1>4, <1>5, <1>6 DEF ReadReply

LEMMA ReplyPort ==
    ASSUME TypeOK, MailboxOK, ReplyOK, \A c, d \in Ports : c = d,
           NEW c \in Ports, PortStep(c) \/ Launch(c)
    PROVE  ReplyOK'
<1>1. UNCHANGED <<ctl, answers>> /\ (command.phase = Pending => UNCHANGED command)
  BY PortKeeps
<1>2. command \in Mailboxes /\ port[c].pc \in PortPcs
  BY DEF TypeOK
<1>3. \A pc : At(c, pc) => port'[c].pc = pc
  BY DEF At, TypeOK
<1>4. \A result : ReadFrom(c, result) => port'[c].pc = "phase"
  BY DEF ReadFrom, TypeOK
<1>5. \A d \in Ports : d = c
  OBVIOUS
<1>6. ASSUME port'[c].pc \notin {"result", "packet", "response", "done"} PROVE ReadOK' /\ ReplyIsAnAnswer'
  BY <1>5, <1>6 DEF ReadOK, ReplyIsAnAnswer
<1>7. ASSUME UNCHANGED command PROVE LastAnswer'
  BY <1>1, <1>7 DEF ReplyOK, LastAnswer
<1>8. CASE LaunchUpload(c)
  <2>1. port'[c].pc = "load" /\ UNCHANGED command
    BY <1>8 DEF LaunchUpload, TypeOK
  <2> QED
    BY <1>6, <1>7, <2>1 DEF ReplyOK
<1>9. CASE LaunchPoll(c)
  BY <1>4, <1>6, <1>7, <1>9 DEF LaunchPoll, ReplyOK
<1>10. CASE LoadPhase(c)
  <2>1. port'[c].pc \in {"claim", "phase"} /\ UNCHANGED command
    BY <1>4, <1>10 DEF LoadPhase, TypeOK
  <2> QED
    BY <1>6, <1>7, <2>1 DEF ReplyOK
<1>11. CASE Claim(c) \/ StorePacket(c) \/ StoreUnavailable(c) \/ StorePending(c)
  <2>1. port'[c].pc \in {"storePacket", "storeUnavailable", "storePending", "phase"}
    BY <1>3, <1>4, <1>11 DEF Claim, StorePacket, StoreUnavailable, StorePending
  <2>2. UNCHANGED command \/ (command'.phase # Acknowledged /\ ctl.pc \notin Applying)
    <3>1. CASE Claim(c)
      <4>1. command' = [command EXCEPT !.phase = Uploading] => command'.phase = Uploading
        BY <1>2 DEF Mailboxes
      <4> QED
        BY <1>1, <3>1, <4>1, Codes DEF Claim, MailboxOK
    <3>2. CASE StorePacket(c) \/ StoreUnavailable(c) \/ StorePending(c)
      <4>1. command.phase = Uploading
        BY <3>2 DEF MailboxOK, OneWriter, Writes, StorePacket, StoreUnavailable, StorePending
      <4>2. command'.phase \in {Uploading, Pending}
        BY <1>2, <3>2, <4>1 DEF StorePacket, StoreUnavailable, StorePending, Mailboxes
      <4> QED
        BY <4>1, <4>2, Codes DEF MailboxOK
    <3> QED
      BY <1>11, <3>1, <3>2
  <2>3. LastAnswer'
    BY <1>1, <1>7, <2>2 DEF LastAnswer, Applying
  <2> QED
    BY <1>6, <2>1, <2>3 DEF ReplyOK
<1>12. CASE ReadReply(c)
  <2>1. /\ port[c].pc \in {"phase", "result", "packet", "response"}
        /\ port'[c].pc = ReadNext[port[c].pc]
        /\ port'[c].reply.phase =
              IF port[c].pc = "phase" THEN command.phase ELSE port[c].reply.phase
        /\ port'[c].reply.result =
              IF port[c].pc = "result" THEN command.result ELSE port[c].reply.result
        /\ port'[c].reply.packet =
              IF port[c].pc = "packet" THEN command.packet ELSE port[c].reply.packet
        /\ port'[c].reply.response =
              IF port[c].pc = "response" THEN command.response ELSE port[c].reply.response
        /\ UNCHANGED <<command, answers>>
    BY <1>12, ReadsOneWord
  <2>2. ReadOK'
    BY <1>5, <2>1 DEF ReplyOK, ReadOK, ReadNext
  <2>3. ReplyIsAnAnswer'
    <3>1. SUFFICES ASSUME port'[c].pc = "done", port'[c].reply.phase = Acknowledged
                   PROVE  \E i \in 1 .. Len(answers) :
                             answers[i] = [packet |-> port'[c].reply.packet,
                                           result |-> port'[c].reply.result,
                                           response |-> port'[c].reply.response]
      BY <1>1, <1>5 DEF ReplyIsAnAnswer
    <3>2. port[c].pc = "response"
      BY <2>1, <3>1 DEF ReadNext
    <3>3. /\ command.phase = Acknowledged /\ port'[c].reply.result = command.result
          /\ port'[c].reply.packet = command.packet /\ port'[c].reply.response = command.response
      BY <2>1, <3>1, <3>2 DEF ReplyOK, ReadOK
    <3>4. /\ Len(answers) > 0
          /\ answers[Len(answers)] = [packet |-> command.packet, result |-> command.result,
                                      response |-> command.response]
      BY <3>3 DEF ReplyOK, LastAnswer
    <3>5. Len(answers) \in 1 .. Len(answers)
      BY <3>4, Words
    <3> QED
      BY <3>3, <3>4, <3>5
  <2> QED
    BY <1>7, <2>1, <2>2, <2>3 DEF ReplyOK
<1> QED
  BY <1>8, <1>9, <1>10, <1>11, <1>12 DEF PortStep, Launch

LEMMA ReplyController ==
    ASSUME TypeOK, MailboxOK, ReplyOK, Controller PROVE ReplyOK'
<1>1. /\ command \in Mailboxes /\ answers \in Seq(Answers)
      /\ ctl \in [pc: ControllerPcs, result: Results, target: Nat, rounds: 0 .. MaxRounds]
  BY Words
<1>2. UNCHANGED port
  BY ControllerKeeps
<1>3. CASE StoreResult \/ StoreResponse \/ Acknowledge
  <2>1. command.phase = Pending
    BY <1>3 DEF StoreResult, StoreResponse, Acknowledge, MailboxOK, Applying
  <2>2. ReadOK'
    BY <1>2, <2>1, Codes DEF ReplyOK, ReadOK
  <2>3. CASE StoreResult
    <3>1. /\ command'.phase = Pending /\ command'.result = ctl'.result
      BY <1>1, <2>1, <2>3 DEF StoreResult, Mailboxes
    <3>2. LastAnswer'
      BY <3>1, Codes DEF LastAnswer
    <3>3. ReplyIsAnAnswer'
      BY <1>2, <2>3 DEF StoreResult, ReplyOK, ReplyIsAnAnswer
    <3> QED
      BY <2>2, <3>2, <3>3 DEF ReplyOK
  <2>4. CASE StoreResponse
    <3>1. /\ command'.phase = Pending /\ command'.result = command.result /\ ctl'.result = ctl.result
          /\ ctl.pc = "response"
      BY <1>1, <2>1, <2>4 DEF StoreResponse, Mailboxes
    <3>2. LastAnswer'
      BY <3>1, Codes DEF ReplyOK, LastAnswer
    <3>3. ReplyIsAnAnswer'
      BY <1>2, <2>4 DEF StoreResponse, ReplyOK, ReplyIsAnAnswer
    <3> QED
      BY <2>2, <3>2, <3>3 DEF ReplyOK
  <2>5. CASE Acknowledge
    <3> DEFINE a == [packet |-> command.packet, result |-> ctl.result, response |-> command.response]
    <3>1. /\ command' = [command EXCEPT !.phase = Acknowledged] /\ ctl'.pc = "latch"
          /\ answers' = Append(answers, a) /\ ctl.pc = "acknowledge"
      BY <1>1, <2>5 DEF Acknowledge
    <3>2. /\ command'.packet = command.packet /\ command'.result = command.result
          /\ command'.response = command.response
      BY <1>1, <3>1 DEF Mailboxes
    <3>3. a \in Answers
      BY <1>1 DEF Answers, Mailboxes
    <3>4. /\ Len(answers') = Len(answers) + 1 /\ answers'[Len(answers) + 1] = a
          /\ \A i \in 1 .. Len(answers) : answers'[i] = answers[i]
          /\ Len(answers) \in Nat
      <4> HIDE DEF a
      <4> QED
        BY <1>1, <3>1, <3>3
    <3>5. command.result = ctl.result
      BY <3>1 DEF ReplyOK, LastAnswer
    <3>6. LastAnswer'
      BY <3>1, <3>2, <3>4, <3>5 DEF LastAnswer
    <3>7. ReplyIsAnAnswer'
      <4>1. \A i \in 1 .. Len(answers) : i \in 1 .. Len(answers') /\ answers'[i] = answers[i]
        BY <3>4
      <4> QED
        BY <1>2, <4>1 DEF ReplyOK, ReplyIsAnAnswer
    <3> QED
      BY <2>2, <3>6, <3>7 DEF ReplyOK
  <2> QED
    BY <1>3, <2>3, <2>4, <2>5
<1>4. CASE ~(StoreResult \/ StoreResponse \/ Acknowledge)
  <2>1. UNCHANGED <<command, answers>>
    BY <1>4 DEF Controller, NothingPending, Refuse, Screened, ApplyAdmit, ApplyReadyAdvance,
       ApplyCancel, Reserve, Commit, Publish, Latch, Round
  <2>2. ctl'.pc \notin {"response", "acknowledge"}
    <3>1. CASE Latch \/ Round
      BY <1>1, <3>1, RoundStop DEF Latch
    <3> QED
      BY <1>4, <3>1, GotoSets DEF Controller, NothingPending, Refuse, ApplyAdmit, ApplyReadyAdvance,
         ApplyCancel, Reserve, Commit, Publish
  <2> QED
    BY <1>2, <2>1, <2>2 DEF ReplyOK, LastAnswer, ReadOK, ReplyIsAnAnswer
<1> QED
  BY <1>3, <1>4

\* With one command kernel at a time, a reply that shows the acknowledged phase
\* is the answer of one packet, result and focus together, although the
\* controller goes on while the words are read one by one.
THEOREM ReplyIsWhole ==
    ASSUME \A c, d \in Ports : c = d PROVE Spec => []ReplyIsAnAnswer
<1> DEFINE Inv == IInv /\ ReplyOK
<1>1. Init => Inv
  <2> SUFFICES ASSUME Init PROVE ReplyOK
    BY InitInv
  <2>1. command.phase # Acknowledged
    BY Codes DEF Init, NoReply
  <2> QED
    BY <2>1 DEF Init, ReplyOK, LastAnswer, ReadOK, ReplyIsAnAnswer
<1>2. Inv /\ [Next]_vars => Inv'
  <2> SUFFICES ASSUME Inv, [Next]_vars PROVE Inv'
    OBVIOUS
  <2>1. TypeOK /\ RoundsLeft /\ MailboxOK
    BY DEF IInv
  <2>2. CASE Controller
    <3>1. IInv'
      BY <2>1, <2>2, ControllerType, RoundsStep, MailboxController DEF IInv, Next
    <3>2. ReplyOK'
      BY <2>1, <2>2, ReplyController
    <3> QED
      BY <3>1, <3>2
  <2>3. CASE \E c \in Ports : Launch(c) \/ PortStep(c)
    <3>1. IInv'
      BY <2>1, <2>3, PortType, RoundsStep, MailboxPort DEF IInv, Next
    <3>2. ReplyOK'
      BY <2>1, <2>3, ReplyPort
    <3> QED
      BY <3>1, <3>2
  <2>4. CASE UNCHANGED vars
    <3>1. ReplyOK'
      BY <2>4 DEF ReplyOK, LastAnswer, ReadOK, ReplyIsAnAnswer, vars
    <3> QED
      BY <2>4, <3>1, StutterInv
  <2> QED
    BY <2>2, <2>3, <2>4 DEF Next
<1>3. Inv => ReplyIsAnAnswer
  BY DEF ReplyOK
<1> HIDE DEF Inv
<1> QED
  BY <1>1, <1>2, <1>3, PTL DEF Spec
=============================================================================
