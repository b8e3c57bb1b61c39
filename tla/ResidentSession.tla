--------------------------- MODULE ResidentSession ---------------------------
(***************************************************************************)
(* The command port of the resident search: a one-place mailbox in device  *)
(* memory.  Command kernels, launched by the host at any time, upload a    *)
(* packet or read the reply words; the controller applies a pending packet *)
(* at the start of each of its rounds, and leaves it pending under         *)
(* pressure.                                                               *)
(*                                                                         *)
(* Source: components/search-compiler/src/resident-session-output.mjs      *)
(* (external, apply, equal128, newer128) and the control and controller    *)
(* entries of resident-entries.mjs.  Graph admission, the Output's         *)
(* reservation and publication and the Progress owner are seen through     *)
(* their results only.                                                     *)
(***************************************************************************)
EXTENDS Integers, Sequences, FiniteSets

CONSTANTS
    Ports,            \* command kernels that may run at the same time
    Requests,         \* the packets the host may stage
    Targets,          \* roots a graph admission or a ready child may name
    Width,            \* words of an identity or a generation, 4 in the code
    MaxEpoch,         \* stands for 4294967294, where focus changes are refused
    MaxPublication,   \* stands for 4294967294, where publication is refused
    MaxRounds,        \* the continuation's bound on its rounds
    MaxUploads        \* bound of the model on staged uploads

\* Command layout: phases, kinds and results (residentCommandLayout)
Empty == 0
Uploading == 1
Pending == 2
Acknowledged == 3

Admit == 1
ReadyAdvance == 2
Cancel == 3

Accepted == 0
Invalid == 1
Pressure == 2
Unavailable == 3
Duplicate == 4
Stale == 5
AdvanceNotReady == 6
InvalidRoot == 7
Conflict == 8
GenerationExhausted == 9
Quarantined == 10

Wide == [1 .. Width -> Nat]
Zero == [w \in 1 .. Width |-> 0]

\* An expected focus is the epoch it was given under; 0 stands for a root, a
\* generation or an epoch that never was the focus.
ASSUME SessionAssumption ==
    /\ Width \in Nat \ {0}
    /\ Requests \subseteq [kind: Nat, arena: BOOLEAN, expected: Nat, id: Wide, generation: Wide]
    /\ Targets \subseteq Nat /\ Targets # {}
    /\ {MaxEpoch, MaxPublication, MaxRounds, MaxUploads} \subseteq Nat \ {0}

VARIABLES
    command,    \* the mailbox words
    port,       \* each command kernel: program counter, packet and reply
    authority,  \* the focus and publication words, and the cancel word 16
    identity,   \* m[64..71]: the last identity and generation recorded
    ctl,        \* the controller: program counter and locals of apply
    stop,       \* m[17] and the latched first cause m[82]
    uploads,    \* history: packets made pending, in order
    answers     \* history: what each was acknowledged with, in order

vars == <<command, port, authority, identity, ctl, stop, uploads, answers>>

\* equal128 compares every word, newer128 the highest word that differs.
Equal128(g, h) == \A w \in 1 .. Width : g[w] = h[w]
Newer128(g, h) ==
    \E w \in 1 .. Width : g[w] > h[w] /\ \A v \in w + 1 .. Width : g[v] = h[v]

None == [kind |-> 0, arena |-> FALSE, expected |-> 0, id |-> Zero, generation |-> Zero]
NoFocus == [root |-> 0, epoch |-> 0, publication |-> 0]
NoReply == [phase |-> Empty, result |-> 0, packet |-> None, response |-> NoFocus]
Focus == [root |-> authority.root, epoch |-> authority.epoch,
          publication |-> authority.publication]

Init ==
    /\ \E t \in Targets :
          authority = [root |-> t, epoch |-> 1, publication |-> 1, cancel |-> FALSE]
    /\ command = NoReply
    /\ port = [c \in Ports |-> [pc |-> "idle", packet |-> None, loaded |-> Empty,
                                reply |-> NoReply, result |-> 0]]
    /\ identity = [id |-> Zero, generation |-> Zero]
    /\ ctl = [pc |-> "control", result |-> 0, target |-> 0, rounds |-> 0]
    /\ stop = [cause |-> 0, first |-> 0]
    /\ uploads = <<>>
    /\ answers = <<>>

-----------------------------------------------------------------------------
(* external: the command kernel.                                           *)

At(c, pc) == port' = [port EXCEPT ![c].pc = pc]

\* The reply loop starts; the packet is done with.
ReadFrom(c, result) ==
    port' = [port EXCEPT ![c] = [pc |-> "phase", packet |-> None, loaded |-> Empty,
                                 reply |-> NoReply, result |-> result]]

\* stage[0] = 1 uploads a packet, 2 only reads the reply (and so does an unknown
\* stage, with an invalid result).
LaunchUpload(c) ==
    /\ port[c].pc \in {"idle", "done"}
    /\ Len(uploads) < MaxUploads
    /\ \E q \in Requests :
          port' = [port EXCEPT ![c] = [pc |-> "load", packet |-> q, loaded |-> Empty,
                                       reply |-> NoReply, result |-> 0]]
    /\ UNCHANGED <<command, authority, identity, ctl, stop, uploads, answers>>

LaunchPoll(c) ==
    /\ port[c].pc \in {"idle", "done"}
    /\ ReadFrom(c, 0)
    /\ UNCHANGED <<command, authority, identity, ctl, stop, uploads, answers>>

\* A mailbox that is uploading or pending is pressure; the reply is read then too.
LoadPhase(c) ==
    /\ port[c].pc = "load"
    /\ IF command.phase \in {Empty, Acknowledged}
       THEN port' = [port EXCEPT ![c].pc = "claim", ![c].loaded = command.phase]
       ELSE ReadFrom(c, Pressure)
    /\ UNCHANGED <<command, authority, identity, ctl, stop, uploads, answers>>

\* CAS(phase, the phase loaded, uploading)
Claim(c) ==
    /\ port[c].pc = "claim"
    /\ IF command.phase = port[c].loaded
       THEN /\ command' = [command EXCEPT !.phase = Uploading]
            /\ At(c, "storePacket")
       ELSE /\ ReadFrom(c, Pressure)
            /\ UNCHANGED command
    /\ UNCHANGED <<authority, identity, ctl, stop, uploads, answers>>

\* The packet loop covers the response words too: they are cleared.
StorePacket(c) ==
    /\ port[c].pc = "storePacket"
    /\ command' = [command EXCEPT !.packet = port[c].packet, !.response = NoFocus]
    /\ At(c, "storeUnavailable")
    /\ UNCHANGED <<authority, identity, ctl, stop, uploads, answers>>

StoreUnavailable(c) ==
    /\ port[c].pc = "storeUnavailable"
    /\ command' = [command EXCEPT !.result = Unavailable]
    /\ At(c, "storePending")
    /\ UNCHANGED <<authority, identity, ctl, stop, uploads, answers>>

StorePending(c) ==
    /\ port[c].pc = "storePending"
    /\ command' = [command EXCEPT !.phase = Pending]
    /\ uploads' = Append(uploads, command.packet)
    /\ ReadFrom(c, 0)
    /\ UNCHANGED <<authority, identity, ctl, stop, answers>>

\* The reply is read in word order: phase, result, packet, response.
ReadNext == [phase |-> "result", result |-> "packet", packet |-> "response",
             response |-> "done"]
ReadReply(c) ==
    /\ port[c].pc \in DOMAIN ReadNext
    /\ port' = [port EXCEPT ![c].reply[port[c].pc] = command[port[c].pc],
                            ![c].pc = ReadNext[port[c].pc]]
    /\ UNCHANGED <<command, authority, identity, ctl, stop, uploads, answers>>

PortStep(c) ==
    \/ LoadPhase(c) \/ Claim(c) \/ StorePacket(c) \/ StoreUnavailable(c)
    \/ StorePending(c) \/ ReadReply(c)
Launch(c) == LaunchUpload(c) \/ LaunchPoll(c)

-----------------------------------------------------------------------------
(* apply: the control kernel at the start of a round.                      *)

Goto(pc, result, target) ==
    ctl' = [ctl EXCEPT !.pc = pc, !.result = result, !.target = target]

\* emitResidentStop outside the drain: the first cause stays latched.
StopWith(cause) == stop' = [cause |-> cause,
                            first |-> IF stop.first = 0 THEN cause ELSE stop.first]

\* The checks every kind passes, in the order of the code.
Screen(q) ==
    IF Equal128(q.id, Zero) \/ Equal128(q.generation, Zero) THEN Invalid
    ELSE IF Equal128(q.id, identity.id) THEN Duplicate
    ELSE IF ~Newer128(q.generation, identity.generation) THEN Stale
    ELSE IF ~q.arena THEN Conflict
    ELSE IF /\ q.kind \in {Admit, ReadyAdvance}
            /\ authority.epoch >= MaxEpoch \/ authority.publication >= MaxPublication
         THEN GenerationExhausted
    ELSE Accepted

NothingPending ==
    /\ ctl.pc = "control" /\ command.phase # Pending
    /\ Goto("latch", 0, 0)
    /\ UNCHANGED <<command, port, authority, identity, stop, uploads, answers>>

\* A packet the screen refuses, or whose kind is unknown.
Refuse ==
    /\ ctl.pc = "control" /\ command.phase = Pending
    /\ LET q == command.packet
           screened == Screen(q)
       IN  /\ screened # Accepted \/ q.kind \notin {Admit, ReadyAdvance, Cancel}
           /\ Goto("result", IF screened # Accepted THEN screened ELSE Invalid, 0)
    /\ UNCHANGED <<command, port, authority, identity, stop, uploads, answers>>

Screened(kind) ==
    /\ ctl.pc = "control" /\ command.phase = Pending
    /\ command.packet.kind = kind /\ Screen(command.packet) = Accepted

\* Replay and graph admission: a target, or the result they refuse with.
ApplyAdmit ==
    /\ Screened(Admit)
    /\ \/ \E t \in Targets : Goto("reserve", Accepted, t) /\ UNCHANGED stop
       \/ \E result \in {Invalid, Pressure, InvalidRoot} :
             Goto("result", result, 0) /\ UNCHANGED stop
       \/ Goto("result", Quarantined, 0) /\ StopWith(11)
    /\ UNCHANGED <<command, port, authority, identity, uploads, answers>>

\* The expected focus must be the current one and the child realized.
ApplyReadyAdvance ==
    /\ Screened(ReadyAdvance)
    /\ IF command.packet.expected # authority.epoch
       THEN Goto("result", Conflict, 0)
       ELSE \/ Goto("result", AdvanceNotReady, 0)
            \/ \E t \in Targets : Goto("reserve", Accepted, t)
    /\ UNCHANGED <<command, port, authority, identity, stop, uploads, answers>>

ApplyCancel ==
    /\ Screened(Cancel)
    /\ authority' = [authority EXCEPT !.cancel = TRUE]
    /\ Goto("result", Accepted, 0)
    /\ UNCHANGED <<command, port, identity, stop, uploads, answers>>

\* Mutant of Reserve: the focus is stored before the reservation is known.
ReserveCommitted ==
    /\ ctl.pc = "reserve"
    /\ authority' = [authority EXCEPT !.root = ctl.target, !.epoch = @ + 1]
    /\ \/ Goto("commit", Accepted, ctl.target)
       \/ Goto("result", Pressure, ctl.target)
       \/ Goto("result", Unavailable, ctl.target)
    /\ UNCHANGED <<command, port, identity, stop, uploads, answers>>

\* The Output's reservation: pressure from a borrowed slot, or unavailable
\* under an open backup or a quarantined search.
Reserve ==
    /\ ctl.pc = "reserve"
    /\ \/ stop.cause # 11 /\ Goto("commit", Accepted, ctl.target)
       \/ stop.cause # 11 /\ Goto("result", Pressure, ctl.target)
       \/ Goto("result", Unavailable, ctl.target)
    /\ UNCHANGED <<command, port, authority, identity, stop, uploads, answers>>

Commit ==
    /\ ctl.pc = "commit"
    /\ authority' = [authority EXCEPT !.root = ctl.target, !.epoch = @ + 1]
    /\ Goto("publish", Accepted, ctl.target)
    /\ UNCHANGED <<command, port, identity, stop, uploads, answers>>

\* The focus is stored: a publication that fails now quarantines the search.
Publish ==
    /\ ctl.pc = "publish"
    /\ \/ /\ authority' = [authority EXCEPT !.publication = @ + 1]
          /\ Goto("result", Accepted, ctl.target)
          /\ UNCHANGED stop
       \/ /\ Goto("result", Quarantined, ctl.target)
          /\ StopWith(11)
          /\ UNCHANGED authority
    /\ UNCHANGED <<command, port, identity, uploads, answers>>

\* Mutant of StoreResult: the phase goes out before the reply words.
StoreResultAcknowledging ==
    /\ ctl.pc = "result"
    /\ command' = [command EXCEPT !.result = ctl.result,
                      !.phase = IF ctl.result = Pressure THEN Pending ELSE Acknowledged]
    /\ ctl' = [ctl EXCEPT !.pc = "response"]
    /\ UNCHANGED <<port, authority, identity, stop, uploads, answers>>

StoreResult ==
    /\ ctl.pc = "result"
    /\ command' = [command EXCEPT !.result = ctl.result]
    /\ ctl' = [ctl EXCEPT !.pc = "response"]
    /\ UNCHANGED <<port, authority, identity, stop, uploads, answers>>

\* Mutant of StoreResponse: a packet under pressure is given back.
StoreResponseDropping ==
    /\ ctl.pc = "response"
    /\ command' = [command EXCEPT !.response = Focus,
                      !.phase = IF ctl.result = Pressure THEN Acknowledged ELSE @]
    /\ ctl' = [ctl EXCEPT !.pc = IF ctl.result = Pressure THEN "latch" ELSE "acknowledge"]
    /\ UNCHANGED <<port, authority, identity, stop, uploads, answers>>

\* Under pressure the packet stays pending and is applied again next round.
StoreResponse ==
    /\ ctl.pc = "response"
    /\ command' = [command EXCEPT !.response = Focus]
    /\ ctl' = [ctl EXCEPT !.pc = IF ctl.result = Pressure THEN "latch" ELSE "acknowledge"]
    /\ UNCHANGED <<port, authority, identity, stop, uploads, answers>>

\* Mutant of Acknowledge: the identity of an accepted packet is not recorded.
AcknowledgeForgets ==
    /\ ctl.pc = "acknowledge"
    /\ command' = [command EXCEPT !.phase = Acknowledged]
    /\ answers' = Append(answers, [packet |-> command.packet, result |-> ctl.result,
                                   response |-> command.response])
    /\ ctl' = [ctl EXCEPT !.pc = "latch"]
    /\ UNCHANGED <<port, authority, identity, stop, uploads>>

\* Every acknowledged packet but a duplicate or a stale one is recorded.
Acknowledge ==
    /\ ctl.pc = "acknowledge"
    /\ identity' = IF ctl.result \in {Duplicate, Stale} THEN identity
                   ELSE [id |-> command.packet.id, generation |-> command.packet.generation]
    /\ command' = [command EXCEPT !.phase = Acknowledged]
    /\ answers' = Append(answers, [packet |-> command.packet, result |-> ctl.result,
                                   response |-> command.response])
    /\ ctl' = [ctl EXCEPT !.pc = "latch"]
    /\ UNCHANGED <<port, authority, stop, uploads>>

-----------------------------------------------------------------------------
(* The rest of the round, after the control kernel.                        *)

\* Mutant of Latched: the latest cause wins.
LatchedLast(s) == [s EXCEPT !.first = IF authority.cancel THEN 2
                                      ELSE IF s.cause # 0 THEN s.cause ELSE @]

\* latch: the cause that stopped the search, or the cancel word.
Latched(s) == [s EXCEPT !.first = IF @ # 0 THEN @
                                  ELSE IF s.cause # 0 THEN s.cause
                                  ELSE IF authority.cancel THEN 2 ELSE 0]

Latch ==
    /\ ctl.pc = "latch"
    /\ stop' = Latched(stop)
    /\ ctl' = [ctl EXCEPT !.pc = "controller"]
    /\ UNCHANGED <<command, port, authority, identity, uploads, answers>>

\* Mutant of Counted: the round is not counted.
CountedNot == ctl.rounds

Counted == ctl.rounds + 1

\* Mutant of Repeats: the bound admits one round more.
RepeatsOneMore(s) == ~authority.cancel /\ s.cause = 0 /\ Counted <= MaxRounds

Repeats(s) == ~authority.cancel /\ s.cause = 0 /\ Counted < MaxRounds

\* The controller kernel: Progress may stop the search with a cause of its own
\* (6 an evaluator failure, 11 a broken invariant), the root facts may be
\* published, and the continuation repeats or makes its last latch.
Round ==
    /\ ctl.pc = "controller"
    /\ \E cause \in {0, 6, 11} :
          LET s == IF cause = 0 THEN stop ELSE Latched([stop EXCEPT !.cause = cause])
              last == Latched(s)
          IN  /\ stop' = IF Repeats(s) THEN s
                         ELSE [last EXCEPT !.first = IF @ = 0 THEN 14 ELSE @]
              /\ ctl' = [ctl EXCEPT !.pc = IF Repeats(s) THEN "control" ELSE "stopped",
                                    !.rounds = Counted]
              /\ \/ UNCHANGED authority
                 \/ /\ s.cause # 11 /\ authority.publication < MaxPublication
                    /\ authority' = [authority EXCEPT !.publication = @ + 1]
    /\ UNCHANGED <<command, port, identity, uploads, answers>>

Controller ==
    \/ NothingPending \/ Refuse \/ ApplyAdmit \/ ApplyReadyAdvance \/ ApplyCancel
    \/ Reserve \/ Commit \/ Publish \/ StoreResult \/ StoreResponse \/ Acknowledge
    \/ Latch \/ Round

Next ==
    \/ Controller
    \/ \E c \in Ports : Launch(c) \/ PortStep(c)

Spec == Init /\ [][Next]_vars

\* The continuation launches round after round, and a launched kernel runs.
FairSpec == Spec /\ WF_vars(Controller) /\ \A c \in Ports : WF_vars(PortStep(c))

-----------------------------------------------------------------------------
(* Properties                                                              *)

Packets == Requests \cup {None}
Responses == [root: Nat, epoch: Nat, publication: Nat]
Results == Accepted .. Quarantined
Mailboxes == [phase: Empty .. Acknowledged, result: Results, packet: Packets,
              response: Responses]
PortPcs == {"idle", "load", "claim", "storePacket", "storeUnavailable", "storePending", "done"}
              \cup DOMAIN ReadNext
ControllerPcs == {"control", "reserve", "commit", "publish", "result", "response",
                  "acknowledge", "latch", "controller", "stopped"}
Answers == [packet: Packets, result: Results, response: Responses]

\* The type invariant of the mailbox, the command kernels, the focus, the
\* recorded identity, the controller and the histories.
TypeOK ==
    /\ command \in Mailboxes
    /\ port \in [Ports -> [pc: PortPcs, packet: Packets, loaded: {Empty, Acknowledged},
                           reply: Mailboxes, result: {0, Pressure}]]
    /\ authority \in [root: Nat, epoch: Nat, publication: Nat, cancel: BOOLEAN]
    /\ identity \in [id: Wide, generation: Wide]
    /\ ctl \in [pc: ControllerPcs, result: Results, target: Nat, rounds: 0 .. MaxRounds]
    /\ stop \in [cause: Nat, first: Nat]
    /\ uploads \in Seq(Packets) /\ answers \in Seq(Answers)

Writes(c) == port[c].pc \in {"storePacket", "storeUnavailable", "storePending"}

\* The mailbox is in uploading exactly while one command kernel writes it: no
\* two kernels ever write packets over each other.
OneWriter ==
    /\ command.phase = Uploading <=> \E c \in Ports : Writes(c)
    /\ \A c, d \in Ports : Writes(c) /\ Writes(d) => c = d

\* The packets made pending are acknowledged one by one, in their order: none
\* is lost, overwritten or answered twice, whatever kernels and rounds overlap.
AnsweredInOrder ==
    /\ Len(uploads) = Len(answers) + (IF command.phase = Pending THEN 1 ELSE 0)
    /\ \A i \in 1 .. Len(answers) : answers[i].packet = uploads[i]
    /\ command.phase = Pending => uploads[Len(uploads)] = command.packet

IsFocus(a) == a.result = Accepted /\ a.packet.kind \in {Admit, ReadyAdvance}
FocusAnswers == {i \in 1 .. Len(answers) : IsFocus(answers[i])}

\* Focus generations rise: no packet takes effect twice, and none after a
\* later one, whatever was refused, retried or replayed in between.
AcceptedInOrder ==
    \A i, j \in FocusAnswers :
        i < j => Newer128(answers[j].packet.generation, answers[i].packet.generation)

\* Between packets the focus is that of the last accepted answer, and its epoch
\* counts the accepted ones.
FocusIsLastAccepted ==
    \/ stop.first = 11
    \/ ctl.pc \in {"publish", "result", "response", "acknowledge"}
    \/ /\ authority.epoch = 1 + Cardinality(FocusAnswers)
       /\ \A i \in FocusAnswers :
             (\A j \in FocusAnswers : j <= i) =>
                 /\ answers[i].response.root = authority.root
                 /\ answers[i].response.epoch = authority.epoch

CancelIsLast ==
    \A i \in 1 .. Len(answers) :
        answers[i].packet.kind = Cancel /\ answers[i].result = Accepted
            => i = Len(answers) /\ ctl.pc # "control"

\* What was answered holds: a refused packet leaves the focus alone, and after
\* an accepted cancel no packet is applied.
AnswersHold == FocusIsLastAccepted /\ CancelIsLast

\* A reply that shows the acknowledged phase is the answer one packet got, with
\* the focus words stored for it, although the controller writes while it is
\* read.  (With one command kernel at a time; see the README.)
ReplyIsAnAnswer ==
    \A c \in Ports :
        port[c].pc = "done" /\ port[c].reply.phase = Acknowledged =>
            LET r == port[c].reply IN
            \E i \in 1 .. Len(answers) :
                answers[i] = [packet |-> r.packet, result |-> r.result,
                              response |-> r.response]

\* A packet made pending is acknowledged or the search has stopped; it is not
\* answered after that.
PendingResolved == (command.phase = Pending) ~> (command.phase # Pending \/ ctl.pc = "stopped")

\* The first cause that stops the search is the one it reports: a cancel that
\* comes after a failure, or a failure after a cancel, does not replace it.
FirstCauseStays == [][stop.first # 0 => stop'.first = stop.first]_vars
=============================================================================
