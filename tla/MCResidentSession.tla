------------------------- MODULE MCResidentSession -------------------------
(* Small packets for TLC: two-word identities, each word 0 or 1.           *)
EXTENDS ResidentSession

CONSTANT c1

Number(n) == <<n % 2, n \div 2>>
Packet(kind, arena, expected, id, generation) ==
    [kind |-> kind, arena |-> arena, expected |-> expected,
     id |-> Number(id), generation |-> Number(generation)]

\* Admissions and advances with rising, repeated and falling generations that
\* differ in either word, a wrong arena, an unknown kind, a cancel.
Screening == {Packet(Admit, TRUE, 0, 1, 1), Packet(ReadyAdvance, TRUE, 2, 3, 2),
              Packet(ReadyAdvance, TRUE, 1, 2, 1), Packet(Admit, FALSE, 0, 3, 2),
              Packet(7, TRUE, 0, 1, 2), Packet(Cancel, TRUE, 0, 2, 3)}

\* A packet without a generation among others.
Unnumbered == {Packet(Admit, TRUE, 0, 1, 1), Packet(Admit, TRUE, 0, 2, 0)}

Targets1 == {1}
Targets2 == {1, 2}
=============================================================================
