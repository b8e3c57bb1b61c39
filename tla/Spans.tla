-------------------------------- MODULE Spans --------------------------------
(***************************************************************************)
(* The span words of the resident graph: candidate edges of a node are a   *)
(* contiguous span, cut from blocks with boundary tags that are kept in    *)
(* doubly linked lists, one per length and one for everything longer than  *)
(* the largest candidate set.                                              *)
(*                                                                         *)
(* Source: components/search-compiler/src/resident-graph.mjs, spanUnlink   *)
(* to spanFree.  A store is the record of the span words and the list      *)
(* heads; the count of merges, m[12], is left out.                         *)
(***************************************************************************)
EXTENDS Integers

CONSTANTS
    EdgeCapacity,  \* cells of the edge arena
    MaxActions     \* largest candidate set, the longest span asked for

ASSUME SpansAssumption ==
    /\ EdgeCapacity \in Nat \ {0} /\ MaxActions \in Nat \ {0}
    /\ MaxActions <= EdgeCapacity

NoSpan == -1      \* 4294967295 in the code
Untagged == 0
Free == 1
Taken == 2

Bases == 0 .. EdgeCapacity - 1
Overflow == MaxActions + 1
Bins == 0 .. Overflow
Bin(length) == IF length > MaxActions THEN Overflow ELSE length

Blank == [length |-> 0, next |-> 0, prev |-> 0, tag |-> Untagged]

SpanUnlink(st, base) ==
    LET w == st.words[base]
        skipped == IF w.prev = NoSpan THEN st.words
                   ELSE [st.words EXCEPT ![w.prev].next = w.next]
    IN  [st EXCEPT !.bins = IF w.prev = NoSpan THEN [@ EXCEPT ![Bin(w.length)] = w.next] ELSE @,
                   !.words = IF w.next = NoSpan THEN skipped
                             ELSE [skipped EXCEPT ![w.next].prev = w.prev]]

\* Both ends of a block carry its length and tag.
Tagged(words, base, length, tag) ==
    [words EXCEPT ![base].length = length, ![base].tag = tag,
                  ![base + length - 1].length = length, ![base + length - 1].tag = tag]

\* The block becomes the head of its list.
SpanAdd(st, base, length) ==
    LET head == st.bins[Bin(length)]
        linked == [st.words EXCEPT ![base].next = head, ![base].prev = NoSpan]
        tagged == Tagged(linked, base, length, Free)
    IN  [st EXCEPT !.words = IF head = NoSpan THEN tagged ELSE [tagged EXCEPT ![head].prev = base],
                   !.bins[Bin(length)] = base]

\* The head of the first list, from the exact length up, that is long enough.
SpanFind(st, length) ==
    LET fits(bin) == st.bins[bin] # NoSpan /\ st.words[st.bins[bin]].length >= length
        found == {bin \in Bin(length) .. Overflow : fits(bin)}
    IN  IF length = 0 \/ length > EdgeCapacity \/ found = {} THEN NoSpan
        ELSE st.bins[CHOOSE bin \in found : \A other \in found : bin <= other]

\* A found block is cut: its first cells are taken, the rest is a free block.
Cut(st, base, length, total) ==
    LET taken == [SpanUnlink(st, base) EXCEPT !.words = Tagged(@, base, length, Taken)]
    IN  IF total > length THEN SpanAdd(taken, base + length, total - length) ELSE taken

\* The span at the base that was found, or NoSpan, and the store after the cut.
SpanAllocate(st, base, length) ==
    [base |-> base,
     store |-> IF base = NoSpan THEN st ELSE Cut(st, base, length, st.words[base].length)]

\* A block that is being freed joins the free neighbour on either side.
JoinLeft(b) ==
    LET length == b.store.words[b.base - 1].length
    IN  IF b.base > 0 /\ b.store.words[b.base - 1].tag = Free
        THEN [store |-> SpanUnlink(b.store, b.base - length),
              base |-> b.base - length, length |-> b.length + length]
        ELSE b

JoinRight(b) ==
    LET end == b.base + b.length
    IN  IF end < EdgeCapacity /\ b.store.words[end].tag = Free
        THEN [b EXCEPT !.store = SpanUnlink(b.store, end), !.length = @ + b.store.words[end].length]
        ELSE b

AddBlock(b) == SpanAdd(b.store, b.base, b.length)

\* Mutant of SpanFree: only the left neighbour is merged.
SpanFreeLeftward(st, base, length) ==
    AddBlock(JoinLeft([store |-> st, base |-> base, length |-> length]))

\* The freed span merges with the free blocks on both sides of it.
SpanFree(st, base, length) ==
    IF base > EdgeCapacity \/ length = 0 \/ length > EdgeCapacity - base THEN st
    ELSE AddBlock(JoinRight(JoinLeft([store |-> st, base |-> base, length |-> length])))

\* initialize: one free block.
SpanInit ==
    SpanAdd([words |-> [b \in Bases |-> Blank], bins |-> [bin \in Bins |-> NoSpan]],
            0, EdgeCapacity)

-----------------------------------------------------------------------------
(* What the words of a store mean.                                         *)

\* The blocks of a list, from its head.
Chain(st, bin) ==
    LET follows[n \in 0 .. EdgeCapacity] ==
          IF n = 0 THEN IF st.bins[bin] = NoSpan THEN {} ELSE {st.bins[bin]}
          ELSE follows[n - 1] \cup ({st.words[b].next : b \in follows[n - 1]} \ {NoSpan})
    IN  follows[EdgeCapacity]
Listed(st) == UNION {Chain(st, bin) : bin \in Bins}
Cells(base, length) == base .. base + length - 1
FreeCells(st) == UNION {Cells(b, st.words[b].length) : b \in Listed(st)}

\* The lists hold disjoint blocks, each in the list of its length, linked both
\* ways and tagged at both ends, and no two of them are neighbours.
WellLinked(st) ==
    /\ \A bin \in Bins : \A b \in Chain(st, bin) :
          LET w == st.words[b] IN
          /\ Bin(w.length) = bin /\ b + w.length <= EdgeCapacity /\ w.tag = Free
          /\ st.words[b + w.length - 1].length = w.length
          /\ st.words[b + w.length - 1].tag = Free
          /\ IF w.prev = NoSpan THEN st.bins[bin] = b ELSE st.words[w.prev].next = b
          /\ w.next # NoSpan => st.words[w.next].prev = b
    /\ \A b, c \in Listed(st) :
          b < c => b + st.words[b].length < c
=============================================================================
