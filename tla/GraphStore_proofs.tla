------------------------- MODULE GraphStore_proofs --------------------------
(***************************************************************************)
(* What the functions of the resident graph keep, for any capacities, any  *)
(* domain and any hash: free blocks and spans divide the edge arena, the   *)
(* table finds every live node by its state, references carry the          *)
(* generation of what they name, and what is protected stays.  GraphInv is *)
(* the invariant of a graph between two calls; AdmitLemma and RealizeLemma *)
(* say what the two calls of Progress leave of it.                         *)
(***************************************************************************)
EXTENDS GraphStore, FiniteSets, FiniteSetTheorems, WellFoundedInduction, TLAPS

-----------------------------------------------------------------------------
(* The words of the spans and their lists.                                 *)

\* A link of a list, a word of the arena, and the store of both.
Links == Bases \cup {NoSpan}
Words == [length: 0 .. EdgeCapacity, next: Links, prev: Links, tag: {Untagged, Free, Taken}]
Stores == [words: [Bases -> Words], bins: [Bins -> Links]]

\* A block carries its length and tag at both ends.
Ends(words, b, tag) ==
    /\ words[b].length \in 1 .. EdgeCapacity - b /\ words[b].tag = tag
    /\ words[b + words[b].length - 1].length = words[b].length
    /\ words[b + words[b].length - 1].tag = tag

\* The free blocks F, the taken blocks T and a hole divide the arena, and no
\* free block follows another.
Layout(words, F, T, hole) ==
    /\ F \subseteq Bases /\ T \subseteq Bases /\ F \cap T = {}
    /\ \A b \in F : Ends(words, b, Free)
    /\ \A b \in T : Ends(words, b, Taken)
    /\ \A b, c \in F \cup T : b < c => b + words[b].length <= c
    /\ \A b \in F \cup T : Cells(b, words[b].length) \cap hole = {}
    /\ \A x \in Bases : x \in hole \/ \E b \in F \cup T : x \in Cells(b, words[b].length)
    /\ \A b, c \in F : b + words[b].length # c

\* The lists hold the free blocks, each in the list of its length.
Lists(st, F) ==
    /\ F \subseteq Bases
    /\ \A b \in F : st.words[b].length > 0
    /\ \A bin \in Bins : st.bins[bin] # NoSpan =>
          /\ st.bins[bin] \in F /\ st.words[st.bins[bin]].prev = NoSpan
          /\ Bin(st.words[st.bins[bin]].length) = bin
    /\ \A b \in F : st.words[b].next # NoSpan =>
          /\ st.words[b].next \in F /\ st.words[st.words[b].next].prev = b
          /\ Bin(st.words[st.words[b].next].length) = Bin(st.words[b].length)
    /\ \A b \in F : IF st.words[b].prev = NoSpan
                    THEN st.bins[Bin(st.words[b].length)] = b
                    ELSE /\ st.words[b].prev \in F /\ st.words[st.words[b].prev].next = b
                         /\ Bin(st.words[st.words[b].prev].length) = Bin(st.words[b].length)

\* No list is a circle.
Ranked(st, F) ==
    \E rank \in [Bases -> Nat] :
        \A b \in F : st.words[b].prev # NoSpan => rank[st.words[b].prev] < rank[b]

\* The other words have the same lengths and tags.
Same(words, other) ==
    \A c \in Bases : other[c].length = words[c].length /\ other[c].tag = words[c].tag

\* A length has a list.
LEMMA BinType ==
    ASSUME NEW n \in Nat
    PROVE  Bin(n) \in Bins
BY SpansAssumption DEF Bin, Bins, Overflow

\* What SpanUnlink makes of the words.
LEMMA UnlinkWords ==
    ASSUME NEW st \in Stores, NEW b \in Bases
    PROVE  LET new == SpanUnlink(st, b) IN
           /\ new \in Stores
           /\ Same(st.words, new.words)
           /\ \A c \in Bases :
                /\ new.words[c].next = IF c = st.words[b].prev THEN st.words[b].next
                                       ELSE st.words[c].next
                /\ new.words[c].prev = IF c = st.words[b].next THEN st.words[b].prev
                                       ELSE st.words[c].prev
           /\ \A bin \in Bins :
                new.bins[bin] = IF st.words[b].prev = NoSpan /\ bin = Bin(st.words[b].length)
                                THEN st.words[b].next ELSE st.bins[bin]
<1> DEFINE w == st.words
           new == SpanUnlink(st, b)
           skipped == IF w[b].prev = NoSpan THEN w ELSE [w EXCEPT ![w[b].prev].next = w[b].next]
           words == IF w[b].next = NoSpan THEN skipped
                    ELSE [skipped EXCEPT ![w[b].next].prev = w[b].prev]
           bins == IF w[b].prev = NoSpan THEN [st.bins EXCEPT ![Bin(w[b].length)] = w[b].next]
                   ELSE st.bins
<1>1. w \in [Bases -> Words] /\ st.bins \in [Bins -> Links] /\ Bin(w[b].length) \in Bins
  BY BinType DEF Stores, Words
<1>2. NoSpan \notin Bases
  BY DEF NoSpan, Bases
<1>3. PICK word \in Words : word = w[b]
  BY <1>1
<1>4. word.prev \in Links /\ word.next \in Links /\ w[b].prev = word.prev /\ w[b].next = word.next
  BY <1>3 DEF Words
<1>5. new.words = words /\ new.bins = bins /\ new = [words |-> words, bins |-> bins]
  <2>1. new = [st EXCEPT !.bins = bins, !.words = words]
    BY DEF SpanUnlink
  <2> HIDE DEF bins, words, new
  <2>2. PICK u, v : st = [words |-> u, bins |-> v]
    BY DEF Stores
  <2>3. new = [words |-> words, bins |-> bins]
    BY <2>1, <2>2
  <2> QED
    BY <2>3
<1>6. /\ skipped \in [Bases -> Words]
      /\ \A c \in Bases :
           /\ skipped[c].length = w[c].length /\ skipped[c].tag = w[c].tag
           /\ skipped[c].prev = w[c].prev
           /\ skipped[c].next = IF c = w[b].prev THEN w[b].next ELSE w[c].next
  <2>1. CASE word.prev = NoSpan
    BY <2>1, <1>1, <1>2, <1>4
  <2>2. CASE word.prev # NoSpan
    <3>1. word.prev \in Bases
      BY <2>2, <1>4 DEF Links
    <3>2. skipped = [w EXCEPT ![word.prev].next = word.next]
      BY <2>2, <1>4
    <3>3. ASSUME NEW c \in Bases
          PROVE  /\ skipped[c] \in Words
                 /\ skipped[c].length = w[c].length /\ skipped[c].tag = w[c].tag
                 /\ skipped[c].prev = w[c].prev
                 /\ skipped[c].next = IF c = word.prev THEN word.next ELSE w[c].next
      <4>1. PICK q \in Words : q = w[c]
        BY <1>1
      <4>2. skipped[c] = IF c = word.prev THEN [q EXCEPT !.next = word.next] ELSE q
        BY <3>1, <3>2, <4>1, <1>1
      <4> QED
        BY <4>1, <4>2, <1>4 DEF Words
    <3>4. skipped = [c \in Bases |-> skipped[c]]
      BY <3>2, <1>1
    <3> QED
      BY ZenonT(60), <3>3, <3>4, <1>4
  <2> QED
    BY <2>1, <2>2
<1> HIDE DEF skipped
<1>7. /\ words \in [Bases -> Words]
      /\ \A c \in Bases :
           /\ words[c].length = w[c].length /\ words[c].tag = w[c].tag
           /\ words[c].prev = IF c = w[b].next THEN w[b].prev ELSE w[c].prev
           /\ words[c].next = IF c = w[b].prev THEN w[b].next ELSE w[c].next
  <2>1. CASE word.next = NoSpan
    BY <2>1, <1>6, <1>2, <1>4
  <2>2. CASE word.next # NoSpan
    <3>1. word.next \in Bases
      BY <2>2, <1>4 DEF Links
    <3>2. words = [skipped EXCEPT ![word.next].prev = word.prev]
      BY <2>2, <1>4
    <3>3. ASSUME NEW c \in Bases
          PROVE  /\ words[c] \in Words
                 /\ words[c].length = w[c].length /\ words[c].tag = w[c].tag
                 /\ words[c].prev = IF c = word.next THEN word.prev ELSE w[c].prev
                 /\ words[c].next = skipped[c].next
      <4>1. PICK q \in Words : q = skipped[c]
        BY <1>6
      <4>2. words[c] = IF c = word.next THEN [q EXCEPT !.prev = word.prev] ELSE q
        BY <3>1, <3>2, <4>1, <1>6
      <4> QED
        BY <4>1, <4>2, <1>4, <1>6 DEF Words
    <3>4. words = [c \in Bases |-> words[c]]
      BY <3>2, <1>6
    <3> HIDE DEF words
    <3>5. words \in [Bases -> Words]
      BY <3>3, <3>4
    <3> QED
      BY <3>3, <3>5, <1>4, <1>6
  <2> QED
    BY <2>1, <2>2
<1>8. /\ bins \in [Bins -> Links]
      /\ \A bin \in Bins : bins[bin] = IF w[b].prev = NoSpan /\ bin = Bin(w[b].length)
                                       THEN w[b].next ELSE st.bins[bin]
  BY <1>1, <1>4
<1>9. new.words = words /\ new.bins = bins
  BY <1>5
<1> HIDE DEF w, new, words, bins
<1>10. Same(w, new.words)
  BY ZenonT(60), <1>7, <1>9 DEF Same
<1>11. new \in Stores
  BY ZenonT(60), <1>5, <1>7, <1>8 DEF Stores
<1> QED
  BY ZenonT(60), <1>7, <1>8, <1>9, <1>10, <1>11 DEF w, new

\* What SpanUnlink leaves of the lists.
LEMMA UnlinkLists ==
    ASSUME NEW st \in Stores, NEW F, Lists(st, F), NEW b \in F
    PROVE  /\ Lists(SpanUnlink(st, b), F \ {b})
           /\ Ranked(st, F) => Ranked(SpanUnlink(st, b), F \ {b})
<1> DEFINE new == SpanUnlink(st, b)
           w == st.words
           v == new.words
<1>1. F \subseteq Bases /\ b \in Bases /\ NoSpan \notin Bases
  BY DEF Lists, NoSpan, Bases
<1>2. /\ new \in Stores
      /\ \A c \in Bases : /\ v[c].length = w[c].length
                          /\ v[c].next = IF c = w[b].prev THEN w[b].next ELSE w[c].next
                          /\ v[c].prev = IF c = w[b].next THEN w[b].prev ELSE w[c].prev
      /\ \A bin \in Bins :
           new.bins[bin] = IF w[b].prev = NoSpan /\ bin = Bin(w[b].length)
                           THEN w[b].next ELSE st.bins[bin]
  BY <1>1, UnlinkWords DEF Same
<1>3. \A c \in F : w[c].length \in Nat /\ w[c].length > 0 /\ Bin(w[c].length) \in Bins
  BY <1>1, BinType DEF Lists, Stores, Words
<1> HIDE DEF new
<1>4. Lists(new, F \ {b})
  <2>1. \A c \in F \ {b} : v[c].length > 0
    BY <1>1, <1>2, <1>3
  <2>2. ASSUME NEW bin \in Bins, new.bins[bin] # NoSpan
        PROVE  /\ new.bins[bin] \in F \ {b} /\ v[new.bins[bin]].prev = NoSpan
               /\ Bin(v[new.bins[bin]].length) = bin
    <3>1. CASE w[b].prev = NoSpan /\ bin = Bin(w[b].length)
      <4>1. w[b].next # NoSpan => /\ w[b].next \in F /\ w[w[b].next].prev = b
                                  /\ Bin(w[w[b].next].length) = Bin(w[b].length)
        BY DEF Lists
      <4>2. w[b].next = b => w[b].prev = b
        BY <4>1, <1>1
      <4> QED
        BY SMTT(30), <4>1, <4>2, <3>1, <2>2, <1>1, <1>2
    <3>2. CASE ~(w[b].prev = NoSpan /\ bin = Bin(w[b].length))
      <4>1. new.bins[bin] = st.bins[bin] /\ st.bins[bin] # NoSpan
        BY <3>2, <2>2, <1>2
      <4>2. /\ st.bins[bin] \in F /\ w[st.bins[bin]].prev = NoSpan
            /\ Bin(w[st.bins[bin]].length) = bin
        BY <4>1 DEF Lists
      <4>3. w[b].next # NoSpan => w[w[b].next].prev = b
        BY DEF Lists
      <4> QED
        BY SMTT(30), <4>1, <4>2, <4>3, <3>2, <1>1, <1>2
    <3> QED
      BY <3>1, <3>2
  <2>3. ASSUME NEW c \in F \ {b}, v[c].next # NoSpan
        PROVE  /\ v[c].next \in F \ {b} /\ v[v[c].next].prev = c
               /\ Bin(v[v[c].next].length) = Bin(v[c].length)
    <3>1. /\ w[c].next # NoSpan => /\ w[c].next \in F /\ w[w[c].next].prev = c
                                   /\ Bin(w[w[c].next].length) = Bin(w[c].length)
          /\ w[b].next # NoSpan => /\ w[b].next \in F /\ w[w[b].next].prev = b
                                   /\ Bin(w[w[b].next].length) = Bin(w[b].length)
          /\ w[b].prev # NoSpan => /\ w[b].prev \in F /\ w[w[b].prev].next = b
                                   /\ Bin(w[w[b].prev].length) = Bin(w[b].length)
          /\ c \in Bases /\ c \in F /\ c # b
      BY DEF Lists
    <3> QED
      BY SMTT(30), <2>3, <3>1, <1>1, <1>2
  <2>4. ASSUME NEW c \in F \ {b}
        PROVE  IF v[c].prev = NoSpan THEN new.bins[Bin(v[c].length)] = c
               ELSE /\ v[c].prev \in F \ {b} /\ v[v[c].prev].next = c
                    /\ Bin(v[v[c].prev].length) = Bin(v[c].length)
    <3>1. /\ w[b].next # NoSpan => w[w[b].next].prev = b
                                   /\ Bin(w[w[b].next].length) = Bin(w[b].length)
          /\ w[b].prev # NoSpan => /\ w[b].prev \in F /\ w[w[b].prev].next = b
                                   /\ Bin(w[w[b].prev].length) = Bin(w[b].length)
          /\ w[b].prev = NoSpan => st.bins[Bin(w[b].length)] = b
          /\ c \in Bases /\ c \in F /\ c # b /\ v[c].length = w[c].length
      BY <1>2 DEF Lists
    <3>2. CASE c = w[b].next
      BY SMTT(30), <3>1, <3>2, <1>1, <1>2, <1>3
    <3>3. CASE c # w[b].next
      <4>1. /\ w[c].prev # NoSpan => /\ w[c].prev \in F /\ w[w[c].prev].next = c
                                     /\ Bin(w[w[c].prev].length) = Bin(w[c].length)
            /\ w[c].prev = NoSpan => st.bins[Bin(w[c].length)] = c
            /\ v[c].prev = w[c].prev
        BY <3>1, <3>3, <1>2 DEF Lists
      <4> QED
        BY SMTT(30), <4>1, <3>1, <3>3, <1>1, <1>2, <1>3
    <3> QED
      BY <3>2, <3>3
  <2> QED
    BY <2>1, <2>2, <2>3, <2>4, <1>1 DEF Lists
<1>5. ASSUME Ranked(st, F) PROVE Ranked(new, F \ {b})
  <2>1. PICK rank \in [Bases -> Nat] :
             \A c \in F : w[c].prev # NoSpan => rank[w[c].prev] < rank[c]
    BY <1>5 DEF Ranked
  <2>2. ASSUME NEW c \in F \ {b}, v[c].prev # NoSpan PROVE rank[v[c].prev] < rank[c]
    <3>1. CASE c = w[b].next
      <4>1. w[c].prev = b /\ v[c].prev = w[b].prev /\ w[b].prev # NoSpan
        BY <3>1, <2>2, <1>1, <1>2 DEF Lists
      <4>2. w[b].prev \in Bases
        BY <4>1, <1>1 DEF Lists
      <4> QED
        BY <4>1, <4>2, <2>1, <1>1
    <3>2. CASE c # w[b].next
      BY <3>2, <2>1, <2>2, <1>1, <1>2
    <3> QED
      BY <3>1, <3>2
  <2> QED
    BY <2>1, <2>2 DEF Ranked
<1> QED
  BY <1>4, <1>5 DEF new

\* Tags are written over words that begin no free block.
LEMMA TaggedWords ==
    ASSUME NEW words \in [Bases -> Words], NEW b \in Bases, NEW n \in 1 .. EdgeCapacity - b,
           NEW tag \in {Untagged, Free, Taken}
    PROVE  LET new == Tagged(words, b, n, tag) IN
           /\ new \in [Bases -> Words]
           /\ \A c \in Bases :
                /\ new[c].next = words[c].next /\ new[c].prev = words[c].prev
                /\ new[c].length = IF c \in {b, b + n - 1} THEN n ELSE words[c].length
                /\ new[c].tag = IF c \in {b, b + n - 1} THEN tag ELSE words[c].tag
<1> DEFINE new == Tagged(words, b, n, tag)
           end == b + n - 1
<1>1. end \in Bases /\ n \in 0 .. EdgeCapacity
  BY SpansAssumption DEF Bases
<1>2. new = [words EXCEPT ![b].length = n, ![b].tag = tag, ![end].length = n, ![end].tag = tag]
  BY DEF Tagged
<1> HIDE DEF end
<1>3. ASSUME NEW c \in Bases
      PROVE  /\ new[c] \in Words
             /\ new[c].next = words[c].next /\ new[c].prev = words[c].prev
             /\ new[c].length = IF c \in {b, end} THEN n ELSE words[c].length
             /\ new[c].tag = IF c \in {b, end} THEN tag ELSE words[c].tag
  <2>1. PICK q \in Words : q = words[c]
    OBVIOUS
  <2>2. new[c] = IF c \in {b, end} THEN [q EXCEPT !.length = n, !.tag = tag] ELSE q
    <3>1. CASE c = b /\ b = end
      <4> DEFINE once == [words EXCEPT ![b].length = n, ![b].tag = tag]
      <4>1. new = [once EXCEPT ![b].length = n, ![b].tag = tag]
        BY <3>1, <1>2
      <4>2. once \in [Bases -> Words] /\ once[c] = [q EXCEPT !.length = n, !.tag = tag]
        <5>1. once[c] = [q EXCEPT !.length = n, !.tag = tag]
          BY <3>1, <2>1 DEF Words
        <5>2. [q EXCEPT !.length = n, !.tag = tag] \in Words
          BY <1>1 DEF Words
        <5>3. \A e \in Bases : e # b => once[e] = words[e]
          OBVIOUS
        <5>4. once = [e \in Bases |-> once[e]]
          OBVIOUS
        <5> HIDE DEF once
        <5> QED
          BY <5>1, <5>2, <5>3, <5>4, <3>1
      <4> HIDE DEF once
      <4>3. new[c] = [once[c] EXCEPT !.length = n, !.tag = tag]
        BY <4>1, <4>2, <3>1 DEF Words
      <4> QED
        BY <4>2, <4>3, <3>1 DEF Words
    <3>2. CASE c = b /\ b # end
      BY <3>2, <1>1, <1>2, <2>1 DEF Words
    <3>3. CASE c = end /\ b # end
      BY <3>3, <1>1, <1>2, <2>1 DEF Words
    <3>4. CASE c \notin {b, end}
      BY <3>4, <1>1, <1>2, <2>1 DEF Words
    <3> QED
      BY <3>1, <3>2, <3>3, <3>4
  <2> QED
    BY <2>1, <2>2, <1>1 DEF Words
<1>4. new = [c \in Bases |-> new[c]]
  BY <1>2
<1> HIDE DEF new
<1>5. new \in [Bases -> Words]
  BY <1>3, <1>4
<1> QED
  BY <1>3, <1>5 DEF new, end

\* What SpanAdd makes of the words.
LEMMA AddWords ==
    ASSUME NEW st \in Stores, NEW b \in Bases, NEW n \in 1 .. EdgeCapacity - b
    PROVE  LET new == SpanAdd(st, b, n)
               head == st.bins[Bin(n)]
           IN
           /\ new \in Stores
           /\ \A c \in Bases :
                /\ new.words[c].next = IF c = b THEN head ELSE st.words[c].next
                /\ new.words[c].prev = IF c = head THEN b ELSE IF c = b THEN NoSpan
                                       ELSE st.words[c].prev
                /\ new.words[c].length = IF c \in {b, b + n - 1} THEN n ELSE st.words[c].length
                /\ new.words[c].tag = IF c \in {b, b + n - 1} THEN Free ELSE st.words[c].tag
           /\ \A bin \in Bins : new.bins[bin] = IF bin = Bin(n) THEN b ELSE st.bins[bin]
<1> DEFINE new == SpanAdd(st, b, n)
           head == st.bins[Bin(n)]
           linked == [st.words EXCEPT ![b].next = head, ![b].prev = NoSpan]
           tagged == Tagged(linked, b, n, Free)
           words == IF head = NoSpan THEN tagged ELSE [tagged EXCEPT ![head].prev = b]
           bins == [st.bins EXCEPT ![Bin(n)] = b]
<1>1. /\ st.words \in [Bases -> Words] /\ st.bins \in [Bins -> Links] /\ Bin(n) \in Bins
      /\ head \in Links /\ b \in Links /\ NoSpan \in Links /\ NoSpan \notin Bases
  BY BinType DEF Stores, Links, Bases, NoSpan
<1>2. new.words = words /\ new.bins = bins /\ new = [words |-> words, bins |-> bins]
  <2>1. new = [st EXCEPT !.words = words, !.bins[Bin(n)] = b]
    BY DEF SpanAdd
  <2> HIDE DEF words, new
  <2>2. PICK u, v : st = [words |-> u, bins |-> v]
    BY DEF Stores
  <2>3. new = [words |-> words, bins |-> bins]
    BY <2>1, <2>2
  <2> QED
    BY <2>3
<1> HIDE DEF new, head
<1>3. /\ linked \in [Bases -> Words]
      /\ \A c \in Bases :
           /\ linked[c].length = st.words[c].length /\ linked[c].tag = st.words[c].tag
           /\ linked[c].next = IF c = b THEN head ELSE st.words[c].next
           /\ linked[c].prev = IF c = b THEN NoSpan ELSE st.words[c].prev
  <2>1. ASSUME NEW c \in Bases
        PROVE  /\ linked[c] \in Words
               /\ linked[c].length = st.words[c].length /\ linked[c].tag = st.words[c].tag
               /\ linked[c].next = IF c = b THEN head ELSE st.words[c].next
               /\ linked[c].prev = IF c = b THEN NoSpan ELSE st.words[c].prev
    <3>1. PICK q \in Words : q = st.words[c]
      BY <1>1
    <3>2. linked[c] = IF c = b THEN [q EXCEPT !.next = head, !.prev = NoSpan] ELSE q
      BY <3>1, <1>1 DEF Words
    <3> QED
      BY <3>1, <3>2, <1>1 DEF Words
  <2>2. linked = [c \in Bases |-> linked[c]]
    BY <1>1
  <2> HIDE DEF linked
  <2>3. linked \in [Bases -> Words]
    BY <2>1, <2>2
  <2> QED
    BY <2>1, <2>3
<1> HIDE DEF linked
<1>4. /\ tagged \in [Bases -> Words]
      /\ \A c \in Bases :
           /\ tagged[c].next = linked[c].next /\ tagged[c].prev = linked[c].prev
           /\ tagged[c].length = IF c \in {b, b + n - 1} THEN n ELSE linked[c].length
           /\ tagged[c].tag = IF c \in {b, b + n - 1} THEN Free ELSE linked[c].tag
  BY <1>3, TaggedWords
<1> HIDE DEF tagged
<1>5. /\ words \in [Bases -> Words]
      /\ \A c \in Bases :
           /\ words[c].next = tagged[c].next
           /\ words[c].prev = IF c = head THEN b ELSE tagged[c].prev
           /\ words[c].length = tagged[c].length /\ words[c].tag = tagged[c].tag
  <2>1. CASE head = NoSpan
    BY <2>1, <1>1, <1>4
  <2>2. CASE head # NoSpan
    <3>1. head \in Bases /\ words = [tagged EXCEPT ![head].prev = b]
      BY <2>2, <1>1 DEF Links
    <3>2. ASSUME NEW c \in Bases
          PROVE  /\ words[c] \in Words
                 /\ words[c].next = tagged[c].next
                 /\ words[c].prev = IF c = head THEN b ELSE tagged[c].prev
                 /\ words[c].length = tagged[c].length /\ words[c].tag = tagged[c].tag
      <4>1. PICK q \in Words : q = tagged[c]
        BY <1>4
      <4>2. words[c] = IF c = head THEN [q EXCEPT !.prev = b] ELSE q
        BY <3>1, <4>1, <1>4 DEF Words
      <4> QED
        BY <4>1, <4>2, <1>1 DEF Words
    <3>3. words = [c \in Bases |-> words[c]]
      BY <3>1, <1>4
    <3> HIDE DEF words
    <3>4. words \in [Bases -> Words]
      BY <3>2, <3>3
    <3> QED
      BY <3>2, <3>4
  <2> QED
    BY <2>1, <2>2
<1> HIDE DEF words
<1>6. bins \in [Bins -> Links] /\ \A bin \in Bins : bins[bin] = IF bin = Bin(n) THEN b ELSE st.bins[bin]
  BY <1>1
<1> HIDE DEF bins
<1>7. new \in Stores
  BY <1>2, <1>5, <1>6 DEF Stores
<1>8. \A c \in Bases :
        /\ new.words[c].next = IF c = b THEN head ELSE st.words[c].next
        /\ new.words[c].prev = IF c = head THEN b ELSE IF c = b THEN NoSpan
                               ELSE st.words[c].prev
        /\ new.words[c].length = IF c \in {b, b + n - 1} THEN n ELSE st.words[c].length
        /\ new.words[c].tag = IF c \in {b, b + n - 1} THEN Free ELSE st.words[c].tag
  BY <1>2, <1>3, <1>4, <1>5
<1> QED
  BY <1>2, <1>6, <1>7, <1>8 DEF new, head

\* A new block, or a taken one that is tagged, touches no word of a free block.
LEMMA AddLists ==
    ASSUME NEW st \in Stores, NEW F, Lists(st, F), NEW b \in Bases, NEW n \in 1 .. EdgeCapacity - b,
           b \notin F, b + n - 1 \notin F
    PROVE  /\ Lists(SpanAdd(st, b, n), F \cup {b})
           /\ Ranked(st, F) => Ranked(SpanAdd(st, b, n), F \cup {b})
<1> DEFINE new == SpanAdd(st, b, n)
           head == st.bins[Bin(n)]
           w == st.words
           v == new.words
<1>1. /\ F \subseteq Bases /\ NoSpan \notin Bases /\ Bin(n) \in Bins
      /\ head = NoSpan \/ (head \in F /\ w[head].prev = NoSpan /\ Bin(w[head].length) = Bin(n))
  BY BinType DEF Lists, NoSpan, Bases
<1>2. /\ new \in Stores
      /\ \A c \in Bases :
           /\ v[c].next = IF c = b THEN head ELSE w[c].next
           /\ v[c].prev = IF c = head THEN b ELSE IF c = b THEN NoSpan ELSE w[c].prev
           /\ v[c].length = IF c \in {b, b + n - 1} THEN n ELSE w[c].length
      /\ \A bin \in Bins : new.bins[bin] = IF bin = Bin(n) THEN b ELSE st.bins[bin]
  BY AddWords
<1>3. \A c \in F : w[c].length \in Nat /\ w[c].length > 0 /\ Bin(w[c].length) \in Bins
  BY <1>1, BinType DEF Lists, Stores, Words
<1> HIDE DEF new, head
<1>4. /\ \A c \in F : c # b /\ v[c].length = w[c].length /\ v[c].next = w[c].next
                      /\ v[c].prev = IF c = head THEN b ELSE w[c].prev
      /\ v[b].length = n /\ v[b].next = head /\ v[b].prev = NoSpan
  BY SMTT(30), <1>1, <1>2
<1>5. Lists(new, F \cup {b})
  <2>1. \A c \in F \cup {b} : v[c].length > 0
    BY <1>3, <1>4
  <2>2. ASSUME NEW bin \in Bins, new.bins[bin] # NoSpan
        PROVE  /\ new.bins[bin] \in F \cup {b} /\ v[new.bins[bin]].prev = NoSpan
               /\ Bin(v[new.bins[bin]].length) = bin
    <3>1. CASE bin = Bin(n)
      BY <3>1, <1>1, <1>2, <1>4
    <3>2. CASE bin # Bin(n)
      <4>1. new.bins[bin] = st.bins[bin] /\ st.bins[bin] \in F
            /\ w[st.bins[bin]].prev = NoSpan /\ Bin(w[st.bins[bin]].length) = bin
        BY <3>2, <2>2, <1>2 DEF Lists
      <4>2. st.bins[bin] # head
        BY <4>1, <3>2, <1>1
      <4> QED
        BY <4>1, <4>2, <1>4
    <3> QED
      BY <3>1, <3>2
  <2>3. ASSUME NEW c \in F \cup {b}, v[c].next # NoSpan
        PROVE  /\ v[c].next \in F \cup {b} /\ v[v[c].next].prev = c
               /\ Bin(v[v[c].next].length) = Bin(v[c].length)
    <3>1. CASE c = b
      BY <3>1, <2>3, <1>1, <1>4
    <3>2. CASE c \in F
      <4>1. w[c].next \in F /\ w[w[c].next].prev = c /\ Bin(w[w[c].next].length) = Bin(w[c].length)
        BY <3>2, <2>3, <1>4 DEF Lists
      <4>2. w[c].next # head
        BY <4>1, <1>1, <3>2
      <4> QED
        BY <4>1, <4>2, <1>4, <3>2
    <3> QED
      BY <3>1, <3>2
  <2>4. ASSUME NEW c \in F \cup {b}
        PROVE  IF v[c].prev = NoSpan THEN new.bins[Bin(v[c].length)] = c
               ELSE /\ v[c].prev \in F \cup {b} /\ v[v[c].prev].next = c
                    /\ Bin(v[v[c].prev].length) = Bin(v[c].length)
    <3>1. CASE c = b
      BY <3>1, <1>1, <1>2, <1>4
    <3>2. CASE c \in F /\ c = head
      BY <3>2, <1>1, <1>4
    <3>3. CASE c \in F /\ c # head
      <4>1. CASE w[c].prev = NoSpan
        <5>1. st.bins[Bin(w[c].length)] = c
          BY <3>3, <4>1 DEF Lists
        <5>2. Bin(w[c].length) # Bin(n)
          BY <5>1, <3>3 DEF head
        <5> QED
          BY <5>1, <5>2, <3>3, <4>1, <1>2, <1>3, <1>4
      <4>2. CASE w[c].prev # NoSpan
        <5>1. w[c].prev \in F /\ w[w[c].prev].next = c
              /\ Bin(w[w[c].prev].length) = Bin(w[c].length)
          BY <3>3, <4>2 DEF Lists
        <5> QED
          BY <5>1, <3>3, <4>2, <1>4
      <4> QED
        BY <4>1, <4>2
    <3> QED
      BY <3>1, <3>2, <3>3
  <2> QED
    BY <2>1, <2>2, <2>3, <2>4, <1>1 DEF Lists
<1>6. ASSUME Ranked(st, F) PROVE Ranked(new, F \cup {b})
  <2>1. PICK rank \in [Bases -> Nat] :
             \A c \in F : w[c].prev # NoSpan => rank[w[c].prev] < rank[c]
    BY <1>6 DEF Ranked
  <2> DEFINE later == [c \in Bases |-> IF c = b THEN 0 ELSE rank[c] + 1]
  <2>2. later \in [Bases -> Nat]
    BY <2>1
  <2>3. ASSUME NEW c \in F \cup {b}, v[c].prev # NoSpan PROVE later[v[c].prev] < later[c]
    <3>1. c \in F
      BY <2>3, <1>4
    <3>2. CASE c = head
      BY <3>1, <3>2, <2>1, <1>1, <1>4
    <3>3. CASE c # head
      <4>1. w[c].prev # NoSpan /\ w[c].prev \in F /\ v[c].prev = w[c].prev
        BY <3>1, <3>3, <2>3, <1>4 DEF Lists
      <4>2. w[c].prev \in Bases /\ w[c].prev # b /\ c # b /\ c \in Bases
        BY <3>1, <4>1, <1>1
      <4>3. rank[w[c].prev] < rank[c]
        BY <4>1, <3>1, <2>1
      <4>4. later[w[c].prev] = rank[w[c].prev] + 1 /\ later[c] = rank[c] + 1
        BY <4>2
      <4>5. rank[w[c].prev] \in Nat /\ rank[c] \in Nat
        BY <4>2, <2>1
      <4> QED
        BY <4>1, <4>3, <4>4, <4>5
    <3> QED
      BY <3>2, <3>3
  <2> HIDE DEF later
  <2> QED
    BY <2>2, <2>3 DEF Ranked
<1> QED
  BY <1>5, <1>6 DEF new

-----------------------------------------------------------------------------
(* The layout of the arena.                                                *)

\* A store whose free blocks are F and whose taken blocks are T.
Arena(st, F, T, hole) ==
    /\ st \in Stores /\ Layout(st.words, F, T, hole)
    /\ Lists(st, F) /\ Ranked(st, F)

\* Tags over words that begin no free block leave the lists alone.
LEMMA TagLists ==
    ASSUME NEW st \in Stores, NEW F, Lists(st, F), Ranked(st, F),
           NEW b \in Bases, NEW n \in 1 .. EdgeCapacity - b, b \notin F, b + n - 1 \notin F
    PROVE  LET new == [st EXCEPT !.words = Tagged(@, b, n, Taken)] IN
           /\ new \in Stores /\ Lists(new, F) /\ Ranked(new, F)
           /\ \A c \in Bases :
                /\ new.words[c].length = IF c \in {b, b + n - 1} THEN n ELSE st.words[c].length
                /\ new.words[c].tag = IF c \in {b, b + n - 1} THEN Taken ELSE st.words[c].tag
<1> DEFINE new == [st EXCEPT !.words = Tagged(@, b, n, Taken)]
           v == new.words
           w == st.words
<1>1. PICK x, y : st = [words |-> x, bins |-> y]
  BY DEF Stores
<1>2. new = [words |-> Tagged(w, b, n, Taken), bins |-> st.bins]
  BY <1>1
<1> HIDE DEF new
<1>3. w \in [Bases -> Words] /\ st.bins \in [Bins -> Links]
  BY DEF Stores
<1>4. /\ Tagged(w, b, n, Taken) \in [Bases -> Words]
      /\ \A c \in Bases :
           /\ v[c].next = w[c].next /\ v[c].prev = w[c].prev
           /\ v[c].length = IF c \in {b, b + n - 1} THEN n ELSE w[c].length
           /\ v[c].tag = IF c \in {b, b + n - 1} THEN Taken ELSE w[c].tag
  BY <1>2, <1>3, TaggedWords
<1>5. new \in Stores
  BY <1>2, <1>3, <1>4 DEF Stores
<1>6. F \subseteq Bases /\ \A c \in F : v[c].next = w[c].next /\ v[c].prev = w[c].prev
                                        /\ v[c].length = w[c].length
  BY <1>4 DEF Lists
<1>7. new.bins = st.bins
  BY <1>2
<1>8. Lists(new, F)
  BY SMTT(30), <1>6, <1>7 DEF Lists
<1>9. Ranked(new, F)
  BY <1>6 DEF Ranked
<1> QED
  BY <1>4, <1>5, <1>8, <1>9 DEF new

\* A block lies in the arena.
LEMMA Bounds ==
    ASSUME NEW w, NEW F, NEW T, NEW hole, Layout(w, F, T, hole), NEW b \in F \cup T
    PROVE  /\ b \in Bases /\ b \in Int /\ b >= 0 /\ w[b].length \in Int /\ w[b].length >= 1
           /\ b + w[b].length <= EdgeCapacity /\ b + w[b].length - 1 \in Bases
<1>1. b \in Bases /\ w[b].length \in 1 .. EdgeCapacity - b
  BY DEF Layout, Ends
<1>2. EdgeCapacity \in Int
  BY SpansAssumption
<1>3. b \in Int /\ b >= 0 /\ w[b].length \in Int /\ w[b].length >= 1 /\ b + w[b].length <= EdgeCapacity
  BY <1>1, <1>2 DEF Bases
<1> QED
  BY <1>1, <1>2, <1>3 DEF Bases

\* The list words play no part in the layout.
LEMMA LayoutSame ==
    ASSUME NEW w \in [Bases -> Words], NEW v \in [Bases -> Words], Same(w, v),
           NEW F, NEW T, NEW hole, Layout(w, F, T, hole)
    PROVE  Layout(v, F, T, hole)
<1>1. \A b \in F \cup T : b \in Bases /\ v[b].length = w[b].length /\ v[b].tag = w[b].tag
  BY DEF Layout, Same
<1>2. ASSUME NEW b \in F \cup T, NEW tag, Ends(w, b, tag) PROVE Ends(v, b, tag)
  <2>1. b + w[b].length - 1 \in Bases
    BY Bounds
  <2> QED
    BY <2>1, <1>1, <1>2 DEF Ends, Same
<1> QED
  BY <1>1, <1>2 DEF Layout

\* A block becomes part of the hole.
LEMMA Vacate ==
    ASSUME NEW w, NEW F, NEW T, NEW hole, Layout(w, F, T, hole), NEW b \in F \cup T
    PROVE  Layout(w, F \ {b}, T \ {b}, hole \cup Cells(b, w[b].length))
<1>1. \A c \in F \cup T : c \in Int /\ w[c].length \in Int /\ w[c].length > 0
  BY Bounds
<1>2. ASSUME NEW c \in (F \cup T) \ {b}
      PROVE  Cells(c, w[c].length) \cap (hole \cup Cells(b, w[b].length)) = {}
  <2>1. b < c \/ c < b
    BY <1>1
  <2>2. b + w[b].length <= c \/ c + w[c].length <= b
    BY <2>1 DEF Layout
  <2> QED
    BY <2>2, <1>1 DEF Cells, Layout
<1>3. \A x \in Bases : \/ x \in hole \cup Cells(b, w[b].length)
                       \/ \E c \in (F \cup T) \ {b} : x \in Cells(c, w[c].length)
  BY DEF Layout
<1>4. (F \ {b}) \cup (T \ {b}) = (F \cup T) \ {b}
  OBVIOUS
<1> QED
  BY <1>2, <1>3, <1>4 DEF Layout

\* The first cells of the hole become a block.
LEMMA Fill ==
    ASSUME NEW w \in [Bases -> Words], NEW v \in [Bases -> Words], NEW F, NEW T,
           NEW h \in Bases, NEW k \in 1 .. EdgeCapacity - h, NEW n \in 1 .. k,
           Layout(w, F, T, Cells(h, k)), NEW tag \in {Free, Taken},
           \A c \in Bases : /\ v[c].length = IF c \in {h, h + n - 1} THEN n ELSE w[c].length
                            /\ v[c].tag = IF c \in {h, h + n - 1} THEN tag ELSE w[c].tag,
           tag = Free => /\ h + n \notin F
                         /\ \A c \in F : c + w[c].length # h
    PROVE  Layout(v, IF tag = Free THEN F \cup {h} ELSE F, IF tag = Taken THEN T \cup {h} ELSE T,
                  Cells(h + n, k - n))
<1> DEFINE G == IF tag = Free THEN F \cup {h} ELSE F
           U == IF tag = Taken THEN T \cup {h} ELSE T
<1>1. G \cup U = (F \cup T) \cup {h} /\ F \subseteq Bases /\ T \subseteq Bases /\ Free # Taken
  BY DEF Free, Taken, Layout
<1>2. ASSUME NEW b \in F \cup T
      PROVE  /\ b \in Int /\ w[b].length \in Int /\ w[b].length > 0 /\ b + w[b].length <= EdgeCapacity
             /\ b + w[b].length <= h \/ h + k <= b
             /\ b # h /\ b # h + n - 1 /\ b + w[b].length - 1 \in Bases
             /\ b + w[b].length - 1 # h /\ b + w[b].length - 1 # h + n - 1
  <2>2. b \in Int /\ b >= 0 /\ w[b].length \in Int /\ w[b].length > 0
        /\ b + w[b].length <= EdgeCapacity /\ b + w[b].length - 1 \in Bases
    BY Bounds
  <2>3. h \in Int /\ k \in Int /\ n \in Int /\ 1 <= n /\ n <= k /\ h + k <= EdgeCapacity
    BY SpansAssumption DEF Bases
  <2>4. Cells(b, w[b].length) \cap Cells(h, k) = {}
    BY DEF Layout
  <2>5. b + w[b].length <= h \/ h + k <= b
    <3>1. CASE b <= h
      <4>1. h \in Cells(h, k)
        BY <2>3 DEF Cells
      <4>2. h \notin Cells(b, w[b].length)
        BY <4>1, <2>4
      <4> QED
        BY <4>2, <2>2, <2>3, <3>1 DEF Cells
    <3>2. CASE b > h
      <4>1. b \in Cells(b, w[b].length)
        BY <2>2 DEF Cells
      <4>2. b \notin Cells(h, k)
        BY <4>1, <2>4
      <4> QED
        BY <4>2, <2>2, <2>3, <3>2 DEF Cells
    <3> QED
      BY <3>1, <3>2, <2>2, <2>3
  <2> QED
    BY <2>2, <2>3, <2>5
<1>3. \A b \in F \cup T : v[b].length = w[b].length
  BY <1>1, <1>2
<1>4. ASSUME NEW b \in F \cup T, NEW t, Ends(w, b, t) PROVE Ends(v, b, t)
  <2>1. b \in Bases /\ v[b].length = w[b].length /\ v[b].tag = w[b].tag
    BY <1>1, <1>2
  <2>2. v[b + w[b].length - 1].length = w[b + w[b].length - 1].length
        /\ v[b + w[b].length - 1].tag = w[b + w[b].length - 1].tag
    BY <1>2
  <2> QED
    BY <2>1, <2>2, <1>4 DEF Ends
<1>5. h + n - 1 \in Bases /\ v[h].length = n /\ h \in Int /\ n \in Int /\ k \in Int /\ n <= k /\ 1 <= n
      /\ h + k <= EdgeCapacity /\ EdgeCapacity \in Int
  BY SpansAssumption DEF Bases
<1>6. Ends(v, h, tag)
  <2>1. n \in 1 .. EdgeCapacity - h
    BY <1>5
  <2> QED
    BY <2>1, <1>5 DEF Ends
<1>7. (\A b \in G : Ends(v, b, Free)) /\ (\A b \in U : Ends(v, b, Taken))
  BY <1>1, <1>4, <1>6 DEF Layout
<1>8. ASSUME NEW b \in G \cup U, NEW c \in G \cup U, b < c PROVE b + v[b].length <= c
  <2>1. CASE b = h /\ c # h
    BY <2>1, <1>1, <1>2, <1>5, <1>8
  <2>2. CASE b # h /\ c = h
    BY <2>2, <1>1, <1>2, <1>3, <1>5, <1>8
  <2>3. CASE b # h /\ c # h
    BY <2>3, <1>1, <1>3, <1>8 DEF Layout
  <2> QED
    BY <2>1, <2>2, <2>3, <1>5, <1>8
<1>9. ASSUME NEW b \in G \cup U PROVE Cells(b, v[b].length) \cap Cells(h + n, k - n) = {}
  <2>1. CASE b = h
    BY <2>1, <1>5 DEF Cells
  <2>2. CASE b # h
    BY SMTT(30), <2>2, <1>1, <1>2, <1>3, <1>5 DEF Cells
  <2> QED
    BY <2>1, <2>2
<1>10. ASSUME NEW x \in Bases
       PROVE  x \in Cells(h + n, k - n) \/ \E b \in G \cup U : x \in Cells(b, v[b].length)
  <2>1. CASE x \in Cells(h, k)
    <3>1. x \in Cells(h, n) \/ x \in Cells(h + n, k - n)
      BY <2>1, <1>5 DEF Cells
    <3> QED
      BY <3>1, <1>1, <1>5
  <2>2. CASE \E b \in F \cup T : x \in Cells(b, w[b].length)
    BY <2>2, <1>1, <1>3
  <2> QED
    BY <2>1, <2>2 DEF Layout
<1>11. ASSUME NEW b \in G, NEW c \in G PROVE b + v[b].length # c
  <2>1. CASE tag = Taken
    BY <2>1, <1>1, <1>3 DEF Layout
  <2>2. CASE tag = Free
    <3>1. CASE b = h
      <4>1. c # h + n
        <5>1. CASE c = h
          BY <5>1, <1>5
        <5>2. CASE c # h
          BY <5>2, <2>2, <1>1
        <5> QED
          BY <5>1, <5>2
      <4> QED
        BY <4>1, <3>1, <1>5
    <3>2. CASE b # h /\ c = h
      BY <3>2, <2>2, <1>1, <1>3
    <3>3. CASE b # h /\ c # h
      BY <3>3, <2>2, <1>1, <1>3 DEF Layout
    <3> QED
      BY <3>1, <3>2, <3>3
  <2> QED
    BY <2>1, <2>2
<1>12. G \subseteq Bases /\ U \subseteq Bases /\ G \cap U = {}
  <2>1. h \notin F /\ h \notin T
    BY <1>2
  <2> QED
    BY <2>1, <1>1 DEF Layout
<1> HIDE DEF G, U
<1>13. Layout(v, G, U, Cells(h + n, k - n))
  BY <1>7, <1>8, <1>9, <1>10, <1>11, <1>12 DEF Layout
<1> QED
  BY <1>13 DEF G, U

\* What the words on either side of a hole say.
LEMMA Neighbours ==
    ASSUME NEW w \in [Bases -> Words], NEW F, NEW T, NEW h \in Bases, NEW k \in 1 .. EdgeCapacity - h,
           Layout(w, F, T, Cells(h, k))
    PROVE  /\ h > 0 /\ w[h - 1].tag = Free =>
                 /\ h - w[h - 1].length \in F
                 /\ w[h - w[h - 1].length].length = w[h - 1].length
           /\ ~(h > 0 /\ w[h - 1].tag = Free) => \A c \in F : c + w[c].length # h
           /\ h + k < EdgeCapacity => (w[h + k].tag = Free <=> h + k \in F)
           /\ h + k >= EdgeCapacity => h + k \notin F
<1>1. /\ h \in Int /\ h >= 0 /\ k \in Int /\ k >= 1 /\ h + k <= EdgeCapacity /\ EdgeCapacity \in Int
      /\ Free # Taken /\ F \subseteq Bases /\ T \subseteq Bases
  BY SpansAssumption DEF Bases, Free, Taken, Layout
<1>2. \A b \in F \cup T : /\ b \in Int /\ b >= 0 /\ w[b].length \in Int /\ w[b].length >= 1
                          /\ b + w[b].length <= EdgeCapacity
  BY Bounds
<1>3. ASSUME h > 0
      PROVE  \E b \in F \cup T : b + w[b].length = h
  <2>1. h - 1 \in Bases /\ h - 1 \notin Cells(h, k)
    BY <1>1, <1>3 DEF Bases, Cells
  <2>2. PICK b \in F \cup T : h - 1 \in Cells(b, w[b].length)
    BY <2>1 DEF Layout
  <2>3. h \notin Cells(b, w[b].length)
    <3>1. h \in Cells(h, k)
      BY <1>1 DEF Cells
    <3> QED
      BY <3>1 DEF Layout
  <2> QED
    BY SMTT(30), <2>2, <2>3, <1>1, <1>2 DEF Cells
<1>4. ASSUME NEW b \in F \cup T, b + w[b].length = h
      PROVE  /\ w[h - 1].length = w[b].length /\ h - w[h - 1].length = b
             /\ w[h - 1].tag = Free <=> b \in F
  <2>1. b + w[b].length - 1 = h - 1
    BY <1>2, <1>4, <1>1
  <2>2. w[h - 1].length = w[b].length /\ w[h - 1].tag = IF b \in F THEN Free ELSE Taken
    BY <2>1 DEF Layout, Ends
  <2> QED
    BY <2>2, <1>1, <1>2, <1>4
<1>5. ASSUME h > 0, w[h - 1].tag = Free
      PROVE  h - w[h - 1].length \in F /\ w[h - w[h - 1].length].length = w[h - 1].length
  <2>1. PICK b \in F \cup T : b + w[b].length = h
    BY <1>3, <1>5
  <2>2. w[h - 1].length = w[b].length /\ h - w[h - 1].length = b /\ b \in F
    BY <2>1, <1>4, <1>5
  <2> QED
    BY <2>2
<1>6. ASSUME ~(h > 0 /\ w[h - 1].tag = Free), NEW c \in F PROVE c + w[c].length # h
  <2>1. CASE h > 0
    BY <2>1, <1>4, <1>6
  <2>2. CASE ~(h > 0)
    BY <2>2, <1>1, <1>2
  <2> QED
    BY <2>1, <2>2
<1>7. ASSUME h + k < EdgeCapacity PROVE w[h + k].tag = Free <=> h + k \in F
  <2>1. h + k \in Bases /\ h + k \notin Cells(h, k)
    BY <1>1, <1>7 DEF Bases, Cells
  <2>2. PICK b \in F \cup T : h + k \in Cells(b, w[b].length)
    BY <2>1 DEF Layout
  <2>3. h + k - 1 \notin Cells(b, w[b].length)
    <3>1. h + k - 1 \in Cells(h, k)
      BY <1>1 DEF Cells
    <3> QED
      BY <3>1 DEF Layout
  <2>4. b = h + k
    BY <2>2, <2>3, <1>1, <1>2 DEF Cells
  <2> QED
    BY <2>4, <1>1 DEF Layout, Ends
<1>8. h + k >= EdgeCapacity => h + k \notin F
  BY <1>1 DEF Bases
<1> QED
  BY <1>5, <1>6, <1>7, <1>8

-----------------------------------------------------------------------------
(* Blocks are cut, freed and joined.                                       *)

\* A free block leaves its list; its cells become part of the hole.
LEMMA Unlinked ==
    ASSUME NEW st, NEW F, NEW T, NEW hole, Arena(st, F, T, hole), NEW b \in F
    PROVE  LET new == SpanUnlink(st, b) IN
           /\ Arena(new, F \ {b}, T, hole \cup Cells(b, st.words[b].length))
           /\ Same(st.words, new.words)
<1> DEFINE new == SpanUnlink(st, b)
<1>1. b \in Bases /\ st \in Stores /\ st.words \in [Bases -> Words]
  BY DEF Arena, Layout, Stores
<1>2. new \in Stores /\ Same(st.words, new.words)
  BY <1>1, UnlinkWords
<1>3. new.words \in [Bases -> Words]
  BY <1>2 DEF Stores
<1>4. Lists(new, F \ {b}) /\ Ranked(new, F \ {b})
  BY <1>1, UnlinkLists DEF Arena
<1>5. Layout(st.words, F \ {b}, T \ {b}, hole \cup Cells(b, st.words[b].length))
  BY Vacate DEF Arena
<1>6. T \ {b} = T
  BY DEF Arena, Layout
<1> HIDE DEF new
<1>7. Layout(new.words, F \ {b}, T, hole \cup Cells(b, st.words[b].length))
  BY SMTT(30), <1>1, <1>2, <1>3, <1>5, <1>6, LayoutSame
<1> QED
  BY <1>2, <1>4, <1>7 DEF Arena, new

\* A hole in the arena that no free block touches.
Alone(words, F, h, k) ==
    /\ h \in Bases /\ k \in 1 .. EdgeCapacity - h
    /\ h + k \notin F /\ \A c \in F : c + words[c].length # h

\* A hole no free block touches becomes a free block.
LEMMA Added ==
    ASSUME NEW st, NEW F, NEW T, NEW h, NEW k,
           Arena(st, F, T, Cells(h, k)), Alone(st.words, F, h, k)
    PROVE  /\ Arena(SpanAdd(st, h, k), F \cup {h}, T, {})
           /\ \A c \in T : SpanAdd(st, h, k).words[c].length = st.words[c].length
<1> DEFINE new == SpanAdd(st, h, k)
<1>1. /\ st \in Stores /\ st.words \in [Bases -> Words] /\ F \subseteq Bases /\ T \subseteq Bases
      /\ h \in Bases /\ k \in 1 .. EdgeCapacity - h
  BY DEF Arena, Layout, Stores, Alone
<1>2. h \in Int /\ k \in Int /\ k >= 1 /\ h + k <= EdgeCapacity /\ EdgeCapacity \in Int
  BY <1>1, SpansAssumption DEF Bases
<1>3. h \in Cells(h, k) /\ h + k - 1 \in Cells(h, k)
  BY <1>2 DEF Cells
<1>4. ASSUME NEW c \in F \cup T PROVE c # h /\ c # h + k - 1
  <2>1. c \in Int /\ st.words[c].length \in Int /\ st.words[c].length >= 1
    BY Bounds DEF Arena
  <2>2. c \in Cells(c, st.words[c].length)
    BY <2>1 DEF Cells
  <2> QED
    BY <2>2, <1>3 DEF Arena, Layout
<1>5. /\ new \in Stores
      /\ \A c \in Bases :
           /\ new.words[c].length = IF c \in {h, h + k - 1} THEN k ELSE st.words[c].length
           /\ new.words[c].tag = IF c \in {h, h + k - 1} THEN Free ELSE st.words[c].tag
  BY <1>1, AddWords
<1>6. Lists(new, F \cup {h}) /\ Ranked(new, F \cup {h})
  BY <1>1, <1>4, AddLists DEF Arena
<1> HIDE DEF new
<1>7. new.words \in [Bases -> Words]
  BY <1>5 DEF Stores
<1>8. k \in 1 .. k /\ Free # Taken
  BY <1>2 DEF Free, Taken
<1>9. Layout(st.words, F, T, Cells(h, k))
  BY DEF Arena
<1>10. Layout(new.words, F \cup {h}, T, Cells(h + k, k - k))
  <2>1. Layout(new.words, IF Free = Free THEN F \cup {h} ELSE F, IF Free = Taken THEN T \cup {h} ELSE T,
               Cells(h + k, k - k))
    BY <1>1, <1>5, <1>7, <1>8, <1>9, Fill DEF Alone
  <2> QED
    BY <2>1, <1>8
<1>11. Cells(h + k, k - k) = {}
  BY <1>2 DEF Cells
<1> QED
  BY <1>1, <1>4, <1>5, <1>6, <1>10, <1>11 DEF Arena, new

\* A free block of a store with at least n cells, and a store in which its first
\* n cells are taken instead and the other taken blocks are as before.
Cuttable(st, F, T, b, n) == Arena(st, F, T, {}) /\ b \in F /\ n \in 1 .. st.words[b].length

CutFrom(new, st, T, b, n) ==
    /\ \E G : Arena(new, G, T \cup {b}, {})
    /\ new.words[b].length = n
    /\ \A c \in T : new.words[c].length = st.words[c].length

\* The cut of a free block: its first n cells are taken, the rest is free.
LEMMA CutLemma ==
    ASSUME NEW st, NEW F, NEW T, NEW b, NEW n, Cuttable(st, F, T, b, n)
    PROVE  CutFrom(Cut(st, b, n, st.words[b].length), st, T, b, n)
<1> DEFINE new == Cut(st, b, n, st.words[b].length)
           k == st.words[b].length
           off == SpanUnlink(st, b)
           taken == [off EXCEPT !.words = Tagged(@, b, n, Taken)]
<1> SUFFICES ASSUME Arena(st, F, T, {}), b \in F, n \in 1 .. st.words[b].length
             PROVE  /\ \E G : Arena(new, G, T \cup {b}, {})
                    /\ new.words[b].length = n
                    /\ \A c \in T : new.words[c].length = st.words[c].length
  BY DEF Cuttable, CutFrom
<1>1. /\ b \in Bases /\ b \in Int /\ b >= 0 /\ k \in Int /\ k >= 1 /\ b + k <= EdgeCapacity
      /\ b + k - 1 \in Bases /\ EdgeCapacity \in Int /\ Free # Taken
  BY Bounds, SpansAssumption DEF Arena, Free, Taken
<1>2. n \in Int /\ n >= 1 /\ n <= k /\ n \in 1 .. EdgeCapacity - b
  BY <1>1
<1>3. Arena(off, F \ {b}, T, Cells(b, k)) /\ Same(st.words, off.words)
  <2>1. {} \cup Cells(b, k) = Cells(b, k)
    OBVIOUS
  <2> QED
    BY <2>1, Unlinked
<1> HIDE DEF off, k
<1>4. /\ off \in Stores /\ off.words \in [Bases -> Words] /\ Lists(off, F \ {b}) /\ Ranked(off, F \ {b})
      /\ Layout(off.words, F \ {b}, T, Cells(b, k)) /\ F \subseteq Bases /\ T \subseteq Bases
  BY <1>3 DEF Arena, Stores, Layout
<1>5. ASSUME NEW c \in (F \ {b}) \cup T
      PROVE  c # b /\ c # b + n - 1 /\ c # b + k - 1
  <2>1. c \in Int /\ off.words[c].length \in Int /\ off.words[c].length >= 1
    BY <1>4, Bounds
  <2>2. c \in Cells(c, off.words[c].length)
    BY <2>1 DEF Cells
  <2>3. b + n - 1 \in Cells(b, k) /\ b \in Cells(b, k) /\ b + k - 1 \in Cells(b, k)
    BY <1>1, <1>2 DEF Cells
  <2> QED
    BY <2>2, <2>3, <1>4 DEF Layout
<1>6. /\ taken \in Stores /\ Lists(taken, F \ {b}) /\ Ranked(taken, F \ {b})
      /\ \A c \in Bases :
           /\ taken.words[c].length = IF c \in {b, b + n - 1} THEN n ELSE off.words[c].length
           /\ taken.words[c].tag = IF c \in {b, b + n - 1} THEN Taken ELSE off.words[c].tag
  <2>1. b \notin F \ {b} /\ b + n - 1 \notin F \ {b}
    BY <1>5
  <2> QED
    BY <2>1, <1>1, <1>2, <1>4, TagLists
<1> HIDE DEF taken
<1>7. taken.words \in [Bases -> Words]
  BY <1>6 DEF Stores
<1>8. Layout(taken.words, F \ {b}, T \cup {b}, Cells(b + n, k - n))
  <2>1. k \in 1 .. EdgeCapacity - b /\ n \in 1 .. k
    BY <1>1, <1>2
  <2>2. Taken \in {Free, Taken} /\ ~(Taken = Free)
    BY <1>1
  <2>3. Layout(taken.words, IF Taken = Free THEN (F \ {b}) \cup {b} ELSE F \ {b},
               IF Taken = Taken THEN T \cup {b} ELSE T, Cells(b + n, k - n))
    BY <2>1, <2>2, <1>1, <1>4, <1>6, <1>7, Fill
  <2> QED
    BY <2>2, <2>3
<1>9. Arena(taken, F \ {b}, T \cup {b}, Cells(b + n, k - n))
  BY <1>6, <1>8 DEF Arena
<1>10. taken.words[b].length = n /\ \A c \in T : taken.words[c].length = st.words[c].length
  <2>1. \A c \in T : off.words[c].length = st.words[c].length
    BY <1>3, <1>4 DEF Same
  <2> QED
    BY <2>1, <1>1, <1>4, <1>5, <1>6
<1>11. CASE k > n
  <2>1. b + n \in Bases /\ k - n \in 1 .. EdgeCapacity - (b + n)
    BY <1>1, <1>2, <1>11 DEF Bases
  <2>2. (b + n) + (k - n) \notin F \ {b}
    <3>1. (b + n) + (k - n) = b + k
      BY <1>1, <1>2
    <3>2. b + k \notin F
      BY DEF k, Arena, Layout
    <3> QED
      BY <3>1, <3>2
  <2>3. ASSUME NEW c \in F \ {b} PROVE c + taken.words[c].length # b + n
    <3>1. c \in Int /\ off.words[c].length \in Int /\ off.words[c].length >= 1
      BY <1>4, Bounds
    <3>2. taken.words[c].length = off.words[c].length
      BY <1>4, <1>5, <1>6
    <3>3. c + off.words[c].length - 1 \in Cells(c, off.words[c].length)
      BY <3>1 DEF Cells
    <3>4. c + off.words[c].length - 1 \notin Cells(b, k)
      BY <3>3, <1>4 DEF Layout
    <3>5. b + n - 1 \in Cells(b, k)
      BY <1>1, <1>2 DEF Cells
    <3> QED
      BY <3>1, <3>2, <3>4, <3>5, <1>1, <1>2
  <2>4. new = SpanAdd(taken, b + n, k - n)
    BY <1>11 DEF Cut, taken, off, k
  <2> HIDE DEF new
  <2>5. /\ Arena(new, (F \ {b}) \cup {b + n}, T \cup {b}, {})
        /\ \A c \in T \cup {b} : new.words[c].length = taken.words[c].length
    <3> DEFINE base == b + n
               rest == k - n
               G == F \ {b}
               U == T \cup {b}
    <3>1. /\ Arena(taken, G, U, Cells(base, rest)) /\ Alone(taken.words, G, base, rest)
          /\ new = SpanAdd(taken, base, rest)
      BY <2>1, <2>2, <2>3, <2>4, <1>9 DEF Alone
    <3> HIDE DEF base, rest, G, U, taken
    <3>2. Arena(taken, G, U, Cells(base, rest)) /\ Alone(taken.words, G, base, rest)
      BY ONLY <3>1
    <3>3. /\ Arena(SpanAdd(taken, base, rest), G \cup {base}, U, {})
          /\ \A c \in U : SpanAdd(taken, base, rest).words[c].length = taken.words[c].length
      BY ONLY <3>2, Added
    <3> QED
      BY <3>1, <3>3 DEF base, G, U
  <2> QED
    BY <2>5, <1>10 DEF new, k
<1>12. CASE ~(k > n)
  <2>1. new = taken
    BY <1>12 DEF Cut, taken, off, k
  <2>2. Cells(b + n, k - n) = {}
    BY <1>1, <1>2, <1>12 DEF Cells
  <2> HIDE DEF new
  <2>3. Arena(new, F \ {b}, T \cup {b}, {})
    BY <2>1, <2>2, <1>9
  <2> QED
    BY <2>1, <2>3, <1>10 DEF new, k
<1> QED
  BY <1>11, <1>12

\* A taken block becomes free and joins its free neighbours.
LEMMA FreeLemma ==
    ASSUME NEW st, NEW F, NEW T, Arena(st, F, T, {}), NEW b \in T
    PROVE  LET new == SpanFree(st, b, st.words[b].length) IN
           /\ \E G : Arena(new, G, T \ {b}, {})
           /\ \A c \in T \ {b} : new.words[c].length = st.words[c].length
<1> DEFINE n == st.words[b].length
           U == T \ {b}
           first == [store |-> st, base |-> b, length |-> n]
           second == JoinLeft(first)
           third == JoinRight(second)
           new == SpanFree(st, b, n)
<1>1. /\ b \in Bases /\ b \in Int /\ b >= 0 /\ n \in Int /\ n >= 1 /\ b + n <= EdgeCapacity
      /\ EdgeCapacity \in Int /\ b \notin F
  <2>1. Layout(st.words, F, T, {}) /\ b \in F \cup T
    BY DEF Arena
  <2>2. b \notin F
    BY <2>1 DEF Layout
  <2> QED
    BY <2>1, <2>2, Bounds, SpansAssumption
<1>2. new = AddBlock(third)
  BY <1>1 DEF SpanFree
<1>3. st \in Stores /\ st.words \in [Bases -> Words] /\ F \subseteq Bases /\ T \subseteq Bases
  BY DEF Arena, Stores, Layout
<1>4. Arena(st, F, U, Cells(b, n))
  <2>1. Layout(st.words, F \ {b}, T \ {b}, {} \cup Cells(b, n))
    BY Vacate DEF Arena
  <2>2. F \ {b} = F /\ {} \cup Cells(b, n) = Cells(b, n)
    BY SMTT(30), <1>1
  <2> QED
    BY <2>1, <2>2 DEF Arena
<1> DEFINE Hole(z, G) ==
             /\ z.base \in Bases /\ z.length \in 1 .. EdgeCapacity - z.base
             /\ Arena(z.store, G, U, Cells(z.base, z.length))
             /\ \A c \in Bases : z.store.words[c].length = st.words[c].length
<1>5. \E G : Hole(second, G) /\ \A c \in G : c + second.store.words[c].length # second.base
  <2> DEFINE k == st.words[b - 1].length
  <2>1. first.store = st /\ first.base = b /\ first.length = n
    OBVIOUS
  <2>2. CASE b > 0 /\ st.words[b - 1].tag = Free
    <3>1. second = [store |-> SpanUnlink(st, b - k), base |-> b - k, length |-> n + k]
      BY <2>1, <2>2 DEF JoinLeft
    <3>2. b - k \in F /\ st.words[b - k].length = k
      <4>1. n \in 1 .. EdgeCapacity - b
        BY <1>1
      <4>2. Layout(st.words, F, U, Cells(b, n))
        BY <1>4 DEF Arena
      <4> QED
        BY <4>1, <4>2, <2>2, <1>1, <1>3, Neighbours
    <3>3. /\ Arena(SpanUnlink(st, b - k), F \ {b - k}, U, Cells(b, n) \cup Cells(b - k, k))
          /\ Same(st.words, SpanUnlink(st, b - k).words)
      BY <3>2, <1>4, Unlinked
    <3>4. k \in Int /\ k >= 1 /\ b - k \in Bases /\ b - k >= 0
      <4>1. b - k \in Bases /\ b - k \in Int /\ b - k >= 0 /\ st.words[b - k].length \in Int
            /\ st.words[b - k].length >= 1
        BY <3>2, <1>4, Bounds DEF Arena
      <4> QED
        BY <4>1, <3>2
    <3> HIDE DEF k, n
    <3>5. Cells(b, n) \cup Cells(b - k, k) = Cells(b - k, n + k)
      BY <3>4, <1>1 DEF Cells
    <3>6. n + k \in 1 .. EdgeCapacity - (b - k)
      BY <3>4, <1>1
    <3> HIDE DEF second
    <3>7. Hole(second, F \ {b - k})
      BY <3>1, <3>3, <3>4, <3>5, <3>6 DEF Same
    <3>8. ASSUME NEW c \in F \ {b - k} PROVE c + second.store.words[c].length # second.base
      <4>1. second.store.words[c].length = st.words[c].length
        BY <3>7, <1>3
      <4> QED
        BY <4>1, <3>1, <3>2, <1>4 DEF Arena, Layout
    <3> QED
      BY <3>7, <3>8
  <2>3. CASE ~(b > 0 /\ st.words[b - 1].tag = Free)
    <3>1. second = first
      BY <2>1, <2>3 DEF JoinLeft
    <3>2. \A c \in F : c + st.words[c].length # b
      <4>1. n \in 1 .. EdgeCapacity - b
        BY <1>1
      <4>2. Layout(st.words, F, U, Cells(b, n))
        BY <1>4 DEF Arena
      <4> QED
        BY <4>1, <4>2, <2>3, <1>1, <1>3, Neighbours
    <3>3. n \in 1 .. EdgeCapacity - b
      BY <1>1
    <3> HIDE DEF second, n
    <3>4. Hole(second, F)
      BY <3>1, <3>3, <1>1, <1>4
    <3> QED
      BY <3>1, <3>2, <3>4
  <2> QED
    BY <2>2, <2>3
<1> HIDE DEF second
<1>6. PICK G : Hole(second, G) /\ \A c \in G : c + second.store.words[c].length # second.base
  BY <1>5
<1> DEFINE h == second.base
           k == second.length
           end == h + k
           s2 == second.store
<1>7. /\ h \in Int /\ h >= 0 /\ k \in Int /\ k >= 1 /\ end <= EdgeCapacity /\ h \in Bases
      /\ k \in 1 .. EdgeCapacity - h
      /\ s2 \in Stores /\ s2.words \in [Bases -> Words] /\ G \subseteq Bases /\ U \subseteq Bases
      /\ Layout(s2.words, G, U, Cells(h, k))
  <2>1. h \in Bases /\ k \in 1 .. EdgeCapacity - h /\ Arena(s2, G, U, Cells(h, k))
    BY <1>6
  <2> HIDE DEF h, k, s2
  <2>2. h \in Int /\ h >= 0 /\ k \in Int /\ k >= 1 /\ end <= EdgeCapacity
    BY <2>1, <1>1 DEF Bases
  <2>3. s2 \in Stores /\ s2.words \in [Bases -> Words] /\ G \subseteq Bases /\ U \subseteq Bases
        /\ Layout(s2.words, G, U, Cells(h, k))
    BY <2>1 DEF Arena, Stores, Layout
  <2> QED
    BY <2>1, <2>2, <2>3
<1>8. /\ end < EdgeCapacity => (s2.words[end].tag = Free <=> end \in G)
      /\ end >= EdgeCapacity => end \notin G
  BY <1>7, Neighbours
<1>9. \E K : /\ Hole(third, K) /\ third.base + third.length \notin K
             /\ \A c \in K : c + third.store.words[c].length # third.base
  <2>1. CASE end < EdgeCapacity /\ s2.words[end].tag = Free
    <3> DEFINE l == s2.words[end].length
    <3>1. third = [second EXCEPT !.store = SpanUnlink(s2, end), !.length = @ + l]
      BY <2>1 DEF JoinRight
    <3>2. third.store = SpanUnlink(s2, end) /\ third.base = h /\ third.length = k + l
      <4>1. second = [store |-> s2, base |-> h, length |-> k]
        BY DEF second, JoinLeft
      <4>2. PICK x, y, z : second = [store |-> x, base |-> y, length |-> z]
        BY <4>1
      <4> HIDE DEF third, l
      <4> QED
        BY <4>2, <3>1
    <3>3. end \in G
      BY <2>1, <1>8
    <3>4. /\ Arena(SpanUnlink(s2, end), G \ {end}, U, Cells(h, k) \cup Cells(end, l))
          /\ Same(s2.words, SpanUnlink(s2, end).words)
      BY <3>3, <1>6, Unlinked
    <3>5. l \in Int /\ l >= 1 /\ end + l <= EdgeCapacity
      BY <3>3, <1>7, Bounds
    <3> HIDE DEF l, third
    <3>6. Cells(h, k) \cup Cells(end, l) = Cells(h, k + l)
      <4>1. h \in Int /\ k \in Int /\ k >= 1 /\ end = h + k
        BY <1>7
      <4> QED
        BY ONLY SMTT(30), <4>1, <3>5 DEF Cells
    <3>7. k + l \in 1 .. EdgeCapacity - h
      BY <3>5, <1>1, <1>7
    <3>8. \A c \in Bases : third.store.words[c].length = s2.words[c].length
      BY <3>2, <3>4 DEF Same
    <3>9. Hole(third, G \ {end})
      BY <3>2, <3>4, <3>6, <3>7, <3>8, <1>6, <1>7
    <3>10. third.base + third.length \notin G \ {end}
      <4>1. end + s2.words[end].length \notin G
        BY <3>3, <1>7 DEF Layout
      <4>2. third.base + third.length = end + s2.words[end].length
        BY <3>2, <3>5, <1>7 DEF l
      <4> QED
        BY <4>1, <4>2
    <3>11. \A c \in G \ {end} : c + third.store.words[c].length # third.base
      BY <3>2, <3>8, <1>6, <1>7
    <3> QED
      BY <3>9, <3>10, <3>11
  <2>2. CASE ~(end < EdgeCapacity /\ s2.words[end].tag = Free)
    <3>1. third = second
      BY <2>2 DEF JoinRight
    <3>2. end \notin G
      BY <2>2, <1>1, <1>7, <1>8
    <3> HIDE DEF third
    <3> QED
      BY <3>1, <3>2, <1>6
  <2> QED
    BY <2>1, <2>2
<1> HIDE DEF third
<1>10. PICK K : /\ Hole(third, K) /\ third.base + third.length \notin K
                /\ \A c \in K : c + third.store.words[c].length # third.base
  BY <1>9
<1>11. /\ Arena(SpanAdd(third.store, third.base, third.length), K \cup {third.base}, U, {})
       /\ \A c \in U : SpanAdd(third.store, third.base, third.length).words[c].length
                       = third.store.words[c].length
  <2>1. /\ Arena(third.store, K, U, Cells(third.base, third.length))
        /\ Alone(third.store.words, K, third.base, third.length)
    BY <1>10 DEF Alone
  <2> HIDE DEF U, Hole
  <2> QED
    BY <2>1, Added
<1>12. \A c \in U : third.store.words[c].length = st.words[c].length
  BY <1>3, <1>10
<1> HIDE DEF new
<1> QED
  BY <1>2, <1>11, <1>12 DEF AddBlock, new, n

-----------------------------------------------------------------------------
(* The search of a block.                                                  *)

\* Every inhabited set of numbers has a least one.
LEMMA Least ==
    ASSUME NEW S, S \subseteq Nat, S # {}
    PROVE  \E n \in S : \A k \in S : n <= k
<1>1. IsWellFoundedOn(OpToRel(<, Nat), Nat)
  BY NatLessThanWellFounded
<1>2. PICK n \in S : \A k \in S : <<k, n>> \notin OpToRel(<, Nat)
  BY <1>1, WFMin
<1>3. \A k \in S : ~(k < n)
  BY <1>2 DEF OpToRel
<1> QED
  BY <1>3

\* The first block of a list is its head.
LEMMA HeadOfList ==
    ASSUME NEW st \in Stores, NEW F, Lists(st, F), Ranked(st, F), NEW b \in F
    PROVE  st.bins[Bin(st.words[b].length)] # NoSpan
<1> DEFINE w == st.words
           mates == {c \in F : Bin(w[c].length) = Bin(w[b].length)}
<1>1. PICK rank \in [Bases -> Nat] : \A c \in F : w[c].prev # NoSpan => rank[w[c].prev] < rank[c]
  BY DEF Ranked
<1>2. F \subseteq Bases /\ NoSpan \notin Bases
  BY DEF Lists, NoSpan, Bases
<1>3. {rank[c] : c \in mates} \subseteq Nat /\ {rank[c] : c \in mates} # {}
  BY <1>1, <1>2
<1>4. PICK n \in {rank[c] : c \in mates} : \A k \in {rank[c] : c \in mates} : n <= k
  BY <1>3, Least
<1>5. PICK c \in mates : n = rank[c]
  BY <1>4
<1>6. w[c].prev = NoSpan
  <2>1. SUFFICES ASSUME w[c].prev # NoSpan PROVE FALSE
    OBVIOUS
  <2>2. w[c].prev \in mates /\ rank[w[c].prev] < rank[c]
    BY <2>1, <1>1, <1>5 DEF Lists
  <2>3. n <= rank[w[c].prev] /\ rank[w[c].prev] \in Nat /\ n \in Nat
    BY <2>2, <1>3, <1>4
  <2> QED
    BY <2>2, <2>3, <1>5
<1>7. st.bins[Bin(w[c].length)] = c
  BY <1>5, <1>6 DEF Lists
<1> QED
  BY <1>2, <1>5, <1>7

\* The block that is found is free and long enough; one is found when there is one.
LEMMA FindLemma ==
    ASSUME NEW st, NEW F, NEW T, Arena(st, F, T, {}), NEW n \in 1 .. MaxActions
    PROVE  /\ SpanFind(st, n) # NoSpan =>
                 SpanFind(st, n) \in F /\ st.words[SpanFind(st, n)].length >= n
           /\ SpanFind(st, n) = NoSpan => \A b \in F : st.words[b].length < n
<1> DEFINE fits(bin) == st.bins[bin] # NoSpan /\ st.words[st.bins[bin]].length >= n
           found == {bin \in Bin(n) .. Overflow : fits(bin)}
           least == CHOOSE bin \in found : \A other \in found : bin <= other
<1>1. /\ st \in Stores /\ Lists(st, F) /\ Ranked(st, F) /\ Layout(st.words, F, T, {})
      /\ n \in Nat /\ n >= 1 /\ n <= MaxActions /\ MaxActions \in Nat /\ MaxActions <= EdgeCapacity
      /\ EdgeCapacity \in Nat /\ Overflow = MaxActions + 1 /\ Bins = 0 .. MaxActions + 1
  BY SpansAssumption DEF Arena, Overflow, Bins
<1>2. Bin(n) = n
  BY SMTT(30), <1>1 DEF Bin
<1>3. SpanFind(st, n) = IF found = {} THEN NoSpan ELSE st.bins[least]
  BY <1>1 DEF SpanFind
<1>4. ASSUME found # {} PROVE st.bins[least] \in F /\ st.words[st.bins[least]].length >= n
  <2>1. found \subseteq Nat /\ found \subseteq Bins
    BY <1>1, <1>2
  <2>2. \E bin \in found : \A other \in found : bin <= other
    BY <1>4, <2>1, Least
  <2>3. least \in found
    BY ZenonT(60), <2>2
  <2> HIDE DEF least
  <2> QED
    BY <2>1, <2>3, <1>1 DEF Lists
<1>5. ASSUME NEW b \in F, st.words[b].length >= n PROVE found # {}
  <2> DEFINE k == st.words[b].length
             bin == Bin(k)
             head == st.bins[bin]
  <2>1. k \in Nat /\ k >= n
    BY <1>1, <1>5, Bounds
  <2>2. head # NoSpan
    BY <1>1, HeadOfList
  <2>3. bin \in Bins /\ bin \in Bin(n) .. Overflow
    BY SMTT(30), <2>1, <1>1, <1>2 DEF Bin
  <2>4. head \in F /\ Bin(st.words[head].length) = bin
    BY <2>2, <2>3, <1>1 DEF Lists
  <2>5. st.words[head].length \in Nat
    BY SMTT(30), <2>4, <1>1, Bounds
  <2> HIDE DEF head, k
  <2>6. st.words[head].length >= n
    BY <2>1, <2>4, <2>5, <1>1 DEF Bin
  <2> QED
    BY <2>2, <2>3, <2>6 DEF head
<1> HIDE DEF found, least
<1>6. NoSpan \notin F
  BY <1>1 DEF Lists, NoSpan, Bases
<1>7. ASSUME SpanFind(st, n) = NoSpan, NEW b \in F PROVE st.words[b].length < n
  <2>1. found = {}
    BY <1>7, <1>3, <1>4, <1>6
  <2>2. st.words[b].length \in Nat
    BY <1>1, Bounds
  <2> QED
    BY <2>1, <2>2, <1>1, <1>5
<1> QED
  BY <1>3, <1>4, <1>7

\* The arena of an empty graph is one free block.
LEMMA InitLemma == Arena(SpanInit, {0}, {}, {})
<1> DEFINE st == [words |-> [b \in Bases |-> Blank], bins |-> [bin \in Bins |-> NoSpan]]
<1>1. EdgeCapacity \in Nat /\ EdgeCapacity >= 1 /\ 0 \in Bases
  BY SpansAssumption DEF Bases
<1>2. st \in Stores
  <2>1. Blank \in Words
    BY <1>1 DEF Blank, Words, Links, Untagged
  <2> QED
    BY <2>1 DEF Stores, Links
<1>3. Layout(st.words, {}, {}, Cells(0, EdgeCapacity))
  BY <1>1 DEF Layout, Cells, Bases
<1>4. Lists(st, {})
  BY DEF Lists
<1>5. Ranked(st, {})
  <2>1. [b \in Bases |-> 0] \in [Bases -> Nat]
    OBVIOUS
  <2> QED
    BY <2>1 DEF Ranked
<1>6. Alone(st.words, {}, 0, EdgeCapacity)
  BY <1>1 DEF Alone
<1> HIDE DEF st
<1>7. Arena(SpanAdd(st, 0, EdgeCapacity), {} \cup {0}, {}, {})
  BY <1>2, <1>3, <1>4, <1>5, <1>6, Added DEF Arena
<1> QED
  BY <1>7 DEF SpanInit, st

-----------------------------------------------------------------------------
(* The invariant of a graph, and its table.                                *)

\* The ranges of the words of a graph; the counters of protections have no bound here.
Gens == 0 .. MaxGeneration
Nodes == [pub: BOOLEAN, gen: Gens, state: States \cup {NoState}, span: Links,
          count: 0 .. MaxActions, path: Nat, eval: Nat, pin: Nat, ref: BOOLEAN,
          next: Slots \cup {NoNode}]
Edges == [pub: BOOLEAN, parent: Slots, parentGen: Gens, child: Slots \cup {NoNode},
          childGen: Gens, lease: Nat, gen: Gens]
TTEntries == [status: {Empty, Used, Tombstone}, key: Int, slot: Slots, gen: Gens]
Graphs == [spans: Stores, nodes: [Slots -> Nodes], edges: [Bases -> Edges],
           tt: [Entries -> TTEntries], high: 0 .. NodeCapacity, free: Slots \cup {NoNode},
           clock: Nat, root: Slots \cup {NoNode}, rootGen: Gens, live: Int, liveEdges: Int]

\* The slots that hold a live node, and those below the mark that hold none.
LiveOf(g) == {n \in Slots : g.nodes[n].pub}
Vacated(g) == {n \in Slots : n < g.high /\ ~g.nodes[n].pub}

\* Nodes stand in slots below the mark; the others below it are the free list,
\* which no two slots enter at the same place.
Slotted(g) ==
    /\ \A n \in LiveOf(g) :
          /\ n < g.high /\ g.nodes[n].gen > 0 /\ g.nodes[n].state \in States
          /\ g.nodes[n].count = Len(Moves[g.nodes[n].state])
    /\ \A n \in Slots \ LiveOf(g) :
          g.nodes[n].path = 0 /\ g.nodes[n].eval = 0 /\ g.nodes[n].pin = 0
    /\ g.free # NoNode => g.free \in Vacated(g)
    /\ \A n \in Vacated(g) :
          g.nodes[n].next # NoNode => g.nodes[n].next \in Vacated(g) \ {g.free}
    /\ \A k, n \in Vacated(g) :
          g.nodes[k].next = g.nodes[n].next /\ g.nodes[k].next # NoNode => k = n

\* The entry of a live node is among the first probes, before any unused one.
Entered(g, n, j) ==
    LET s == g.nodes[n].state
        t == g.tt[Index(s, j)]
    IN  /\ t.status = Used /\ t.key = Key[s] /\ t.slot = n /\ t.gen = g.nodes[n].gen
        /\ \A k \in 0 .. j - 1 : g.tt[Index(s, k)].status # Empty

\* The table finds every live node, and a state has one at most.
Known(g) ==
    /\ \A n \in LiveOf(g) : \E j \in 0 .. TTProbes - 1 : Entered(g, n, j)
    /\ \A k, n \in LiveOf(g) : g.nodes[k].state = g.nodes[n].state => k = n

\* The nodes with candidates and their spans.
Parents(g) == {n \in LiveOf(g) : g.nodes[n].count > 0}

\* The spans of the live nodes are the taken blocks of the arena, each of its own node.
SpansOf(g) == {g.nodes[n].span : n \in Parents(g)}

Spaced(g) ==
    /\ \E F : Arena(g.spans, F, SpansOf(g), {})
    /\ \A n \in Parents(g) : g.spans.words[g.nodes[n].span].length = g.nodes[n].count
    /\ \A k, n \in Parents(g) : g.nodes[k].span = g.nodes[n].span => k = n

\* The edge is the node's; what it says of a child was true of that slot, and
\* is true of the child if the slot still has that generation.
Rightful(g, n, e) ==
    /\ g.edges[e].pub /\ g.edges[e].parent = n /\ g.edges[e].parentGen = g.nodes[n].gen
    /\ g.edges[e].child # NoNode =>
          /\ g.edges[e].childGen <= g.nodes[g.edges[e].child].gen
          /\ g.edges[e].childGen = g.nodes[g.edges[e].child].gen =>
                g.nodes[g.edges[e].child].state = Successor(g, e)

\* Every candidate of every live node is as it should be.
Bred(g) == \A n \in LiveOf(g) : \A e \in Candidates(g, n) : Rightful(g, n, e)

\* The counters count the live nodes and their candidates.
CandidateSet(g) == UNION {Candidates(g, n) : n \in LiveOf(g)}

Counted(g) == g.live = Cardinality(LiveOf(g)) /\ g.liveEdges = Cardinality(CandidateSet(g))

\* What holds of a graph between any two calls.
GraphInv(g) == g \in Graphs /\ Slotted(g) /\ Known(g) /\ Spaced(g) /\ Bred(g) /\ Counted(g)

\* What a call leaves of the root, of the protections and of protected nodes.
Tended(g, h) ==
    /\ h.root = g.root /\ h.rootGen = g.rootGen
    /\ \A e \in Bases : h.edges[e].lease \in {0, g.edges[e].lease}
    /\ \A n \in Slots :
          /\ h.nodes[n].path = g.nodes[n].path /\ h.nodes[n].eval = g.nodes[n].eval
          /\ h.nodes[n].pin = g.nodes[n].pin
          /\ g.nodes[n].pub /\ Protected(g, n) =>
                /\ h.nodes[n].pub /\ h.nodes[n].gen = g.nodes[n].gen
                /\ h.nodes[n].state = g.nodes[n].state
                /\ h.nodes[n].span = g.nodes[n].span /\ h.nodes[n].count = g.nodes[n].count
                /\ \A e \in Candidates(g, n) : /\ h.edges[e].lease = g.edges[e].lease
                                               /\ h.edges[e].gen = g.edges[e].gen

\* The edges of protected nodes lead where they led, but those of a set.
Leads(g, h, e) == h.edges[e].child = g.edges[e].child /\ h.edges[e].childGen = g.edges[e].childGen

Steered(g, h, but) ==
    \A n \in Slots : g.nodes[n].pub /\ Protected(g, n) =>
        \A e \in Candidates(g, n) \ but : Leads(g, h, e)

\* ... and of the edges of protected nodes, unless the call sets the child of one.
Kept(g, h) == Tended(g, h) /\ Steered(g, h, {})

\* What one call keeps and the next one keeps is kept by both.
LEMMA StaysProtected ==
    ASSUME NEW f, NEW g, Tended(f, g), NEW n \in Slots, f.nodes[n].pub, Protected(f, n)
    PROVE  g.nodes[n].pub /\ Protected(g, n) /\ Candidates(g, n) = Candidates(f, n)
  BY DEF Tended, Protected, Candidates

LEMMA TendedTwice ==
    ASSUME NEW f, NEW g, NEW h, Tended(f, g), Tended(g, h)
    PROVE  Tended(f, h)
<1>1. ASSUME NEW n \in Slots, f.nodes[n].pub, Protected(f, n)
      PROVE  g.nodes[n].pub /\ Protected(g, n) /\ Candidates(g, n) = Candidates(f, n)
  BY <1>1, StaysProtected
<1> QED
  BY SMTT(30), <1>1 DEF Tended

LEMMA SteeredTwice ==
    ASSUME NEW f, NEW g, NEW h, Tended(f, g), NEW A, NEW B, Steered(f, g, A), Steered(g, h, B)
    PROVE  Steered(f, h, A \cup B)
<1>1. ASSUME NEW n \in Slots, f.nodes[n].pub, Protected(f, n),
             NEW e \in Candidates(f, n) \ (A \cup B)
      PROVE  Leads(f, h, e)
  <2>1. g.nodes[n].pub /\ Protected(g, n) /\ e \in Candidates(g, n) \ B /\ e \in Candidates(f, n) \ A
    BY <1>1, StaysProtected
  <2>2. Leads(f, g, e) /\ Leads(g, h, e)
    BY <1>1, <2>1 DEF Steered
  <2> QED
    BY <2>2 DEF Leads
<1> QED
  BY <1>1 DEF Steered

LEMMA KeptTwice ==
    ASSUME NEW f, NEW g, NEW h, Kept(f, g), Kept(g, h)
    PROVE  Kept(f, h)
<1>1. Tended(f, g) /\ Tended(g, h) /\ Steered(f, g, {}) /\ Steered(g, h, {})
  BY DEF Kept
<1>2. Tended(f, h) /\ Steered(f, h, {} \cup {})
  BY <1>1, TendedTwice, SteeredTwice
<1>3. {} \cup {} = {}
  OBVIOUS
<1> QED
  BY <1>2, <1>3 DEF Kept

\* What the assumptions say of the constants of the graph.
LEMMA GraphConstants ==
    /\ NodeCapacity \in Nat /\ NodeCapacity > 0 /\ TTCapacity \in Nat /\ TTCapacity > 0
    /\ TTProbes \in Nat /\ TTProbes > 0 /\ TTProbes <= TTCapacity
    /\ MaxGeneration \in Nat /\ MaxGeneration > 0 /\ MaxActions \in Nat /\ EdgeCapacity \in Nat
    /\ NoNode \notin Slots /\ NoSpan \notin Bases
    /\ \A s \in States : Key[s] \in Nat /\ Moves[s] \in Seq(States) /\ Len(Moves[s]) \in 0 .. MaxActions
<1>1. /\ NodeCapacity \in Nat /\ NodeCapacity > 0 /\ TTCapacity \in Nat /\ TTCapacity > 0
      /\ TTProbes \in Nat /\ TTProbes > 0 /\ TTProbes <= TTCapacity
      /\ MaxGeneration \in Nat /\ MaxGeneration > 0 /\ MaxActions \in Nat /\ EdgeCapacity \in Nat
  BY GraphAssumption, SpansAssumption
<1>2. NoNode \notin Slots /\ NoSpan \notin Bases
  BY <1>1 DEF NoNode, Slots, NoSpan, Bases
<1>3. ASSUME NEW s \in States
      PROVE  Key[s] \in Nat /\ Moves[s] \in Seq(States) /\ Len(Moves[s]) \in 0 .. MaxActions
  <2>1. Key[s] \in Nat /\ Moves[s] \in Seq(States) /\ Len(Moves[s]) <= MaxActions
    BY GraphAssumption
  <2>2. Len(Moves[s]) \in Nat
    BY <2>1
  <2> QED
    BY <2>1, <2>2, <1>1
<1> QED
  BY <1>1, <1>2, <1>3

\* A probe looks at an entry.
LEMMA IndexType ==
    ASSUME NEW s \in States, NEW j \in Nat
    PROVE  Index(s, j) \in Entries
<1>1. Key[s] + j \in Nat /\ TTCapacity \in Nat /\ TTCapacity > 0
  BY GraphConstants
<1>2. (Key[s] + j) % TTCapacity \in 0 .. TTCapacity - 1
  BY <1>1
<1> QED
  BY <1>2 DEF Index, Entries

\* Tombstones are put in place of entries that name no live node.
LEMMA BuriedInv ==
    ASSUME NEW g, GraphInv(g), NEW s \in States, NEW probes \in Nat
    PROVE  LET h == Buried(g, s, probes) IN
           /\ GraphInv(h) /\ Kept(g, h)
           /\ h.nodes = g.nodes /\ h.high = g.high /\ h.free = g.free /\ h.spans = g.spans
           /\ h.edges = g.edges
           /\ \A i \in Entries : \/ h.tt[i] = g.tt[i]
                                 \/ /\ ~Current(g, g.tt[i]) /\ g.tt[i].status = Used
                                    /\ h.tt[i].status = Tombstone
<1> DEFINE dead(i) == /\ \E j \in 0 .. TTProbes - 1 : j < probes /\ i = Index(s, j)
                      /\ g.tt[i].status = Used /\ ~Current(g, g.tt[i])
           tt == [i \in Entries |-> IF dead(i) THEN [g.tt[i] EXCEPT !.status = Tombstone] ELSE g.tt[i]]
           h == Buried(g, s, probes)
<1>1. g \in Graphs /\ Slotted(g) /\ Known(g) /\ Spaced(g) /\ Bred(g) /\ Counted(g)
  BY DEF GraphInv
<1>2. h = [g EXCEPT !.tt = tt]
  BY DEF Buried
<1>3. ASSUME NEW i \in Entries
      PROVE  /\ tt[i] \in TTEntries
             /\ \/ tt[i] = g.tt[i]
                \/ /\ ~Current(g, g.tt[i]) /\ g.tt[i].status = Used /\ tt[i].status = Tombstone
  <2>1. PICK q \in TTEntries : q = g.tt[i]
    BY <1>1 DEF Graphs
  <2>2. tt[i] = IF dead(i) THEN [q EXCEPT !.status = Tombstone] ELSE q
    BY <2>1
  <2> HIDE DEF tt
  <2> QED
    BY <2>1, <2>2 DEF TTEntries
<1>4. tt \in [Entries -> TTEntries]
  BY <1>3
<1> HIDE DEF tt, h
<1>5. /\ h \in Graphs /\ h.tt = tt
      /\ h.nodes = g.nodes /\ h.high = g.high /\ h.free = g.free /\ h.spans = g.spans
      /\ h.edges = g.edges /\ h.root = g.root /\ h.rootGen = g.rootGen
      /\ h.live = g.live /\ h.liveEdges = g.liveEdges
  BY <1>1, <1>2, <1>4 DEF Graphs
<1>6. Slotted(h) /\ Spaced(h) /\ Bred(h) /\ Counted(h)
  <2>1. LiveOf(h) = LiveOf(g) /\ Vacated(h) = Vacated(g)
    BY <1>5 DEF LiveOf, Vacated
  <2>2. Parents(h) = Parents(g)
    BY <2>1, <1>5 DEF Parents
  <2>3. SpansOf(h) = SpansOf(g)
    BY <2>2, <1>5 DEF SpansOf
  <2>4. Slotted(h)
    BY <2>1, <1>1, <1>5 DEF Slotted
  <2>5. Spaced(h)
    BY <2>2, <2>3, <1>1, <1>5 DEF Spaced
  <2>6. Bred(h)
    <3>1. \A n \in LiveOf(g) : Candidates(h, n) = Candidates(g, n)
      BY <1>5 DEF Candidates
    <3>2. \A e \in Bases : Successor(h, e) = Successor(g, e)
      BY SMTT(30), <1>5 DEF Successor
    <3>3. ASSUME NEW n \in LiveOf(h), NEW e \in Candidates(h, n)
          PROVE  Rightful(h, n, e)
      <4>1. n \in LiveOf(g) /\ e \in Candidates(g, n) /\ Successor(h, e) = Successor(g, e)
        BY <2>1, <3>1, <1>5 DEF Successor
      <4> QED
        BY <4>1, <1>1, <1>5 DEF Bred, Rightful
    <3> QED
      BY <3>3 DEF Bred
  <2>7. Counted(h)
    <3>1. \A n \in LiveOf(g) : Candidates(h, n) = Candidates(g, n)
      BY <1>5 DEF Candidates
    <3>2. CandidateSet(h) = CandidateSet(g)
      BY <2>1, <3>1 DEF CandidateSet
    <3> QED
      BY <2>1, <3>2, <1>1, <1>5 DEF Counted
  <2> QED
    BY <2>4, <2>5, <2>6, <2>7
<1>7. Known(h)
  <2>1. LiveOf(h) = LiveOf(g)
    BY ZenonT(60), <1>5 DEF LiveOf
  <2>2. ASSUME NEW n \in LiveOf(g), NEW j \in 0 .. TTProbes - 1, Entered(g, n, j)
        PROVE  Entered(h, n, j)
    <3>1. g.nodes[n].state \in States /\ n < g.high /\ g.nodes[n].gen > 0 /\ g.nodes[n].pub
          /\ n \in Slots /\ g.high \in Nat /\ g.nodes[n].gen \in Nat
      BY <1>1 DEF Slotted, LiveOf, Graphs, Nodes, Gens
    <3>2. \A k \in 0 .. j : Index(g.nodes[n].state, k) \in Entries
      BY <3>1, IndexType
    <3>3. j \in 0 .. j /\ \A k \in 0 .. j - 1 : k \in 0 .. j
      OBVIOUS
    <3>4. Current(g, g.tt[Index(g.nodes[n].state, j)])
      BY <2>2, <3>1 DEF Entered, Current, Valid, Slots
    <3>5. h.tt[Index(g.nodes[n].state, j)] = g.tt[Index(g.nodes[n].state, j)]
      BY SMTT(30), <3>2, <3>3, <3>4, <1>3, <1>5
    <3>6. ASSUME NEW k \in 0 .. j - 1 PROVE h.tt[Index(g.nodes[n].state, k)].status # Empty
      BY SMTT(30), <2>2, <3>2, <3>3, <1>3, <1>5 DEF Entered, Empty, Tombstone
    <3> QED
      BY <2>2, <3>5, <3>6, <1>5 DEF Entered
  <2> QED
    BY <2>1, <2>2, <1>1, <1>5 DEF Known
<1>8. Kept(g, h)
  BY <1>5 DEF Kept, Tended, Steered, Leads
<1> QED
  BY <1>3, <1>5, <1>6, <1>7, <1>8 DEF GraphInv, h

\* The least of the probes that stop a walk, or none.
LEMMA WalkStops ==
    ASSUME NEW hits \in SUBSET (0 .. TTProbes - 1)
    PROVE  LET last == IF hits = {} THEN TTProbes ELSE CHOOSE j \in hits : \A k \in hits : j <= k IN
           /\ last \in 0 .. TTProbes
           /\ last < TTProbes => last \in hits
           /\ last = TTProbes => hits = {}
           /\ \A k \in 0 .. last - 1 : k \notin hits
<1> DEFINE last == CHOOSE j \in hits : \A k \in hits : j <= k
<1>1. TTProbes \in Nat
  BY GraphConstants
<1>2. CASE hits = {}
  BY <1>1, <1>2
<1>3. CASE hits # {}
  <2>1. hits \subseteq Nat
    OBVIOUS
  <2>2. \E j \in hits : \A k \in hits : j <= k
    BY <1>3, <2>1, Least
  <2>3. last \in hits /\ \A k \in hits : last <= k
    BY <2>2
  <2> HIDE DEF last
  <2>4. last \in 0 .. TTProbes /\ last < TTProbes
    BY <2>3, <1>1
  <2>5. \A k \in 0 .. last - 1 : k \notin hits
    BY <2>3, <2>4
  <2> QED
    BY <2>3, <2>4, <2>5, <1>3 DEF last
<1> QED
  BY <1>2, <1>3

\* A lookup finds the node of a state when there is one.
LEMMA LookupLemma ==
    ASSUME NEW g, GraphInv(g), NEW s \in States
    PROVE  LET seen == Lookup(g, s) IN
           /\ GraphInv(seen.graph) /\ Kept(g, seen.graph) /\ seen.graph.nodes = g.nodes
           /\ seen.slot # NoNode => seen.slot \in LiveOf(g) /\ g.nodes[seen.slot].state = s
           /\ seen.slot = NoNode => \A n \in LiveOf(g) : g.nodes[n].state # s
<1> DEFINE hits == {j \in 0 .. TTProbes - 1 : g.tt[Index(s, j)].status = Empty
                                              \/ Names(g, g.tt[Index(s, j)], s)}
           last == IF hits = {} THEN TTProbes ELSE CHOOSE j \in hits : \A k \in hits : j <= k
           found == last < TTProbes /\ g.tt[Index(s, last)].status # Empty
           seen == Lookup(g, s)
<1>1. seen = [graph |-> Buried(g, s, last), slot |-> IF found THEN g.tt[Index(s, last)].slot ELSE NoNode]
  BY DEF Lookup, FirstProbe
<1>2. /\ last \in 0 .. TTProbes /\ (last < TTProbes => last \in hits)
      /\ (last = TTProbes => hits = {}) /\ \A k \in 0 .. last - 1 : k \notin hits
  <2>1. hits \in SUBSET (0 .. TTProbes - 1)
    OBVIOUS
  <2> HIDE DEF hits
  <2> QED
    BY <2>1, WalkStops
<1> HIDE DEF last
<1>3. TTProbes \in Nat /\ last \in Nat /\ last <= TTProbes
  BY <1>2, GraphConstants
<1>4. g \in Graphs /\ Slotted(g) /\ Known(g)
  BY DEF GraphInv
<1>5. GraphInv(Buried(g, s, last)) /\ Kept(g, Buried(g, s, last)) /\ Buried(g, s, last).nodes = g.nodes
  BY <1>3, BuriedInv
<1>6. ASSUME found
      PROVE  g.tt[Index(s, last)].slot \in LiveOf(g) /\ g.nodes[g.tt[Index(s, last)].slot].state = s
  <2>1. Names(g, g.tt[Index(s, last)], s)
    BY <1>2, <1>6
  <2> QED
    BY <2>1, <1>4, GraphConstants DEF Names, Current, Valid, LiveOf, Slots, Graphs
<1>7. ASSUME ~found, NEW n \in LiveOf(g), g.nodes[n].state = s PROVE FALSE
  <2>1. PICK j \in 0 .. TTProbes - 1 : Entered(g, n, j)
    BY <1>4 DEF Known
  <2>2. /\ g.tt[Index(s, j)].status = Used /\ Names(g, g.tt[Index(s, j)], s)
        /\ \A k \in 0 .. j - 1 : g.tt[Index(s, k)].status # Empty
    <3>1. g.nodes[n].pub /\ n \in Slots /\ n < g.high /\ g.nodes[n].gen > 0
          /\ g.nodes[n].gen \in Nat /\ g.high \in Nat
      BY <1>4 DEF Slotted, LiveOf, Graphs, Nodes, Gens
    <3>2. Valid(g, n, g.nodes[n].gen)
      BY <3>1 DEF Valid, Slots
    <3> QED
      BY <2>1, <3>2, <1>7 DEF Entered, Names, Current
  <2>3. j \in hits
    BY <2>2
  <2> HIDE DEF hits
  <2>4. last <= j /\ last < TTProbes
    BY <2>3, <1>2, <1>3
  <2>5. g.tt[Index(s, last)].status = Empty
    BY <2>4, <1>7
  <2>6. last = j
    BY <2>2, <2>4, <2>5, <1>3
  <2> QED
    BY <2>2, <2>5, <2>6 DEF Used, Empty
<1> HIDE DEF found, hits, seen
<1>8. seen.graph = Buried(g, s, last) /\ seen.slot = IF found THEN g.tt[Index(s, last)].slot ELSE NoNode
  BY <1>1
<1>9. NoNode \notin LiveOf(g)
  BY GraphConstants DEF LiveOf
<1> QED
  BY <1>5, <1>6, <1>7, <1>8, <1>9 DEF seen

\* An entry for a state that holds no live node and follows no unused one.
Vacant(g, s, probe) ==
    /\ probe \in 0 .. TTProbes
    /\ probe < TTProbes => /\ ~Current(g, g.tt[Index(s, probe)])
                           /\ \A k \in 0 .. probe - 1 : g.tt[Index(s, k)].status # Empty

\* A walk for a vacant entry leaves the graph and finds one, or none.
LEMMA VacancyLemma ==
    ASSUME NEW g, GraphInv(g), NEW s \in States
    PROVE  LET v == TTVacancy(g, s) IN
           GraphInv(v.graph) /\ Kept(g, v.graph) /\ v.graph.nodes = g.nodes /\ Vacant(v.graph, s, v.probe)
<1> DEFINE hits == {j \in 0 .. TTProbes - 1 : ~Current(g, g.tt[Index(s, j)])}
           last == IF hits = {} THEN TTProbes ELSE CHOOSE j \in hits : \A k \in hits : j <= k
           h == Buried(g, s, last + 1)
           v == TTVacancy(g, s)
<1>1. v = [graph |-> h, probe |-> last]
  BY DEF TTVacancy, FirstProbe
<1>2. /\ last \in 0 .. TTProbes /\ (last < TTProbes => last \in hits)
      /\ (last = TTProbes => hits = {}) /\ \A k \in 0 .. last - 1 : k \notin hits
  <2>1. hits \in SUBSET (0 .. TTProbes - 1)
    OBVIOUS
  <2> HIDE DEF hits
  <2> QED
    BY <2>1, WalkStops
<1> HIDE DEF last
<1>3. TTProbes \in Nat /\ last \in Nat /\ last <= TTProbes
  BY <1>2, GraphConstants
<1>4. /\ GraphInv(h) /\ Kept(g, h) /\ h.nodes = g.nodes /\ h.high = g.high
      /\ \A i \in Entries : \/ h.tt[i] = g.tt[i]
                            \/ /\ ~Current(g, g.tt[i]) /\ g.tt[i].status = Used
                               /\ h.tt[i].status = Tombstone
  <2>1. last + 1 \in Nat
    BY <1>3
  <2> QED
    BY <2>1, BuriedInv
<1> HIDE DEF h
<1>5. \A k \in Nat : Index(s, k) \in Entries
  BY IndexType
<1>6. ASSUME last < TTProbes PROVE ~Current(h, h.tt[Index(s, last)])
  <2>1. ~Current(g, g.tt[Index(s, last)])
    BY <1>2, <1>6
  <2>2. Index(s, last) \in Entries
    BY <1>3, <1>5
  <2> QED
    <3>1. CASE h.tt[Index(s, last)] = g.tt[Index(s, last)]
      BY ZenonT(60), <2>1, <3>1, <1>4 DEF Current, Valid
    <3>2. CASE h.tt[Index(s, last)].status = Tombstone
      BY <3>2 DEF Current, Used, Tombstone
    <3> QED
      BY <2>2, <3>1, <3>2, <1>4
<1>7. ASSUME NEW k \in 0 .. last - 1 PROVE h.tt[Index(s, k)].status # Empty
  <2>1. k \in 0 .. TTProbes - 1 /\ k \in Nat /\ k \notin hits
    BY <1>2, <1>3
  <2>2. Current(g, g.tt[Index(s, k)])
    BY <2>1
  <2>3. h.tt[Index(s, k)] = g.tt[Index(s, k)]
    BY <2>1, <2>2, <1>4, <1>5
  <2> QED
    BY <2>2, <2>3 DEF Current, Used, Empty
<1>8. Vacant(h, s, last)
  BY <1>2, <1>6, <1>7 DEF Vacant
<1> HIDE DEF v
<1> QED
  BY <1>1, <1>4, <1>8 DEF v

-----------------------------------------------------------------------------
(* Candidates, and the node that leaves.                                   *)

\* Candidates of different nodes are different edges, and none is free.
LEMMA CandidatesApart ==
    ASSUME NEW g, NEW F, Arena(g.spans, F, SpansOf(g), {}), NEW n \in LiveOf(g),
           \A k \in Parents(g) : g.spans.words[g.nodes[k].span].length = g.nodes[k].count,
           \A k, l \in Parents(g) : g.nodes[k].span = g.nodes[l].span => k = l,
           \A k \in LiveOf(g) : g.nodes[k].count \in Nat
    PROVE  /\ Candidates(g, n) \subseteq Bases
           /\ \A k \in LiveOf(g) \ {n} : Candidates(g, k) \cap Candidates(g, n) = {}
           /\ \A b \in F : Candidates(g, n) \cap Cells(b, g.spans.words[b].length) = {}
<1> DEFINE w == g.spans.words
<1>1. Layout(w, F, SpansOf(g), {})
  BY DEF Arena
<1>2. ASSUME NEW k \in LiveOf(g)
      PROVE  \/ Candidates(g, k) = {}
             \/ /\ k \in Parents(g) /\ g.nodes[k].span \in SpansOf(g)
                /\ Candidates(g, k) = Cells(g.nodes[k].span, w[g.nodes[k].span].length)
  BY DEF Candidates, Parents, SpansOf
<1> HIDE DEF w
<1>3. \A b, c \in F \cup SpansOf(g) : b # c => Cells(b, w[b].length) \cap Cells(c, w[c].length) = {}
  <2>1. ASSUME NEW b \in F \cup SpansOf(g), NEW c \in F \cup SpansOf(g), b < c
        PROVE  Cells(b, w[b].length) \cap Cells(c, w[c].length) = {}
    <3>1. b + w[b].length <= c
      BY <2>1, <1>1 DEF Layout
    <3>2. b \in Int /\ c \in Int /\ w[b].length \in Int /\ w[c].length \in Int
      BY <1>1, Bounds
    <3> QED
      BY <3>1, <3>2 DEF Cells
  <2>2. \A b \in F \cup SpansOf(g) : b \in Int
    BY <1>1, Bounds
  <2>3. \A b, c \in F \cup SpansOf(g) : b # c => b < c \/ c < b
    BY <2>2
  <2> QED
    BY <2>1, <2>3
<1>4. Candidates(g, n) \subseteq Bases
  <2>1. ASSUME NEW b \in SpansOf(g) PROVE Cells(b, w[b].length) \subseteq Bases
    <3>1. b \in Int /\ b >= 0 /\ w[b].length \in Int /\ b + w[b].length <= EdgeCapacity
      BY <1>1, Bounds
    <3> QED
      BY ONLY SMTT(30), <3>1, GraphConstants DEF Cells, Bases
  <2> QED
    BY <2>1, <1>2
<1>5. ASSUME NEW k \in LiveOf(g) \ {n} PROVE Candidates(g, k) \cap Candidates(g, n) = {}
  BY ZenonT(60), <1>2, <1>3
<1>6. ASSUME NEW b \in F PROVE Candidates(g, n) \cap Cells(b, w[b].length) = {}
  <2>1. F \cap SpansOf(g) = {}
    BY <1>1 DEF Layout
  <2> QED
    BY SMTT(30), <2>1, <1>2, <1>3
<1> QED
  BY <1>4, <1>5, <1>6 DEF w

\* The same from the invariant.
LEMMA CandidatesLemma ==
    ASSUME NEW g, GraphInv(g), NEW n \in LiveOf(g)
    PROVE  /\ Candidates(g, n) \subseteq Bases
           /\ \A k \in LiveOf(g) \ {n} : Candidates(g, k) \cap Candidates(g, n) = {}
<1>1. \A k \in LiveOf(g) : g.nodes[k].count \in Nat
  BY DEF GraphInv, Graphs, Nodes, LiveOf
<1>2. PICK F : Arena(g.spans, F, SpansOf(g), {})
  BY DEF GraphInv, Spaced
<1> QED
  BY <1>1, <1>2, CandidatesApart DEF GraphInv, Spaced

\* A span has as many cells as its length says.
LEMMA CellsCount ==
    ASSUME NEW b \in Int, NEW n \in Nat
    PROVE  IsFiniteSet(Cells(b, n)) /\ Cardinality(Cells(b, n)) = n
<1> DEFINE last == b + n - 1
<1>1. last \in Int /\ (b > last <=> n = 0) /\ last - b + 1 = n
  OBVIOUS
<1>2. Cells(b, n) = b .. last
  BY DEF Cells
<1> HIDE DEF last
<1>3. IsFiniteSet(b .. last) /\ Cardinality(b .. last) = IF b > last THEN 0 ELSE last - b + 1
  BY <1>1, FS_Interval
<1> QED
  BY <1>1, <1>2, <1>3

\* What the counters count is finite.
LEMMA CountLemma ==
    ASSUME NEW g, GraphInv(g)
    PROVE  /\ IsFiniteSet(LiveOf(g)) /\ IsFiniteSet(CandidateSet(g))
           /\ \A n \in LiveOf(g) : /\ Candidates(g, n) \subseteq CandidateSet(g)
                                   /\ Cardinality(Candidates(g, n)) = g.nodes[n].count
<1>1. IsFiniteSet(Slots) /\ IsFiniteSet(Bases)
  BY GraphConstants, FS_Interval DEF Slots, Bases
<1>2. IsFiniteSet(LiveOf(g))
  BY <1>1, FS_Subset DEF LiveOf
<1>3. CandidateSet(g) \subseteq Bases
  BY CandidatesLemma DEF CandidateSet
<1>4. IsFiniteSet(CandidateSet(g))
  BY <1>1, <1>3, FS_Subset
<1>5. ASSUME NEW n \in LiveOf(g) PROVE Cardinality(Candidates(g, n)) = g.nodes[n].count
  <2>1. g.nodes[n].count \in Nat
    BY DEF GraphInv, Graphs, Nodes, LiveOf
  <2>2. CASE g.nodes[n].count = 0
    BY <2>2, FS_EmptySet DEF Candidates
  <2>3. CASE g.nodes[n].count > 0
    <3>1. n \in Parents(g)
      BY <2>3 DEF Parents
    <3>2. g.nodes[n].span \in Bases
      BY <3>1 DEF GraphInv, Spaced, Arena, Layout, SpansOf
    <3>3. g.nodes[n].span \in Int
      BY <3>2 DEF Bases
    <3>4. Candidates(g, n) = Cells(g.nodes[n].span, g.nodes[n].count)
      BY <2>3 DEF Candidates
    <3> QED
      BY <3>3, <3>4, <2>1, CellsCount
  <2> QED
    BY <2>1, <2>2, <2>3
<1>6. \A n \in LiveOf(g) : Candidates(g, n) \subseteq CandidateSet(g)
  BY DEF CandidateSet
<1> QED
  BY <1>2, <1>4, <1>5, <1>6

\* A node that nothing protects leaves.
LEMMA RetireLemma ==
    ASSUME NEW g, GraphInv(g), NEW n \in LiveOf(g), ~Protected(g, n)
    PROVE  /\ GraphInv(Retire(g, n)) /\ Kept(g, Retire(g, n))
           /\ LiveOf(Retire(g, n)) = LiveOf(g) \ {n}
           /\ \A k \in Slots : Retire(g, n).nodes[k].state = g.nodes[k].state
<1> DEFINE h == Retire(g, n)
           nodes == [g.nodes EXCEPT ![n] = [@ EXCEPT !.pub = FALSE, !.next = g.free]]
           edges == [e \in Bases |-> IF e \in Candidates(g, n)
                                     THEN [g.edges[e] EXCEPT !.pub = FALSE] ELSE g.edges[e]]
<1>1. g \in Graphs /\ Slotted(g) /\ Known(g) /\ Spaced(g) /\ Bred(g)
  BY DEF GraphInv
<1>2. /\ n \in Slots /\ g.nodes[n].pub /\ g.nodes[n].path = 0 /\ g.nodes[n].eval = 0
      /\ g.nodes[n].pin = 0 /\ n # g.root /\ n < g.high /\ g.high \in 0 .. NodeCapacity
      /\ g.free \in Slots \cup {NoNode} /\ g.nodes[n].count \in Nat
  BY <1>1 DEF Protected, LiveOf, Slotted, Graphs, Nodes
<1>3. /\ nodes \in [Slots -> Nodes]
      /\ \A k \in Slots :
           /\ nodes[k].pub = IF k = n THEN FALSE ELSE g.nodes[k].pub
           /\ nodes[k].next = IF k = n THEN g.free ELSE g.nodes[k].next
           /\ nodes[k].gen = g.nodes[k].gen /\ nodes[k].state = g.nodes[k].state
           /\ nodes[k].span = g.nodes[k].span /\ nodes[k].count = g.nodes[k].count
           /\ nodes[k].path = g.nodes[k].path /\ nodes[k].eval = g.nodes[k].eval
           /\ nodes[k].pin = g.nodes[k].pin
  <2>1. g.nodes \in [Slots -> Nodes]
    BY <1>1 DEF Graphs
  <2>2. PICK q \in Nodes : q = g.nodes[n]
    BY <2>1, <1>2
  <2>3. nodes = [g.nodes EXCEPT ![n] = [q EXCEPT !.pub = FALSE, !.next = g.free]]
    BY <2>1, <2>2, <1>2
  <2>4. [q EXCEPT !.pub = FALSE, !.next = g.free] \in Nodes
    BY <2>2, <1>2 DEF Nodes
  <2>5. \A k \in Slots : nodes[k] = IF k = n THEN [q EXCEPT !.pub = FALSE, !.next = g.free] ELSE g.nodes[k]
    BY <2>1, <2>3, <1>2
  <2>6. nodes \in [Slots -> Nodes]
    BY <2>1, <2>3, <2>4, <1>2
  <2> HIDE DEF nodes
  <2>7. LET p == [q EXCEPT !.pub = FALSE, !.next = g.free]
        IN  /\ p.pub = FALSE /\ p.next = g.free /\ p.gen = q.gen /\ p.state = q.state
            /\ p.span = q.span /\ p.count = q.count /\ p.path = q.path /\ p.eval = q.eval
            /\ p.pin = q.pin
    BY <2>2 DEF Nodes
  <2> QED
    BY <2>2, <2>5, <2>6, <2>7
<1>4. /\ edges \in [Bases -> Edges]
      /\ \A e \in Bases : /\ e \notin Candidates(g, n) => edges[e] = g.edges[e]
                          /\ edges[e].lease = g.edges[e].lease /\ edges[e].gen = g.edges[e].gen
  <2>1. ASSUME NEW e \in Bases
        PROVE  /\ edges[e] \in Edges
               /\ e \notin Candidates(g, n) => edges[e] = g.edges[e]
               /\ edges[e].lease = g.edges[e].lease /\ edges[e].gen = g.edges[e].gen
    <3>1. PICK q \in Edges : q = g.edges[e]
      BY <1>1 DEF Graphs
    <3>2. edges[e] = IF e \in Candidates(g, n) THEN [q EXCEPT !.pub = FALSE] ELSE q
      BY <3>1
    <3> HIDE DEF edges
    <3> QED
      BY <3>1, <3>2 DEF Edges
  <2>2. edges = [e \in Bases |-> edges[e]]
    OBVIOUS
  <2> HIDE DEF edges
  <2> QED
    BY <2>1, <2>2
<1>5. SpansWithout(g, n) \in Stores /\ g.spans \in Stores
      /\ (\E F : Arena(SpansWithout(g, n), F, SpansOf(g) \ {IF g.nodes[n].count = 0 THEN NoSpan ELSE g.nodes[n].span}, {}))
      /\ \A k \in Parents(g) \ {n} : SpansWithout(g, n).words[g.nodes[k].span].length = g.nodes[k].count
  <2>1. PICK F : Arena(g.spans, F, SpansOf(g), {})
    BY <1>1 DEF Spaced
  <2>2. SpansOf(g) \subseteq Bases
    BY <2>1 DEF Arena, Layout
  <2>3. CASE g.nodes[n].count = 0
    <3>1. SpansWithout(g, n) = g.spans
      BY <2>3 DEF SpansWithout
    <3>2. SpansOf(g) \ {NoSpan} = SpansOf(g)
      BY <2>2, GraphConstants
    <3>3. g.spans \in Stores
      BY <1>1 DEF Graphs
    <3> QED
      BY <3>1, <3>2, <3>3, <2>1, <2>3, <1>1 DEF Spaced
  <2>4. CASE g.nodes[n].count # 0
    <3>1. n \in Parents(g) /\ g.nodes[n].span \in SpansOf(g)
      BY <2>4, <1>2 DEF Parents, SpansOf
    <3>2. g.spans.words[g.nodes[n].span].length = g.nodes[n].count
      BY <3>1, <1>1 DEF Spaced
    <3>3. SpansWithout(g, n) = SpanFree(g.spans, g.nodes[n].span, g.spans.words[g.nodes[n].span].length)
      BY <3>2, <2>4 DEF SpansWithout
    <3>4. /\ \E G : Arena(SpansWithout(g, n), G, SpansOf(g) \ {g.nodes[n].span}, {})
          /\ \A c \in SpansOf(g) \ {g.nodes[n].span} :
               SpansWithout(g, n).words[c].length = g.spans.words[c].length
      <4> DEFINE b == g.nodes[n].span
                 st == g.spans
                 T == SpansOf(g)
                 new == SpanFree(st, b, st.words[b].length)
      <4>0. Arena(st, F, T, {}) /\ b \in T
        BY <3>1, <2>1
      <4>1. /\ \E G : Arena(new, G, T \ {b}, {})
            /\ \A c \in T \ {b} : new.words[c].length = st.words[c].length
        <5> HIDE DEF b, st, T
        <5> QED
          BY ZenonT(60), <4>0, FreeLemma
      <4>2. SpansWithout(g, n) = new
        BY <3>3
      <4> HIDE DEF new
      <4> QED
        BY <4>1, <4>2
    <3>5. ASSUME NEW k \in Parents(g) \ {n}
          PROVE  SpansWithout(g, n).words[g.nodes[k].span].length = g.nodes[k].count
      <4>1. g.nodes[k].span \in SpansOf(g) \ {g.nodes[n].span}
        BY <3>1, <1>1 DEF Spaced, SpansOf
      <4> QED
        BY <4>1, <3>4, <1>1 DEF Spaced
    <3>6. SpansWithout(g, n) \in Stores /\ g.spans \in Stores
      BY <3>4, <1>1 DEF Arena, Graphs
    <3> QED
      BY <3>4, <3>5, <3>6, <2>4
  <2> QED
    BY <2>3, <2>4
<1> DEFINE spans == SpansWithout(g, n)
<1>6. h = [g EXCEPT !.edges = edges, !.spans = spans, !.nodes = nodes, !.free = n,
                    !.live = g.live - 1, !.liveEdges = g.liveEdges - g.nodes[n].count]
  <2>1. h = [g EXCEPT !.edges = edges, !.spans = spans,
                      !.nodes[n] = [@ EXCEPT !.pub = FALSE, !.next = g.free], !.free = n,
                      !.live = @ - 1, !.liveEdges = @ - g.nodes[n].count]
    BY DEF Retire
  <2>2. PICK a1, a2, a3, a4, a5, a6, a7, a8, a9, a10, a11 :
             g = [spans |-> a1, nodes |-> a2, edges |-> a3, tt |-> a4, high |-> a5, free |-> a6,
                  clock |-> a7, root |-> a8, rootGen |-> a9, live |-> a10, liveEdges |-> a11]
    BY <1>1 DEF Graphs

  <2>3. h = [g EXCEPT !.edges = edges, !.spans = spans, !.nodes = nodes, !.free = n,
                      !.live = @ - 1, !.liveEdges = @ - g.nodes[n].count]
    BY <2>1, <2>2
  <2> HIDE DEF edges, spans, h, nodes
  <2> QED
    BY <2>2, <2>3
<1> HIDE DEF nodes, edges, spans, h
<1>7. /\ h.edges = edges /\ h.spans = spans /\ h.nodes = nodes /\ h.free = n
      /\ h.tt = g.tt /\ h.high = g.high /\ h.root = g.root /\ h.rootGen = g.rootGen /\ h \in Graphs
      /\ h.live = g.live - 1 /\ h.liveEdges = g.liveEdges - g.nodes[n].count
  <2>1. g.live - 1 \in Int /\ g.liveEdges - g.nodes[n].count \in Int
    BY <1>1, <1>2 DEF Graphs
  <2>2. spans \in Stores
    BY <1>5 DEF spans
  <2> QED
    BY <2>1, <2>2, <1>1, <1>2, <1>3, <1>4, <1>6 DEF Graphs
<1>15. \A k \in Slots :
         /\ h.nodes[k].pub <=> k # n /\ g.nodes[k].pub
         /\ k # n => h.nodes[k].next = g.nodes[k].next
         /\ h.nodes[k].gen = g.nodes[k].gen /\ h.nodes[k].state = g.nodes[k].state
         /\ h.nodes[k].span = g.nodes[k].span /\ h.nodes[k].count = g.nodes[k].count
         /\ h.nodes[k].path = g.nodes[k].path /\ h.nodes[k].eval = g.nodes[k].eval
         /\ h.nodes[k].pin = g.nodes[k].pin
  BY ZenonT(60), <1>3, <1>7
<1>16. h.nodes[n].next = g.free
  BY <1>2, <1>3, <1>7
<1>8. /\ LiveOf(h) = LiveOf(g) \ {n} /\ Vacated(h) = Vacated(g) \cup {n}
      /\ Parents(h) = Parents(g) \ {n}
  BY <1>2, <1>7, <1>15, <1>16 DEF LiveOf, Vacated, Parents
<1>9. \A k \in Slots : Candidates(h, k) = Candidates(g, k)
  BY <1>7, <1>15, <1>16 DEF Candidates
<1>10. Slotted(h)
  <2>1. n \notin Vacated(g) /\ n \in Slots /\ NoNode \notin Slots
    BY <1>2, GraphConstants DEF Vacated
  <2>2. \A k \in LiveOf(h) :
          /\ k < h.high /\ h.nodes[k].gen > 0 /\ h.nodes[k].state \in States
          /\ h.nodes[k].count = Len(Moves[h.nodes[k].state])
    BY <1>1, <1>7, <1>15, <1>16, <1>8 DEF Slotted, LiveOf
  <2>3. \A k \in Slots \ LiveOf(h) : h.nodes[k].path = 0 /\ h.nodes[k].eval = 0 /\ h.nodes[k].pin = 0
    BY <1>1, <1>2, <1>7, <1>15, <1>16, <1>8 DEF Slotted
  <2>4. h.free # NoNode => h.free \in Vacated(h)
    BY <1>7, <1>8
  <2>5. ASSUME NEW k \in Vacated(h), h.nodes[k].next # NoNode
        PROVE  h.nodes[k].next \in Vacated(h) \ {h.free}
    <3>1. k \in Slots
      BY DEF Vacated
    <3>2. CASE k = n
      BY <3>2, <2>1, <2>5, <1>1, <1>2, <1>7, <1>15, <1>16, <1>8 DEF Slotted
    <3>3. CASE k # n
      <4>1. k \in Vacated(g) /\ h.nodes[k].next = g.nodes[k].next
        BY <3>1, <3>3, <1>7, <1>15, <1>16, <1>8
      <4>2. g.nodes[k].next \in Vacated(g)
        BY <4>1, <2>5, <1>1 DEF Slotted
      <4> QED
        BY <4>1, <4>2, <2>1, <1>7, <1>8
    <3> QED
      BY <3>2, <3>3
  <2>6. ASSUME NEW k \in Vacated(h), NEW l \in Vacated(h),
               h.nodes[k].next = h.nodes[l].next, h.nodes[k].next # NoNode
        PROVE  k = l
    <3>1. k \in Slots /\ l \in Slots
      BY DEF Vacated
    <3>2. CASE k = n /\ l # n
      BY <3>1, <3>2, <2>6, <1>1, <1>7, <1>15, <1>16, <1>8 DEF Slotted
    <3>3. CASE k # n /\ l = n
      BY <3>1, <3>3, <2>6, <1>1, <1>7, <1>15, <1>16, <1>8 DEF Slotted
    <3>4. CASE k # n /\ l # n
      BY <3>1, <3>4, <2>6, <1>1, <1>7, <1>15, <1>16, <1>8 DEF Slotted
    <3> QED
      BY <3>2, <3>3, <3>4
  <2> QED
    BY <2>2, <2>3, <2>4, <2>5, <2>6 DEF Slotted
<1>11. Known(h)
  <2>1. ASSUME NEW k \in LiveOf(h), NEW j \in 0 .. TTProbes - 1, Entered(g, k, j)
        PROVE  Entered(h, k, j)
    BY SMTT(30), <2>1, <1>7, <1>15, <1>16 DEF Entered, LiveOf
  <2>2. \A k, l \in LiveOf(h) : h.nodes[k].state = h.nodes[l].state => k = l
    BY <1>1, <1>7, <1>15, <1>16, <1>8 DEF Known, LiveOf
  <2> QED
    BY ZenonT(60), <2>1, <2>2, <1>1, <1>8 DEF Known
<1>12. Spaced(h)
  <2>1. SpansOf(h) = SpansOf(g) \ {IF g.nodes[n].count = 0 THEN NoSpan ELSE g.nodes[n].span}
    <3>1. SpansOf(h) = {g.nodes[k].span : k \in Parents(g) \ {n}}
      BY <1>7, <1>15, <1>16, <1>8 DEF SpansOf, Parents, LiveOf
    <3>2. \A k, l \in Parents(g) : g.nodes[k].span = g.nodes[l].span => k = l
      BY <1>1 DEF Spaced
    <3>3. CASE g.nodes[n].count = 0
      <4>1. n \notin Parents(g)
        BY <3>3 DEF Parents
      <4>2. SpansOf(g) \subseteq Bases
        BY <1>1 DEF Spaced, Arena, Layout
      <4> QED
        BY <4>1, <4>2, <3>1, <3>3, GraphConstants DEF SpansOf
    <3>4. CASE g.nodes[n].count # 0
      <4>1. n \in Parents(g)
        BY <3>4, <1>2 DEF Parents
      <4> QED
        BY <4>1, <3>1, <3>2, <3>4 DEF SpansOf
    <3> QED
      BY <3>3, <3>4
  <2>2. \E F : Arena(h.spans, F, SpansOf(h), {})
    BY <2>1, <1>5, <1>7 DEF spans
  <2>3. \A k \in Parents(h) : h.spans.words[h.nodes[k].span].length = h.nodes[k].count
    BY <1>5, <1>7, <1>15, <1>8 DEF spans, Parents, LiveOf
  <2>4. \A k, l \in Parents(h) : h.nodes[k].span = h.nodes[l].span => k = l
    BY <1>1, <1>7, <1>15, <1>16, <1>8 DEF Spaced, Parents, LiveOf
  <2> QED
    BY <2>2, <2>3, <2>4 DEF Spaced
<1>13. Bred(h)
  <2>1. ASSUME NEW k \in LiveOf(h), NEW e \in Candidates(h, k)
        PROVE  Rightful(h, k, e)
    <3>1. k \in LiveOf(g) /\ k # n /\ e \in Candidates(g, k) /\ k \in Slots
      BY <1>8, <1>9 DEF LiveOf
    <3>2. e \in Bases /\ e \notin Candidates(g, n)
      BY <3>1, CandidatesLemma
    <3>3. h.edges[e] = g.edges[e]
      BY <3>2, <1>4, <1>7
    <3>4. Rightful(g, k, e)
      BY <3>1, <1>1 DEF Bred
    <3>5. g.edges[e].parent \in Slots /\ g.edges[e].child \in Slots \cup {NoNode}
      BY SMTT(30), <3>2, <1>1 DEF Graphs, Edges
    <3>6. Successor(h, e) = Successor(g, e)
      <4> DEFINE p == g.edges[e].parent
      <4>1. h.edges[e].parent = p /\ h.nodes[p].state = g.nodes[p].state
            /\ h.nodes[p].span = g.nodes[p].span
        BY ZenonT(60), <3>3, <3>5, <1>15
      <4> QED
        BY ZenonT(60), <4>1 DEF Successor
    <3> QED
      BY <3>1, <3>3, <3>4, <3>5, <3>6, <1>7, <1>15, <1>16 DEF Rightful
  <2> QED
    BY <2>1 DEF Bred
<1>14. Kept(g, h)
  <2>1. ASSUME NEW k \in Slots, g.nodes[k].pub, Protected(g, k)
        PROVE  /\ h.nodes[k].pub
               /\ \A e \in Candidates(g, k) : /\ h.edges[e].lease = g.edges[e].lease
                                              /\ h.edges[e].gen = g.edges[e].gen
                                              /\ Leads(g, h, e)
    <3>1. k # n /\ Candidates(g, k) \subseteq Bases
      BY <2>1, CandidatesLemma DEF LiveOf
    <3>2. \A e \in Candidates(g, k) : e \in Bases /\ h.edges[e] = g.edges[e]
      BY <3>1, <2>1, <1>4, <1>7, CandidatesLemma DEF LiveOf
    <3> QED
      BY <3>1, <3>2, <2>1, <1>4, <1>7, <1>15 DEF Leads
  <2>2. \A e \in Bases : h.edges[e].lease = g.edges[e].lease
    BY <1>4, <1>7, <1>15
  <2> QED
    <3>1. Tended(g, h)
      BY <2>1, <2>2, <1>7, <1>15, <1>16 DEF Tended
    <3> QED
      BY <2>1, <3>1 DEF Kept, Steered
<1>17. Counted(h)
  <2>1. \A k \in LiveOf(g) \ {n} : Candidates(h, k) = Candidates(g, k)
    BY <1>15 DEF LiveOf, Candidates
  <2>2. CandidateSet(h) = CandidateSet(g) \ Candidates(g, n)
    <3>1. \A k \in LiveOf(g) \ {n} : Candidates(g, k) \cap Candidates(g, n) = {}
      BY CandidatesLemma
    <3> QED
      BY <2>1, <3>1, <1>8 DEF CandidateSet
  <2>3. CandidateSet(g) \cap Candidates(g, n) = Candidates(g, n)
    BY CountLemma
  <2>4. Cardinality(CandidateSet(h)) = Cardinality(CandidateSet(g)) - g.nodes[n].count
    <3>1. Cardinality(CandidateSet(g) \ Candidates(g, n))
            = Cardinality(CandidateSet(g)) - Cardinality(CandidateSet(g) \cap Candidates(g, n))
      BY CountLemma, FS_Difference
    <3>2. Cardinality(Candidates(g, n)) = g.nodes[n].count
      BY CountLemma
    <3> QED
      BY <2>2, <2>3, <3>1, <3>2
  <2>5. Cardinality(LiveOf(h)) = Cardinality(LiveOf(g)) - 1
    BY <1>8, CountLemma, FS_RemoveElement
  <2> QED
    BY <2>4, <2>5, <1>7 DEF Counted, GraphInv
<1> QED
  BY <1>7, <1>15, <1>16, <1>17, <1>8, <1>10, <1>11, <1>12, <1>13, <1>14 DEF GraphInv, h

-----------------------------------------------------------------------------
(* Marks, the clock, and the span of a new node.                           *)

\* Fields the invariant does not look at may change, protections of live nodes too.
LEMMA Restyled ==
    ASSUME NEW g, GraphInv(g), NEW h \in Graphs,
           h.spans = g.spans, h.tt = g.tt, h.high = g.high, h.free = g.free,
           h.live = g.live, h.liveEdges = g.liveEdges,
           \A k \in Slots :
              /\ h.nodes[k].pub = g.nodes[k].pub /\ h.nodes[k].gen = g.nodes[k].gen
              /\ h.nodes[k].state = g.nodes[k].state /\ h.nodes[k].span = g.nodes[k].span
              /\ h.nodes[k].count = g.nodes[k].count /\ h.nodes[k].next = g.nodes[k].next
              /\ ~g.nodes[k].pub => /\ h.nodes[k].path = g.nodes[k].path
                                    /\ h.nodes[k].eval = g.nodes[k].eval
                                    /\ h.nodes[k].pin = g.nodes[k].pin,
           \A e \in Bases :
              /\ h.edges[e].pub = g.edges[e].pub /\ h.edges[e].parent = g.edges[e].parent
              /\ h.edges[e].parentGen = g.edges[e].parentGen
              /\ h.edges[e].child = g.edges[e].child /\ h.edges[e].childGen = g.edges[e].childGen
    PROVE  GraphInv(h) /\ LiveOf(h) = LiveOf(g) /\ \A k \in Slots : Candidates(h, k) = Candidates(g, k)
<1>1. g \in Graphs /\ Slotted(g) /\ Known(g) /\ Spaced(g) /\ Bred(g) /\ Counted(g)
  BY DEF GraphInv
<1>2. LiveOf(h) = LiveOf(g) /\ Vacated(h) = Vacated(g) /\ LiveOf(g) \subseteq Slots
      /\ Vacated(g) \subseteq Slots
  BY DEF LiveOf, Vacated
<1>3. Parents(h) = Parents(g) /\ Parents(g) \subseteq Slots
  BY <1>2 DEF Parents
<1>4. SpansOf(h) = SpansOf(g)
  BY <1>3 DEF SpansOf
<1>5. \A k \in Slots : Candidates(h, k) = Candidates(g, k)
  BY DEF Candidates
<1>6. Slotted(h)
  <2>1. \A n \in LiveOf(h) :
          /\ n < h.high /\ h.nodes[n].gen > 0 /\ h.nodes[n].state \in States
          /\ h.nodes[n].count = Len(Moves[h.nodes[n].state])
    BY <1>1, <1>2 DEF Slotted
  <2>2. \A n \in Slots \ LiveOf(h) : h.nodes[n].path = 0 /\ h.nodes[n].eval = 0 /\ h.nodes[n].pin = 0
    BY <1>1, <1>2 DEF Slotted, LiveOf
  <2>3. h.free # NoNode => h.free \in Vacated(h)
    BY <1>1, <1>2 DEF Slotted
  <2>4. /\ \A n \in Vacated(h) : h.nodes[n].next # NoNode => h.nodes[n].next \in Vacated(h) \ {h.free}
        /\ \A k, n \in Vacated(h) :
             h.nodes[k].next = h.nodes[n].next /\ h.nodes[k].next # NoNode => k = n
    <3>1. \A n \in Vacated(g) : n \in Slots /\ h.nodes[n].next = g.nodes[n].next
      BY <1>2
    <3>2. /\ \A n \in Vacated(g) : g.nodes[n].next # NoNode => g.nodes[n].next \in Vacated(g) \ {g.free}
          /\ \A k, n \in Vacated(g) :
               g.nodes[k].next = g.nodes[n].next /\ g.nodes[k].next # NoNode => k = n
      BY ZenonT(60), <1>1 DEF Slotted
    <3> QED
      BY ZenonT(60), <3>1, <3>2, <1>2
  <2> QED
    BY <2>1, <2>2, <2>3, <2>4 DEF Slotted
<1>7. Known(h)
  <2>1. ASSUME NEW n \in LiveOf(g), NEW j \in 0 .. TTProbes - 1, Entered(g, n, j) PROVE Entered(h, n, j)
    BY <2>1, <1>2 DEF Entered
  <2>2. \A k, n \in LiveOf(h) : h.nodes[k].state = h.nodes[n].state => k = n
    BY ZenonT(60), <1>1, <1>2 DEF Known
  <2> QED
    BY ZenonT(60), <2>1, <2>2, <1>1, <1>2 DEF Known
<1>8. Spaced(h)
  BY <1>1, <1>3, <1>4 DEF Spaced
<1>9. Bred(h)
  <2>1. ASSUME NEW n \in LiveOf(h), NEW e \in Candidates(h, n) PROVE Rightful(h, n, e)
    <3>1. n \in LiveOf(g) /\ e \in Candidates(g, n) /\ n \in Slots
      BY <1>2, <1>5
    <3>2. e \in Bases
      BY <3>1, CandidatesLemma
    <3>3. g.edges[e].parent \in Slots /\ g.edges[e].child \in Slots \cup {NoNode}
      BY SMTT(30), <3>2, <1>1 DEF Graphs, Edges
    <3>4. Successor(h, e) = Successor(g, e)
      BY ZenonT(60), <3>2, <3>3 DEF Successor
    <3>5. Rightful(g, n, e)
      BY <3>1, <1>1 DEF Bred
    <3> QED
      BY <3>1, <3>2, <3>3, <3>4, <3>5 DEF Rightful
  <2> QED
    BY <2>1 DEF Bred
<1>10. Counted(h)
  <2>1. CandidateSet(h) = CandidateSet(g)
    BY <1>2, <1>5 DEF CandidateSet
  <2> QED
    BY <2>1, <1>1, <1>2 DEF Counted
<1> QED
  BY <1>2, <1>5, <1>6, <1>7, <1>8, <1>9, <1>10 DEF GraphInv

\* A node is marked as used, or the mark is taken off.
LEMMA RefLemma ==
    ASSUME NEW g, GraphInv(g), NEW n \in Slots, NEW b \in BOOLEAN
    PROVE  LET h == [g EXCEPT !.nodes[n].ref = b] IN
           /\ GraphInv(h) /\ Kept(g, h) /\ LiveOf(h) = LiveOf(g)
           /\ \A k \in Slots : h.nodes[k].state = g.nodes[k].state
<1> DEFINE h == [g EXCEPT !.nodes[n].ref = b]
           nodes == [g.nodes EXCEPT ![n].ref = b]
<1>1. g \in Graphs /\ g.nodes \in [Slots -> Nodes]
  BY DEF GraphInv, Graphs
<1>2. ASSUME NEW k \in Slots
      PROVE  /\ nodes[k] \in Nodes
             /\ nodes[k].pub = g.nodes[k].pub /\ nodes[k].gen = g.nodes[k].gen
             /\ nodes[k].state = g.nodes[k].state /\ nodes[k].span = g.nodes[k].span
             /\ nodes[k].count = g.nodes[k].count /\ nodes[k].next = g.nodes[k].next
             /\ nodes[k].path = g.nodes[k].path /\ nodes[k].eval = g.nodes[k].eval
             /\ nodes[k].pin = g.nodes[k].pin
  <2>1. PICK q \in Nodes : q = g.nodes[k]
    BY <1>1
  <2>2. nodes[k] = IF k = n THEN [q EXCEPT !.ref = b] ELSE q
    BY <2>1, <1>1 DEF Nodes
  <2> HIDE DEF nodes
  <2> QED
    BY <2>1, <2>2 DEF Nodes
<1>3. nodes = [k \in Slots |-> nodes[k]]
  BY <1>1
<1>4. h = [g EXCEPT !.nodes = nodes]
  BY <1>1
<1> HIDE DEF nodes, h
<1>5. h \in Graphs /\ h.nodes = nodes /\ h.spans = g.spans /\ h.tt = g.tt /\ h.high = g.high
      /\ h.free = g.free /\ h.edges = g.edges /\ h.root = g.root /\ h.rootGen = g.rootGen
      /\ h.live = g.live /\ h.liveEdges = g.liveEdges
  BY <1>1, <1>2, <1>3, <1>4 DEF Graphs
<1>6. GraphInv(h) /\ LiveOf(h) = LiveOf(g)
  BY <1>2, <1>5, Restyled
<1>7. Kept(g, h)
  BY <1>2, <1>5 DEF Kept, Tended, Steered, Leads
<1> QED
  BY <1>2, <1>5, <1>6, <1>7 DEF h

\* One candidate of the clock: at most it leaves.
LEMMA ReclaimLemma ==
    ASSUME NEW g, GraphInv(g), NEW retires \in BOOLEAN
    PROVE  LET h == ReclaimOne(g, retires) IN
           /\ GraphInv(h) /\ Kept(g, h) /\ LiveOf(h) \subseteq LiveOf(g)
           /\ \A k \in Slots : h.nodes[k].state = g.nodes[k].state
<1> DEFINE n == IF g.clock >= g.high THEN 0 ELSE g.clock
           p == Pass(g, n)
<1>1. g \in Graphs /\ g.high \in 0 .. NodeCapacity /\ g.clock \in Nat /\ NodeCapacity \in Nat
  BY GraphConstants DEF GraphInv, Graphs
<1>2. CASE g.high = 0
  BY <1>2 DEF ReclaimOne, Kept, Tended, Steered, Leads
<1>3. CASE g.high # 0
  <2>1. ReclaimOne(g, retires) = Candidate(p, n, retires)
    BY <1>3 DEF ReclaimOne
  <2>2. n \in Slots /\ n \in Nat
    BY <1>1, <1>3 DEF Slots
  <2> HIDE DEF n
  <2>3. (n + 1) % g.high \in Nat
    BY <1>1, <1>3, <2>2
  <2>4. /\ p \in Graphs /\ p.nodes = g.nodes /\ p.spans = g.spans /\ p.tt = g.tt /\ p.high = g.high
        /\ p.free = g.free /\ p.edges = g.edges /\ p.root = g.root /\ p.rootGen = g.rootGen
        /\ p.live = g.live /\ p.liveEdges = g.liveEdges
    BY <1>1, <2>3 DEF Pass, Graphs
  <2> HIDE DEF p
  <2>5. GraphInv(p) /\ LiveOf(p) = LiveOf(g)
    BY <2>4, Restyled
  <2>6. Kept(g, p)
    BY <2>4 DEF Kept, Tended, Steered, Leads
  <2>7. CASE ~p.nodes[n].pub \/ Protected(p, n)
    <3>1. Candidate(p, n, retires) = p
      BY <2>7 DEF Candidate
    <3> QED
      BY <3>1, <2>1, <2>4, <2>5, <2>6
  <2>8. CASE ~(~p.nodes[n].pub \/ Protected(p, n)) /\ p.nodes[n].ref
    <3> DEFINE h == [p EXCEPT !.nodes[n].ref = FALSE]
    <3>1. Candidate(p, n, retires) = h
      BY <2>8 DEF Candidate
    <3>2. GraphInv(h) /\ Kept(p, h) /\ LiveOf(h) = LiveOf(p)
          /\ \A k \in Slots : h.nodes[k].state = p.nodes[k].state
      BY <2>2, <2>5, RefLemma
    <3> HIDE DEF h
    <3>3. Kept(g, h)
      BY <3>2, <2>6, KeptTwice
    <3> QED
      BY <3>1, <3>2, <3>3, <2>1, <2>4, <2>5
  <2>9. CASE ~(~p.nodes[n].pub \/ Protected(p, n)) /\ ~p.nodes[n].ref
    <3>1. n \in LiveOf(p) /\ ~Protected(p, n)
      BY <2>2, <2>9 DEF LiveOf
    <3>2. Candidate(p, n, retires) = IF retires THEN Retire(p, n) ELSE p
      BY <2>9 DEF Candidate
    <3>3. GraphInv(Retire(p, n)) /\ Kept(p, Retire(p, n)) /\ LiveOf(Retire(p, n)) \subseteq LiveOf(p)
          /\ \A k \in Slots : Retire(p, n).nodes[k].state = p.nodes[k].state
      BY <3>1, <2>5, RetireLemma
    <3>4. Kept(g, Retire(p, n))
      BY <3>3, <2>6, KeptTwice
    <3> QED
      BY <3>2, <3>3, <3>4, <2>1, <2>4, <2>5, <2>6
  <2> QED
    BY <2>7, <2>8, <2>9
<1> QED
  BY <1>2, <1>3

\* The span that is cut for the moves of a state.
CutFor(g, s) ==
    IF Moves[s] = <<>> THEN [store |-> g.spans, base |-> NoSpan]
    ELSE SpanAllocate(g.spans, SpanFind(g.spans, Len(Moves[s])), Len(Moves[s]))

\* What is cut for a state that has room is no node's span.
LEMMA CutForLemma ==
    ASSUME NEW g, GraphInv(g), NEW s \in States, ~NoSpace(g, s)
    PROVE  LET cut == CutFor(g, s)
               n == Len(Moves[s])
           IN
           /\ cut.store \in Stores
           /\ n = 0 => cut.base = NoSpan /\ cut.store = g.spans
           /\ n > 0 =>
                 /\ cut.base = SpanFind(g.spans, n)
                 /\ cut.base \in Bases \ SpansOf(g) /\ Cells(cut.base, n) \subseteq Bases
                 /\ \E G : Arena(cut.store, G, SpansOf(g) \cup {cut.base}, {})
                 /\ cut.store.words[cut.base].length = n
                 /\ \A c \in SpansOf(g) : cut.store.words[c].length = g.spans.words[c].length
                 /\ \A k \in LiveOf(g) : Cells(cut.base, n) \cap Candidates(g, k) = {}
<1> DEFINE n == Len(Moves[s])
           st == g.spans
           b == SpanFind(st, n)
           T == SpansOf(g)
           new == Cut(st, b, n, st.words[b].length)
           cut == CutFor(g, s)
<1>1. n \in Nat /\ n <= MaxActions /\ (Moves[s] = <<>> <=> n = 0) /\ g \in Graphs /\ st \in Stores
  BY GraphConstants DEF GraphInv, Graphs
<1>2. PICK F : Arena(st, F, T, {})
  BY DEF GraphInv, Spaced
<1>3. CASE n = 0
  BY <1>1, <1>3 DEF CutFor
<1>4. CASE n > 0
  <2>1. b # NoSpan
    BY <1>1, <1>4 DEF NoSpace
  <2>2. n \in 1 .. MaxActions
    BY <1>1, <1>4, GraphConstants
  <2> HIDE DEF st, T, n, b
  <2>3. b \in F /\ st.words[b].length >= n
    BY <2>1, <2>2, <1>2, FindLemma DEF b
  <2>4. b \in Bases /\ b \notin T /\ st.words[b].length \in Nat /\ b \in Nat
        /\ b + st.words[b].length <= EdgeCapacity
    <3>1. Layout(st.words, F, T, {})
      BY <1>2 DEF Arena
    <3>2. b \notin T
      BY <2>3, <3>1 DEF Layout
    <3> QED
      BY <3>1, <3>2, <2>3, Bounds
  <2>5. n \in 1 .. st.words[b].length
    BY <2>2, <2>3, <2>4
  <2>6. /\ \E G : Arena(new, G, T \cup {b}, {})
        /\ new.words[b].length = n
        /\ \A c \in T : new.words[c].length = st.words[c].length
    <3>1. Cuttable(st, F, T, b, n)
      BY <1>2, <2>3, <2>5 DEF Cuttable
    <3>2. CutFrom(new, st, T, b, n)
      BY ONLY <3>1, CutLemma
    <3> QED
      BY <3>2 DEF CutFrom
  <2>7. Cells(b, n) \subseteq Bases /\ Cells(b, n) \subseteq Cells(b, st.words[b].length)
    BY SMTT(30), <2>2, <2>3, <2>4, GraphConstants DEF Cells, Bases
  <2>8. \A k \in LiveOf(g) : Cells(b, n) \cap Candidates(g, k) = {}
    <3>1. \A k \in LiveOf(g) : g.nodes[k].count \in Nat
      BY <1>1 DEF Graphs, Nodes, LiveOf
    <3>2. \A k \in LiveOf(g) : Candidates(g, k) \cap Cells(b, st.words[b].length) = {}
      BY <3>1, <2>3, <1>2, CandidatesApart DEF GraphInv, Spaced, st, T
    <3> QED
      BY <3>2, <2>7
  <2>9. cut = [base |-> b, store |-> new]
    BY <2>1, <1>1, <1>4 DEF CutFor, SpanAllocate, b, n, st
  <2>10. new \in Stores
    BY <2>6 DEF Arena
  <2> HIDE DEF new, cut
  <2>11. cut.base = b /\ cut.store = new
    BY <2>9
  <2>12. ~(n = 0)
    BY <1>4
  <2> QED
    BY <2>4, <2>6, <2>7, <2>8, <2>10, <2>11, <2>12 DEF cut, n, b, st, T
<1>5. n = 0 \/ n > 0
  BY <1>1
<1> QED
  BY <1>3, <1>4, <1>5

-----------------------------------------------------------------------------
(* A node is written.                                                      *)

\* The slot that is taken holds no live node, and no vacated slot leads to it.
LEMMA NextSlotLemma ==
    ASSUME NEW g, GraphInv(g), ~NoRoom(g)
    PROVE  LET slot == NextSlot(g) IN
           /\ slot \in Slots \ LiveOf(g)
           /\ g.free = NoNode => slot = g.high /\ slot \notin Vacated(g)
           /\ g.free # NoNode => slot = g.free /\ slot \in Vacated(g)
           /\ \A n \in Vacated(g) : g.nodes[n].next # slot
<1>1. g \in Graphs /\ Slotted(g) /\ g.high \in 0 .. NodeCapacity /\ NodeCapacity \in Nat
      /\ NoNode \notin Slots
  BY GraphConstants DEF GraphInv, Graphs
<1>2. CASE g.free = NoNode
  <2>1. NextSlot(g) = g.high /\ g.high < NodeCapacity
    BY <1>1, <1>2 DEF NoRoom, NextSlot
  <2>2. g.high \in Slots
    BY <2>1, <1>1 DEF Slots
  <2>3. g.high \notin LiveOf(g) /\ g.high \notin Vacated(g)
    BY <1>1 DEF Slotted, Vacated
  <2>4. \A n \in Vacated(g) : g.nodes[n].next # g.high
    BY <2>2, <2>3, <1>1 DEF Slotted
  <2> QED
    BY <2>1, <2>2, <2>3, <2>4, <1>2
<1>3. CASE g.free # NoNode
  <2>1. NextSlot(g) = g.free
    BY <1>3 DEF NextSlot
  <2>2. g.free \in Vacated(g)
    BY <1>1, <1>3 DEF Slotted
  <2>3. g.free \in Slots \ LiveOf(g)
    BY <2>2 DEF Vacated, LiveOf
  <2>4. \A n \in Vacated(g) : g.nodes[n].next # g.free
    BY <1>1, <1>3 DEF Slotted
  <2> QED
    BY <2>1, <2>2, <2>3, <2>4, <1>3
<1> QED
  BY <1>2, <1>3

\* A node is written for a state that has none.
LEMMA PlaceLemma ==
    ASSUME NEW g, GraphInv(g), NEW s \in States, \A n \in LiveOf(g) : g.nodes[n].state # s,
           NEW probe, Vacant(g, s, probe), probe # TTProbes,
           ~NoRoom(g), ~NoSpace(g, s), ~Exhausted(g, s)
    PROVE  LET h == Place(g, s, Index(s, probe)) IN
           /\ GraphInv(h) /\ Kept(g, h)
           /\ NextSlot(g) \in LiveOf(h) /\ h.nodes[NextSlot(g)].state = s
<1> DEFINE slot == NextSlot(g)
           gen == NextGeneration(g, slot)
           k == Len(Moves[s])
           cut == CutFor(g, s)
           base == cut.base
           entry == Index(s, probe)
           h == Place(g, s, entry)
           node == [pub |-> TRUE, gen |-> gen, state |-> s, span |-> base, count |-> k, path |-> 0,
                    eval |-> 0, pin |-> 0, ref |-> TRUE, next |-> g.nodes[slot].next]
           nodes == [g.nodes EXCEPT ![slot] = node]
           edges == [e \in Bases |-> IF base = NoSpan \/ e \notin Cells(base, k) THEN g.edges[e]
                                     ELSE Candidacy(g.edges[e], slot, gen)]
           words == [status |-> Used, key |-> Key[s], slot |-> slot, gen |-> gen]
           tt == [g.tt EXCEPT ![entry] = words]
           high == IF g.free = NoNode THEN g.high + 1 ELSE g.high
           free == IF g.free = NoNode THEN g.free ELSE g.nodes[slot].next
           span == IF k > 0 THEN {base} ELSE {}
<1>1. g \in Graphs /\ Slotted(g) /\ Known(g) /\ Spaced(g) /\ Bred(g)
  BY DEF GraphInv
<1>2. /\ slot \in Slots \ LiveOf(g)
      /\ g.free = NoNode => slot = g.high /\ slot \notin Vacated(g)
      /\ g.free # NoNode => slot = g.free /\ slot \in Vacated(g)
      /\ \A n \in Vacated(g) : g.nodes[n].next # slot
  BY NextSlotLemma
<1>3. /\ k \in 0 .. MaxActions /\ Key[s] \in Nat /\ NoNode \notin Slots /\ NoSpan \notin Bases
      /\ NodeCapacity \in Nat /\ MaxGeneration \in Nat /\ TTProbes \in Nat
  BY GraphConstants
<1>4. /\ cut.store \in Stores
      /\ k = 0 => base = NoSpan /\ cut.store = g.spans
      /\ k > 0 =>
            /\ base = SpanFind(g.spans, k)
            /\ base \in Bases \ SpansOf(g) /\ Cells(base, k) \subseteq Bases
            /\ \E G : Arena(cut.store, G, SpansOf(g) \cup {base}, {})
            /\ cut.store.words[base].length = k
            /\ \A c \in SpansOf(g) : cut.store.words[c].length = g.spans.words[c].length
            /\ \A n \in LiveOf(g) : Cells(base, k) \cap Candidates(g, n) = {}
  BY CutForLemma
<1>5. probe \in 0 .. TTProbes - 1 /\ entry \in Entries /\ ~Current(g, g.tt[entry])
      /\ \A j \in 0 .. probe - 1 : g.tt[Index(s, j)].status # Empty
  <2>1. probe \in 0 .. TTProbes - 1
    BY <1>3 DEF Vacant
  <2>2. entry \in Entries
    BY <2>1, IndexType
  <2> QED
    BY <2>1, <2>2, <1>3 DEF Vacant
<1>6. /\ g.nodes[slot].gen \in Nat /\ gen = g.nodes[slot].gen + 1 /\ gen \in Gens /\ gen > 0
      /\ g.nodes[slot].next \in Slots \cup {NoNode}
      /\ g.nodes[slot].path = 0 /\ g.nodes[slot].eval = 0 /\ g.nodes[slot].pin = 0
  <2>1. g.nodes[slot] \in Nodes
    BY <1>1, <1>2 DEF Graphs
  <2>2. g.nodes[slot].gen \in 0 .. MaxGeneration /\ ~(g.nodes[slot].gen >= MaxGeneration)
    BY <2>1 DEF Nodes, Gens, Exhausted
  <2> QED
    <3>1. g.nodes[slot].gen \in Nat /\ gen = g.nodes[slot].gen + 1 /\ gen \in Gens /\ gen > 0
      BY <2>2, <1>2, GraphConstants DEF NextGeneration, Gens
    <3>2. g.nodes[slot].next \in Slots \cup {NoNode}
      BY <2>1 DEF Nodes
    <3>3. g.nodes[slot].path = 0 /\ g.nodes[slot].eval = 0 /\ g.nodes[slot].pin = 0
      BY ZenonT(60), <1>1, <1>2 DEF Slotted
    <3> QED
      BY <3>1, <3>2, <3>3
<1>7. PICK f \in Graphs :
         /\ f.spans = cut.store /\ f.root = g.root /\ f.rootGen = g.rootGen
         /\ h = [f EXCEPT !.high = high, !.free = free, !.nodes = nodes, !.edges = edges, !.tt = tt,
                          !.live = g.live + 1, !.liveEdges = g.liveEdges + k]
  <2> DEFINE f == [g EXCEPT !.spans = cut.store]
  <2>1. h = Written(f, s, slot, gen, base, entry)
    BY DEF Place, CutFor, PlaceAt
  <2> HIDE DEF slot, gen, base, entry, cut
  <2>2. /\ f \in Graphs /\ f.spans = cut.store /\ f.root = g.root /\ f.rootGen = g.rootGen
        /\ f.high = g.high /\ f.free = g.free /\ f.nodes = g.nodes /\ f.edges = g.edges
        /\ f.tt = g.tt /\ f.live = g.live /\ f.liveEdges = g.liveEdges
    BY <1>1, <1>4 DEF Graphs
  <2> HIDE DEF f, h
  <2>3. h = [f EXCEPT !.high = high, !.free = free, !.nodes = nodes, !.edges = edges, !.tt = tt,
                      !.live = g.live + 1, !.liveEdges = g.liveEdges + k]
    <3> DEFINE heir == [pub |-> TRUE, gen |-> gen, state |-> s, span |-> base,
                        count |-> Len(Moves[s]), path |-> 0, eval |-> 0, pin |-> 0, ref |-> TRUE,
                        next |-> f.nodes[slot].next]
    <3>1. high = (IF f.free = NoNode THEN f.high + 1 ELSE f.high)
      BY <2>2
    <3>2. free = (IF f.free = NoNode THEN f.free ELSE f.nodes[slot].next)
      BY <2>2
    <3>3. nodes = [f.nodes EXCEPT ![slot] = heir]
      BY <2>2
    <3>4. edges = [e \in Bases |->
                     IF base = NoSpan \/ e \notin Cells(base, Len(Moves[s])) THEN f.edges[e]
                     ELSE Candidacy(f.edges[e], slot, gen)]
      BY <2>2
    <3>5. /\ tt = [f.tt EXCEPT ![entry] = [status |-> Used, key |-> Key[s], slot |-> slot, gen |-> gen]]
          /\ g.live + 1 = f.live + 1 /\ g.liveEdges + k = f.liveEdges + Len(Moves[s])
      BY <2>2
    <3>6. h = [f EXCEPT
                 !.high = (IF f.free = NoNode THEN f.high + 1 ELSE f.high),
                 !.free = (IF f.free = NoNode THEN f.free ELSE f.nodes[slot].next),
                 !.nodes = [f.nodes EXCEPT ![slot] = heir],
                 !.edges = [e \in Bases |->
                     IF base = NoSpan \/ e \notin Cells(base, Len(Moves[s])) THEN f.edges[e]
                     ELSE Candidacy(f.edges[e], slot, gen)],
                 !.tt = [f.tt EXCEPT ![entry] = [status |-> Used, key |-> Key[s], slot |-> slot, gen |-> gen]],
                 !.live = f.live + 1, !.liveEdges = f.liveEdges + Len(Moves[s])]
      <4> HIDE DEF nodes, edges, tt, high, free, k, node, words
      <4> QED
        BY ONLY <2>1 DEF Written, heir
    <3> HIDE DEF high, free, nodes, edges, tt, k, heir
    <3> QED
      BY ONLY <3>1, <3>2, <3>3, <3>4, <3>5, <3>6
  <2> HIDE DEF high, free, nodes, edges, tt, k
  <2> QED
    BY <2>2, <2>3
<1> HIDE DEF h, slot, gen, k, cut, base, entry
<1>8. /\ nodes \in [Slots -> Nodes] /\ nodes[slot] = node
      /\ \A n \in Slots \ {slot} : nodes[n] = g.nodes[n]
  <2>1. node \in Nodes
    BY <1>3, <1>4, <1>6 DEF Nodes, Links
  <2>2. g.nodes \in [Slots -> Nodes]
    BY <1>1 DEF Graphs
  <2> HIDE DEF node
  <2> QED
    BY <2>1, <2>2, <1>2
<1>9. /\ edges \in [Bases -> Edges]
      /\ \A e \in Bases : ~(k > 0 /\ e \in Cells(base, k)) => edges[e] = g.edges[e]
      /\ k > 0 => \A e \in Cells(base, k) : edges[e] = Candidacy(g.edges[e], slot, gen)
  <2>1. k = 0 => Cells(base, k) = {}
    <3>1. k = 0 => base = NoSpan
      BY <1>4
    <3>2. k = 0 => base \in Int
      BY <3>1 DEF NoSpan
    <3> QED
      BY <3>2 DEF Cells
  <2>2. ASSUME NEW e \in Bases
        PROVE  /\ edges[e] \in Edges
               /\ ~(k > 0 /\ e \in Cells(base, k)) => edges[e] = g.edges[e]
               /\ k > 0 /\ e \in Cells(base, k) => edges[e] = Candidacy(g.edges[e], slot, gen)
    <3>1. PICK q \in Edges : q = g.edges[e]
      BY <1>1 DEF Graphs
    <3>2. CASE k > 0 /\ e \in Cells(base, k)
      <4>1. base # NoSpan /\ edges[e] = Candidacy(q, slot, gen)
        BY <3>1, <3>2, <1>3, <1>4
      <4>2. Moves[s] # <<>> /\ base = SpanFind(g.spans, Len(Moves[s]))
        BY <3>2, <1>4 DEF k
      <4>3. ~(g.edges[e].gen >= MaxGeneration)
        BY <4>2, <3>2 DEF Exhausted, k
      <4>4. q.gen \in Nat /\ q.gen + 1 \in Gens
        BY <4>3, <3>1, <1>3 DEF Edges, Gens
      <4>5. Candidacy(q, slot, gen) \in Edges
        <5>1. slot \in Slots /\ 0 \in Gens /\ 0 \in Nat
          BY <1>2, <1>3 DEF Gens
        <5> QED
          BY <5>1, <4>4, <1>6 DEF Candidacy, Edges
      <4> HIDE DEF edges
      <4> QED
        BY <4>1, <4>5, <3>1, <3>2
    <3>3. CASE ~(k > 0 /\ e \in Cells(base, k))
      <4>1. edges[e] = q
        BY <3>1, <3>3, <2>1, <1>3
      <4> HIDE DEF edges
      <4> QED
        BY <4>1, <3>1, <3>3
    <3> QED
      BY <3>2, <3>3
  <2>3. edges = [e \in Bases |-> edges[e]]
    OBVIOUS
  <2> HIDE DEF edges
  <2>4. k > 0 => Cells(base, k) \subseteq Bases
    BY <1>4
  <2> QED
    BY <2>2, <2>3, <2>4
<1>10. /\ tt \in [Entries -> TTEntries] /\ tt[entry] = words
       /\ \A i \in Entries : i # entry => tt[i] = g.tt[i]
  <2>1. words \in TTEntries
    BY <1>2, <1>3, <1>6 DEF TTEntries
  <2>2. g.tt \in [Entries -> TTEntries]
    BY <1>1 DEF Graphs
  <2> HIDE DEF words
  <2> QED
    BY <2>1, <2>2, <1>5
<1>11. high \in 0 .. NodeCapacity /\ free \in Slots \cup {NoNode} /\ g.high \in Nat /\ high \in Nat
  <2>1. g.high \in 0 .. NodeCapacity /\ g.free \in Slots \cup {NoNode}
    BY <1>1 DEF Graphs
  <2> QED
    BY <2>1, <1>2, <1>3, <1>6 DEF Slots
<1> HIDE DEF nodes, edges, tt
<1>12. /\ h \in Graphs /\ h.spans = cut.store /\ h.high = high /\ h.free = free /\ h.nodes = nodes
       /\ h.edges = edges /\ h.tt = tt /\ h.root = g.root /\ h.rootGen = g.rootGen
       /\ h.live = g.live + 1 /\ h.liveEdges = g.liveEdges + k
  <2>1. g.live + 1 \in Int /\ g.liveEdges + k \in Int
    BY <1>1, <1>3 DEF Graphs
  <2> HIDE DEF high, free
  <2> QED
    BY <2>1, <1>1, <1>4, <1>7, <1>8, <1>9, <1>10, <1>11 DEF Graphs
<1>13. /\ \A n \in Slots \ {slot} : h.nodes[n] = g.nodes[n]
       /\ h.nodes[slot].pub /\ h.nodes[slot].gen = gen /\ h.nodes[slot].state = s
       /\ h.nodes[slot].span = base /\ h.nodes[slot].count = k /\ h.nodes[slot].path = 0
       /\ h.nodes[slot].eval = 0 /\ h.nodes[slot].pin = 0
  BY <1>8, <1>12
<1>14. /\ LiveOf(h) = LiveOf(g) \cup {slot} /\ slot \notin LiveOf(g)
  BY <1>2, <1>13 DEF LiveOf
<1>15. Vacated(h) = Vacated(g) \ {slot}
  <2>1. ASSUME NEW n \in Slots \ {slot} PROVE n < h.high <=> n < g.high
    BY <1>2, <1>11, <1>12 DEF Slots
  <2> QED
    BY <2>1, <1>2, <1>13 DEF Vacated
<1>16. Slotted(h)
  <2>1. \A n \in LiveOf(h) :
          /\ n < h.high /\ h.nodes[n].gen > 0 /\ h.nodes[n].state \in States
          /\ h.nodes[n].count = Len(Moves[h.nodes[n].state])
    <3>1. ASSUME NEW n \in LiveOf(g)
          PROVE  /\ n < h.high /\ h.nodes[n].gen > 0 /\ h.nodes[n].state \in States
                 /\ h.nodes[n].count = Len(Moves[h.nodes[n].state])
      <4>1. n \in Slots \ {slot} /\ n < g.high
        BY <1>1, <1>14 DEF LiveOf, Slotted
      <4>2. n < h.high
        BY <4>1, <1>11, <1>12 DEF Slots
      <4> QED
        BY <4>1, <4>2, <1>1, <1>13 DEF Slotted
    <3>2. slot < h.high
      <4>1. CASE g.free = NoNode
        BY <4>1, <1>2, <1>11, <1>12
      <4>2. CASE g.free # NoNode
        BY <4>2, <1>2, <1>11, <1>12 DEF Vacated
      <4> QED
        BY <4>1, <4>2
    <3> QED
      BY <3>1, <3>2, <1>6, <1>13, <1>14 DEF k
  <2>2. ASSUME NEW n \in Slots \ LiveOf(h)
        PROVE  h.nodes[n].path = 0 /\ h.nodes[n].eval = 0 /\ h.nodes[n].pin = 0
    BY <1>1, <1>13, <1>14 DEF Slotted
  <2>3. h.free # NoNode => h.free \in Vacated(h)
    <3>1. CASE g.free = NoNode
      BY <3>1, <1>12
    <3>2. CASE g.free # NoNode
      <4>1. h.free = g.nodes[slot].next /\ slot = g.free /\ slot \in Vacated(g)
        BY <3>2, <1>2, <1>12
      <4>2. h.free # NoNode => h.free \in Vacated(g) \ {slot}
        BY <4>1, <1>1 DEF Slotted
      <4> QED
        BY <4>2, <1>15
    <3> QED
      BY <3>1, <3>2
  <2>4. ASSUME NEW n \in Vacated(h), h.nodes[n].next # NoNode
        PROVE  h.nodes[n].next \in Vacated(h) \ {h.free}
    <3>1. n \in Vacated(g) /\ n # slot /\ n \in Slots /\ h.nodes[n].next = g.nodes[n].next
      BY <1>13, <1>15 DEF Vacated
    <3>2. g.nodes[n].next \in Vacated(g) /\ g.nodes[n].next # slot
      BY <3>1, <2>4, <1>1, <1>2 DEF Slotted
    <3>3. h.nodes[n].next # h.free
      <4>1. CASE g.free = NoNode
        BY <4>1, <2>4, <1>12
      <4>2. CASE g.free # NoNode
        BY <4>2, <3>1, <2>4, <1>1, <1>2, <1>12 DEF Slotted
      <4> QED
        BY <4>1, <4>2
    <3> QED
      BY <3>1, <3>2, <3>3, <1>15
  <2>5. ASSUME NEW n \in Vacated(h), NEW l \in Vacated(h),
               h.nodes[n].next = h.nodes[l].next, h.nodes[n].next # NoNode
        PROVE  n = l
    <3>1. n \in Vacated(g) /\ l \in Vacated(g) /\ n \in Slots \ {slot} /\ l \in Slots \ {slot}
      BY <1>15 DEF Vacated
    <3> QED
      BY <3>1, <2>5, <1>1, <1>13 DEF Slotted
  <2> QED
    BY <2>1, <2>2, <2>3, <2>4, <2>5 DEF Slotted
<1>17. Known(h)
  <2>1. ASSUME NEW n \in LiveOf(g), NEW j \in 0 .. TTProbes - 1, Entered(g, n, j)
        PROVE  Entered(h, n, j)
    <3>1. /\ n \in Slots \ {slot} /\ n < g.high /\ g.nodes[n].pub /\ g.nodes[n].gen > 0
          /\ g.nodes[n].state \in States /\ g.nodes[n].gen \in Nat /\ n >= 0 /\ n \in Int
      <4>1. n \in Slots \ {slot} /\ g.nodes[n].pub
        BY <1>14 DEF LiveOf
      <4>2. n >= 0 /\ n \in Int
        BY <4>1, <1>3 DEF Slots
      <4>3. g.nodes[n] \in Nodes
        BY <4>1, <1>1 DEF Graphs
      <4> QED
        BY <4>1, <4>2, <4>3, <1>1, <1>3 DEF Slotted, Nodes, Gens
    <3>2. Valid(g, n, g.nodes[n].gen)
      BY <3>1, <1>11 DEF Valid
    <3>3. Current(g, g.tt[Index(g.nodes[n].state, j)])
      BY <3>2, <2>1 DEF Entered, Current
    <3>4. Index(g.nodes[n].state, j) # entry /\ \A i \in 0 .. j : Index(g.nodes[n].state, i) \in Entries
      BY <3>1, <3>3, <1>5, IndexType
    <3>5. h.tt[Index(g.nodes[n].state, j)] = g.tt[Index(g.nodes[n].state, j)]
      BY <3>4, <1>10, <1>12
    <3>6. ASSUME NEW i \in 0 .. j - 1 PROVE h.tt[Index(g.nodes[n].state, i)].status # Empty
      <4>1. g.tt[Index(g.nodes[n].state, i)].status # Empty /\ i \in 0 .. j
        BY <2>1 DEF Entered
      <4> QED
        BY <4>1, <3>4, <1>10, <1>12 DEF Used, Empty
    <3> QED
      BY ZenonT(60), <2>1, <3>1, <3>5, <3>6, <1>13 DEF Entered
  <2>2. Entered(h, slot, probe)
    <3>1. ASSUME NEW i \in 0 .. probe - 1 PROVE h.tt[Index(s, i)].status # Empty
      <4>1. Index(s, i) \in Entries /\ g.tt[Index(s, i)].status # Empty
        BY <1>5, IndexType
      <4> QED
        BY <4>1, <1>10, <1>12 DEF Used, Empty
    <3> QED
      BY <3>1, <1>10, <1>12, <1>13 DEF Entered, entry
  <2>3. ASSUME NEW n \in LiveOf(h), NEW l \in LiveOf(h), h.nodes[n].state = h.nodes[l].state PROVE n = l
    <3>1. ASSUME NEW i \in LiveOf(g) PROVE h.nodes[i] = g.nodes[i] /\ g.nodes[i].state # s
      BY <1>13, <1>14 DEF LiveOf
    <3>2. \A i, l2 \in LiveOf(g) : g.nodes[i].state = g.nodes[l2].state => i = l2
      BY <1>1 DEF Known
    <3> QED
      BY <3>1, <3>2, <2>3, <1>13, <1>14
  <2> QED
    BY <2>1, <2>2, <2>3, <1>1, <1>5, <1>14 DEF Known
<1>18. Parents(h) = Parents(g) \cup (IF k > 0 THEN {slot} ELSE {}) /\ slot \notin Parents(g)
  BY <1>13, <1>14 DEF Parents, LiveOf
<1>19. SpansOf(h) = SpansOf(g) \cup span
  <2>1. \A n \in Parents(g) : h.nodes[n].span = g.nodes[n].span
    BY <1>13, <1>18 DEF Parents, LiveOf
  <2> QED
    BY <2>1, <1>13, <1>18 DEF SpansOf
<1>20. Spaced(h)
  <2>1. \A n \in Parents(g) : h.nodes[n] = g.nodes[n] /\ g.nodes[n].span \in SpansOf(g)
    BY <1>13, <1>18 DEF Parents, LiveOf, SpansOf
  <2>2. \E F : Arena(h.spans, F, SpansOf(h), {})
    <3>1. CASE k > 0
      BY <3>1, <1>4, <1>12, <1>19
    <3>2. CASE ~(k > 0)
      <4>1. k = 0
        BY <3>2, <1>3
      <4>2. h.spans = g.spans /\ SpansOf(h) = SpansOf(g)
        BY <4>1, <1>4, <1>12, <1>19
      <4> QED
        BY <4>2, <1>1 DEF Spaced
    <3> QED
      BY <3>1, <3>2
  <2>3. ASSUME NEW n \in Parents(h) PROVE h.spans.words[h.nodes[n].span].length = h.nodes[n].count
    <3>1. CASE k > 0
      <4>1. CASE n = slot
        BY <4>1, <3>1, <1>4, <1>12, <1>13
      <4>2. CASE n \in Parents(g)
        <5>1. g.nodes[n].span \in SpansOf(g) /\ h.nodes[n] = g.nodes[n]
          BY <4>2, <2>1
        <5>2. cut.store.words[g.nodes[n].span].length = g.spans.words[g.nodes[n].span].length
          BY <5>1, <3>1, <1>4
        <5>3. g.spans.words[g.nodes[n].span].length = g.nodes[n].count
          BY <4>2, <1>1 DEF Spaced
        <5> QED
          BY <5>1, <5>2, <5>3, <1>12
      <4> QED
        BY <4>1, <4>2, <1>18
    <3>2. CASE ~(k > 0)
      <4>1. h.spans = g.spans
        BY <3>2, <1>3, <1>4, <1>12
      <4> QED
        BY <4>1, <3>2, <2>1, <1>1, <1>18 DEF Spaced
    <3> QED
      BY <3>1, <3>2
  <2>4. ASSUME NEW n \in Parents(h), NEW l \in Parents(h), h.nodes[n].span = h.nodes[l].span PROVE n = l
    <3>1. CASE k > 0
      BY <3>1, <2>1, <2>4, <1>1, <1>4, <1>13, <1>18 DEF Spaced
    <3>2. CASE ~(k > 0)
      BY <3>2, <2>1, <2>4, <1>1, <1>18 DEF Spaced
    <3> QED
      BY <3>1, <3>2
  <2> QED
    BY <2>2, <2>3, <2>4 DEF Spaced
<1>21. Bred(h)
  <2>1. ASSUME NEW n \in LiveOf(g), NEW e \in Candidates(h, n) PROVE Rightful(h, n, e)
    <3>1. n \in Slots \ {slot} /\ h.nodes[n] = g.nodes[n] /\ e \in Candidates(g, n)
      BY <1>13, <1>14 DEF LiveOf, Candidates
    <3>2. e \in Bases /\ ~(k > 0 /\ e \in Cells(base, k))
      BY <3>1, <1>4, CandidatesLemma
    <3>3. h.edges[e] = g.edges[e]
      BY <3>2, <1>9, <1>12
    <3>4. Rightful(g, n, e)
      BY <3>1, <1>1 DEF Bred
    <3>5. Successor(h, e) = Successor(g, e)
      BY <3>1, <3>3, <3>4 DEF Successor, Rightful
    <3>6. g.edges[e].child \in Slots \cup {NoNode} /\ g.edges[e].childGen \in Nat
      BY <3>2, <1>1 DEF Graphs, Edges, Gens
    <3>7. CASE g.edges[e].child = slot
      <4>1. g.edges[e].childGen <= g.nodes[slot].gen
        BY <3>4, <3>7, <1>2, <1>3 DEF Rightful
      <4>2. g.edges[e].childGen <= gen /\ g.edges[e].childGen # gen
        BY <4>1, <3>6, <1>6
      <4> QED
        BY <4>2, <3>1, <3>3, <3>4, <3>7, <1>13 DEF Rightful
    <3>8. CASE g.edges[e].child # slot
      BY <3>1, <3>3, <3>4, <3>5, <3>6, <3>8, <1>13 DEF Rightful
    <3> QED
      BY <3>7, <3>8
  <2>2. ASSUME NEW e \in Candidates(h, slot) PROVE Rightful(h, slot, e)
    <3>1. k > 0 /\ e \in Cells(base, k)
      BY <1>3, <1>13 DEF Candidates
    <3>2. h.edges[e] = Candidacy(g.edges[e], slot, gen)
      BY <3>1, <1>9, <1>12
    <3> QED
      BY <3>2, <1>13 DEF Candidacy, Rightful
  <2> QED
    BY <2>1, <2>2, <1>14 DEF Bred
<1>22. Kept(g, h)
  <2>1. ASSUME NEW n \in Slots
        PROVE  h.nodes[n].path = g.nodes[n].path /\ h.nodes[n].eval = g.nodes[n].eval
               /\ h.nodes[n].pin = g.nodes[n].pin
    BY <1>6, <1>13
  <2>2. ASSUME NEW n \in Slots, g.nodes[n].pub, Protected(g, n)
        PROVE  /\ h.nodes[n] = g.nodes[n]
               /\ \A e \in Candidates(g, n) : h.edges[e] = g.edges[e]
    <3>1. n \in LiveOf(g) /\ n \in Slots \ {slot}
      BY <2>2, <1>14 DEF LiveOf
    <3>2. Candidates(g, n) \subseteq Bases /\ (k > 0 => Cells(base, k) \cap Candidates(g, n) = {})
      BY <3>1, <1>4, CandidatesLemma
    <3> QED
      BY <3>1, <3>2, <1>9, <1>12, <1>13
  <2>3. ASSUME NEW e \in Bases PROVE h.edges[e].lease \in {0, g.edges[e].lease}
    <3>1. CASE k > 0 /\ e \in Cells(base, k)
      <4>1. h.edges[e] = Candidacy(g.edges[e], slot, gen)
        BY <3>1, <1>9, <1>12
      <4> QED
        BY <4>1 DEF Candidacy
    <3>2. CASE ~(k > 0 /\ e \in Cells(base, k))
      BY <3>2, <1>9, <1>12
    <3> QED
      BY <3>1, <3>2
  <2> QED
    <3>1. Tended(g, h)
      BY <2>1, <2>2, <2>3, <1>12 DEF Tended
    <3>2. Steered(g, h, {})
      BY <2>2 DEF Steered, Leads
    <3> QED
      BY <3>1, <3>2 DEF Kept
<1>23. Counted(h)
  <2>1. Cardinality(LiveOf(h)) = Cardinality(LiveOf(g)) + 1
    BY <1>14, CountLemma, FS_AddElement
  <2>2. \A n \in LiveOf(g) : Candidates(h, n) = Candidates(g, n)
    BY <1>13, <1>14 DEF LiveOf, Candidates
  <2>3. Cardinality(CandidateSet(h)) = Cardinality(CandidateSet(g)) + k
    <3>1. CASE k > 0
      <4>1. Candidates(h, slot) = Cells(base, k)
        BY <3>1, <1>13 DEF Candidates
      <4>2. CandidateSet(h) = CandidateSet(g) \cup Cells(base, k)
        BY <2>2, <4>1, <1>14 DEF CandidateSet
      <4>3. CandidateSet(g) \cap Cells(base, k) = {}
        BY <3>1, <1>4 DEF CandidateSet
      <4>4. base \in Int /\ k \in Int
        BY <3>1, <1>3, <1>4 DEF Bases
      <4>5. IsFiniteSet(Cells(base, k)) /\ Cardinality(Cells(base, k)) = k
        BY <1>3, <4>4, CellsCount
      <4>6. Cardinality({}) = 0 /\ Cardinality(CandidateSet(g)) \in Nat
        BY CountLemma, FS_EmptySet, FS_CardinalityType
      <4>7. Cardinality(CandidateSet(g) \cup Cells(base, k))
              = Cardinality(CandidateSet(g)) + Cardinality(Cells(base, k))
                  - Cardinality(CandidateSet(g) \cap Cells(base, k))
        BY <4>5, CountLemma, FS_Union
      <4>8. Cardinality(CandidateSet(g) \cap Cells(base, k)) = 0
        BY <4>3, <4>6
      <4>9. Cardinality(CandidateSet(h)) = Cardinality(CandidateSet(g) \cup Cells(base, k))
        BY <4>2
      <4> QED
        BY <4>4, <4>5, <4>6, <4>7, <4>8, <4>9
    <3>2. CASE k = 0
      <4>1. Candidates(h, slot) = {}
        BY <3>2, <1>13 DEF Candidates
      <4>2. CandidateSet(h) = CandidateSet(g)
        BY <2>2, <4>1, <1>14 DEF CandidateSet
      <4>3. Cardinality(CandidateSet(g)) \in Nat
        BY CountLemma, FS_CardinalityType
      <4> QED
        BY <4>2, <4>3, <3>2
    <3> QED
      BY <3>1, <3>2, <1>3
  <2> QED
    BY <2>1, <2>3, <1>12 DEF Counted, GraphInv
<1> QED
  BY <1>12, <1>13, <1>14, <1>16, <1>17, <1>20, <1>21, <1>22, <1>23 DEF GraphInv, h, slot, entry

-----------------------------------------------------------------------------
(* Admission.                                                              *)

\* What a call may leave of a graph: the invariant, and what is protected; the
\* slot it returns stands for the state.
Served(g, got, s) ==
    /\ GraphInv(got.graph) /\ Kept(g, got.graph)
    /\ got.slot # NoNode => got.slot \in LiveOf(got.graph) /\ got.graph.nodes[got.slot].state = s
    /\ got.error \in {0, 3, 4, 6, 7, 10, 11, 12, 13}

\* A state no node stands for, after the clock tried a candidate if need be.
LEMMA MadeRoomLemma ==
    ASSUME NEW g, GraphInv(g), NEW s \in States, \A n \in LiveOf(g) : g.nodes[n].state # s,
           NEW retires \in BOOLEAN
    PROVE  LET w == MadeRoom(TTVacancy(g, s), s, retires) IN
           /\ GraphInv(w.graph) /\ Kept(g, w.graph) /\ Vacant(w.graph, s, w.probe)
           /\ \A n \in LiveOf(w.graph) : w.graph.nodes[n].state # s
<1> DEFINE v == TTVacancy(g, s)
           r == ReclaimOne(v.graph, retires)
           u == TTVacancy(r, s)
           w == MadeRoom(v, s, retires)
<1>1. /\ GraphInv(v.graph) /\ Kept(g, v.graph) /\ v.graph.nodes = g.nodes
      /\ Vacant(v.graph, s, v.probe)
  BY VacancyLemma
<1>2. \A n \in LiveOf(v.graph) : v.graph.nodes[n].state # s
  BY <1>1 DEF LiveOf
<1>3. w = IF Short(v.graph, s, v.probe) THEN u ELSE v
  BY DEF MadeRoom
<1> HIDE DEF v
<1>4. /\ GraphInv(r) /\ Kept(v.graph, r) /\ LiveOf(r) \subseteq LiveOf(v.graph)
      /\ \A k \in Slots : r.nodes[k].state = v.graph.nodes[k].state
  BY <1>1, ReclaimLemma
<1> HIDE DEF r
<1>5. /\ GraphInv(u.graph) /\ Kept(r, u.graph) /\ u.graph.nodes = r.nodes
      /\ Vacant(u.graph, s, u.probe)
  BY <1>4, VacancyLemma
<1> HIDE DEF u
<1>6. \A n \in LiveOf(u.graph) : u.graph.nodes[n].state # s
  BY <1>2, <1>4, <1>5 DEF LiveOf
<1>7. Kept(g, r)
  BY <1>1, <1>4, KeptTwice
<1>8. Kept(g, u.graph)
  BY <1>5, <1>7, KeptTwice
<1> HIDE DEF w
<1> QED
  BY <1>1, <1>2, <1>3, <1>5, <1>6, <1>8 DEF w, v

\* An admission keeps the invariant and everything that is protected, and the
\* slot it returns holds the state.
LEMMA AdmitLemma ==
    ASSUME NEW g, GraphInv(g), NEW s \in States, NEW retires \in BOOLEAN
    PROVE  Served(g, Admit(g, s, retires), s)
<1> DEFINE seen == Lookup(g, s)
           w == MadeRoom(TTVacancy(seen.graph, s), s, retires)
           got == Admit(g, s, retires)
<1>1. /\ GraphInv(seen.graph) /\ Kept(g, seen.graph) /\ seen.graph.nodes = g.nodes
      /\ seen.slot # NoNode => seen.slot \in LiveOf(g) /\ g.nodes[seen.slot].state = s
      /\ seen.slot = NoNode => \A n \in LiveOf(g) : g.nodes[n].state # s
  BY LookupLemma
<1>2. LiveOf(seen.graph) = LiveOf(g)
  BY <1>1 DEF LiveOf
<1>3. CASE s \in Malformed
  <2>1. got = [graph |-> g, slot |-> NoNode, error |-> 7]
    BY <1>3 DEF Admit, Refusal
  <2>2. Kept(g, g)
    BY DEF Kept, Tended, Steered, Leads
  <2> HIDE DEF got
  <2> QED
    BY <2>1, <2>2 DEF Served, got
<1>4. CASE s \notin Malformed /\ seen.slot # NoNode
  <2> DEFINE h == [seen.graph EXCEPT !.nodes[seen.slot].ref = TRUE]
  <2>1. got = [graph |-> h, slot |-> seen.slot, error |-> 0]
    BY <1>4 DEF Admit, AdmitSeen, Success
  <2> HIDE DEF seen
  <2>2. seen.slot \in Slots
    BY <1>1, <1>4 DEF LiveOf
  <2>3. /\ GraphInv(h) /\ Kept(seen.graph, h) /\ LiveOf(h) = LiveOf(seen.graph)
        /\ \A k \in Slots : h.nodes[k].state = seen.graph.nodes[k].state
    BY <2>2, <1>1, RefLemma
  <2> HIDE DEF h
  <2>4. Kept(g, h)
    BY <1>1, <2>3, KeptTwice
  <2> HIDE DEF got
  <2> QED
    BY <2>1, <2>2, <2>3, <2>4, <1>1, <1>2, <1>4 DEF Served, got
<1>5. CASE s \notin Malformed /\ seen.slot = NoNode /\ s \in Unplayable
  <2>1. got = [graph |-> seen.graph, slot |-> NoNode, error |-> 7]
    BY <1>5 DEF Admit, AdmitSeen, Refusal
  <2> HIDE DEF got, seen
  <2> QED
    BY <2>1, <1>1 DEF Served, got
<1>6. CASE s \notin Malformed /\ seen.slot = NoNode /\ s \notin Unplayable
  <2>1. got = AdmitInto(w.graph, s, w.probe)
    BY <1>6 DEF Admit, AdmitSeen, AdmitVacant
  <2>2. \A n \in LiveOf(seen.graph) : seen.graph.nodes[n].state # s
    BY <1>1, <1>2, <1>6
  <2> HIDE DEF seen
  <2>3. /\ GraphInv(w.graph) /\ Kept(seen.graph, w.graph) /\ Vacant(w.graph, s, w.probe)
        /\ \A n \in LiveOf(w.graph) : w.graph.nodes[n].state # s
    BY <1>1, <2>2, MadeRoomLemma
  <2> HIDE DEF w
  <2>4. Kept(g, w.graph)
    BY <1>1, <2>3, KeptTwice
  <2>5. CASE \/ NoRoom(w.graph) \/ NoSpace(w.graph, s)
             \/ w.probe = TTProbes \/ Exhausted(w.graph, s)
    <3>1. \E e \in {3, 4, 10, 12} : got = [graph |-> w.graph, slot |-> NoNode, error |-> e]
      BY <2>1, <2>5 DEF AdmitInto, Refusal
    <3> HIDE DEF got
    <3> QED
      BY <3>1, <2>3, <2>4 DEF Served, got
  <2>6. CASE /\ ~NoRoom(w.graph) /\ ~NoSpace(w.graph, s)
             /\ w.probe # TTProbes /\ ~Exhausted(w.graph, s)
    <3> DEFINE h == Place(w.graph, s, Index(s, w.probe))
    <3>1. got = [graph |-> h, slot |-> NextSlot(w.graph), error |-> 0]
      BY <2>1, <2>6 DEF AdmitInto, Success
    <3>2. /\ GraphInv(h) /\ Kept(w.graph, h)
          /\ NextSlot(w.graph) \in LiveOf(h) /\ h.nodes[NextSlot(w.graph)].state = s
      BY <2>3, <2>6, PlaceLemma
    <3> HIDE DEF h
    <3>3. Kept(g, h)
      BY <2>4, <3>2, KeptTwice
    <3> HIDE DEF got
    <3> QED
      BY <3>1, <3>2, <3>3 DEF Served, got
  <2> QED
    BY <2>5, <2>6
<1> QED
  BY <1>3, <1>4, <1>5, <1>6

-----------------------------------------------------------------------------
(* Protections, leases and links.                                          *)

\* One node has other protections and another mark, and nothing else changes.
Dressed(g, h, n, q) ==
    /\ GraphInv(h) /\ LiveOf(h) = LiveOf(g)
    /\ \A k \in Slots : Candidates(h, k) = Candidates(g, k)
    /\ h.root = g.root /\ h.rootGen = g.rootGen /\ h.edges = g.edges /\ h.high = g.high
    /\ \A k \in Slots : k # n => h.nodes[k] = g.nodes[k]
    /\ h.nodes[n] = q
    /\ \A k \in Slots : /\ h.nodes[k].pub = g.nodes[k].pub /\ h.nodes[k].gen = g.nodes[k].gen
                        /\ h.nodes[k].state = g.nodes[k].state
                        /\ h.nodes[k].span = g.nodes[k].span
                        /\ h.nodes[k].count = g.nodes[k].count

\* The protections of a live node and its mark may change.
LEMMA NodeEdit ==
    ASSUME NEW g, GraphInv(g), NEW n \in LiveOf(g), NEW q \in Nodes, NEW h,
           q.pub = g.nodes[n].pub, q.gen = g.nodes[n].gen, q.state = g.nodes[n].state,
           q.span = g.nodes[n].span, q.count = g.nodes[n].count, q.next = g.nodes[n].next,
           h = [g EXCEPT !.nodes = [g.nodes EXCEPT ![n] = q]]
    PROVE  Dressed(g, h, n, q)
<1> DEFINE nodes == [g.nodes EXCEPT ![n] = q]
<1>1. g \in Graphs /\ g.nodes \in [Slots -> Nodes] /\ n \in Slots /\ g.nodes[n].pub
  BY DEF GraphInv, Graphs, LiveOf
<1>2. nodes \in [Slots -> Nodes] /\ nodes[n] = q /\ \A k \in Slots : k # n => nodes[k] = g.nodes[k]
  BY <1>1
<1> HIDE DEF nodes
<1>3. /\ h \in Graphs /\ h.nodes = nodes /\ h.spans = g.spans /\ h.tt = g.tt /\ h.high = g.high
      /\ h.free = g.free /\ h.edges = g.edges /\ h.root = g.root /\ h.rootGen = g.rootGen
      /\ h.live = g.live /\ h.liveEdges = g.liveEdges
  <2>1. h = [g EXCEPT !.nodes = nodes]
    BY DEF nodes
  <2> QED
    BY <1>1, <1>2, <2>1 DEF Graphs
<1>4. \A k \in Slots :
         /\ h.nodes[k].pub = g.nodes[k].pub /\ h.nodes[k].gen = g.nodes[k].gen
         /\ h.nodes[k].state = g.nodes[k].state /\ h.nodes[k].span = g.nodes[k].span
         /\ h.nodes[k].count = g.nodes[k].count /\ h.nodes[k].next = g.nodes[k].next
         /\ ~g.nodes[k].pub => /\ h.nodes[k].path = g.nodes[k].path
                               /\ h.nodes[k].eval = g.nodes[k].eval
                               /\ h.nodes[k].pin = g.nodes[k].pin
  BY ZenonT(60), <1>1, <1>2, <1>3
<1>5. GraphInv(h) /\ LiveOf(h) = LiveOf(g) /\ \A k \in Slots : Candidates(h, k) = Candidates(g, k)
  <2>1. \A e \in Bases :
          /\ h.edges[e].pub = g.edges[e].pub /\ h.edges[e].parent = g.edges[e].parent
          /\ h.edges[e].parentGen = g.edges[e].parentGen
          /\ h.edges[e].child = g.edges[e].child /\ h.edges[e].childGen = g.edges[e].childGen
    BY <1>3
  <2>2. /\ h \in Graphs /\ h.spans = g.spans /\ h.tt = g.tt /\ h.high = g.high
        /\ h.free = g.free /\ h.live = g.live /\ h.liveEdges = g.liveEdges
    BY <1>3
  <2> QED
    BY ONLY GraphInv(g), <2>1, <2>2, <1>4, Restyled
<1> QED
  BY ZenonT(60), <1>2, <1>3, <1>4, <1>5 DEF Dressed

\* One edge has another lease, and nothing else changes.
Loaned(g, h, e, lease) ==
    /\ GraphInv(h) /\ LiveOf(h) = LiveOf(g)
    /\ \A k \in Slots : Candidates(h, k) = Candidates(g, k)
    /\ h.root = g.root /\ h.rootGen = g.rootGen /\ h.nodes = g.nodes /\ h.high = g.high
    /\ \A b \in Bases : h.edges[b].gen = g.edges[b].gen /\ (b # e => h.edges[b] = g.edges[b])
    /\ h.edges[e].lease = lease

\* An edge may be leased.
LEMMA LeaseEdit ==
    ASSUME NEW g, GraphInv(g), NEW e \in Bases, NEW lease \in Nat, NEW h,
           h = [g EXCEPT !.edges[e].lease = lease]
    PROVE  Loaned(g, h, e, lease)
<1> DEFINE edges == [g.edges EXCEPT ![e].lease = lease]
<1>1. g \in Graphs /\ g.edges \in [Bases -> Edges]
  BY DEF GraphInv, Graphs
<1>2. PICK q \in Edges : q = g.edges[e]
  BY <1>1
<1>3. /\ edges = [b \in Bases |-> edges[b]] /\ edges[e] = [q EXCEPT !.lease = lease]
      /\ \A b \in Bases : b # e => edges[b] = g.edges[b]
  BY <1>1, <1>2
<1>4. h = [g EXCEPT !.edges = edges]
  BY <1>1
<1> HIDE DEF edges
<1>5. /\ edges[e] \in Edges /\ edges[e].lease = lease /\ edges[e].pub = q.pub
      /\ edges[e].parent = q.parent /\ edges[e].parentGen = q.parentGen
      /\ edges[e].child = q.child /\ edges[e].childGen = q.childGen /\ edges[e].gen = q.gen
  BY <1>2, <1>3 DEF Edges
<1>6. edges \in [Bases -> Edges]
  <2>1. \A b \in Bases : edges[b] \in Edges
    BY <1>1, <1>3, <1>5
  <2> QED
    BY <2>1, <1>3
<1>7. /\ h \in Graphs /\ h.nodes = g.nodes /\ h.spans = g.spans /\ h.tt = g.tt /\ h.high = g.high
      /\ h.free = g.free /\ h.edges = edges /\ h.root = g.root /\ h.rootGen = g.rootGen
      /\ h.live = g.live /\ h.liveEdges = g.liveEdges
  BY <1>1, <1>4, <1>6 DEF Graphs
<1>8. \A b \in Bases :
         /\ h.edges[b].pub = g.edges[b].pub /\ h.edges[b].parent = g.edges[b].parent
         /\ h.edges[b].parentGen = g.edges[b].parentGen
         /\ h.edges[b].child = g.edges[b].child /\ h.edges[b].childGen = g.edges[b].childGen
         /\ h.edges[b].gen = g.edges[b].gen /\ (b # e => h.edges[b] = g.edges[b])
  BY <1>2, <1>3, <1>5, <1>7
<1>9. GraphInv(h) /\ LiveOf(h) = LiveOf(g) /\ \A k \in Slots : Candidates(h, k) = Candidates(g, k)
  BY ZenonT(60), <1>7, <1>8, Restyled
<1> QED
  BY <1>5, <1>7, <1>8, <1>9 DEF Loaned

\* What the move of an edge leads to is a state, and the edge is its parent's.
LEMMA SuccessorLemma ==
    ASSUME NEW g, GraphInv(g), NEW n \in LiveOf(g), NEW e \in Candidates(g, n)
    PROVE  /\ e \in Bases /\ g.edges[e].parent = n
           /\ Successor(g, e) = Moves[g.nodes[n].state][e - g.nodes[n].span + 1]
           /\ Successor(g, e) \in States
<1>1. e \in Bases /\ g.edges[e].parent = n
  BY CandidatesLemma DEF GraphInv, Bred, Rightful
<1>2. Successor(g, e) = Moves[g.nodes[n].state][e - g.nodes[n].span + 1]
  BY <1>1 DEF Successor
<1>3. g.nodes[n].state \in States /\ g.nodes[n].count = Len(Moves[g.nodes[n].state])
      /\ g.nodes[n].span \in Int /\ g.nodes[n].count \in Nat
  BY DEF GraphInv, Slotted, Graphs, Nodes, LiveOf, Links, NoSpan, Bases
<1>4. e \in g.nodes[n].span .. g.nodes[n].span + g.nodes[n].count - 1
  BY DEF Candidates, Cells
<1>5. e - g.nodes[n].span + 1 \in 1 .. Len(Moves[g.nodes[n].state])
  <2> DEFINE span == g.nodes[n].span
             count == g.nodes[n].count
  <2>1. span \in Int /\ count \in Nat /\ e \in span .. span + count - 1
    BY <1>3, <1>4
  <2> HIDE DEF span, count
  <2>2. e - span + 1 \in 1 .. count
    BY <2>1
  <2> QED
    BY <2>2, <1>3 DEF span, count
<1>6. Moves[g.nodes[n].state] \in Seq(States)
  BY <1>3, GraphConstants
<1> QED
  BY <1>1, <1>2, <1>5, <1>6

\* The child reaches the edge that leads to it.
LEMMA LinkedLemma ==
    ASSUME NEW g, GraphInv(g), NEW n \in LiveOf(g), NEW e \in Candidates(g, n),
           NEW child \in LiveOf(g), g.nodes[child].state = Successor(g, e)
    PROVE  LET h == Linked(g, e, child) IN
           /\ GraphInv(h) /\ Tended(g, h) /\ Steered(g, h, {e}) /\ LiveOf(h) = LiveOf(g)
           /\ h.nodes = g.nodes /\ h.edges[e].child = child
           /\ h.edges[e].childGen = h.nodes[child].gen
<1> DEFINE h == Linked(g, e, child)
           edges == [g.edges EXCEPT ![e].child = child, ![e].childGen = g.nodes[child].gen]
<1>1. g \in Graphs /\ g.edges \in [Bases -> Edges] /\ e \in Bases /\ child \in Slots
      /\ g.nodes[child].gen \in Gens /\ g.edges[e].parent = n /\ LiveOf(g) \subseteq Slots
      /\ NoNode \notin Slots
  <2>1. e \in Bases /\ g.edges[e].parent = n
    BY SuccessorLemma
  <2>2. LiveOf(g) \subseteq Slots /\ g \in Graphs
    BY DEF LiveOf, GraphInv
  <2>3. g.nodes[child].gen \in Gens /\ g.edges \in [Bases -> Edges]
    BY <2>2 DEF Graphs, Nodes
  <2> QED
    BY <2>1, <2>2, <2>3, GraphConstants
<1>2. PICK q \in Edges : q = g.edges[e]
  BY <1>1
<1>3. /\ edges = [b \in Bases |-> edges[b]]
      /\ edges[e] = [q EXCEPT !.child = child, !.childGen = g.nodes[child].gen]
      /\ \A b \in Bases : b # e => edges[b] = g.edges[b]
  BY <1>1, <1>2
<1>4. h = [g EXCEPT !.edges = edges]
  BY <1>1 DEF Linked
<1> HIDE DEF edges, h
<1>5. /\ edges[e] \in Edges /\ edges[e].lease = q.lease /\ edges[e].pub = q.pub
      /\ edges[e].parent = q.parent /\ edges[e].parentGen = q.parentGen
      /\ edges[e].child = child /\ edges[e].childGen = g.nodes[child].gen /\ edges[e].gen = q.gen
  BY <1>1, <1>2, <1>3 DEF Edges
<1>6. edges \in [Bases -> Edges]
  <2>1. \A b \in Bases : edges[b] \in Edges
    BY <1>1, <1>3, <1>5
  <2> QED
    BY <2>1, <1>3
<1>7. /\ h \in Graphs /\ h.nodes = g.nodes /\ h.spans = g.spans /\ h.tt = g.tt /\ h.high = g.high
      /\ h.free = g.free /\ h.edges = edges /\ h.root = g.root /\ h.rootGen = g.rootGen
      /\ h.live = g.live /\ h.liveEdges = g.liveEdges
  BY <1>1, <1>4, <1>6 DEF Graphs
<1>8. \A b \in Bases : /\ h.edges[b].gen = g.edges[b].gen /\ h.edges[b].lease = g.edges[b].lease
                       /\ h.edges[b].parent = g.edges[b].parent
  BY <1>2, <1>3, <1>5, <1>7
<1>9. LiveOf(h) = LiveOf(g) /\ Vacated(h) = Vacated(g) /\ (\A k \in Slots : Candidates(h, k) = Candidates(g, k))
  BY <1>7 DEF LiveOf, Vacated, Candidates
<1>10. Parents(h) = Parents(g) /\ SpansOf(h) = SpansOf(g)
  BY <1>7, <1>9 DEF Parents, SpansOf
<1>11. Slotted(h)
  BY SMTT(30), <1>7, <1>9 DEF GraphInv, Slotted
<1>12. Known(h)
  BY SMTT(30), <1>7, <1>9 DEF GraphInv, Known, Entered
<1>13. Spaced(h)
  BY <1>7, <1>10 DEF GraphInv, Spaced
<1>14. Counted(h)
  <2>1. CandidateSet(h) = CandidateSet(g)
    BY <1>1, <1>9 DEF CandidateSet
  <2> QED
    BY <2>1, <1>7, <1>9 DEF GraphInv, Counted
<1>15. Bred(h)
  <2>1. ASSUME NEW k \in LiveOf(h), NEW b \in Candidates(h, k) PROVE Rightful(h, k, b)
    <3>1. k \in LiveOf(g) /\ b \in Candidates(g, k) /\ k \in Slots
      BY <1>1, <1>9
    <3>2. b \in Bases /\ Rightful(g, k, b)
      BY SMTT(30), <3>1, CandidatesLemma DEF GraphInv, Bred
    <3>3. Successor(h, b) = Successor(g, b)
      BY ZenonT(60), <3>2, <1>7, <1>8 DEF Successor
    <3>4. CASE b = e
      <4>1. h.edges[b].child = child /\ h.edges[b].childGen = g.nodes[child].gen
            /\ h.edges[b].pub = g.edges[b].pub /\ h.edges[b].parentGen = g.edges[b].parentGen
        BY <3>4, <1>2, <1>5, <1>7
      <4>2. h.edges[b].childGen <= h.nodes[child].gen
        BY <4>1, <1>1, <1>7, GraphConstants DEF Gens
      <4> QED
        BY <4>1, <4>2, <3>2, <3>3, <3>4, <1>7, <1>8 DEF Rightful
    <3>5. CASE b # e
      BY <3>2, <3>3, <3>5, <1>3, <1>7 DEF Rightful
    <3> QED
      BY <3>4, <3>5
  <2> QED
    BY <2>1 DEF Bred
<1>16. Tended(g, h)
  <2>1. ASSUME NEW k \in Slots, g.nodes[k].pub, Protected(g, k)
        PROVE  \A b \in Candidates(g, k) : /\ h.edges[b].lease = g.edges[b].lease
                                           /\ h.edges[b].gen = g.edges[b].gen
    <3>1. Candidates(g, k) \subseteq Bases
      BY SMTT(30), <2>1, CandidatesLemma DEF LiveOf
    <3> QED
      BY <3>1, <1>8
  <2> QED
    BY <2>1, <1>7, <1>8 DEF Tended
<1>17. Steered(g, h, {e})
  <2>1. ASSUME NEW k \in Slots, g.nodes[k].pub, NEW b \in Candidates(g, k) \ {e}
        PROVE  Leads(g, h, b)
    <3>1. b \in Bases /\ b # e
      BY <2>1, CandidatesLemma DEF LiveOf
    <3> QED
      BY <3>1, <1>3, <1>7 DEF Leads
  <2> QED
    BY <2>1 DEF Steered
<1>18. h.edges[e].child = child /\ h.edges[e].childGen = h.nodes[child].gen
  BY ZenonT(60), <1>5, <1>7
<1> QED
  BY <1>7, <1>9, <1>11, <1>12, <1>13, <1>14, <1>15, <1>16, <1>17, <1>18 DEF GraphInv, h

-----------------------------------------------------------------------------
(* The admission of a child.                                               *)

\* The parent is pinned for an admission, and let go after it.
LEMMA PinnedAdmission ==
    ASSUME NEW g, GraphInv(g), NEW n \in LiveOf(g), NEW s \in States, NEW retires \in BOOLEAN
    PROVE  LET a == Admit(Pinned(g, n), s, retires)
               u == Unpinned(a.graph, n)
           IN  /\ Served(g, [a EXCEPT !.graph = u], s) /\ LiveOf(u) = LiveOf(a.graph)
               /\ n \in LiveOf(u) /\ u.nodes[n].state = g.nodes[n].state
               /\ u.nodes[n].span = g.nodes[n].span /\ Candidates(u, n) = Candidates(g, n)
               /\ \E error, slot : a = [graph |-> a.graph, slot |-> slot, error |-> error]
<1> DEFINE p == Pinned(g, n)
           a == Admit(p, s, retires)
           f == a.graph
           u == Unpinned(f, n)
<1>1. n \in Slots /\ g \in Graphs /\ g.nodes \in [Slots -> Nodes] /\ g.nodes[n] \in Nodes
      /\ g.nodes[n].pub
  BY DEF GraphInv, LiveOf, Graphs
<1> DEFINE q == [g.nodes[n] EXCEPT !.pin = @ + 1]
<1>2. /\ q \in Nodes /\ q.path = g.nodes[n].path /\ q.eval = g.nodes[n].eval
      /\ q.pin = g.nodes[n].pin + 1 /\ g.nodes[n].pin \in Nat
      /\ q.pub = g.nodes[n].pub /\ q.gen = g.nodes[n].gen /\ q.state = g.nodes[n].state
      /\ q.span = g.nodes[n].span /\ q.count = g.nodes[n].count /\ q.next = g.nodes[n].next
  <2>1. PICK w \in Nodes : w = g.nodes[n]
    BY <1>1
  <2>2. q = [w EXCEPT !.pin = w.pin + 1] /\ w.pin + 1 \in Nat
    BY <2>1 DEF Nodes
  <2> HIDE DEF q
  <2> QED
    BY <2>1, <2>2 DEF Nodes
<1>3. p = [g EXCEPT !.nodes = [g.nodes EXCEPT ![n] = q]]
  BY <1>1 DEF Pinned
<1>4. Dressed(g, p, n, q)
  <2> HIDE DEF q, p
  <2> QED
    BY <1>2, <1>3, NodeEdit
<1> HIDE DEF p
<1>5. Served(p, a, s)
  BY <1>4, AdmitLemma DEF Dressed
<1> HIDE DEF a, q
<1>6. GraphInv(f) /\ Kept(p, f)
  BY ZenonT(60), <1>5 DEF Served
<1>7. /\ n \in LiveOf(f) /\ f.nodes[n].state = g.nodes[n].state /\ f.nodes[n].span = g.nodes[n].span
      /\ f.nodes[n].count = g.nodes[n].count /\ f.nodes[n].gen = g.nodes[n].gen
      /\ f.nodes[n].path = g.nodes[n].path /\ f.nodes[n].eval = g.nodes[n].eval
      /\ f.nodes[n].pin = g.nodes[n].pin + 1
  <2>1. p.nodes[n].pub /\ Protected(p, n)
    BY <1>1, <1>2, <1>4 DEF Protected, Dressed
  <2> QED
    BY <2>1, <1>1, <1>2, <1>4, <1>6 DEF Kept, Tended, LiveOf, Dressed
<1>8. f \in Graphs /\ f.nodes \in [Slots -> Nodes] /\ f.nodes[n] \in Nodes
  BY <1>1, <1>6 DEF GraphInv, Graphs
<1> HIDE DEF f
<1> DEFINE r == [f.nodes[n] EXCEPT !.pin = @ - 1]
<1>9. /\ r \in Nodes /\ r.path = g.nodes[n].path /\ r.eval = g.nodes[n].eval
      /\ r.pin = g.nodes[n].pin
      /\ r.pub = f.nodes[n].pub /\ r.gen = f.nodes[n].gen /\ r.state = f.nodes[n].state
      /\ r.span = f.nodes[n].span /\ r.count = f.nodes[n].count /\ r.next = f.nodes[n].next
  <2>1. PICK w \in Nodes : w = f.nodes[n]
    BY <1>8
  <2>2. w.pin - 1 = g.nodes[n].pin
    BY <2>1, <1>2, <1>7
  <2>3. r = [w EXCEPT !.pin = g.nodes[n].pin]
    BY <2>1, <2>2
  <2> HIDE DEF r
  <2> QED
    BY <2>1, <2>3, <1>2, <1>7 DEF Nodes
<1>15. u = [f EXCEPT !.nodes = [f.nodes EXCEPT ![n] = r]]
  BY <1>8 DEF Unpinned
<1>10. Dressed(f, u, n, r)
  <2> HIDE DEF r, u
  <2> QED
    BY <1>6, <1>7, <1>9, <1>15, NodeEdit
<1> HIDE DEF r
<1> HIDE DEF u
<1>11. Kept(g, u)
  <2>1. \A k \in Slots : u.nodes[k].path = g.nodes[k].path /\ u.nodes[k].eval = g.nodes[k].eval
                         /\ u.nodes[k].pin = g.nodes[k].pin
    <3>1. ASSUME NEW k \in Slots, k # n
          PROVE  u.nodes[k].path = g.nodes[k].path /\ u.nodes[k].eval = g.nodes[k].eval
                 /\ u.nodes[k].pin = g.nodes[k].pin
      BY <3>1, <1>4, <1>6, <1>10 DEF Kept, Tended, Dressed
    <3> QED
      BY <3>1, <1>9, <1>10 DEF Dressed
  <2>2. ASSUME NEW k \in Slots, g.nodes[k].pub, Protected(g, k)
        PROVE  /\ u.nodes[k].pub /\ u.nodes[k].gen = g.nodes[k].gen
               /\ u.nodes[k].state = g.nodes[k].state
               /\ u.nodes[k].span = g.nodes[k].span /\ u.nodes[k].count = g.nodes[k].count
               /\ \A e \in Candidates(g, k) : /\ u.edges[e].lease = g.edges[e].lease
                                              /\ u.edges[e].gen = g.edges[e].gen
                                              /\ Leads(g, u, e)
    <3>1. p.nodes[k].pub /\ Protected(p, k)
      <4>1. CASE k = n
        BY <4>1, <1>1, <1>2, <1>4 DEF Protected, Dressed
      <4>2. CASE k # n
        BY <4>2, <2>2, <1>4 DEF Protected, Dressed
      <4> QED
        BY <4>1, <4>2
    <3>2. \A e \in Candidates(g, k) \ {} : Leads(p, f, e)
      BY <3>1, <1>4, <1>6 DEF Kept, Steered, Dressed
    <3>3. \A e \in Candidates(g, k) : Leads(g, u, e)
      BY <3>2, <1>4, <1>10 DEF Leads, Dressed
    <3> QED
      BY <3>1, <3>3, <1>4, <1>6, <1>10 DEF Kept, Tended, Dressed
  <2>3. u.root = g.root /\ u.rootGen = g.rootGen /\ \A e \in Bases : u.edges[e].lease \in {0, g.edges[e].lease}
    BY <1>4, <1>6, <1>10 DEF Kept, Tended, Dressed
  <2>4. Tended(g, u)
    BY <2>1, <2>2, <2>3 DEF Tended
  <2> QED
    BY <2>2, <2>4 DEF Kept, Steered
<1>12. PICK error, slot : a = [graph |-> f, slot |-> slot, error |-> error]
  <2>1. \E error, slot, h : a = [graph |-> h, slot |-> slot, error |-> error]
    BY DEF a, Admit, AdmitSeen, AdmitVacant, AdmitInto, Refusal, Success
  <2> QED
    BY <2>1 DEF f
<1>13. Served(g, [a EXCEPT !.graph = u], s)
  <2>1. a.slot = slot /\ a.error = error
    BY <1>12
  <2>2. [a EXCEPT !.graph = u] = [graph |-> u, slot |-> slot, error |-> error]
    BY <1>12
  <2>3. slot # NoNode => slot \in LiveOf(u) /\ u.nodes[slot].state = s
    <3>1. slot # NoNode => slot \in LiveOf(f) /\ f.nodes[slot].state = s
      BY <2>1, <1>5 DEF Served, f
    <3> QED
      BY <3>1, <1>10 DEF LiveOf, Dressed
  <2>4. error \in {0, 3, 4, 6, 7, 10, 11, 12, 13}
    BY <2>1, <1>5 DEF Served
  <2> QED
    BY <2>2, <2>3, <2>4, <1>10, <1>11 DEF Served, Dressed
<1>14. Candidates(u, n) = Candidates(g, n)
  BY <1>1, <1>7, <1>10 DEF Candidates, Dressed
<1> QED
  BY <1>1, <1>7, <1>10, <1>12, <1>13, <1>14 DEF u, f, a, p, Dressed

-----------------------------------------------------------------------------
(* Realization, and the graph at the start.                                *)

\* A step along an edge keeps the invariant and everything that is protected; the
\* edge leads to the child it returns.
LEMMA RealizeLemma ==
    ASSUME NEW g, GraphInv(g), NEW n \in LiveOf(g), NEW e \in Candidates(g, n),
           NEW disposition \in 0 .. 3, NEW retires \in BOOLEAN
    PROVE  LET got == Realize(g, e, disposition, retires) IN
           /\ GraphInv(got.graph) /\ Tended(g, got.graph) /\ Steered(g, got.graph, {e})
           /\ got.slot # NoNode =>
                 /\ got.slot \in LiveOf(got.graph)
                 /\ got.graph.edges[e].child = got.slot
                 /\ got.graph.edges[e].childGen = got.graph.nodes[got.slot].gen
           /\ got.error \in {0, 3, 4, 6, 7, 10, 11, 12, 13}
<1> DEFINE edge == g.edges[e]
           s == Successor(g, e)
           got == Realize(g, e, disposition, retires)
           a == Admit(Pinned(g, n), s, retires)
           u == Unpinned(a.graph, n)
           bad == ~edge.pub \/ ~Valid(g, edge.parent, edge.parentGen)
           old == edge.child # NoNode /\ Valid(g, edge.child, edge.childGen)
<1>1. e \in Bases /\ edge.parent = n /\ s = Moves[g.nodes[n].state][e - g.nodes[n].span + 1] /\ s \in States
  BY SuccessorLemma
<1>2. got = IF bad THEN Refusal(g, 6)
            ELSE IF old THEN Success([g EXCEPT !.nodes[edge.child].ref = TRUE], edge.child)
            ELSE IF disposition # 0
                 THEN Refusal(g, CASE disposition = 1 -> 7 [] disposition = 2 -> 13 [] disposition = 3 -> 11)
            ELSE Reached(a, e, n)
  <2> HIDE DEF s, a
  <2>1. edge.parent = n
    BY <1>1
  <2> QED
    BY <2>1 DEF Realize, s, a
<1> HIDE DEF s, a
<1>3. CASE bad \/ (~old /\ disposition # 0)
  <2>1. \E error \in {6, 7, 11, 13} : got = [graph |-> g, slot |-> NoNode, error |-> error]
    <3>1. CASE bad
      BY <3>1, <1>2 DEF Refusal
    <3>2. CASE ~bad /\ ~old /\ disposition # 0
      <4>1. disposition = 1 \/ disposition = 2 \/ disposition = 3
        BY <3>2
      <4> HIDE DEF bad, old, got
      <4>2. CASE disposition = 1
        BY <3>2, <4>2, <1>2 DEF Refusal
      <4>3. CASE disposition = 2
        BY <3>2, <4>3, <1>2 DEF Refusal
      <4>4. CASE disposition = 3
        BY <3>2, <4>4, <1>2 DEF Refusal
      <4> QED
        BY <4>1, <4>2, <4>3, <4>4
    <3> QED
      BY <1>3, <3>1, <3>2
  <2>2. Tended(g, g) /\ Steered(g, g, {e})
    BY DEF Tended, Steered, Leads
  <2> HIDE DEF got, bad, old
  <2> QED
    BY <2>1, <2>2 DEF got
<1>4. CASE ~bad /\ old
  <2> DEFINE h == [g EXCEPT !.nodes[edge.child].ref = TRUE]
  <2>1. got = [graph |-> h, slot |-> edge.child, error |-> 0]
    BY <1>2, <1>4 DEF Success
  <2>2. edge.child \in Slots /\ edge.child \in LiveOf(g)
    BY <1>1, <1>4 DEF GraphInv, Graphs, Edges, Valid, LiveOf
  <2>3. GraphInv(h) /\ Kept(g, h) /\ LiveOf(h) = LiveOf(g)
    <3> HIDE DEF edge
    <3> QED
      BY <2>2, RefLemma
  <2>4. Tended(g, h) /\ Steered(g, h, {e})
    BY <2>3 DEF Kept, Steered
  <2>5. h.edges[e].child = edge.child /\ h.edges[e].childGen = h.nodes[edge.child].gen
    <3>1. g.nodes[edge.child].gen = edge.childGen /\ g.nodes[edge.child] \in Nodes
          /\ g.nodes \in [Slots -> Nodes]
      BY <2>2, <1>4 DEF Valid, GraphInv, Graphs
    <3>2. PICK c : c = edge.child
      OBVIOUS
    <3>3. h.edges = g.edges /\ h.nodes[c].gen = g.nodes[c].gen
      BY <2>2, <3>1, <3>2 DEF Nodes
    <3> QED
      BY <3>1, <3>2, <3>3
  <2> HIDE DEF got, h, edge
  <2> QED
    BY <2>1, <2>2, <2>3, <2>4, <2>5 DEF got
<1>5. CASE ~bad /\ ~old /\ disposition = 0
  <2>1. got = Reached(a, e, n)
    BY <1>2, <1>5
  <2>2. /\ Served(g, [a EXCEPT !.graph = u], s) /\ LiveOf(u) = LiveOf(a.graph)
        /\ n \in LiveOf(u) /\ u.nodes[n].state = g.nodes[n].state
        /\ u.nodes[n].span = g.nodes[n].span /\ Candidates(u, n) = Candidates(g, n)
        /\ \E error, slot : a = [graph |-> a.graph, slot |-> slot, error |-> error]
    <3>1. s \in States
      BY <1>1
    <3> HIDE DEF edge
    <3> QED
      BY <3>1, PinnedAdmission DEF a
  <2>3. PICK error, slot : a = [graph |-> a.graph, slot |-> slot, error |-> error]
    BY <2>2
  <2>4. a.slot = slot /\ a.error = error
    BY <2>3
  <2> DEFINE b == [a EXCEPT !.graph = u]
  <2>5. b = [graph |-> u, slot |-> slot, error |-> error]
    BY <2>3
  <2> HIDE DEF u
  <2>6. /\ GraphInv(u) /\ Kept(g, u) /\ error \in {0, 3, 4, 6, 7, 10, 11, 12, 13}
        /\ slot # NoNode => slot \in LiveOf(u) /\ u.nodes[slot].state = s
    <3>1. b.graph = u /\ b.slot = slot /\ b.error = error
      BY <2>5
    <3> HIDE DEF b
    <3>2. Served(g, b, s)
      BY <2>2 DEF b
    <3> QED
      BY <3>1, <3>2 DEF Served
  <2> HIDE DEF b, got, bad, old, edge
  <2>9. Tended(g, u) /\ Steered(g, u, {}) /\ Steered(g, u, {e})
    BY <2>6 DEF Kept, Steered
  <2>10. /\ n \in LiveOf(u) /\ u.nodes[n].state = g.nodes[n].state
         /\ u.nodes[n].span = g.nodes[n].span /\ Candidates(u, n) = Candidates(g, n)
    BY ZenonT(60), <2>2
  <2>7. CASE slot = NoNode
    <3>1. got = [graph |-> u, slot |-> NoNode, error |-> error]
      BY <2>1, <2>4, <2>7 DEF Reached, Refusal, u
    <3> QED
      BY <3>1, <2>6, <2>9 DEF got
  <2>8. CASE slot # NoNode
    <3> DEFINE h == Linked(u, e, slot)
    <3>1. got = [graph |-> h, slot |-> slot, error |-> 0]
      BY <2>1, <2>4, <2>8 DEF Reached, Success, u
    <3>2. e \in Candidates(u, n)
      BY ZenonT(60), <2>10
    <3>3. Successor(u, e) = s
      <4>1. Successor(u, e) = Moves[u.nodes[n].state][e - u.nodes[n].span + 1]
        BY <3>2, <2>10, <2>6, SuccessorLemma
      <4> QED
        BY ZenonT(60), <4>1, <2>10, <1>1
    <3>4. /\ GraphInv(h) /\ Tended(u, h) /\ Steered(u, h, {e}) /\ LiveOf(h) = LiveOf(u)
          /\ h.edges[e].child = slot /\ h.edges[e].childGen = h.nodes[slot].gen
      BY <3>2, <3>3, <2>2, <2>6, <2>8, LinkedLemma
    <3> HIDE DEF h
    <3>5. Tended(g, h)
      BY <3>4, <2>9, TendedTwice
    <3>6. Steered(g, h, {} \cup {e}) /\ {} \cup {e} = {e}
      BY <3>4, <2>9, SteeredTwice
    <3> QED
      BY <3>1, <3>4, <3>5, <3>6, <2>6, <2>8 DEF got
  <2> QED
    BY <2>7, <2>8
<1> QED
  BY <1>3, <1>4, <1>5

\* The graph a search is ignited on.
LEMMA EmptyGraphInv == GraphInv(EmptyGraph)
<1> DEFINE g == EmptyGraph
<1>1. /\ g.spans = SpanInit /\ g.nodes = [n \in Slots |-> FreshNode] /\ g.high = 0 /\ g.free = NoNode
      /\ g.live = 0 /\ g.liveEdges = 0
  BY DEF EmptyGraph
<1>2. Arena(SpanInit, {0}, {}, {}) /\ SpanInit \in Stores
  BY InitLemma DEF Arena
<1>3. g \in Graphs
  <2>1. FreshNode \in Nodes
    <3>1. 0 \in Bases /\ 0 \in Slots /\ 0 \in Gens /\ 0 \in 0 .. MaxActions
      BY GraphConstants, SpansAssumption DEF Bases, Slots, Gens
    <3> QED
      BY <3>1 DEF FreshNode, Nodes, Links
  <2>2. FreshEdge \in Edges
    <3>1. 0 \in Slots /\ 0 \in Gens
      BY GraphConstants DEF Slots, Gens
    <3> QED
      BY <3>1 DEF FreshEdge, Edges
  <2>3. FreshEntry \in TTEntries
    <3>1. 0 \in Slots /\ 0 \in Gens
      BY GraphConstants DEF Slots, Gens
    <3> QED
      BY <3>1 DEF FreshEntry, TTEntries, Empty
  <2>4. 0 \in 0 .. NodeCapacity /\ 0 \in Gens
    BY GraphConstants DEF Gens
  <2> HIDE DEF g
  <2>5. g = [spans |-> SpanInit, nodes |-> [n \in Slots |-> FreshNode],
             edges |-> [e \in Bases |-> FreshEdge], tt |-> [i \in Entries |-> FreshEntry],
             high |-> 0, free |-> NoNode, clock |-> 0, root |-> NoNode, rootGen |-> 0,
             live |-> 0, liveEdges |-> 0]
    BY DEF g, EmptyGraph
  <2> QED
    BY <2>1, <2>2, <2>3, <2>4, <2>5, <1>2 DEF Graphs
<1>4. LiveOf(g) = {} /\ Vacated(g) = {} /\ \A n \in Slots : g.nodes[n] = FreshNode
  BY <1>1, GraphConstants DEF LiveOf, Vacated, FreshNode, Slots
<1> HIDE DEF g
<1>5. Slotted(g) /\ Known(g) /\ Bred(g)
  BY <1>1, <1>4 DEF Slotted, Known, Bred, FreshNode
<1>6. Parents(g) = {} /\ SpansOf(g) = {}
  BY <1>4 DEF Parents, SpansOf
<1>7. Spaced(g)
  BY <1>1, <1>2, <1>6 DEF Spaced
<1>8. Counted(g)
  <2>1. CandidateSet(g) = {}
    BY <1>4 DEF CandidateSet
  <2> QED
    BY <2>1, <1>1, <1>4, FS_EmptySet DEF Counted
<1> QED
  BY <1>3, <1>5, <1>7, <1>8 DEF GraphInv, g

-----------------------------------------------------------------------------
(* What the lists hold, and how the arena is divided.                      *)

\* The head of a list, and a set of blocks with those that follow them.
First(st, bin) == IF st.bins[bin] = NoSpan THEN {} ELSE {st.bins[bin]}
Further(st, S) == S \cup ({st.words[b].next : b \in S} \ {NoSpan})

\* The function Chain computes, up to n.
Follows(f, st, bin, n) ==
    f = [j \in 0 .. n |-> IF j = 0 THEN First(st, bin) ELSE Further(st, f[j - 1])]

\* There is such a function, so that the recursion has a value.
LEMMA FollowsExist ==
    ASSUME NEW st, NEW bin, NEW N \in Nat
    PROVE  \E f : Follows(f, st, bin, N)
<1> DEFINE S == {n \in Nat : ~\E f : Follows(f, st, bin, n)}
<1>1. SUFFICES ASSUME N \in S PROVE FALSE
  OBVIOUS
<1>2. PICK n \in S : \A k \in S : n <= k
  <2>1. S \subseteq Nat /\ S # {}
    BY <1>1
  <2> HIDE DEF S
  <2> QED
    BY <2>1, Least
<1>3. CASE n = 0
  <2>1. Follows([j \in 0 .. 0 |-> First(st, bin)], st, bin, 0)
    BY DEF Follows
  <2> QED
    BY <2>1, <1>2, <1>3
<1>4. CASE n # 0
  <2>1. n - 1 \in Nat /\ n - 1 \notin S
    BY <1>2, <1>4
  <2>2. PICK f : Follows(f, st, bin, n - 1)
    BY <2>1
  <2> DEFINE d == [j \in 0 .. n |-> IF j = n THEN Further(st, f[n - 1]) ELSE f[j]]
  <2>3. n \in Nat /\ n > 0
    BY <1>2, <1>4
  <2>4. ASSUME NEW j \in 0 .. n
        PROVE  d[j] = IF j = 0 THEN First(st, bin) ELSE Further(st, d[j - 1])
    <3>1. CASE j = n
      <4>1. d[j - 1] = f[n - 1] /\ d[j] = Further(st, f[n - 1]) /\ j # 0
        BY <2>3, <3>1
      <4> QED
        BY <4>1, <3>1
    <3>2. CASE j # n
      <4>1. j \in 0 .. n - 1 /\ d[j] = f[j]
        BY <2>3, <3>2
      <4>2. f[j] = IF j = 0 THEN First(st, bin) ELSE Further(st, f[j - 1])
        BY <4>1, <2>2 DEF Follows
      <4>3. j # 0 => d[j - 1] = f[j - 1]
        BY <2>3, <4>1
      <4> QED
        BY <4>1, <4>2, <4>3
    <3> QED
      BY <3>1, <3>2
  <2>5. d = [j \in 0 .. n |-> d[j]]
    OBVIOUS
  <2> HIDE DEF d
  <2>6. Follows(d, st, bin, n)
    BY <2>4, <2>5 DEF Follows
  <2> QED
    BY <2>6, <1>2
<1> QED
  BY <1>3, <1>4

\* The free blocks whose length belongs in a list.
Mates(st, F, bin) == {b \in F : Bin(st.words[b].length) = bin}

\* What is followed stays among them, from the head on, and grows until it is
\* closed.
Grown(st, F, bin, S, n) ==
    /\ S \subseteq Mates(st, F, bin) /\ First(st, bin) \subseteq S
    /\ Further(st, S) = S \/ Cardinality(S) >= n

\* The head of a list is one of its blocks, if the list has any.
LEMMA GrownFirst ==
    ASSUME NEW st, NEW F, Lists(st, F), NEW bin \in Bins
    PROVE  /\ First(st, bin) \subseteq Mates(st, F, bin)
           /\ First(st, bin) = {} => Further(st, First(st, bin)) = First(st, bin)
           /\ First(st, bin) # {} => Cardinality(First(st, bin)) = 1
<1>1. CASE st.bins[bin] = NoSpan
  BY <1>1 DEF First, Further
<1>2. CASE st.bins[bin] # NoSpan
  <2>1. First(st, bin) = {st.bins[bin]}
    BY <1>2 DEF First
  <2>2. st.bins[bin] \in Mates(st, F, bin)
    BY <1>2 DEF Lists, Mates
  <2>3. Cardinality({st.bins[bin]}) = 1
    BY FS_Singleton
  <2> QED
    BY <2>1, <2>2, <2>3
<1> QED
  BY <1>1, <1>2

\* Each step finds another block, or the list is at its end.
LEMMA GrownFurther ==
    ASSUME NEW st, NEW F, Lists(st, F), NEW bin, NEW S, NEW n \in Nat, Grown(st, F, bin, S, n)
    PROVE  Grown(st, F, bin, Further(st, S), n + 1)
<1> DEFINE R == Further(st, S)
<1>0. /\ S \subseteq Mates(st, F, bin) /\ First(st, bin) \subseteq S
      /\ Further(st, S) = S \/ Cardinality(S) >= n
  BY DEF Grown
<1>1. R \subseteq Mates(st, F, bin) /\ S \subseteq R
  BY <1>0 DEF Further, Mates, Lists
<1>2. CASE R = S
  BY <1>0, <1>1, <1>2 DEF Grown
<1>3. CASE R # S
  <2>1. IsFiniteSet(Bases) /\ R \subseteq Bases
    <3>1. Bases = 0 .. EdgeCapacity - 1 /\ 0 \in Int /\ EdgeCapacity - 1 \in Int
      BY SpansAssumption DEF Bases
    <3>2. IsFiniteSet(Bases)
      BY ONLY <3>1, FS_Interval
    <3> QED
      BY <1>1, <3>2 DEF Mates, Lists
  <2>2. IsFiniteSet(R) /\ Cardinality(R) \in Nat
    BY <2>1, FS_Subset, FS_CardinalityType
  <2>3. Cardinality(S) <= Cardinality(R) /\ Cardinality(S) # Cardinality(R) /\ IsFiniteSet(S)
    BY <1>1, <1>3, <2>2, FS_Subset
  <2>4. Cardinality(S) \in Nat
    BY <2>3, FS_CardinalityType
  <2>5. Cardinality(S) >= n
    BY <1>0, <1>3
  <2>6. Cardinality(R) >= n + 1
    <3> HIDE DEF R
    <3> QED
      BY ONLY <2>2, <2>3, <2>4, <2>5, n \in Nat
  <2> QED
    BY <1>0, <1>1, <2>6 DEF Grown
<1> QED
  BY <1>2, <1>3

\* A list holds the free blocks of its lengths, all of them.
LEMMA ChainLemma ==
    ASSUME NEW st, NEW F, Lists(st, F), Ranked(st, F), NEW bin \in Bins
    PROVE  Chain(st, bin) = Mates(st, F, bin)
<1> DEFINE N == EdgeCapacity
           f == CHOOSE f : Follows(f, st, bin, N)
           G(j) == Grown(st, F, bin, f[j], j + 1)
<1>1. N \in Nat
  BY SpansAssumption
<1>2. Follows(f, st, bin, N)
  BY <1>1, FollowsExist
<1>3. Chain(st, bin) = f[N]
  BY DEF Chain, Follows, First, Further
<1> HIDE DEF f
<1> DEFINE T == {j \in 0 .. N : ~G(j)}
<1>4. G(N)
  <2>1. SUFFICES ASSUME T # {} PROVE FALSE
    BY <1>1
  <2>2. PICK n \in T : \A k \in T : n <= k
    <3>1. T \subseteq Nat
      BY <1>1
    <3> HIDE DEF T
    <3> QED
      BY <3>1, <2>1, Least
  <2>3. n \in 0 .. N /\ f[n] = IF n = 0 THEN First(st, bin) ELSE Further(st, f[n - 1])
    BY <1>2, <2>2 DEF Follows
  <2>4. CASE n = 0
    <3>1. f[0] = First(st, bin)
      BY <2>3, <2>4
    <3>2. Grown(st, F, bin, f[0], 1)
      BY <3>1, GrownFirst DEF Grown
    <3> QED
      BY <2>2, <2>4, <3>2
  <2>5. CASE n # 0
    <3> DEFINE k == n - 1
    <3>1. k \in 0 .. N /\ k \in Nat /\ k + 1 = n /\ k \notin T
      BY <1>1, <2>2, <2>3, <2>5
    <3>2. G(k)
      BY <3>1
    <3>3. f[n] = Further(st, f[k])
      BY <2>3, <2>5
    <3> HIDE DEF k, T
    <3>4. n \in Nat /\ Grown(st, F, bin, f[k], n)
      BY <3>1, <3>2
    <3>5. Grown(st, F, bin, Further(st, f[k]), n + 1)
      BY <3>4, GrownFurther
    <3>7. G(n)
      BY <3>3, <3>5
    <3> QED
      BY <2>2, <3>7 DEF T
  <2> QED
    BY <2>4, <2>5
<1> HIDE DEF T
<1>5. f[N] \subseteq Mates(st, F, bin) /\ First(st, bin) \subseteq f[N]
  BY <1>4 DEF Grown
<1>6. Further(st, f[N]) = f[N]
  <2>1. ~(Cardinality(f[N]) >= N + 1)
    <3>1. 0 \in Int /\ N - 1 \in Int /\ Bases = 0 .. N - 1 /\ ~(0 > N - 1) /\ N - 1 - 0 + 1 = N
      BY SpansAssumption DEF Bases
    <3>2. IsFiniteSet(Bases) /\ Cardinality(Bases) = N
      <4>1. IsFiniteSet(0 .. N - 1)
        BY ONLY <3>1, FS_Interval
      <4>2. Cardinality(0 .. N - 1) = IF 0 > N - 1 THEN 0 ELSE N - 1 - 0 + 1
        BY ONLY <3>1, FS_Interval
      <4> QED
        BY <4>1, <4>2, <3>1
    <3>3. f[N] \subseteq Bases
      BY <1>5 DEF Mates, Lists
    <3>4. Cardinality(f[N]) <= N /\ IsFiniteSet(f[N])
      BY <3>2, <3>3, FS_Subset
    <3>5. Cardinality(f[N]) \in Nat
      BY <3>4, FS_CardinalityType
    <3> QED
      BY ONLY <1>1, <3>4, <3>5
  <2> QED
    BY <2>1, <1>4 DEF Grown
<1>7. Mates(st, F, bin) \subseteq f[N]
  <2> DEFINE w == st.words
             R == Mates(st, F, bin) \ f[N]
  <2>1. SUFFICES ASSUME R # {} PROVE FALSE
    OBVIOUS
  <2>2. PICK rank \in [Bases -> Nat] : \A c \in F : w[c].prev # NoSpan => rank[w[c].prev] < rank[c]
    BY DEF Ranked
  <2>3. {rank[c] : c \in R} \subseteq Nat /\ {rank[c] : c \in R} # {}
    BY <2>1, <2>2 DEF Mates, Lists
  <2>4. PICK n \in {rank[c] : c \in R} : \A k \in {rank[c] : c \in R} : n <= k
    BY <2>3, Least
  <2>5. PICK c \in R : n = rank[c]
    BY <2>4
  <2>6. c \in F /\ Bin(w[c].length) = bin /\ c \notin f[N]
    BY <2>5 DEF Mates
  <2>7. CASE w[c].prev = NoSpan
    <3>1. st.bins[bin] = c /\ c # NoSpan
      BY <2>6, <2>7 DEF Lists, NoSpan, Bases
    <3> QED
      BY <3>1, <2>6, <1>5 DEF First
  <2>8. CASE w[c].prev # NoSpan
    <3> DEFINE p == w[c].prev
    <3>1. p \in Mates(st, F, bin) /\ w[p].next = c
      BY <2>6, <2>8 DEF Lists, Mates
    <3>0. p \in Bases /\ c \in Bases
      BY <2>6, <3>1 DEF Lists, Mates
    <3>2. rank[p] < rank[c] /\ c # NoSpan
      <4>1. rank[p] < rank[c]
        BY <2>2, <2>6, <2>8
      <4>2. c # NoSpan
        BY <3>0 DEF NoSpan, Bases
      <4> QED
        BY <4>1, <4>2
    <3>3. p \in f[N]
      <4>1. SUFFICES ASSUME p \notin f[N] PROVE FALSE
        OBVIOUS
      <4>2. n <= rank[p] /\ rank[p] \in Nat /\ n \in Nat
        BY <4>1, <2>2, <2>3, <2>4, <3>0, <3>1, <3>2
      <4> QED
        BY <4>2, <3>2, <2>5
    <3>4. c \in Further(st, f[N])
      BY <3>1, <3>2, <3>3 DEF Further
    <3> QED
      BY <3>4, <1>6, <2>6
  <2> QED
    BY <2>7, <2>8
<1> QED
  BY <1>3, <1>5, <1>7

\* What the lists hold is the free blocks, and they are linked as they should be.
LEMMA ListedLemma ==
    ASSUME NEW st, NEW F, NEW T, Arena(st, F, T, {})
    PROVE  /\ Listed(st) = F
           /\ FreeCells(st) = UNION {Cells(b, st.words[b].length) : b \in F}
           /\ WellLinked(st)
<1> DEFINE w == st.words
<1>1. Lists(st, F) /\ Ranked(st, F) /\ Layout(w, F, T, {})
  BY DEF Arena
<1>2. \A bin \in Bins : Chain(st, bin) = Mates(st, F, bin)
  BY <1>1, ChainLemma
<1>3. Listed(st) = F
  <2>1. ASSUME NEW b \in F
        PROVE  Bin(w[b].length) \in Bins /\ b \in Mates(st, F, Bin(w[b].length))
    <3>1. w[b].length \in Nat
      <4>1. w[b].length \in Int /\ w[b].length >= 1
        BY <1>1, Bounds
      <4> QED
        BY <4>1
    <3> QED
      BY <3>1, BinType DEF Mates
  <2>2. Listed(st) \subseteq F
    BY <1>2 DEF Listed, Mates
  <2>3. F \subseteq Listed(st)
    BY <1>2, <2>1 DEF Listed
  <2> QED
    BY <2>2, <2>3
<1>4. FreeCells(st) = UNION {Cells(b, w[b].length) : b \in F}
  BY <1>3 DEF FreeCells
<1>5. ASSUME NEW bin \in Bins, NEW b \in Chain(st, bin)
      PROVE  /\ Bin(w[b].length) = bin /\ b + w[b].length <= EdgeCapacity /\ w[b].tag = Free
             /\ w[b + w[b].length - 1].length = w[b].length
             /\ w[b + w[b].length - 1].tag = Free
             /\ IF w[b].prev = NoSpan THEN st.bins[bin] = b ELSE w[w[b].prev].next = b
             /\ w[b].next # NoSpan => w[w[b].next].prev = b
  <2>1. b \in F /\ Bin(w[b].length) = bin
    BY <1>2 DEF Mates
  <2>2. b + w[b].length <= EdgeCapacity
    BY <1>1, <2>1, Bounds
  <2>3. /\ w[b].tag = Free /\ w[b + w[b].length - 1].length = w[b].length
        /\ w[b + w[b].length - 1].tag = Free
    BY <1>1, <2>1 DEF Layout, Ends
  <2>4. /\ IF w[b].prev = NoSpan THEN st.bins[bin] = b ELSE w[w[b].prev].next = b
        /\ w[b].next # NoSpan => w[w[b].next].prev = b
    BY <1>1, <2>1 DEF Lists
  <2> QED
    BY <2>1, <2>2, <2>3, <2>4
<1>6. ASSUME NEW b \in F, NEW c \in F, b < c
      PROVE  b + w[b].length < c
  <2>1. b + w[b].length <= c /\ b + w[b].length # c
    BY <1>1, <1>6 DEF Layout
  <2> DEFINE length == w[b].length
  <2>2. b \in Int /\ c \in Int /\ length \in Int
    BY <1>1, Bounds
  <2>3. b + length <= c /\ b + length # c
    BY <2>1
  <2> HIDE DEF length
  <2>4. b + length < c
    BY ONLY <2>2, <2>3
  <2> QED
    BY <2>4 DEF length
<1> QED
  BY <1>3, <1>4, <1>5, <1>6 DEF WellLinked

\* A cell of a run that is free belongs to the block the run begins in: blocks
\* do not overlap and none follows another.
LEMMA RunLemma ==
    ASSUME NEW w, NEW F, NEW T, Layout(w, F, T, {}), NEW b \in Int, NEW n \in Nat, n > 0,
           Cells(b, n) \subseteq UNION {Cells(c, w[c].length) : c \in F}
    PROVE  \E c \in F : w[c].length >= n
<1>1. b \in Cells(b, n)
  BY DEF Cells
<1>2. PICK c \in F : b \in Cells(c, w[c].length)
  BY <1>1
<1>3. c \in Int /\ w[c].length \in Int /\ w[c].length >= 1
  BY Bounds
<1> DEFINE length == w[c].length
           end == c + length
<1>4. end \in Int /\ c <= b /\ b < end
  BY <1>2, <1>3 DEF Cells
<1>5. ~(end < b + n)
  <2>1. SUFFICES ASSUME end < b + n PROVE FALSE
    OBVIOUS
  <2>2. end \in Cells(b, n)
    <3> HIDE DEF end
    <3> QED
      BY ONLY <1>4, <2>1, n \in Nat, b \in Int DEF Cells
  <2>3. PICK d \in F : end \in Cells(d, w[d].length)
    BY <2>2
  <2>4. d \in Int /\ w[d].length \in Int /\ w[d].length >= 1
    BY Bounds
  <2>5. d <= end /\ end < d + w[d].length
    <3> HIDE DEF end
    <3> QED
      BY <1>4, <2>3, <2>4 DEF Cells
  <2>6. end # d
    BY DEF Layout
  <2>7. c < d => end <= d
    BY DEF Layout
  <2>8. d < c => d + w[d].length <= c
    BY DEF Layout
  <2>9. c # d
    <3>1. SUFFICES ASSUME c = d PROVE FALSE
      OBVIOUS
    <3>2. end < end
      BY <2>5, <3>1
    <3> HIDE DEF end
    <3> QED
      BY <3>2, <1>4
  <2> DEFINE other == w[d].length
  <2> HIDE DEF end, other
  <2> QED
    BY ONLY <1>3, <1>4, <2>4, <2>5, <2>6, <2>7, <2>8, <2>9
<1>6. length >= n
  <2>1. length \in Int /\ c + length >= b + n
    BY <1>3, <1>4, <1>5
  <2> HIDE DEF length
  <2> QED
    BY ONLY <1>3, <1>4, <2>1, n \in Nat, b \in Int
<1> QED
  BY <1>6

\* A length is refused only when no free run is that long.
LEMMA RefusalLemma ==
    ASSUME NEW st, NEW F, NEW T, Arena(st, F, T, {}), NEW n \in 1 .. MaxActions
    PROVE  SpanFind(st, n) = NoSpan <=> \A b \in Bases : ~(Cells(b, n) \subseteq FreeCells(st))
<1> DEFINE w == st.words
<1>1. Layout(w, F, T, {}) /\ FreeCells(st) = UNION {Cells(b, w[b].length) : b \in F}
  BY ListedLemma DEF Arena
<1>2. n \in Nat /\ n > 0 /\ n \in Int
  BY SpansAssumption
<1>3. ASSUME SpanFind(st, n) = NoSpan, NEW b \in Bases, Cells(b, n) \subseteq FreeCells(st)
      PROVE  FALSE
  <2>1. b \in Int
    BY DEF Bases
  <2>2. PICK c \in F : w[c].length >= n
    BY <1>1, <1>2, <1>3, <2>1, RunLemma
  <2>3. w[c].length < n
    BY <1>3, FindLemma
  <2>4. w[c].length \in Int
    BY <1>1, Bounds
  <2> HIDE DEF w
  <2> QED
    BY ONLY <1>2, <2>2, <2>3, <2>4
<1>4. ASSUME SpanFind(st, n) # NoSpan
      PROVE  \E b \in Bases : Cells(b, n) \subseteq FreeCells(st)
  <2> DEFINE b == SpanFind(st, n)
  <2>1. b \in F /\ w[b].length >= n
    BY <1>4, FindLemma
  <2>2. b \in Bases /\ b \in Int /\ w[b].length \in Int
    BY <1>1, <2>1, Bounds
  <2> HIDE DEF b
  <2>3. Cells(b, n) \subseteq Cells(b, w[b].length)
    <3> DEFINE length == w[b].length
    <3>1. length \in Int /\ length >= n
      BY <2>1, <2>2
    <3> HIDE DEF length
    <3>2. Cells(b, n) \subseteq Cells(b, length)
      BY ONLY <1>2, <2>2, <3>1 DEF Cells
    <3> QED
      BY <3>2 DEF length
  <2> QED
    BY <1>1, <2>1, <2>2, <2>3
<1> QED
  BY <1>3, <1>4

\* What ArenaDivided says of a graph.
LEMMA DividedLemma ==
    ASSUME NEW g, GraphInv(g)
    PROVE  /\ WellLinked(g.spans)
           /\ FreeCells(g.spans) = Bases \ CandidateSet(g)
           /\ \A n \in 1 .. MaxActions :
                 SpanFind(g.spans, n) = NoSpan
                     <=> \A b \in Bases : ~(Cells(b, n) \subseteq FreeCells(g.spans))
<1> DEFINE w == g.spans.words
           T == SpansOf(g)
<1>1. PICK F : Arena(g.spans, F, T, {})
  BY DEF GraphInv, Spaced
<1>2. WellLinked(g.spans) /\ FreeCells(g.spans) = UNION {Cells(b, w[b].length) : b \in F}
  BY <1>1, ListedLemma
<1>3. Layout(w, F, T, {})
  BY <1>1 DEF Arena
<1>4. /\ \A k \in Parents(g) : w[g.nodes[k].span].length = g.nodes[k].count
      /\ \A k, l \in Parents(g) : g.nodes[k].span = g.nodes[l].span => k = l
      /\ \A k \in LiveOf(g) : g.nodes[k].count \in Nat
  <2>1. \A k \in LiveOf(g) : g.nodes[k] \in Nodes
    BY DEF GraphInv, Graphs, LiveOf
  <2>2. \A k \in LiveOf(g) : g.nodes[k].count \in Nat
    BY <2>1 DEF Nodes
  <2> QED
    BY <2>2 DEF GraphInv, Spaced
<1>5. \A n \in LiveOf(g) : /\ Candidates(g, n) \subseteq Bases
                           /\ \A b \in F : Candidates(g, n) \cap Cells(b, w[b].length) = {}
  BY <1>1, <1>4, CandidatesApart
<1>6. FreeCells(g.spans) \subseteq Bases \ CandidateSet(g)
  <2>1. ASSUME NEW b \in F
        PROVE  Cells(b, w[b].length) \subseteq Bases
    <3>1. b \in Int /\ b >= 0 /\ w[b].length \in Int /\ b + w[b].length <= EdgeCapacity
      BY <1>3, Bounds
    <3> QED
      BY ONLY SMTT(30), <3>1, GraphConstants DEF Cells, Bases
  <2> QED
    BY <1>2, <1>5, <2>1 DEF CandidateSet
<1>7. ASSUME NEW x \in Bases, x \notin CandidateSet(g)
      PROVE  x \in FreeCells(g.spans)
  <2>1. PICK b \in F \cup T : x \in Cells(b, w[b].length)
    BY <1>3 DEF Layout
  <2>2. CASE b \in F
    BY <1>2, <2>1, <2>2
  <2>3. CASE b \in T
    <3>1. PICK n \in Parents(g) : b = g.nodes[n].span
      BY <2>3 DEF SpansOf
    <3>2. Candidates(g, n) = Cells(b, w[b].length) /\ n \in LiveOf(g)
      <4>1. g.nodes[n].count > 0 /\ n \in LiveOf(g) /\ g.nodes[n].count \in Nat
        BY <1>4, <3>1 DEF Parents
      <4>2. g.nodes[n].count # 0
        BY <4>1
      <4> QED
        BY <1>4, <3>1, <4>1, <4>2 DEF Candidates
    <3> QED
      BY <1>7, <2>1, <3>2 DEF CandidateSet
  <2> QED
    BY <2>1, <2>2, <2>3
<1>8. \A n \in 1 .. MaxActions :
         SpanFind(g.spans, n) = NoSpan
             <=> \A b \in Bases : ~(Cells(b, n) \subseteq FreeCells(g.spans))
  BY <1>1, RefusalLemma
<1> QED
  BY <1>2, <1>6, <1>7, <1>8
=============================================================================
