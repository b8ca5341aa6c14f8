--------------------------- MODULE BrkHeapProofs ---------------------------
(***************************************************************************)
(* BrkHeap for every Start, Limit and set of sizes: the allocator keeps    *)
(* its blocks apart, gives memory back as far as it can, and implements    *)
(* Heap.                                                                   *)
(***************************************************************************)
EXTENDS BrkHeap, TLAPS

Hdr == BRK_STRUCT_SIZE
HeaderOf(b) == b.ptr - Hdr

\* Headers lie apart, below the break.
HeadersApart == /\ \A h \in DOMAIN piece : h + Hdr <= kernelBreak
                /\ \A g, h \in DOMAIN piece : g < h => g + Hdr <= h

\* h is the header to go back to from a place in memory, or there is none.
IsBelow(h, place) ==
  /\ \A g \in DOMAIN piece : g < place => h # 0 /\ g <= h
  /\ h = 0 => place = Start
  /\ h # 0 => h \in DOMAIN piece /\ h < place

\* Each header leads back to the one below it, and the globals to the last.
Chain == /\ IsBelow(lastBrkPiece, kernelBreak)
         /\ \A h \in DOMAIN piece :
              LET p == piece[h]
              IN  /\ IsBelow(p.oldBrkPiece, h)
                  /\ p.oldBrkTrackLow = IF p.oldBrkPiece = 0 THEN 0 ELSE p.oldBrkPiece + Hdr

\* Held blocks and unmarked headers belong together one to one, and a block
\* reaches, over no other header, to the next header or to the break.
Held == /\ \A b \in live : /\ HeaderOf(b) \in DOMAIN piece
                           /\ ~piece[HeaderOf(b)].free
                           /\ b.ptr + Rounded(b.size) \in DOMAIN piece \cup {kernelBreak}
                           /\ \A g \in DOMAIN piece :
                                g <= HeaderOf(b) \/ b.ptr + Rounded(b.size) <= g
        /\ \A b, c \in live : b.ptr = c.ptr => b = c
        /\ \A h \in DOMAIN piece : ~piece[h].free => \E b \in live : HeaderOf(b) = h

\* The program never sees a marked block on top.
TopHeld == pc = "program" => lastBrkPiece = 0 \/ ~piece[lastBrkPiece].free

HeapInv == TypeOK /\ HeadersApart /\ Chain /\ Held /\ TopHeld

-----------------------------------------------------------------------------
(* Rounding up never takes from a block. *)
LEMMA RoundedUp == ASSUME NEW size \in Nat
                   PROVE  Rounded(size) \in Nat /\ Rounded(size) >= size
  BY SMT DEF Rounded

\* The place of the next header is the break, asked for or remembered.
LEMMA TopIsBreak == ASSUME TypeOK, HeapAssumption PROVE Top = kernelBreak
  BY DEF TypeOK, Top, HeapAssumption

LEMMA BlockNumbers ==
  ASSUME TypeOK, HeapAssumption, NEW b \in live
  PROVE  b.ptr \in Nat /\ b.size \in Nat /\ Rounded(b.size) \in Nat /\ b.size <= Rounded(b.size)
  <1>1. b \in [ptr : Start .. Limit, size : Sizes]
    BY DEF TypeOK
  <1>2. b.ptr \in Start .. Limit /\ b.size \in Sizes
    BY <1>1
  <1> DEFINE place == b.ptr
             bytes == b.size
  <1>3. place \in Start .. Limit /\ bytes \in Sizes
    BY <1>2
  <1> HIDE DEF place, bytes
  <1>4. place \in Nat /\ bytes \in Nat
    BY <1>3 DEF HeapAssumption
  <1>5. b.ptr \in Nat /\ b.size \in Nat
    BY <1>4 DEF place, bytes
  <1> QED
    BY <1>5, RoundedUp

LEMMA InitInv == Init => HeapInv
  <1> SUFFICES ASSUME Init PROVE HeapInv
    OBVIOUS
  <1> USE HeapAssumption DEF Init, HeapAssumption
  <1>1. TypeOK
    BY DEF TypeOK
  <1>2. HeadersApart /\ Held /\ TopHeld
    BY DEF HeadersApart, Held, TopHeld
  <1>3. Chain
    BY DEF Chain, IsBelow
  <1> QED
    BY <1>1, <1>2, <1>3 DEF HeapInv

\* A new block on top.
LEMMA GrowInv ==
  ASSUME HeapInv, NEW size \in Sizes, Grow(size)
  PROVE  HeapInv'
  <1> DEFINE b == [ptr |-> kernelBreak + Hdr, size |-> size]
  <1> USE HeapAssumption DEF HeapAssumption
  <1>1. kernelBreak \in Nat \ {0} /\ size \in Nat /\ Rounded(size) \in Nat
    BY RoundedUp DEF HeapInv, TypeOK
  <1>2. Top = kernelBreak
    BY TopIsBreak DEF HeapInv
  <1>3. /\ pc = "program" /\ pc' = "program"
        /\ kernelBreak' = kernelBreak + Hdr + Rounded(size)
        /\ kernelBreak' <= Limit
        /\ brkTrack' = kernelBreak'
        /\ lastBrkPiece' = kernelBreak
        /\ brkTrackLow' = kernelBreak + Hdr
        /\ live' = live \cup {b}
    BY <1>2 DEF Grow, BreakFor, Hdr
  <1>4. /\ DOMAIN piece' = DOMAIN piece \cup {kernelBreak}
        /\ \A h \in DOMAIN piece : h < kernelBreak /\ piece'[h] = piece[h]
        /\ piece'[kernelBreak] = [oldBrkPiece |-> lastBrkPiece, oldBrkTrack |-> kernelBreak,
                                  oldBrkTrackLow |-> brkTrackLow, free |-> FALSE]
    BY <1>1, <1>2 DEF Grow, BrkPiece, HeapInv, HeadersApart, Hdr, BRK_STRUCT_SIZE, TypeOK
  <1>5. TypeOK'
    <2>1. /\ kernelBreak' \in Start .. Limit
          /\ b \in [ptr : Start .. Limit, size : Sizes]
          /\ kernelBreak \in Start .. Limit
      BY <1>1, <1>3 DEF HeapInv, TypeOK, Hdr, BRK_STRUCT_SIZE
    <2>2. live' \subseteq [ptr : Start .. Limit, size : Sizes]
      BY <1>3, <2>1 DEF HeapInv, TypeOK
    <2>3. DOMAIN piece' \subseteq Start .. Limit
      BY <1>4, <2>1 DEF HeapInv, TypeOK
    <2>4. ASSUME NEW h \in DOMAIN piece'
          PROVE  piece'[h] \in [oldBrkPiece : {0} \cup DOMAIN piece', oldBrkTrack : {h},
                                oldBrkTrackLow : 0 .. Limit, free : BOOLEAN]
      <3>1. CASE h = kernelBreak
        <4>1. lastBrkPiece \in {0} \cup DOMAIN piece'
          BY <1>4 DEF HeapInv, TypeOK
        <4>2. brkTrackLow \in 0 .. Limit
          BY <1>1, <2>1 DEF HeapInv, TypeOK, HeadersApart, BRK_STRUCT_SIZE, Hdr
        <4>3. piece'[h] = [oldBrkPiece |-> lastBrkPiece, oldBrkTrack |-> h,
                           oldBrkTrackLow |-> brkTrackLow, free |-> FALSE]
          BY <1>4, <3>1
        <4> QED
          BY <4>1, <4>2, <4>3
      <3>2. CASE h # kernelBreak
        BY <1>4, <3>2 DEF HeapInv, TypeOK
      <3> QED
        BY <3>1, <3>2
    <2>5. /\ lastBrkPiece' \in {0} \cup DOMAIN piece'
          /\ brkTrackLow' = IF lastBrkPiece' = 0 THEN 0 ELSE lastBrkPiece' + BRK_STRUCT_SIZE
          /\ brkTrack' \in {0, kernelBreak'}
          /\ pc' \in {"program", "testFreeBrk"}
      BY <1>1, <1>3, <1>4 DEF Hdr
    <2> QED
      BY <2>1, <2>2, <2>3, <2>4, <2>5 DEF TypeOK
  <1>6. HeadersApart'
    BY <1>1, <1>3, <1>4 DEF HeapInv, TypeOK, HeadersApart, Hdr, BRK_STRUCT_SIZE
  <1>7. Chain'
    BY <1>1, <1>3, <1>4 DEF HeapInv, TypeOK, HeadersApart, Chain, IsBelow, Hdr, BRK_STRUCT_SIZE
  <1>8. Held'
    <2> DEFINE End(c) == c.ptr + Rounded(c.size)
    <2>1. HeaderOf(b) = kernelBreak /\ End(b) = kernelBreak'
      BY <1>1, <1>3 DEF HeaderOf, Hdr, BRK_STRUCT_SIZE
    <2>2. ASSUME NEW c \in live
          PROVE  /\ c.ptr \in Nat
                 /\ HeaderOf(c) \in DOMAIN piece /\ ~piece[HeaderOf(c)].free
                 /\ HeaderOf(c) < kernelBreak
                 /\ End(c) \in DOMAIN piece \cup {kernelBreak}
                 /\ End(c) <= kernelBreak
                 /\ \A g \in DOMAIN piece : g <= HeaderOf(c) \/ End(c) <= g
      BY <1>1, <1>4 DEF HeapInv, TypeOK, Held
    <2>3. ASSUME NEW c \in live'
          PROVE  /\ HeaderOf(c) \in DOMAIN piece'
                 /\ ~piece'[HeaderOf(c)].free
                 /\ End(c) \in DOMAIN piece' \cup {kernelBreak'}
                 /\ \A g \in DOMAIN piece' : g <= HeaderOf(c) \/ End(c) <= g
      <3>1. CASE c = b
        BY <1>1, <1>3, <1>4, <2>1, <3>1 DEF HeapInv, TypeOK
      <3>2. CASE c \in live
        BY <1>1, <1>4, <2>2, <3>2
      <3> QED
        BY <1>3, <3>1, <3>2
    <2>4. \A c, d \in live' : c.ptr = d.ptr => c = d
      <3>1. \A c \in live : c.ptr # b.ptr
        BY <1>1, <2>1, <2>2 DEF HeaderOf, Hdr, BRK_STRUCT_SIZE
      <3> QED
        BY <1>3, <3>1 DEF HeapInv, Held
    <2>5. ASSUME NEW g \in DOMAIN piece', ~piece'[g].free
          PROVE  \E c \in live' : HeaderOf(c) = g
      BY <1>3, <1>4, <2>1, <2>5 DEF HeapInv, Held
    <2> QED
      BY <2>3, <2>4, <2>5 DEF Held, HeaderOf
  <1>9. TopHeld'
    BY <1>3, <1>4 DEF TopHeld
  <1> QED
    BY <1>5, <1>6, <1>7, <1>8, <1>9 DEF HeapInv

\* Going back over the top piece, marked or being freed.
LEMMA PopInv ==
  ASSUME HeapInv, NEW h \in DOMAIN piece, h = lastBrkPiece,
         NEW marked, DOMAIN marked = DOMAIN piece,
         \A g \in DOMAIN piece : g # h => marked[g] = piece[g],
         /\ marked[h].oldBrkPiece = piece[h].oldBrkPiece
         /\ marked[h].oldBrkTrack = piece[h].oldBrkTrack
         /\ marked[h].oldBrkTrackLow = piece[h].oldBrkTrackLow,
         Pop(h, marked),
         live' = {b \in live : HeaderOf(b) # h}
  PROVE  HeapInv'
  <1> USE HeapAssumption DEF HeapAssumption
  <1> DEFINE old == piece[h].oldBrkPiece
  <1>1. /\ DOMAIN piece \subseteq Nat \ {0}
        /\ DOMAIN piece \subseteq Start .. Limit
        /\ kernelBreak \in Nat
        /\ \A g \in DOMAIN piece :
             piece[g] \in [oldBrkPiece : {0} \cup DOMAIN piece, oldBrkTrack : {g},
                           oldBrkTrackLow : 0 .. Limit, free : BOOLEAN]
    BY DEF HeapInv, TypeOK
  <1>2. /\ kernelBreak' = h /\ brkTrack' = h
        /\ lastBrkPiece' = old
        /\ brkTrackLow' = IF old = 0 THEN 0 ELSE old + Hdr
        /\ pc' = IF old = 0 THEN "program" ELSE "testFreeBrk"
    BY <1>1 DEF Pop, HeapInv, Chain, Hdr, BRK_STRUCT_SIZE
  <1>3. /\ DOMAIN piece' = {x \in DOMAIN piece : x < h}
        /\ \A g \in DOMAIN piece' : piece'[g] = piece[g]
    BY <1>1 DEF Pop
  <1>4. \A g \in DOMAIN piece : g <= h
    BY <1>1 DEF HeapInv, HeadersApart, Chain, IsBelow, Hdr, BRK_STRUCT_SIZE
  <1>5. IsBelow(old, h)
    BY DEF HeapInv, Chain
  <1>6. TypeOK'
    <2>1. old \in {0} \cup DOMAIN piece'
      BY <1>3, <1>5 DEF IsBelow
    <2>2. ASSUME NEW g \in DOMAIN piece'
          PROVE  piece'[g] \in [oldBrkPiece : {0} \cup DOMAIN piece', oldBrkTrack : {g},
                                oldBrkTrackLow : 0 .. Limit, free : BOOLEAN]
      <3>1. g \in DOMAIN piece /\ g < h /\ piece'[g] = piece[g]
        BY <1>3
      <3>2. IsBelow(piece[g].oldBrkPiece, g)
        BY <3>1 DEF HeapInv, Chain
      <3>3. piece[g].oldBrkPiece \in {0} \cup DOMAIN piece'
        BY <1>1, <1>3, <3>1, <3>2 DEF IsBelow
      <3> QED
        BY <1>1, <3>1, <3>3
    <2> QED
      BY <1>1, <1>2, <1>3, <2>1, <2>2 DEF HeapInv, TypeOK, Hdr
  <1>7. HeadersApart'
    BY <1>1, <1>2, <1>3 DEF HeapInv, HeadersApart
  <1>8. Chain'
    <2>1. IsBelow(lastBrkPiece, kernelBreak)'
      BY <1>1, <1>2, <1>3, <1>5 DEF IsBelow
    <2>2. ASSUME NEW g \in DOMAIN piece'
          PROVE  /\ IsBelow(piece[g].oldBrkPiece, g)'
                 /\ piece'[g].oldBrkTrackLow =
                      IF piece'[g].oldBrkPiece = 0 THEN 0 ELSE piece'[g].oldBrkPiece + Hdr
      BY <1>1, <1>3 DEF HeapInv, Chain, IsBelow
    <2> QED
      BY <2>1, <2>2 DEF Chain
  <1>9. Held'
    <2> DEFINE End(b) == b.ptr + Rounded(b.size)
    <2>1. ASSUME NEW b \in live'
          PROVE  /\ b \in live
                 /\ HeaderOf(b) \in DOMAIN piece'
                 /\ ~piece'[HeaderOf(b)].free
                 /\ End(b) \in DOMAIN piece' \cup {kernelBreak'}
                 /\ \A g \in DOMAIN piece' : g <= HeaderOf(b) \/ End(b) <= g
      <3>1. b \in live /\ HeaderOf(b) # h
        OBVIOUS
      <3>2. /\ HeaderOf(b) \in DOMAIN piece /\ ~piece[HeaderOf(b)].free
            /\ End(b) \in DOMAIN piece \cup {kernelBreak}
            /\ \A g \in DOMAIN piece : g <= HeaderOf(b) \/ End(b) <= g
        BY <3>1 DEF HeapInv, Held
      <3>3. HeaderOf(b) < h
        BY <1>1, <1>4, <3>1, <3>2
      <3>4. End(b) <= h
        BY <1>1, <3>2, <3>3
      <3>5. h < kernelBreak
        BY <1>1 DEF HeapInv, HeadersApart, Hdr, BRK_STRUCT_SIZE
      <3>6. End(b) \in DOMAIN piece' \cup {kernelBreak'}
        BY <1>1, <1>2, <1>3, <3>2, <3>4, <3>5
      <3> QED
        BY <1>3, <3>1, <3>2, <3>3, <3>6
    <2>2. \A b, c \in live' : b.ptr = c.ptr => b = c
      BY <2>1 DEF HeapInv, Held
    <2>3. ASSUME NEW g \in DOMAIN piece', ~piece'[g].free
          PROVE  \E b \in live' : HeaderOf(b) = g
      BY <1>1, <1>3, <2>3 DEF HeapInv, Held
    <2> QED
      BY <2>1, <2>2, <2>3 DEF Held, HeaderOf
  <1>10. TopHeld'
    BY <1>2 DEF TopHeld
  <1> QED
    BY <1>6, <1>7, <1>8, <1>9, <1>10 DEF HeapInv

\* A block under the top is marked where it lies.
LEMMA FreeBelowInv ==
  ASSUME HeapInv, NEW b \in live, FreeBelow(b), live' = live \ {b}, pc = "program"
  PROVE  HeapInv'
  <1> DEFINE h == HeaderOf(b)
  <1>1. /\ h \in DOMAIN piece /\ b.ptr \in Nat
        /\ h # lastBrkPiece
    BY HeapAssumption DEF HeapInv, TypeOK, Held, FreeBelow, HeaderOf, Hdr, BRK_STRUCT_SIZE,
                          HeapAssumption
  <1>2. /\ DOMAIN piece' = DOMAIN piece
        /\ \A g \in DOMAIN piece : g # h => piece'[g] = piece[g]
        /\ piece'[h] = [piece[h] EXCEPT !.free = TRUE]
    BY <1>1 DEF FreeBelow, HeaderOf, Hdr
  <1>3. \A g \in DOMAIN piece :
          piece[g] \in [oldBrkPiece : {0} \cup DOMAIN piece, oldBrkTrack : {g},
                        oldBrkTrackLow : 0 .. Limit, free : BOOLEAN]
    BY DEF HeapInv, TypeOK
  <1>4. \A g \in DOMAIN piece : /\ piece'[g].oldBrkPiece = piece[g].oldBrkPiece
                                /\ piece'[g].oldBrkTrackLow = piece[g].oldBrkTrackLow
    BY <1>1, <1>2, <1>3
  <1>5. piece'[h].free
    BY <1>1, <1>2, <1>3
  <1>6. UNCHANGED <<kernelBreak, globals, pc>>
    BY DEF FreeBelow
  <1>7. TypeOK'
    <2>1. ASSUME NEW g \in DOMAIN piece'
          PROVE  piece'[g] \in [oldBrkPiece : {0} \cup DOMAIN piece', oldBrkTrack : {g},
                                oldBrkTrackLow : 0 .. Limit, free : BOOLEAN]
      <3>1. piece[g] \in [oldBrkPiece : {0} \cup DOMAIN piece', oldBrkTrack : {g},
                          oldBrkTrackLow : 0 .. Limit, free : BOOLEAN]
        BY <1>2, <1>3
      <3>2. CASE g # h
        BY <1>2, <3>1, <3>2
      <3>3. CASE g = h
        BY <1>2, <3>1, <3>3
      <3> QED
        BY <3>2, <3>3
    <2> QED
      BY <1>2, <1>6, <2>1 DEF HeapInv, TypeOK, globals
  <1>8. HeadersApart'
    BY <1>2, <1>6 DEF HeapInv, HeadersApart
  <1>9. Chain'
    BY <1>2, <1>4, <1>6 DEF HeapInv, Chain, IsBelow, globals
  <1>10. Held'
    <2>1. \A c \in live' : HeaderOf(c) # h
      BY <1>1 DEF HeapInv, TypeOK, Held, HeaderOf, Hdr, BRK_STRUCT_SIZE
    <2>2. \A c \in live' : /\ HeaderOf(c) \in DOMAIN piece'
                           /\ ~piece'[HeaderOf(c)].free
                           /\ c.ptr + Rounded(c.size) \in DOMAIN piece' \cup {kernelBreak'}
                           /\ \A g \in DOMAIN piece' :
                                g <= HeaderOf(c) \/ c.ptr + Rounded(c.size) <= g
      BY <1>2, <1>6, <2>1 DEF HeapInv, Held
    <2>3. ASSUME NEW g \in DOMAIN piece', ~piece'[g].free
          PROVE  \E c \in live' : HeaderOf(c) = g
      BY <1>2, <1>5, <2>3 DEF HeapInv, Held
    <2> QED
      BY <2>2, <2>3 DEF HeapInv, Held, HeaderOf
  <1>11. TopHeld'
    BY <1>1, <1>2, <1>6 DEF HeapInv, TypeOK, TopHeld, globals
  <1> QED
    BY <1>7, <1>8, <1>9, <1>10, <1>11 DEF HeapInv

\* The only block with a header is the one behind it.
LEMMA OneBlockPerHeader ==
  ASSUME HeapInv, NEW b \in live
  PROVE  live \ {b} = {c \in live : HeaderOf(c) # HeaderOf(b)}
  <1>1. \A c \in live : c.ptr \in Int
    BY HeapAssumption DEF HeapInv, TypeOK, HeapAssumption
  <1>2. \A c \in live : HeaderOf(c) = HeaderOf(b) => c = b
    BY <1>1 DEF HeapInv, Held, HeaderOf, Hdr, BRK_STRUCT_SIZE
  <1> QED
    BY <1>2

LEMMA NextInv == HeapInv /\ [Next]_vars => HeapInv'
  <1> SUFFICES ASSUME HeapInv, [Next]_vars PROVE HeapInv'
    OBVIOUS
  <1>1. ASSUME NEW size \in Sizes, Grow(size) PROVE HeapInv'
    BY <1>1, GrowInv
  <1>2. ASSUME NEW size \in Sizes, GrowRefused(size) PROVE HeapInv'
    <2>1. brkTrack' = kernelBreak /\ UNCHANGED <<kernelBreak, brkTrackLow, lastBrkPiece,
                                                 piece, live, pc>>
      BY <1>2, TopIsBreak, HeapAssumption DEF GrowRefused, HeapInv
    <2> QED
      BY <2>1 DEF HeapInv, TypeOK, HeadersApart, Chain, IsBelow, Held, TopHeld, HeaderOf
  <1>3. ASSUME NEW b \in live, FreeBrk(b) PROVE HeapInv'
    <2>1. CASE FreeTop(b)
      <3>1. HeaderOf(b) = lastBrkPiece /\ HeaderOf(b) \in DOMAIN piece
        BY <2>1, HeapAssumption
        DEF FreeTop, HeapInv, TypeOK, Held, HeaderOf, Hdr, BRK_STRUCT_SIZE, HeapAssumption
      <3>2. live' = {c \in live : HeaderOf(c) # HeaderOf(b)}
        BY <1>3, OneBlockPerHeader DEF FreeBrk
      <3> DEFINE marked == [piece EXCEPT ![HeaderOf(b)].free = TRUE]
      <3>3. Pop(HeaderOf(b), marked)
        BY <2>1 DEF FreeTop, HeaderOf, Hdr
      <3>4. /\ DOMAIN marked = DOMAIN piece
            /\ \A g \in DOMAIN piece : g # HeaderOf(b) => marked[g] = piece[g]
            /\ marked[HeaderOf(b)] = [piece[HeaderOf(b)] EXCEPT !.free = TRUE]
        BY <3>1
      <3>5. piece[HeaderOf(b)] \in [oldBrkPiece : {0} \cup DOMAIN piece,
                                    oldBrkTrack : {HeaderOf(b)},
                                    oldBrkTrackLow : 0 .. Limit, free : BOOLEAN]
        BY <3>1 DEF HeapInv, TypeOK
      <3>6. /\ marked[HeaderOf(b)].oldBrkPiece = piece[HeaderOf(b)].oldBrkPiece
            /\ marked[HeaderOf(b)].oldBrkTrack = piece[HeaderOf(b)].oldBrkTrack
            /\ marked[HeaderOf(b)].oldBrkTrackLow = piece[HeaderOf(b)].oldBrkTrackLow
        BY <3>4, <3>5
      <3> HIDE DEF marked
      <3> QED
        BY <3>1, <3>2, <3>3, <3>4, <3>6, PopInv
    <2>2. CASE FreeBelow(b)
      BY <1>3, <2>2, FreeBelowInv DEF FreeBrk
    <2> QED
      BY <1>3, <2>1, <2>2 DEF FreeBrk
  <1>4. CASE TestFreeBrk
    <2> DEFINE h == lastBrkPiece
    <2>1. CASE Collapsible(h) /\ Pop(h, piece)
      <3>1. h \in DOMAIN piece /\ piece[h].free = TRUE
        BY <2>1 DEF Collapsible, HeapInv, TypeOK
      <3>2. live' = {b \in live : HeaderOf(b) # h}
        BY <1>4, <3>1 DEF TestFreeBrk, HeapInv, Held
      <3> QED
        BY <2>1, <3>1, <3>2, PopInv
    <2>2. CASE ~Collapsible(h) /\ pc' = "program" /\ UNCHANGED <<kernelBreak, globals, piece>>
      <3>1. UNCHANGED live
        BY <1>4 DEF TestFreeBrk
      <3>2. h = 0 \/ ~piece[h].free
        BY <2>2 DEF Collapsible, HeapInv, TypeOK
      <3> QED
        BY <2>2, <3>1, <3>2
        DEF HeapInv, TypeOK, HeadersApart, Chain, IsBelow, Held, TopHeld, HeaderOf, globals
    <2> QED
      BY <1>4, <2>1, <2>2 DEF TestFreeBrk
  <1>5. CASE UNCHANGED vars
    BY <1>5 DEF HeapInv, TypeOK, HeadersApart, Chain, IsBelow, Held, TopHeld, HeaderOf,
                vars, globals
  <1> QED
    BY <1>1, <1>2, <1>3, <1>4, <1>5 DEF Next

LEMMA Invariance == Spec => []HeapInv
  BY InitInv, NextInv, PTL DEF Spec

-----------------------------------------------------------------------------
\* Every reachable state of the allocator is well typed: its globals agree
\* with the last header and the break (mem.lang:1-7).
THEOREM HeapTyping == Spec => []TypeOK
  <1>1. HeapInv => TypeOK
    BY DEF HeapInv
  <1> QED
    BY <1>1, Invariance, PTL

\* Held blocks keep their header and touch no other, for any sizes and any
\* order of frees (mem.lang:76-109).
THEOREM HeapKeepsBlocks == Spec => []BlocksKept
  <1>1. HeapInv => BlocksKept
    <2> SUFFICES ASSUME HeapInv, NEW b \in live
                 PROVE  /\ HeaderOf(b) \in DOMAIN piece
                        /\ ~piece[HeaderOf(b)].free
                        /\ b.ptr + b.size <= kernelBreak
                        /\ \A g \in DOMAIN piece :
                             g + BRK_STRUCT_SIZE <= b.ptr \/ b.ptr + b.size <= g
      BY DEF BlocksKept, HeaderOf, Hdr
    <2>1. kernelBreak \in Nat /\ DOMAIN piece \subseteq Nat
      BY HeapAssumption DEF HeapInv, TypeOK, HeapAssumption
    <2>2. /\ b.ptr \in Nat /\ b.size \in Nat
          /\ Rounded(b.size) \in Nat /\ b.size <= Rounded(b.size)
      BY BlockNumbers, HeapAssumption DEF HeapInv
    <2>3. /\ HeaderOf(b) \in DOMAIN piece /\ ~piece[HeaderOf(b)].free
          /\ b.ptr + Rounded(b.size) \in DOMAIN piece \cup {kernelBreak}
          /\ \A g \in DOMAIN piece : g <= HeaderOf(b) \/ b.ptr + Rounded(b.size) <= g
      BY DEF HeapInv, Held
    <2>4. b.ptr + Rounded(b.size) <= kernelBreak
      BY <2>1, <2>2, <2>3 DEF HeapInv, HeadersApart, Hdr, BRK_STRUCT_SIZE
    <2>5. ASSUME NEW g \in DOMAIN piece
          PROVE  g + BRK_STRUCT_SIZE <= b.ptr \/ b.ptr + b.size <= g
      BY <2>1, <2>2, <2>3 DEF HeaderOf, Hdr, BRK_STRUCT_SIZE
    <2> QED
      BY <2>1, <2>2, <2>3, <2>4, <2>5
  <1> QED
    BY <1>1, Invariance, PTL

\* After every call the break is right above a held block, or back at the
\* start: no order of frees leaves freed memory on top (mem.lang:111-165).
THEOREM HeapGivesBack == Spec => []BreakTight
  <1>1. HeapInv => BreakTight
    <2> SUFFICES ASSUME HeapInv, pc = "program"
                 PROVE  \/ live = {} /\ kernelBreak = Start
                        \/ \E b \in live : kernelBreak = b.ptr + Rounded(b.size)
      BY DEF BreakTight
    <2>1. kernelBreak \in Nat /\ DOMAIN piece \subseteq Nat \ {0}
      BY HeapAssumption DEF HeapInv, TypeOK, HeapAssumption
    <2>2. \A g \in DOMAIN piece : g < kernelBreak
      BY <2>1 DEF HeapInv, HeadersApart, Hdr, BRK_STRUCT_SIZE
    <2>3. CASE lastBrkPiece = 0
      BY <2>2, <2>3 DEF HeapInv, Chain, IsBelow, Held
    <2>4. CASE lastBrkPiece # 0
      <3>1. lastBrkPiece \in DOMAIN piece /\ ~piece[lastBrkPiece].free
        BY <2>4 DEF HeapInv, TypeOK, TopHeld
      <3>2. PICK b \in live : HeaderOf(b) = lastBrkPiece
        BY <3>1 DEF HeapInv, Held
      <3>3. b.ptr \in Nat /\ Rounded(b.size) \in Nat
        BY BlockNumbers, HeapAssumption DEF HeapInv
      <3>4. lastBrkPiece < b.ptr + Rounded(b.size)
        BY <3>2, <3>3 DEF HeaderOf, Hdr, BRK_STRUCT_SIZE
      <3>5. b.ptr + Rounded(b.size) \notin DOMAIN piece
        BY <2>1, <2>2, <3>1, <3>3, <3>4 DEF HeapInv, Chain, IsBelow
      <3> QED
        BY <3>5 DEF HeapInv, Held
    <2> QED
      BY <2>3, <2>4
  <1> QED
    BY <1>1, Invariance, PTL

\* brk and freeBrk implement the heap without headers: every step allocates
\* one fresh block, frees one, or changes no block (mem.lang:76-165).
THEOREM HeapImplemented == Spec => HeapSpec
  <1>1. Init => H!Init
    BY DEF Init, H!Init
  <1>2. HeapInv /\ HeapInv' /\ BlocksKept /\ [Next]_vars => [H!Next]_live
    <2> SUFFICES ASSUME HeapInv, BlocksKept, HeapInv', [Next]_vars, ~UNCHANGED live
                 PROVE  H!Next
      OBVIOUS
    <2>1. ASSUME NEW size \in Sizes, Grow(size) PROVE H!Alloc
      <3> DEFINE b == [ptr |-> kernelBreak + Hdr, size |-> size]
      <3>1. live' = live \cup {b}
        BY <2>1, TopIsBreak, HeapAssumption DEF Grow, HeapInv, Hdr
      <3>2. b \notin live
        BY <3>1
      <3>3. /\ kernelBreak \in Nat /\ size \in Nat
            /\ Rounded(size) \in Nat /\ size <= Rounded(size)
            /\ kernelBreak + Hdr + Rounded(size) <= Limit
        <4>1. kernelBreak \in Nat /\ size \in Nat
          BY HeapAssumption DEF HeapInv, TypeOK, HeapAssumption
        <4> QED
          BY <2>1, <4>1, RoundedUp, TopIsBreak, HeapAssumption DEF Grow, BreakFor, HeapInv, Hdr
      <3>4. b \in H!Blocks /\ b.ptr + b.size <= Limit
        BY <3>3, HeapAssumption
        DEF H!Blocks, HeapInv, TypeOK, Hdr, BRK_STRUCT_SIZE, HeapAssumption
      <3>5. ASSUME NEW c \in live PROVE H!Disjoint(b, c)
        <4>1. c.ptr + c.size <= kernelBreak /\ c.ptr \in Nat /\ c.size \in Nat
          BY BlockNumbers, HeapAssumption DEF BlocksKept, HeapInv
        <4> QED
          BY <3>3, <4>1 DEF H!Disjoint, Hdr, BRK_STRUCT_SIZE
      <3> QED
        BY <3>1, <3>2, <3>4, <3>5 DEF H!Alloc
    <2>2. ASSUME NEW b \in live, FreeBrk(b) PROVE H!Free
      BY <2>2 DEF FreeBrk, H!Free
    <2> QED
      BY <2>1, <2>2 DEF Next, GrowRefused, TestFreeBrk, H!Next, vars
  <1> QED
    BY <1>1, <1>2, Invariance, HeapKeepsBlocks, PTL DEF Spec, HeapSpec, H!Spec
=============================================================================
