------------------------------- MODULE BrkHeap -------------------------------
(***************************************************************************)
(* lang/liblang/mem.lang: brk and freeBrk, the allocator of the language's *)
(* library.  Blocks are stacked at the break of the process, each behind a *)
(* header with the state to go back to.  A block freed below the top is    *)
(* only marked; when the top is freed the break goes back over it and over *)
(* every marked block under it, one call of testFreeBrk each.              *)
(*                                                                         *)
(* Addresses are numbers of bytes; memory is known only by the headers in  *)
(* it, and loses those above the break.                                    *)
(***************************************************************************)
EXTENDS Integers

CONSTANTS Start,          \* the break before the first allocation
          Limit,          \* the kernel refuses a break above it
          Sizes           \* what the program asks for

BRK_STRUCT_SIZE == 32

ASSUME HeapAssumption == /\ Start \in Nat \ {0}
                         /\ Limit \in Nat
                         /\ Start <= Limit
                         /\ Sizes \subseteq Nat

VARIABLES kernelBreak,
          brkTrack,       \* upper end of the last allocation, 0 before the first
          brkTrackLow,    \* its first byte after the header, or 0
          lastBrkPiece,   \* its header, or 0
          piece,          \* the headers in memory, by address
          live,           \* blocks the program holds
          pc              \* "program", or "testFreeBrk" on its way down

globals == <<brkTrack, brkTrackLow, lastBrkPiece>>
vars == <<kernelBreak, globals, piece, live, pc>>

Init == /\ kernelBreak = Start
        /\ brkTrack = 0
        /\ brkTrackLow = 0
        /\ lastBrkPiece = 0
        /\ piece = [h \in {} |-> 0]
        /\ live = {}
        /\ pc = "program"

-----------------------------------------------------------------------------
(* brk *)

\* Mutant of Rounded: rounds down.
Rounded_Down(size) == size - (size % 16)

Rounded(size) == IF size % 16 = 0 THEN size ELSE size + (16 - (size % 16))

\* Where the next header goes; sys_brk(0) is asked the first time.
Top == IF brkTrack = 0 THEN kernelBreak ELSE brkTrack

\* The break a block of that size needs.
BreakFor(size) == Top + BRK_STRUCT_SIZE + Rounded(size)

BrkPiece(free) == [oldBrkPiece |-> lastBrkPiece, oldBrkTrack |-> Top,
                   oldBrkTrackLow |-> brkTrackLow, free |-> free]

Grow(size) ==
  /\ pc = "program"
  /\ BreakFor(size) <= Limit
  /\ kernelBreak' = BreakFor(size)
  /\ piece' = [h \in DOMAIN piece \cup {Top} |->
                 IF h = Top THEN BrkPiece(FALSE) ELSE piece[h]]
  /\ lastBrkPiece' = Top
  /\ brkTrack' = BreakFor(size)
  /\ brkTrackLow' = Top + BRK_STRUCT_SIZE
  /\ live' = live \cup {[ptr |-> Top + BRK_STRUCT_SIZE, size |-> size]}
  /\ UNCHANGED pc

\* brk returns -1; only the first reading of the break is kept.
GrowRefused(size) ==
  /\ pc = "program"
  /\ BreakFor(size) > Limit
  /\ brkTrack' = Top
  /\ UNCHANGED <<kernelBreak, brkTrackLow, lastBrkPiece, piece, live, pc>>

-----------------------------------------------------------------------------
(* freeBrk and testFreeBrk *)

\* Mutant of Pop: one block at a time, without looking at the next.
Pop_NoTest(h, marked) ==
  LET p == marked[h]
  IN  /\ lastBrkPiece' = p.oldBrkPiece
      /\ brkTrack' = p.oldBrkTrack
      /\ brkTrackLow' = p.oldBrkTrackLow
      /\ kernelBreak' = p.oldBrkTrack
      /\ piece' = [g \in {x \in DOMAIN marked : x < p.oldBrkTrack} |-> marked[g]]
      /\ pc' = "program"

\* Go back to before the piece h, which is on top; on to the one under it.
Pop(h, marked) ==
  LET p == marked[h]
  IN  /\ lastBrkPiece' = p.oldBrkPiece
      /\ brkTrack' = p.oldBrkTrack
      /\ brkTrackLow' = p.oldBrkTrackLow
      /\ kernelBreak' = p.oldBrkTrack
      /\ piece' = [g \in {x \in DOMAIN marked : x < p.oldBrkTrack} |-> marked[g]]
      /\ pc' = IF p.oldBrkTrack # 0 /\ p.oldBrkTrackLow # 0 THEN "testFreeBrk" ELSE "program"

FreeTop(b) ==
  /\ b.ptr = brkTrackLow
  /\ Pop(b.ptr - BRK_STRUCT_SIZE, [piece EXCEPT ![b.ptr - BRK_STRUCT_SIZE].free = TRUE])

FreeBelow(b) ==
  /\ b.ptr # brkTrackLow
  /\ piece' = [piece EXCEPT ![b.ptr - BRK_STRUCT_SIZE].free = TRUE]
  /\ UNCHANGED <<kernelBreak, globals, pc>>

FreeBrk(b) == /\ pc = "program"
              /\ b \in live
              /\ live' = live \ {b}
              /\ FreeTop(b) \/ FreeBelow(b)

\* Mutant of Collapsible: the mark is not looked at.
Collapsible_Any(h) == h # 0 /\ h + BRK_STRUCT_SIZE = brkTrackLow

\* testFreeBrk(h) goes on: there is a piece, it is marked and it is on top.
Collapsible(h) == h # 0 /\ piece[h].free /\ h + BRK_STRUCT_SIZE = brkTrackLow

TestFreeBrk == /\ pc = "testFreeBrk"
               /\ \/ /\ Collapsible(lastBrkPiece)
                     /\ Pop(lastBrkPiece, piece)
                  \/ /\ ~Collapsible(lastBrkPiece)
                     /\ pc' = "program"
                     /\ UNCHANGED <<kernelBreak, globals, piece>>
               /\ UNCHANGED live

Next == \/ \E size \in Sizes : Grow(size) \/ GrowRefused(size)
        \/ \E b \in live : FreeBrk(b)
        \/ TestFreeBrk

Spec == Init /\ [][Next]_vars

-----------------------------------------------------------------------------
(* Properties *)

\* Types; the globals agree on the last header and on the break.
TypeOK == /\ kernelBreak \in Start .. Limit
          /\ brkTrack \in {0, kernelBreak}
          /\ lastBrkPiece \in {0} \cup DOMAIN piece
          /\ brkTrackLow = IF lastBrkPiece = 0 THEN 0 ELSE lastBrkPiece + BRK_STRUCT_SIZE
          /\ DOMAIN piece \subseteq Start .. Limit
          /\ \A h \in DOMAIN piece :
               piece[h] \in [oldBrkPiece : {0} \cup DOMAIN piece, oldBrkTrack : {h},
                             oldBrkTrackLow : 0 .. Limit, free : BOOLEAN]
          /\ live \subseteq [ptr : Start .. Limit, size : Sizes]
          /\ pc \in {"program", "testFreeBrk"}

\* A block the program holds lies below the break, has its own header in
\* front of it, unmarked, and touches no other header: whatever the program
\* writes in it, and in whatever order it frees, the way back stays readable
\* (the struct in front of each block, mem.lang:59-65, 90-107).
BlocksKept ==
  \A b \in live :
    LET h == b.ptr - BRK_STRUCT_SIZE
    IN  /\ h \in DOMAIN piece /\ ~piece[h].free
        /\ b.ptr + b.size <= kernelBreak
        /\ \A g \in DOMAIN piece :
             g + BRK_STRUCT_SIZE <= b.ptr \/ b.ptr + b.size <= g

\* Memory freed in any order goes back to the kernel as far as it can: the
\* highest block, freed or not, is one the program still holds, and when it
\* holds none the break is where it was (the walk of testFreeBrk,
\* mem.lang:111-141).
BreakTight ==
  pc = "program" =>
    \/ live = {} /\ kernelBreak = Start
    \/ \E b \in live : kernelBreak = b.ptr + Rounded(b.size)

H == INSTANCE Heap

\* brk and freeBrk implement the heap: a new block touches none the program
\* holds, and freeing one takes away no other.
HeapSpec == H!Spec
=============================================================================
