-------------------------------- MODULE Heap --------------------------------
(***************************************************************************)
(* What a program expects of brk and freeBrk (mem.lang): blocks of memory  *)
(* that no one else uses while it holds them.                              *)
(***************************************************************************)
EXTENDS Integers

CONSTANTS Start,          \* the break of the process before the first allocation
          Limit,          \* where the kernel refuses to grow it
          Sizes           \* sizes asked for

VARIABLE live             \* blocks the program holds: [ptr, size]

Blocks == [ptr : Start .. Limit, size : Sizes]

Disjoint(b, c) == b.ptr + b.size <= c.ptr \/ c.ptr + c.size <= b.ptr

Init == live = {}

\* One new block, anywhere, that touches none the program holds.
Alloc == \E b \in live' \ live : /\ b \in Blocks
                                 /\ b.ptr + b.size <= Limit
                                 /\ \A c \in live : Disjoint(b, c)
                                 /\ live' = live \cup {b}

Free == \E b \in live : live' = live \ {b}

Next == Alloc \/ Free

Spec == Init /\ [][Next]_live
=============================================================================
