----------------------------- MODULE MCBrkHeap -----------------------------
(***************************************************************************)
(* A small instance of BrkHeap: blocks of no bytes, of one, of a multiple  *)
(* of 16 and of one more.                                                  *)
(***************************************************************************)
EXTENDS BrkHeap

MCSizes == {0, 1, 16, 17}
=============================================================================
