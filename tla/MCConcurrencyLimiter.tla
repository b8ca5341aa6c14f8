----------------------- MODULE MCConcurrencyLimiter -----------------------
(***************************************************************************)
(* A small instance of ConcurrencyLimiter: four calls from two addresses   *)
(* and the empty one, under every pair of limits from the candidates.      *)
(***************************************************************************)
EXTENDS ConcurrencyLimiter

\* -1 and 0 both mean no limit; the others are exceeded by four calls.
MCMaxTotals == {-1, 0, 2, 3}
MCMaxPerIPs == {-1, 0, 1, 2}
=============================================================================
