--------------------------- MODULE MCRateLimiter ---------------------------
(***************************************************************************)
(* A small instance of RateLimiter.                                        *)
(***************************************************************************)
EXTENDS RateLimiter

\* Buckets that are full again long before they can be evicted (the shape of
\* every default in env.go), the fallbacks of newIPLimiter included.  With
\* Minute = 2 a tick refills half a token, one, one and a half or fifteen.
MCConfigs == {<<1, 2>>, <<2, 0>>, <<3, 1>>, <<0, 1>>}

\* The start, the middle of the first bucket's life, and before and after
\* the first eviction that can remove it.
MCWindows == {0, 7, 21, 28}
=============================================================================
