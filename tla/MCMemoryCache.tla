--------------------------- MODULE MCMemoryCache ---------------------------
(* Instances of MemoryCache for TLC.                                       *)
EXTENDS MemoryCache, TLC

CONSTANTS k1, k2, k3, t1, t2

KeySymmetry == Permutations(Keys)

\* Nothing is claimed of a cache in which a get has met an expired entry, so
\* those states are checked but not explored any further.
ExpiredUnread == ~expiredRead
=============================================================================
