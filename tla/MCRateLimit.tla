---------------------------- MODULE MCRateLimit ----------------------------
(***************************************************************************)
(* Small instances of RateLimitCoordinator: three interchangeable streams, *)
(* two quota keys, room for two waiters on a key.                          *)
(***************************************************************************)
EXTENDS RateLimitCoordinator, TLC

CONSTANTS c1, c2, c3, k1, k2

CallerSymmetry == Permutations({c1, c2, c3})
=============================================================================
