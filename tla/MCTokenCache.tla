---------------------------- MODULE MCTokenCache ----------------------------
(***************************************************************************)
(* Instances of TokenCache for TLC: two requests of one client, a few calls *)
(* of the provider at a time.                                               *)
(***************************************************************************)
EXTENDS TokenCache, TLC

CONSTANTS r1, r2, c1, c2, c3

\* Requests are alike, and so are the calls of the provider.
Interchangeable == Permutations({r1, r2}) \union Permutations({c1, c2, c3})
=============================================================================
