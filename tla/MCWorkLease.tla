----------------------------- MODULE MCWorkLease -----------------------------
(***************************************************************************)
(* Instances of WorkLease for TLC: two workers, a lease of a few ticks.     *)
(***************************************************************************)
EXTENDS WorkLease, TLC

CONSTANTS v1, v2

Workers == {v1, v2}

\* The workers are interchangeable.
Interchangeable == Permutations(Workers)
=============================================================================
