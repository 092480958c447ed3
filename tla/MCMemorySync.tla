----------------------------- MODULE MCMemorySync -----------------------------
(***************************************************************************)
(* Instances of MemorySync for TLC: two paths, a few edits of each side.    *)
(***************************************************************************)
EXTENDS MemorySync

CONSTANTS m1, m2, t1, t2

Writable == {[readOnly |-> FALSE, deletes |-> "enabled"]}
Kinds ==
    Writable \union {[readOnly |-> TRUE, deletes |-> "enabled"],
                     [readOnly |-> FALSE, deletes |-> "log_only"]}
=============================================================================
