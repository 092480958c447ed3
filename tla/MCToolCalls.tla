------------------------------ MODULE MCToolCalls ------------------------------
(***************************************************************************)
(* Instances of ToolCalls for TLC: replies of three calls, whole, cut off   *)
(* or taken over by a fallback model.                                       *)
(***************************************************************************)
EXTENDS ToolCalls

F == "function"
M == "member"
X == "malformed"

Whole == {<<M, M, M>>, <<M, F, M>>, <<F, M, M>>, <<F, F, M>>, <<M, X, M>>, <<X, M, F>>}
Cut   == {<<M, M, F>>, <<F, F, F>>}
Taken == {<<F, M, M>>, <<M, F, F>>}

SomeReplies ==
    [kind : Whole, stop : {"tool_use"}, fallback : {N + 1}]
      \union [kind : Cut, stop : {"cut"}, fallback : {N + 1}]
      \union [kind : Taken, stop : {"tool_use"}, fallback : {1, 2}]
=============================================================================
