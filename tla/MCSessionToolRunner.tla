------------------------- MODULE MCSessionToolRunner -------------------------
(***************************************************************************)
(* Instances of SessionToolRunner for TLC.  Queues and logs are bounded by  *)
(* the constants, the calls are told apart by their permission.             *)
(***************************************************************************)
EXTENDS SessionToolRunner, TLC

CONSTANTS a, b

\* One call that waits for the user and nothing else.
GatedOnly == a :> "ask"

\* One call that waits for the user, one that runs at once.
GatedAndPlain == a :> "ask" @@ b :> "none"

\* A call of another client, under a permission newer than this runner, and a
\* call the server has denied.
SplitClient == a :> "other" @@ b :> "deny"
=============================================================================
