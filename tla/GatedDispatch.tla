---------------------------- MODULE GatedDispatch ----------------------------
(***************************************************************************)
(* What a client that executes a session's tool calls promises, whatever    *)
(* the network, the user and the consumer do: one call runs at a time, a    *)
(* call runs only if it may, a denied call is final, and a call whose       *)
(* result of ours has reached the session never runs again.                 *)
(***************************************************************************)
CONSTANTS Call,
          NeedsApproval,   \* calls that wait for the user
          Forbidden        \* calls the server itself denied

VARIABLES status,          \* what has become of each call
          verdict          \* what the user said of each call

vars == <<status, verdict>>

Status == {"absent", "open", "running", "answered", "denied"}

TypeOK == /\ status \in [Call -> Status]
          /\ verdict \in [Call -> {"none", "allow", "refuse"}]

Init == /\ status = [c \in Call |-> "absent"]
        /\ verdict = [c \in Call |-> "none"]

Become(c, from, to) == /\ status[c] = from
                       /\ status' = [status EXCEPT ![c] = to]

MayRun(c) == /\ c \notin Forbidden
             /\ c \in NeedsApproval => verdict[c] = "allow"

Emit(c) == Become(c, "absent", "open") /\ UNCHANGED verdict

Decide(c) ==
    /\ c \in NeedsApproval /\ verdict[c] = "none" /\ status[c] = "open"
    /\ \E v \in {"allow", "refuse"} : verdict' = [verdict EXCEPT ![c] = v]
    /\ UNCHANGED status

Start(c) ==
    /\ \A d \in Call : status[d] # "running"
    /\ MayRun(c)
    /\ Become(c, "open", "running")
    /\ UNCHANGED verdict

\* The result reached the session, or it did not and the call is open again.
Finish(c) ==
    /\ Become(c, "running", "answered") \/ Become(c, "running", "open")
    /\ UNCHANGED verdict

Deny(c) ==
    /\ c \in Forbidden \/ verdict[c] = "refuse"
    /\ Become(c, "open", "denied")
    /\ UNCHANGED verdict

Next == \E c \in Call : Emit(c) \/ Decide(c) \/ Start(c) \/ Finish(c) \/ Deny(c)

Spec == Init /\ [][Next]_vars
=============================================================================
