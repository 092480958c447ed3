------------------------------ MODULE IdleClock ------------------------------
(***************************************************************************)
(* The stop-countdown of a session tool runner (class IdleClock in          *)
(* src/src/lib/tools/SessionToolRunner.ts), as functions from a clock value *)
(* to a clock value.  A clock is a record                                   *)
(*                                                                          *)
(*   blockers  calls that must be disposed of before a countdown starts     *)
(*   pending   #armPending: arm() was asked for while blockers were there   *)
(*   armed     a countdown timer is running                                 *)
(*                                                                          *)
(* The length of the countdown is abstract: an armed timer may expire at    *)
(* any later moment.                                                        *)
(***************************************************************************)
CONSTANTS Call,          \* tool call ids
          IdleEnabled    \* maxIdleMs > 0

ASSUME IdleEnabledAssumption == IdleEnabled \in BOOLEAN

Clock == [blockers : SUBSET Call, pending : BOOLEAN, armed : BOOLEAN]

NewClock == [blockers |-> {}, pending |-> FALSE, armed |-> FALSE]

\* disarm(): cancels the countdown and a pending arm, keeps the blockers.
Disarm(k) == [k EXCEPT !.pending = FALSE, !.armed = FALSE]

\* Mutant: arm() starts the countdown over outstanding blockers.
Arm_IgnoresBlockers(k) ==
    IF ~IdleEnabled THEN k ELSE [k EXCEPT !.pending = FALSE, !.armed = TRUE]

\* arm(): starts the countdown, or defers it while blockers are outstanding.
Arm(k) ==
    IF ~IdleEnabled THEN k
    ELSE IF k.blockers # {} THEN [k EXCEPT !.pending = TRUE]
    ELSE [k EXCEPT !.pending = FALSE, !.armed = TRUE]

\* block(id): a countdown that is running becomes a deferred one.
Block(k, c) ==
    [blockers |-> k.blockers \union {c},
     pending  |-> k.pending \/ k.armed,
     armed    |-> FALSE]

\* Mutant: the deferred arm is forgotten.
Unblock_ForgetsArm(k, c) == [k EXCEPT !.blockers = @ \ {c}]

\* unblock(id): the last blocker that retires applies a deferred arm.
Unblock(k, c) ==
    LET left == [k EXCEPT !.blockers = @ \ {c}]
    IN  IF left.blockers = {} /\ k.pending THEN Arm(left) ELSE left

\* endsTurn(ev): every idle but a requires_action one ends the turn.
EndsTurn(ev) == ev.type = "status_idle" /\ ev.arg # "requires_action"

\* noteEvent(ev): a confirmation is neutral, an idle that ends the turn arms,
\* anything else disarms.
NoteEvent(k, ev) ==
    IF ev.type = "tool_confirmation" THEN k
    ELSE IF EndsTurn(ev) THEN Arm(k)
    ELSE Disarm(k)
=============================================================================
