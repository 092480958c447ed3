------------------------ MODULE SessionToolRunnerIdle ------------------------
(***************************************************************************)
(* The idle countdown of SessionToolRunner never runs over live work, for   *)
(* every set of calls, every permission and every bound.                    *)
(***************************************************************************)
EXTENDS SessionToolRunnerProofs

Quiet(k) == ~k.armed /\ ~k.pending
Sound(k) == k.armed => k.blockers = {}

\* Whoever starts a call in the routing pass finds the clock disarmed, and it
\* stays so until Settle; an approved call has left the held ones.
IdleInv ==
    /\ BlockersAccounted
    /\ Sound(clock)
    /\ Running => ~clock.armed
    /\ phase = "route" => Quiet(clock)
    /\ Running /\ resume = "route" => ~clock.pending
    /\ approved => cur \notin held

-----------------------------------------------------------------------------
(* What the operations of the clock do to its blockers and its countdown.   *)

LEMMA DisarmFacts ==
    ASSUME NEW k \in Clock
    PROVE  Disarm(k).blockers = k.blockers /\ Quiet(Disarm(k))
BY DEF Clock, Disarm, Quiet

LEMMA ArmFacts ==
    ASSUME NEW k \in Clock, Sound(k)
    PROVE  Arm(k).blockers = k.blockers /\ Sound(Arm(k))
BY DEF Clock, Arm, Sound

LEMMA BlockFacts ==
    ASSUME NEW k \in Clock, NEW c \in Call
    PROVE  /\ Block(k, c).blockers = k.blockers \union {c}
           /\ ~Block(k, c).armed /\ Sound(Block(k, c))
           /\ Quiet(k) => Quiet(Block(k, c))
BY DEF Clock, Block, Quiet, Sound

LEMMA UnblockFacts ==
    ASSUME NEW k \in Clock, NEW c \in Call, Sound(k)
    PROVE  /\ Unblock(k, c).blockers = k.blockers \ {c}
           /\ Sound(Unblock(k, c))
           /\ Quiet(k) => Quiet(Unblock(k, c))
<1> DEFINE left == [k EXCEPT !.blockers = @ \ {c}]
<1>1. /\ left \in Clock /\ left.blockers = k.blockers \ {c}
      /\ left.armed = k.armed /\ left.pending = k.pending
  BY DEF Clock
<1>2. Unblock(k, c) = IF left.blockers = {} /\ k.pending THEN Arm(left) ELSE left
  BY DEF Unblock
<1>3. Sound(left)
  BY <1>1 DEF Sound
<1> HIDE DEF left
<1>4. Arm(left).blockers = left.blockers /\ Sound(Arm(left))
  BY <1>1, <1>3, ArmFacts
<1> QED BY <1>1, <1>2, <1>3, <1>4 DEF Quiet

LEMMA NoteFacts ==
    ASSUME NEW k \in Clock, NEW ev, Sound(k)
    PROVE  /\ NoteEvent(k, ev).blockers = k.blockers /\ Sound(NoteEvent(k, ev))
           /\ ev.type = "tool_confirmation" => NoteEvent(k, ev) = k
           /\ ev.type = "tool_use" => Quiet(NoteEvent(k, ev))
<1>1. /\ Disarm(k).blockers = k.blockers /\ Quiet(Disarm(k)) /\ Sound(Disarm(k))
      /\ Arm(k).blockers = k.blockers /\ Sound(Arm(k))
  BY DisarmFacts, ArmFacts DEF Quiet, Sound
<1> QED BY <1>1 DEF NoteEvent, EndsTurn

-----------------------------------------------------------------------------
(* Disposing of a call, by a loop that executes nothing.                    *)

Ready(k) ==
    /\ k \in Clock /\ Sound(k) /\ k.blockers = held
    /\ phase \in {"route", "stream"} /\ approved = FALSE
    /\ phase = "route" => Quiet(k)

LEMMA ExecuteApproved ==
    ASSUME NEW c \in Call, NEW k \in Clock, Sound(k), ~k.armed,
           k.blockers = held \union {c}, held' = held \ {c},
           phase \in {"route", "stream"}, phase = "route" => Quiet(k),
           approved = FALSE, Execute(c, TRUE, k)
    PROVE  IdleInv'
<1>1. CASE c \in answered
  <2>1. clock' = Unblock(k, c) /\ UNCHANGED <<phase, exec>>
    BY <1>1 DEF Execute
  <2>2. /\ clock'.blockers = held' /\ Sound(clock') /\ (Quiet(k) => Quiet(clock'))
    BY <2>1, UnblockFacts
  <2> QED BY <2>1, <2>2 DEF IdleInv, BlockersAccounted, Sound, Running, exec
<1>2. CASE c \notin answered /\ c \notin Owned
  <2>1. clock' = Unblock(Disarm(k), c) /\ UNCHANGED <<phase, exec>>
    BY <1>2 DEF Execute
  <2>2. /\ Disarm(k) \in Clock /\ Disarm(k).blockers = k.blockers
        /\ Quiet(Disarm(k)) /\ Sound(Disarm(k))
    BY ClockTypes, DisarmFacts DEF Quiet, Sound
  <2>3. clock'.blockers = held' /\ Sound(clock') /\ Quiet(clock')
    BY <2>1, <2>2, UnblockFacts
  <2> QED BY <2>1, <2>3 DEF IdleInv, BlockersAccounted, Sound, Running, exec
<1>3. CASE c \notin answered /\ c \in Owned
  <2>1. /\ clock' = k /\ phase' = "tool" /\ resume' = phase
        /\ cur' = c /\ approved' = TRUE
    BY <1>3 DEF Execute
  <2> QED BY <2>1 DEF IdleInv, BlockersAccounted, Sound, Quiet, Running
<1> QED BY <1>1, <1>2, <1>3

LEMMA ApplyIdle ==
    ASSUME NEW c \in Call, NEW v, NEW k, Ready(k), c \notin held => Quiet(k),
           ApplyVerdict(c, v, k)
    PROVE  IdleInv'
<1>1. CASE v = "allow"
  <2> DEFINE kk == IF c \in held THEN k ELSE Block(k, c)
  <2>1. Execute(c, TRUE, kk) /\ held' = held \ {c}
    BY <1>1 DEF ApplyVerdict
  <2>2. /\ kk \in Clock /\ Sound(kk) /\ ~kk.armed
        /\ kk.blockers = held \union {c} /\ (Quiet(k) => Quiet(kk))
    <3>1. CASE c \in held
      BY <3>1 DEF Ready, Sound
    <3>2. CASE c \notin held
      <4>1. Block(k, c) \in Clock
        BY ClockTypes DEF Ready
      <4> QED BY <3>2, <4>1, BlockFacts DEF Ready
    <3> QED BY <3>1, <3>2
  <2> HIDE DEF kk
  <2> QED BY <2>1, <2>2, ExecuteApproved DEF Ready
<1>2. CASE v # "allow"
  <2>1. /\ clock' = IF c \in held THEN Unblock(k, c) ELSE k
        /\ held' = held \ {c} /\ UNCHANGED <<phase, exec>>
    BY <1>2 DEF ApplyVerdict
  <2>2. /\ clock'.blockers = held' /\ Sound(clock') /\ (Quiet(k) => Quiet(clock'))
    BY <2>1, UnblockFacts DEF Ready
  <2> QED BY <2>1, <2>2 DEF IdleInv, BlockersAccounted, Ready, Running, exec
<1> QED BY <1>1, <1>2

LEMMA RouteIdle ==
    ASSUME NEW c \in Call, NEW k, Ready(k), Quiet(k), RouteToolEvent(c, k)
    PROVE  IdleInv'
<1>1. CASE ApplyVerdict(c, VerdictOf(c), k)
  BY <1>1, ApplyIdle
<1>2. CASE Execute(c, FALSE, k) /\ UNCHANGED <<held, answered>>
  <2>1. clock' = k /\ held' = held /\ approved' = FALSE
    BY <1>2 DEF Execute, exec, Ready
  <2>2. phase' \in {"route", "stream", "tool"}
    BY <1>2 DEF Execute, Ready
  <2> QED BY <2>1, <2>2 DEF IdleInv, BlockersAccounted, Ready, Quiet, Sound
<1>3. CASE /\ held' = held \union {c}
           /\ clock' = IF c \in held THEN k ELSE Block(k, c)
           /\ UNCHANGED <<answered, phase, exec, queue>>
  <2>1. clock'.blockers = held' /\ Sound(clock') /\ Quiet(clock')
    BY <1>3, BlockFacts DEF Ready
  <2> QED BY <1>3, <2>1 DEF IdleInv, BlockersAccounted, Ready, Running, exec
<1> QED BY <1>1, <1>2, <1>3 DEF RouteToolEvent

-----------------------------------------------------------------------------
(* A step that touches neither the clock nor what it accounts for.          *)
LEMMA IdleFrame ==
    ASSUME IdleInv, UNCHANGED <<clock, held, cur, approved, resume>>,
           Running' => Running, phase' = "route" => phase = "route"
    PROVE  IdleInv'
BY DEF IdleInv, BlockersAccounted

(* A step of a loop that executes nothing which only works on the clock.    *)
LEMMA ClockOnly ==
    ASSUME IdleInv, UNCHANGED <<held, cur, approved, resume>>,
           clock'.blockers = clock.blockers, Sound(clock'),
           phase' = "route" \/ Running' => Quiet(clock')
    PROVE  IdleInv'
BY DEF IdleInv, BlockersAccounted, Quiet

LEMMA IdleStep == ASSUME TypeOK, IdleInv, [Next]_vars PROVE IdleInv'
<1>1. clock \in Clock /\ Sound(clock)
  BY DEF TypeOK, IdleInv
<1>2. ASSUME phase \in {"route", "stream"}
      PROVE  Ready(clock)
  BY <1>2 DEF TypeOK, IdleInv, BlockersAccounted, Ready
<1>3. CASE Session
  <2>1. UNCHANGED <<clock, held, cur, approved, resume, phase>>
    BY <1>3 DEF Session, EmitToolUse, AnswerElsewhere, EmitConfirmation, EmitIdle,
                Terminate, Emit, calls, exec
  <2> QED BY <2>1, IdleFrame DEF Running
<1>4. CASE Attach \/ AttachFails \/ AttachRefused \/ Disconnect \/ Reconnect
  <2>1. /\ UNCHANGED <<clock, held, cur, approved, resume>>
        /\ phase' \notin {"tool", "send", "route"}
    BY <1>4 DEF Attach, AttachFails, AttachRefused, Disconnect, Reconnect, calls, exec
  <2> QED BY <2>1, IdleFrame DEF Running
<1>5. CASE Unwind
  <2>1. /\ clock' = (IF phase = "send" THEN Release ELSE clock) /\ held' = held
        /\ approved' = FALSE /\ phase' = "stopped"
    BY <1>5 DEF Unwind, calls
  <2>2. clock'.blockers = held /\ Sound(clock')
    <3>1. CASE approved /\ phase = "send"
      <4>1. cur \in Call /\ clock' = Unblock(clock, cur)
        BY <2>1, <3>1 DEF Release, TypeOK
      <4>2. clock.blockers = held \union {cur} /\ cur \notin held
        BY <3>1 DEF IdleInv, BlockersAccounted
      <4> QED BY <1>1, <4>1, <4>2, UnblockFacts
    <3>2. CASE ~(approved /\ phase = "send")
      <4>1. clock' = clock
        BY <2>1, <3>2 DEF Release
      <4>2. approved = FALSE
        BY <1>5, <3>2 DEF Unwind, AbortPoints, TypeOK
      <4> QED BY <1>1, <4>1, <4>2 DEF IdleInv, BlockersAccounted
    <3> QED BY <3>1, <3>2
  <2> QED BY <2>1, <2>2 DEF IdleInv, BlockersAccounted, Running
<1>6. CASE Reconcile
  <2>1. ASSUME NEW skip \in 0..MaxSkip, ListHistory(skip)
        PROVE  IdleInv'
    <3>1. /\ clock' = Disarm(clock) /\ UNCHANGED <<held, cur, approved, resume>>
          /\ phase' = "route"
      BY <2>1 DEF ListHistory, exec
    <3>2. clock'.blockers = clock.blockers /\ Quiet(clock') /\ Sound(clock')
      BY <1>1, <3>1, DisarmFacts DEF Quiet, Sound
    <3> QED BY <3>1, <3>2, ClockOnly
  <2>2. ASSUME NEW c \in Call, Route(c)
        PROVE  IdleInv'
    <3>1. phase = "route" /\ RouteToolEvent(c, clock)
      BY <2>2 DEF Route
    <3>2. Quiet(clock)
      BY <3>1 DEF IdleInv
    <3> QED BY <1>2, <3>1, <3>2, RouteIdle
  <2>3. ASSUME NEW c \in Call, ReleaseHeld(c)
        PROVE  IdleInv'
    <3>1. phase = "route" /\ c \in held /\ ApplyVerdict(c, verdicts[c], clock)
      BY <2>3 DEF ReleaseHeld, Releasable
    <3> QED BY <1>2, <3>1, ApplyIdle
  <2>4. CASE Settle
    <3>1. /\ clock' = Arm(clock) \/ clock' = Disarm(clock)
          /\ UNCHANGED <<held, cur, approved, resume>> /\ phase' = "stream"
      BY <2>4 DEF Settle, exec, calls
    <3>2. clock'.blockers = clock.blockers /\ Sound(clock')
      BY <1>1, <3>1, ArmFacts, DisarmFacts DEF Quiet, Sound
    <3> QED BY <3>1, <3>2, ClockOnly DEF Running
  <2> QED BY <1>6, <2>1, <2>2, <2>3, <2>4 DEF Reconcile
<1>7. ASSUME NEW skip \in 0..MaxSkip, NEW n \in 0..Len(log), ListFails(skip, n)
      PROVE  IdleInv'
  <2>1. UNCHANGED <<clock, held, cur, approved, resume>> /\ phase' = "stream"
    BY <1>7 DEF ListFails, exec
  <2> QED BY <2>1, IdleFrame DEF Running
<1>8. CASE Handle
  <2>1. ASSUME NEW c \in Call, HandleToolUse(c)
        PROVE  IdleInv'
    <3> DEFINE k == NoteEvent(clock, ToolUse(c))
    <3>1. k \in Clock /\ k.blockers = clock.blockers /\ Sound(k) /\ Quiet(k)
      BY <1>1, ClockTypes, NoteFacts DEF ToolUse
    <3>2. phase = "stream"
      BY <2>1 DEF HandleToolUse, Deliver
    <3>3. CASE clock' = k /\ UNCHANGED <<phase, exec, seen, answered, held, dispatched, queue>>
      <4> HIDE DEF k
      <4> QED BY <3>1, <3>3, ClockOnly DEF exec
    <3>4. CASE RouteToolEvent(c, k)
      <4> HIDE DEF k
      <4>1. Ready(k)
        BY <1>2, <3>1, <3>2 DEF Ready
      <4> QED BY <3>1, <3>4, <4>1, RouteIdle
    <3> QED BY <2>1, <3>3, <3>4 DEF HandleToolUse
  <2>2. ASSUME NEW c \in Call, NEW v \in Verdicts, HandleConfirmation(c, v)
        PROVE  IdleInv'
    <3> DEFINE k == NoteEvent(clock, Confirmation(c, v))
    <3>1. k = clock
      BY <1>1, NoteFacts DEF Confirmation
    <3>2. phase = "stream"
      BY <2>2 DEF HandleConfirmation, Deliver
    <3>3. CASE clock' = k /\ UNCHANGED <<phase, exec, answered, held, dispatched, queue>>
      <4> HIDE DEF k
      <4> QED BY <3>1, <3>3, IdleFrame DEF exec, Running
    <3>4. CASE c \in held /\ ApplyVerdict(c, v, k)
      <4> HIDE DEF k
      <4> QED BY <1>2, <3>1, <3>2, <3>4, ApplyIdle
    <3> QED BY <2>2, <3>3, <3>4 DEF HandleConfirmation
  <2>3. ASSUME NEW ev, clock' = NoteEvent(clock, ev),
               UNCHANGED <<held, cur, approved, resume>>, phase' \in {"stream", "stopped"}
        PROVE  IdleInv'
    <3>1. clock'.blockers = clock.blockers /\ Sound(clock')
      BY <1>1, <2>3, NoteFacts
    <3> QED BY <2>3, <3>1, ClockOnly DEF Running
  <2>4. ASSUME NEW c \in Call, NEW by \in Clients, HandleResult(c, by)
        PROVE  IdleInv'
    BY <2>3, <2>4 DEF HandleResult, Deliver, exec
  <2>5. ASSUME NEW stop \in Stops, HandleIdle(stop)
        PROVE  IdleInv'
    BY <2>3, <2>5 DEF HandleIdle, Deliver, exec, calls
  <2>6. CASE HandleTerminated
    BY <2>3, <2>6 DEF HandleTerminated, exec, calls
  <2> QED BY <1>8, <2>1, <2>2, <2>4, <2>5, <2>6 DEF Handle
<1>9. CASE ToolReturns \/ SendResponseLost
  <2>1. UNCHANGED <<clock, held, cur, approved, resume>> /\ Running /\ phase' # "route"
    BY <1>9 DEF ToolReturns, SendResponseLost, exec, calls, Running
  <2> QED BY <2>1, IdleFrame
<1>10. CASE SendSucceeds \/ SendGivesUp
  <2>1. Running /\ Executed /\ held' = held
    BY <1>10 DEF SendSucceeds, SendGivesUp, calls, Running
  <2>2. /\ phase' = resume /\ approved' = FALSE /\ clock' = Release
        /\ resume \in {"route", "stream"}
    BY <2>1 DEF Executed, TypeOK
  <2>3. ~clock.armed /\ (resume = "route" => Quiet(clock))
    BY <2>1 DEF IdleInv, Quiet
  <2>4. clock'.blockers = held /\ Sound(clock') /\ (resume = "route" => Quiet(clock'))
    <3>1. CASE approved
      <4>1. cur \in Call /\ clock' = Unblock(clock, cur)
        BY <2>2, <3>1 DEF Release, TypeOK
      <4>2. clock.blockers = held \union {cur} /\ cur \notin held
        BY <3>1 DEF IdleInv, BlockersAccounted
      <4> QED BY <1>1, <2>3, <4>1, <4>2, UnblockFacts
    <3>2. CASE ~approved
      BY <1>1, <2>2, <2>3, <3>2 DEF Release, IdleInv, BlockersAccounted
    <3> QED BY <3>1, <3>2
  <2> QED BY <2>1, <2>2, <2>4 DEF IdleInv, BlockersAccounted, Running
<1>11. CASE Consumer \/ IdleExpires \/ Abort
  <2>1. CASE TakeResult \/ AskNext \/ QueueAborted \/ LoopSettled \/ Close \/ Abort
    <3>1. UNCHANGED <<clock, held, cur, approved, resume, phase>>
      BY <2>1 DEF TakeResult, AskNext, QueueAborted, LoopSettled, Close, Abort, calls, exec
    <3> QED BY <3>1, IdleFrame DEF Running
  <2>2. CASE Drained \/ Break
    <3>1. clock' = Disarm(clock) /\ UNCHANGED <<held, cur, approved, resume, phase>>
      BY <2>2 DEF Drained, Break, Teardown, calls, exec
    <3>2. clock'.blockers = clock.blockers /\ Quiet(clock') /\ Sound(clock')
      BY <1>1, <3>1, DisarmFacts DEF Quiet, Sound
    <3> QED BY <3>1, <3>2, ClockOnly
  <2>3. CASE IdleExpires
    <3>1. /\ clock.armed /\ clock' = [clock EXCEPT !.armed = FALSE]
          /\ UNCHANGED <<held, cur, approved, resume, phase>>
      BY <2>3 DEF IdleExpires, calls, exec
    <3>2. clock'.blockers = clock.blockers /\ Sound(clock')
      BY <1>1, <3>1 DEF Clock, Sound
    <3>3. ~Running /\ phase # "route"
      BY <3>1 DEF IdleInv, Quiet
    <3> QED BY <3>1, <3>2, <3>3, ClockOnly DEF Running
  <2> QED BY <1>11, <2>1, <2>2, <2>3 DEF Consumer
<1>12. CASE UNCHANGED vars
  BY <1>12, IdleFrame DEF vars, Running
<1> QED BY <1>3, <1>4, <1>5, <1>6, <1>7, <1>8, <1>9, <1>10, <1>11, <1>12 DEF Next, StreamLoop

LEMMA IdleInvariant == Spec => []IdleInv
<1>1. Init => IdleInv
  BY DEF Init, IdleInv, BlockersAccounted, NewClock, Sound, Quiet, Running
<1> QED BY <1>1, IdleStep, TypeCorrect, PTL DEF Spec

(* The idle countdown is never running while a gated call waits for its     *)
(* verdict or a tool executes (IdleClock, #reconcile, #applyVerdict).       *)
THEOREM IdleSparesWork == Spec => []IdleNeverCutsWork
<1>1. IdleInv => IdleNeverCutsWork
  BY DEF IdleInv, IdleNeverCutsWork, BlockersAccounted, Sound
<1> QED BY <1>1, IdleInvariant, PTL

(* The clock's blockers are the held calls and the approved call in flight, *)
(* on every path out of #execute and #applyVerdict.                         *)
THEOREM BlockersAreWork == Spec => []BlockersAccounted
<1>1. IdleInv => BlockersAccounted
  BY DEF IdleInv
<1> QED BY <1>1, IdleInvariant, PTL
=============================================================================
