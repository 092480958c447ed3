-------------------------- MODULE SessionToolRunner --------------------------
(***************************************************************************)
(* SessionToolRunner (src/src/lib/tools/SessionToolRunner.ts): a client     *)
(* attached to a server-side session that executes the tool calls the       *)
(* session emits and posts their results back.                              *)
(*                                                                          *)
(* Three processes interleave:                                              *)
(*   - the session (external): an append-only event log;                    *)
(*   - #streamLoop: attach the event stream, reconcile the history, then    *)
(*     handle live events one by one, executing tools inline;               *)
(*   - the async iterator and the consumer's for-await around it.           *)
(* The idle timer and the external abort signal may fire between any two    *)
(* steps.  A step is the code between two awaits at which another of these  *)
(* may run.                                                                 *)
(***************************************************************************)
EXTENDS IdleClock, Naturals, Sequences

CONSTANTS NoCall,        \* the value of cur when nothing executes
          Permission,    \* evaluated_permission of each call
          Owned,         \* calls whose tool is registered with this runner
          Elsewhere,     \* calls another client of the session may answer
          UserVerdicts,  \* verdicts the user may give
          MayTerminate,  \* the session may terminate
          ListMayFail,   \* a history listing may fail
          MaxIdle,       \* bound: idle events the session emits
          MaxGiveUps,    \* bound: sends that end without success
          MaxSkip,       \* bound: oldest events missing from a listing
          MaxQueue       \* bound: results waiting when a stream drops

Permissions == {"none", "allow", "ask", "deny", "other"}
Verdicts    == {"allow", "deny", "other"}

ASSUME CallAssumption ==
    /\ NoCall \notin Call
    /\ Permission \in [Call -> Permissions]
    /\ Owned \subseteq Call
    /\ Elsewhere \subseteq Call
    /\ UserVerdicts \subseteq Verdicts
    /\ MayTerminate \in BOOLEAN /\ ListMayFail \in BOOLEAN
ASSUME BoundAssumption ==
    /\ MaxIdle \in Nat /\ MaxGiveUps \in Nat
    /\ MaxSkip \in Nat /\ MaxQueue \in Nat

VARIABLES
    log,        \* the session's events (external)
    open,       \* index in log of the next event of the live stream, 0: none
    phase,      \* where #streamLoop is
    resume,     \* the phase to go on with after an execution
    cur,        \* the call being executed
    approved,   \* cur was released by an allow verdict
    seen,       \* #seen
    answered,   \* #answered
    verdicts,   \* #confirmationVerdicts, "none" when there is none
    held,       \* keys of #awaitingConfirmation
    todo,       \* calls the routing pass of #reconcile has still to route
    pass,       \* `unanswered` of the latest #reconcile
    ended,      \* `lastEndedTurn` of the latest #reconcile
    clock,      \* #idleClock
    aborted,    \* #controller.signal.aborted
    queue,      \* number of outcomes in #results
    iter,       \* where the iterator is
    broke,      \* the consumer left the loop early
    giveUps,    \* sends that ended without success
    dispatched  \* history: calls executed, held or surfaced at least once

session  == <<log>>
calls    == <<seen, answered, verdicts, held, dispatched>>
listing  == <<todo, pass, ended>>
exec     == <<cur, approved, resume>>
consumer == <<iter, broke>>
vars == <<log, open, phase, resume, cur, approved, seen, answered, verdicts,
          held, todo, pass, ended, clock, aborted, queue, iter, broke,
          giveUps, dispatched>>

-----------------------------------------------------------------------------
(* Events of the session.                                                   *)

ToolUse(c)         == [type |-> "tool_use", id |-> c, arg |-> "-"]
ToolResult(c, by)  == [type |-> "tool_result", id |-> c, arg |-> by]
Confirmation(c, v) == [type |-> "tool_confirmation", id |-> c, arg |-> v]
Idle(stop)         == [type |-> "status_idle", id |-> NoCall, arg |-> stop]
TerminatedEvent    == [type |-> "status_terminated", id |-> NoCall, arg |-> "-"]

Clients == {"runner", "other_client"}
Stops   == {"end_turn", "requires_action"}

Event == {ToolUse(c) : c \in Call}
         \union {ToolResult(c, by) : c \in Call, by \in Clients}
         \union {Confirmation(c, v) : c \in Call, v \in Verdicts}
         \union {Idle(stop) : stop \in Stops}
         \union {TerminatedEvent}

Logged(ev) == \E i \in DOMAIN log : log[i] = ev

Emitted(c)   == Logged(ToolUse(c))
Confirmed(c) == \E v \in Verdicts : Logged(Confirmation(c, v))
HasResult(c) == \E by \in Clients : Logged(ToolResult(c, by))
Terminated   == Logged(TerminatedEvent)

\* Only these wait for the user (#routeToolEvent: "ask", or anything unknown).
Gated(c) == Permission[c] \in {"ask", "other"}

\* The server resolved c without a result: it was denied.
Refused(c) == \/ Permission[c] = "deny"
              \/ \E v \in Verdicts \ {"allow"} : Logged(Confirmation(c, v))

Init ==
    /\ log = <<>> /\ open = 0 /\ phase = "attach" /\ resume = "stream"
    /\ cur = NoCall /\ approved = FALSE
    /\ seen = {} /\ answered = {} /\ held = {} /\ dispatched = {}
    /\ verdicts = [c \in Call |-> "none"]
    /\ todo = {} /\ pass = {} /\ ended = FALSE
    /\ clock = NewClock /\ aborted = FALSE
    /\ queue = 0 /\ iter = "waiting" /\ broke = FALSE /\ giveUps = 0

-----------------------------------------------------------------------------
(* The session.  It emits a call once, takes at most one verdict for a      *)
(* gated call that is still open, and goes idle for any stop reason at any  *)
(* time.  What it does after the loop has stopped reaches nobody.           *)

Emit(ev) ==
    /\ ~Terminated /\ phase # "stopped"
    /\ log' = Append(log, ev)
    /\ UNCHANGED <<open, phase, exec, calls, listing, clock, aborted, queue,
                   consumer, giveUps>>

EmitToolUse(c) == ~Emitted(c) /\ Emit(ToolUse(c))

EmitConfirmation(c, v) ==
    /\ Emitted(c) /\ Gated(c) /\ ~Confirmed(c) /\ ~HasResult(c)
    /\ Emit(Confirmation(c, v))

AnswerElsewhere(c) ==
    /\ c \in Elsewhere /\ Emitted(c) /\ ~HasResult(c) /\ ~Refused(c)
    /\ Emit(ToolResult(c, "other_client"))

EmitIdle(stop) ==
    /\ Len(SelectSeq(log, LAMBDA ev : ev.type = "status_idle")) < MaxIdle
    /\ Emit(Idle(stop))

Terminate == MayTerminate /\ Emit(TerminatedEvent)

Session ==
    \/ \E c \in Call : EmitToolUse(c) \/ AnswerElsewhere(c)
    \/ \E c \in Call, v \in UserVerdicts : EmitConfirmation(c, v)
    \/ \E stop \in Stops : EmitIdle(stop)
    \/ Terminate
-----------------------------------------------------------------------------
(* Disposing of a call: #surfaceCall, #execute, #applyVerdict and           *)
(* #routeToolEvent.  k is the clock the caller hands over.                  *)

Surface == queue' = queue + 1

Done(c) == dispatched' = dispatched \union {c}

\* #execute(c) up to the tool's own code.  ok: an allow verdict released c.
\* A call known to be answered is moot.  One this runner does not own is
\* surfaced and left to its owner; when approved, its deferred countdown is
\* dropped.  An approved call keeps a blocker until it is disposed of.
Execute(c, ok, k) ==
    /\ Done(c)
    /\ \/ /\ c \in answered
          /\ clock' = IF ok THEN Unblock(k, c) ELSE k
          /\ UNCHANGED <<phase, exec, queue>>
       \/ /\ c \notin answered /\ c \notin Owned
          /\ clock' = IF ok THEN Unblock(Disarm(k), c) ELSE k
          /\ Surface
          /\ UNCHANGED <<phase, exec>>
       \/ /\ c \notin answered /\ c \in Owned
          /\ clock' = k
          /\ phase' = "tool" /\ resume' = phase
          /\ cur' = c /\ approved' = ok
          /\ UNCHANGED queue

\* #applyVerdict: allow executes, anything else is a denial, which resolves
\* the call without running it.
ApplyVerdict(c, v, k) ==
    LET wasHeld == c \in held
    IN  /\ held' = held \ {c}
        /\ \/ /\ v = "allow"
              /\ Execute(c, TRUE, IF wasHeld THEN k ELSE Block(k, c))
              /\ UNCHANGED answered
           \/ /\ v # "allow"
              /\ clock' = IF wasHeld THEN Unblock(k, c) ELSE k
              /\ answered' = answered \union {c}
              /\ Surface /\ Done(c)
              /\ UNCHANGED <<phase, exec>>

\* Mutant: a call that is held already runs when a reconnect routes it again.
VerdictOf_HeldRuns(c) == IF c \in held THEN "allow" ELSE verdicts[c]

\* A server-side deny overrides a recorded verdict.
VerdictOf(c) == IF Permission[c] = "deny" THEN "deny" ELSE verdicts[c]

\* #routeToolEvent: run, hold, or apply the verdict that is already known.
RouteToolEvent(c, k) ==
    \/ /\ VerdictOf(c) # "none"
       /\ ApplyVerdict(c, VerdictOf(c), k)
    \/ /\ VerdictOf(c) = "none" /\ ~Gated(c)
       /\ Execute(c, FALSE, k)
       /\ UNCHANGED <<held, answered>>
    \/ /\ VerdictOf(c) = "none" /\ Gated(c)
       /\ held' = held \union {c}
       /\ clock' = IF c \in held THEN k ELSE Block(k, c)
       /\ Done(c)
       /\ UNCHANGED <<answered, phase, exec, queue>>

\* Mutant: the approved call's blocker stays.
Release_KeepsBlocker == clock

\* The end of an execution, whatever its outcome: the finally blocks of
\* #execute and #applyVerdict.
Release == IF approved THEN Unblock(clock, cur) ELSE clock

-----------------------------------------------------------------------------
(* #streamLoop: attaching, and leaving the loop.                            *)

\* The stream attaches before the history is read; it delivers what the
\* session emits from now on.
Attach ==
    /\ phase = "attach" /\ ~aborted
    /\ phase' = "list" /\ open' = Len(log) + 1
    /\ UNCHANGED <<session, exec, calls, listing, clock, aborted, queue,
                   consumer, giveUps>>

AttachFails ==
    /\ phase = "attach" /\ ~aborted
    /\ phase' = "backoff"
    /\ UNCHANGED <<session, open, exec, calls, listing, clock, aborted, queue,
                   consumer, giveUps>>

\* isFatal4xx: a permanent failure aborts the run.
AttachRefused ==
    /\ phase = "attach" /\ ~aborted
    /\ phase' = "stopped" /\ aborted' = TRUE
    /\ UNCHANGED <<session, open, exec, calls, listing, clock, queue, consumer,
                   giveUps>>

\* The live stream ends or fails; events it had not delivered are lost to it.
Disconnect ==
    /\ phase = "stream" /\ ~aborted /\ queue <= MaxQueue
    /\ phase' = "backoff" /\ open' = 0
    /\ UNCHANGED <<session, exec, calls, listing, clock, aborted, queue,
                   consumer, giveUps>>

Reconnect ==
    /\ phase = "backoff" /\ ~aborted
    /\ phase' = "attach"
    /\ UNCHANGED <<session, open, exec, calls, listing, clock, aborted, queue,
                   consumer, giveUps>>

\* Mutant: the backoff sleep does not see the signal.
AbortPoints_DeafSleep == {"attach", "list", "stream", "send"}

\* The awaits that are given the signal.
AbortPoints == {"attach", "list", "stream", "backoff", "send"}

\* Every await the signal reaches throws once it is aborted; the exception
\* leaves #streamLoop through the finally blocks.
Unwind ==
    /\ aborted /\ phase \in AbortPoints
    /\ phase' = "stopped"
    /\ clock' = IF phase = "send" THEN Release ELSE clock
    /\ cur' = NoCall /\ approved' = FALSE /\ resume' = "stream" /\ open' = 0
    /\ todo' = {} /\ pass' = {} /\ ended' = FALSE
    /\ UNCHANGED <<session, calls, aborted, queue, consumer, giveUps>>

-----------------------------------------------------------------------------
(* #reconcile.  A listing returns the log but for its skip oldest events.   *)

Ids(S, type) == {log[i].id : i \in {j \in S : log[j].type = type}}

\* #ingestHistory records the verdict of a call not known to be answered.
IngestedVerdicts(S) ==
    [c \in Call |->
        LET given == {v \in Verdicts : \E i \in S :
                        /\ log[i] = Confirmation(c, v)
                        /\ \A j \in S : j < i => ~( /\ log[j].id = c
                                                  /\ log[j].type = "tool_result")}
        IN  IF c \in answered \/ given = {} THEN verdicts[c]
            ELSE CHOOSE v \in given : TRUE]

LastEndsTurn(S) ==
    \E i \in S : /\ EndsTurn(log[i])
                 /\ \A j \in S : j > i => log[j].type = "tool_confirmation"

\* Mutant: a result event in the history is not recognised as one.
AnsweredIn_Missed(S) == answered

\* `answered` once the listing has been read.
AnsweredIn(S) == answered \union Ids(S, "tool_result")

\* Mutant: a call seen before is not pending.
Unanswered_Unseen(S) ==
    Ids(S, "tool_use") \ (seen \union AnsweredIn(S))

\* The calls listed whose result is not known, even by a later listed event.
Unanswered(S) == Ids(S, "tool_use") \ AnsweredIn(S)

\* Mutant: the calls of a failed listing stay seen.
SeenAfterFailure_Kept(S) == seen \union Ids(S, "tool_use")

\* `seen` after a failed listing: what the listing made pending is taken out.
SeenAfterFailure(S) == (seen \union Ids(S, "tool_use"))
                         \ (Ids(S, "tool_use") \ answered)

ListHistory(skip) ==
    LET S == {i \in DOMAIN log : i > skip}
    IN  /\ phase = "list" /\ ~aborted
        /\ seen' = seen \union Ids(S, "tool_use")
        /\ answered' = AnsweredIn(S)
        /\ verdicts' = IngestedVerdicts(S)
        /\ pass' = Unanswered(S) /\ todo' = Unanswered(S)
        /\ ended' = LastEndsTurn(S)
        /\ clock' = Disarm(clock)
        /\ phase' = "route"
        /\ UNCHANGED <<session, open, exec, held, dispatched, aborted, queue,
                       consumer, giveUps>>

\* The listing fails after n events: the calls it would have routed are no
\* longer seen, the rest of what it read stays, the timer is left alone.
ListFails(skip, n) ==
    LET S == {i \in DOMAIN log : i > skip /\ i <= n}
    IN  /\ ListMayFail /\ phase = "list" /\ ~aborted
        /\ seen' = SeenAfterFailure(S)
        /\ answered' = AnsweredIn(S)
        /\ verdicts' = IngestedVerdicts(S)
        /\ phase' = "stream"
        /\ UNCHANGED <<session, open, exec, held, dispatched, listing, clock,
                       aborted, queue, consumer, giveUps>>

Precedes(c, d) == \E i, j \in DOMAIN log :
                    i < j /\ log[i] = ToolUse(c) /\ log[j] = ToolUse(d)

\* The routing pass, in the order of the history.
Route(c) ==
    /\ phase = "route" /\ c \in todo
    /\ \A d \in todo \ {c} : Precedes(c, d)
    /\ todo' = todo \ {c}
    /\ RouteToolEvent(c, clock)
    /\ UNCHANGED <<session, open, seen, verdicts, pass, ended, aborted,
                   consumer, giveUps>>

Releasable == {c \in held : verdicts[c] # "none"}

\* The verdict of a held call whose tool_use the listing did not return.
ReleaseHeld(c) ==
    /\ phase = "route" /\ todo = {} /\ c \in Releasable
    /\ ApplyVerdict(c, verdicts[c], clock)
    /\ UNCHANGED <<session, open, seen, verdicts, listing, aborted, consumer,
                   giveUps>>

Settle ==
    LET outstanding == pass \ (answered \union held)
    IN  /\ phase = "route" /\ todo = {} /\ Releasable = {}
        /\ clock' = IF ended /\ outstanding = {} THEN Arm(clock)
                                                ELSE Disarm(clock)
        /\ phase' = "stream"
        /\ pass' = {} /\ ended' = FALSE /\ UNCHANGED todo
        /\ UNCHANGED <<session, open, exec, calls, aborted, queue, consumer,
                       giveUps>>

-----------------------------------------------------------------------------
(* #handleStreamEvent.  Events the stream has already buffered are still    *)
(* handled after an abort; the next await that sees the signal unwinds.     *)

Deliver(ev) ==
    /\ phase = "stream" /\ open \in DOMAIN log /\ log[open] = ev
    /\ open' = open + 1

HandleToolUse(c) ==
    LET k == NoteEvent(clock, ToolUse(c))
    IN  /\ Deliver(ToolUse(c))
        /\ \/ /\ c \in seen
              /\ clock' = k
              /\ UNCHANGED <<phase, exec, seen, answered, held, dispatched, queue>>
           \/ /\ c \notin seen
              /\ seen' = seen \union {c}
              /\ RouteToolEvent(c, k)
        /\ UNCHANGED <<session, verdicts, listing, aborted, consumer, giveUps>>

\* #noteConfirmation: record the verdict, release the call if it is held.
HandleConfirmation(c, v) ==
    LET k == NoteEvent(clock, Confirmation(c, v))
    IN  /\ Deliver(Confirmation(c, v))
        /\ verdicts' = [verdicts EXCEPT ![c] = v]
        /\ \/ c \in held /\ ApplyVerdict(c, v, k)
           \/ /\ c \notin held
              /\ clock' = k
              /\ UNCHANGED <<phase, exec, answered, held, dispatched, queue>>
        /\ UNCHANGED <<session, seen, listing, aborted, consumer, giveUps>>

HandleResult(c, by) ==
    /\ Deliver(ToolResult(c, by))
    /\ answered' = answered \union {c}
    /\ clock' = NoteEvent(clock, ToolResult(c, by))
    /\ UNCHANGED <<session, phase, exec, seen, verdicts, held, dispatched,
                   listing, aborted, queue, consumer, giveUps>>

HandleIdle(stop) ==
    /\ Deliver(Idle(stop))
    /\ clock' = NoteEvent(clock, Idle(stop))
    /\ UNCHANGED <<session, phase, exec, calls, listing, aborted, queue,
                   consumer, giveUps>>

HandleTerminated ==
    /\ phase = "stream" /\ open \in DOMAIN log /\ log[open] = TerminatedEvent
    /\ open' = 0
    /\ clock' = NoteEvent(clock, TerminatedEvent)
    /\ aborted' = TRUE /\ phase' = "stopped"
    /\ UNCHANGED <<session, exec, calls, listing, queue, consumer, giveUps>>

-----------------------------------------------------------------------------
(* #execute after the tool was started, and #sendResult.                    *)

\* The tool's own code returns or throws; either way there is a result.
ToolReturns ==
    /\ phase = "tool"
    /\ phase' = "send"
    /\ UNCHANGED <<session, open, exec, calls, listing, clock, aborted, queue,
                   consumer, giveUps>>

\* The session keeps the first result of a call.
Land == log' = IF HasResult(cur) THEN log
               ELSE Append(log, ToolResult(cur, "runner"))

Executed ==
    /\ phase' = resume /\ resume' = "stream"
    /\ cur' = NoCall /\ approved' = FALSE
    /\ clock' = Release
    /\ Surface

SendSucceeds ==
    /\ phase = "send" /\ ~aborted /\ ~Terminated
    /\ Land
    /\ answered' = answered \union {cur}
    /\ Executed
    /\ UNCHANGED <<open, seen, verdicts, held, dispatched, listing, aborted,
                   consumer, giveUps>>

\* The result lands but the response is lost: the send is retried.
SendResponseLost ==
    /\ phase = "send" /\ ~aborted /\ ~Terminated /\ ~HasResult(cur)
    /\ Land
    /\ UNCHANGED <<open, phase, exec, calls, listing, clock, aborted, queue,
                   consumer, giveUps>>

\* A permanent 4xx, or the retry window has passed: posted = false, and the
\* call stays unanswered for a later #reconcile.
SendGivesUp ==
    /\ phase = "send" /\ ~aborted
    /\ \/ Terminated /\ UNCHANGED giveUps
       \/ ~Terminated /\ giveUps < MaxGiveUps /\ giveUps' = giveUps + 1
    /\ Executed
    /\ UNCHANGED <<session, open, calls, listing, aborted, consumer>>

-----------------------------------------------------------------------------
(* What aborts a run from outside the loop.                                 *)

IdleExpires ==
    /\ clock.armed
    /\ clock' = [clock EXCEPT !.armed = FALSE]
    /\ aborted' = TRUE
    /\ UNCHANGED <<session, open, phase, exec, calls, listing, queue, consumer,
                   giveUps>>

\* abort(), or the caller's own signal.
Abort ==
    /\ ~aborted
    /\ aborted' = TRUE
    /\ UNCHANGED <<session, open, phase, exec, calls, listing, clock, queue,
                   consumer, giveUps>>

-----------------------------------------------------------------------------
(* The iterator and its consumer.                                           *)

\* Mutant: tryShift on an empty queue counts as a value.
TakeResult_Empty ==
    /\ iter \in {"waiting", "draining"}
    /\ queue' = queue - 1
    /\ iter' = IF iter = "waiting" THEN "yielded" ELSE "yielded_last"
    /\ UNCHANGED <<session, open, phase, exec, calls, listing, clock, aborted,
                   broke, giveUps>>

\* Phase 1: next() hands over what is queued before it looks at the signal.
TakeResult ==
    /\ iter \in {"waiting", "draining"} /\ queue > 0
    /\ queue' = queue - 1
    /\ iter' = IF iter = "waiting" THEN "yielded" ELSE "yielded_last"
    /\ UNCHANGED <<session, open, phase, exec, calls, listing, clock, aborted,
                   broke, giveUps>>

AskNext ==
    /\ iter \in {"yielded", "yielded_last"}
    /\ iter' = IF iter = "yielded" THEN "waiting" ELSE "draining"
    /\ UNCHANGED <<session, open, phase, exec, calls, listing, clock, aborted,
                   queue, broke, giveUps>>

QueueAborted ==
    /\ iter = "waiting" /\ queue = 0 /\ aborted
    /\ iter' = "settling"
    /\ UNCHANGED <<session, open, phase, exec, calls, listing, clock, aborted,
                   queue, broke, giveUps>>

\* Mutant: the queue is drained without waiting for the stream loop.
LoopSettled_Early ==
    /\ iter = "settling"
    /\ iter' = "draining"
    /\ UNCHANGED <<session, open, phase, exec, calls, listing, clock, aborted,
                   queue, broke, giveUps>>

\* Phase 2: the loop settles first, then what is still queued is yielded.
LoopSettled ==
    /\ iter = "settling" /\ phase = "stopped"
    /\ iter' = "draining"
    /\ UNCHANGED <<session, open, phase, exec, calls, listing, clock, aborted,
                   queue, broke, giveUps>>

\* finally: abort and disarm.
Teardown ==
    /\ iter' = "closing"
    /\ aborted' = TRUE /\ clock' = Disarm(clock)
    /\ UNCHANGED <<session, open, phase, exec, calls, listing, queue, giveUps>>

Drained == iter = "draining" /\ queue = 0 /\ Teardown /\ UNCHANGED broke

Break == iter \in {"yielded", "yielded_last"} /\ Teardown /\ broke' = TRUE

\* finally, after the loop has settled: nothing is in flight, so #drain
\* returns at once; the queue and the tools are closed.
Close ==
    /\ iter = "closing" /\ phase = "stopped"
    /\ iter' = "done"
    /\ UNCHANGED <<session, open, phase, exec, calls, listing, clock, aborted,
                   queue, broke, giveUps>>

-----------------------------------------------------------------------------
Handle ==
    \/ \E c \in Call : HandleToolUse(c)
    \/ \E c \in Call, v \in Verdicts : HandleConfirmation(c, v)
    \/ \E c \in Call, by \in Clients : HandleResult(c, by)
    \/ \E stop \in Stops : HandleIdle(stop)
    \/ HandleTerminated

Reconcile ==
    \/ \E skip \in 0..MaxSkip : ListHistory(skip)
    \/ \E c \in Call : Route(c) \/ ReleaseHeld(c)
    \/ Settle

StreamLoop ==
    \/ Attach \/ AttachFails \/ AttachRefused \/ Disconnect \/ Reconnect \/ Unwind
    \/ Reconcile
    \/ \E skip \in 0..MaxSkip, n \in 0..Len(log) : ListFails(skip, n)
    \/ Handle
    \/ ToolReturns \/ SendSucceeds \/ SendResponseLost \/ SendGivesUp

Consumer ==
    TakeResult \/ AskNext \/ QueueAborted \/ LoopSettled \/ Drained \/ Break \/ Close

Next == Session \/ StreamLoop \/ IdleExpires \/ Abort \/ Consumer

Spec == Init /\ [][Next]_vars

\* The event loop, the network and the consumer's loop go on.  Nothing forces
\* the session, the caller or the user to do anything, nor a stream to end.
SendSettles == SendSucceeds \/ SendGivesUp

LoopFairness ==
    /\ WF_vars(Attach) /\ WF_vars(Reconnect) /\ WF_vars(Unwind)
    /\ WF_vars(Reconcile) /\ WF_vars(Handle) /\ WF_vars(SendSettles)
    /\ WF_vars(IdleExpires)
    /\ WF_vars(TakeResult \/ AskNext) /\ WF_vars(QueueAborted)
    /\ WF_vars(LoopSettled) /\ WF_vars(Drained) /\ WF_vars(Close)

\* A tool's own code returns: it observes its abort signal or ends by itself.
FairSpec == Spec /\ LoopFairness /\ WF_vars(ToolReturns)

\* A tool's own code may never return.
HungToolSpec == Spec /\ LoopFairness

-----------------------------------------------------------------------------
TypeOK ==
    /\ log \in Seq(Event) /\ open \in Nat
    /\ phase \in {"attach", "list", "route", "stream", "tool", "send",
                  "backoff", "stopped"}
    /\ resume \in {"route", "stream"}
    /\ cur \in Call \union {NoCall} /\ approved \in BOOLEAN
    /\ cur # NoCall <=> phase \in {"tool", "send"}
    /\ approved => cur # NoCall
    /\ seen \subseteq Call /\ answered \subseteq Call /\ held \subseteq Call
    /\ dispatched \subseteq Call
    /\ verdicts \in [Call -> Verdicts \union {"none"}]
    /\ todo \subseteq Call /\ pass \subseteq Call /\ ended \in BOOLEAN
    /\ clock \in Clock /\ aborted \in BOOLEAN
    /\ queue \in Nat
    /\ iter \in {"waiting", "yielded", "settling", "draining", "yielded_last",
                 "closing", "done"}
    /\ broke \in BOOLEAN /\ giveUps \in Nat

Running == phase \in {"tool", "send"}

\* A gated call runs, and a held call is released to run, only after the user
\* allowed it, and a call the server denied never runs, whichever of history
\* and live stream, in whatever order, brought the call and its verdict.
GateRespected ==
    Running => /\ Permission[cur] # "deny"
               /\ Gated(cur) => Logged(Confirmation(cur, "allow"))

\* The idle countdown never runs while a gated call waits for its verdict or a
\* tool executes, so it cannot stop the runner over live work.
IdleNeverCutsWork == clock.armed => held = {} /\ ~Running

\* The blockers of the clock are the held calls and the approved call that is
\* executing, no more (the countdown would never start) and no less.
BlockersAccounted ==
    clock.blockers = held \union (IF approved THEN {cur} ELSE {})

\* While the loop runs, a call is marked seen only if it has been disposed of,
\* is about to be, or is known to be answered: a failed listing must not make
\* the live stream skip a call that nothing has dispatched.
SeenMeansDispatched ==
    phase # "stopped" => seen \subseteq dispatched \union todo \union answered

\* Whatever a run surfaced has reached the consumer when its loop ends, unless
\* the consumer left it: results pushed between the abort and the end of the
\* stream loop are drained.
SurfacedIsYielded == iter = "done" /\ ~broke => queue = 0

\* The runner implements the promise of GatedDispatch.
Promise == INSTANCE GatedDispatch WITH
    NeedsApproval <- {c \in Call : Gated(c)},
    Forbidden <- {c \in Call : Permission[c] = "deny"},
    status <- [c \in Call |->
        IF Running /\ cur = c THEN "running"
        ELSE IF Logged(ToolResult(c, "runner")) THEN "answered"
        ELSE IF c \in answered /\ ~HasResult(c) THEN "denied"
        ELSE IF Emitted(c) THEN "open" ELSE "absent"],
    verdict <- [c \in Call |->
        IF ~Confirmed(c) THEN "none"
        ELSE IF Logged(Confirmation(c, "allow")) THEN "allow" ELSE "refuse"]

KeepsPromise == Promise!Spec

\* An aborted run ends: whatever the loop was doing, the for-await of a
\* consumer that keeps asking returns.
AbortedRunEnds == aborted ~> iter = "done"

\* "Wait (bounded) for in-flight tool executions to finish during teardown":
\* once the finally block has started, the iterator ends.  (SessionToolRunner.ts:841.)  It
\* does under FairSpec, and does not under HungToolSpec: see the README.
TeardownIsBounded == iter = "closing" ~> iter = "done"

MayRun(c) == c \in Owned /\ Permission[c] # "deny"
             /\ (Gated(c) => Logged(Confirmation(c, "allow")))

\* No call is dropped: if listings keep succeeding, a call of this runner that
\* may run is answered in the end, whatever post failed and whatever stream
\* broke, unless the run or the session ends.
EveryCallIsAnswered ==
    []<>(phase = "route") =>
        \A c \in Call : (Emitted(c) /\ MayRun(c))
                            ~> (HasResult(c) \/ aborted \/ Terminated)

\* The last event but for verdicts ended the turn, and no call is open.
Quiescent ==
    /\ LastEndsTurn(DOMAIN log)
    /\ \A c \in Call : Emitted(c) => HasResult(c) \/ Refused(c)

\* A runner that has read the history stops by itself once its session has
\* ended its turn, if its stream stays connected: no deferred countdown is
\* forgotten, and no blocker is left behind by a call that was held, approved,
\* executed or denied meanwhile.
QuietRunStops ==
    [](/\ IdleEnabled /\ phase = "route"
       /\ [](phase \in {"route", "stream", "tool", "send"})
       /\ <>[]Quiescent
       => <>aborted)
=============================================================================
