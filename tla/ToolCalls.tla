------------------------------- MODULE ToolCalls -------------------------------
(***************************************************************************)
(* The tool calls of one streamed reply, with `runToolsEagerly`:            *)
(* BetaToolRunnerStream (src/src/lib/internal/BetaToolRunnerStream.ts)      *)
(* hands each call over once the model has moved on from it and everybody   *)
(* who reads the stream has seen that; streamThatStartsTools of             *)
(* src/src/lib/tools/BetaToolRunner.ts starts it; and generateToolResponse  *)
(* of the same file runs, at the end of the loop body or when the caller    *)
(* asks, whatever has not started.                                          *)
(*                                                                          *)
(* A call is its place in the reply.  It is to a function tool ("function", *)
(* a tool of its own), to the one toolset of the run ("member"), or named   *)
(* after that toolset without being one of its calls ("malformed").  The    *)
(* reply may be cut off, and a fallback model may take it over after any    *)
(* call: reply.fallback is the call before the fallback block, and more     *)
(* than the calls there are when there is no such block.                    *)
(***************************************************************************)
EXTENDS Naturals, FiniteSets

CONSTANTS N,        \* calls in the reply
          Replies,  \* [kind, stop, fallback]: the replies the model may give
          Reader,   \* the `for await` loops the caller may run over the stream
          MaxRemovals   \* bound on the tools the caller removes meanwhile

Call == 1..N

ASSUME CallAssumption == N \in Nat \ {0}
ASSUME BoundAssumption == MaxRemovals \in Nat
ASSUME ReplyAssumption ==
    Replies \subseteq [kind : [Call -> {"function", "member", "malformed"}],
                       stop : {"tool_use", "cut"},
                       fallback : Nat]

VARIABLES
    reply,      \* what the model sends (external)
    emitted,    \* stream events emitted
    closed,     \* the last call to close, 0 if the model has moved on
    ready,      \* the event that showed the model had moved on from a call, or 0
    fallback,   \* a fallback model has the reply
    reader,     \* events each loop is done with, or NotReading
    broken,     \* the stream has failed or been aborted
    message,    \* the promise of the whole reply: "pending", "good" or "bad"
    calls,      \* #calls: "none", "held" or "started"
    toolset,    \* toolsets: "idle" (no entry), "running", "waiting"
    early,      \* calls the stream has started
    run,        \* what became of each call
    times,      \* history: how often the tool of each call was run
    present,    \* calls whose tool the runner has not removed
    pc,         \* where the loop is with this reply
    mutated,    \* the caller took over the history
    pushed,     \* ... and pushed this reply
    cached      \* #toolResponse is set

streamVars == <<emitted, closed, ready, fallback>>
endVars    == <<broken, message>>
callVars   == <<calls, toolset, early, run, times>>
loopVars   == <<pc, mutated, pushed, cached>>
vars == <<reply, emitted, closed, ready, fallback, reader, broken, message, calls, toolset,
          early, run, times, present, pc, mutated, pushed, cached>>

NotReading == 2 * N + 4     \* more than a reply has events

Settled == {"ok", "error", "thrown", "missing", "refused"}
Failed  == {"error", "thrown", "refused"}

Family == {c \in Call : reply.kind[c] # "function"}

\* The numbers of the reply's events.
StartAt(c)  == 2 * c - (IF reply.fallback < c THEN 0 ELSE 1)
StopAt(c)   == StartAt(c) + 1
FallbackAt  == 2 * reply.fallback + 1
\* Mutant: every reply is numbered as if it had a fallback block.
StopReason_Padded == 2 * N + 3
StopReason  == 2 * N + (IF reply.fallback \in 0..N THEN 2 ELSE 1)
LastEvent   == StopReason + 1

Init ==
    /\ reply \in Replies
    /\ emitted = 0 /\ closed = 0 /\ ready = [c \in Call |-> 0] /\ fallback = FALSE
    /\ reader = [r \in Reader |-> NotReading] /\ broken = FALSE /\ message = "pending"
    /\ calls = [c \in Call |-> "none"] /\ toolset = "idle" /\ early = {}
    /\ run = [c \in Call |-> "no"] /\ times = [c \in Call |-> 0]
    /\ present = Call
    /\ pc = "body" /\ mutated = FALSE /\ pushed = FALSE /\ cached = FALSE

\* Looking a tool up: it runs, or there is no such tool.
LookUp(c) == IF c \in present THEN "running" ELSE "missing"

\* Calls c \in S are run now.
Runs(S) ==
    /\ run' = [c \in Call |-> IF c \in S THEN LookUp(c) ELSE run[c]]
    /\ times' = [c \in Call |-> IF c \in S /\ c \in present THEN times[c] + 1 ELSE times[c]]

-----------------------------------------------------------------------------
(* The stream: #track, #release and the callback that starts tools.         *)

\* Mutant: the loops that read the stream are not asked.
HandedOver_Unread(rdy, rdr) ==
    IF broken THEN {} ELSE {c \in Call : rdy[c] # 0}

\* The calls that are ready and that every loop is done with.
HandedOver(rdy, rdr) ==
    IF broken THEN {}
    ELSE {c \in Call : rdy[c] # 0 /\ \A r \in Reader : rdy[c] <= rdr[r]}

\* The callback for each call of S, in their order.  Of the toolset's calls only the
\* first may start, and only while the toolset is idle.
StartTools(S, cls) ==
    LET fam   == S \intersect Family
        first == {c \in fam : \A d \in fam : c <= d}
        new   == {c \in (S \ Family) \union (IF toolset = "idle" THEN first ELSE {}) :
                     cls[c] = "none" /\ reply.kind[c] # "malformed"}
    IN  /\ toolset' = IF fam = {} THEN toolset
                      ELSE IF fam \subseteq new THEN "running" ELSE "waiting"
        /\ calls' = [c \in Call |-> IF c \in new THEN "started" ELSE cls[c]]
        /\ early' = early \union new
        /\ Runs(new)

Release(rdy, rdr, cls) ==
    LET S == HandedOver(rdy, rdr)
    IN  /\ ready' = [c \in Call |-> IF c \in S THEN 0 ELSE rdy[c]]
        /\ StartTools(S, cls)

Hold(D) == [c \in Call |-> IF c \in D /\ calls[c] = "none" THEN "held" ELSE calls[c]]

\* The calls whose block has begun to stream by event n.
Shown(n) == {c \in Call : StartAt(c) <= n}

\* What has been read of the reply still arrives after this, but the reply is lost.
Break ==
    /\ broken' = TRUE
    /\ message' = IF message = "pending" THEN "bad" ELSE message

\* One event: the caller's listeners may hold calls, then #track, then #release.
Emit ==
    /\ pc = "body" /\ emitted < LastEvent
    /\ LET n    == emitted + 1
           over == fallback \/ n = FallbackAt
           next == \/ \E c \in Call : n = StartAt(c)
                   \/ n = StopReason /\ reply.stop = "tool_use"
           stop == {c \in Call : n = StopAt(c)}
           rdy  == IF ~over /\ closed # 0 /\ next THEN [ready EXCEPT ![closed] = n] ELSE ready
       IN  /\ emitted' = n
           /\ fallback' = over
           /\ closed' = IF fallback THEN closed
                        ELSE IF n = FallbackAt \/ next THEN 0
                        ELSE IF stop # {} THEN CHOOSE c \in stop : TRUE ELSE closed
           /\ message' = IF n = LastEvent THEN IF broken THEN "bad" ELSE "good" ELSE message
           /\ \E D \in SUBSET Shown(n) : Release(rdy, reader, Hold(D))
    /\ UNCHANGED <<reply, reader, broken, present, loopVars>>

StreamFails ==
    /\ pc = "body" /\ ~broken /\ message = "pending"
    /\ Break
    /\ UNCHANGED <<reply, streamVars, reader, callVars, present, loopVars>>

\* Mutant: an entry that says "waiting" goes too.
EntryAfter_Drops(o) == IF o = "ok" THEN "idle" ELSE "waiting"

\* The toolset's entry once a call the stream started has ended.
EntryAfter(o) == IF o = "ok" /\ toolset # "waiting" THEN "idle" ELSE "waiting"

\* A call's run ends.
Settle(c) ==
    /\ run[c] = "running"
    /\ \E o \in {"ok", "error"} \union (IF c \in Family THEN {"thrown"} ELSE {}) :
          /\ run' = [run EXCEPT ![c] = o]
          /\ toolset' = IF c \in early \intersect Family THEN EntryAfter(o) ELSE toolset
    /\ UNCHANGED <<reply, streamVars, reader, endVars, calls, early, times, present, loopVars>>

-----------------------------------------------------------------------------
(* The caller, in its loop body.                                            *)

StartReading(r) ==
    /\ pc = "body" /\ reader[r] = NotReading /\ emitted < LastEvent
    /\ reader' = [reader EXCEPT ![r] = emitted]
    /\ UNCHANGED <<reply, streamVars, endVars, callVars, present, loopVars>>

\* Asking for the next event says that the loop is done with the one it holds.
Reads(r) ==
    /\ reader[r] < emitted
    /\ LET rdr == [reader EXCEPT ![r] = IF @ + 1 = LastEvent THEN NotReading ELSE @ + 1]
       IN  reader' = rdr /\ Release(ready, rdr, calls)
    /\ UNCHANGED <<reply, emitted, closed, fallback, endVars, present, loopVars>>

\* Leaving a loop aborts the stream.
StopReading(r) ==
    /\ reader[r] # NotReading
    /\ reader' = [reader EXCEPT ![r] = NotReading]
    /\ Break
    /\ UNCHANGED <<reply, streamVars, callVars, present, loopVars>>

DeferToolCall(c) ==
    /\ pc = "body" /\ c \in Shown(emitted) /\ calls[c] = "none"
    /\ calls' = Hold({c})
    /\ UNCHANGED <<reply, streamVars, reader, endVars, toolset, early, run, times, present,
                   loopVars>>

RemoveTools(c) ==
    /\ pc \in {"body", "tools"} /\ c \in present \ Family
    /\ Cardinality(Call \ present) < MaxRemovals
    /\ present' = present \ {c}
    /\ UNCHANGED <<reply, streamVars, reader, endVars, callVars, loopVars>>

\* setMessagesParams() drops the cached answer; the caller may push the reply with it.
SetMessagesParams ==
    /\ pc = "body" /\ ~mutated
    /\ mutated' = TRUE /\ cached' = FALSE
    /\ pushed' \in {FALSE, message = "good"}
    /\ UNCHANGED <<reply, streamVars, reader, endVars, callVars, present, pc>>

-----------------------------------------------------------------------------
(* generateToolResponse and the end of the loop body.                       *)

\* Mutant: what has started is not looked at.
ToRun_Again == {c \in Call : reply.kind[c] # "malformed"}

\* The calls it has to run.
ToRun == {c \in Call : calls[c] # "started" /\ reply.kind[c] # "malformed"}

\* What it does to the calls of the reply, unless the answer is cached.  A toolset's
\* call waits for the toolset's calls before it.
Generate ==
    IF cached THEN UNCHANGED <<callVars, cached>>
    ELSE /\ calls' = [c \in Call |-> IF c \in ToRun THEN "started" ELSE calls[c]]
         /\ run' = [c \in Call |->
                      CASE c \in ToRun \ Family         -> LookUp(c)
                        [] c \in ToRun \cap Family      -> "queued"
                        [] reply.kind[c] = "malformed"  -> "error"
                        [] OTHER                        -> run[c]]
         /\ times' = [c \in Call |->
                        IF c \in (ToRun \ Family) \cap present THEN times[c] + 1 ELSE times[c]]
         /\ cached' = TRUE
         /\ UNCHANGED <<toolset, early>>

\* The caller asks for the answer; it waits for the reply first.
GenerateToolResponse ==
    /\ pc = "body" /\ message = "good" /\ ~cached
    /\ Generate
    /\ UNCHANGED <<reply, streamVars, reader, endVars, present, pc, mutated, pushed>>

\* Mutant: a failed call is no end.
Ended_Well(d) == run[d] = "ok"

Ended(d) == run[d] \in Settled

\* The turn of a queued call of the toolset.
Dequeue(c) ==
    /\ run[c] = "queued"
    /\ LET before == {d \in Family : d < c}
       IN  /\ \A d \in before : Ended(d)
           /\ IF \E d \in before : run[d] \in Failed
              THEN run' = [run EXCEPT ![c] = "refused"] /\ UNCHANGED times
              ELSE Runs({c})
    /\ UNCHANGED <<reply, streamVars, reader, endVars, calls, toolset, early, present, loopVars>>

\* Mutant: the `finally` of an iteration forgets the stream.
AbortStream_Not == UNCHANGED endVars

\* The `finally` of an iteration.
AbortStream == Break

\* The loop body ends.  Unless the caller took over, the loop waits for the reply; if it
\* did, the calls of the reply matter when it pushed the reply or asked for the answer
\* after its last change of the params.
BodyEnds ==
    /\ pc = "body"
    /\ \/ /\ IF mutated THEN pushed \/ cached ELSE message = "good" /\ reply.stop = "tool_use"
          /\ pc' = "tools" /\ Generate /\ UNCHANGED endVars
       \/ /\ IF mutated THEN ~pushed /\ ~cached ELSE message = "good" /\ reply.stop = "cut"
          /\ pc' = "settling" /\ AbortStream /\ UNCHANGED <<callVars, cached>>
       \/ /\ ~mutated /\ message = "bad"
          /\ pc' = "failed" /\ AbortStream /\ UNCHANGED <<callVars, cached>>
    /\ UNCHANGED <<reply, streamVars, reader, present, mutated, pushed>>

Leave ==
    /\ pc = "body"
    /\ pc' = "left" /\ AbortStream
    /\ UNCHANGED <<reply, streamVars, reader, callVars, present, mutated, pushed, cached>>

\* Promise.all: it has every result, or the first rejection.
Answered ==
    /\ pc = "tools"
    /\ \/ (\E c \in Call : run[c] = "thrown") /\ pc' = "failed"
       \/ (\A c \in Call : run[c] \in Settled \ {"thrown"}) /\ pc' = "settling"
    /\ AbortStream
    /\ UNCHANGED <<reply, streamVars, reader, callVars, present, mutated, pushed, cached>>

\* startedCallsSettled, before the next request and before the run ends.
StartedCallsSettled ==
    /\ pc = "settling"
    /\ \A c \in Call : calls[c] = "started" => Ended(c)
    /\ pc' = "over"
    /\ UNCHANGED <<reply, streamVars, reader, endVars, callVars, present, mutated, pushed, cached>>

Tools  == \E c \in Call : Settle(c) \/ Dequeue(c)
Loop   == Answered \/ StartedCallsSettled
Caller == \/ \E r \in Reader : StartReading(r) \/ Reads(r) \/ StopReading(r)
          \/ \E c \in Call : DeferToolCall(c) \/ RemoveTools(c)
          \/ SetMessagesParams \/ GenerateToolResponse \/ BodyEnds \/ Leave

Next == Emit \/ StreamFails \/ Tools \/ Loop \/ Caller

Spec == Init /\ [][Next]_vars

\* Tools end, and the event loop runs what is due.
FairSpec == Spec /\ WF_vars(Loop) /\ \A c \in Call : WF_vars(Settle(c) \/ Dequeue(c))

-----------------------------------------------------------------------------
TypeOK ==
    /\ reply \in Replies
    /\ emitted \in 0..(2 * N + 3) /\ closed \in 0..N /\ fallback \in BOOLEAN
    /\ ready \in [Call -> 0..(2 * N + 3)]
    /\ reader \in [Reader -> 0..NotReading]
    /\ broken \in BOOLEAN /\ message \in {"pending", "good", "bad"}
    /\ calls \in [Call -> {"none", "held", "started"}]
    /\ toolset \in {"idle", "running", "waiting"} /\ early \subseteq Call
    /\ run \in [Call -> {"no", "queued", "running"} \union Settled]
    /\ times \in [Call -> Nat] /\ present \subseteq Call
    /\ pc \in {"body", "tools", "settling", "over", "failed", "left"}
    /\ mutated \in BOOLEAN /\ pushed \in BOOLEAN /\ cached \in BOOLEAN

\* Whoever starts a call, the stream as it goes by, the caller who asks for the answer,
\* or the loop at the end of its body, and however often the cached answer is dropped in
\* between by setMessagesParams(), the tool of a call is run once at most.
OnceEach == \A c \in Call : times[c] <= 1

\* Once the runner has moved on from the reply, to the next request or to the end of the
\* run, none of its calls runs or will: not even one that a loop over the stream which is
\* behind has yet to reach.
QuietOnceOver == pc = "over" => \A c \in Call : run[c] \notin {"queued", "running"}

Ran(c) == run[c] # "running" /\ run'[c] = "running"

\* The toolset's calls run one at a time and in the model's order, and none runs once
\* one before it has failed, was malformed or threw: although some are started by the
\* stream and the others by the answer, each of which orders only its own.
MembersInOrder ==
    [][\A c \in Family : Ran(c) =>
          \A d \in Family : d < c => run'[d] = "ok"]_vars

\* The event that shows the model has moved on from call c, 0 if none will.
MovedOnAt(c) ==
    IF reply.fallback <= c /\ reply.fallback <= N THEN 0
    ELSE IF c < N THEN StartAt(c + 1)
    ELSE IF reply.stop = "tool_use" THEN StopReason ELSE 0

\* A call that starts while the reply streams is one the model has moved on from (so it
\* is neither the last call of a reply that was cut off nor one a fallback model took
\* over), everybody reading the stream has handled the event that shows it, the caller
\* has not held it, and the stream has not been left.
EarlyIsSeen ==
    [][\A c \in early' \ early :
          /\ MovedOnAt(c) \in 1..emitted' /\ calls[c] # "held" /\ ~broken
          /\ \A r \in Reader : MovedOnAt(c) <= reader'[r]]_vars

\* A loop that waits for the results of its reply gets them all, or the rejection of a
\* toolset, and goes on only when nothing it has started still runs.
CallsAreAnswered ==
    pc = "tools" ~> pc = "failed" \/ (pc = "over" /\ \A c \in Call : run[c] \in Settled)

=============================================================================
