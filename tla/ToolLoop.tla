-------------------------------- MODULE ToolLoop --------------------------------
(***************************************************************************)
(* The conversation loop of BetaToolRunner                                  *)
(* (src/src/lib/tools/BetaToolRunner.ts): requests, turns, tool results,    *)
(* queued tool changes, compaction and the caller, who acts while it        *)
(* handles an item.  ToolCalls has what happens to the calls of one reply.  *)
(*                                                                          *)
(* A message of the history is the user's, tool results, a system message   *)
(* with tool changes, or the model's: a turn known by what it asks for, or  *)
(* a summary.  The runner flushes its queue and sends the request in one    *)
(* step of the loop: nothing but startedCallsSettled happens in between.    *)
(***************************************************************************)
EXTENDS Naturals, Sequences, FiniteSets, SequencesExt

CONSTANTS Managed,        \* tools the caller adds and removes
          Handmade,       \* tools its own system message has removed
          Turns,          \* the turns the model may give
          MaxIterations,  \* params.max_iterations
          Careful,        \* the caller keeps to the four rules below
          MaxActs,        \* bound on what the caller does
          MaxPasses       \* bound on how often it iterates

Tool == Managed \union Handmade

ASSUME ToolAssumption == Managed \intersect Handmade = {} /\ IsFiniteSet(Handmade)
ASSUME TurnAssumption ==
    Turns \subseteq {"calls", "paused", "compacted", "final", "cut"}
ASSUME BoundAssumption ==
    MaxIterations \in Nat \ {0} /\ Careful \in BOOLEAN /\ MaxActs \in Nat /\ MaxPasses \in Nat

Change  == [tool : Tool, add : BOOLEAN]
\* `by` says whose a message is, or that a pass failed in the tools of that turn.
Message == [kind : {"user", "results", "changes", "summary"} \union Turns,
            by : {"runner", "caller", "stuck"}, changes : Seq(Change)]

VARIABLES
    history,     \* params.messages
    pending,     \* #pendingToolChanges
    overrides,   \* #toolOverrides: "none", "given" (a tool) or "gone" (null)
    lastStop,    \* #lastStopReason: a turn, or "null"
    compaction,  \* #compaction.status
    mutated,     \* #mutated
    cached,      \* #toolResponse: "unset", or whether it has results
    iteration,   \* #iterationCount
    message,     \* #message: "unset", "awaited", "failed", or what came
    saved,       \* lastMessage of #compact
    request,     \* the request under way: its kind and what it carried
    completion,  \* #completion: "pending", or what done() has resolved to
    pc,          \* where the loop is
    gone, given, \* history: tools the caller has taken away, or added
    asked, told, \* history: every change asked for; those of replaced messages
    acts, passes \* bounds on the caller

params   == <<history, pending, overrides>>
state    == <<lastStop, compaction, mutated, cached, iteration>>
promises == <<message, saved, completion>>
ghosts   == <<gone, given, asked, told>>
bounds   == <<acts, passes>>
vars == <<history, pending, overrides, lastStop, compaction, mutated, cached, iteration,
          message, saved, request, completion, pc, gone, given, asked, told, acts,
          passes>>

Says(kind, by)  == [kind |-> kind, by |-> by, changes |-> <<>>]
Changes(cs, by) == [kind |-> "changes", by |-> by, changes |-> cs]
User            == Says("user", "caller")
Removal(t)      == [tool |-> t, add |-> FALSE]
Calling         == {"calls", "cut"}         \* turns with tool calls
Summaries       == {"summary", "empty"}     \* responses to a compaction request

\* A turn with calls that wait for their results.
Waits(m) == m.kind \in Calling /\ m.by # "stuck"

ChangesOf(h) == FlattenSeq([i \in 1..Len(h) |-> h[i].changes])

\* What the history and the queue say of a tool.
Withdrawn(t, h, queue) ==
    LET all == ChangesOf(h) \o queue
        of  == {i \in 1..Len(all) : all[i].tool = t}
    IN  of # {} /\ ~all[CHOOSE i \in of : \A j \in of : j <= i].add

RunnableTools == {t \in Tool : overrides[t] # "gone"}
AvailableToolNames == {t \in RunnableTools : ~Withdrawn(t, history, pending)}

NoRequest == [kind |-> "none", carried |-> <<>>]

Init ==
    /\ history = <<User>> \o SetToSeq({Changes(<<Removal(t)>>, "caller") : t \in Handmade})
    /\ pending = <<>> /\ overrides = [t \in Tool |-> "none"]
    /\ lastStop = "null" /\ compaction = "idle" /\ mutated = FALSE /\ cached = "unset"
    /\ iteration = 0 /\ message = "unset" /\ saved = "unset" /\ request = NoRequest
    /\ completion = "pending" /\ pc = "new"
    /\ gone = Handmade /\ given = {} /\ asked = ChangesOf(history) /\ told = <<>>
    /\ acts = 0 /\ passes = 0

-----------------------------------------------------------------------------
(* The loop.                                                                *)

Resume == {"paused", "compacted"}

Iterate ==
    /\ pc = "new" /\ passes < MaxPasses /\ passes' = passes + 1
    /\ mutated' = TRUE /\ cached' = "unset" /\ completion' = "pending" /\ pc' = "top"
    /\ UNCHANGED <<params, lastStop, compaction, iteration, message, saved, request,
                   ghosts, acts>>

\* Mutant: nothing holds the queue back.
Flushed_Eagerly ==
    IF pending = <<>> THEN history ELSE Append(history, Changes(pending, "runner"))

\* The history after #flushPendingToolChanges.
Flushed ==
    IF lastStop = "paused" \/ pending = <<>> THEN history
    ELSE Append(history, Changes(pending, "runner"))

\* Mutant: the queue is sent again.
QueueLeft_All == pending

QueueLeft == IF lastStop = "paused" THEN pending ELSE <<>>

\* #send: the request goes out and the item is yielded.
Send(kind, h) ==
    /\ request' = [kind |-> kind, carried |-> h]
    /\ message' = "awaited" /\ cached' = "unset" /\ pc' = "body"

\* #compact, up to its yield; `kind` says what follows it.  A message still awaited,
\* dropped by a caller that took over, is saved as what it will be.
Compact(kind, h) ==
    /\ Send(kind, h)
    /\ compaction' = "in_flight"
    /\ saved' \in IF message = "awaited" THEN {"failed"} \union Turns ELSE {message}

\* Mutant: a compaction does not wait for a paused turn.
MayCompact_Now == compaction = "scheduled"

MayCompact == compaction = "scheduled" /\ lastStop \notin Resume

Top ==
    /\ pc = "top" /\ iteration < MaxIterations
    /\ history' = Flushed /\ pending' = QueueLeft
    /\ IF MayCompact
       THEN Compact("compact", Flushed) /\ UNCHANGED <<mutated, iteration>>
       ELSE /\ Send("turn", Flushed) /\ mutated' = FALSE /\ iteration' = iteration + 1
            /\ UNCHANGED <<compaction, saved>>
    /\ UNCHANGED <<overrides, lastStop, completion, ghosts, bounds>>

IterationsUsed ==
    /\ pc = "top" /\ iteration >= MaxIterations
    /\ pc' = "finish"
    /\ UNCHANGED <<params, state, promises, request, ghosts, bounds>>

\* The server answers, or the request fails.
Responds ==
    /\ pc \in {"body", "next", "finish"} /\ message = "awaited"
    /\ message' \in {"failed"} \union (IF request.kind = "turn" THEN Turns ELSE Summaries)
    /\ UNCHANGED <<params, state, saved, completion, request, pc, ghosts, bounds>>

BodyEnds ==
    /\ pc = "body" /\ pc' = "next"
    /\ UNCHANGED <<params, state, promises, request, ghosts, bounds>>

\* Mutant: done() is resolved with what there is.
Fails_Resolves == pc' = "new" /\ completion' = message

\* The catch: done() is rejected, and the runner may be iterated again.
Fails == pc' = "new" /\ completion' = "rejected"

\* The request failed and the loop is waiting for it.
RequestFailed ==
    /\ pc = "next" /\ message = "failed" /\ (request.kind = "turn" => ~mutated)
    /\ Fails
    /\ compaction' = IF request.kind = "turn" THEN compaction ELSE "idle"
    /\ UNCHANGED <<params, lastStop, mutated, cached, iteration, message, saved, request,
                   ghosts, bounds>>

\* #compactAfterFinalTurn: `h` is the history by then.
AfterFinalTurn(h) ==
    IF compaction # "scheduled"
    THEN pc' = "finish" /\ UNCHANGED <<compaction, message, saved, cached, request>>
    ELSE IF Last(h).kind \in Calling
    THEN /\ compaction' = "idle" /\ pc' = "finish"
         /\ UNCHANGED <<message, saved, cached, request>>
    ELSE Compact("final", h)

\* A turn that came while the caller left the history alone.
TakeTurn ==
    /\ pc = "next" /\ request.kind = "turn" /\ ~mutated /\ message \in Turns
    /\ LET h == Append(history, Says(message, "runner"))
       IN  /\ history' = h /\ lastStop' = message
           /\ CASE message \in {"final", "cut"} -> AfterFinalTurn(h)
                [] message \in Resume ->
                     pc' = "top" /\ UNCHANGED <<compaction, message, saved, cached, request>>
                [] OTHER ->
                     pc' = "tools" /\ UNCHANGED <<compaction, message, saved, cached, request>>
    /\ UNCHANGED <<pending, overrides, mutated, iteration, completion, ghosts, bounds>>

\* Mutant: a reply the caller has pushed is not looked at.
HasCalls_Cached == cached = "results"

\* generateToolResponse has something to answer.
HasCalls == cached = "results" \/ (cached = "unset" /\ Last(history).kind \in Calling)

\* The caller took over.  Without results to add, the loop goes on from its history.
TakenOver ==
    /\ pc = "next" /\ request.kind = "turn" /\ mutated
    /\ lastStop' = "null"
    /\ pc' = IF HasCalls THEN "tools" ELSE "top"
    /\ UNCHANGED <<params, compaction, mutated, cached, iteration, promises, request,
                   ghosts, bounds>>

\* generateToolResponse has the results, or rejects.
ToolsReturn ==
    /\ pc = "tools"
    /\ \/ /\ pc' = "top" /\ history' = Append(history, Says("results", "runner"))
          /\ UNCHANGED completion
       \/ Fails /\ history' = [history EXCEPT ![Len(history)].by = "stuck"]
    /\ UNCHANGED <<pending, overrides, state, message, saved, request, ghosts, bounds>>

\* Mutant: what the history says was removed is not kept.
RecordRemovals_Not == overrides

\* #recordRemovalsFromHistory
RecordRemovals ==
    [t \in Tool |-> IF t \in RunnableTools \ AvailableToolNames THEN "gone" ELSE overrides[t]]

\* Mutant: it stays scheduled.
AfterCompaction_Scheduled == "scheduled"

AfterCompaction == "idle"

\* The compaction response: a summary replaces the history; the server may leave the
\* changes of what it summarized out of it.
Compacted ==
    /\ pc = "next" /\ request.kind # "turn" /\ message \in Summaries
    /\ compaction' = AfterCompaction
    /\ pc' = IF request.kind = "compact" THEN "top" ELSE "finish"
    /\ \/ /\ message = "summary"
          /\ overrides' = RecordRemovals
          /\ \E cs \in {<<>>, ChangesOf(request.carried)} :
                /\ history' = <<[kind |-> "summary", by |-> "runner", changes |-> cs]>>
                /\ told' = IF cs = <<>> THEN told \o ChangesOf(history) ELSE told
          /\ UNCHANGED message
       \/ /\ message = "empty"
          /\ message' = saved
          /\ UNCHANGED <<overrides, history, told>>
    /\ UNCHANGED <<pending, lastStop, mutated, cached, iteration, saved, completion, request,
                   gone, given, asked, bounds>>

\* After the loop: done() gets the last message, if there is one.
Finish ==
    /\ pc = "finish" /\ message # "awaited"
    /\ IF message \in {"unset", "failed"} THEN Fails
       ELSE pc' = "ended" /\ completion' = message
    /\ UNCHANGED <<params, state, message, saved, request, ghosts, bounds>>

-----------------------------------------------------------------------------
(* The caller.  Tools may act too, while the loop waits for them.           *)
(*                                                                          *)
(* With Careful it keeps to four rules the code does not enforce.           *)
(*  1. Mindful: it does not drop a turn that resumed a paused one and leave *)
(*     the paused one last.                                                 *)
(*  2. It asks for the answer of a reply before it changes anything, or has *)
(*     pushed that reply last: the loop adds an answer that is cached to    *)
(*     whatever history it has left.                                        *)
(*  3. Behind calls that wait for their results it pushes only these.       *)
(*  4. Its tools leave the messages alone.                                  *)

CallerActs(where) == pc \in where /\ acts < MaxActs /\ acts' = acts + 1

Ask(t, add) ==
    /\ CallerActs({"new", "body", "tools"})
    /\ LET change == [tool |-> t, add |-> add]
       IN  pending' = Append(pending, change) /\ asked' = Append(asked, change)
    /\ overrides' = [overrides EXCEPT ![t] = IF add THEN "given" ELSE "gone"]
    /\ gone'  = IF add THEN gone \ {t} ELSE gone \union {t}
    /\ given' = IF add THEN given \union {t} ELSE given \ {t}
    /\ UNCHANGED <<history, state, promises, request, pc, told, passes>>

AddTools(t)    == Ask(t, TRUE)
RemoveTools(t) == Ask(t, FALSE)

CompactBeforeNextTurn ==
    /\ CallerActs({"new", "body", "tools"})
    /\ compaction # "in_flight"
    /\ compaction' = "scheduled"
    /\ UNCHANGED <<params, lastStop, mutated, cached, iteration, promises, request, pc,
                   ghosts, passes>>

\* Mutant: the messages may change although a response is about to replace them.
MessagesMayChange_Always == TRUE

\* The refusal of setMessagesParams.
MessagesMayChange == compaction # "in_flight"

\* setMessagesParams.
SetParams(h) ==
    /\ history' = h /\ mutated' = TRUE /\ cached' = "unset"
    /\ UNCHANGED <<pending, overrides, lastStop, compaction, iteration, promises, request,
                   pc, given, asked, passes>>

\* Rule 1.
Mindful == Careful /\ pc = "body" => Last(history).kind \notin Resume

\* Other params than the messages change.
Touch ==
    /\ CallerActs({"new", "body", "tools"}) /\ Mindful
    /\ SetParams(history) /\ UNCHANGED <<gone, told>>

\* Where the messages change; rule 4.
Anywhere == {"new", "body"} \union (IF Careful THEN {} ELSE {"tools"})

PushUser ==
    /\ CallerActs(Anywhere) /\ MessagesMayChange
    /\ Careful => ~Waits(Last(history))
    /\ SetParams(Append(history, User)) /\ UNCHANGED <<gone, told>>

\* The messages are replaced by others.  The changes they held have been sent.
Replace ==
    /\ CallerActs(Anywhere) /\ MessagesMayChange
    /\ SetParams(<<User>>)
    /\ told' = told \o ChangesOf(history) /\ gone' = gone \ Handmade

\* The caller pushes the reply, alone or with its results; a user's message may follow
\* with PushUser.
TakeOver ==
    /\ CallerActs({"body"}) /\ request.kind = "turn" /\ message \in Turns
    /\ Careful => ~Waits(Last(history))
    /\ \E tail \in {<<>>} \union (IF message \in Calling THEN {<<Says("results", "caller")>>} ELSE {}) :
          SetParams(Append(history, Says(message, "caller")) \o tail)
    /\ UNCHANGED <<gone, told>>

\* Rule 2.
GenerateToolResponse ==
    /\ CallerActs({"body"}) /\ message \in Turns \union Summaries /\ cached = "unset"
    /\ Careful /\ mutated => request.kind # "turn" \/ Last(history) = Says(message, "caller")
    /\ cached' = IF message \in Calling THEN "results" ELSE "null"
    /\ UNCHANGED <<params, lastStop, compaction, mutated, iteration, promises, request, pc,
                   ghosts, passes>>

\* `break`: the generator returns, and #compact's `finally` with it.
Leave ==
    /\ CallerActs({"body"})
    /\ pc' = "left"
    /\ compaction' = IF compaction = "in_flight" THEN "idle" ELSE compaction
    /\ UNCHANGED <<params, lastStop, mutated, cached, iteration, promises, request, ghosts,
                   passes>>

-----------------------------------------------------------------------------
Loop == \/ Top \/ IterationsUsed \/ RequestFailed \/ TakeTurn \/ TakenOver
        \/ Compacted \/ Finish

Caller == \/ \E t \in Managed : AddTools(t) \/ RemoveTools(t)
          \/ CompactBeforeNextTurn \/ Touch \/ PushUser \/ Replace \/ TakeOver
          \/ GenerateToolResponse \/ Leave

Next == Iterate \/ Loop \/ Responds \/ BodyEnds \/ ToolsReturn \/ Caller

Spec == Init /\ [][Next]_vars

\* Requests are answered, tools return and loop bodies end.
FairSpec == Spec /\ WF_vars(Loop) /\ WF_vars(Responds) /\ WF_vars(BodyEnds)
                 /\ WF_vars(ToolsReturn)

-----------------------------------------------------------------------------
TypeOK ==
    /\ history \in Seq(Message) /\ pending \in Seq(Change)
    /\ overrides \in [Tool -> {"none", "given", "gone"}]
    /\ lastStop \in {"null"} \union Turns
    /\ compaction \in {"idle", "scheduled", "in_flight"} /\ mutated \in BOOLEAN
    /\ cached \in {"unset", "null", "results"} /\ iteration \in 0..MaxIterations
    /\ message \in {"unset", "awaited", "failed"} \union Turns \union Summaries
    /\ saved \in {"unset", "failed"} \union Turns \union Summaries
    /\ request \in [kind : {"none", "turn", "compact", "final"}, carried : Seq(Message)]
    /\ completion \in {"pending", "rejected"} \union Turns \union Summaries
    /\ pc \in {"new", "top", "body", "next", "tools", "finish", "ended", "left"}
    /\ gone \subseteq Tool /\ given \subseteq Tool
    /\ asked \in Seq(Change) /\ told \in Seq(Change)
    /\ acts \in 0..MaxActs /\ passes \in 0..MaxPasses

Answers(h, i) == i \in 1..Len(h) /\ h[i].kind = "results"

\* In every request of a careful caller each turn with tool calls is followed by its
\* results, and results follow nothing else, whatever the caller pushes within its rules,
\* drops or asks for meanwhile and whatever tool changes the runner adds.  The only calls
\* without results are those of a turn whose tools have failed a pass: the runner keeps
\* that turn, and a later pass goes on behind it.
CallsAreAnswered ==
    LET h == request.carried
    IN  \A i \in 1..Len(h) :
          /\ Waits(h[i]) => Answers(h, i + 1)
          /\ h[i].kind = "results" => i > 1 /\ h[i - 1].kind \in Calling

\* No compaction is requested of a conversation that ends in tool calls that wait for their
\* results, or in a turn of the runner's that has to be sent back.  Two conversations that
\* end mid-turn are compacted all the same, against the comments on lines 150 and 391: one
\* whose last turn has failed a pass in its tools ("stuck"), and one behind a paused turn
\* the caller has pushed itself, which resets #lastStopReason.
CompactionIsWhole ==
    request.kind \in {"compact", "final"} =>
      LET last == Last(request.carried)
      IN  ~Waits(last) /\ (last.kind \in Resume => last.by = "caller")

\* The runner's tool changes never come right after a paused turn it has added itself and
\* has to send back, which must be the last message.  A paused turn the caller pushes is
\* not held to this: the runner no longer knows of it and sends its queue behind it.
PausedGoesBackLast ==
    \A i \in 1..(Len(history) - 1) :
      history[i].kind = "paused" /\ history[i].by = "runner" =>
        history[i + 1].kind # "changes"

\* A tool the caller has taken away, or its own message has, does not run, and one it has
\* added does: whatever becomes of the messages that say so, replaced by the caller or by
\* a summary that leaves the changes out.
ToolsAreAsAsked == gone \intersect AvailableToolNames = {} /\ given \subseteq AvailableToolNames

\* What the caller asked to add or remove goes into the history in that order, each change
\* once, or waits in the queue, whatever fails; and a summary replaces only messages that
\* were in the request for it.  Changes in messages that were replaced count as told, also
\* when the only request that carried them has failed.
NothingIsLost ==
    /\ told \o ChangesOf(history) \o pending = asked
    /\ request.kind \in {"compact", "final"} /\ pc \in {"body", "next"} /\ message # "failed"
         => history = request.carried

\* A loop that is started ends, so that done() settles, unless the caller leaves it: no
\* run of paused turns, compactions, failures or changes of the params keeps it going.
DoneSettles == pc = "top" ~> completion # "pending" \/ pc = "left"
=============================================================================
