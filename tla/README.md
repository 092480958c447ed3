# Verification of the Tetral TypeScript SDK

TLA+ models of the concurrent parts of this SDK, the TLC runs that check them
on small instances, and theorems about them checked by TLAPS.  Paths below are
relative to the repository root.

## 1. Inventory

Most of the repository (`src/resources`, 64 thousand lines) is generated: types
and one-line request builders.  The program's own logic is in the hand-written
helpers around it.

| Component | State it keeps | Operations | Interacts with | Hard because |
|---|---|---|---|---|
| `lib/tools/SessionToolRunner.ts` | seen / answered calls, verdicts, held calls, idle clock, result queue, abort controller | attach, reconcile, handle event, execute, post, iterate, tear down | session API, tools, consumer loop | stream and history overlap; user verdicts arrive in any order; timer, abort and consumer interleave with every await |
| `lib/environments/worker.ts` | lease of one work item, heartbeat version, end reason | poll, run, heartbeat, force stop | poller, session runner, control plane | lease may be lost, extended late, or stopped while the session still runs |
| `lib/environments/poller.ts` | work item in hand | poll, ack, yield, stop | control plane, consumer | failures of each call, drain, consumer leaving |
| `lib/credentials/token-cache.ts`, 401 path of `client.ts` | token, pending refresh | get, invalidate, advisory refresh | credential provider, every request | refreshes overlap, a late one may carry an old token |
| `tools/agent-toolset/memories.ts` | baseline, refused and sent shas, deletions held back, the folder and its marker | download, sync, flush, recover, dispose | file system, memory API, worker's teardown | three versions of each path; the agent and other writers act between any two steps; lost answers |
| `lib/tools/BetaToolRunner.ts`, `lib/internal/BetaToolRunnerStream.ts` | history, queued tool changes, cached answer, compaction status, calls of a reply, entries of toolsets | start calls as the reply streams, answer them, next turn, compact, add and remove tools | Messages API, tools, the caller's loop body | the caller changes everything while it handles a turn; stream and answer both start calls |
| request retry in `client.ts` | attempt count | request, retry, time out | fetch | timeouts race answers |
| `core/streaming.ts`, `internal/decoders/line.ts` | buffer | decode | response body | chunk boundaries anywhere |
| `lib/MessageStream.ts`, `lib/BetaMessageStream.ts` | message snapshot, listeners, ended flags | emit, abort, end | stream, callers | error and end race awaiting callers |
| `internal/file-store.ts` | files | atomic write | file system | two processes refresh one credential |
| `lib/internal/toolsets/*` | call queue | enqueue, run hooks | tool runner | per-set serialisation |
| `tools/agent-toolset/node.ts` | shell process | run, restart | OS | hung commands |

`PROJECT.json` lists every component with its status, and under `hazards` what
is hard to test in the modelled ones.

What makes each component correct, in a sentence:

- *Session tool runner*: a gated call runs only after the user's allow, a call
  runs at most once after its result has reached the session, no call is
  silently dropped, idleness never cuts live work, an abort ends the iteration.
- *Worker and poller*: one worker serves an item, a lost lease is left alone, a
  stop is heard, a handler ends.
- *Token cache*: refreshes coalesce, nobody waits for a refresh that is over,
  the client gets past a revoked token.
- *Memory stores*: no edit the agent has not seen is replaced on the server, no
  edit of the agent is lost to the sync itself, a folder seen to be wiped deletes
  nothing, the folder and the server agree in the end.
- *Tool runner*: each call of a reply runs once at most and in its toolset's
  order; every turn with calls is answered in the next request; a tool change is
  told once, in order, never after a paused turn of the runner's; a compaction
  cuts no turn the runner has to answer or send back (section 7 has the cases
  in which turns are cut all the same).
- *Request retry*: no more than `maxRetries` requests, an abort is final.
- *Decoders*: the events do not depend on where the chunks are cut.
- *Message stream*: exactly one of end, error and abort reaches each waiter.

## 2. Plan

Done, in this order:

1. `SessionToolRunner` with `IdleClock`, its abstract specification
   `GatedDispatch`, and the theorems of `SessionToolRunnerProofs` and
   `SessionToolRunnerIdle`.
2. `WorkLease` (worker, lease, heartbeat, the poller under it) and
   `WorkLeaseProofs`.
3. `TokenCache` and `TokenCacheProofs`.
4. `MemorySync` (one store through a work item, its final sync, flush and
   disposal included) and `MemorySyncProofs`.
5. `ToolCalls` (the calls of one streamed reply) and `ToolCallsProofs`.
6. `ToolLoop` (the conversation around them) and `ToolLoopProofs`.
7. `SessionToolRunnerPromise`: the refinement of `GatedDispatch` as a theorem.

Left, most important first:

8. `WorkPoller` alone: `autoStop`, `drain`, a consumer that leaves.
9. `RequestRetry`: attempts, timeouts and aborts of one request, the options
   object shared by two requests; `CredentialsFile`: two processes that refresh
   one credential through `FileStore`.  Outages of the provider and of the
   server under `Recovers`, which its run leaves out (`Faults = FALSE`) and only
   the safety run has, belong here too.
10. `LineDecoder` and `SseDecoder` as functions against a reference over bounded
    inputs; `MessageStream`.
11. Compositions: `SessionToolRunner` under `WorkLease`, where today only the end
    of the runner is a step, and `ToolCalls` as the `ToolsReturn` of `ToolLoop`.

## 3. Modules and how they correspond to the code

`PROJECT.json` maps every definition to its lines.

### IdleClock, SessionToolRunner, GatedDispatch

`IdleClock` is the class of that name as functions on a record: blockers, a
pending arm, an armed timer.  `SessionToolRunner` has one variable per field of
the class (`seen`, `answered`, `verdicts`, `held`, `clock`, the length of the
result `queue`, `aborted`) and program counters: `phase` for `#streamLoop`,
`iter` for the iterator and the consumer's `for await` around it.  A step is
the code between two awaits at which another process can run; `#reconcile` is a
listing step, one step per routed call and a closing step.  The session is an
append-only log; the live stream is an index into it, so events of the stream
and of the listing overlap as they do in the code.  A tool's code and the
retries of a post are one step each (`ToolReturns`, `SendSettles`), the latter
with three outcomes: posted, posted without an answer, given up.

`GatedDispatch` is what the component promises: each call is absent, open,
running, answered or denied.  `KeepsPromise` is `GatedDispatch!Spec` under the
refinement mapping at the end of `SessionToolRunner`.

### WorkLease

Any number of workers serve one work item.  Per worker: `pc` (polling, acking,
working, teardown, joining the heartbeat, force stop), `aborted` and `reason`
(class `Lease`), and the loop's variables: `beat`, the call on its way or its
`answer`, one `timer` for the cutoff of a call or the sleep, `age` for
`Date.now() - lastSuccessMs`, `last` for the echoed `last_heartbeat`, of which
only "sentinel, current, old" is kept.  The control plane is external: it hands
out the item, extends the lease of a heartbeat that echoes the recorded one,
refuses others with 412 (the contract quoted at
`src/resources/beta/environments/work.ts:641-648`), and requeues a lapsed item.
Time is discrete: a due timer fires before the next tick.

### TokenCache

The cache's fields, the provider's calls (each begun, then reading the
credentials file or issuing a token, then settled) and the requests of one
client: start, wait for a token, sent, retry, done or failed.  A token is the
number of revocations that had happened when it was issued; the server takes
those of the present epoch.  How long a token has to go is one of the four
windows of `getToken`; a call may take any time and another process may have
renewed the file, so a new token may have any of them.

### MemorySync

One `AttachedStore` with its fields, the folder and the server's memories.
Contents stand for their sha: the agent's and those of other writers are told
apart, and some the server refuses.  `sync` and `flush` are the two passes
(`#syncStore`, `flushWrites`) with what each has scanned and listed; both may be
under way at once, because a `finish()` whose time is up runs on beside the
flush.  A request replaces one content of a path by another (`over` is the
precondition): it lands or is refused, and its answer may be lost.  `#syncPath`
is one action per outcome (`LocallyDeleted` in two, `Forget`, `PushNew`,
`CompareDeleted` and `Unlink`, `TakeRemote`, `Adopt`, `PushEdit`, `Unchanged`),
and the agent, other writers, and whoever wipes or spoils the folder act between
any two.  The window of a held deletion is "fresh" or "old".  A listing is one
snapshot, and a fetch moves up to the write that follows it.  Four history
variables serve the properties: `writer`, `shown`, `wiped`, and `halfway`, that a
recovery has stopped before its end and left an empty baseline (section 7).
`wiped` holds the files that went in a wipe and are not back yet.  It is given
up (`Blurred`) when the agent writes into a folder that was emptied with its
marker kept and that no sync has found empty: the code can then no longer tell
the wipe from deletions, and `WipeSparesServer` promises nothing (section 7).

### ToolCalls

The life of one streamed reply.  Its events are numbered; `closed`, `ready` and
`fallback` are the fields of `BetaToolRunnerStream`, `reader` says which event
each `for await` loop of the caller is done with.  `Release` is `#release` with
the callback of `streamThatStartsTools` in it, since both run in one piece:
after each event, and whenever a loop asks for its next one.  `calls` is
`#calls`; `toolset` is the entry of the one toolset in `toolsets` (`idle`,
`running`, `waiting`); `run` is what became of each call.  `Generate` is
`generateToolResponse`, from the caller or from the end of the loop body, and
`Dequeue` the turn of a toolset's call in it.  The caller may hold calls, read,
lag, leave its loop (which aborts the stream), remove tools, and change the
params, which drops the cached answer; it may then ask for the answer again,
which caches it anew and has the loop append it.

### ToolLoop

The same class around a reply: `history`, `pending` (queued tool changes),
`overrides`, `lastStop`, `compaction`, `mutated` and `cached` are its private
fields, `message` the promise of the item under way.  A message is known by its
kind; a turn by what it asks for ("calls", "paused", "compacted", "final", "cut").
The flush of the queue and the request are one step (`Top`), because nothing but
`startedCallsSettled` can run between them, and that is in `ToolCalls`.  What the
tools of a turn do is one step here, `ToolsReturn`; when it fails, the turn it
leaves without results is marked `by = "stuck"` in the history, for the
properties to know.  The caller may act while its loop body or a tool runs: add
and remove tools, ask for a compaction, touch the params, push or replace
messages, take the turn over (alone or with its results, user's messages behind
it), ask for the answer, leave, or iterate once more after a failure.  None of
these has a guard the code does not have, unless the caller is `Careful`.  Such
a caller keeps to four rules, which the code does not enforce:

1. it does not drop a turn that resumed a paused one and leave the paused one
   last (`Mindful`);
2. it asks for the answer of a reply before it changes anything, or has pushed
   that reply last (`GenerateToolResponse`);
3. behind calls that wait for their results it pushes only these (`PushUser`,
   `TakeOver`);
4. its tools leave the messages alone (`Anywhere`); they may change other params,
   tools and the compaction.

`tool_loop` and the first three theorems are about such a caller; section 7 has
what happens otherwise, and what happens even so.

The `MC*` modules only add the model values and permissions of the instances.

## 4. Runs

| Run | Bounds | Shows |
|---|---|---|
| `runner_gating` | 2 calls (one gated), 1 extra idle event, 1 failed send | permission gate, idle countdown, its blockers, types; the runner implements `GatedDispatch` |
| `runner_split` | a call of another client under an unknown permission, a call the server denied, a listing that misses the oldest event | no call is silently skipped, no surfaced outcome is lost |
| `runner_ends` | 2 calls (one gated), failing posts and streams, fair | an aborted run ends; a quiet session on a stable stream ends the run; a call that may run is answered |
| `lease_bounds` | 2 workers, ttl 3, interval 1, all faults | how long a cut-off worker serves; a lost item is left alone |
| `lease_covers` | ttl 4 against defaults 15 and 5, no faults | the lease covers the run and its teardown |
| `lease_ends` | 1 worker, ttl 2, faults and aborts, fair | a stop is heard; a handler ends |
| `token_safety` | 2 requests, 3 calls, 1 revocation, 1 retry, faults | nobody joins or awaits a refresh that is over; one call of the provider until a token is revoked |
| `token_recovers` | 2 requests, 2 calls, advisory tokens, no outages, fair | the client gets past a revocation, whichever refreshes overlap with it |
| `memory_sync` | 2 paths, 2 contents of the agent (one refused), 1 of others, 2 edits, 1 fault, 3 kinds of store, fair | no unseen edit is replaced, no own edit lost, a wipe is harmless unless a write blurs it, the flush saves, the two sides converge |
| `memory_refused` | as above without faults; violation | finding 1 |
| `tool_calls` | 3 calls, 14 shapes of reply, 1 loop over the stream, 1 removed tool, fair | each call runs once, in order, early only when seen; the loop gets its answers and leaves nothing running |
| `tool_loop` | 1 managed and 1 handmade tool, 3 requests, 3 acts of the caller, 2 passes, fair | a careful caller's requests are well formed, its compactions whole but for two cases of section 7, tool changes kept; a run ends |

Why the bounds are enough.  The runner executes one call at a time and its
calls meet only in the clock and the queue, so two calls, one gated, give every
overlap.  For the lease, two workers are the ones that can conflict, and a ttl
of three intervals is the ratio of the real defaults (90 s and 30 s); with it
the bound of `StaleWorkerStops` is reached, so it is tight.  For the cache, a
late, a forced and a fresh call are three, and one revocation is what makes a
token old.  For the memories, a wipe is told from a deletion at two paths, the
cap of one delete is used up by one of them, and two edits with one fault give
every conflict of two writers over a path whose last send is unsettled (without
fairness: three edits too, and at one path up to five edits or three faults, no
error).  For the
calls of a reply, three are what it takes to have one the stream starts, one the
answer starts and one refused, in a toolset or around it.  For the loop, three
acts of the caller and three requests reach a paused turn that is resumed around
a compaction (1.5 million states; with four acts and the turn "compacted" as a
fifth, 20.6 million, no error either: the run leaves that out for time, as it is
handled with "paused" everywhere but in the flush; with `Careful = FALSE`, 2.0
million and no error in what is claimed of any caller).  The run of the memories
has 810 thousand.  All of these bounds are
constants, and the theorems of section 6 hold for all their values.

`CHECK_DEADLOCK FALSE` is set everywhere: a session may stay silent, a worker
may have left the pool, and a run may be over.

## 5. Fairness

- The steps of JavaScript's event loop (an awaited promise that is settled, a
  timer that is due, an abort that has fired) are weakly fair.
- A tool's code returns in `FairSpec` of the runner, not in `HungToolSpec`, which
  is there to show what depends on it.  The session, the user, other clients and
  the consumer's early leaving are never fair.
- `QuietRunStops` holds for a stream that stays up after a successful listing,
  calls executed meanwhile included; section 7 says what happens otherwise.  `EveryCallIsAnswered` assumes that
  listings succeed again and again; failed posts are bounded by a constant.
- Lease: time passes, heartbeats sent arrive or are cut off, an aborted handler
  unwinds.  Nothing makes a session end by itself.
- Token cache: calls and requests end.  `Recovers` moreover assumes strong
  fairness of success: a provider that is asked for ever answers once, and its
  file can be written once.  The code retries for as
  long as its caller does and can promise no more.
- Memories: requests end, windows pass, and a session that goes on yields
  results, so that a sync starts again and again.  Edits and faults are bounded
  and never fair: `Converges` says what happens once they have ended.
- Tool runner: tools end (`Settle`, `Dequeue`, `ToolsReturn`), the loop's own
  steps run, requests are answered and loop bodies end.  The model's events, the
  readers and the caller's acts are not fair.

## 6. Theorems

All are proved by TLAPS for every value of the constants that satisfies the
named assumptions of the modules (calls and workers are any sets, bounds any
naturals).

- `SessionToolRunnerProofs!TypeCorrect`, `GateIsRespected`.  Invariant `GateInv`:
  a recorded allow is in the session's log, only gated calls are held, and what
  runs may run.  `GateRespected` is not inductive alone, because an allow is
  read at a listing and used at a later step.
- `SessionToolRunnerIdle!IdleSparesWork`, `BlockersAreWork`.  Invariant
  `IdleInv`: the blockers are the held calls and the approved one in flight; an
  armed clock has no blockers; the clock is disarmed during the routing pass.
  Each clock operation has a lemma (`DisarmFacts`, `ArmFacts`, ...).
- `WorkLeaseProofs!TypeCorrect`, `CutOffWorkerStops`, `LossIsRemembered`,
  `LeaseIsHeld`.  `LoopInv`: age plus the time the present sleep or call may
  still take is at most the ttl plus one interval (asleep) or two (in a call).
  The statement about serving workers says nothing of the timer and is not
  inductive.
  `LeaseInv`: a recorded reason means aborted, so a 412 is seen only by a loop
  that recorded nothing before.  `CoverInv`, for a network without faults and
  workers nobody aborts (`Faultless`): at most one worker is engaged with the
  item, and while its run goes on its heartbeat is ahead of the lease
  (`Renewing`: the lease outlasts the sleep, and what it echoes is recorded).
- `TokenCacheProofs!TypeCorrect`, `PendingIsAlive`, `OneCall`.  `TokenInv`: no
  token is of a later epoch than the server's, so before the first revocation
  none is refused.  `QuietInv`: until then nothing is forced, and the call in
  flight is the pending one.
- `MemorySyncProofs!TypeCorrect`, `NothingUnseenIsReplaced`,
  `AttachmentIsHonoured`, `WipeIsSpared`, `OwnEditsAreKept`, `FlushIsComplete`.
  `SeenInv`: every
  sha either pass knows of a path (baseline, scan, unsettled send, request on its
  way) is one the path has had on disk.  That a replaced content has been seen
  says nothing of where the precondition of a request came from.  `TurnInv`, which
  `TypeCorrect` states beside `TypeOK`: the sync's requests are about the path it
  has come to, and it never runs past the last.  `HonourInv`: the flush of
  a read-only store has nothing to do, and no request is on its way for one.
  `WipedInv`: after a wipe either nobody has noticed it and the next pass that
  gets anywhere will (`Unnoticed`), because it finds the folder empty and two or
  more memories in the baseline, or the marker gone, whatever has been written
  since; or the paths are unknown to every pass (`Spared`), which is kept path by path.
  `SelfInv`: wherever a sync is, a memory this client was the last to change, or
  nobody has changed (`Tracked`), is on record as it is, in the baseline or in the
  one being rebuilt, or holds an upload whose answer is missing (`Known`); so a
  difference between listing and baseline is another writer's.  It holds until the
  flush has its listing (`Before`).  A delete leaves no such trace, hence the
  assumption `~LostDeletes` of the last two theorems: without it TLC refutes both.
  `SaveInv`, for the end of a work item, when the agent writes no more (`Late`):
  what the sync has scanned or sent of a path is what is on disk (`Still`), until
  it has come past the path and removed the file, or put another writer's version
  in its place (`Gone`).  Before the flush's listing the sync's record of a file tells an
  unchanged one from an edited one (`Recorded`), which with `SelfInv` makes every
  file the flush skips a saved one (`CleanIsSafe`, `ListedIsSafe`).  From then on
  `SelfInv` fails, as the sync replaces the baseline under the flush; what is kept
  instead is that each upload replaces the memory it was meant for, unless the
  sync has done it (`Sending`, `Near`), and that a sync beside it takes no upload
  of the flush for another writer's edit (`Beside`).  `KeepInv`: a flush with
  something to send keeps that sync from taking the folder for wiped.  That a
  flush that is done has saved everything says nothing of how it came there with
  two passes on one baseline.
- `ToolCallsProofs!TypeCorrect`, `EachCallRunsOnce`, `OverIsQuiet`,
  `ToolsetIsInOrder`, `EarlyCallsAreSeen`.  `StreamInv` relates `closed` and
  `ready` to the number of the event; `CallInv` relates `#calls`, `run` and
  `times`; `ToolsetInv`: an idle toolset has seen every call handed over so far
  end well, a running one all but one; `EndInv`: a stream is aborted before the
  runner moves on.  The order of a toolset's calls depends on all of the first
  three, because the stream and the answer each order only their own.
  `TypeCorrect` states `NoneAhead` beside `TypeOK`: no loop has read an event the
  stream has not emitted.
- `SessionToolRunnerPromise!RunnerKeepsPromise`, `SeenIsDispatched`,
  `SurfacedResultsAreYielded`.  The refinement of `GatedDispatch` needs
  `CallsInv`, four parts over the log: a result follows its call and a call has
  one verdict (`LogInv`); what the runner knows of a call is in the log, and a
  call taken for answered has a result or was refused (`KnownInv`); what runs is
  neither answered, held nor waiting to be routed, and what waits has no result
  of ours (`TurnInv`); and a call the runner has touched that its live stream
  has yet to deliver is in `#seen` (`AheadInv`).  Without the last, a call
  answered after a reconnect could be delivered again and run twice: the stream
  is attached before the history is listed, so the listing has marked it.
  `StatusOf` and `Said` are the refinement mapping; each step is a step of one
  call in the promise (`AbstractStep`) or a stutter.
- `ToolLoopProofs!AnswersFollowCalls`, `NothingIsCutShort`, `PausedTurnsResume`,
  for a caller that is `Careful` (section 3).  They except what the code does not
  keep: turns whose tools have failed a pass, and paused turns the caller has
  pushed itself (section 7).  The properties speak of what was sent; the
  invariant `LoopInv` says where in the loop the history may end in a turn with
  calls (`CallsInv`: only while its tools run, while its caller is taking it
  over, or after the last turn) or in one the runner has to send back
  (`ResumeInv`: only while `#lastStopReason` says so, which is what holds the
  queue and the compaction back).  `CacheInv`, that the answer cached for a changed
  history is one of its last message, is where the caller's care is needed; `CompactionInv`, that the
  history stands still under a compaction, is what the refusal in
  `setMessagesParams` is for.
- `ToolLoopProofs!TypeCorrect`, `ToolsFollowTheCaller`, `ChangesAreKept`, for any
  caller.  Invariant `SaidInv`: the changes of replaced messages, then those of
  the history, then the queue are what was asked for (`WordsInv`); a tool the
  caller added has no record against it, and one that is gone is so by its
  override or by the last word of history and queue (`AskedInv`).  Two steps are
  where it could break: a summary that leaves the changes out, for which
  `recordRemovalsFromHistory` moves what they said into the overrides
  (`CompactedSays`), and messages replaced while changes of theirs are in the
  queue (`Forgets`: the later word stands).  `CompactionInv` makes the history a
  summary replaces the one its request carried.  `ChangesOf` flattens a sequence
  through a recursive function.  What the proofs need of it (`FlattenOne`,
  `FlattenAppend`, `FlattenType`, `FlattenCovers`) follows from least
  counterexamples (`LeastNumber`, by the library's fact that the naturals are
  well-founded), which needs no induction rule.

Model-checked only: liveness (`AbortedRunEnds`, `QuietRunStops`,
`EveryCallIsAnswered`, `StopIsHeard`, `HandlerEnds`, `Recovers`, `Converges`,
`CallsAreAnswered` of `ToolCalls`, `DoneSettles`), which these provers do not reach.

## 7. Findings

1. `memories.ts:935` (run `memory_refused`): a file that is edited between the
   scan and its upload has the sha of the scan recorded as refused, although
   other bytes were sent; once the file holds that content again it is neither
   synced nor flushed.

Behaviours that contradict what one would expect, each reproducible with a
formula of the module that no run lists:

- `SessionToolRunner.ts:412`: the teardown awaits a loop that executes tools
  inline; a tool that never returns keeps it from ending (`TeardownIsBounded`,
  under `HungToolSpec`).
- `worker.ts:604`: an external abort ends the heartbeat before the teardown, and
  the item is force-stopped even if another worker holds it by then
  (`StopsOnlyHeld`, with `MayAbort = TRUE` and `Faults = FALSE`).
- `token-cache.ts:124`: a call that settles clears the `pendingRefresh` of a newer
  one, and the next mandatory caller starts a second call (`MandatoryCoalesce`,
  with the constants of `token_safety` and no symmetry).
- `memories.ts:1009`: when a delete has landed and its answer is lost, the
  baseline keeps the deleted sha; if the agent creates the same content again,
  the next sync takes the file for unchanged and unlinks it (`NoSelfLoss`, with
  `LostDeletes = TRUE`), and a flush takes it for saved (`FlushSaves`).
- `memories.ts:633`: when a page of the listing fails in a recovery, the sync
  stops with the folder marked and the baseline empty.  A file the agent then
  writes counts as changed on both sides and is overwritten by the server's
  version, even if that is the client's own earlier upload, and is not flushed,
  against the comment at line 188, "a file changed only locally is uploaded"
  (`NoSelfLoss` and `FlushSaves` without `~halfway`, with `N = 1` and
  `MaxEdits = 3`).
- `memories.ts:421`: when the folder is emptied but keeps its marker, and the agent
  writes one file before the next sync, the scan is not empty; the memories of
  the other files are then deleted, within the cap and the window, against the
  comment at line 216, which has an emptied folder restored (`WipeSparesServer`
  with `Blurred` FALSE in `AgentWrites`).
- `BetaToolRunner.ts:150` and `391-392`, which say that a conversation that ends
  mid-turn cannot be compacted.  A caller that keeps all four rules of `Careful`
  has one compacted (a) when a compaction is scheduled, the tools of a turn throw
  out of the pass, and it iterates again: the new pass starts with the
  compaction, and the history ends in the calls (`CompactionIsWhole` with
  `last.kind \notin Calling` for `~Waits(last)`); (b) when it pushes a paused turn
  itself: that resets `#lastStopReason` (line 197), so a scheduled compaction is
  not held back (`CompactionIsWhole` without `last.by = "caller"`), nor are queued
  tool changes, which go right behind the paused turn, against the comment at
  line 768 (`PausedGoesBackLast` without `history[i].by = "runner"`).
- `BetaToolRunner.ts:195`: with `Careful = FALSE`, a caller that changes the params
  and then calls `generateToolResponse()` gets the results of a turn that was
  dropped from the history appended to it (`CallsAreAnswered`); one that pushes a
  reply with calls and then a user's message, or whose tool pushes a message
  while it runs, has the next request carry calls without results, since
  `pushMessages` looks at nothing and the runner only at the last message
  (`CallsAreAnswered`); and a param changed while the caller handles the turn that resumed a paused one drops that
  turn and resets `#lastStopReason`, so that the paused one is followed by tool
  changes or compacted (`PausedGoesBackLast`, `CompactionIsWhole`), against the
  comments at lines 150 and 768.

Seen while modelling, and not stated as a property of a run: every reconnect
restarts the idle countdown (`SessionToolRunner.ts:525`), so a flapping stream
postpones the stop of a finished session's runner, and after a failed listing
the countdown waits for the next event or reconnect; the lease is assumed lost
up to two intervals after it may have lapsed (`worker.ts:771`), which
`StaleWorkerStops` bounds; a 412 may follow from the worker's own recorded
heartbeat whose answer was lost (`worker.ts:755`), and the worker then gives up
an item it holds; a refresh begun before a 401 can fill the invalidated cache
(`token-cache.ts:119`), so that the one retry is sent with the old token. Also:
a tool may start after the abort, since only the awaits look at the signal; the
last `disarm` of the teardown may be followed by another `arm` of a routing
pass that is still under way; a call lost by a failed listing or post is looked
at again only at the next successful reconcile; a heartbeat that arrives after
its cutoff has the same effect as one whose answer is lost; a 401 with no
retries left invalidates the cache but is not retried; a 401 that answers an
old token late throws away the new one.

## 8. Not modelled

Requests that land after the client has given them up: in `MemorySync` a request
lands before its answer is given up or never (`Unheard`), which is an assumption
on the network.  What becomes of the other calls of a reply when one of them
rejects and the run fails: with `runToolsEagerly` the next request waits for
them, and until then `ToolCalls` claims nothing of them (`pc = "failed"`).
`NothingIsLost` counts the changes of a replaced message as told even if the only
request that carried it has failed; the language model has then not heard of them.  The
check that a granted `ttl_seconds` is positive (`worker.ts:738`): `Ttl` is.

The contents of results, messages and headers; the delays of backoffs; the
retry window of a post; the set-up of skills and memories inside a work item
(one step of `WorkLease`; `RunnerEnds` covers its failure); the mount paths of
stores, the clock they share and the pages of a listing; request options,
container ids and raw tool definitions of the tool runner; expiry of a token while its request
is under way (the server refuses by epoch only).  The components with status
`not_modelled` in `PROJECT.json` carry their reasons: planned (section 2), pure
conversions, or generated code.
