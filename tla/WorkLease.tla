------------------------------ MODULE WorkLease ------------------------------
(***************************************************************************)
(* EnvironmentWorkers (src/src/lib/environments/worker.ts) that serve one   *)
(* work item of an environment.  Each polls for the item (WorkPoller),      *)
(* acknowledges it, runs the handler of the item while heartbeatLoop renews *)
(* its lease, and force-stops the item unless it knows the lease is lost.   *)
(*                                                                          *)
(* The control plane (external) hands an item out, extends the lease of a   *)
(* heartbeat that echoes the last one it recorded, and puts the item back   *)
(* into the queue when the lease has lapsed.  Of a last_heartbeat only      *)
(* equality with the recorded one is used, so a worker's copy is            *)
(* "sentinel" (NO_HEARTBEAT), "current" or "old".                           *)
(*                                                                          *)
(* Time passes in ticks.  A timer that is due fires before the next tick.   *)
(***************************************************************************)
EXTENDS Integers

CONSTANTS Worker,
          NoWorker,
          Ttl,              \* the lease the control plane grants
          DefaultTtl,       \* HEARTBEAT_TTL_DEFAULT_MS
          DefaultInterval,  \* HEARTBEAT_DEFAULT_MS
          Faults,           \* calls may fail, hang, or lose their response
          MayReject,        \* a heartbeat may be refused for good (a fatal 4xx)
          MayAbort          \* the caller may abort a worker, or it may crash

ASSUME WorkerAssumption == NoWorker \notin Worker
ASSUME TimeAssumption ==
    /\ Ttl \in Nat \ {0} /\ DefaultTtl \in Nat \ {0} /\ DefaultInterval \in Nat \ {0}
    /\ Faults \in BOOLEAN /\ MayReject \in BOOLEAN /\ MayAbort \in BOOLEAN

VARIABLES
    item,      \* state of the work item (external)
    holder,    \* the worker it was handed to (external)
    recorded,  \* a heartbeat is recorded for the lease (external)
    left,      \* ticks until the lease lapses (external)
    pc,        \* where each worker is
    stopping,  \* the worker's external signal is aborted
    aborted,   \* #handleItem's ctrl.signal.aborted
    reason,    \* Lease.#endReason
    beat,      \* heartbeatLoop: in a call, asleep, or ended
    answer,    \* the heartbeat call on its way, or the answer to it
    timer,     \* ticks until the cutoff of the call or the end of the sleep
    age,       \* ticks since the last successful heartbeat
    last,      \* the last_heartbeat the worker echoes
    told       \* history: the control plane told the worker its lease is gone

server  == <<item, holder, recorded, left>>
run     == <<pc, stopping>>
lease   == <<aborted, reason>>
loop    == <<beat, answer, timer, age, last>>
vars    == <<item, holder, recorded, left, pc, stopping, aborted, reason, beat,
             answer, timer, age, last, told>>

Least(a, b)    == IF a <= b THEN a ELSE b
Greatest(a, b) == IF a >= b THEN a ELSE b

\* Mutant: the interval does not follow the lease the server grants.
Interval_Fixed(w) == DefaultInterval

\* The lease and the beat interval the loop goes by.
KnownTtl(w) == IF last[w] = "sentinel" THEN DefaultTtl ELSE Ttl
Interval(w) == IF last[w] = "sentinel" THEN DefaultInterval
               ELSE Greatest(1, Least(Ttl \div 2, DefaultInterval))

\* Mutant: a call is cut off after the ttl.
Cutoff_Ttl(w) == KnownTtl(w)

\* beatCtrl: how long a call may take.
Cutoff(w) == Interval(w)

Lost(w) == reason[w] \in {"lease_lost", "assumed_lost"}

\* The handler of the item runs, and nothing has told it to stop.
Serving(w) == pc[w] = "working" /\ ~aborted[w]

Init ==
    /\ item = "queued" /\ holder = NoWorker /\ recorded = FALSE /\ left = 0
    /\ pc = [w \in Worker |-> "polling"]
    /\ stopping = [w \in Worker |-> FALSE]
    /\ aborted = [w \in Worker |-> FALSE]
    /\ reason = [w \in Worker |-> "none"]
    /\ beat = [w \in Worker |-> "off"]
    /\ answer = [w \in Worker |-> "none"]
    /\ timer = [w \in Worker |-> 0]
    /\ age = [w \in Worker |-> 0]
    /\ last = [w \in Worker |-> "sentinel"]
    /\ told = [w \in Worker |-> FALSE]

-----------------------------------------------------------------------------
(* The control plane.                                                       *)

\* What workers hold of a recorded heartbeat once another one replaces it.
Outdated == [v \in Worker |-> IF last[v] = "current" THEN "old" ELSE last[v]]

\* The lease lapses, or an item is not acknowledged in time.
Lapse ==
    /\ \/ item = "polled"
       \/ item \in {"starting", "active", "stopping"} /\ left = 0
    /\ item' = IF item = "stopping" THEN "stopped" ELSE "queued"
    /\ holder' = NoWorker /\ recorded' = FALSE /\ left' = 0
    /\ last' = Outdated
    /\ answer' = [v \in Worker |-> IF answer[v] = "extended" THEN "extended_old"
                                   ELSE answer[v]]
    /\ UNCHANGED <<run, lease, beat, timer, age, told>>

\* The session is over, or somebody stops the item.
RequestStop ==
    /\ item = "active"
    /\ item' = "stopping"
    /\ UNCHANGED <<holder, recorded, left, run, lease, loop, told>>

Echoes(w) == IF last[w] = "sentinel" THEN ~recorded ELSE last[w] = "current"

\* The heartbeat of w arrives.
Record(w) ==
    /\ beat[w] = "call" /\ answer[w] = "sent"
    /\ \/ /\ Echoes(w) /\ item \in {"starting", "active"}
          /\ item' = "active" /\ holder' = w /\ recorded' = TRUE /\ left' = Ttl
          /\ last' = Outdated
          /\ answer' = [answer EXCEPT ![w] = "extended"]
       \/ /\ Echoes(w) /\ item \in {"stopping", "stopped"}
          /\ answer' = [answer EXCEPT ![w] = "stop"]
          /\ UNCHANGED <<server, last>>
       \/ /\ ~Echoes(w) \/ item \in {"queued", "polled"}
          /\ answer' = [answer EXCEPT ![w] = "precondition"]
          /\ UNCHANGED <<server, last>>
    /\ UNCHANGED <<run, lease, beat, timer, age, told>>

-----------------------------------------------------------------------------
(* WorkPoller, with autoStop off and drain off.                             *)

\* An empty or failed poll leaves the worker polling: only the claim is a step.
Poll(w) ==
    /\ pc[w] = "polling" /\ ~stopping[w] /\ item = "queued"
    /\ item' = "polled" /\ holder' = w
    /\ pc' = [pc EXCEPT ![w] = "acking"]
    /\ UNCHANGED <<recorded, left, stopping, lease, loop, told>>

\* The acknowledged item is yielded and its handler starts: #handleItem up to
\* the first heartbeat.
Ack(w) ==
    /\ pc[w] = "acking" /\ ~stopping[w] /\ item = "polled" /\ holder = w
    /\ item' = "starting" /\ left' = Ttl
    /\ pc' = [pc EXCEPT ![w] = "working"]
    /\ beat' = [beat EXCEPT ![w] = "call"]
    /\ answer' = [answer EXCEPT ![w] = "sent"]
    /\ timer' = [timer EXCEPT ![w] = Cutoff(w)]
    /\ UNCHANGED <<holder, recorded, stopping, lease, age, last, told>>

\* A failed acknowledgement skips the item; the call may have arrived.
AckFails(w) ==
    /\ pc[w] = "acking"
    /\ pc' = [pc EXCEPT ![w] = "polling"]
    /\ \/ UNCHANGED server
       \/ /\ Faults /\ item = "polled" /\ holder = w
          /\ item' = "starting" /\ left' = Ttl /\ UNCHANGED <<holder, recorded>>
    /\ Faults \/ stopping[w] \/ item # "polled" \/ holder # w
    /\ UNCHANGED <<stopping, lease, loop, told>>

\* A permanent poll failure, or the external signal between two items.
LeavePool(w) ==
    /\ pc[w] = "polling" /\ (stopping[w] \/ MayReject)
    /\ pc' = [pc EXCEPT ![w] = "exited"]
    /\ UNCHANGED <<server, stopping, lease, loop, told>>

-----------------------------------------------------------------------------
(* Lease and heartbeatLoop.                                                 *)

\* Mutant: the last reason recorded wins.
Finish_LastWins(w, why) ==
    /\ reason' = [reason EXCEPT ![w] = why]
    /\ aborted' = [aborted EXCEPT ![w] = TRUE]

\* finish(): the first reason recorded wins.
Finish(w, why) ==
    /\ reason' = [reason EXCEPT ![w] = IF @ = "none" THEN why ELSE @]
    /\ aborted' = [aborted EXCEPT ![w] = TRUE]

\* The loop ends, and with it its variables.
Ended(w) ==
    /\ beat' = [beat EXCEPT ![w] = "off"]
    /\ answer' = [answer EXCEPT ![w] = "none"]
    /\ timer' = [timer EXCEPT ![w] = 0]
    /\ age' = [age EXCEPT ![w] = 0]
    /\ last' = [last EXCEPT ![w] = "sentinel"]

Asleep(w) ==
    /\ beat' = [beat EXCEPT ![w] = "sleep"]
    /\ answer' = [answer EXCEPT ![w] = "none"]

\* Mutant: only lease_extended is looked at, not the state of the item.
HeedsStop_Never(w) == FALSE

\* state is stopping or stopped, or the lease is not extended.
HeedsStop(w) == answer[w] = "stop"

\* The call succeeds: note when, and what to echo.  The next interval follows
\* the ttl of the answer.
Answered(w) ==
    /\ beat[w] = "call" /\ answer[w] \in {"extended", "extended_old", "stop"}
    /\ ~aborted[w]
    /\ \/ /\ HeedsStop(w)
          /\ Finish(w, "control_plane_stop")
          /\ Ended(w)
       \/ /\ ~HeedsStop(w)
          /\ Asleep(w)
          /\ age' = [age EXCEPT ![w] = 0]
          /\ last' = [last EXCEPT ![w] = IF answer[w] = "extended_old" THEN "old"
                                         ELSE "current"]
          /\ timer' = [timer EXCEPT ![w] = Interval(w)']
          /\ UNCHANGED lease
    /\ UNCHANGED <<server, run, told>>

PreconditionFailed(w) ==
    /\ beat[w] = "call" /\ answer[w] = "precondition" /\ ~aborted[w]
    /\ Finish(w, "lease_lost")
    /\ told' = [told EXCEPT ![w] = TRUE]
    /\ Ended(w)
    /\ UNCHANGED <<server, run>>

\* isFatal4xx: the credentials or the item are gone.
Rejected(w) ==
    /\ MayReject /\ beat[w] = "call" /\ ~aborted[w]
    /\ Finish(w, "heartbeat_rejected")
    /\ Ended(w)
    /\ UNCHANGED <<server, run, told>>

\* The call fails, or is cut off.  The lease is assumed lost when no heartbeat
\* has succeeded for longer than its ttl.
BeatFails(w) ==
    /\ beat[w] = "call" /\ ~aborted[w]
    /\ timer[w] = 0 \/ Faults
    /\ \/ /\ age[w] > KnownTtl(w)
          /\ Finish(w, "assumed_lost")
          /\ Ended(w)
       \/ /\ age[w] <= KnownTtl(w)
          /\ Asleep(w)
          /\ timer' = [timer EXCEPT ![w] = Interval(w)]
          /\ UNCHANGED <<lease, age, last>>
    /\ UNCHANGED <<server, run, told>>

\* The answer is lost and the client sends the call again.
SentAgain(w) ==
    /\ Faults /\ beat[w] = "call" /\ answer[w] # "sent" /\ ~aborted[w]
    /\ answer' = [answer EXCEPT ![w] = "sent"]
    /\ UNCHANGED <<server, run, lease, beat, timer, age, last, told>>

NextBeat(w) ==
    /\ beat[w] = "sleep" /\ timer[w] = 0 /\ ~aborted[w]
    /\ beat' = [beat EXCEPT ![w] = "call"]
    /\ answer' = [answer EXCEPT ![w] = "sent"]
    /\ timer' = [timer EXCEPT ![w] = Cutoff(w)]
    /\ UNCHANGED <<server, run, lease, age, last, told>>

\* The signal of the lease cuts off the call and wakes the sleep.
BeatAborted(w) ==
    /\ aborted[w] /\ beat[w] # "off"
    /\ Ended(w)
    /\ UNCHANGED <<server, run, lease, told>>

-----------------------------------------------------------------------------
(* #handleItem.                                                             *)

\* The session runner ends, for whatever reason, or the set-up fails.
RunnerEnds(w) ==
    /\ pc[w] = "working"
    /\ pc' = [pc EXCEPT ![w] = "teardown"]
    /\ UNCHANGED <<server, stopping, lease, loop, told>>

\* Mutant: the heartbeat loop is awaited before its lease is finished.
TornDown_Unfinished(w) ==
    /\ pc[w] = "teardown"
    /\ pc' = [pc EXCEPT ![w] = "joining"]
    /\ UNCHANGED <<server, stopping, lease, loop, told>>

\* Skills cleaned up, memories flushed: the lease is given back.
TornDown(w) ==
    /\ pc[w] = "teardown"
    /\ pc' = [pc EXCEPT ![w] = "joining"]
    /\ Finish(w, "runner_done")
    /\ UNCHANGED <<server, stopping, loop, told>>

\* The handler's Lease is gone.
Forgotten(w) ==
    /\ aborted' = [aborted EXCEPT ![w] = FALSE]
    /\ reason' = [reason EXCEPT ![w] = "none"]
    /\ told' = [told EXCEPT ![w] = FALSE]

\* Only an item the worker still holds is stopped.
Joined(w) ==
    /\ pc[w] = "joining" /\ beat[w] = "off"
    /\ \/ /\ Lost(w) /\ Forgotten(w)
          /\ pc' = [pc EXCEPT ![w] = "polling"]
       \/ /\ ~Lost(w) /\ UNCHANGED <<lease, told>>
          /\ pc' = [pc EXCEPT ![w] = "force_stop"]
    /\ UNCHANGED <<server, stopping, loop>>

\* forceStop, which has no precondition; a failure is logged and forgotten.
ForceStop(w) ==
    /\ pc[w] = "force_stop"
    /\ pc' = [pc EXCEPT ![w] = "polling"]
    /\ \/ /\ item' = "stopped" /\ holder' = NoWorker
          /\ UNCHANGED <<recorded, left>>
       \/ Faults /\ UNCHANGED server
    /\ Forgotten(w)
    /\ UNCHANGED <<stopping, loop>>

-----------------------------------------------------------------------------
\* The caller's signal reaches the poller and the handler in hand.
AbortWorker(w) ==
    /\ MayAbort /\ ~stopping[w] /\ pc[w] \notin {"exited", "crashed"}
    /\ stopping' = [stopping EXCEPT ![w] = TRUE]
    /\ aborted' = [aborted EXCEPT ![w] = pc[w] \in {"working", "teardown"} \/ @]
    /\ UNCHANGED <<server, pc, reason, loop, told>>

Crash(w) ==
    /\ MayAbort /\ pc[w] \notin {"exited", "crashed"}
    /\ pc' = [pc EXCEPT ![w] = "crashed"]
    /\ Ended(w) /\ Forgotten(w)
    /\ UNCHANGED <<server, stopping>>

\* What happens before time passes: a due timer fires, an abort is seen, and
\* without faults a call is answered.
Prompt(w) ==
    \/ beat[w] # "off" /\ (timer[w] = 0 \/ aborted[w])
    \/ pc[w] = "joining"
    \/ ~Faults /\ (beat[w] = "call" \/ pc[w] \in {"acking", "force_stop"})

MaxAge == Greatest(Ttl, DefaultTtl) + 2 * DefaultInterval + 1

\* Bound: age stops at MaxAge.
Tick ==
    /\ \A w \in Worker : ~Prompt(w)
    /\ left' = Greatest(0, left - 1)
    /\ timer' = [w \in Worker |-> IF beat[w] = "off" THEN timer[w] ELSE timer[w] - 1]
    /\ age' = [w \in Worker |-> IF beat[w] = "off" THEN age[w]
                                ELSE Least(age[w] + 1, MaxAge)]
    /\ UNCHANGED <<item, holder, recorded, run, lease, beat, answer, last, told>>

-----------------------------------------------------------------------------
Beat(w) ==
    \/ Answered(w) \/ PreconditionFailed(w) \/ Rejected(w)
    \/ BeatFails(w) \/ NextBeat(w) \/ BeatAborted(w)

Handler(w) == RunnerEnds(w) \/ TornDown(w) \/ Joined(w) \/ ForceStop(w)

Poller(w) == Poll(w) \/ Ack(w) \/ AckFails(w) \/ LeavePool(w)

Next ==
    \/ Lapse \/ RequestStop \/ Tick
    \/ \E w \in Worker : \/ Record(w) \/ Poller(w) \/ Beat(w) \/ SentAgain(w)
                         \/ Handler(w) \/ AbortWorker(w) \/ Crash(w)

Spec == Init /\ [][Next]_vars

\* Time passes and timers fire; a handler that was told to stop unwinds.
\* Nothing forces a session to end by itself.
Fairness ==
    /\ WF_vars(Tick)
    /\ \A w \in Worker :
        /\ WF_vars(Record(w)) /\ WF_vars(Beat(w))
        /\ WF_vars(aborted[w] /\ RunnerEnds(w))
        /\ WF_vars(TornDown(w) \/ Joined(w) \/ ForceStop(w))

FairSpec == Spec /\ Fairness

-----------------------------------------------------------------------------
TypeOK ==
    /\ item \in {"queued", "polled", "starting", "active", "stopping", "stopped"}
    /\ holder \in Worker \union {NoWorker} /\ recorded \in BOOLEAN /\ left \in Nat
    /\ pc \in [Worker -> {"polling", "acking", "working", "teardown", "joining",
                          "force_stop", "exited", "crashed"}]
    /\ stopping \in [Worker -> BOOLEAN] /\ aborted \in [Worker -> BOOLEAN]
    /\ reason \in [Worker -> {"none", "runner_done", "control_plane_stop",
                              "lease_lost", "heartbeat_rejected", "assumed_lost"}]
    /\ beat \in [Worker -> {"off", "call", "sleep"}]
    /\ answer \in [Worker -> {"none", "sent", "extended", "extended_old", "stop",
                              "precondition"}]
    /\ timer \in [Worker -> 0..DefaultInterval] /\ age \in [Worker -> 0..MaxAge]
    /\ last \in [Worker -> {"sentinel", "current", "old"}]
    /\ told \in [Worker -> BOOLEAN]

\* A worker that cannot renew its lease stops serving: the check of the ttl is
\* made when a beat fails, so at most a sleep and a hung call after it is over.
StaleWorkerStops ==
    \A w \in Worker : Serving(w) => age[w] <= KnownTtl(w) + 2 * Interval(w)

\* A worker that was told its lease is gone does not stop the item, whatever
\* ended its run first or later.
LostIsLeftAlone ==
    \A w \in Worker : pc[w] = "force_stop" => ~told[w]

\* On a network without faults the lease covers the whole run of the item,
\* downloads and teardown included, whatever ttl the control plane grants.
LeaseCoversRun ==
    \A w \in Worker :
        pc[w] \in {"working", "teardown"} /\ reason[w] = "none" /\ ~aborted[w]
            => holder = w

\* A stop the control plane asks for ends the run of every worker, even one
\* that has to find out by itself.
StopIsHeard == item = "stopping" ~> \A w \in Worker : ~Serving(w)

\* The handler of an item ends once it is aborted or its session is over: it
\* waits for a heartbeat loop that the end of the lease stops.
HandlerEnds ==
    \A w \in Worker :
        pc[w] = "teardown" \/ (aborted[w] /\ pc[w] = "working")
            ~> pc[w] \in {"polling", "exited", "crashed"}

\* "Stop only an item this worker still holds" (worker.ts:599).  Not so when the caller
\* aborts a worker (MayAbort): see the README.
StopsOnlyHeld ==
    [][\A w \in Worker : ForceStop(w) /\ item # "stopped" /\ item' = "stopped"
                            => holder = w]_vars
=============================================================================
