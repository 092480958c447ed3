--------------------------- MODULE WorkLeaseProofs ---------------------------
(***************************************************************************)
(* WorkLease, for any workers, any ttl and any intervals: a worker that is  *)
(* cut off stops serving in time, and one that was told its lease is gone   *)
(* leaves the item alone.                                                   *)
(***************************************************************************)
EXTENDS WorkLease, TLAPS

\* What a call may still take, and a sleep before it.
Allowance(w) ==
    CASE beat[w] = "off"   -> 0
      [] beat[w] = "sleep" -> KnownTtl(w) + Interval(w)
      [] OTHER             -> KnownTtl(w) + 2 * Interval(w)

\* The loop runs only under a handler, and its clock leaves room for the call
\* or the sleep it is in.
LoopInv ==
    \A w \in Worker :
        /\ pc[w] \notin {"working", "teardown", "joining"} => beat[w] = "off"
        /\ beat[w] = "off" => timer[w] = 0 /\ last[w] = "sentinel"
        /\ age[w] + timer[w] <= Allowance(w)

\* The reason recorded first stays, and a worker told of the loss recorded it.
LeaseInv ==
    \A w \in Worker :
        /\ reason[w] # "none" => aborted[w]
        /\ told[w] => reason[w] = "lease_lost"
        /\ pc[w] = "force_stop" => ~told[w]

-----------------------------------------------------------------------------
LEMMA Ordering ==
    ASSUME NEW a \in Int, NEW b \in Int
    PROVE  /\ Least(a, b) \in {a, b} /\ Least(a, b) <= a /\ Least(a, b) <= b
           /\ Greatest(a, b) \in {a, b} /\ Greatest(a, b) >= a /\ Greatest(a, b) >= b
BY DEF Least, Greatest

\* A beat interval is at least a tick and at most the default, now and next.
LEMMA IntervalBounds ==
    ASSUME NEW w
    PROVE  /\ Interval(w) \in 1..DefaultInterval /\ KnownTtl(w) \in Nat \ {0}
           /\ Interval(w)' \in 1..DefaultInterval /\ KnownTtl(w)' \in Nat \ {0}
<1>1. Ttl \div 2 \in Int
  BY TimeAssumption
<1>2. /\ Least(Ttl \div 2, DefaultInterval) \in Int
      /\ Least(Ttl \div 2, DefaultInterval) <= DefaultInterval
  BY <1>1, Ordering, TimeAssumption
<1>3. Greatest(1, Least(Ttl \div 2, DefaultInterval)) \in 1..DefaultInterval
  BY <1>2, TimeAssumption DEF Greatest
<1> QED BY <1>3, TimeAssumption DEF Interval, KnownTtl

LEMMA MaxAgeNat == MaxAge \in Nat
BY TimeAssumption DEF MaxAge, Greatest

\* The age kept up to its bound grows by a tick at most.
LEMMA AgeStep ==
    \A a \in Int : Least(a + 1, MaxAge) \in Int /\ Least(a + 1, MaxAge) <= a + 1
BY MaxAgeNat DEF Least

LEMMA FinishType ==
    ASSUME TypeOK, NEW w \in Worker, NEW why, Finish(w, why),
           why \in {"runner_done", "control_plane_stop", "lease_lost",
                    "heartbeat_rejected", "assumed_lost"}
    PROVE  (reason \in [Worker -> {"none", "runner_done", "control_plane_stop",
                 "lease_lost", "heartbeat_rejected", "assumed_lost"}])'
           /\ (aborted \in [Worker -> BOOLEAN])'
BY DEF Finish, TypeOK

-----------------------------------------------------------------------------
LEMMA TypeStep == TypeOK /\ [Next]_vars => TypeOK'
<1> SUFFICES ASSUME TypeOK, [Next]_vars PROVE TypeOK'
  OBVIOUS
<1> USE WorkerAssumption, TimeAssumption, MaxAgeNat
<1> USE DEF TypeOK, server, run, lease, loop
<1>1. CASE Lapse
  BY <1>1 DEF Lapse, Outdated
<1>2. CASE RequestStop
  BY <1>2 DEF RequestStop
<1>3. CASE Tick
  <2>1. left' \in Nat
    BY <1>3 DEF Tick, Greatest
  <2>2. (timer \in [Worker -> 0..DefaultInterval])'
    BY <1>3 DEF Tick, Prompt
  <2>3. (age \in [Worker -> 0..MaxAge])'
    BY <1>3 DEF Tick, Least
  <2> QED BY <1>3, <2>1, <2>2, <2>3 DEF Tick
<1>4. ASSUME NEW w \in Worker, Record(w) PROVE TypeOK'
  <2>1. CASE item \in {"starting", "active"} /\ last' = Outdated
    BY <1>4, <2>1 DEF Record, Outdated
  <2>2. CASE UNCHANGED <<server, last>>
    BY <1>4, <2>2 DEF Record
  <2> QED BY <1>4, <2>1, <2>2 DEF Record
<1>5. ASSUME NEW w \in Worker, Poller(w) PROVE TypeOK'
  <2>1. CASE Poll(w)
    BY <2>1 DEF Poll
  <2>2. CASE Ack(w)
    BY <2>2, IntervalBounds DEF Ack, Cutoff
  <2>3. CASE AckFails(w)
    BY <2>3 DEF AckFails
  <2>4. CASE LeavePool(w)
    BY <2>4 DEF LeavePool
  <2> QED BY <1>5, <2>1, <2>2, <2>3, <2>4 DEF Poller
<1>6. ASSUME NEW w \in Worker, Beat(w) PROVE TypeOK'
  <2>1. CASE Answered(w)
    <3>1. CASE Finish(w, "control_plane_stop") /\ Ended(w)
      BY <2>1, <3>1, FinishType DEF Answered, Ended
    <3>2. CASE ~HeedsStop(w)
      BY <2>1, <3>2, IntervalBounds DEF Answered, Asleep
    <3> QED BY <2>1, <3>1, <3>2 DEF Answered
  <2>2. CASE PreconditionFailed(w)
    BY <2>2, FinishType DEF PreconditionFailed, Ended
  <2>3. CASE Rejected(w)
    BY <2>3, FinishType DEF Rejected, Ended
  <2>4. CASE BeatFails(w)
    <3>1. CASE Finish(w, "assumed_lost") /\ Ended(w)
      BY <2>4, <3>1, FinishType DEF BeatFails, Ended
    <3>2. CASE age[w] <= KnownTtl(w) /\ Asleep(w)
      BY <2>4, <3>2, IntervalBounds DEF BeatFails, Asleep
    <3> QED BY <2>4, <3>1, <3>2 DEF BeatFails
  <2>5. CASE NextBeat(w)
    BY <2>5, IntervalBounds DEF NextBeat, Cutoff
  <2>6. CASE BeatAborted(w)
    BY <2>6 DEF BeatAborted, Ended
  <2> QED BY <1>6, <2>1, <2>2, <2>3, <2>4, <2>5, <2>6 DEF Beat
<1>7. ASSUME NEW w \in Worker, SentAgain(w) PROVE TypeOK'
  BY <1>7 DEF SentAgain
<1>8. ASSUME NEW w \in Worker, Handler(w) PROVE TypeOK'
  <2>1. CASE RunnerEnds(w)
    BY <2>1 DEF RunnerEnds
  <2>2. CASE TornDown(w)
    BY <2>2, FinishType DEF TornDown
  <2>3. CASE Joined(w)
    BY <2>3 DEF Joined, Forgotten
  <2>4. CASE ForceStop(w)
    BY <2>4 DEF ForceStop, Forgotten
  <2> QED BY <1>8, <2>1, <2>2, <2>3, <2>4 DEF Handler
<1>9. ASSUME NEW w \in Worker, AbortWorker(w) PROVE TypeOK'
  BY <1>9 DEF AbortWorker
<1>10. ASSUME NEW w \in Worker, Crash(w) PROVE TypeOK'
  BY <1>10 DEF Crash, Ended, Forgotten
<1>11. CASE UNCHANGED vars
  BY <1>11 DEF vars
<1> QED
  BY <1>1, <1>2, <1>3, <1>4, <1>5, <1>6, <1>7, <1>8, <1>9, <1>10, <1>11 DEF Next

LEMMA TypeInit == Init => TypeOK
<1>1. 0 \in 0..MaxAge /\ 0 \in 0..DefaultInterval /\ 0 \in Nat
  BY TimeAssumption, MaxAgeNat
<1> SUFFICES ASSUME Init PROVE TypeOK
  OBVIOUS
<1>2. timer \in [Worker -> 0..DefaultInterval] /\ age \in [Worker -> 0..MaxAge]
  BY <1>1 DEF Init
<1> QED BY <1>1, <1>2 DEF Init, TypeOK

\* Every variable keeps its type, and no timer runs over.
THEOREM TypeCorrect == Spec => []TypeOK
<1>1. Init => TypeOK
  BY TypeInit
<1>2. TypeOK /\ [Next]_vars => TypeOK'
  BY TypeStep
<1> QED BY <1>1, <1>2, PTL DEF Spec

-----------------------------------------------------------------------------
(* The reason of a loss outlives what ends the run later.                   *)

LEMMA LeaseStep == TypeOK /\ LoopInv /\ LeaseInv /\ [Next]_vars => LeaseInv'
<1> SUFFICES ASSUME TypeOK, LoopInv, LeaseInv, [Next]_vars PROVE LeaseInv'
  OBVIOUS
<1> USE DEF TypeOK, server, run, lease, loop, LeaseInv
<1>1. CASE Lapse \/ RequestStop \/ Tick \/ UNCHANGED vars
  BY <1>1 DEF Lapse, RequestStop, Tick, vars
<1>2. ASSUME NEW w \in Worker, Record(w) \/ SentAgain(w) \/ Poller(w)
      PROVE  LeaseInv'
  BY <1>2 DEF Record, SentAgain, Poller, Poll, Ack, AckFails, LeavePool
<1>3. ASSUME NEW w \in Worker, Beat(w) PROVE LeaseInv'
  <2>1. CASE Answered(w)
    BY <2>1 DEF Answered, Finish
  <2>2. CASE PreconditionFailed(w)
    BY <2>2 DEF PreconditionFailed, Finish, LoopInv
  <2>3. CASE Rejected(w) \/ BeatFails(w)
    BY <2>3 DEF Rejected, BeatFails, Finish
  <2>4. CASE NextBeat(w) \/ BeatAborted(w)
    BY <2>4 DEF NextBeat, BeatAborted
  <2> QED BY <1>3, <2>1, <2>2, <2>3, <2>4 DEF Beat
<1>4. ASSUME NEW w \in Worker, Handler(w) PROVE LeaseInv'
  <2>1. CASE RunnerEnds(w) \/ TornDown(w)
    BY <2>1 DEF RunnerEnds, TornDown, Finish
  <2>2. CASE Joined(w)
    BY <2>2 DEF Joined, Lost, Forgotten
  <2>3. CASE ForceStop(w)
    BY <2>3 DEF ForceStop, Forgotten
  <2> QED BY <1>4, <2>1, <2>2, <2>3 DEF Handler
<1>5. ASSUME NEW w \in Worker, AbortWorker(w) \/ Crash(w) PROVE LeaseInv'
  BY <1>5 DEF AbortWorker, Crash, Forgotten
<1> QED BY <1>1, <1>2, <1>3, <1>4, <1>5 DEF Next

-----------------------------------------------------------------------------
(* The clock of the loop leaves room for the call or the sleep it is in.    *)

LEMMA LoopStep == TypeOK /\ LoopInv /\ [Next]_vars => LoopInv'
<1> SUFFICES ASSUME TypeOK, LoopInv, [Next]_vars PROVE LoopInv'
  OBVIOUS
<1> USE TimeAssumption
<1> USE DEF TypeOK, server, run, lease, loop, LoopInv
<1>a. \A w \in Worker : timer[w] \in Int /\ age[w] \in Int
  BY MaxAgeNat
<1>1. CASE Lapse
  BY <1>1, <1>a DEF Lapse, Outdated, Allowance, KnownTtl, Interval
<1>2. CASE RequestStop \/ UNCHANGED vars
  BY <1>2 DEF RequestStop, vars, Allowance, KnownTtl, Interval
<1>3. CASE Tick
  <2>1. UNCHANGED <<pc, beat, last>>
    BY <1>3 DEF Tick
  <2>2. \A w \in Worker : Allowance(w)' = Allowance(w)
    BY <2>1 DEF Allowance, KnownTtl, Interval
  <2> SUFFICES ASSUME NEW w \in Worker
               PROVE  /\ beat[w] = "off" => timer'[w] = 0
                      /\ age'[w] + timer'[w] <= Allowance(w)
    BY <2>1, <2>2
  <2>3. CASE beat[w] = "off"
    BY <1>3, <2>3 DEF Tick
  <2>4. CASE beat[w] # "off"
    <3>1. timer'[w] = timer[w] - 1 /\ age'[w] = Least(age[w] + 1, MaxAge)
      BY <1>3, <2>4 DEF Tick
    <3>2. age'[w] \in Int /\ age'[w] <= age[w] + 1
      <4> HIDE DEF TypeOK, LoopInv
      <4> QED BY <3>1, <1>a, AgeStep
    <3>3. Allowance(w) \in Int
      BY IntervalBounds DEF Allowance
    <3> QED BY <2>4, <3>1, <3>2, <3>3, <1>a
  <2> QED BY <2>3, <2>4
<1>4. ASSUME NEW w \in Worker, Record(w) PROVE LoopInv'
  BY <1>4, <1>a DEF Record, Outdated, Allowance, KnownTtl, Interval
<1>5. ASSUME NEW w \in Worker, Poller(w) PROVE LoopInv'
  BY <1>5, <1>a, IntervalBounds
     DEF Poller, Poll, Ack, AckFails, LeavePool, Cutoff, Allowance, KnownTtl, Interval
<1>6. ASSUME NEW w \in Worker, Beat(w) PROVE LoopInv'
  <2>1. CASE Ended(w) /\ UNCHANGED pc
    BY <2>1, <1>a DEF Ended, Allowance, KnownTtl, Interval
  <2>2. CASE Answered(w) /\ ~HeedsStop(w)
    <3>1. last' = [last EXCEPT ![w] = last'[w]] /\ last'[w] # "sentinel"
      BY <2>2 DEF Answered
    <3>2. timer'[w] = Interval(w)' /\ age'[w] = 0 /\ beat'[w] = "sleep"
      BY <2>2 DEF Answered, Asleep
    <3>3. age'[w] + timer'[w] <= Allowance(w)'
      BY <3>2, IntervalBounds DEF Allowance
    <3>4. \A v \in Worker \ {w} : Allowance(v)' = Allowance(v)
      BY <2>2, <3>1 DEF Answered, Asleep, Allowance, KnownTtl, Interval
    <3> QED BY <2>2, <3>3, <3>4 DEF Answered, Asleep
  <2>3. CASE BeatFails(w) /\ Asleep(w) /\ age[w] <= KnownTtl(w)
    <3>1. timer' = [timer EXCEPT ![w] = Interval(w)] /\ UNCHANGED <<age, last, pc>>
      BY <2>3, IntervalBounds DEF BeatFails, Finish, Ended, Asleep
    <3>2. \A v \in Worker : KnownTtl(v)' = KnownTtl(v) /\ Interval(v)' = Interval(v)
      BY <3>1 DEF KnownTtl, Interval
    <3>3. beat'[w] = "sleep" /\ timer'[w] = Interval(w) /\ age'[w] = age[w]
      BY <2>3, <3>1 DEF Asleep
    <3>4. age'[w] + timer'[w] <= Allowance(w)'
      BY <2>3, <3>2, <3>3, <1>a, IntervalBounds DEF Allowance
    <3>5. \A v \in Worker \ {w} : Allowance(v)' = Allowance(v)
      BY <2>3, <3>2 DEF Asleep, Allowance
    <3> QED BY <2>3, <3>1, <3>4, <3>5 DEF BeatFails, Asleep
  <2>4. CASE NextBeat(w)
    BY <2>4, <1>a, IntervalBounds DEF NextBeat, Cutoff, Allowance, KnownTtl, Interval
  <2> QED BY <1>6, <2>1, <2>2, <2>3, <2>4
          DEF Beat, Answered, PreconditionFailed, Rejected, BeatFails, BeatAborted
<1>7. ASSUME NEW w \in Worker, SentAgain(w) PROVE LoopInv'
  BY <1>7 DEF SentAgain, Allowance, KnownTtl, Interval
<1>8. ASSUME NEW w \in Worker, Handler(w) PROVE LoopInv'
  BY <1>8 DEF Handler, RunnerEnds, TornDown, Joined, ForceStop, Forgotten,
              Allowance, KnownTtl, Interval
<1>9. ASSUME NEW w \in Worker, AbortWorker(w) \/ Crash(w) PROVE LoopInv'
  BY <1>9, <1>a DEF AbortWorker, Crash, Ended, Allowance, KnownTtl, Interval
<1> QED
  BY <1>1, <1>2, <1>3, <1>4, <1>5, <1>6, <1>7, <1>8, <1>9 DEF Next

-----------------------------------------------------------------------------
LEMMA Invariants == Spec => [](TypeOK /\ LoopInv /\ LeaseInv)
<1>1. Init => TypeOK /\ LoopInv /\ LeaseInv
  BY TypeInit, TimeAssumption DEF Init, LoopInv, LeaseInv, Allowance
<1>2. TypeOK /\ LoopInv /\ LeaseInv /\ [Next]_vars => (TypeOK /\ LoopInv /\ LeaseInv)'
  BY TypeStep, LoopStep, LeaseStep
<1> QED BY <1>1, <1>2, PTL DEF Spec

\* A worker that no heartbeat reaches serves at most two beat intervals longer
\* than the ttl it knows: the check of heartbeatLoop is made in time.
THEOREM CutOffWorkerStops == Spec => []StaleWorkerStops
<1>1. TypeOK /\ LoopInv => StaleWorkerStops
  <2> SUFFICES ASSUME TypeOK, LoopInv, NEW w \in Worker, Serving(w)
               PROVE  age[w] <= KnownTtl(w) + 2 * Interval(w)
    BY DEF StaleWorkerStops
  <2>1. timer[w] \in Nat /\ age[w] \in Nat /\ age[w] + timer[w] <= Allowance(w)
    BY TimeAssumption, MaxAgeNat DEF TypeOK, LoopInv
  <2> QED BY <2>1, IntervalBounds DEF Allowance
<1> QED BY <1>1, Invariants, PTL

\* A worker that learned from a 412 that its lease is gone does not force-stop
\* the item, whichever end of the run is recorded first.
THEOREM LossIsRemembered == Spec => []LostIsLeftAlone
<1>1. LeaseInv => LostIsLeftAlone
  BY DEF LeaseInv, LostIsLeftAlone
<1> QED BY <1>1, Invariants, PTL

-----------------------------------------------------------------------------
(* On a network without faults the holder of the lease keeps it.            *)

Engaged(w) == pc[w] \in {"working", "teardown", "joining", "force_stop"}

\* What is known of the heartbeat of a worker whose run goes on.
Renewing(w) ==
    \/ /\ beat[w] = "sleep" /\ last[w] = "current" /\ recorded /\ left > timer[w]
    \/ /\ beat[w] = "call" /\ timer[w] >= 1
       /\ \/ answer[w] = "sent" /\ IF last[w] = "sentinel" THEN ~recorded
                                   ELSE last[w] = "current" /\ recorded
          \/ answer[w] = "extended" /\ recorded /\ left = Ttl
          \/ answer[w] = "stop" /\ item = "stopping"

CoverInv ==
    /\ item \in {"queued", "polled"} => ~recorded
    /\ \A v, w \in Worker : Engaged(v) /\ Engaged(w) => v = w
    /\ \A w \in Worker :
         /\ ~stopping[w] /\ pc[w] # "crashed"
         /\ pc[w] \in {"acking", "polling", "exited"} =>
              beat[w] = "off" /\ reason[w] = "none" /\ ~aborted[w]
         /\ reason[w] \in {"none", "runner_done", "control_plane_stop"}
         /\ aborted[w] <=> reason[w] # "none"
         /\ pc[w] \in {"joining", "force_stop"} => reason[w] # "none"
         /\ pc[w] \in {"working", "teardown"} => reason[w] # "runner_done"
         /\ Engaged(w) /\ reason[w] = "control_plane_stop" => item \in {"stopping", "stopped"}
         /\ Engaged(w) /\ reason[w] # "control_plane_stop" =>
              holder = w /\ item \in {"starting", "active", "stopping"} /\ left >= 1
         /\ Engaged(w) /\ reason[w] = "none" => Renewing(w)

Faultless == ~Faults /\ ~MayReject /\ ~MayAbort /\ Ttl >= 2

\* Half of a lease is less than the lease.
LEMMA HalfALease ==
    ASSUME Ttl >= 2 PROVE Greatest(1, Least(Ttl \div 2, DefaultInterval)) < Ttl
<1>1. Ttl \div 2 \in Int /\ Ttl \div 2 < Ttl
  BY TimeAssumption
<1>2. Least(Ttl \div 2, DefaultInterval) < Ttl /\ Least(Ttl \div 2, DefaultInterval) \in Int
  BY <1>1, Ordering, TimeAssumption
<1> QED BY <1>2, TimeAssumption DEF Greatest

LEMMA CoverStep ==
    ASSUME Faultless, TypeOK, LoopInv, CoverInv, [Next]_vars PROVE CoverInv'
<1> USE TimeAssumption DEF server, run, lease, loop, Faultless
<1>1. \A w \in Worker : timer[w] \in Nat /\ left \in Nat /\ (beat[w] # "off" => Engaged(w))
  BY DEF TypeOK, LoopInv, Engaged
<1>2. \A w \in Worker : ~Engaged(w) => last[w] = "sentinel" /\ beat[w] = "off"
  BY DEF LoopInv, Engaged, CoverInv, TypeOK
\* The heartbeat of a run that goes on.
<1>3. ASSUME NEW w \in Worker, beat[w] = "call", ~aborted[w]
      PROVE  Engaged(w) /\ reason[w] = "none" /\ Renewing(w)
  BY <1>1, <1>3 DEF CoverInv
<1>4. CASE Lapse
  <2>1. \A w \in Worker : Engaged(w) => reason[w] = "control_plane_stop" /\ item = "stopping"
    BY <1>4 DEF Lapse, CoverInv
  <2> QED BY <1>4, <2>1 DEF Lapse, CoverInv, Engaged
<1>5. CASE RequestStop
  BY <1>5 DEF RequestStop, CoverInv, Engaged, Renewing
<1>6. CASE Tick
  <2>1. \A w \in Worker : Engaged(w) /\ reason[w] # "control_plane_stop" =>
            /\ reason[w] = "none" /\ beat[w] = "sleep" /\ timer[w] >= 1 /\ left > timer[w]
            /\ last[w] = "current" /\ recorded
    <3> SUFFICES ASSUME NEW w \in Worker, Engaged(w), reason[w] # "control_plane_stop"
                 PROVE  /\ reason[w] = "none" /\ beat[w] = "sleep" /\ timer[w] >= 1
                        /\ left > timer[w] /\ last[w] = "current" /\ recorded
      OBVIOUS
    <3>1. ~Prompt(w)
      BY <1>6 DEF Tick
    <3>2. reason[w] = "none"
      BY <3>1 DEF Prompt, CoverInv, Engaged
    <3>3. Renewing(w) /\ beat[w] # "call"
      BY <3>1, <3>2 DEF CoverInv, Prompt
    <3> QED BY <1>1, <3>1, <3>2, <3>3 DEF Renewing, Prompt
  <2>2. \A w \in Worker : beat[w] # "off" => timer'[w] = timer[w] - 1
    BY <1>6 DEF Tick
  <2>3. \A w \in Worker : Engaged(w) /\ reason[w] # "control_plane_stop" =>
            left' = left - 1 /\ left' > timer'[w] /\ left' >= 1
    BY <1>1, <1>6, <2>1, <2>2 DEF Tick, Greatest
  <2> QED BY <1>6, <2>1, <2>3 DEF Tick, CoverInv, Engaged, Renewing
<1>7. ASSUME NEW w \in Worker, Record(w) PROVE CoverInv'
  <2>1. Engaged(w) /\ beat[w] = "call" /\ answer[w] = "sent"
    BY <1>1, <1>7 DEF Record
  <2>2. \A v \in Worker : Engaged(v) => v = w
    BY <2>1 DEF CoverInv
  <2>3. UNCHANGED <<pc, stopping, aborted, reason, beat, timer>>
    BY <1>7 DEF Record
  <2>4. CASE /\ Echoes(w) /\ item \in {"starting", "active"}
             /\ item' = "active" /\ holder' = w /\ recorded' = TRUE /\ left' = Ttl
             /\ answer' = [answer EXCEPT ![w] = "extended"]
    BY <2>1, <2>2, <2>3, <2>4 DEF CoverInv, Engaged, Renewing, TypeOK
  <2>5. CASE /\ item \in {"stopping", "stopped"} /\ UNCHANGED <<server, last>>
             /\ answer' = [answer EXCEPT ![w] = "stop"]
    BY <2>1, <2>2, <2>3, <2>5 DEF CoverInv, Engaged, Renewing, TypeOK
  <2>6. CASE /\ (~Echoes(w) \/ item \in {"queued", "polled"}) /\ UNCHANGED <<server, last>>
             /\ answer' = [answer EXCEPT ![w] = "precondition"]
    <3>1. reason[w] # "none"
      <4> SUFFICES ASSUME reason[w] = "none" PROVE FALSE
        OBVIOUS
      <4>1. Renewing(w) /\ item \in {"starting", "active", "stopping"}
        BY <2>1 DEF CoverInv
      <4> QED BY <2>1, <2>6, <4>1 DEF Renewing, Echoes
    <3> QED BY <2>1, <2>2, <2>3, <2>6, <3>1 DEF CoverInv, Engaged
  <2> QED BY <1>7, <2>4, <2>5, <2>6 DEF Record
<1>8. ASSUME NEW w \in Worker, Poll(w) PROVE CoverInv'
  <2>1. \A v \in Worker : ~Engaged(v)
    BY <1>8 DEF Poll, CoverInv
  <2> QED BY <1>8, <2>1 DEF Poll, CoverInv, Engaged, TypeOK
<1>9. ASSUME NEW w \in Worker, Ack(w) PROVE CoverInv'
  <2>1. \A v \in Worker : ~Engaged(v)
    BY <1>9 DEF Ack, CoverInv
  <2>2. /\ last'[w] = "sentinel" /\ timer'[w] >= 1 /\ beat'[w] = "call" /\ answer'[w] = "sent"
        /\ ~recorded' /\ pc'[w] = "working" /\ left' = Ttl /\ item' = "starting" /\ holder' = w
        /\ reason'[w] = "none" /\ ~aborted'[w]
    BY <1>2, <1>9, <2>1, IntervalBounds DEF Ack, Cutoff, CoverInv, TypeOK
  <2>3. \A v \in Worker \ {w} : UNCHANGED <<pc[v], beat[v], reason[v], aborted[v]>>
    BY <1>9 DEF Ack, TypeOK
  <2>4. UNCHANGED stopping
    BY <1>9 DEF Ack
  <2>5. Renewing(w)'
    BY <2>2 DEF Renewing
  <2>6. \A v \in Worker \ {w} : ~Engaged(v)'
    BY <2>1, <2>3 DEF Engaged
  <2> QED BY <2>1, <2>2, <2>3, <2>4, <2>5, <2>6 DEF CoverInv, Engaged
<1>10. ASSUME NEW w \in Worker, AckFails(w) \/ LeavePool(w) PROVE CoverInv'
  <2>1. AckFails(w) /\ UNCHANGED server /\ pc' = [pc EXCEPT ![w] = "polling"] /\ pc[w] = "acking"
    BY <1>10 DEF AckFails, LeavePool, CoverInv
  <2> QED BY <2>1 DEF AckFails, CoverInv, Engaged, Renewing, TypeOK
<1>11. ASSUME NEW w \in Worker, Answered(w) PROVE CoverInv'
  <2>1. Engaged(w) /\ reason[w] = "none" /\ Renewing(w) /\ beat[w] = "call"
    BY <1>3, <1>11 DEF Answered
  <2>2. \A v \in Worker : Engaged(v) => v = w
    BY <2>1 DEF CoverInv
  <2>3. CASE HeedsStop(w)
    <3>1. item = "stopping"
      BY <2>1, <2>3 DEF Renewing, HeedsStop
    <3>2. Finish(w, "control_plane_stop") /\ Ended(w) /\ UNCHANGED <<server, run>>
      BY <1>11, <2>3 DEF Answered
    <3> QED BY <2>1, <2>2, <3>1, <3>2 DEF Finish, Ended, CoverInv, Engaged, TypeOK
  <2>4. CASE ~HeedsStop(w)
    <3>1. answer[w] = "extended" /\ recorded /\ left = Ttl
      BY <1>11, <2>1, <2>4 DEF Renewing, HeedsStop, Answered
    <3>2. /\ last'[w] = "current" /\ beat'[w] = "sleep" /\ timer'[w] = Interval(w)'
          /\ UNCHANGED <<server, run, lease>>
          /\ \A v \in Worker \ {w} : beat'[v] = beat[v]
      BY <1>11, <2>4, <3>1 DEF Answered, Asleep, TypeOK
    <3>3. Interval(w)' < Ttl
      BY <3>2, HalfALease DEF Interval
    <3> QED BY <2>1, <2>2, <3>1, <3>2, <3>3 DEF CoverInv, Engaged, Renewing, TypeOK
  <2> QED BY <2>3, <2>4
<1>12. ASSUME NEW w \in Worker, \/ PreconditionFailed(w) \/ Rejected(w) \/ BeatFails(w)
                                \/ SentAgain(w) \/ AbortWorker(w) \/ Crash(w)
       PROVE  FALSE
  <2>1. PreconditionFailed(w) \/ BeatFails(w)
    BY <1>12 DEF Rejected, SentAgain, AbortWorker, Crash
  <2>2. beat[w] = "call" /\ ~aborted[w]
    BY <2>1 DEF PreconditionFailed, BeatFails
  <2> QED BY <1>3, <2>1, <2>2 DEF PreconditionFailed, BeatFails, Renewing
<1>13. ASSUME NEW w \in Worker, NextBeat(w) PROVE CoverInv'
  <2>1. beat[w] = "sleep" /\ timer[w] = 0 /\ ~aborted[w]
    BY <1>13 DEF NextBeat
  <2>2. Engaged(w) /\ reason[w] = "none" /\ Renewing(w)
    BY <1>1, <2>1 DEF CoverInv
  <2>3. \A v \in Worker : Engaged(v) => v = w
    BY <2>2 DEF CoverInv
  <2>4. /\ beat'[w] = "call" /\ answer'[w] = "sent" /\ timer'[w] >= 1
        /\ UNCHANGED <<server, run, lease, last>>
        /\ \A v \in Worker \ {w} : beat'[v] = beat[v]
    BY <1>13, IntervalBounds DEF NextBeat, Cutoff, TypeOK
  <2> QED BY <2>1, <2>2, <2>3, <2>4 DEF CoverInv, Engaged, Renewing
<1>14. ASSUME NEW w \in Worker, BeatAborted(w) PROVE CoverInv'
  <2>1. reason[w] # "none" /\ UNCHANGED <<server, run, lease>> /\ Ended(w)
    BY <1>14 DEF BeatAborted, CoverInv
  <2>2. /\ \A v \in Worker \ {w} : /\ beat'[v] = beat[v] /\ last'[v] = last[v]
                                   /\ timer'[v] = timer[v] /\ answer'[v] = answer[v]
        /\ beat'[w] = "off"
    BY <2>1 DEF Ended, TypeOK
  <2> QED BY <2>1, <2>2 DEF CoverInv, Engaged, Renewing
<1>15. ASSUME NEW w \in Worker, RunnerEnds(w) \/ TornDown(w) PROVE CoverInv'
  <2>1. CASE RunnerEnds(w)
    BY <2>1 DEF RunnerEnds, CoverInv, Engaged, Renewing, TypeOK
  <2>2. CASE TornDown(w)
    BY <2>2 DEF TornDown, Finish, CoverInv, Engaged, Renewing, TypeOK
  <2> QED BY <1>15, <2>1, <2>2
<1>16. ASSUME NEW w \in Worker, Joined(w) PROVE CoverInv'
  <2>1. ~Lost(w)
    BY DEF CoverInv, Lost
  <2> QED BY <1>16, <2>1 DEF Joined, CoverInv, Engaged, Renewing, TypeOK
<1>17. ASSUME NEW w \in Worker, ForceStop(w) PROVE CoverInv'
  <2>1. Engaged(w) /\ beat[w] = "off"
    BY <1>17 DEF ForceStop, Engaged, LoopInv
  <2>2. \A v \in Worker : Engaged(v) => v = w
    BY <2>1 DEF CoverInv
  <2> QED BY <1>17, <2>1, <2>2 DEF ForceStop, Forgotten, CoverInv, Engaged, TypeOK
<1>18. CASE UNCHANGED vars
  BY <1>18 DEF vars, CoverInv, Engaged, Renewing
<1> QED BY <1>4, <1>5, <1>6, <1>7, <1>8, <1>9, <1>10, <1>11, <1>12, <1>13, <1>14, <1>15,
           <1>16, <1>17, <1>18 DEF Next, Poller, Beat, Handler

\* Where no call fails and nobody aborts the worker, the handler of an item holds its
\* lease until its heartbeat loop ends, whatever lease of two ticks or more is granted and
\* however the default interval compares to it (heartbeatLoop, nextIntervalMs).
THEOREM LeaseIsHeld == ASSUME Faultless PROVE Spec => []LeaseCoversRun
<1>1. Init => TypeOK /\ LoopInv /\ CoverInv
  BY TypeInit, TimeAssumption DEF Init, LoopInv, Allowance, CoverInv, Engaged
<1>2. TypeOK /\ LoopInv /\ CoverInv /\ [Next]_vars => (TypeOK /\ LoopInv /\ CoverInv)'
  BY TypeStep, LoopStep, CoverStep
<1>3. CoverInv => LeaseCoversRun
  BY DEF CoverInv, LeaseCoversRun, Engaged
<1> QED BY <1>1, <1>2, <1>3, PTL DEF Spec
=============================================================================
