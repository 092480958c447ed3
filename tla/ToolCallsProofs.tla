---------------------------- MODULE ToolCallsProofs ----------------------------
(***************************************************************************)
(* Theorems about ToolCalls, for every number of calls, every set of        *)
(* replies the model may give and any number of loops over the stream.      *)
(*                                                                          *)
(* The invariants: StreamInv says which call is closed or ready after an    *)
(* event; CallInv how #calls, run and times go together; ToolsetInv that a  *)
(* toolset which is idle has seen every call handed over so far end well,   *)
(* and one that is running all but the call that runs; EndInv that a        *)
(* stream is aborted before the runner moves on.                            *)
(***************************************************************************)
EXTENDS ToolCalls, TLAPS

MovedOn(c) == MovedOnAt(c) \in 1..emitted
Handed(c)  == MovedOn(c) /\ ready[c] = 0

StreamInv ==
    /\ emitted <= LastEvent
    /\ fallback <=> (reply.fallback <= N /\ FallbackAt <= emitted)
    /\ fallback => closed = 0
    /\ \A c \in Call : closed = c => StopAt(c) <= emitted /\ ~MovedOn(c)
    /\ \A c \in Call : MovedOnAt(c) # 0 /\ emitted = StopAt(c) => closed = c
    /\ \A c \in Call : ready[c] # 0 => ready[c] = MovedOnAt(c) /\ MovedOn(c)

CallInv ==
    /\ Family \subseteq present
    /\ \A c \in Call : times[c] \in {0, 1}
    /\ \A c \in Call : times[c] = 1 => run[c] \notin {"no", "queued"} /\ calls[c] = "started"
    /\ \A c \in Call : reply.kind[c] # "malformed" => (calls[c] = "started" <=> run[c] # "no")
    /\ \A c \in Call : reply.kind[c] = "malformed" => run[c] \in {"no", "error"}
    /\ \A c \in Family : run[c] # "missing"

ToolsetInv ==
    /\ \A c \in early : Handed(c) /\ calls[c] = "started"
    /\ toolset = "idle" => \A c \in Family : Handed(c) => run[c] = "ok"
    /\ toolset = "running" =>
         \E e \in early \intersect Family :
           \A c \in Family \ {e} : Handed(c) => run[c] = "ok"

EndInv ==
    /\ pc \in {"settling", "over"} => broken
    /\ QuietOnceOver

-----------------------------------------------------------------------------
(* The numbers of the events.                                               *)

LEMMA ReplyParts ==
    ASSUME reply \in Replies
    PROVE  /\ reply.fallback \in Nat /\ reply.stop \in {"tool_use", "cut"}
           /\ \A c \in Call : reply.kind[c] \in {"function", "member", "malformed"}
           /\ N \in Nat \ {0} /\ Family \subseteq Call
  BY ReplyAssumption, CallAssumption DEF Family

LEMMA MoveOnEvent ==
    ASSUME reply \in Replies, NEW c \in Call
    PROVE  /\ MovedOnAt(c) \in {0, 2 * c + 1}
           /\ MovedOnAt(c) # 0 <=> /\ c < reply.fallback \/ reply.fallback > N
                                   /\ c < N \/ reply.stop = "tool_use"
           /\ MovedOnAt(c) # 0 => StopAt(c) = 2 * c
  BY ReplyParts DEF MovedOnAt, StartAt, StopAt, StopReason, Call

LEMMA EventNumbers ==
    ASSUME reply \in Replies
    PROVE  /\ FallbackAt = 2 * reply.fallback + 1
           /\ StopReason \in {2 * N + 1, 2 * N + 2} /\ LastEvent = StopReason + 1
           /\ reply.fallback <= N => StopReason = 2 * N + 2
           /\ reply.fallback > N => StopReason = 2 * N + 1
           /\ \A c \in Call : /\ c <= reply.fallback => StartAt(c) = 2 * c - 1 /\ StopAt(c) = 2 * c
                              /\ c > reply.fallback => StartAt(c) = 2 * c /\ StopAt(c) = 2 * c + 1
  BY ReplyParts DEF FallbackAt, StopReason, LastEvent, StartAt, StopAt, Call

-----------------------------------------------------------------------------
(* Handing calls over.                                                      *)

\* What StartTools does to each variable, for calls that may be handed over.
LEMMA Started ==
    ASSUME TypeOK, CallInv, ToolsetInv, NEW S \in SUBSET Call,
           NEW cls \in [Call -> {"none", "held", "started"}],
           \A c \in Call : cls[c] = "started" <=> calls[c] = "started",
           \A c \in Call : cls[c] = "none" => calls[c] = "none",
           StartTools(S, cls)
    PROVE  /\ calls' \in [Call -> {"none", "held", "started"}]
           /\ run' \in [Call -> {"no", "queued", "running"} \union Settled]
           /\ times' \in [Call -> Nat] /\ early' \subseteq Call
           /\ toolset' \in {"idle", "running", "waiting"}
           /\ \A c \in early' \ early : /\ c \in S /\ cls[c] = "none" /\ calls'[c] = "started"
                                        /\ reply.kind[c] # "malformed"
           /\ early \subseteq early'
           /\ \A c \in Call : c \notin early' \ early =>
                run'[c] = run[c] /\ times'[c] = times[c] /\ calls'[c] = cls[c]
           /\ \A c \in early' \ early :
                /\ run'[c] \in {"running", "missing"} /\ (c \in Family => run'[c] = "running")
                /\ times'[c] \in {times[c], times[c] + 1}
           /\ S \intersect Family = {} => toolset' = toolset
           /\ S \intersect Family # {} => toolset' # "idle"
           /\ toolset' = "running" /\ S \intersect Family # {} =>
                \E e \in Family : S \intersect Family = {e} /\ e \in early' \ early
                                  /\ toolset = "idle"
           /\ \A c \in (early' \ early) \intersect Family :
                toolset = "idle" /\ \A d \in S \intersect Family : c <= d
  <1> DEFINE fam   == S \intersect Family
             first == {c \in fam : \A d \in fam : c <= d}
             new   == {c \in (S \ Family) \union (IF toolset = "idle" THEN first ELSE {}) :
                          cls[c] = "none" /\ reply.kind[c] # "malformed"}
  <1>0. N \in Nat /\ Family \subseteq Call
    BY ReplyParts DEF TypeOK
  <1>1. /\ toolset' = IF fam = {} THEN toolset
                      ELSE IF fam \subseteq new THEN "running" ELSE "waiting"
        /\ calls' = [c \in Call |-> IF c \in new THEN "started" ELSE cls[c]]
        /\ early' = early \union new
        /\ run' = [c \in Call |-> IF c \in new THEN LookUp(c) ELSE run[c]]
        /\ times' = [c \in Call |-> IF c \in new /\ c \in present
                                     THEN times[c] + 1 ELSE times[c]]
    BY DEF StartTools, Runs
  <1>2. new \subseteq S /\ new \subseteq Call
    OBVIOUS
  <1>3. \A c \in new : cls[c] = "none" /\ calls[c] # "started" /\ reply.kind[c] # "malformed"
    OBVIOUS
  <1>4. \A c \in new \intersect Family : toolset = "idle" /\ \A d \in fam : c <= d
    OBVIOUS
  <1>5. early' \ early \subseteq new
    BY <1>1
  <1>6. new \intersect early = {}
    BY <1>3, <1>2 DEF ToolsetInv
  <1>7. \A c, d \in fam : c <= d /\ d <= c => c = d
    BY <1>0 DEF Call
  <1> HIDE DEF new
  <1> QED
    BY <1>0, <1>1, <1>2, <1>3, <1>4, <1>5, <1>6, <1>7 DEF TypeOK, CallInv, LookUp, Settled

\* What is true of every step that hands calls over.
LEMMA Released ==
    ASSUME TypeOK, CallInv, ToolsetInv,
           NEW rdy \in [Call -> 0..(2 * N + 3)], NEW rdr \in [Reader -> 0..NotReading],
           NEW cls \in [Call -> {"none", "held", "started"}],
           \A c \in Call : cls[c] = "started" <=> calls[c] = "started",
           \A c \in Call : cls[c] = "none" => calls[c] = "none",
           Release(rdy, rdr, cls), reply' = reply, present' = present,
           emitted \in Nat, emitted' \in Nat,
           \A c \in Call : rdy[c] # 0 => rdy[c] = MovedOnAt(c) /\ MovedOnAt(c) \in 1..emitted',
           \A c \in Call : Handed(c) <=> MovedOnAt(c) \in 1..emitted' /\ rdy[c] = 0
    PROVE  /\ calls' \in [Call -> {"none", "held", "started"}]
           /\ run' \in [Call -> {"no", "queued", "running"} \union Settled]
           /\ times' \in [Call -> Nat] /\ early' \subseteq Call
           /\ toolset' \in {"idle", "running", "waiting"}
           /\ ready' \in [Call -> 0..(2 * N + 3)]
           /\ CallInv' /\ ToolsetInv'
           /\ \A c \in Call : ready'[c] # 0 => ready'[c] = MovedOnAt(c) /\ MovedOn(c)'
           /\ \A c \in early' \ early :
                /\ MovedOnAt(c) \in 1..emitted' /\ calls[c] # "held" /\ ~broken
                /\ \A r \in Reader : MovedOnAt(c) <= rdr[r]
           /\ \A c \in Call : run'[c] # run[c] => c \in early' \ early
           /\ \A c \in (early' \ early) \intersect Family :
                \A d \in Family : d < c => run'[d] = "ok"
  <1> DEFINE S == HandedOver(rdy, rdr)
  <1>0. N \in Nat /\ Family \subseteq Call /\ reply \in Replies
    BY ReplyParts DEF TypeOK
  <1>1. /\ ready' = [c \in Call |-> IF c \in S THEN 0 ELSE rdy[c]]
        /\ StartTools(S, cls)
    BY DEF Release
  <1>2. S \subseteq Call /\ \A c \in S : /\ ~broken /\ rdy[c] # 0
                                     /\ \A r \in Reader : rdy[c] <= rdr[r]
    BY DEF HandedOver
  <1>3. \A c \in Call : ~broken /\ rdy[c] # 0 /\ (\A r \in Reader : rdy[c] <= rdr[r])
                      => c \in S
    BY DEF HandedOver
  <1>4. /\ \A c \in Call : MovedOnAt(c)' = MovedOnAt(c)
        /\ Family' = Family
    BY DEF MovedOnAt, StartAt, StopReason, Family
  <1> HIDE DEF S
  <1>5. /\ calls' \in [Call -> {"none", "held", "started"}]
        /\ run' \in [Call -> {"no", "queued", "running"} \union Settled]
        /\ times' \in [Call -> Nat] /\ early' \subseteq Call
        /\ toolset' \in {"idle", "running", "waiting"}
    BY <1>1, <1>2, Started
  <1>6. /\ \A c \in early' \ early : /\ c \in S /\ cls[c] = "none" /\ calls'[c] = "started"
                                     /\ reply.kind[c] # "malformed"
        /\ early \subseteq early'
        /\ \A c \in Call : c \notin early' \ early =>
             run'[c] = run[c] /\ times'[c] = times[c] /\ calls'[c] = cls[c]
        /\ \A c \in early' \ early :
             /\ run'[c] \in {"running", "missing"} /\ (c \in Family => run'[c] = "running")
             /\ times'[c] \in {times[c], times[c] + 1}
    BY <1>1, <1>2, Started
  <1>7. /\ S \intersect Family = {} => toolset' = toolset
        /\ S \intersect Family # {} => toolset' # "idle"
        /\ toolset' = "running" /\ S \intersect Family # {} =>
             \E e \in Family : S \intersect Family = {e} /\ e \in early' \ early
                               /\ toolset = "idle"
        /\ \A c \in (early' \ early) \intersect Family :
             toolset = "idle" /\ \A d \in S \intersect Family : c <= d
    BY <1>1, <1>2, Started
  <1>8. ready' \in [Call -> 0..(2 * N + 3)]
    BY <1>0, <1>1
  <1>9. \A c \in Call : Handed(c)' => Handed(c) \/ c \in S
    BY <1>1, <1>4 DEF Handed, MovedOn
  <1>10. \A c \in Call : Handed(c) => Handed(c)'
    BY <1>1, <1>4 DEF Handed, MovedOn
  <1>11. \A c \in S : Handed(c)'
    BY <1>1, <1>2, <1>4 DEF Handed, MovedOn
  <1>12. CallInv'
    <2>1. \A c \in Call : reply.kind[c] # "malformed" =>
                          (calls'[c] = "started" <=> run'[c] # "no")
      BY <1>6 DEF CallInv
    <2>2. \A c \in early' \ early : times[c] = 0 /\ calls[c] # "started"
      BY <1>2, <1>6 DEF CallInv
    <2>3. \A c \in Call : times'[c] \in {0, 1}
      BY <1>2, <1>6, <2>2 DEF CallInv
    <2>4. \A c \in Call : times'[c] = 1 => run'[c] \notin {"no", "queued"} /\ calls'[c] = "started"
      BY <1>2, <1>6, <2>2 DEF CallInv
    <2>5. \A c \in Call : reply.kind[c] = "malformed" => run'[c] \in {"no", "error"}
      BY <1>6 DEF CallInv
    <2>6. \A c \in Family : run'[c] # "missing"
      BY <1>0, <1>6 DEF CallInv
    <2> QED  BY <1>4, <2>1, <2>3, <2>4, <2>5, <2>6 DEF CallInv
  <1>13. \A c \in early' : Handed(c)' /\ calls'[c] = "started"
    BY <1>2, <1>5, <1>6, <1>10, <1>11 DEF ToolsetInv
  <1>14. toolset' = "idle" => \A c \in Family : Handed(c)' => run'[c] = "ok"
    BY <1>0, <1>6, <1>7, <1>9 DEF ToolsetInv
  <1>15. toolset' = "running" =>
           \E e \in early' \intersect Family :
             \A c \in Family \ {e} : Handed(c)' => run'[c] = "ok"
    <2>1. CASE S \intersect Family = {}
      BY <1>0, <1>6, <1>7, <1>9, <2>1 DEF ToolsetInv
    <2>2. CASE S \intersect Family # {}
      BY <1>0, <1>6, <1>7, <1>9, <2>2 DEF ToolsetInv
    <2> QED  BY <2>1, <2>2
  <1>16. ToolsetInv'
    BY <1>4, <1>13, <1>14, <1>15 DEF ToolsetInv
  <1>17. \A c \in Call : ready'[c] # 0 => ready'[c] = MovedOnAt(c) /\ MovedOn(c)'
    BY <1>1, <1>4 DEF MovedOn
  <1>18. \A c \in early' \ early :
           /\ MovedOnAt(c) \in 1..emitted' /\ calls[c] # "held" /\ ~broken
           /\ \A r \in Reader : MovedOnAt(c) <= rdr[r]
    BY <1>2, <1>6
  <1>19. \A c \in Call : run'[c] # run[c] => c \in early' \ early
    BY <1>6
  <1>20. ASSUME NEW c \in (early' \ early) \intersect Family, NEW d \in Family, d < c
         PROVE  run'[d] = "ok"
    <2>1. c \in S /\ c \in Call /\ d \in Call /\ toolset = "idle" /\ ~(d \in S)
      BY <1>0, <1>2, <1>6, <1>7, <1>20 DEF Call
    <2>2. MovedOnAt(c) = 2 * c + 1 /\ MovedOnAt(d) = 2 * d + 1
      BY <1>0, <1>2, <2>1, <1>20, MoveOnEvent, ReplyParts DEF Call
    <2>3. rdy[d] = 0
      <3> SUFFICES ASSUME rdy[d] # 0
                   PROVE  d \in S
        BY <2>1
      <3>1. rdy[d] = 2 * d + 1 /\ rdy[c] = 2 * c + 1
        BY <1>2, <2>1, <2>2
      <3>2. \A r \in Reader : rdy[d] <= rdr[r]
        BY <1>0, <1>2, <1>20, <2>1, <3>1 DEF Call, NotReading
      <3> QED  BY <1>2, <1>3, <2>1, <3>2
    <2>4. Handed(d)
      BY <1>0, <1>2, <1>20, <2>1, <2>2, <2>3 DEF Call
    <2> QED  BY <1>6, <2>1, <2>4 DEF ToolsetInv
  <1> QED
    BY <1>5, <1>8, <1>12, <1>16, <1>17, <1>18, <1>19, <1>20

-----------------------------------------------------------------------------
(* The inductive invariant.                                                 *)

IInv == TypeOK /\ StreamInv /\ CallInv /\ ToolsetInv /\ EndInv

LEMMA InitIInv == Init => IInv
  <1> SUFFICES ASSUME Init
               PROVE  IInv
    OBVIOUS
  <1>0. N \in Nat \ {0} /\ reply \in Replies /\ reply.fallback \in Nat
    BY ReplyParts DEF Init
  <1>1. TypeOK
    <2>1. ready \in [Call -> 0..(2 * N + 3)] /\ reader \in [Reader -> 0..NotReading]
      BY <1>0 DEF Init, NotReading
    <2>2. 0 \in 0..(2 * N + 3) /\ 0 \in 0..N
      BY <1>0
    <2>3. calls \in [Call -> {"none", "held", "started"}] /\ times \in [Call -> Nat]
          /\ run \in [Call -> {"no", "queued", "running"} \union Settled]
      BY DEF Init
    <2> QED  BY <2>1, <2>2, <2>3 DEF Init, TypeOK
  <1>2. StreamInv
    <2>1. emitted <= LastEvent
      BY <1>0, EventNumbers DEF Init
    <2>2. fallback <=> (reply.fallback <= N /\ FallbackAt <= emitted)
      BY <1>0, EventNumbers DEF Init
    <2>3. \A c \in Call : MovedOnAt(c) # 0 => StopAt(c) # 0
      BY <1>0, MoveOnEvent DEF Call
    <2> QED  BY <1>0, <2>1, <2>2, <2>3 DEF Init, StreamInv, Call
  <1>3. CallInv
    BY DEF Init, CallInv, Family
  <1>4. ToolsetInv
    BY <1>0 DEF Init, ToolsetInv, Handed, MovedOn, Family
  <1>5. EndInv
    BY DEF Init, EndInv, QuietOnceOver
  <1> QED  BY <1>1, <1>2, <1>3, <1>4, <1>5 DEF IInv

\* What a step that emits nothing leaves as it is.
LEMMA SameStream ==
    ASSUME reply' = reply, emitted' = emitted
    PROVE  /\ \A c \in Call : MovedOnAt(c)' = MovedOnAt(c) /\ StopAt(c)' = StopAt(c)
                              /\ (MovedOn(c)' <=> MovedOn(c))
           /\ Family' = Family /\ LastEvent' = LastEvent /\ FallbackAt' = FallbackAt
           /\ closed' = closed /\ fallback' = fallback /\ ready' = ready /\ StreamInv =>
                StreamInv' /\ \A c \in Call : Handed(c)' <=> Handed(c)
  <1>1. /\ \A c \in Call : MovedOnAt(c)' = MovedOnAt(c) /\ StopAt(c)' = StopAt(c)
                              /\ (MovedOn(c)' <=> MovedOn(c))
        /\ Family' = Family /\ LastEvent' = LastEvent /\ FallbackAt' = FallbackAt
    BY DEF MovedOnAt, MovedOn, StartAt, StopAt, StopReason, LastEvent, FallbackAt, Family
  <1> QED  BY <1>1 DEF StreamInv, Handed

\* What a step that touches neither the stream nor the calls does not disturb.
LEMMA SameCalls ==
    ASSUME IInv, UNCHANGED <<reply, streamVars, callVars>>,
           present' \subseteq Call, Family \subseteq present'
    PROVE  StreamInv' /\ CallInv' /\ ToolsetInv'
  <1>1. /\ Family' = Family /\ StreamInv'
        /\ \A c \in Call : Handed(c)' <=> Handed(c)
    BY SameStream DEF IInv, streamVars
  <1>2. CallInv'
    BY <1>1 DEF IInv, CallInv, callVars
  <1>3. ToolsetInv'
    <2>1. early \subseteq Call /\ Family \subseteq Call
      BY DEF IInv, TypeOK, Family
    <2> QED  BY <1>1, <2>1 DEF IInv, ToolsetInv, callVars
  <1> QED  BY <1>1, <1>2, <1>3

-----------------------------------------------------------------------------
(* One event of the stream.                                                 *)

LEMMA EmitStream ==
    ASSUME IInv, Emit
    PROVE  /\ emitted' = emitted + 1 /\ emitted' <= LastEvent /\ LastEvent' = LastEvent
           /\ fallback' \in BOOLEAN /\ closed' \in 0..N
           /\ fallback' <=> (reply.fallback <= N /\ FallbackAt <= emitted')
           /\ fallback' => closed' = 0
           /\ \A c \in Call : closed' = c => StopAt(c) <= emitted' /\ MovedOnAt(c) \notin 1..emitted'
           /\ \A c \in Call : MovedOnAt(c) # 0 /\ emitted' = StopAt(c) => closed' = c
           /\ \E D \in SUBSET Call :
                \E rdy \in [Call -> 0..(2 * N + 3)] :
                  /\ Release(rdy, reader, Hold(D))
                  /\ \A c \in Call : rdy[c] # 0 =>
                       rdy[c] = MovedOnAt(c) /\ MovedOnAt(c) \in 1..emitted'
                  /\ \A c \in Call : Handed(c) <=> MovedOnAt(c) \in 1..emitted' /\ rdy[c] = 0
  <1> DEFINE n    == emitted + 1
             over == fallback \/ n = FallbackAt
             next == \/ \E c \in Call : n = StartAt(c)
                     \/ n = StopReason /\ reply.stop = "tool_use"
             stop == {c \in Call : n = StopAt(c)}
             rdy  == IF ~over /\ closed # 0 /\ next THEN [ready EXCEPT ![closed] = n] ELSE ready
  <1>1. /\ emitted < LastEvent /\ emitted' = n /\ fallback' = over
        /\ closed' = IF fallback THEN closed
                     ELSE IF n = FallbackAt \/ next THEN 0
                     ELSE IF stop # {} THEN CHOOSE c \in stop : TRUE ELSE closed
        /\ \E D \in SUBSET Shown(n) : Release(rdy, reader, Hold(D))
        /\ reply' = reply
    BY DEF Emit
  <1>2. /\ N \in Nat \ {0} /\ reply \in Replies /\ reply.fallback \in Nat
        /\ emitted \in Nat /\ n \in Nat /\ StopReason \in Nat /\ LastEvent \in Nat
        /\ closed \in 0..N /\ fallback \in BOOLEAN /\ ready \in [Call -> 0..(2 * N + 3)]
        /\ FallbackAt = 2 * reply.fallback + 1 /\ LastEvent = StopReason + 1
        /\ (reply.fallback <= N => StopReason = 2 * N + 2)
        /\ (reply.fallback > N => StopReason = 2 * N + 1)
    BY ReplyParts, EventNumbers DEF IInv, TypeOK
  <1>s. \A c \in Call :
          /\ c <= reply.fallback => StartAt(c) = 2 * c - 1 /\ StopAt(c) = 2 * c
          /\ c > reply.fallback => StartAt(c) = 2 * c /\ StopAt(c) = 2 * c + 1
    BY <1>2, EventNumbers
  <1>n. N \in Nat /\ reply.fallback \in Nat /\ emitted \in Nat /\ n \in Nat /\ n = emitted + 1
        /\ FallbackAt = 2 * reply.fallback + 1
    BY <1>2
  <1>c. /\ \A c \in Call : c \in Nat /\ 1 <= c /\ c <= N
        /\ \A c \in Nat : 1 <= c /\ c <= N => c \in Call
    BY <1>2 DEF Call
  <1>3. \A c \in Call : /\ MovedOnAt(c) \in {0, 2 * c + 1}
                        /\ MovedOnAt(c) # 0 <=> /\ c < reply.fallback \/ reply.fallback > N
                                                /\ c < N \/ reply.stop = "tool_use"
                        /\ MovedOnAt(c) # 0 => StopAt(c) = 2 * c
    BY <1>2, MoveOnEvent
  <1>4. StreamInv
    BY DEF IInv
  <1>5. n <= LastEvent /\ LastEvent' = LastEvent /\ n <= 2 * N + 3
    BY <1>1, <1>c, <1>s, <1>2 DEF LastEvent, StopReason
  <1>6. over <=> (reply.fallback <= N /\ FallbackAt <= n)
    BY <1>c, <1>s, <1>2, <1>4, <1>5 DEF StreamInv
  <1>7. \A c \in Call : MovedOnAt(c) = n => next /\ ~over
    <2> SUFFICES ASSUME NEW c \in Call, MovedOnAt(c) = n
                 PROVE  next /\ ~over
      OBVIOUS
    <2>1. n = 2 * c + 1 /\ (c < reply.fallback \/ reply.fallback > N)
          /\ (c < N \/ reply.stop = "tool_use")
      BY <1>c, <1>s, <1>2, <1>3
    <2>2. ~over
      BY <1>c, <1>s, <1>2, <1>6, <2>1
    <2>3. CASE c < N
      <3>1. c + 1 \in Call /\ StartAt(c + 1) = n
        BY <1>c, <1>s, <1>2, <2>1, <2>3
      <3> QED  BY <2>2, <3>1
    <2>4. CASE c = N
      BY <1>c, <1>s, <1>2, <2>1, <2>2, <2>4
    <2> QED  BY <1>c, <1>s, <1>2, <2>3, <2>4
  <1>8. stop # {} => (CHOOSE c \in stop : TRUE) \in stop
    OBVIOUS
  <1>9. closed # 0 => closed \in Call
    BY <1>c, <1>s, <1>2
  <1>10. ~over /\ closed # 0 /\ next => MovedOnAt(closed) = n
    <2> SUFFICES ASSUME ~over, closed # 0, next
                 PROVE  MovedOnAt(closed) = n
      OBVIOUS
    <2>1. closed \in Call /\ StopAt(closed) <= emitted /\ MovedOnAt(closed) \notin 1..emitted
      BY <1>4, <1>9 DEF StreamInv, MovedOn
    <2>2. reply.fallback > N \/ n < FallbackAt
      BY <1>c, <1>s, <1>2, <1>6
    <2>3. closed < reply.fallback \/ reply.fallback > N
      <3>1. closed \in Nat /\ (closed <= reply.fallback => StopAt(closed) = 2 * closed)
            /\ (closed > reply.fallback => StopAt(closed) = 2 * closed + 1)
        BY <1>s, <1>c, <2>1
      <3> QED  BY <1>n, <2>1, <2>2, <3>1
    <2>4. closed < N \/ reply.stop = "tool_use"
      <3>1. CASE closed = N
        <4>1. StopAt(N) = 2 * N /\ n > 2 * N /\ reply.fallback > N
          BY <1>c, <1>s, <1>2, <2>1, <2>3, <3>1
        <4>2. \A c \in Call : StartAt(c) # n
          BY <1>c, <1>s, <1>2, <4>1
        <4> QED  BY <4>2
      <3> QED  BY <1>c, <1>s, <1>2, <3>1
    <2>5. MovedOnAt(closed) = 2 * closed + 1 /\ StopAt(closed) = 2 * closed
      BY <1>c, <1>s, <1>2, <1>3, <2>1, <2>3, <2>4
    <2> QED  BY <1>c, <1>s, <1>2, <2>1, <2>5
  <1>11. ASSUME NEW c \in Call, MovedOnAt(c) = n
         PROVE  closed = c
    <2>1. MovedOnAt(c) = 2 * c + 1 /\ StopAt(c) = 2 * c /\ c \in Nat
      BY <1>3, <1>c, <1>n, <1>11
    <2>2. emitted = StopAt(c) /\ MovedOnAt(c) # 0
      BY <1>n, <2>1, <1>11
    <2> QED  BY <1>4, <2>2 DEF StreamInv
  <1> HIDE DEF n, over, next, stop
  <1>12. closed' \in 0..N /\ (over => closed' = 0)
    <2>1. stop \subseteq Call
      BY DEF stop
    <2> QED  BY <1>1, <1>c, <1>s, <1>2, <1>4, <1>8, <2>1 DEF StreamInv, over
  <1>13. ASSUME NEW c \in Call, closed' = c
         PROVE  StopAt(c) <= n /\ MovedOnAt(c) \notin 1..n
    <2>0. c # 0 /\ ~over
      BY <1>c, <1>12, <1>13
    <2>1. CASE stop # {} /\ closed' # closed
      <3>1. n = StopAt(c)
        BY <1>1, <1>8, <1>13, <2>0, <2>1 DEF stop, over
      <3>2. MovedOnAt(c) \in {0, 2 * c + 1} /\ (MovedOnAt(c) # 0 => StopAt(c) = 2 * c) /\ c \in Nat
        BY <1>3, <1>c
      <3> QED  BY <1>n, <3>1, <3>2
    <2>2. CASE closed' = closed
      <3>1. ~next
        BY <1>1, <1>13, <2>0, <2>2 DEF over
      <3>2. MovedOnAt(c) # n
        BY <1>7, <3>1
      <3> QED  BY <1>c, <1>s, <1>2, <1>3, <1>4, <1>13, <2>2, <3>2 DEF StreamInv, MovedOn, n
    <2> QED  BY <1>1, <1>13, <2>0, <2>1, <2>2 DEF over
  <1>14. ASSUME NEW c \in Call, MovedOnAt(c) # 0, n = StopAt(c)
         PROVE  closed' = c
    <2>1. n = 2 * c /\ (c < reply.fallback \/ reply.fallback > N)
      BY <1>3, <1>14
    <2>c. c \in Nat /\ c <= N
      BY <1>c
    <2>2. ~over /\ n # FallbackAt
      BY <1>n, <1>6, <2>1, <2>c
    <2>3. ~next
      <3>1. n # StopReason
        BY <1>2, <2>1, <2>c
      <3>2. ASSUME NEW d \in Call
            PROVE  n # StartAt(d)
        <4>1. d \in Nat /\ (d <= reply.fallback => StartAt(d) = 2 * d - 1)
              /\ (d > reply.fallback => StartAt(d) = 2 * d) /\ d <= N
          BY <1>s, <1>c
        <4> QED  BY <1>n, <2>1, <2>c, <4>1
      <3> QED  BY <3>1, <3>2 DEF next
    <2>4. stop = {c}
      <3>1. ASSUME NEW d \in Call, n = StopAt(d)
            PROVE  d = c
        <4>1. d \in Nat /\ (d <= reply.fallback => StopAt(d) = 2 * d)
              /\ (d > reply.fallback => StopAt(d) = 2 * d + 1) /\ d <= N
          BY <1>s, <1>c
        <4> QED  BY <1>n, <2>1, <2>c, <4>1, <3>1
      <3> QED  BY <3>1, <1>14 DEF stop
    <2> QED  BY <1>1, <2>2, <2>3, <2>4 DEF over
  <1>15. rdy \in [Call -> 0..(2 * N + 3)]
    BY <1>c, <1>s, <1>2, <1>5, <1>9
  <1>16. \A c \in Call : rdy[c] # 0 => rdy[c] = MovedOnAt(c) /\ MovedOnAt(c) \in 1..n
    <2>1. \A c \in Call : ready[c] # 0 => ready[c] = MovedOnAt(c) /\ MovedOnAt(c) \in 1..n
      BY <1>c, <1>s, <1>2, <1>4 DEF StreamInv, MovedOn, n
    <2> QED  BY <1>c, <1>s, <1>2, <1>9, <1>10, <2>1
  <1>17. ASSUME NEW c \in Call
         PROVE  Handed(c) <=> MovedOnAt(c) \in 1..n /\ rdy[c] = 0
    <2>1. MovedOnAt(c) \in 1..n <=> MovedOn(c) \/ MovedOnAt(c) = n
      BY <1>c, <1>s, <1>2, <1>3 DEF MovedOn, n
    <2>2. closed = c => ~MovedOn(c)
      BY <1>4, <1>17 DEF StreamInv
    <2>3. closed # c => rdy[c] = ready[c]
      BY <1>c, <1>s, <1>2, <1>9
    <2>4. MovedOnAt(c) = n => rdy[c] # 0
      <3>1. MovedOnAt(c) = n => ~over /\ next /\ closed = c /\ c # 0
        BY <1>c, <1>s, <1>2, <1>7, <1>11
      <3>2. n # 0
        BY <1>c, <1>s, <1>2 DEF n
      <3> QED  BY <1>c, <1>s, <1>2, <3>1, <3>2
    <2> QED  BY <2>1, <2>2, <2>3, <2>4 DEF Handed
  <1>18. PICK D \in SUBSET Call : Release(rdy, reader, Hold(D))
    BY <1>1 DEF Shown
  <1> QED
    BY <1>1, <1>c, <1>s, <1>2, <1>5, <1>6, <1>12, <1>13, <1>14, <1>15, <1>16, <1>17, <1>18 DEF n

\* The steps that hand calls over: what an early start promises, and the invariant.
EarlyStep ==
    \A c \in early' \ early :
       /\ MovedOnAt(c) \in 1..emitted' /\ calls[c] # "held" /\ ~broken
       /\ \A r \in Reader : MovedOnAt(c) <= reader'[r]

MembersStep == \A c \in Family : Ran(c) => \A d \in Family : d < c => run'[d] = "ok"

LEMMA EmitStep == IInv /\ Emit => IInv' /\ EarlyStep /\ MembersStep
  <1> SUFFICES ASSUME IInv, Emit
               PROVE  IInv' /\ EarlyStep /\ MembersStep
    OBVIOUS
  <1>0. /\ reply' = reply /\ present' = present /\ reader' = reader /\ broken' = broken
        /\ pc = "body" /\ pc' = pc /\ mutated' = mutated /\ pushed' = pushed /\ cached' = cached
        /\ message' \in {"pending", "good", "bad"}
    BY DEF Emit, loopVars, IInv, TypeOK
  <1>1. /\ emitted' = emitted + 1 /\ emitted' <= LastEvent /\ LastEvent' = LastEvent
        /\ fallback' \in BOOLEAN /\ closed' \in 0..N
        /\ fallback' <=> (reply.fallback <= N /\ FallbackAt <= emitted')
        /\ fallback' => closed' = 0
        /\ \A c \in Call : closed' = c => StopAt(c) <= emitted' /\ MovedOnAt(c) \notin 1..emitted'
        /\ \A c \in Call : MovedOnAt(c) # 0 /\ emitted' = StopAt(c) => closed' = c
    BY EmitStream
  <1>2. PICK D \in SUBSET Call, rdy \in [Call -> 0..(2 * N + 3)] :
          /\ Release(rdy, reader, Hold(D))
          /\ \A c \in Call : rdy[c] # 0 => rdy[c] = MovedOnAt(c) /\ MovedOnAt(c) \in 1..emitted'
          /\ \A c \in Call : Handed(c) <=> MovedOnAt(c) \in 1..emitted' /\ rdy[c] = 0
    BY EmitStream
  <1>3. /\ Hold(D) \in [Call -> {"none", "held", "started"}]
        /\ \A c \in Call : Hold(D)[c] = "started" <=> calls[c] = "started"
        /\ \A c \in Call : Hold(D)[c] = "none" => calls[c] = "none"
    BY DEF Hold, IInv, TypeOK
  <1>4. emitted \in Nat /\ emitted' \in Nat /\ N \in Nat /\ LastEvent \in Nat /\ LastEvent <= 2 * N + 3
    BY <1>1, ReplyParts, EventNumbers DEF IInv, TypeOK
  <1>5. /\ calls' \in [Call -> {"none", "held", "started"}]
        /\ run' \in [Call -> {"no", "queued", "running"} \union Settled]
        /\ times' \in [Call -> Nat] /\ early' \subseteq Call
        /\ toolset' \in {"idle", "running", "waiting"}
        /\ ready' \in [Call -> 0..(2 * N + 3)]
        /\ CallInv' /\ ToolsetInv'
        /\ \A c \in Call : ready'[c] # 0 => ready'[c] = MovedOnAt(c) /\ MovedOn(c)'
        /\ \A c \in early' \ early :
             /\ MovedOnAt(c) \in 1..emitted' /\ calls[c] # "held" /\ ~broken
             /\ \A r \in Reader : MovedOnAt(c) <= reader[r]
        /\ \A c \in Call : run'[c] # run[c] => c \in early' \ early
        /\ \A c \in (early' \ early) \intersect Family :
             \A d \in Family : d < c => run'[d] = "ok"
    <2>1. TypeOK /\ CallInv /\ ToolsetInv /\ reader \in [Reader -> 0..NotReading]
      BY DEF IInv, TypeOK
    <2> HIDE DEF MovedOn, Handed
    <2> QED  BY <1>0, <1>2, <1>3, <1>4, <2>1, Released
  <1>6. emitted' \in 0..(2 * N + 3)
    BY <1>1, <1>4
  <1>7. TypeOK'
    BY <1>0, <1>1, <1>5, <1>6 DEF IInv, TypeOK
  <1>8. /\ \A c \in Call : MovedOnAt(c)' = MovedOnAt(c) /\ StopAt(c)' = StopAt(c)
        /\ FallbackAt' = FallbackAt
    BY <1>0 DEF MovedOnAt, StartAt, StopAt, StopReason, FallbackAt
  <1>9. StreamInv'
    BY <1>0, <1>1, <1>5, <1>8 DEF StreamInv, MovedOn
  <1>10. EndInv'
    BY <1>0 DEF EndInv, QuietOnceOver
  <1>11. EarlyStep
    BY <1>0, <1>5 DEF EarlyStep
  <1>12. MembersStep
    BY <1>5 DEF MembersStep, Ran, Family
  <1> QED  BY <1>5, <1>7, <1>9, <1>10, <1>11, <1>12 DEF IInv

LEMMA ReadsStep ==
    ASSUME IInv, NEW r \in Reader, Reads(r)
    PROVE  IInv' /\ EarlyStep /\ MembersStep
  <1> DEFINE rdr == [reader EXCEPT ![r] = IF @ + 1 = LastEvent THEN NotReading ELSE @ + 1]
  <1>0. /\ reply' = reply /\ present' = present /\ reader' = rdr /\ emitted' = emitted
        /\ closed' = closed /\ fallback' = fallback /\ broken' = broken /\ message' = message
        /\ pc' = pc /\ mutated' = mutated /\ pushed' = pushed /\ cached' = cached
        /\ reader[r] < emitted /\ Release(ready, rdr, calls)
    BY DEF Reads, endVars, loopVars
  <1>1. TypeOK /\ CallInv /\ ToolsetInv /\ StreamInv /\ EndInv
        /\ emitted \in Nat /\ N \in Nat /\ emitted <= 2 * N + 3
        /\ ready \in [Call -> 0..(2 * N + 3)] /\ calls \in [Call -> {"none", "held", "started"}]
        /\ reader \in [Reader -> 0..NotReading]
    BY ReplyParts DEF IInv, TypeOK
  <1>2. rdr \in [Reader -> 0..NotReading]
    BY <1>0, <1>1 DEF NotReading
  <1>3. /\ \A c \in Call : ready[c] # 0 => ready[c] = MovedOnAt(c) /\ MovedOnAt(c) \in 1..emitted'
        /\ \A c \in Call : Handed(c) <=> MovedOnAt(c) \in 1..emitted' /\ ready[c] = 0
    BY <1>0, <1>1 DEF StreamInv, Handed, MovedOn
  <1> HIDE DEF rdr
  <1>5. /\ calls' \in [Call -> {"none", "held", "started"}]
        /\ run' \in [Call -> {"no", "queued", "running"} \union Settled]
        /\ times' \in [Call -> Nat] /\ early' \subseteq Call
        /\ toolset' \in {"idle", "running", "waiting"}
        /\ ready' \in [Call -> 0..(2 * N + 3)]
        /\ CallInv' /\ ToolsetInv'
        /\ \A c \in Call : ready'[c] # 0 => ready'[c] = MovedOnAt(c) /\ MovedOn(c)'
        /\ \A c \in early' \ early :
             /\ MovedOnAt(c) \in 1..emitted' /\ calls[c] # "held" /\ ~broken
             /\ \A q \in Reader : MovedOnAt(c) <= rdr[q]
        /\ \A c \in Call : run'[c] # run[c] => c \in early' \ early
        /\ \A c \in (early' \ early) \intersect Family :
             \A d \in Family : d < c => run'[d] = "ok"
    BY <1>0, <1>1, <1>2, <1>3, Released
  <1>7. TypeOK'
    BY <1>0, <1>1, <1>2, <1>5 DEF TypeOK
  <1>8. /\ \A c \in Call : MovedOnAt(c)' = MovedOnAt(c) /\ StopAt(c)' = StopAt(c)
        /\ \A c \in Call : MovedOn(c)' <=> MovedOn(c)
        /\ FallbackAt' = FallbackAt /\ LastEvent' = LastEvent
    BY <1>0, SameStream
  <1>9. StreamInv'
    BY <1>0, <1>1, <1>5, <1>8 DEF StreamInv
  <1>10. EndInv'
    <2>1. pc \in {"settling", "over"} => \A c \in Call : run'[c] = run[c]
      BY <1>1, <1>5 DEF EndInv
    <2> QED  BY <1>0, <1>1, <2>1 DEF EndInv, QuietOnceOver
  <1>11. EarlyStep
    BY <1>0, <1>5 DEF EarlyStep
  <1>12. MembersStep
    BY <1>5 DEF MembersStep, Ran, Family
  <1> QED  BY <1>5, <1>7, <1>9, <1>10, <1>11, <1>12 DEF IInv

-----------------------------------------------------------------------------
(* The tools' steps and the answer.                                         *)

LEMMA SettleStep ==
    ASSUME IInv, NEW c \in Call, Settle(c)
    PROVE  IInv' /\ EarlyStep /\ MembersStep
  <1>1. PICK o \in {"ok", "error"} \union (IF c \in Family THEN {"thrown"} ELSE {}) :
          /\ run' = [run EXCEPT ![c] = o]
          /\ toolset' = IF c \in early \intersect Family THEN EntryAfter(o) ELSE toolset
    BY DEF Settle
  <1>2. /\ run[c] = "running" /\ o \in {"ok", "error", "thrown"}
        /\ UNCHANGED <<reply, streamVars, reader, endVars, calls, early, times, present, loopVars>>
    BY <1>1 DEF Settle
  <1>3. /\ Family' = Family /\ StreamInv'
        /\ \A d \in Call : Handed(d)' <=> Handed(d)
    BY <1>2, SameStream DEF IInv, streamVars
  <1>4. TypeOK /\ CallInv /\ ToolsetInv /\ Family \subseteq Call
        /\ run \in [Call -> {"no", "queued", "running"} \union Settled]
    BY DEF IInv, TypeOK, Family
  <1>5. TypeOK'
    <2>1. run' \in [Call -> {"no", "queued", "running"} \union Settled]
      BY <1>1, <1>2, <1>4 DEF Settled
    <2>2. toolset' \in {"idle", "running", "waiting"}
      BY <1>1, <1>4 DEF EntryAfter, TypeOK
    <2> QED  BY <1>2, <1>4, <2>1, <2>2 DEF TypeOK, streamVars, endVars, loopVars
  <1>6. CallInv'
    BY <1>1, <1>2, <1>3, <1>4 DEF CallInv
  <1>7. ToolsetInv'
    <2>1. \A d \in early' : Handed(d)' /\ calls'[d] = "started"
      BY <1>2, <1>3, <1>4 DEF ToolsetInv, TypeOK
    <2>2. CASE c \in early \intersect Family
      <3>1. Handed(c) /\ toolset # "idle"
        BY <1>2, <1>4, <2>2 DEF ToolsetInv
      <3>2. toolset' = "idle" =>
              o = "ok" /\ \A d \in Family : Handed(d) => d = c \/ run[d] = "ok"
        BY <1>1, <1>2, <1>4, <2>2, <3>1 DEF ToolsetInv, EntryAfter, TypeOK
      <3>3. toolset' # "running"
        BY <1>1, <2>2 DEF EntryAfter
      <3> QED  BY <1>1, <1>3, <1>4, <2>1, <3>2, <3>3 DEF ToolsetInv
    <2>3. CASE c \notin early \intersect Family
      <3>1. \A d \in Call : run[d] = "ok" => run'[d] = "ok"
        BY <1>1, <1>2, <1>4
      <3>2. toolset' = toolset /\ early' = early
        BY <1>1, <1>2, <2>3
      <3> QED  BY <1>3, <1>4, <2>1, <3>1, <3>2 DEF ToolsetInv
    <2> QED  BY <2>2, <2>3
  <1>8. EndInv'
    BY <1>1, <1>2, <1>4 DEF IInv, EndInv, QuietOnceOver, loopVars, endVars
  <1>9. EarlyStep /\ MembersStep
    BY <1>1, <1>2, <1>4 DEF EarlyStep, MembersStep, Ran
  <1> QED  BY <1>3, <1>5, <1>6, <1>7, <1>8, <1>9 DEF IInv

LEMMA DequeueStep ==
    ASSUME IInv, NEW c \in Call, Dequeue(c)
    PROVE  IInv' /\ EarlyStep /\ MembersStep
  <1>1. /\ run[c] = "queued"
        /\ \A d \in Family : d < c => Ended(d)
        /\ UNCHANGED <<reply, streamVars, reader, endVars, calls, toolset, early, present, loopVars>>
        /\ \/ run' = [run EXCEPT ![c] = "refused"] /\ times' = times
           \/ (\A d \in Family : d < c => run[d] \notin Failed) /\ Runs({c})
    BY DEF Dequeue, Family
  <1>2. /\ Family' = Family /\ StreamInv'
        /\ \A d \in Call : Handed(d)' <=> Handed(d)
    BY <1>1, SameStream DEF IInv, streamVars
  <1>3. TypeOK /\ CallInv /\ ToolsetInv /\ Family \subseteq Call
        /\ run \in [Call -> {"no", "queued", "running"} \union Settled]
        /\ times \in [Call -> Nat]
    BY DEF IInv, TypeOK, Family
  <1>4. /\ \A d \in Call : d # c => run'[d] = run[d] /\ times'[d] = times[d]
        /\ run'[c] \in {"refused", "running", "missing"}
        /\ c \in Family => run'[c] # "missing"
        /\ times[c] = 0 /\ times'[c] \in {0, 1} /\ reply.kind[c] # "malformed"
        /\ run' \in [Call -> {"no", "queued", "running"} \union Settled]
        /\ times' \in [Call -> Nat]
    <2>1. times[c] = 0 /\ reply.kind[c] # "malformed" /\ Family \subseteq present
      BY <1>1, <1>3 DEF CallInv
    <2>2. CASE run' = [run EXCEPT ![c] = "refused"] /\ times' = times
      BY <1>3, <2>1, <2>2 DEF Settled
    <2>3. CASE Runs({c})
      BY <1>3, <2>1, <2>3 DEF Runs, LookUp, Settled
    <2> QED  BY <1>1, <2>1, <2>2, <2>3
  <1>5. TypeOK'
    BY <1>1, <1>3, <1>4 DEF TypeOK, streamVars, endVars, loopVars
  <1>6. CallInv'
    <2>1. calls[c] = "started"
      BY <1>1, <1>3, <1>4 DEF CallInv
    <2> QED  BY <1>1, <1>2, <1>3, <1>4, <2>1 DEF CallInv
  <1>7. ToolsetInv'
    <2>1. \A d \in Call : run[d] = "ok" => run'[d] = "ok"
      BY <1>1, <1>4
    <2> QED  BY <1>1, <1>2, <1>3, <2>1 DEF ToolsetInv, TypeOK
  <1>8. EndInv'
    BY <1>1, <1>3, <1>4 DEF IInv, EndInv, QuietOnceOver, loopVars, endVars
  <1>9. EarlyStep
    BY <1>1 DEF EarlyStep
  <1>10. MembersStep
    <2> SUFFICES ASSUME NEW e \in Family, Ran(e), NEW d \in Family, d < e
                 PROVE  run'[d] = "ok"
      BY DEF MembersStep
    <2>1. e = c /\ run'[c] = "running"
      BY <1>3, <1>4 DEF Ran
    <2>2. run[d] \in Settled \ Failed
      BY <1>1, <1>3, <2>1 DEF Ended
    <2>3. run[d] = "ok" /\ d # c
      BY <1>3, <2>1, <2>2, <1>1 DEF CallInv, Settled, Failed
    <2> QED  BY <1>3, <1>4, <2>3
  <1> QED  BY <1>2, <1>5, <1>6, <1>7, <1>8, <1>9, <1>10 DEF IInv

\* The part of a step in which the answer is made, or taken from the cache.
LEMMA Generated ==
    ASSUME IInv, Generate, UNCHANGED <<reply, streamVars, present>>
    PROVE  /\ StreamInv' /\ CallInv' /\ ToolsetInv'
           /\ calls' \in [Call -> {"none", "held", "started"}]
           /\ run' \in [Call -> {"no", "queued", "running"} \union Settled]
           /\ times' \in [Call -> Nat] /\ toolset' = toolset /\ early' = early
           /\ cached' \in BOOLEAN
           /\ MembersStep
  <1>1. /\ Family' = Family /\ StreamInv'
        /\ \A d \in Call : Handed(d)' <=> Handed(d)
    BY SameStream DEF IInv, streamVars
  <1>2. TypeOK /\ CallInv /\ ToolsetInv /\ Family \subseteq Call /\ early \subseteq Call
        /\ run \in [Call -> {"no", "queued", "running"} \union Settled]
        /\ times \in [Call -> Nat] /\ calls \in [Call -> {"none", "held", "started"}]
        /\ cached \in BOOLEAN
    BY DEF IInv, TypeOK, Family
  <1>3. CASE cached
    <2>1. UNCHANGED callVars /\ cached' = cached
      BY <1>3 DEF Generate
    <2>2. CallInv' /\ ToolsetInv'
      <3>1. Family \subseteq present' /\ present' \subseteq Call
        BY <1>2 DEF TypeOK, CallInv
      <3> QED  BY <2>1, <3>1, SameCalls
    <2>3. MembersStep
      BY <1>2, <2>1 DEF MembersStep, Ran, callVars
    <2> QED  BY <1>1, <1>2, <2>1, <2>2, <2>3 DEF callVars
  <1>4. CASE ~cached
    <2>1. /\ calls' = [c \in Call |-> IF c \in ToRun THEN "started" ELSE calls[c]]
          /\ run' = [c \in Call |->
                      CASE c \in ToRun \ Family         -> LookUp(c)
                        [] c \in ToRun \cap Family      -> "queued"
                        [] reply.kind[c] = "malformed"  -> "error"
                        [] OTHER                        -> run[c]]
          /\ times' = [c \in Call |->
                        IF c \in (ToRun \ Family) \cap present THEN times[c] + 1 ELSE times[c]]
          /\ cached' = TRUE /\ toolset' = toolset /\ early' = early
      BY <1>4 DEF Generate
    <2>2. \A c \in Call : c \in ToRun <=> calls[c] # "started" /\ reply.kind[c] # "malformed"
      BY DEF ToRun
    <2>3. \A c \in Call :
            /\ c \in ToRun => run[c] = "no" /\ times[c] = 0
            /\ c \in ToRun \ Family => run'[c] \in {"running", "missing"}
            /\ c \in ToRun \intersect Family => run'[c] = "queued" /\ times'[c] = 0
            /\ c \notin ToRun /\ reply.kind[c] = "malformed" =>
                 run'[c] = "error" /\ times'[c] = times[c]
            /\ c \notin ToRun /\ reply.kind[c] # "malformed" =>
                 run'[c] = run[c] /\ times'[c] = times[c]
            /\ times'[c] \in {0, 1}
            /\ calls'[c] = IF c \in ToRun THEN "started" ELSE calls[c]
      BY <1>2, <2>1, <2>2 DEF CallInv, LookUp
    <2>4. run' \in [Call -> {"no", "queued", "running"} \union Settled]
      <3>1. \A c \in Call : run'[c] \in {"no", "queued", "running"} \union Settled
        BY <1>2, <2>2, <2>3 DEF Settled
      <3> QED  BY <2>1, <3>1
    <2>5. times' \in [Call -> Nat] /\ calls' \in [Call -> {"none", "held", "started"}]
      BY <1>2, <2>1
    <2> HIDE DEF ToRun
    <2>6. CallInv'
      BY <1>1, <1>2, <2>2, <2>3 DEF CallInv
    <2>7. ToolsetInv'
      <3>1. \A c \in Call : run[c] = "ok" => run'[c] = "ok"
        BY <1>2, <2>2, <2>3 DEF CallInv
      <3>2. \A c \in Call : calls[c] = "started" => calls'[c] = "started"
        BY <2>3
      <3> QED  BY <1>1, <1>2, <2>1, <3>1, <3>2 DEF ToolsetInv
    <2>8. MembersStep
      BY <1>2, <2>3 DEF MembersStep, Ran
    <2> QED  BY <1>1, <2>1, <2>4, <2>5, <2>6, <2>7, <2>8
  <1> QED  BY <1>2, <1>3, <1>4

-----------------------------------------------------------------------------
(* The caller's and the loop's other steps.                                 *)

LEMMA CallerStep ==
    ASSUME IInv,
           \/ StreamFails \/ SetMessagesParams \/ Leave \/ Answered
           \/ \E r \in Reader : StartReading(r) \/ StopReading(r)
           \/ \E c \in Call : RemoveTools(c)
    PROVE  IInv' /\ EarlyStep /\ MembersStep
  <1> DEFINE Frame ==
        /\ UNCHANGED <<reply, streamVars, callVars>>
        /\ present' \subseteq present /\ \A c \in present \ present' : c \notin Family
        /\ reader' \in [Reader -> 0..NotReading]
        /\ broken' \in BOOLEAN /\ message' \in {"pending", "good", "bad"}
        /\ pc' \in {"body", "tools", "settling", "over", "failed", "left"}
        /\ mutated' \in BOOLEAN /\ pushed' \in BOOLEAN /\ cached' \in BOOLEAN
        /\ (broken => broken') /\ (pc' = pc \/ broken') /\ (pc' = "over" => pc = "over")
  <1>1. Frame
    <2>0. TypeOK /\ 0 \in 0..NotReading /\ NotReading \in 0..NotReading
          /\ emitted \in 0..NotReading
      BY ReplyParts DEF IInv, TypeOK, NotReading
    <2>1. CASE StreamFails
      BY <2>0, <2>1 DEF StreamFails, Break, TypeOK, loopVars
    <2>2. CASE SetMessagesParams
      BY <2>0, <2>2 DEF SetMessagesParams, TypeOK, endVars
    <2>3. CASE Leave
      BY <2>0, <2>3 DEF Leave, AbortStream, Break, TypeOK
    <2>4. CASE Answered
      <3>1. pc' \in {"failed", "settling"} /\ AbortStream
            /\ UNCHANGED <<reply, streamVars, reader, callVars, present, mutated, pushed, cached>>
        BY <2>4 DEF Answered
      <3> QED  BY <2>0, <3>1 DEF AbortStream, Break, TypeOK
    <2>5. ASSUME NEW r \in Reader, StartReading(r)
          PROVE  Frame
      BY <2>0, <2>5 DEF StartReading, TypeOK, endVars, loopVars
    <2>6. ASSUME NEW r \in Reader, StopReading(r)
          PROVE  Frame
      BY <2>0, <2>6 DEF StopReading, Break, TypeOK, loopVars
    <2>7. ASSUME NEW c \in Call, RemoveTools(c)
          PROVE  Frame
      BY <2>0, <2>7 DEF RemoveTools, TypeOK, endVars, loopVars
    <2> HIDE DEF Frame
    <2> QED  BY <2>1, <2>2, <2>3, <2>4, <2>5, <2>6, <2>7
  <1>2. StreamInv' /\ CallInv' /\ ToolsetInv'
    BY <1>1, SameCalls DEF IInv, TypeOK, CallInv
  <1>3. TypeOK'
    BY <1>1 DEF IInv, TypeOK, streamVars, callVars
  <1>4. EndInv'
    BY <1>1 DEF IInv, EndInv, QuietOnceOver, callVars
  <1>5. EarlyStep /\ MembersStep
    BY <1>1 DEF EarlyStep, MembersStep, Ran, callVars, Family
  <1> QED  BY <1>2, <1>3, <1>4, <1>5 DEF IInv

LEMMA DeferStep ==
    ASSUME IInv, NEW c \in Call, DeferToolCall(c)
    PROVE  IInv' /\ EarlyStep /\ MembersStep
  <1>1. /\ calls[c] = "none" /\ calls' = Hold({c})
        /\ UNCHANGED <<reply, streamVars, reader, endVars, toolset, early, run, times, present,
                       loopVars>>
    BY DEF DeferToolCall
  <1>2. /\ Family' = Family /\ StreamInv'
        /\ \A d \in Call : Handed(d)' <=> Handed(d)
    BY <1>1, SameStream DEF IInv, streamVars
  <1>3. /\ calls' \in [Call -> {"none", "held", "started"}]
        /\ \A d \in Call : calls'[d] = "started" <=> calls[d] = "started"
    BY <1>1 DEF Hold, IInv, TypeOK
  <1>4. TypeOK'
    BY <1>1, <1>3 DEF IInv, TypeOK, streamVars, endVars, loopVars
  <1>5. CallInv'
    BY <1>1, <1>2, <1>3 DEF IInv, CallInv
  <1>6. ToolsetInv'
    <2>1. early \subseteq Call /\ Family \subseteq Call
      BY DEF IInv, TypeOK, Family
    <2> QED  BY <1>1, <1>2, <1>3, <2>1 DEF IInv, ToolsetInv
  <1>7. EndInv'
    BY <1>1 DEF IInv, EndInv, QuietOnceOver, endVars, loopVars
  <1>8. EarlyStep /\ MembersStep
    BY <1>1 DEF EarlyStep, MembersStep, Ran, Family
  <1> QED  BY <1>2, <1>4, <1>5, <1>6, <1>7, <1>8 DEF IInv

LEMMA AnswerStep ==
    ASSUME IInv, GenerateToolResponse \/ BodyEnds
    PROVE  IInv' /\ EarlyStep /\ MembersStep
  <1>1. /\ UNCHANGED <<reply, streamVars, reader, present, mutated, pushed>>
        /\ pc = "body"
        /\ \/ Generate /\ UNCHANGED endVars /\ pc' \in {"body", "tools"}
           \/ AbortStream /\ UNCHANGED <<callVars, cached>> /\ pc' \in {"settling", "failed"}
    BY DEF GenerateToolResponse, BodyEnds
  <1>2. CASE Generate /\ UNCHANGED endVars /\ pc' \in {"body", "tools"}
    <2>1. /\ StreamInv' /\ CallInv' /\ ToolsetInv'
          /\ calls' \in [Call -> {"none", "held", "started"}]
          /\ run' \in [Call -> {"no", "queued", "running"} \union Settled]
          /\ times' \in [Call -> Nat] /\ toolset' = toolset /\ early' = early
          /\ cached' \in BOOLEAN
          /\ MembersStep
      BY <1>1, <1>2, Generated
    <2>2. TypeOK'
      BY <1>1, <1>2, <2>1 DEF IInv, TypeOK, streamVars, endVars
    <2>3. EndInv'
      BY <1>2 DEF EndInv, QuietOnceOver
    <2>4. EarlyStep
      BY <2>1 DEF EarlyStep
    <2> QED  BY <2>1, <2>2, <2>3, <2>4 DEF IInv
  <1>3. CASE AbortStream /\ UNCHANGED <<callVars, cached>> /\ pc' \in {"settling", "failed"}
    <2>1. StreamInv' /\ CallInv' /\ ToolsetInv'
      BY <1>1, <1>3, SameCalls DEF IInv, TypeOK, CallInv
    <2>2. TypeOK' /\ broken'
      BY <1>1, <1>3 DEF IInv, TypeOK, streamVars, callVars, AbortStream, Break
    <2>3. EndInv'
      BY <1>3, <2>2 DEF EndInv, QuietOnceOver
    <2>4. EarlyStep /\ MembersStep
      BY <1>3 DEF EarlyStep, MembersStep, Ran, callVars, Family
    <2> QED  BY <2>1, <2>2, <2>3, <2>4 DEF IInv
  <1> QED  BY <1>1, <1>2, <1>3

LEMMA SettledStep ==
    ASSUME IInv, StartedCallsSettled
    PROVE  IInv' /\ EarlyStep /\ MembersStep
  <1>1. /\ pc = "settling" /\ pc' = "over"
        /\ \A c \in Call : calls[c] = "started" => Ended(c)
        /\ UNCHANGED <<reply, streamVars, reader, endVars, callVars, present, mutated, pushed, cached>>
    BY DEF StartedCallsSettled
  <1>2. StreamInv' /\ CallInv' /\ ToolsetInv'
    BY <1>1, SameCalls DEF IInv, TypeOK, CallInv
  <1>3. TypeOK'
    BY <1>1 DEF IInv, TypeOK, streamVars, callVars, endVars
  <1>4. EndInv'
    <2>1. \A c \in Call : run[c] \notin {"queued", "running"}
      BY <1>1 DEF IInv, CallInv, Ended, Settled
    <2> QED  BY <1>1, <2>1 DEF IInv, EndInv, QuietOnceOver, callVars, endVars
  <1>5. EarlyStep /\ MembersStep
    BY <1>1 DEF EarlyStep, MembersStep, Ran, callVars, Family
  <1> QED  BY <1>2, <1>3, <1>4, <1>5 DEF IInv

LEMMA NextStep == IInv /\ [Next]_vars => IInv' /\ [EarlyStep /\ MembersStep]_vars
  <1> SUFFICES ASSUME IInv, [Next]_vars
               PROVE  IInv' /\ [EarlyStep /\ MembersStep]_vars
    OBVIOUS
  <1>1. CASE UNCHANGED vars
    <2>1. StreamInv' /\ CallInv' /\ ToolsetInv'
      BY <1>1, SameCalls DEF vars, IInv, TypeOK, CallInv, streamVars, callVars
    <2>2. TypeOK' /\ EndInv'
      BY <1>1 DEF vars, IInv, TypeOK, EndInv, QuietOnceOver
    <2> QED  BY <1>1, <2>1, <2>2 DEF IInv
  <1>2. CASE Emit
    BY <1>2, EmitStep
  <1>3. CASE StreamFails \/ SetMessagesParams \/ Leave \/ Answered
    BY <1>3, CallerStep
  <1>4. CASE GenerateToolResponse \/ BodyEnds
    BY <1>4, AnswerStep
  <1>5. CASE StartedCallsSettled
    BY <1>5, SettledStep
  <1>6. CASE Tools
    BY <1>6, SettleStep, DequeueStep DEF Tools
  <1>7. CASE \E r \in Reader : StartReading(r) \/ Reads(r) \/ StopReading(r)
    BY <1>7, CallerStep, ReadsStep
  <1>8. CASE \E c \in Call : DeferToolCall(c) \/ RemoveTools(c)
    BY <1>8, CallerStep, DeferStep
  <1> QED
    BY <1>1, <1>2, <1>3, <1>4, <1>5, <1>6, <1>7, <1>8 DEF Next, Loop, Caller

\* The stream is within its reply, and nobody reads what it has not emitted.
NoneAhead ==
    /\ emitted <= LastEvent
    /\ \A r \in Reader : reader[r] = NotReading \/ reader[r] <= emitted

LEMMA NoneAheadStep == IInv /\ NoneAhead /\ [Next]_vars => NoneAhead'
  <1> SUFFICES ASSUME IInv, NoneAhead, [Next]_vars
               PROVE  NoneAhead'
    OBVIOUS
  <1> USE CallAssumption
  <1>1. emitted \in Nat /\ reader \in [Reader -> Nat] /\ LastEvent \in Nat
    <2>1. emitted \in Nat /\ reader \in [Reader -> Nat]
      BY DEF IInv, TypeOK, NotReading
    <2>2. LastEvent \in Nat
      BY DEF LastEvent, StopReason
    <2> QED  BY <2>1, <2>2
  <1>2. reply' = reply /\ LastEvent' = LastEvent
    <2>1. reply' = reply
      BY DEF Next, Loop, Caller, Tools, Emit, StreamFails, Settle, Dequeue, Answered,
             StartedCallsSettled, StartReading, Reads, StopReading, DeferToolCall, RemoveTools,
             SetMessagesParams, GenerateToolResponse, BodyEnds, Leave, vars
    <2> QED  BY <2>1 DEF LastEvent, StopReason
  <1>3. CASE Emit
    <2>1. emitted < LastEvent /\ emitted' = emitted + 1 /\ reader' = reader
      BY <1>3 DEF Emit
    <2> QED  BY <1>1, <1>2, <2>1 DEF NoneAhead, NotReading
  <1>4. ASSUME NEW r \in Reader, StartReading(r) \/ Reads(r) \/ StopReading(r)
        PROVE  NoneAhead'
    <2>1. emitted' = emitted
      BY <1>4 DEF StartReading, Reads, StopReading, streamVars
    <2>2. \/ reader' = [reader EXCEPT ![r] = emitted]
          \/ reader[r] < emitted /\ reader' = [reader EXCEPT ![r] = reader[r] + 1]
          \/ reader' = [reader EXCEPT ![r] = NotReading]
      BY <1>1, <1>4 DEF StartReading, Reads, StopReading
    <2>3. ASSUME NEW q \in Reader PROVE reader'[q] = NotReading \/ reader'[q] <= emitted
      <3>1. CASE q = r
        BY <1>1, <2>2, <3>1
      <3>2. CASE q # r
        BY <1>1, <2>2, <3>2 DEF NoneAhead
      <3> QED  BY <3>1, <3>2
    <2> QED  BY <1>2, <2>1, <2>3 DEF NoneAhead, NotReading
  <1>5. CASE UNCHANGED <<emitted, reader>>
    BY <1>2, <1>5 DEF NoneAhead, NotReading
  <1>6. \/ Emit \/ UNCHANGED <<emitted, reader>>
        \/ \E r \in Reader : StartReading(r) \/ Reads(r) \/ StopReading(r)
    BY DEF Next, Loop, Caller, Tools, StreamFails, Settle, Dequeue, Answered,
           StartedCallsSettled, DeferToolCall, RemoveTools, SetMessagesParams,
           GenerateToolResponse, BodyEnds, Leave, streamVars, vars
  <1> QED  BY <1>3, <1>4, <1>5, <1>6

LEMMA NoneAheadInit == Init => NoneAhead
  <1> SUFFICES ASSUME Init PROVE NoneAhead
    OBVIOUS
  <1>1. emitted = 0 /\ \A r \in Reader : reader[r] = NotReading
    BY DEF Init
  <1>2. LastEvent \in Nat
    BY CallAssumption DEF LastEvent, StopReason
  <1> QED  BY <1>1, <1>2 DEF NoneAhead

LEMMA Inductive == Spec => []IInv
  <1>1. IInv /\ [Next]_vars => IInv'
    BY NextStep
  <1> QED  BY InitIInv, <1>1, PTL DEF Spec

-----------------------------------------------------------------------------
(* The theorems.                                                            *)

\* Every variable keeps its type; the stream never emits past the last event of its reply,
\* and no loop over it is ahead of what has been emitted.
THEOREM TypeCorrect == Spec => [](TypeOK /\ NoneAhead)
  <1>1. IInv => TypeOK
    BY DEF IInv
  <1> QED  BY Inductive, NoneAheadInit, NoneAheadStep, <1>1, PTL DEF Spec

\* The stream's callback, the caller's generateToolResponse() and the loop share the calls
\* of a reply, and each call's tool runs once at most.
THEOREM EachCallRunsOnce == Spec => []OnceEach
  <1>1. IInv => OnceEach
    BY DEF IInv, CallInv, OnceEach
  <1> QED  BY Inductive, <1>1, PTL

\* Once startedCallsSettled has let the runner move on, no call of the reply runs or will.
THEOREM OverIsQuiet == Spec => []QuietOnceOver
  <1>1. IInv => QuietOnceOver
    BY DEF IInv, EndInv
  <1> QED  BY Inductive, <1>1, PTL

\* A toolset's calls run in the model's order, none after one that failed, whether the
\* stream or generateToolResponse starts them.
THEOREM ToolsetIsInOrder == Spec => MembersInOrder
  <1>1. IInv /\ [Next]_vars =>
          [\A c \in Family : Ran(c) => \A d \in Family : d < c => run'[d] = "ok"]_vars
    BY NextStep DEF MembersStep
  <1> QED  BY Inductive, <1>1, PTL DEF Spec, MembersInOrder

\* A call starts early only when the model has moved on from it, every loop over the
\* stream has handled the event that shows it, and nobody has held it.
THEOREM EarlyCallsAreSeen == Spec => EarlyIsSeen
  <1>1. IInv /\ [Next]_vars =>
          [\A c \in early' \ early :
             /\ MovedOnAt(c) \in 1..emitted' /\ calls[c] # "held" /\ ~broken
             /\ \A r \in Reader : MovedOnAt(c) <= reader'[r]]_vars
    BY NextStep DEF EarlyStep
  <1> QED  BY Inductive, <1>1, PTL DEF Spec, EarlyIsSeen
=============================================================================
