---------------------------- MODULE ToolLoopProofs ----------------------------
(***************************************************************************)
(* The conversations BetaToolRunner sends, for every set of tools, every    *)
(* set of turns the model may give and every bound on the caller.           *)
(*                                                                          *)
(* First the order of the messages, for a careful caller; then what they    *)
(* say of the tools, for any.  That part rests on what FlattenSeq does to a *)
(* history, which least counterexamples show: the recursion behind it is    *)
(* never unfolded more than one step.                                       *)
(***************************************************************************)
EXTENDS ToolLoop, FunctionTheorems, FiniteSetTheorems, WellFoundedInduction,
        SequenceTheorems, TLAPS

\* Only a turn with calls can have failed a pass.
HasSender(m) == m.by \in {"runner", "caller"} \/ (m.by = "stuck" /\ m.kind \in Calling)

IsConversation(h) == /\ \E S : h \in Seq(S)
                     /\ Len(h) > 0 /\ \A i \in 1..Len(h) : HasSender(h[i])

\* A message only the runner can continue: it has to be sent back last.
Resumable(m) == m.kind \in Resume /\ m.by = "runner"

\* Everything but the last message of `h` is as it should be.
Orderly(h) ==
    /\ \A i \in 1..Len(h) : h[i].kind = "results" => i > 1 /\ h[i - 1].kind \in Calling
    /\ \A i \in 1..(Len(h) - 1) : Waits(h[i]) => h[i + 1].kind = "results"
    /\ \A i \in 1..(Len(h) - 1) :
         h[i].kind = "paused" /\ h[i].by = "runner" => h[i + 1].kind # "changes"

\* No tool call of the history waits for its result.
Settled == ~Waits(Last(history))

\* The body of a turn whose messages the caller has changed.
TakingOver == pc \in {"body", "next"} /\ request.kind = "turn" /\ mutated

HistoryInv == IsConversation(history) /\ Orderly(history)

\* Where the last message may be a turn with calls.
CallsInv ==
    /\ pc \in {"new", "top"} \/ (pc \in {"body", "next"} /\ ~TakingOver) => Settled
    /\ pc = "tools" => Last(history).kind \in Calling
    /\ pc = "finish" => Settled \/ message \in Calling

\* A turn to be sent back is the last stop reason, until the caller takes over.
ResumeInv ==
    /\ Resumable(Last(history)) => lastStop = Last(history).kind
    /\ TakingOver => ~Resumable(Last(history))

\* A careful caller that has changed the history has an answer cached only of its end.
CacheInv ==
    TakingOver /\ cached # "unset" => (cached = "results" <=> Last(history).kind \in Calling)

\* The history does not change under a compaction.
CompactionInv ==
    /\ request.kind \in {"none", "turn", "compact", "final"}
    /\ pc \in {"body", "next"} => request.kind # "none"
    /\ pc \in {"body", "next"} /\ request.kind \in {"compact", "final"}
         => compaction = "in_flight" /\ history = request.carried

\* What was sent.
RequestInv == CallsAreAnswered /\ CompactionIsWhole

LoopInv == HistoryInv /\ CallsInv /\ ResumeInv /\ CacheInv /\ CompactionInv /\ RequestInv

-----------------------------------------------------------------------------
(* Conversations.                                                           *)

LEMMA AppendFacts ==
    ASSUME NEW h, IsConversation(h), NEW m, m.by \in {"runner", "caller"}
    PROVE  /\ Len(h) \in Nat /\ Len(h) > 0
           /\ Len(Append(h, m)) = Len(h) + 1
           /\ Append(h, m)[Len(h) + 1] = m
           /\ \A i \in 1..Len(h) : Append(h, m)[i] = h[i]
           /\ IsConversation(Append(h, m))
           /\ Last(Append(h, m)) = m
<1>1. PICK S : h \in Seq(S)
  BY DEF IsConversation
<1>2. /\ Len(h) \in Nat /\ Len(h) > 0
      /\ Len(Append(h, m)) = Len(h) + 1
      /\ Append(h, m)[Len(h) + 1] = m
      /\ \A i \in 1..Len(h) : Append(h, m)[i] = h[i]
  BY <1>1 DEF IsConversation
<1>3. h \in Seq(S \union {m})
  BY <1>1
<1>4. Append(h, m) \in Seq(S \union {m})
  BY <1>3
<1>5. \A i \in 1..(Len(h) + 1) : HasSender(Append(h, m)[i])
  BY <1>2 DEF IsConversation, HasSender
<1> QED BY <1>2, <1>4, <1>5 DEF IsConversation, Last

LEMMA OrderlyAppend ==
    ASSUME NEW h, NEW m, m.by \in {"runner", "caller"}, IsConversation(h), Orderly(h),
           m.kind = "results" => Last(h).kind \in Calling,
           Waits(Last(h)) => m.kind = "results",
           m.kind = "changes" => ~(Last(h).kind = "paused" /\ Last(h).by = "runner")
    PROVE  Orderly(Append(h, m))
<1> DEFINE g == Append(h, m)
           n == Len(h)
<1>1. /\ n \in Nat /\ n > 0 /\ Len(g) = n + 1 /\ g[n + 1] = m
      /\ \A i \in 1..n : g[i] = h[i]
      /\ Last(h) = h[n]
  BY AppendFacts DEF Last
<1> HIDE DEF g, n
<1>2. ASSUME NEW i \in 1..Len(g), g[i].kind = "results"
      PROVE  i > 1 /\ g[i - 1].kind \in Calling
  <2>1. CASE i = n + 1
    BY <1>1, <1>2, <2>1
  <2>2. CASE i \in 1..n
    BY <1>1, <1>2, <2>2 DEF Orderly, n
  <2> QED BY <1>1, <2>1, <2>2
<1>3. ASSUME NEW i \in 1..(Len(g) - 1), Waits(g[i])
      PROVE  g[i + 1].kind = "results"
  <2>1. CASE i = n
    BY <1>1, <1>3, <2>1
  <2>2. CASE i \in 1..(n - 1)
    BY <1>1, <1>3, <2>2 DEF Orderly, n
  <2> QED BY <1>1, <2>1, <2>2
<1>4. ASSUME NEW i \in 1..(Len(g) - 1), g[i].kind = "paused", g[i].by = "runner"
      PROVE  g[i + 1].kind # "changes"
  <2>1. CASE i = n
    BY <1>1, <1>4, <2>1
  <2>2. CASE i \in 1..(n - 1)
    BY <1>1, <1>4, <2>2 DEF Orderly, n
  <2> QED BY <1>1, <2>1, <2>2
<1>5. Orderly(g)
  BY <1>2, <1>3, <1>4 DEF Orderly
<1> QED BY <1>5 DEF g

LEMMA OneMessage ==
    ASSUME NEW m, m.kind # "results", m.by \in {"runner", "caller"}
    PROVE  IsConversation(<<m>>) /\ Orderly(<<m>>) /\ Last(<<m>>) = m
<1> DEFINE g == <<m>>
<1>1. g \in Seq({m}) /\ Len(g) = 1 /\ g[1] = m
  OBVIOUS
<1> HIDE DEF g
<1>2. IsConversation(g) /\ Last(g) = m
  BY <1>1 DEF IsConversation, HasSender, Last
<1>3. Orderly(g)
  BY <1>1 DEF Orderly
<1> QED BY <1>2, <1>3 DEF g

\* The history a runner or a caller leaves when it adds one message.
LEMMA Extends ==
    ASSUME NEW m, m.by \in {"runner", "caller"}, HistoryInv, history' = Append(history, m),
           m.kind = "results" => Last(history).kind \in Calling,
           Settled \/ m.kind = "results",
           m.kind = "changes" => ~(Last(history).kind = "paused" /\ Last(history).by = "runner")
    PROVE  HistoryInv' /\ Last(history') = m
<1>1. Orderly(Append(history, m))
  BY OrderlyAppend DEF HistoryInv, Settled
<1> QED BY <1>1, AppendFacts DEF HistoryInv

\* A step that sends nothing.
LEMMA SameRequest ==
    ASSUME RequestInv, request' = request
    PROVE  RequestInv'
BY DEF RequestInv, CallsAreAnswered, CompactionIsWhole, Answers

LEMMA SameHistory ==
    ASSUME HistoryInv, history' = history
    PROVE  HistoryInv'
BY DEF HistoryInv, Orderly

\* A request carries a conversation without open calls, and a compaction one
\* that does not end in a turn to be sent back.
LEMMA Sends ==
    ASSUME HistoryInv', Settled', NEW k, request' = [kind |-> k, carried |-> history'],
           k \in {"compact", "final"} => ~Resumable(Last(history'))
    PROVE  RequestInv'
<1> DEFINE h == history'
           last == Last(h)
<1>1. request'.carried = h /\ request'.kind = k
  OBVIOUS
<1>2. /\ Len(h) \in Nat /\ Len(h) > 0 /\ last = h[Len(h)] /\ HasSender(last)
  <2>1. \E S : h \in Seq(S)
    BY DEF HistoryInv, IsConversation
  <2> QED BY <2>1 DEF HistoryInv, IsConversation, Last
<1>3. CallsAreAnswered'
  <2>1. ASSUME NEW i \in 1..Len(h), Waits(h[i])
        PROVE  i + 1 \in 1..Len(h) /\ h[i + 1].kind = "results"
    <3>1. i # Len(h)
      BY <1>2, <2>1 DEF Settled
    <3> QED BY <1>2, <2>1, <3>1 DEF HistoryInv, Orderly
  <2>2. \A i \in 1..Len(h) : h[i].kind = "results" => i > 1 /\ h[i - 1].kind \in Calling
    BY DEF HistoryInv, Orderly
  <2> QED BY <1>1, <2>1, <2>2 DEF CallsAreAnswered, Answers
<1>4. CompactionIsWhole'
  <2>1. ~Waits(last)
    BY DEF Settled
  <2>2. ASSUME k \in {"compact", "final"}, last.kind \in Resume PROVE last.by = "caller"
    BY <1>2, <2>2 DEF Resumable, HasSender, Calling, Resume
  <2> HIDE DEF last
  <2>3. Last(request'.carried) = last
    BY <1>1 DEF last
  <2> QED BY <1>1, <2>1, <2>2, <2>3 DEF CompactionIsWhole
<1> QED BY <1>3, <1>4 DEF RequestInv

LEMMA TurnKinds == Turns \subseteq {"calls", "paused", "compacted", "final", "cut"}
BY TurnAssumption

-----------------------------------------------------------------------------
(* The loop.                                                                *)

\* A step that leaves the messages alone and sends nothing.
LEMMA Quiet ==
    ASSUME LoopInv, UNCHANGED <<history, request, lastStop>>,
           CallsInv', CacheInv', CompactionInv', TakingOver' => ~Resumable(Last(history))
    PROVE  LoopInv'
<1>1. HistoryInv' /\ RequestInv'
  BY SameHistory, SameRequest DEF LoopInv
<1>2. ResumeInv'
  BY DEF LoopInv, ResumeInv
<1> QED BY <1>1, <1>2 DEF LoopInv

LEMMA QuietSteps ==
    ASSUME LoopInv, Iterate \/ IterationsUsed \/ Responds \/ BodyEnds \/ RequestFailed \/ Finish
    PROVE  LoopInv'
<1>1. UNCHANGED <<history, request, lastStop>>
  BY DEF Iterate, IterationsUsed, Responds, BodyEnds, RequestFailed, Finish, params, state
<1>2. Settled' <=> Settled
  BY <1>1 DEF Settled
<1>3. CASE Iterate
  <2>1. CallsInv' /\ CacheInv' /\ CompactionInv' /\ ~TakingOver'
    BY <1>1, <1>2, <1>3
       DEF Iterate, LoopInv, CallsInv, CacheInv, CompactionInv, TakingOver
  <2> QED BY <1>1, <2>1, Quiet
<1>4. CASE IterationsUsed
  <2>1. CallsInv' /\ CacheInv' /\ CompactionInv' /\ ~TakingOver'
    BY <1>1, <1>2, <1>4
       DEF IterationsUsed, LoopInv, CallsInv, CacheInv, CompactionInv, TakingOver, state
  <2> QED BY <1>1, <2>1, Quiet
<1>5. CASE Responds
  <2>1. /\ CallsInv' /\ CacheInv' /\ CompactionInv'
        /\ TakingOver' => ~Resumable(Last(history))
    BY <1>1, <1>2, <1>5
       DEF Responds, LoopInv, CallsInv, CacheInv, CompactionInv, ResumeInv, TakingOver, state,
           Calling
  <2> QED BY <1>1, <2>1, Quiet
<1>6. CASE BodyEnds
  <2>1. /\ CallsInv' /\ CacheInv' /\ CompactionInv'
        /\ TakingOver' => ~Resumable(Last(history))
    BY <1>1, <1>2, <1>6
       DEF BodyEnds, LoopInv, CallsInv, CacheInv, CompactionInv, ResumeInv, TakingOver, state,
           promises
  <2> QED BY <1>1, <2>1, Quiet
<1>7. CASE RequestFailed
  <2>1. CallsInv' /\ CacheInv' /\ CompactionInv' /\ ~TakingOver'
    BY <1>1, <1>2, <1>7
       DEF RequestFailed, Fails, LoopInv, CallsInv, CacheInv, CompactionInv, TakingOver
  <2> QED BY <1>1, <2>1, Quiet
<1>8. CASE Finish
  <2>1. CallsInv' /\ CacheInv' /\ CompactionInv' /\ ~TakingOver'
    BY <1>1, <1>2, <1>8
       DEF Finish, Fails, LoopInv, CallsInv, CacheInv, CompactionInv, TakingOver, state, Calling
  <2> QED BY <1>1, <2>1, Quiet
<1> QED BY <1>3, <1>4, <1>5, <1>6, <1>7, <1>8

\* The queue is flushed behind a conversation that may be continued.
LEMMA FlushFacts ==
    ASSUME LoopInv, pc = "top", history' = Flushed
    PROVE  /\ HistoryInv' /\ Settled'
           /\ Resumable(Last(history')) => lastStop = Last(history').kind
<1>1. Settled
  BY DEF LoopInv, CallsInv
<1>2. CASE history' = history
  BY <1>1, <1>2, SameHistory DEF LoopInv, Settled, ResumeInv
<1>3. CASE lastStop # "paused" /\ history' = Append(history, Changes(pending, "runner"))
  <2> DEFINE m == Changes(pending, "runner")
  <2>1. m.kind = "changes" /\ m.by = "runner"
    BY DEF Changes
  <2>2. ~(Last(history).kind = "paused" /\ Last(history).by = "runner")
    BY <1>3 DEF LoopInv, ResumeInv, Resumable, Resume
  <2>3. history' = Append(history, m)
    BY <1>3
  <2> HIDE DEF m
  <2>4. HistoryInv' /\ Last(history') = m
    BY <1>1, <2>1, <2>2, <2>3, Extends DEF LoopInv
  <2> QED BY <2>1, <2>4 DEF Settled, Waits, Calling, Resumable, Resume
<1> QED BY <1>2, <1>3 DEF Flushed

LEMMA TopStep == ASSUME LoopInv, Top PROVE LoopInv'
<1>1. pc = "top" /\ history' = Flushed /\ lastStop' = lastStop
  BY DEF Top
<1>2. /\ HistoryInv' /\ Settled'
      /\ Resumable(Last(history')) => lastStop = Last(history').kind
  BY <1>1, FlushFacts
<1>3. CASE MayCompact /\ Compact("compact", Flushed) /\ mutated' = mutated
  <2>1. /\ request' = [kind |-> "compact", carried |-> history']
        /\ compaction' = "in_flight" /\ pc' = "body" /\ cached' = "unset"
    BY <1>1, <1>3 DEF Compact, Send
  <2>2. ~Resumable(Last(history'))
    BY <1>2, <1>3 DEF MayCompact, Resumable
  <2>3. RequestInv'
    BY <1>2, <2>1, <2>2, Sends
  <2> QED BY <1>1, <1>2, <2>1, <2>2, <2>3
          DEF LoopInv, CallsInv, ResumeInv, CacheInv, CompactionInv, TakingOver
<1>4. CASE Send("turn", Flushed) /\ mutated' = FALSE
  <2>1. request' = [kind |-> "turn", carried |-> history'] /\ pc' = "body" /\ cached' = "unset"
    BY <1>1, <1>4 DEF Send
  <2>2. RequestInv'
    BY <1>2, <2>1, Sends
  <2> QED BY <1>1, <1>2, <1>4, <2>1, <2>2
          DEF LoopInv, CallsInv, ResumeInv, CacheInv, CompactionInv, TakingOver
<1> QED BY <1>3, <1>4 DEF Top

LEMMA TakeTurnStep == ASSUME LoopInv, TakeTurn PROVE LoopInv'
<1> DEFINE m == Says(message, "runner")
           h == Append(history, m)
<1>1. /\ pc = "next" /\ request.kind = "turn" /\ mutated = FALSE /\ message \in Turns
      /\ history' = h /\ lastStop' = message /\ mutated' = FALSE
  <2>1. mutated \in BOOLEAN => mutated = FALSE
    BY DEF TakeTurn
  <2> QED BY <2>1 DEF TakeTurn
<1>2. /\ m.kind = message /\ m.by = "runner"
      /\ m.kind \notin {"results", "changes", "user"}
  BY <1>1, TurnKinds DEF Says
<1>3. Settled
  BY <1>1 DEF LoopInv, CallsInv, TakingOver
<1>4. HistoryInv' /\ Last(history') = m
  <2> HIDE DEF m
  <2> QED BY <1>1, <1>2, <1>3, Extends DEF LoopInv
<1>5. CacheInv'
  BY <1>1 DEF CacheInv, TakingOver
<1>6. CASE /\ pc' \in {"finish", "top", "tools"} /\ request' = request
           /\ pc' = "tools" => message \in Calling
           /\ pc' = "top" => message \notin Calling
           /\ message' = message
  <2>1. RequestInv'
    BY <1>1, <1>6, SameRequest DEF LoopInv
  <2>2. CallsInv' /\ ResumeInv'
    BY <1>1, <1>2, <1>4, <1>6 DEF CallsInv, ResumeInv, Settled, Waits, TakingOver, Resumable
  <2>3. CompactionInv'
    BY <1>6 DEF LoopInv, CompactionInv
  <2> QED BY <1>4, <1>5, <2>1, <2>2, <2>3 DEF LoopInv
<1>7. CASE Compact("final", h) /\ message \in {"final", "cut"} /\ Last(h).kind \notin Calling
  <2>1. /\ request' = [kind |-> "final", carried |-> history']
        /\ compaction' = "in_flight" /\ pc' = "body"
    BY <1>1, <1>7 DEF Compact, Send
  <2>2. Settled' /\ ~Resumable(Last(history'))
    BY <1>1, <1>2, <1>4, <1>7 DEF Settled, Waits, Resumable, Resume
  <2>3. RequestInv'
    BY <1>4, <2>1, <2>2, Sends
  <2>4. CallsInv' /\ ResumeInv' /\ CompactionInv'
    BY <2>1, <2>2 DEF CallsInv, ResumeInv, CompactionInv, TakingOver
  <2> QED BY <1>4, <1>5, <2>3, <2>4 DEF LoopInv
<1>8. \/ /\ message \in {"final", "cut"} /\ AfterFinalTurn(h)
      \/ /\ message \in Resume /\ pc' = "top" /\ UNCHANGED <<message, request>>
      \/ /\ message \notin {"final", "cut"} \union Resume /\ pc' = "tools"
         /\ UNCHANGED <<message, request>>
  BY DEF TakeTurn, Resume
<1>9. CASE message \in {"final", "cut"} /\ AfterFinalTurn(h)
  <2>1. \/ pc' = "finish" /\ UNCHANGED <<message, request>>
        \/ Compact("final", h) /\ Last(h).kind \notin Calling
    BY <1>9 DEF AfterFinalTurn
  <2> QED BY <1>6, <1>7, <1>9, <2>1
<1> QED BY <1>1, <1>6, <1>8, <1>9, TurnKinds DEF Resume, Calling

LEMMA TakenOverStep == ASSUME LoopInv, TakenOver PROVE LoopInv'
<1>1. /\ pc = "next" /\ request.kind = "turn" /\ mutated
      /\ UNCHANGED <<history, request, mutated, cached, compaction>>
      /\ pc' = IF HasCalls THEN "tools" ELSE "top"
  BY DEF TakenOver, params
<1>2. HasCalls <=> Last(history).kind \in Calling
  BY <1>1 DEF LoopInv, CacheInv, HasCalls, TakingOver
<1>3. ~Resumable(Last(history))
  BY <1>1 DEF LoopInv, ResumeInv, TakingOver
<1>4. HistoryInv' /\ RequestInv'
  BY <1>1, SameHistory, SameRequest DEF LoopInv
<1>5. CallsInv' /\ ResumeInv' /\ CacheInv' /\ CompactionInv'
  BY <1>1, <1>2, <1>3
     DEF LoopInv, CallsInv, ResumeInv, CacheInv, CompactionInv, Settled, Waits, TakingOver
<1> QED BY <1>4, <1>5 DEF LoopInv

\* The last message is marked as a turn whose tools have failed a pass.
Marked(h) == [h EXCEPT ![Len(h)].by = "stuck"]

LEMMA Marks ==
    ASSUME NEW h \in Seq(Message)
    PROVE  /\ Marked(h) \in Seq(Message) /\ Len(Marked(h)) = Len(h)
           /\ \A i \in 1..Len(h) :
                /\ Marked(h)[i].kind = h[i].kind /\ Marked(h)[i].changes = h[i].changes
                /\ i # Len(h) => Marked(h)[i] = h[i]
           /\ Len(h) > 0 => Marked(h)[Len(h)].by = "stuck"
<1> DEFINE g == Marked(h)
<1>1. PICK n \in Nat : Len(h) = n /\ h \in [1..n -> Message]
  OBVIOUS
<1>2. ASSUME NEW m \in Message
      PROVE  /\ [m EXCEPT !.by = "stuck"] \in Message
             /\ [m EXCEPT !.by = "stuck"].kind = m.kind
             /\ [m EXCEPT !.by = "stuck"].changes = m.changes
             /\ [m EXCEPT !.by = "stuck"].by = "stuck"
  BY DEF Message
<1>3. g = [i \in 1..n |-> IF i = n THEN [h[i] EXCEPT !.by = "stuck"] ELSE h[i]]
  BY <1>1 DEF Marked
<1> HIDE DEF g
<1>4. \A i \in 1..n : g[i] = IF i = n THEN [h[i] EXCEPT !.by = "stuck"] ELSE h[i]
  BY <1>3
<1>5. \A i \in 1..n : g[i] \in Message
  BY <1>1, <1>2, <1>4
<1>6. g \in Seq(Message) /\ Len(g) = n
  <2>1. g = [i \in 1..n |-> g[i]]
    BY <1>3
  <2>2. g \in [1..n -> Message]
    BY <1>5, <2>1
  <2> QED BY <2>2
<1>7. \A i \in 1..n : g[i].kind = h[i].kind /\ g[i].changes = h[i].changes
  BY <1>1, <1>2, <1>4
<1>8. n > 0 => g[n].by = "stuck"
  <2> HAVE n > 0
  <2>1. n \in 1..n /\ h[n] \in Message
    BY <1>1
  <2>2. g[n] = [h[n] EXCEPT !.by = "stuck"]
    BY <1>4, <2>1
  <2> QED BY <1>2, <2>1, <2>2
<1> QED BY <1>1, <1>4, <1>6, <1>7, <1>8 DEF g

LEMMA MarkedHistory ==
    ASSUME TypeOK, HistoryInv, Last(history).kind \in Calling, history' = Marked(history)
    PROVE  HistoryInv' /\ Last(history').by = "stuck"
<1> DEFINE h == history
           n == Len(h)
           g == Marked(history)
<1>1. h \in Seq(Message) /\ n \in Nat /\ n > 0
  BY DEF TypeOK, HistoryInv, IsConversation
<1> HIDE DEF g
<1>2. /\ g \in Seq(Message) /\ Len(g) = n /\ g[n].by = "stuck"
      /\ \A i \in 1..n : g[i].kind = h[i].kind /\ (i # n => g[i] = h[i])
  BY <1>1, Marks DEF g
<1>3. \A i \in 1..n : HasSender(g[i])
  BY <1>1, <1>2 DEF HistoryInv, IsConversation, HasSender, Last
<1>4. IsConversation(g) /\ Last(g).by = "stuck"
  BY <1>1, <1>2, <1>3 DEF IsConversation, Last
<1>5. Orderly(h)
  BY DEF HistoryInv
<1>6. Orderly(g)
  <2>1. \A i \in 1..n : i > 1 => i - 1 \in 1..n
    BY <1>1
  <2>2. \A i \in 1..(n - 1) : i \in 1..n /\ i + 1 \in 1..n /\ i # n
    BY <1>1
  <2> HIDE DEF n, h
  <2>3. \A i \in 1..n : g[i].kind = "results" => i > 1 /\ g[i - 1].kind \in Calling
    BY <1>2, <1>5, <2>1 DEF Orderly, n
  <2>4. \A i \in 1..(n - 1) : Waits(g[i]) => g[i + 1].kind = "results"
    BY <1>2, <1>5, <2>2 DEF Orderly, n
  <2>5. \A i \in 1..(n - 1) :
          g[i].kind = "paused" /\ g[i].by = "runner" => g[i + 1].kind # "changes"
    BY <1>2, <1>5, <2>2 DEF Orderly, n
  <2> QED BY <1>2, <2>3, <2>4, <2>5 DEF Orderly
<1> QED BY <1>4, <1>6 DEF HistoryInv, g

LEMMA ToolsReturnStep == ASSUME TypeOK, LoopInv, ToolsReturn PROVE LoopInv'
<1>1. pc = "tools" /\ UNCHANGED <<request, mutated, cached, compaction, lastStop>>
  BY DEF ToolsReturn, state
<1>2. Last(history).kind \in Calling
  BY <1>1 DEF LoopInv, CallsInv
<1>3. CASE pc' = "top" /\ history' = Append(history, Says("results", "runner"))
  <2> DEFINE m == Says("results", "runner")
  <2>1. m.kind = "results" /\ m.by = "runner"
    BY DEF Says
  <2>2. history' = Append(history, m)
    BY <1>3
  <2> HIDE DEF m
  <2>3. HistoryInv' /\ Last(history') = m
    BY <1>2, <1>3, <2>1, <2>2, Extends DEF LoopInv
  <2>4. CallsInv' /\ ResumeInv' /\ CacheInv' /\ CompactionInv'
    BY <1>1, <1>3, <2>1, <2>3
       DEF LoopInv, CallsInv, ResumeInv, CacheInv, CompactionInv, Settled, Waits, TakingOver,
           Resumable, Calling, Resume
  <2>5. RequestInv'
    BY <1>1, <1>3, SameRequest DEF LoopInv
  <2> QED BY <2>3, <2>4, <2>5 DEF LoopInv
<1>4. CASE pc' = "new" /\ history' = Marked(history)
  <2>1. HistoryInv' /\ Last(history').by = "stuck" /\ RequestInv'
    BY <1>1, <1>2, <1>4, MarkedHistory, SameRequest DEF LoopInv
  <2>2. CallsInv' /\ ResumeInv' /\ CacheInv' /\ CompactionInv'
    BY <1>1, <1>4, <2>1
       DEF LoopInv, CallsInv, ResumeInv, CacheInv, CompactionInv, Settled, Waits, TakingOver,
           Resumable
  <2> QED BY <2>1, <2>2 DEF LoopInv
<1> QED BY <1>3, <1>4 DEF ToolsReturn, Fails, Marked

LEMMA CompactedStep == ASSUME LoopInv, Compacted PROVE LoopInv'
<1>1. /\ pc = "next" /\ request.kind # "turn" /\ pc' \in {"top", "finish"}
      /\ UNCHANGED <<request, mutated, cached, lastStop>>
  BY DEF Compacted
<1>2. Settled
  BY <1>1 DEF LoopInv, CallsInv, TakingOver
<1>3. RequestInv' /\ CacheInv' /\ CompactionInv'
  BY <1>1, SameRequest DEF LoopInv, CacheInv, CompactionInv, TakingOver
<1>4. CASE \E cs : history' = <<[kind |-> "summary", by |-> "runner", changes |-> cs]>>
  <2>1. PICK cs : history' = <<[kind |-> "summary", by |-> "runner", changes |-> cs]>>
    BY <1>4
  <2> DEFINE m == [kind |-> "summary", by |-> "runner", changes |-> cs]
  <2>2. m.kind = "summary" /\ m.by = "runner"
    OBVIOUS
  <2>3. history' = <<m>>
    BY <2>1
  <2> HIDE DEF m
  <2>4. IsConversation(<<m>>) /\ Orderly(<<m>>) /\ Last(<<m>>) = m
    BY <2>2, OneMessage
  <2>5. HistoryInv' /\ Last(history') = m
    BY <1>1, <2>3, <2>4 DEF LoopInv, HistoryInv
  <2>6. CallsInv' /\ ResumeInv'
    BY <1>1, <2>2, <2>5
       DEF CallsInv, ResumeInv, Settled, Waits, TakingOver, Resumable, Calling, Resume
  <2> QED BY <1>3, <2>5, <2>6 DEF LoopInv
<1>5. CASE history' = history
  <2>1. HistoryInv'
    BY <1>1, <1>5, SameHistory DEF LoopInv
  <2>2. CallsInv' /\ ResumeInv'
    BY <1>1, <1>2, <1>5 DEF LoopInv, CallsInv, ResumeInv, Settled, TakingOver
  <2> QED BY <1>3, <2>1, <2>2 DEF LoopInv
<1> QED BY <1>4, <1>5 DEF Compacted

LEMMA LoopStep == ASSUME LoopInv, Loop PROVE LoopInv'
BY QuietSteps, TopStep, TakeTurnStep, TakenOverStep, CompactedStep DEF Loop

-----------------------------------------------------------------------------
(* The caller.                                                              *)

\* New params under a turn or between passes, when they do not end in a turn to be sent
\* back.
LEMMA Sets ==
    ASSUME LoopInv, SetParams(history'), pc \in {"new", "body"},
           pc = "body" => request.kind = "turn",
           HistoryInv', pc = "new" => Settled', ~Resumable(Last(history'))
    PROVE  LoopInv'
<1>1. /\ UNCHANGED <<pc, request, lastStop, compaction>>
      /\ mutated' = TRUE /\ cached' = "unset"
  BY DEF SetParams
<1>2. RequestInv'
  BY <1>1, SameRequest DEF LoopInv
<1>3. CallsInv' /\ ResumeInv' /\ CacheInv' /\ CompactionInv'
  BY <1>1 DEF LoopInv, CallsInv, ResumeInv, CacheInv, CompactionInv, TakingOver
<1> QED BY <1>2, <1>3 DEF LoopInv

\* The messages may change under a turn only.
LEMMA UnderATurn ==
    ASSUME LoopInv, pc = "body", MessagesMayChange
    PROVE  request.kind = "turn"
BY DEF LoopInv, CompactionInv, MessagesMayChange

LEMMA UserFacts == User.kind = "user" /\ User.by = "caller"
BY DEF User, Says

LEMMA PushUserStep == ASSUME LoopInv, Careful, PushUser PROVE LoopInv'
<1>1. /\ pc \in {"new", "body"} /\ MessagesMayChange /\ Settled
      /\ history' = Append(history, User) /\ SetParams(history')
  BY DEF PushUser, CallerActs, Anywhere, SetParams, Settled
<1>2. HistoryInv' /\ Last(history') = User
  BY <1>1, UserFacts, Extends DEF LoopInv
<1>3. Settled' /\ ~Resumable(Last(history'))
  BY <1>2, UserFacts DEF Settled, Waits, Resumable, Calling
<1> QED BY <1>1, <1>2, <1>3, UnderATurn, Sets

LEMMA ReplaceStep == ASSUME LoopInv, Careful, Replace PROVE LoopInv'
<1>1. /\ pc \in {"new", "body"} /\ MessagesMayChange
      /\ history' = <<User>> /\ SetParams(history')
  BY DEF Replace, CallerActs, Anywhere, SetParams
<1>2. HistoryInv' /\ Last(history') = User
  BY <1>1, UserFacts, OneMessage DEF LoopInv, HistoryInv
<1>3. Settled' /\ ~Resumable(Last(history'))
  BY <1>2, UserFacts DEF Settled, Waits, Resumable, Calling
<1> QED BY <1>1, <1>2, <1>3, UnderATurn, Sets

LEMMA TakeOverStep == ASSUME LoopInv, Careful, TakeOver PROVE LoopInv'
<1> DEFINE m == Says(message, "caller")
           r == Says("results", "caller")
           h == Append(history, m)
<1>1. /\ pc = "body" /\ request.kind = "turn" /\ message \in Turns /\ Settled
      /\ SetParams(history')
      /\ \/ history' = h \o <<>>
         \/ message \in Calling /\ history' = h \o <<r>>
  BY DEF TakeOver, CallerActs, SetParams, Settled
<1>2. /\ m.kind = message /\ m.by = "caller" /\ m.kind \notin {"results", "changes"}
      /\ r.kind = "results" /\ r.by = "caller"
  BY <1>1, TurnKinds DEF Says
<1> HIDE DEF m, r
<1>3. IsConversation(history) /\ Orderly(history) /\ ~Waits(Last(history))
  BY <1>1 DEF LoopInv, HistoryInv, Settled
<1>4. IsConversation(h) /\ Last(h) = m /\ Orderly(h)
  <2>1. Orderly(h)
    BY <1>2, <1>3, OrderlyAppend
  <2> QED BY <1>2, <1>3, <2>1, AppendFacts
<1>5. PICK S : h \in Seq(S)
  BY <1>4 DEF IsConversation
<1>6. h \o <<>> = h /\ h \o <<r>> = Append(h, r)
  BY <1>5
<1>7. CASE history' = h
  BY <1>1, <1>2, <1>4, <1>7, Sets DEF LoopInv, HistoryInv, Resumable
<1>8. CASE message \in Calling /\ history' = Append(h, r)
  <2>1. IsConversation(Append(h, r)) /\ Last(Append(h, r)) = r
    BY <1>2, <1>4, AppendFacts
  <2>2. Orderly(Append(h, r))
    BY <1>2, <1>4, <1>8, OrderlyAppend DEF LoopInv, HistoryInv
  <2> QED BY <1>1, <1>2, <1>8, <2>1, <2>2, Sets DEF LoopInv, HistoryInv, Resumable
<1> QED BY <1>1, <1>6, <1>7, <1>8

\* What the caller does to the messages leaves them in order if it takes the care that
\* Careful stands for.
LEMMA CallerStep == ASSUME LoopInv, Careful, Caller PROVE LoopInv'
<1>1. ASSUME NEW t \in Managed, AddTools(t) \/ RemoveTools(t) PROVE LoopInv'
  <2>1. PICK add : Ask(t, add)
    BY <1>1 DEF AddTools, RemoveTools
  <2>2. UNCHANGED <<history, request, lastStop, compaction, mutated, cached, pc, message>>
    BY <2>1 DEF Ask, state, promises
  <2>3. /\ CallsInv' /\ CacheInv' /\ CompactionInv'
        /\ TakingOver' => ~Resumable(Last(history))
    BY <2>2 DEF LoopInv, CallsInv, CacheInv, CompactionInv, ResumeInv, TakingOver, Settled
  <2> QED BY <2>2, <2>3, Quiet
<1>2. CASE CompactBeforeNextTurn
  <2>1. /\ UNCHANGED <<history, request, lastStop, mutated, cached, pc, message>>
        /\ compaction # "in_flight"
    BY <1>2 DEF CompactBeforeNextTurn, params, promises
  <2>2. /\ CallsInv' /\ CacheInv' /\ CompactionInv'
        /\ TakingOver' => ~Resumable(Last(history))
    BY <2>1 DEF LoopInv, CallsInv, CacheInv, CompactionInv, ResumeInv, TakingOver, Settled
  <2> QED BY <2>1, <2>2, Quiet
<1>3. CASE Touch
  <2>1. /\ UNCHANGED <<history, request, lastStop, compaction, pc, message>>
        /\ mutated' = TRUE /\ cached' = "unset" /\ pc \in {"new", "body", "tools"}
        /\ pc = "body" => ~Resumable(Last(history))
    BY <1>3 DEF Touch, CallerActs, Mindful, SetParams, promises, Resumable
  <2>2. /\ CallsInv' /\ CacheInv' /\ CompactionInv'
        /\ TakingOver' => ~Resumable(Last(history))
    BY <2>1 DEF LoopInv, CallsInv, CacheInv, CompactionInv, ResumeInv, TakingOver, Settled
  <2> QED BY <2>1, <2>2, Quiet
<1>4. CASE GenerateToolResponse
  <2>1. /\ UNCHANGED <<history, request, lastStop, compaction, mutated, pc, message>>
        /\ cached' = IF message \in Calling THEN "results" ELSE "null"
        /\ TakingOver => Last(history) = Says(message, "caller")
    BY <1>4 DEF GenerateToolResponse, params, promises, TakingOver
  <2>2. Says(message, "caller").kind = message
    BY DEF Says
  <2>3. CacheInv'
    BY <2>1, <2>2 DEF CacheInv, TakingOver
  <2>4. /\ CallsInv' /\ CompactionInv'
        /\ TakingOver' => ~Resumable(Last(history))
    BY <2>1 DEF LoopInv, CallsInv, CompactionInv, ResumeInv, TakingOver, Settled
  <2> QED BY <2>1, <2>3, <2>4, Quiet
<1>5. CASE Leave
  <2>1. /\ UNCHANGED <<history, request, lastStop, mutated, cached>> /\ pc' = "left"
    BY <1>5 DEF Leave, params
  <2>2. CallsInv' /\ CacheInv' /\ CompactionInv' /\ ~TakingOver'
    BY <2>1 DEF LoopInv, CallsInv, CacheInv, CompactionInv, TakingOver
  <2> QED BY <2>1, <2>2, Quiet
<1> QED BY <1>1, <1>2, <1>3, <1>4, <1>5, PushUserStep, ReplaceStep, TakeOverStep DEF Caller

LEMMA LoopInvStep == Careful /\ TypeOK /\ LoopInv /\ [Next]_vars => LoopInv'
<1> SUFFICES ASSUME Careful, TypeOK, LoopInv, [Next]_vars PROVE LoopInv'
  OBVIOUS
<1>1. CASE Next
  BY <1>1, QuietSteps, LoopStep, ToolsReturnStep, CallerStep DEF Next
<1>2. CASE UNCHANGED vars
  <2>1. UNCHANGED <<history, request, lastStop, compaction, mutated, cached, pc, message>>
    BY <1>2 DEF vars
  <2>2. /\ CallsInv' /\ CacheInv' /\ CompactionInv'
        /\ TakingOver' => ~Resumable(Last(history))
    BY <2>1 DEF LoopInv, CallsInv, CacheInv, CompactionInv, ResumeInv, TakingOver, Settled
  <2> QED BY <2>1, <2>2, Quiet
<1> QED BY <1>1, <1>2

-----------------------------------------------------------------------------
(* Flattening a sequence of sequences.                                     *)

LEMMA LeastNumber ==
    ASSUME NEW T, T \subseteq Nat, T # {}
    PROVE  \E n \in T : \A m \in T : n <= m
<1>1. PICK n \in T : \A m \in T : <<m, n>> \notin OpToRel(<, Nat)
  BY NatLessThanWellFounded, WFMin
<1>2. \A m \in T : ~(m < n)
  BY <1>1 DEF OpToRel
<1> QED BY <1>2

\* The i-th join of the sequences of `s`, after those in `f`.
Behind(a, b) == a \o b
Join(s, f, i) == IF i = 1 THEN s[i] ELSE Behind(f[i - 1], s[i])

\* `f` has the first n of them.
Joins(s, n, f) == f = [i \in 1..n |-> Join(s, f, i)]

LEMMA JoinsOne ==
    ASSUME NEW s, NEW n \in Nat, NEW f, Joins(s, n, f)
    PROVE  /\ f = [i \in 1..n |-> f[i]]
           /\ n > 0 => f[1] = s[1]
           /\ \A i \in 1..n : i > 1 => f[i] = Behind(f[i - 1], s[i])
<1>1. f = [i \in 1..n |-> f[i]] /\ \A i \in 1..n : f[i] = Join(s, f, i)
  BY DEF Joins
<1>2. n > 0 => f[1] = s[1]
  <2>1. n > 0 => 1 \in 1..n
    OBVIOUS
  <2>2. Join(s, f, 1) = s[1]
    BY DEF Join
  <2> QED BY <1>1, <2>1, <2>2
<1>3. ASSUME NEW i \in 1..n, i > 1 PROVE f[i] = Behind(f[i - 1], s[i])
  BY <1>1, <1>3 DEF Join
<1> QED BY <1>1, <1>2, <1>3

LEMMA IsJoin ==
    ASSUME NEW s, NEW n \in Nat, NEW f, f = [i \in 1..n |-> f[i]],
           n > 0 => f[1] = s[1],
           \A i \in 1..n : i > 1 => f[i] = Behind(f[i - 1], s[i])
    PROVE  Joins(s, n, f)
<1>1. ASSUME NEW i \in 1..n PROVE f[i] = Join(s, f, i)
  <2>1. CASE i = 1
    BY <2>1 DEF Join
  <2>2. CASE i > 1
    <3>1. i # 1
      BY <2>2
    <3>2. Join(s, f, i) = Behind(f[i - 1], s[i])
      BY <3>1 DEF Join
    <3> QED BY <2>2, <3>2
  <2> QED BY <2>1, <2>2
<1>2. [i \in 1..n |-> f[i]] = [i \in 1..n |-> Join(s, f, i)]
  BY <1>1
<1> QED BY <1>2 DEF Joins

\* Two joins agree as far as both go.
LEMMA JoinsAgree ==
    ASSUME NEW s, NEW n \in Nat, NEW m \in Nat, NEW f, NEW g, Joins(s, n, f), Joins(s, m, g)
    PROVE  \A i \in 1..n : i <= m => f[i] = g[i]
<1> DEFINE T == {i \in 1..n : i <= m /\ f[i] # g[i]}
<1> SUFFICES ASSUME T # {} PROVE FALSE
  OBVIOUS
<1>1. T \subseteq Nat
  OBVIOUS
<1>2. PICK i \in T : \A j \in T : i <= j
  BY <1>1, LeastNumber
<1>3. i # 1
  BY <1>2, JoinsOne
<1>4. i - 1 \in 1..n /\ i - 1 <= m /\ i - 1 \notin T
  BY <1>2, <1>3
<1>5. f[i - 1] = g[i - 1]
  BY <1>4
<1>6. f[i] = Behind(f[i - 1], s[i]) /\ g[i] = Behind(g[i - 1], s[i])
  BY <1>2, <1>3, JoinsOne
<1> QED BY <1>2, <1>5, <1>6

LEMMA JoinsExist ==
    ASSUME NEW s, NEW n \in Nat
    PROVE  \E f : Joins(s, n, f)
<1> DEFINE T == {i \in Nat : ~\E f : Joins(s, i, f)}
<1> SUFFICES ASSUME T # {} PROVE FALSE
  OBVIOUS
<1>1. PICK i \in T : \A j \in T : i <= j
  BY LeastNumber
<1>2. i # 0
  <2> DEFINE e == [j \in 1..0 |-> s[j]]
  <2>1. e = [j \in 1..0 |-> Join(s, e, j)]
    OBVIOUS
  <2>2. Joins(s, 0, e)
    BY <2>1 DEF Joins
  <2> QED BY <1>1, <2>2
<1>3. i - 1 \in Nat /\ i - 1 \notin T
  BY <1>1, <1>2
<1>4. PICK f : Joins(s, i - 1, f)
  BY <1>3
<1> DEFINE g == [j \in 1..i |-> IF j # i THEN f[j] ELSE IF i = 1 THEN s[1] ELSE Behind(f[i - 1], s[i])]
<1>5. /\ f = [j \in 1..(i - 1) |-> f[j]]
      /\ i - 1 > 0 => f[1] = s[1]
      /\ \A j \in 1..(i - 1) : j > 1 => f[j] = Behind(f[j - 1], s[j])
  BY <1>3, <1>4, JoinsOne
<1>6. /\ g = [j \in 1..i |-> g[j]]
      /\ \A j \in 1..i : g[j] = IF j # i THEN f[j] ELSE IF i = 1 THEN s[1] ELSE Behind(f[i - 1], s[i])
  OBVIOUS
<1> HIDE DEF g
<1>7. i \in Nat
  BY <1>1
<1>8. g[1] = s[1] /\ \A j \in 1..i : j > 1 => g[j] = Behind(g[j - 1], s[j])
  <2>1. 1 \in 1..i /\ (i # 1 => 1 \in 1..(i - 1) /\ i - 1 > 0)
    BY <1>2, <1>7
  <2>2. g[1] = s[1]
    BY <1>5, <1>6, <2>1
  <2>3. ASSUME NEW j \in 1..i, j > 1 PROVE g[j] = Behind(g[j - 1], s[j])
    <3>1. j - 1 \in 1..i /\ j - 1 # i /\ i # 1
      BY <1>7, <2>3
    <3>2. g[j - 1] = f[j - 1]
      BY <1>6, <3>1
    <3>3. CASE j = i
      BY <1>6, <3>1, <3>2, <3>3
    <3>4. CASE j # i
      <4>1. j \in 1..(i - 1)
        BY <1>7, <3>4
      <4> QED BY <1>5, <1>6, <2>3, <3>2, <3>4, <4>1
    <3> QED BY <3>3, <3>4
  <2> QED BY <2>2, <2>3
<1>9. Joins(s, i, g)
  BY <1>6, <1>7, <1>8, IsJoin
<1> QED BY <1>1, <1>9

\* FlattenSeq is the last of the joins, whichever they are.
LEMMA FlattenIsJoin ==
    ASSUME NEW s, NEW n \in Nat \ {0}, Len(s) = n, NEW f, Joins(s, n, f)
    PROVE  FlattenSeq(s) = f[n]
<1>1. FlattenSeq(s) = (CHOOSE g : Joins(s, n, g))[n]
  BY DEF FlattenSeq, Joins, Join, Behind
<1>2. Joins(s, n, CHOOSE g : Joins(s, n, g))
  OBVIOUS
<1> HIDE DEF Joins
<1> QED BY <1>1, <1>2, JoinsAgree

LEMMA FlattenOne ==
    ASSUME NEW t, Len(t) = 1
    PROVE  FlattenSeq(t) = t[1]
<1>1. PICK f : Joins(t, 1, f)
  BY JoinsExist
<1>2. f[1] = t[1]
  BY <1>1, JoinsOne
<1> QED BY <1>1, <1>2, FlattenIsJoin

\* Flattening one sequence more.
LEMMA FlattenAppend ==
    ASSUME NEW s, NEW t, NEW n \in Nat \ {0}, Len(s) = n, Len(t) = n + 1,
           \A i \in 1..n : t[i] = s[i]
    PROVE  FlattenSeq(t) = Behind(FlattenSeq(s), t[n + 1])
<1> n + 1 \in Nat \ {0}
  OBVIOUS
<1>1. PICK f : Joins(t, n + 1, f)
  BY JoinsExist
<1>2. FlattenSeq(t) = f[n + 1]
  BY <1>1, FlattenIsJoin
<1>3. /\ f[1] = t[1]
      /\ \A i \in 1..(n + 1) : i > 1 => f[i] = Behind(f[i - 1], t[i])
  BY <1>1, JoinsOne
<1> DEFINE g == [i \in 1..n |-> f[i]]
<1>4. g = [i \in 1..n |-> g[i]] /\ \A i \in 1..n : g[i] = f[i]
  OBVIOUS
<1> HIDE DEF g
<1>5. 1 \in 1..n /\ \A i \in 1..n : i > 1 => i - 1 \in 1..n /\ i \in 1..(n + 1)
  OBVIOUS
<1>6. g[1] = s[1]
  BY <1>3, <1>4, <1>5
<1>7. ASSUME NEW i \in 1..n, i > 1 PROVE g[i] = Behind(g[i - 1], s[i])
  BY <1>3, <1>4, <1>5, <1>7
<1>8. Joins(s, n, g)
  BY <1>4, <1>6, <1>7, IsJoin
<1>9. FlattenSeq(s) = g[n]
  BY <1>8, FlattenIsJoin
<1>10. f[n + 1] = Behind(f[n], t[n + 1]) /\ g[n] = f[n]
  BY <1>3, <1>4
<1> QED BY <1>2, <1>9, <1>10

LEMMA JoinsType ==
    ASSUME NEW X, NEW n \in Nat, NEW s, \A i \in 1..n : s[i] \in Seq(X), NEW f, Joins(s, n, f)
    PROVE  \A i \in 1..n : f[i] \in Seq(X)
<1>1. (n > 0 => f[1] = s[1]) /\ \A i \in 1..n : i > 1 => f[i] = Behind(f[i - 1], s[i])
  BY JoinsOne
<1> DEFINE T == {i \in 1..n : f[i] \notin Seq(X)}
<1> SUFFICES ASSUME T # {} PROVE FALSE
  OBVIOUS
<1>2. T \subseteq Nat
  OBVIOUS
<1>3. PICK i \in T : \A j \in T : i <= j
  BY <1>2, LeastNumber
<1>4. i \in 1..n /\ 1 \in 1..n /\ n > 0
  BY <1>3
<1>5. i # 1
  BY <1>1, <1>3, <1>4
<1>6. i - 1 \in 1..n /\ i - 1 \notin T
  BY <1>3, <1>4, <1>5
<1>7. f[i - 1] \in Seq(X) /\ s[i] \in Seq(X)
  BY <1>4, <1>6
<1>8. f[i] = Behind(f[i - 1], s[i])
  BY <1>1, <1>4, <1>5
<1>9. f[i] \in Seq(X)
  BY <1>7, <1>8, ConcatProperties DEF Behind
<1> QED BY <1>3, <1>9

LEMMA FlattenType ==
    ASSUME NEW X, NEW s \in Seq(Seq(X))
    PROVE  FlattenSeq(s) \in Seq(X)
<1>1. PICK n \in Nat : Len(s) = n
  OBVIOUS
<1>2. \A i \in 1..n : s[i] \in Seq(X)
  BY <1>1
<1>3. CASE n = 0
  BY <1>1, <1>3 DEF FlattenSeq
<1>4. CASE n > 0
  <2>1. PICK f : Joins(s, n, f)
    BY JoinsExist
  <2>2. n \in 1..n /\ f[n] \in Seq(X)
    BY <1>2, <1>4, <2>1, JoinsType
  <2> QED BY <1>1, <1>4, <2>1, <2>2, FlattenIsJoin
<1> QED BY <1>3, <1>4

Occurs(x, q) == \E d \in 1..Len(q) : q[d] = x

LEMMA OccursConcat ==
    ASSUME NEW X, NEW a \in Seq(X), NEW b \in Seq(X), NEW x, Occurs(x, a) \/ Occurs(x, b)
    PROVE  Occurs(x, a \o b)
<1>1. /\ Len(a \o b) = Len(a) + Len(b) /\ Len(a) \in Nat /\ Len(b) \in Nat
      /\ \A i \in 1..Len(a) : (a \o b)[i] = a[i]
      /\ \A i \in 1..Len(b) : (a \o b)[Len(a) + i] = b[i]
  OBVIOUS
<1>2. CASE Occurs(x, a)
  <2>1. PICK d \in 1..Len(a) : a[d] = x
    BY <1>2 DEF Occurs
  <2>2. d \in 1..Len(a \o b) /\ (a \o b)[d] = x
    BY <1>1, <2>1
  <2> QED BY <2>2 DEF Occurs
<1>3. CASE Occurs(x, b)
  <2>1. PICK d \in 1..Len(b) : b[d] = x
    BY <1>3 DEF Occurs
  <2>2. Len(a) + d \in 1..Len(a \o b) /\ (a \o b)[Len(a) + d] = x
    BY <1>1, <2>1
  <2> QED BY <2>2 DEF Occurs
<1> QED BY <1>2, <1>3

\* Nothing is lost in flattening.
LEMMA FlattenCovers ==
    ASSUME NEW X, NEW s \in Seq(Seq(X)), NEW k \in 1..Len(s), NEW x, Occurs(x, s[k])
    PROVE  Occurs(x, FlattenSeq(s))
<1>1. PICK n \in Nat : Len(s) = n
  OBVIOUS
<1>2. n \in Nat \ {0} /\ k \in 1..n /\ n \in k..n
  BY <1>1
<1>3. \A i \in 1..n : s[i] \in Seq(X)
  BY <1>1
<1>4. PICK f : Joins(s, n, f)
  BY JoinsExist
<1>5. f[1] = s[1] /\ \A i \in 1..n : i > 1 => f[i] = Behind(f[i - 1], s[i])
  BY <1>2, <1>4, JoinsOne
<1>6. \A i \in 1..n : f[i] \in Seq(X)
  BY <1>3, <1>4, JoinsType
<1> DEFINE T == {i \in k..n : ~Occurs(x, f[i])}
<1>7. T = {}
  <2> SUFFICES ASSUME T # {} PROVE FALSE
    OBVIOUS
  <2>1. T \subseteq Nat
    BY <1>2
  <2>2. PICK i \in T : \A j \in T : i <= j
    BY <2>1, LeastNumber
  <2>3. i \in k..n /\ i \in 1..n
    BY <1>2, <2>2
  <2>4. ~Occurs(x, f[i])
    BY <2>2
  <2>5. i # 1
    <3>1. i = 1 => k = 1
      BY <1>2, <2>3
    <3> QED BY <1>5, <2>4, <3>1
  <2>6. i - 1 \in 1..n /\ i > 1
    BY <2>3, <2>5
  <2>7. f[i - 1] \in Seq(X) /\ s[i] \in Seq(X)
    BY <1>3, <1>6, <2>3, <2>6
  <2>8. f[i] = f[i - 1] \o s[i]
    BY <1>5, <2>3, <2>6 DEF Behind
  <2>9. ~Occurs(x, f[i - 1]) /\ ~Occurs(x, s[i])
    BY <2>4, <2>7, <2>8, OccursConcat
  <2>10. i # k
    BY <2>9
  <2>11. i - 1 \in k..n
    BY <1>2, <2>3, <2>10
  <2>12. i - 1 \in T /\ ~(i <= i - 1)
    BY <2>3, <2>9, <2>11
  <2> QED BY <2>2, <2>12
<1>8. Occurs(x, f[n])
  BY <1>2, <1>7
<1> QED BY <1>1, <1>2, <1>4, <1>8, FlattenIsJoin

-----------------------------------------------------------------------------
(* Tool changes.                                                            *)

LEMMA GreatestNumber ==
    ASSUME NEW n \in Nat, NEW T, T \subseteq 1..n, T # {}
    PROVE  \E i \in T : \A j \in T : j <= i
<1> DEFINE U == {m \in 0..n : n - m \in T}
<1>1. U \subseteq Nat
  OBVIOUS
<1>2. U # {}
  <2>1. PICK i \in T : i \in 1..n
    OBVIOUS
  <2>2. n - i \in 0..n /\ n - (n - i) = i
    BY <2>1
  <2> QED BY <2>1, <2>2
<1>3. PICK m \in U : \A k \in U : m <= k
  BY <1>1, <1>2, LeastNumber
<1>4. m \in 0..n /\ n - m \in T
  BY <1>3
<1>5. ASSUME NEW j \in T PROVE j <= n - m
  <2>1. j \in 1..n
    OBVIOUS
  <2>2. n - j \in 0..n /\ n - (n - j) = j
    BY <2>1
  <2>3. n - j \in U
    BY <2>2
  <2>4. m <= n - j
    BY <1>3, <2>3
  <2> QED BY <1>4, <2>1, <2>4
<1> QED BY <1>4, <1>5

\* The last word of `q` on the tool is that it goes.
TakenAway(t, q) ==
    \E i \in 1..Len(q) :
      q[i].tool = t /\ ~q[i].add /\ \A j \in 1..Len(q) : q[j].tool = t => j <= i

LEMMA WithdrawnIs ==
    ASSUME NEW t, NEW h, NEW queue, NEW S, ChangesOf(h) \o queue \in Seq(S)
    PROVE  Withdrawn(t, h, queue) <=> TakenAway(t, ChangesOf(h) \o queue)
<1> DEFINE all == ChangesOf(h) \o queue
           of  == {i \in 1..Len(all) : all[i].tool = t}
           m   == CHOOSE i \in of : \A j \in of : j <= i
<1>1. Withdrawn(t, h, queue) <=> of # {} /\ ~all[m].add
  BY DEF Withdrawn
<1>2. PICK n \in Nat : Len(all) = n
  OBVIOUS
<1>3. of # {} => m \in of /\ \A j \in of : j <= m
  <2> HAVE of # {}
  <2>1. \E i \in of : \A j \in of : j <= i
    <3>1. of \subseteq 1..n
      BY <1>2
    <3> HIDE DEF of
    <3> QED BY <3>1, GreatestNumber
  <2> HIDE DEF of
  <2> QED BY <2>1
<1> HIDE DEF m, all
<1>4. ASSUME of # {}, ~all[m].add PROVE TakenAway(t, all)
  BY <1>3, <1>4 DEF TakenAway
<1>5. ASSUME TakenAway(t, all) PROVE of # {} /\ ~all[m].add
  <2>1. PICK i \in 1..Len(all) :
          all[i].tool = t /\ ~all[i].add /\ \A j \in 1..Len(all) : all[j].tool = t => j <= i
    BY <1>5 DEF TakenAway
  <2>2. i \in of /\ \A j \in of : j <= i
    BY <2>1
  <2>3. m \in of /\ i <= m /\ m <= i
    BY <1>3, <2>2
  <2>4. m = i
    BY <1>2, <2>3
  <2> QED BY <2>1, <2>2, <2>4
<1> QED BY <1>1, <1>4, <1>5 DEF all

LEMMA TakenAwayAppend ==
    ASSUME NEW S, NEW q \in Seq(S), NEW c \in S, NEW t
    PROVE  TakenAway(t, Append(q, c)) <=> IF c.tool = t THEN ~c.add ELSE TakenAway(t, q)
<1> DEFINE g == Append(q, c)
           n == Len(q)
<1>1. /\ n \in Nat /\ Len(g) = n + 1 /\ g[n + 1] = c
      /\ \A i \in 1..n : g[i] = q[i]
  OBVIOUS
<1> HIDE DEF g, n
<1>2. 1..(n + 1) = 1..n \union {n + 1} /\ \A i \in 1..n : i <= n + 1 /\ ~(n + 1 <= i)
  BY <1>1
<1>3. CASE c.tool = t
  <2>1. TakenAway(t, g) => ~c.add
    <3> HAVE TakenAway(t, g)
    <3>1. PICK i \in 1..(n + 1) : ~g[i].add /\ \A j \in 1..(n + 1) : g[j].tool = t => j <= i
      BY <1>1 DEF TakenAway
    <3>2. i = n + 1
      BY <1>1, <1>2, <1>3, <3>1
    <3> QED BY <1>1, <3>1, <3>2
  <2>2. ~c.add => TakenAway(t, g)
    BY <1>1, <1>2, <1>3 DEF TakenAway
  <2> QED BY <1>3, <2>1, <2>2 DEF g
<1>4. CASE c.tool # t
  <2>1. \A i \in 1..(n + 1) : g[i].tool = t => i \in 1..n /\ g[i] = q[i]
    BY <1>1, <1>2, <1>4
  <2>2. TakenAway(t, g) => TakenAway(t, q)
    <3> HAVE TakenAway(t, g)
    <3>1. PICK i \in 1..(n + 1) :
            g[i].tool = t /\ ~g[i].add /\ \A j \in 1..(n + 1) : g[j].tool = t => j <= i
      BY <1>1 DEF TakenAway
    <3>2. i \in 1..n /\ q[i].tool = t /\ ~q[i].add
      BY <2>1, <3>1
    <3>3. \A j \in 1..n : q[j].tool = t => j <= i
      BY <1>1, <1>2, <3>1
    <3> QED BY <3>2, <3>3 DEF TakenAway, n
  <2>3. TakenAway(t, q) => TakenAway(t, g)
    <3> HAVE TakenAway(t, q)
    <3>1. PICK i \in 1..n :
            q[i].tool = t /\ ~q[i].add /\ \A j \in 1..n : q[j].tool = t => j <= i
      BY DEF TakenAway, n
    <3>2. i \in 1..(n + 1) /\ g[i].tool = t /\ ~g[i].add
      BY <1>1, <1>2, <3>1
    <3>3. \A j \in 1..(n + 1) : g[j].tool = t => j <= i
      BY <2>1, <3>1
    <3> QED BY <1>1, <3>2, <3>3 DEF TakenAway
  <2> QED BY <1>4, <2>2, <2>3 DEF g
<1> QED BY <1>3, <1>4

\* What the later changes say stands whatever came before them.
LEMMA TakenAwayLater ==
    ASSUME NEW S, NEW a \in Seq(S), NEW b \in Seq(S), NEW t, TakenAway(t, b)
    PROVE  TakenAway(t, a \o b)
<1> DEFINE g == a \o b
           k == Len(a)
           n == Len(b)
<1>1. /\ k \in Nat /\ n \in Nat /\ Len(g) = k + n
      /\ \A i \in 1..n : g[k + i] = b[i]
  OBVIOUS
<1>2. PICK i \in 1..n : b[i].tool = t /\ ~b[i].add /\ \A j \in 1..n : b[j].tool = t => j <= i
  BY DEF TakenAway
<1> HIDE DEF g, k, n
<1>3. k + i \in 1..(k + n) /\ g[k + i].tool = t /\ ~g[k + i].add
  BY <1>1, <1>2
<1>4. ASSUME NEW j \in 1..(k + n), g[j].tool = t PROVE j <= k + i
  <2>1. CASE j <= k
    BY <1>1, <1>2, <2>1
  <2>2. CASE j > k
    <3>1. j - k \in 1..n /\ k + (j - k) = j
      BY <1>1, <2>2
    <3>2. b[j - k].tool = t
      BY <1>1, <1>4, <3>1
    <3>3. j - k <= i
      BY <1>2, <3>1, <3>2
    <3> QED BY <1>1, <1>2, <3>1, <3>3
  <2> QED BY <1>1, <2>1, <2>2
<1>5. TakenAway(t, g)
  BY <1>1, <1>3, <1>4 DEF TakenAway
<1> QED BY <1>5 DEF g

-----------------------------------------------------------------------------
(* The changes of a history.                                                *)

LEMMA ChangesType ==
    ASSUME NEW M, NEW h \in Seq(M), NEW S, \A i \in 1..Len(h) : h[i].changes \in Seq(S)
    PROVE  ChangesOf(h) \in Seq(S)
<1> DEFINE s == [i \in 1..Len(h) |-> h[i].changes]
<1>1. s \in Seq(Seq(S))
  <2>1. PICK n \in Nat : Len(h) = n
    OBVIOUS
  <2>2. s \in [1..n -> Seq(S)]
    BY <2>1
  <2> QED BY <2>1, <2>2
<1> HIDE DEF s
<1>2. FlattenSeq(s) \in Seq(S)
  BY <1>1, FlattenType
<1> QED BY <1>2 DEF ChangesOf, s

LEMMA ChangesAppend ==
    ASSUME NEW M, NEW h \in Seq(M), NEW S, \A i \in 1..Len(h) : h[i].changes \in Seq(S),
           NEW m, m.changes \in Seq(S)
    PROVE  ChangesOf(Append(h, m)) = ChangesOf(h) \o m.changes
<1> DEFINE g == Append(h, m)
           s == [i \in 1..Len(h) |-> h[i].changes]
           t == [i \in 1..Len(g) |-> g[i].changes]
<1>1. PICK n \in Nat : Len(h) = n
  OBVIOUS
<1>2. Len(g) = n + 1 /\ g[n + 1] = m /\ \A i \in 1..n : g[i] = h[i]
  BY <1>1
<1> HIDE DEF g
<1>3. Len(s) = n /\ \A i \in 1..n : s[i] = h[i].changes
  BY <1>1
<1>4. Len(t) = n + 1 /\ \A i \in 1..(n + 1) : t[i] = g[i].changes
  BY <1>2
<1>5. n + 1 \in 1..(n + 1) /\ \A i \in 1..n : i \in 1..(n + 1)
  OBVIOUS
<1>6. t[n + 1] = m.changes /\ \A i \in 1..n : t[i] = s[i]
  BY <1>2, <1>3, <1>4, <1>5
<1> HIDE DEF s, t
<1>7. FlattenSeq(t) = FlattenSeq(s) \o m.changes
  <2>1. CASE n = 0
    <3>1. FlattenSeq(t) = m.changes
      BY <1>4, <1>6, <2>1, FlattenOne
    <3>2. FlattenSeq(s) = <<>>
      <4>1. s = <<>>
        BY <1>1, <2>1 DEF s
      <4> QED BY <4>1 DEF FlattenSeq
    <3> QED BY <3>1, <3>2, ConcatEmptySeq
  <2>2. CASE n # 0
    <3>1. n \in Nat \ {0}
      BY <2>2
    <3>2. FlattenSeq(t) = Behind(FlattenSeq(s), t[n + 1])
      BY <1>3, <1>4, <1>6, <3>1, FlattenAppend
    <3> QED BY <1>6, <3>2 DEF Behind
  <2> QED BY <2>1, <2>2
<1> QED BY <1>7 DEF ChangesOf, s, t, g

LEMMA ChangesOne ==
    ASSUME NEW S, NEW m, m.changes \in Seq(S)
    PROVE  ChangesOf(<<m>>) = m.changes
<1> DEFINE t == [i \in 1..Len(<<m>>) |-> (<<m>>)[i].changes]
<1>1. Len(<<m>>) = 1 /\ (<<m>>)[1] = m
  OBVIOUS
<1>2. Len(t) = 1 /\ t[1] = m.changes
  BY <1>1
<1> HIDE DEF t
<1>3. FlattenSeq(t) = t[1]
  BY <1>2, FlattenOne
<1> QED BY <1>2, <1>3 DEF ChangesOf, t

LEMMA ChangesCover ==
    ASSUME NEW M, NEW h \in Seq(M), NEW S, \A i \in 1..Len(h) : h[i].changes \in Seq(S),
           NEW k \in 1..Len(h), NEW x, Occurs(x, h[k].changes)
    PROVE  Occurs(x, ChangesOf(h))
<1> DEFINE s == [i \in 1..Len(h) |-> h[i].changes]
<1>1. PICK n \in Nat : Len(h) = n
  OBVIOUS
<1>2. s \in Seq(Seq(S)) /\ Len(s) = n /\ k \in 1..n
  <2>1. s \in [1..n -> Seq(S)]
    BY <1>1
  <2> QED BY <1>1, <2>1
<1>3. s[k] = h[k].changes
  OBVIOUS
<1> HIDE DEF s
<1>4. Occurs(x, FlattenSeq(s))
  BY <1>2, <1>3, FlattenCovers
<1> QED BY <1>4 DEF ChangesOf, s

-----------------------------------------------------------------------------
(* Types.                                                                   *)

LEMMA MessageTypes ==
    /\ \A kind \in {"user", "results", "summary"} \union Turns : \A by \in {"runner", "caller"} :
         Says(kind, by) \in Message
    /\ \A cs \in Seq(Change) : \A by \in {"runner", "caller"} : Changes(cs, by) \in Message
    /\ \A cs \in Seq(Change) : [kind |-> "summary", by |-> "runner", changes |-> cs] \in Message
    /\ User \in Message
<1>1. <<>> \in Seq(Change)
  OBVIOUS
<1> QED BY <1>1 DEF Says, Changes, User, Message

LEMMA HistoryChanges ==
    ASSUME NEW h \in Seq(Message)
    PROVE  ChangesOf(h) \in Seq(Change) /\ \A i \in 1..Len(h) : h[i].changes \in Seq(Change)
<1>1. \A i \in 1..Len(h) : h[i].changes \in Seq(Change)
  <2>1. \A i \in 1..Len(h) : h[i] \in Message
    OBVIOUS
  <2> QED BY <2>1 DEF Message
<1> QED BY <1>1, ChangesType

LEMMA AppendMessage ==
    ASSUME NEW h \in Seq(Message), NEW m \in Message
    PROVE  Append(h, m) \in Seq(Message) /\ ChangesOf(Append(h, m)) = ChangesOf(h) \o m.changes
<1>1. m.changes \in Seq(Change)
  BY DEF Message
<1>2. \A i \in 1..Len(h) : h[i].changes \in Seq(Change)
  BY HistoryChanges
<1>3. ChangesOf(Append(h, m)) = ChangesOf(h) \o m.changes
  BY <1>1, <1>2, ChangesAppend
<1> QED BY <1>3

LEMMA OneMessageSaid ==
    ASSUME NEW m \in Message
    PROVE  <<m>> \in Seq(Message) /\ ChangesOf(<<m>>) = m.changes
BY ChangesOne DEF Message

LEMMA FlushedType == TypeOK => Flushed \in Seq(Message) /\ QueueLeft \in Seq(Change)
<1> SUFFICES ASSUME TypeOK PROVE Flushed \in Seq(Message) /\ QueueLeft \in Seq(Change)
  OBVIOUS
<1>1. Changes(pending, "runner") \in Message
  BY MessageTypes DEF TypeOK
<1> QED BY <1>1 DEF TypeOK, Flushed, QueueLeft

\* Everything but the history, the queue and what was asked for.
ControlOK ==
    /\ overrides \in [Tool -> {"none", "given", "gone"}]
    /\ lastStop \in {"null"} \union Turns
    /\ compaction \in {"idle", "scheduled", "in_flight"} /\ mutated \in BOOLEAN
    /\ cached \in {"unset", "null", "results"} /\ iteration \in 0..MaxIterations
    /\ message \in {"unset", "awaited", "failed"} \union Turns \union Summaries
    /\ saved \in {"unset", "failed"} \union Turns \union Summaries
    /\ request.kind \in {"none", "turn", "compact", "final"}
    /\ completion \in {"pending", "rejected"} \union Turns \union Summaries
    /\ pc \in {"new", "top", "body", "next", "tools", "finish", "ended", "left"}
    /\ gone \subseteq Tool /\ given \subseteq Tool
    /\ acts \in 0..MaxActs /\ passes \in 0..MaxPasses

SequencesOK ==
    /\ history \in Seq(Message) /\ pending \in Seq(Change)
    /\ asked \in Seq(Change) /\ told \in Seq(Change)
    /\ request \in [kind : {"none", "turn", "compact", "final"}, carried : Seq(Message)]

LEMMA TypeParts == TypeOK <=> ControlOK /\ SequencesOK
BY DEF TypeOK, ControlOK, SequencesOK

LEMMA SendTypes ==
    ASSUME NEW kind \in {"turn", "compact", "final"}, NEW h \in Seq(Message), Send(kind, h)
    PROVE  /\ request' \in [kind : {"none", "turn", "compact", "final"}, carried : Seq(Message)]
           /\ request'.kind = kind /\ message' = "awaited" /\ cached' = "unset" /\ pc' = "body"
BY DEF Send

LEMMA CompactTypes ==
    ASSUME TypeOK, NEW kind \in {"compact", "final"}, NEW h \in Seq(Message), Compact(kind, h)
    PROVE  /\ Send(kind, h) /\ compaction' = "in_flight"
           /\ saved' \in {"unset", "failed"} \union Turns \union Summaries
BY DEF Compact, TypeOK

LEMMA LoopTypes ==
    ASSUME TypeOK, Loop
    PROVE  ControlOK' /\ request' \in [kind : {"none", "turn", "compact", "final"}, carried : Seq(Message)]
<1> USE BoundAssumption
<1>1. CASE Top
  <2>1. Flushed \in Seq(Message)
    BY FlushedType
  <2>2. /\ iteration < MaxIterations
        /\ UNCHANGED <<overrides, lastStop, completion, gone, given, acts, passes>>
        /\ \/ Compact("compact", Flushed) /\ UNCHANGED <<mutated, iteration>>
           \/ /\ Send("turn", Flushed) /\ mutated' = FALSE /\ iteration' = iteration + 1
              /\ UNCHANGED <<compaction, saved>>
    BY <1>1 DEF Top, ghosts, bounds
  <2>3. CASE Compact("compact", Flushed) /\ UNCHANGED <<mutated, iteration>>
    BY <2>1, <2>2, <2>3, CompactTypes, SendTypes DEF TypeOK, ControlOK
  <2>4. CASE /\ Send("turn", Flushed) /\ mutated' = FALSE /\ iteration' = iteration + 1
             /\ UNCHANGED <<compaction, saved>>
    <3>1. iteration' \in 0..MaxIterations
      BY <2>2, <2>4 DEF TypeOK
    <3> QED BY <2>1, <2>2, <2>4, <3>1, SendTypes DEF TypeOK, ControlOK
  <2> QED BY <2>2, <2>3, <2>4
<1>2. CASE IterationsUsed
  BY <1>2 DEF IterationsUsed, params, state, promises, ghosts, bounds, TypeOK, ControlOK
<1>3. CASE RequestFailed
  BY <1>3 DEF RequestFailed, Fails, params, ghosts, bounds, TypeOK, ControlOK
<1>4. CASE TakeTurn
  <2> DEFINE h == Append(history, Says(message, "runner"))
  <2>1. h \in Seq(Message) /\ message \in Turns
    BY <1>4, MessageTypes, AppendMessage DEF TakeTurn, TypeOK
  <2>2. /\ lastStop' = message
        /\ UNCHANGED <<overrides, mutated, iteration, completion, gone, given, acts, passes>>
        /\ \/ AfterFinalTurn(h)
           \/ pc' \in {"top", "tools"} /\ UNCHANGED <<compaction, message, saved, cached, request>>
    BY <1>4 DEF TakeTurn, ghosts, bounds
  <2> HIDE DEF h
  <2>3. \/ Compact("final", h)
        \/ /\ pc' \in {"top", "tools", "finish"} /\ UNCHANGED <<message, saved, cached, request>>
           /\ compaction' \in {compaction, "idle"}
    BY <2>2 DEF AfterFinalTurn
  <2>4. CASE Compact("final", h)
    BY <2>1, <2>2, <2>4, CompactTypes, SendTypes DEF TypeOK, ControlOK
  <2>5. CASE /\ pc' \in {"top", "tools", "finish"} /\ UNCHANGED <<message, saved, cached, request>>
             /\ compaction' \in {compaction, "idle"}
    BY <2>1, <2>2, <2>5 DEF TypeOK, ControlOK
  <2> QED BY <2>3, <2>4, <2>5
<1>5. CASE TakenOver
  BY <1>5 DEF TakenOver, params, promises, ghosts, bounds, TypeOK, ControlOK
<1>6. CASE Compacted
  <2>1. overrides' \in [Tool -> {"none", "given", "gone"}]
    BY <1>6 DEF Compacted, RecordRemovals, TypeOK
  <2>2. /\ compaction' = "idle" /\ pc' \in {"top", "finish"} /\ message' \in {message, saved}
        /\ UNCHANGED <<lastStop, mutated, cached, iteration, saved, completion, request,
                       gone, given, acts, passes>>
    BY <1>6 DEF Compacted, AfterCompaction, bounds
  <2> QED BY <2>1, <2>2 DEF TypeOK, ControlOK
<1>7. CASE Finish
  <2>1. /\ completion' \in {"rejected", message} /\ pc' \in {"new", "ended"}
        /\ completion' = message => message \notin {"unset", "failed", "awaited"}
        /\ UNCHANGED <<overrides, lastStop, compaction, mutated, cached, iteration, message, saved,
                       request, gone, given, acts, passes>>
    <3>1. CASE message \in {"unset", "failed"}
      BY <1>7, <3>1 DEF Finish, Fails, params, state, ghosts, bounds
    <3>2. CASE message \notin {"unset", "failed"}
      BY <1>7, <3>2 DEF Finish, Fails, params, state, ghosts, bounds
    <3> QED BY <3>1, <3>2
  <2> QED BY <2>1 DEF TypeOK, ControlOK
<1> QED BY <1>1, <1>2, <1>3, <1>4, <1>5, <1>6, <1>7 DEF Loop

LEMMA CallerTypes ==
    ASSUME TypeOK, Caller
    PROVE  ControlOK' /\ request' = request
<1> USE BoundAssumption
<1>1. acts' \in 0..MaxActs
  <2>1. acts < MaxActs /\ acts' = acts + 1
    BY DEF Caller, AddTools, RemoveTools, Ask, CompactBeforeNextTurn, Touch, PushUser, Replace,
           TakeOver, GenerateToolResponse, Leave, CallerActs
  <2> QED BY <2>1 DEF TypeOK
<1>2. ASSUME NEW t \in Managed, NEW add, Ask(t, add) PROVE ControlOK' /\ request' = request
  <2>1. t \in Tool
    BY DEF Tool
  <2>2. /\ overrides' \in [Tool -> {"none", "given", "gone"}]
        /\ gone' \subseteq Tool /\ given' \subseteq Tool
        /\ UNCHANGED <<lastStop, compaction, mutated, cached, iteration, message, saved, completion,
                       request, pc, passes>>
    BY <1>2, <2>1 DEF Ask, TypeOK, state, promises
  <2> QED BY <1>1, <2>2 DEF TypeOK, ControlOK
<1>3. CASE CompactBeforeNextTurn
  BY <1>1, <1>3 DEF CompactBeforeNextTurn, params, promises, ghosts, TypeOK, ControlOK
<1>4. CASE Touch \/ PushUser \/ Replace \/ TakeOver
  <2>1. /\ mutated' = TRUE /\ cached' = "unset"
        /\ UNCHANGED <<overrides, lastStop, compaction, iteration, message, saved, completion,
                       request, pc, given, passes>>
    BY <1>4 DEF Touch, PushUser, Replace, TakeOver, SetParams, promises
  <2>2. gone' \subseteq gone
    BY <1>4 DEF Touch, PushUser, Replace, TakeOver
  <2> QED BY <1>1, <2>1, <2>2 DEF TypeOK, ControlOK
<1>5. CASE GenerateToolResponse
  BY <1>1, <1>5 DEF GenerateToolResponse, params, promises, ghosts, TypeOK, ControlOK
<1>6. CASE Leave
  BY <1>1, <1>6 DEF Leave, params, promises, ghosts, TypeOK, ControlOK
<1> QED BY <1>2, <1>3, <1>4, <1>5, <1>6 DEF Caller, AddTools, RemoveTools

\* Where the loop is, and what it keeps but for the messages.
LEMMA ControlStep ==
    ASSUME TypeOK, [Next]_vars
    PROVE  ControlOK' /\ request' \in [kind : {"none", "turn", "compact", "final"}, carried : Seq(Message)]
<1> USE BoundAssumption
<1>1. CASE Iterate
  BY <1>1 DEF Iterate, params, ghosts, TypeOK, ControlOK
<1>2. CASE Responds
  BY <1>2 DEF Responds, params, state, ghosts, bounds, TypeOK, ControlOK
<1>3. CASE BodyEnds
  BY <1>3 DEF BodyEnds, params, state, promises, ghosts, bounds, TypeOK, ControlOK
<1>4. CASE ToolsReturn
  <2>1. /\ pc' \in {"top", "new"} /\ completion' \in {completion, "rejected"}
        /\ UNCHANGED <<overrides, lastStop, compaction, mutated, cached, iteration, message, saved,
                       request, gone, given, acts, passes>>
    BY <1>4 DEF ToolsReturn, Fails, state, ghosts, bounds
  <2> QED BY <2>1 DEF TypeOK, ControlOK
<1>5. CASE UNCHANGED vars
  BY <1>5 DEF vars, TypeOK, ControlOK
<1>6. CASE Caller
  BY <1>6, CallerTypes DEF TypeOK
<1> QED BY <1>1, <1>2, <1>3, <1>4, <1>5, <1>6, LoopTypes DEF Next

-----------------------------------------------------------------------------
(* What is said of the tools.                                               *)

\* Every change that has not been replaced, told or waiting.
Word == ChangesOf(history) \o pending

WordsInv == told \o Word = asked

\* A tool that is given is not gone by any record; one that is gone is so by the
\* overrides, or by the caller's own message.
AskedInv ==
    /\ \A t \in given : overrides[t] # "gone" /\ ~TakenAway(t, Word)
    /\ \A t \in gone : overrides[t] = "gone" \/ (t \in Handmade /\ TakenAway(t, Word))

SaidInv == SequencesOK /\ WordsInv /\ AskedInv

LEMMA WordType == SequencesOK => Word \in Seq(Change) /\ ChangesOf(history) \in Seq(Change)
<1> SUFFICES ASSUME SequencesOK PROVE Word \in Seq(Change) /\ ChangesOf(history) \in Seq(Change)
  OBVIOUS
<1>1. ChangesOf(history) \in Seq(Change) /\ pending \in Seq(Change)
  BY HistoryChanges DEF SequencesOK
<1> QED BY <1>1, ConcatProperties DEF Word

LEMMA SameWord ==
    ASSUME SaidInv, history' \in Seq(Message), pending' \in Seq(Change), Word' = Word,
           request' \in [kind : {"none", "turn", "compact", "final"}, carried : Seq(Message)],
           UNCHANGED <<overrides, gone, given, asked, told>>
    PROVE  SaidInv'
<1>1. SequencesOK' /\ WordsInv'
  BY DEF SaidInv, SequencesOK, WordsInv
<1>2. AskedInv'
  BY DEF SaidInv, AskedInv
<1> QED BY <1>1, <1>2 DEF SaidInv

\* A message without tool changes.
LEMMA SilentMessage ==
    ASSUME NEW h \in Seq(Message), NEW m \in Message, m.changes = <<>>
    PROVE  Append(h, m) \in Seq(Message) /\ ChangesOf(Append(h, m)) = ChangesOf(h)
<1>1. ChangesOf(h) \in Seq(Change)
  BY HistoryChanges
<1>2. ChangesOf(h) \o <<>> = ChangesOf(h)
  BY <1>1, ConcatEmptySeq
<1> QED BY <1>2, AppendMessage

LEMMA SaysNothing ==
    ASSUME NEW kind \in {"user", "results", "summary"} \union Turns, NEW by \in {"runner", "caller"}
    PROVE  Says(kind, by) \in Message /\ Says(kind, by).changes = <<>>
BY MessageTypes DEF Says

\* The steps that leave messages, queue and requests for tools alone.
LEMMA SilentSteps ==
    ASSUME TypeOK, SaidInv, [Next]_vars, UNCHANGED <<history, pending, overrides, gone, given, asked, told>>
    PROVE  SaidInv'
<1>1. Word' = Word
  BY DEF Word
<1>2. history' \in Seq(Message) /\ pending' \in Seq(Change)
  BY DEF SaidInv, SequencesOK
<1> QED BY <1>1, <1>2, ControlStep, SameWord

LEMMA TopSays == ASSUME TypeOK, SaidInv, Top PROVE SaidInv'
<1>1. /\ history' = Flushed /\ pending' = QueueLeft
      /\ UNCHANGED <<overrides, gone, given, asked, told>>
  BY DEF Top, ghosts
<1>2. history' \in Seq(Message) /\ pending' \in Seq(Change)
  BY <1>1, FlushedType
<1>3. CASE history' = history /\ pending' = pending
  BY <1>1, <1>3, SilentSteps DEF Next, Loop
<1>4. CASE history' = Append(history, Changes(pending, "runner")) /\ pending' = <<>>
  <2>1. Changes(pending, "runner") \in Message /\ Changes(pending, "runner").changes = pending
    BY MessageTypes DEF Changes, SaidInv, SequencesOK
  <2>2. ChangesOf(history') = ChangesOf(history) \o pending
    BY <1>4, <2>1, AppendMessage DEF SaidInv, SequencesOK
  <2>3. Word \in Seq(Change)
    BY WordType DEF SaidInv
  <2>4. Word' = Word
    BY <1>4, <2>2, <2>3, ConcatEmptySeq DEF Word
  <2>5. [Next]_vars
    BY DEF Next, Loop
  <2> QED BY <1>1, <1>2, <2>4, <2>5, ControlStep, SameWord
<1>5. pending = <<>> => Flushed = history /\ QueueLeft = pending
  BY DEF Flushed, QueueLeft
<1> QED BY <1>1, <1>3, <1>4, <1>5 DEF Flushed, QueueLeft

\* A step that adds a message without tool changes, or two.
LEMMA AddsSilence ==
    ASSUME TypeOK, SaidInv, [Next]_vars, NEW m \in Message, m.changes = <<>>,
           UNCHANGED <<pending, overrides, gone, given, asked, told>>,
           \/ history' = Append(history, m)
           \/ history' = Append(Append(history, m), Says("results", "caller"))
    PROVE  SaidInv'
<1> DEFINE h == Append(history, m)
           r == Says("results", "caller")
<1>1. h \in Seq(Message) /\ ChangesOf(h) = ChangesOf(history)
  BY SilentMessage DEF SaidInv, SequencesOK
<1>2. r \in Message /\ r.changes = <<>>
  BY SaysNothing
<1> HIDE DEF h, r
<1>3. Append(h, r) \in Seq(Message) /\ ChangesOf(Append(h, r)) = ChangesOf(history)
  BY <1>1, <1>2, SilentMessage
<1>4. history' \in Seq(Message) /\ ChangesOf(history') = ChangesOf(history)
  BY <1>1, <1>3 DEF h, r
<1>5. Word' = Word /\ pending' \in Seq(Change)
  BY <1>4 DEF Word, SaidInv, SequencesOK
<1> QED BY <1>4, <1>5, ControlStep, SameWord

\* The mark of a failed pass says nothing of the tools.
LEMMA MarkSays ==
    ASSUME TypeOK, SaidInv, [Next]_vars, history' = Marked(history),
           UNCHANGED <<pending, overrides, gone, given, asked, told>>
    PROVE  SaidInv'
<1>1. history \in Seq(Message)
  BY DEF TypeOK
<1>2. /\ history' \in Seq(Message) /\ Len(history') = Len(history)
      /\ \A i \in 1..Len(history) : history'[i].changes = history[i].changes
  BY <1>1, Marks
<1>3. ChangesOf(history') = ChangesOf(history)
  <2>1. [i \in 1..Len(history') |-> history'[i].changes]
          = [i \in 1..Len(history) |-> history[i].changes]
    BY <1>2
  <2> QED BY <2>1 DEF ChangesOf
<1>4. Word' = Word /\ pending' \in Seq(Change)
  BY <1>3 DEF Word, SaidInv, SequencesOK
<1> QED BY <1>2, <1>4, ControlStep, SameWord

LEMMA AskSays ==
    ASSUME TypeOK, SaidInv, NEW t \in Managed, NEW add \in BOOLEAN, Ask(t, add), [Next]_vars
    PROVE  SaidInv'
<1> DEFINE c == [tool |-> t, add |-> add]
<1>1. /\ history' = history /\ pending' = Append(pending, c) /\ asked' = Append(asked, c)
      /\ told' = told /\ overrides' = [overrides EXCEPT ![t] = IF add THEN "given" ELSE "gone"]
      /\ gone' = (IF add THEN gone \ {t} ELSE gone \union {t})
      /\ given' = (IF add THEN given \union {t} ELSE given \ {t})
  BY DEF Ask
<1>2. c \in Change /\ c.tool = t /\ c.add = add
  BY DEF Change, Tool
<1> HIDE DEF c
<1>3. /\ ChangesOf(history) \in Seq(Change) /\ pending \in Seq(Change) /\ told \in Seq(Change)
      /\ asked \in Seq(Change) /\ history \in Seq(Message) /\ Word \in Seq(Change)
  BY WordType DEF SaidInv, SequencesOK
<1>4. Word' = Append(Word, c)
  <2>1. ChangesOf(history) \o Append(pending, c) = Append(ChangesOf(history) \o pending, c)
    BY <1>2, <1>3
  <2> QED BY <1>1, <2>1 DEF Word
<1>5. SequencesOK'
  BY <1>1, <1>2, <1>3, ControlStep DEF SequencesOK
<1>6. WordsInv'
  <2>1. told \o Append(Word, c) = Append(told \o Word, c)
    BY <1>2, <1>3
  <2> QED BY <1>1, <1>4, <2>1 DEF WordsInv, SaidInv
<1>7. \A u : TakenAway(u, Word') <=> IF u = t THEN ~add ELSE TakenAway(u, Word)
  BY <1>2, <1>3, <1>4, TakenAwayAppend
<1>8. overrides \in [Tool -> {"none", "given", "gone"}] /\ t \in Tool /\ gone \subseteq Tool /\ given \subseteq Tool
  BY DEF TypeOK, Tool
<1>9. ASSUME NEW u \in given' PROVE overrides'[u] # "gone" /\ ~TakenAway(u, Word')
  <2>1. CASE u = t
    BY <1>1, <1>7, <1>8, <1>9, <2>1
  <2>2. CASE u # t
    BY <1>1, <1>7, <1>8, <1>9, <2>2 DEF SaidInv, AskedInv
  <2> QED BY <2>1, <2>2
<1>10. ASSUME NEW u \in gone'
       PROVE  overrides'[u] = "gone" \/ (u \in Handmade /\ TakenAway(u, Word'))
  <2>1. CASE u = t
    BY <1>1, <1>8, <1>10, <2>1
  <2>2. CASE u # t
    BY <1>1, <1>7, <1>8, <1>10, <2>2 DEF SaidInv, AskedInv
  <2> QED BY <2>1, <2>2
<1> QED BY <1>5, <1>6, <1>9, <1>10 DEF SaidInv, AskedInv

\* Messages that go take what they told with them; the queue has the last word then.
LEMMA Forgets ==
    ASSUME TypeOK, SaidInv, [Next]_vars, history' \in Seq(Message), ChangesOf(history') = <<>>,
           told' = told \o ChangesOf(history),
           UNCHANGED <<pending, asked, given>>,
           \A t \in given : overrides'[t] # "gone",
           gone' \subseteq gone,
           \A t \in gone' : overrides'[t] = "gone"
    PROVE  SaidInv'
<1>1. /\ ChangesOf(history) \in Seq(Change) /\ pending \in Seq(Change) /\ told \in Seq(Change)
      /\ asked \in Seq(Change)
  BY WordType DEF SaidInv, SequencesOK
<1>2. Word' = pending
  BY <1>1, ConcatEmptySeq DEF Word
<1>3. told' \in Seq(Change)
  BY <1>1, ConcatProperties
<1>4. SequencesOK'
  BY <1>1, <1>3, ControlStep DEF SequencesOK
<1>5. WordsInv'
  <2>1. (told \o ChangesOf(history)) \o pending = told \o (ChangesOf(history) \o pending)
    BY <1>1, ConcatAssociative
  <2> QED BY <1>2, <2>1 DEF WordsInv, SaidInv, Word
<1>6. ASSUME NEW t \in given, TakenAway(t, pending) PROVE FALSE
  <2>1. TakenAway(t, Word)
    BY <1>1, <1>6, TakenAwayLater DEF Word
  <2> QED BY <2>1 DEF SaidInv, AskedInv
<1>7. AskedInv'
  BY <1>2, <1>6 DEF AskedInv
<1> QED BY <1>4, <1>5, <1>7 DEF SaidInv

LEMMA ReplaceSays == ASSUME TypeOK, SaidInv, Replace PROVE SaidInv'
<1>1. /\ history' = <<User>> /\ told' = told \o ChangesOf(history) /\ gone' = gone \ Handmade
      /\ UNCHANGED <<pending, asked, given, overrides>>
  BY DEF Replace, SetParams
<1>2. User \in Message /\ User.changes = <<>>
  BY MessageTypes DEF User, Says
<1>3. history' \in Seq(Message) /\ ChangesOf(history') = <<>>
  BY <1>1, <1>2, OneMessageSaid
<1>4. [Next]_vars
  BY DEF Next, Caller
<1>5. /\ \A t \in given : overrides'[t] # "gone"
      /\ \A t \in gone' : overrides'[t] = "gone"
  BY <1>1 DEF SaidInv, AskedInv
<1> QED BY <1>1, <1>3, <1>4, <1>5, Forgets

\* A summary that leaves the changes out has them kept in the overrides.
LEMMA CompactedSays ==
    ASSUME TypeOK, SaidInv, CompactionInv, Compacted
    PROVE  SaidInv'
<1>1. [Next]_vars
  BY DEF Next, Loop
<1>2. UNCHANGED <<pending, asked, gone, given>>
  BY DEF Compacted
<1>3. CASE UNCHANGED <<overrides, history, told>>
  BY <1>1, <1>2, <1>3, SilentSteps
<1>4. ASSUME NEW cs \in {<<>>, ChangesOf(request.carried)},
             overrides' = RecordRemovals,
             history' = <<[kind |-> "summary", by |-> "runner", changes |-> cs]>>,
             told' = IF cs = <<>> THEN told \o ChangesOf(history) ELSE told
      PROVE  SaidInv'
  <2> DEFINE m == [kind |-> "summary", by |-> "runner", changes |-> cs]
  <2>1. history = request.carried
    BY DEF Compacted, CompactionInv
  <2>2. /\ ChangesOf(history) \in Seq(Change) /\ pending \in Seq(Change) /\ told \in Seq(Change)
        /\ asked \in Seq(Change) /\ Word \in Seq(Change)
    BY WordType DEF SaidInv, SequencesOK
  <2>3. cs \in Seq(Change)
    BY <2>1, <2>2, EmptySeq
  <2>4. m \in Message /\ m.changes = cs
    BY <2>3, MessageTypes
  <2>5. history' \in Seq(Message) /\ ChangesOf(history') = cs
    <3> HIDE DEF m
    <3>1. <<m>> \in Seq(Message) /\ ChangesOf(<<m>>) = cs
      BY <2>4, OneMessageSaid
    <3> QED BY <1>4, <3>1 DEF m
  <2>6. gone \subseteq Tool /\ given \subseteq Tool
    BY DEF TypeOK
  <2>7. \A t \in Tool : Withdrawn(t, history, pending) <=> TakenAway(t, Word)
    BY <2>2, WithdrawnIs DEF Word
  <2>8. \A t \in Tool : overrides'[t] = "gone" <=> overrides[t] = "gone" \/ TakenAway(t, Word)
    BY <1>4, <2>7 DEF RecordRemovals, RunnableTools, AvailableToolNames
  <2>9. /\ \A t \in given : overrides'[t] # "gone"
        /\ \A t \in gone : overrides'[t] = "gone"
    BY <2>6, <2>8 DEF SaidInv, AskedInv
  <2>10. CASE cs = <<>>
    BY <1>1, <1>2, <1>4, <2>5, <2>9, <2>10, Forgets
  <2>11. CASE cs # <<>>
    <3>1. Word' = Word
      BY <1>2, <1>4, <2>1, <2>5, <2>11 DEF Word
    <3>2. SequencesOK' /\ WordsInv'
      BY <1>1, <1>2, <1>4, <2>2, <2>5, <2>11, <3>1, ControlStep DEF SaidInv, SequencesOK, WordsInv
    <3>3. AskedInv'
      BY <1>2, <2>9, <3>1 DEF SaidInv, AskedInv
    <3> QED BY <3>2, <3>3 DEF SaidInv
  <2> QED BY <2>10, <2>11
<1> QED BY <1>3, <1>4 DEF Compacted

LEMMA SaidStep == TypeOK /\ SaidInv /\ CompactionInv /\ [Next]_vars => SaidInv'
<1> SUFFICES ASSUME TypeOK, SaidInv, CompactionInv, [Next]_vars PROVE SaidInv'
  OBVIOUS
<1>1. CASE Iterate \/ IterationsUsed \/ Responds \/ BodyEnds \/ RequestFailed \/ TakenOver
           \/ Finish \/ CompactBeforeNextTurn \/ Touch \/ GenerateToolResponse \/ Leave
           \/ UNCHANGED vars
  <2>1. UNCHANGED <<history, pending, overrides, gone, given, asked, told>>
    BY <1>1 DEF Iterate, IterationsUsed, Responds, BodyEnds, RequestFailed, TakenOver, Finish,
                CompactBeforeNextTurn, Touch, SetParams, GenerateToolResponse, Leave, vars,
                params, ghosts
  <2> QED BY <2>1, SilentSteps
<1>2. CASE TakeTurn
  <2>1. Says(message, "runner") \in Message /\ Says(message, "runner").changes = <<>>
    BY <1>2, SaysNothing DEF TakeTurn
  <2>2. /\ history' = Append(history, Says(message, "runner"))
        /\ UNCHANGED <<pending, overrides, gone, given, asked, told>>
    BY <1>2 DEF TakeTurn, ghosts
  <2> QED BY <2>1, <2>2, AddsSilence
<1>3. CASE ToolsReturn
  <2>1. Says("results", "runner") \in Message /\ Says("results", "runner").changes = <<>>
    BY SaysNothing
  <2>2. /\ \/ history' = Append(history, Says("results", "runner"))
           \/ history' = Marked(history)
        /\ UNCHANGED <<pending, overrides, gone, given, asked, told>>
    BY <1>3 DEF ToolsReturn, Marked, ghosts
  <2> QED BY <2>1, <2>2, AddsSilence, MarkSays
<1>4. CASE PushUser
  <2>1. User \in Message /\ User.changes = <<>>
    BY SaysNothing DEF User
  <2>2. /\ history' = Append(history, User)
        /\ UNCHANGED <<pending, overrides, gone, given, asked, told>>
    BY <1>4 DEF PushUser, SetParams
  <2> QED BY <2>1, <2>2, AddsSilence
<1>5. CASE TakeOver
  <2> DEFINE m == Says(message, "caller")
             h == Append(history, m)
             r == Says("results", "caller")
  <2>1. m \in Message /\ m.changes = <<>> /\ r \in Message
    BY <1>5, SaysNothing DEF TakeOver
  <2>2. /\ history' = h \o <<>> \/ history' = h \o <<r>>
        /\ UNCHANGED <<pending, overrides, gone, given, asked, told>>
    BY <1>5 DEF TakeOver, SetParams
  <2>3. h \in Seq(Message)
    BY <2>1, SilentMessage DEF SaidInv, SequencesOK
  <2> HIDE DEF m, h, r
  <2>4. h \o <<>> = h /\ h \o <<r>> = Append(h, r)
    BY <2>1, <2>3
  <2> QED BY <2>1, <2>2, <2>4, AddsSilence DEF h, r
<1>6. ASSUME NEW t \in Managed, AddTools(t) \/ RemoveTools(t) PROVE SaidInv'
  BY <1>6, AskSays DEF AddTools, RemoveTools
<1> QED BY <1>1, <1>2, <1>3, <1>4, <1>5, <1>6, TopSays, CompactedSays, ReplaceSays
        DEF Next, Loop, Caller

-----------------------------------------------------------------------------
(* Compactions, whatever the caller does.                                   *)

LEMMA CompactionInvStep == TypeOK /\ CompactionInv /\ [Next]_vars => CompactionInv'
<1> SUFFICES ASSUME TypeOK, CompactionInv, [Next]_vars PROVE CompactionInv'
  OBVIOUS
<1>1. CASE \/ Iterate \/ IterationsUsed \/ Responds \/ BodyEnds \/ RequestFailed \/ TakenOver
           \/ Finish \/ Touch \/ GenerateToolResponse \/ ToolsReturn \/ Leave \/ Compacted
           \/ UNCHANGED vars
  <2>1. /\ UNCHANGED request
        /\ \/ pc' \notin {"body", "next"}
           \/ pc \in {"body", "next"} /\ UNCHANGED <<compaction, history>>
    BY <1>1 DEF Iterate, IterationsUsed, Responds, BodyEnds, RequestFailed, TakenOver, Finish,
                Touch, SetParams, GenerateToolResponse, ToolsReturn, Leave, Compacted, Fails,
                vars, params, state, promises
  <2> QED BY <2>1 DEF CompactionInv
<1>2. CASE Top
  <2>1. \/ Send("turn", Flushed)
        \/ Send("compact", Flushed) /\ compaction' = "in_flight"
    BY <1>2 DEF Top, Compact
  <2>2. history' = Flushed
    BY <1>2 DEF Top
  <2> QED BY <2>1, <2>2 DEF Send, CompactionInv
<1>3. CASE TakeTurn
  <2> DEFINE h == Append(history, Says(message, "runner"))
  <2>1. \/ AfterFinalTurn(h)
        \/ pc' \in {"top", "tools"} /\ UNCHANGED request
    BY <1>3 DEF TakeTurn
  <2>2. history' = h
    BY <1>3 DEF TakeTurn
  <2> HIDE DEF h
  <2>3. \/ Send("final", h) /\ compaction' = "in_flight"
        \/ pc' \in {"top", "tools", "finish"} /\ UNCHANGED request
    BY <2>1 DEF AfterFinalTurn, Compact
  <2> QED BY <2>2, <2>3 DEF Send, CompactionInv
<1>4. CASE CompactBeforeNextTurn
  BY <1>4 DEF CompactBeforeNextTurn, CompactionInv, params, promises
<1>5. CASE PushUser \/ Replace
  <2>1. compaction # "in_flight" /\ UNCHANGED <<request, pc, compaction>>
    BY <1>5 DEF PushUser, Replace, MessagesMayChange, SetParams
  <2> QED BY <2>1 DEF CompactionInv
<1>6. CASE TakeOver
  <2>1. request.kind = "turn" /\ UNCHANGED <<request, pc, compaction>>
    BY <1>6 DEF TakeOver, SetParams
  <2> QED BY <2>1 DEF CompactionInv
<1>7. ASSUME NEW t \in Managed, AddTools(t) \/ RemoveTools(t) PROVE CompactionInv'
  <2>1. UNCHANGED <<request, pc, compaction, history>>
    BY <1>7 DEF AddTools, RemoveTools, Ask, state
  <2> QED BY <2>1 DEF CompactionInv
<1> QED BY <1>1, <1>2, <1>3, <1>4, <1>5, <1>6, <1>7 DEF Next, Loop, Caller

-----------------------------------------------------------------------------
(* The start.                                                               *)

LEMMA OnlyRemovals ==
    ASSUME NEW R, NEW q \in Seq(R), \A r \in R : ~r.add, NEW x, Occurs(x, q)
    PROVE  TakenAway(x.tool, q)
<1> DEFINE n == Len(q)
           T == {i \in 1..n : q[i].tool = x.tool}
<1>1. n \in Nat /\ \A i \in 1..n : ~q[i].add
  OBVIOUS
<1>2. T # {} /\ T \subseteq 1..n
  BY DEF Occurs
<1>3. PICK i \in T : \A j \in T : j <= i
  <2> HIDE DEF n, T
  <2> QED BY <1>1, <1>2, GreatestNumber
<1> QED BY <1>1, <1>3 DEF TakenAway

\* The messages that say what the caller has removed, in some order.
LEMMA RemovalsFacts ==
    \A X : X = {Changes(<<Removal(t)>>, "caller") : t \in Handmade} =>
      /\ SetToSeq(X) \in Seq(X)
      /\ \A c \in X : c.kind = "changes" /\ c.by = "caller" /\ Occurs(c, SetToSeq(X))
<1> TAKE X
<1> HAVE X = {Changes(<<Removal(t)>>, "caller") : t \in Handmade}
<1> DEFINE f == [t \in Handmade |-> Changes(<<Removal(t)>>, "caller")]
<1>1. f \in [Handmade -> X] /\ \A c \in X : \E t \in Handmade : f[t] = c
  OBVIOUS
<1> HIDE DEF f
<1>2. IsFiniteSet(X)
  <2>1. f \in Surjection(Handmade, X)
    BY <1>1 DEF Surjection
  <2> QED BY <2>1, ToolAssumption, FS_Surjection
<1>3. PICK n \in Nat : ExistsBijection(1..n, X)
  BY <1>2, FS_NatBijection
<1>4. Cardinality(X) = n
  BY <1>3, FS_CountingElements
<1>5. \E g \in [1..n -> X] : IsInjective(g)
  BY <1>3 DEF ExistsBijection, Bijection, Injection
<1> DEFINE s == SetToSeq(X)
<1>6. s \in [1..n -> X] /\ IsInjective(s)
  BY <1>4, <1>5 DEF SetToSeq
<1> HIDE DEF s
<1>7. s \in Seq(X) /\ Len(s) = n
  BY <1>6
<1>8. \A c \in X : Occurs(c, s)
  <2>1. s \in Injection(1..n, X)
    BY <1>6 DEF Injection
  <2>2. Cardinality(1..n) = n
    BY FS_Interval
  <2>3. s \in Surjection(1..n, X)
    BY <1>2, <1>4, <2>1, <2>2, FS_Injection
  <2> QED BY <1>7, <2>3 DEF Surjection, Occurs
<1>9. \A c \in X : c.kind = "changes" /\ c.by = "caller"
  BY DEF Changes
<1> QED BY <1>7, <1>8, <1>9 DEF s

LEMMA LoopInvInit == Init => LoopInv
<1> SUFFICES ASSUME Init PROVE LoopInv
  OBVIOUS
<1>1. PICK X : X = {Changes(<<Removal(t)>>, "caller") : t \in Handmade}
  OBVIOUS
<1> DEFINE s == SetToSeq(X)
           h == <<User>> \o s
<1>2. /\ history = h /\ ~mutated /\ pc = "new"
      /\ cached = "unset" /\ request = NoRequest
  BY <1>1 DEF Init
<1>3. s \in Seq(X) /\ \A c \in X : c.kind = "changes" /\ c.by = "caller"
  BY <1>1, RemovalsFacts
<1> HIDE DEF s
<1>4. /\ h \in Seq(X \union {User}) /\ Len(h) = Len(s) + 1 /\ Len(s) \in Nat
      /\ h[1] = User /\ \A i \in 2..Len(h) : h[i] \in X
  BY <1>3
<1>5. \A i \in 1..Len(h) : h[i].kind \in {"user", "changes"} /\ h[i].by = "caller"
  BY <1>3, <1>4, UserFacts
<1> HIDE DEF h
<1>6. Last(h) = h[Len(h)] /\ Len(h) \in 1..Len(h)
  BY <1>4 DEF Last
<1>7. HistoryInv
  BY <1>2, <1>4, <1>5 DEF HistoryInv, IsConversation, HasSender, Orderly, Waits, Calling
<1>8. CallsInv /\ ResumeInv /\ CacheInv /\ CompactionInv
  BY <1>2, <1>5, <1>6
     DEF CallsInv, ResumeInv, CacheInv, CompactionInv, Settled, Waits, TakingOver, Resumable,
         Calling, NoRequest
<1>9. RequestInv
  BY <1>2 DEF RequestInv, CallsAreAnswered, CompactionIsWhole, NoRequest
<1> QED BY <1>7, <1>8, <1>9 DEF LoopInv

LEMMA SaidInit == Init => TypeOK /\ SaidInv /\ CompactionInv
<1> SUFFICES ASSUME Init PROVE TypeOK /\ SaidInv /\ CompactionInv
  OBVIOUS
<1>1. PICK X : X = {Changes(<<Removal(t)>>, "caller") : t \in Handmade}
  OBVIOUS
<1> DEFINE s == SetToSeq(X)
           h == <<User>> \o s
           R == {Removal(t) : t \in Handmade}
<1>2. history = h /\ pending = <<>> /\ told = <<>> /\ asked = ChangesOf(history)
  BY <1>1 DEF Init
<1>3. s \in Seq(X) /\ \A c \in X : Occurs(c, s)
  BY <1>1, RemovalsFacts
<1>4. R \subseteq Change /\ \A r \in R : ~r.add
  <2> SUFFICES ASSUME NEW t \in Handmade PROVE Removal(t) \in Change /\ ~Removal(t).add
    OBVIOUS
  <2>1. Removal(t) = [tool |-> t, add |-> FALSE] /\ t \in Tool
    BY DEF Removal, Tool
  <2>2. Removal(t) \in Change
    BY <2>1 DEF Change
  <2> QED BY <2>1, <2>2
<1>5. \A c \in X : c \in Message /\ c.changes \in Seq(R)
  <2> SUFFICES ASSUME NEW t \in Handmade
               PROVE  /\ Changes(<<Removal(t)>>, "caller") \in Message
                      /\ Changes(<<Removal(t)>>, "caller").changes \in Seq(R)
    BY <1>1
  <2>1. <<Removal(t)>> \in Seq(R) /\ <<Removal(t)>> \in Seq(Change)
    BY <1>4
  <2> QED BY <2>1, MessageTypes DEF Changes
<1> HIDE DEF s, R
<1>6. User \in Message /\ User.changes \in Seq(R)
  BY MessageTypes DEF User, Says
<1>7. /\ h \in Seq(Message) /\ \A i \in 1..Len(h) : h[i].changes \in Seq(R)
      /\ Len(h) = Len(s) + 1 /\ \A i \in 1..Len(s) : i + 1 \in 1..Len(h) /\ h[i + 1] = s[i]
  <2>1. /\ <<User>> \in Seq(X \union {User}) /\ s \in Seq(X \union {User})
        /\ Len(s) \in Nat /\ Len(<<User>>) = 1
    BY <1>3
  <2>2. /\ h \in Seq(X \union {User}) /\ Len(h) = Len(s) + 1
        /\ \A i \in 1..Len(s) : h[i + 1] = s[i]
    BY <2>1
  <2>3. \A i \in 1..Len(h) : h[i] \in X \union {User}
    BY <2>2
  <2>4. h \in Seq(Message)
    <3>1. X \union {User} \subseteq Message
      BY <1>5, <1>6
    <3> HIDE DEF h
    <3> QED BY <2>2, <3>1, SeqMonotonic
  <2>5. \A i \in 1..Len(h) : h[i].changes \in Seq(R)
    BY <1>5, <1>6, <2>3
  <2>6. \A i \in 1..Len(s) : i + 1 \in 1..Len(h)
    BY <2>1, <2>2
  <2> QED BY <2>2, <2>4, <2>5, <2>6
<1> HIDE DEF h
<1>8. ChangesOf(h) \in Seq(R)
  BY <1>7, ChangesType
<1>9. ASSUME NEW t \in Handmade PROVE TakenAway(t, ChangesOf(h))
  <2> DEFINE c == Changes(<<Removal(t)>>, "caller")
  <2>1. c \in X /\ c.changes = <<Removal(t)>>
    BY <1>1 DEF Changes
  <2>2. PICK d \in 1..Len(s) : s[d] = c
    BY <1>3, <2>1 DEF Occurs
  <2>3. d + 1 \in 1..Len(h) /\ h[d + 1] = c
    BY <1>7, <2>2
  <2>4. Occurs(Removal(t), h[d + 1].changes)
    <3> DEFINE cs == h[d + 1].changes
    <3>1. cs = <<Removal(t)>>
      BY <2>1, <2>3
    <3> HIDE DEF cs, c
    <3>2. 1 \in 1..Len(cs) /\ cs[1] = Removal(t)
      BY <3>1
    <3> QED BY <3>2 DEF Occurs, cs
  <2> HIDE DEF c
  <2>5. Occurs(Removal(t), ChangesOf(h))
    BY <1>7, <2>3, <2>4, ChangesCover
  <2>6. TakenAway(Removal(t).tool, ChangesOf(h))
    BY <1>4, <1>8, <2>5, OnlyRemovals
  <2> QED BY <2>6 DEF Removal
<1>10. ChangesOf(h) \in Seq(Change)
  BY <1>4, <1>8, SeqMonotonic
<1>11. Word = ChangesOf(h) /\ told \o Word = asked
  BY <1>2, <1>10, ConcatEmptySeq DEF Word
<1>12. request = NoRequest /\ NoRequest \in [kind : {"none", "turn", "compact", "final"}, carried : Seq(Message)]
  BY DEF Init, NoRequest
<1>13. SequencesOK
  BY <1>2, <1>7, <1>10, <1>12 DEF SequencesOK
<1>14. AskedInv
  BY <1>9, <1>11 DEF AskedInv, Init
<1>15. ControlOK
  <2>1. /\ overrides = [t \in Tool |-> "none"] /\ lastStop = "null" /\ compaction = "idle"
        /\ mutated = FALSE /\ cached = "unset" /\ iteration = 0 /\ message = "unset"
        /\ saved = "unset" /\ completion = "pending" /\ pc = "new" /\ gone = Handmade
        /\ given = {} /\ acts = 0 /\ passes = 0
    BY DEF Init
  <2>2. iteration \in 0..MaxIterations /\ acts \in 0..MaxActs /\ passes \in 0..MaxPasses
    BY <2>1, BoundAssumption
  <2>3. gone \subseteq Tool /\ given \subseteq Tool
    BY <2>1 DEF Tool
  <2>4. mutated \in BOOLEAN
    BY <2>1, Zenon
  <2>5. overrides \in [Tool -> {"none", "given", "gone"}]
    BY <2>1
  <2>6. request.kind = "none"
    BY <1>12 DEF NoRequest
  <2> QED BY <2>1, <2>2, <2>3, <2>4, <2>5, <2>6, Zenon DEF ControlOK
<1>16. CompactionInv
  BY <1>12 DEF Init, CompactionInv, NoRequest
<1> QED BY <1>11, <1>13, <1>14, <1>15, <1>16, TypeParts DEF SaidInv, WordsInv

-----------------------------------------------------------------------------
(* The theorems.                                                            *)

LEMMA SaidHolds == Spec => [](TypeOK /\ SaidInv /\ CompactionInv)
<1>1. TypeOK /\ SaidInv /\ CompactionInv /\ [Next]_vars => TypeOK' /\ SaidInv' /\ CompactionInv'
  <2> SUFFICES ASSUME TypeOK, SaidInv, CompactionInv, [Next]_vars
               PROVE  TypeOK' /\ SaidInv' /\ CompactionInv'
    OBVIOUS
  <2>1. SaidInv' /\ CompactionInv' /\ ControlOK'
    BY SaidStep, CompactionInvStep, ControlStep
  <2>2. TypeOK'
    BY <2>1 DEF SaidInv, TypeOK, ControlOK, SequencesOK
  <2> QED BY <2>1, <2>2
<1> QED BY <1>1, SaidInit, PTL DEF Spec

LEMMA LoopInvHolds == Careful => (Spec => []LoopInv)
<1> SUFFICES ASSUME Careful PROVE Spec => []LoopInv
  OBVIOUS
<1>1. TypeOK /\ LoopInv /\ [Next]_vars => LoopInv'
  BY LoopInvStep
<1> QED BY <1>1, LoopInvInit, SaidHolds, PTL DEF Spec

\* Whatever a careful caller pushes within its rules, drops, replaces or asks for while a
\* turn is under way, every request has the results of each turn with tool calls right
\* behind it, except of a turn whose tools have failed a pass, and results nowhere else.
THEOREM AnswersFollowCalls == Careful => (Spec => []CallsAreAnswered)
<1>1. LoopInv => CallsAreAnswered
  BY DEF LoopInv, RequestInv
<1> QED BY <1>1, LoopInvHolds, PTL

\* A compaction a careful caller asks for, at any moment, never summarizes a conversation
\* that ends in tool calls that wait for their results or in a turn of the runner's that
\* has to be sent back.  It may summarize one that ends in a turn whose tools have failed a
\* pass, or in a paused turn the caller has pushed itself.
THEOREM NothingIsCutShort == Careful => (Spec => []CompactionIsWhole)
<1>1. LoopInv => CompactionIsWhole
  BY DEF LoopInv, RequestInv
<1> QED BY <1>1, LoopInvHolds, PTL

\* Tool changes asked for while a turn is paused wait until it has gone back: the history
\* has none right behind a paused turn the runner added.
THEOREM PausedTurnsResume == Careful => (Spec => []PausedGoesBackLast)
<1>1. LoopInv => PausedGoesBackLast
  BY DEF LoopInv, HistoryInv, Orderly, PausedGoesBackLast
<1> QED BY <1>1, LoopInvHolds, PTL

\* The variables of the runner keep their types, whatever the caller does: the count of
\* iterations stays within params.max_iterations, and messages, queue and records of tool
\* changes hold nothing else.
THEOREM TypeCorrect == Spec => []TypeOK
BY SaidHolds, PTL

\* A tool the caller has taken away, or removed in its own system message, does not run,
\* and one it has added does: whatever messages are dropped, replaced, flushed or
\* summarized, with or without the changes they held.
THEOREM ToolsFollowTheCaller == Spec => []ToolsAreAsAsked
<1>1. TypeOK /\ SaidInv => ToolsAreAsAsked
  <2> SUFFICES ASSUME TypeOK, SaidInv PROVE ToolsAreAsAsked
    OBVIOUS
  <2>1. Word \in Seq(Change) /\ gone \subseteq Tool /\ given \subseteq Tool
    BY WordType DEF SaidInv, TypeOK
  <2>2. \A t \in Tool : Withdrawn(t, history, pending) <=> TakenAway(t, Word)
    BY <2>1, WithdrawnIs DEF Word
  <2> QED BY <2>1, <2>2 DEF SaidInv, AskedInv, ToolsAreAsAsked, AvailableToolNames, RunnableTools
<1> QED BY <1>1, SaidHolds, PTL

\* Each change of the tools a caller asks for reaches the history once, in the order
\* asked, or waits in the queue, whatever fails; and a summary replaces only what was in
\* the request for it.
THEOREM ChangesAreKept == Spec => []NothingIsLost
<1>1. SaidInv /\ CompactionInv => NothingIsLost
  <2> SUFFICES ASSUME SaidInv, CompactionInv PROVE NothingIsLost
    OBVIOUS
  <2>1. /\ ChangesOf(history) \in Seq(Change) /\ pending \in Seq(Change) /\ told \in Seq(Change)
    BY WordType DEF SaidInv, SequencesOK
  <2>2. told \o ChangesOf(history) \o pending = told \o Word
    BY <2>1, ConcatAssociative DEF Word
  <2> QED BY <2>2 DEF SaidInv, WordsInv, CompactionInv, NothingIsLost
<1> QED BY <1>1, SaidHolds, PTL
=============================================================================
