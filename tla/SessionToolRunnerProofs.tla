----------------------- MODULE SessionToolRunnerProofs -----------------------
(***************************************************************************)
(* Safety of SessionToolRunner for every set of calls, every permission and *)
(* every bound.                                                             *)
(***************************************************************************)
EXTENDS SessionToolRunner, TLAPS

(* The operations of the idle clock stay within its type.                   *)
LEMMA ClockTypes ==
    ASSUME NEW k \in Clock, NEW c \in Call, NEW ev
    PROVE  /\ Disarm(k) \in Clock /\ Arm(k) \in Clock
           /\ Block(k, c) \in Clock /\ Unblock(k, c) \in Clock
           /\ NoteEvent(k, ev) \in Clock
<1>1. Disarm(k) \in Clock /\ Arm(k) \in Clock /\ Block(k, c) \in Clock
  BY DEF Clock, Disarm, Arm, Block
<1>2. Unblock(k, c) \in Clock
  BY DEF Clock, Arm, Unblock
<1>3. NoteEvent(k, ev) \in Clock
  BY <1>1 DEF NoteEvent
<1> QED BY <1>1, <1>2, <1>3

(* What a listing yields are calls, and verdicts of the recorded kinds.     *)
LEMMA ListingTypes ==
    ASSUME TypeOK, NEW S \in SUBSET (DOMAIN log)
    PROVE  /\ Ids(S, "tool_use") \subseteq Call
           /\ Ids(S, "tool_result") \subseteq Call
           /\ IngestedVerdicts(S) \in [Call -> Verdicts \union {"none"}]
<1>1. \A i \in S : log[i] \in Event
  BY DEF TypeOK
<1>2. \A ev \in Event : ev.type \in {"tool_use", "tool_result"} => ev.id \in Call
  BY DEF Event, ToolUse, ToolResult, Confirmation, Idle, TerminatedEvent
<1>3. Ids(S, "tool_use") \subseteq Call /\ Ids(S, "tool_result") \subseteq Call
  BY <1>1, <1>2 DEF Ids
<1>4. IngestedVerdicts(S) \in [Call -> Verdicts \union {"none"}]
  <2> SUFFICES ASSUME NEW c \in Call
               PROVE  IngestedVerdicts(S)[c] \in Verdicts \union {"none"}
    BY DEF IngestedVerdicts
  <2> DEFINE given == {v \in Verdicts : \E i \in S :
                        /\ log[i] = Confirmation(c, v)
                        /\ \A j \in S : j < i => ~( /\ log[j].id = c
                                                  /\ log[j].type = "tool_result")}
  <2>1. IngestedVerdicts(S)[c] = IF c \in answered \/ given = {} THEN verdicts[c]
                                 ELSE CHOOSE v \in given : TRUE
    BY DEF IngestedVerdicts
  <2>2. verdicts[c] \in Verdicts \union {"none"}
    BY DEF TypeOK
  <2>3. given # {} => (CHOOSE v \in given : TRUE) \in given
    OBVIOUS
  <2>4. given \subseteq Verdicts
    OBVIOUS
  <2> HIDE DEF given
  <2> QED BY <2>1, <2>2, <2>3, <2>4
<1> QED BY <1>3, <1>4

(* An event the session may append keeps the log a sequence of events.      *)
LEMMA AppendTypes ==
    ASSUME TypeOK, NEW c \in Call, NEW by \in Clients, NEW v \in Verdicts,
           NEW stop \in Stops
    PROVE  /\ Append(log, ToolUse(c)) \in Seq(Event)
           /\ Append(log, ToolResult(c, by)) \in Seq(Event)
           /\ Append(log, Confirmation(c, v)) \in Seq(Event)
           /\ Append(log, Idle(stop)) \in Seq(Event)
           /\ Append(log, TerminatedEvent) \in Seq(Event)
<1>1. ToolUse(c) \in Event /\ ToolResult(c, by) \in Event
      /\ Confirmation(c, v) \in Event /\ Idle(stop) \in Event
      /\ TerminatedEvent \in Event
  BY DEF Event
<1> QED BY <1>1 DEF TypeOK

(* What the dispatch operators assign has its type.                         *)
DispatchOK ==
    /\ held \subseteq Call /\ answered \subseteq Call /\ dispatched \subseteq Call
    /\ clock \in Clock /\ queue \in Nat
    /\ phase \in {"route", "stream", "tool"} /\ resume \in {"route", "stream"}
    /\ cur \in Call \union {NoCall} /\ approved \in BOOLEAN

LEMMA ExecuteTypes ==
    ASSUME DispatchOK, NEW c \in Call, NEW ok \in BOOLEAN, NEW k \in Clock,
           Execute(c, ok, k), phase \in {"route", "stream"}
    PROVE  /\ dispatched' \subseteq Call /\ clock' \in Clock /\ queue' \in Nat
           /\ phase' \in {"route", "stream", "tool"} /\ resume' \in {"route", "stream"}
           /\ cur' \in Call \union {NoCall} /\ approved' \in BOOLEAN
<1>1. Unblock(k, c) \in Clock /\ Unblock(Disarm(k), c) \in Clock
  <2>1. Disarm(k) \in Clock
    BY ClockTypes
  <2> QED BY <2>1, ClockTypes
<1>2. dispatched' \subseteq Call
  BY DEF DispatchOK, Execute, Done
<1>3. CASE c \in answered
  BY <1>1, <1>2, <1>3 DEF DispatchOK, Execute, exec
<1>4. CASE c \notin answered /\ c \notin Owned
  BY <1>1, <1>2, <1>4 DEF DispatchOK, Execute, exec, Surface
<1>5. CASE c \notin answered /\ c \in Owned
  BY <1>1, <1>2, <1>5 DEF DispatchOK, Execute
<1> QED BY <1>3, <1>4, <1>5

LEMMA ApplyTypes ==
    ASSUME DispatchOK, NEW c \in Call, NEW v, NEW k \in Clock,
           ApplyVerdict(c, v, k), phase \in {"route", "stream"}
    PROVE  DispatchOK'
<1>1. CASE v = "allow"
  <2> DEFINE kk == IF c \in held THEN k ELSE Block(k, c)
  <2>1. kk \in Clock
    BY ClockTypes
  <2>2. Execute(c, TRUE, kk) /\ held' = held \ {c} /\ answered' = answered
    BY <1>1 DEF ApplyVerdict
  <2> HIDE DEF kk
  <2>3. /\ dispatched' \subseteq Call /\ clock' \in Clock /\ queue' \in Nat
        /\ phase' \in {"route", "stream", "tool"} /\ resume' \in {"route", "stream"}
        /\ cur' \in Call \union {NoCall} /\ approved' \in BOOLEAN
    BY <2>1, <2>2, ExecuteTypes
  <2> QED BY <2>2, <2>3 DEF DispatchOK
<1>2. CASE v # "allow"
  <2>1. clock' \in Clock
    BY <1>2, ClockTypes DEF ApplyVerdict
  <2>2. /\ held' = held \ {c} /\ answered' = answered \union {c}
        /\ dispatched' = dispatched \union {c} /\ queue' = queue + 1
        /\ phase' = phase /\ cur' = cur /\ approved' = approved /\ resume' = resume
    BY <1>2 DEF ApplyVerdict, Done, Surface, exec
  <2> QED BY <2>1, <2>2 DEF DispatchOK
<1> QED BY <1>1, <1>2

LEMMA RouteTypes ==
    ASSUME DispatchOK, NEW c \in Call, NEW k \in Clock,
           RouteToolEvent(c, k), phase \in {"route", "stream"}
    PROVE  DispatchOK'
<1>1. CASE ApplyVerdict(c, VerdictOf(c), k)
  BY <1>1, ApplyTypes
<1>2. CASE Execute(c, FALSE, k) /\ UNCHANGED <<held, answered>>
  <2>1. /\ dispatched' \subseteq Call /\ clock' \in Clock /\ queue' \in Nat
        /\ phase' \in {"route", "stream", "tool"} /\ resume' \in {"route", "stream"}
        /\ cur' \in Call \union {NoCall} /\ approved' \in BOOLEAN
    BY <1>2, ExecuteTypes
  <2> QED BY <1>2, <2>1 DEF DispatchOK
<1>3. CASE /\ held' = held \union {c} /\ Done(c)
           /\ clock' = IF c \in held THEN k ELSE Block(k, c)
           /\ UNCHANGED <<answered, phase, exec, queue>>
  <2>1. clock' \in Clock
    BY <1>3, ClockTypes
  <2> QED BY <1>3, <2>1 DEF DispatchOK, Done, exec
<1> QED BY <1>1, <1>2, <1>3 DEF RouteToolEvent

-----------------------------------------------------------------------------
(* Type correctness.  A step keeps the type of the variables it assigns.    *)

LEMMA SessionKeepsType == ASSUME TypeOK, Session PROVE TypeOK'
<1>1. log' \in Seq(Event)
  <2>1. CASE \E c \in Call : EmitToolUse(c) \/ AnswerElsewhere(c)
    BY <2>1, AppendTypes DEF EmitToolUse, AnswerElsewhere, Emit, Clients, Stops, Verdicts
  <2>2. CASE \E c \in Call, v \in UserVerdicts : EmitConfirmation(c, v)
    BY <2>2, AppendTypes, CallAssumption DEF EmitConfirmation, Emit, Clients, Stops
  <2>3. CASE \E stop \in Stops : EmitIdle(stop)
    BY <2>3 DEF EmitIdle, Emit, TypeOK, Event
  <2>4. CASE Terminate
    BY <2>4 DEF Terminate, Emit, TypeOK, Event
  <2> QED BY <2>1, <2>2, <2>3, <2>4 DEF Session
<1>2. UNCHANGED <<open, phase, exec, calls, listing, clock, aborted, queue,
                  consumer, giveUps>>
  BY DEF Session, EmitToolUse, AnswerElsewhere, EmitConfirmation, EmitIdle,
         Terminate, Emit
<1> QED BY <1>1, <1>2 DEF TypeOK, exec, calls, listing, consumer

LEMMA ConnectionKeepsType ==
    ASSUME TypeOK,
           \/ Attach \/ AttachFails \/ AttachRefused \/ Disconnect \/ Reconnect
           \/ Unwind
    PROVE  TypeOK'
<1>1. CASE Attach
  BY <1>1 DEF Attach, TypeOK, session, exec, calls, listing, consumer
<1>2. CASE AttachFails
  BY <1>2 DEF AttachFails, TypeOK, session, exec, calls, listing, consumer
<1>3. CASE AttachRefused
  BY <1>3 DEF AttachRefused, TypeOK, session, exec, calls, listing, consumer
<1>4. CASE Disconnect
  BY <1>4 DEF Disconnect, TypeOK, session, exec, calls, listing, consumer
<1>5. CASE Reconnect
  BY <1>5 DEF Reconnect, TypeOK, session, exec, calls, listing, consumer
<1>6. CASE Unwind
  <2>1. clock' \in Clock
    BY <1>6, ClockTypes DEF Unwind, Release, TypeOK
  <2> QED BY <1>6, <2>1 DEF Unwind, TypeOK, session, calls, consumer
<1> QED BY <1>1, <1>2, <1>3, <1>4, <1>5, <1>6

LEMMA ReconcileKeepsType ==
    ASSUME TypeOK, Reconcile
    PROVE  TypeOK'
<1>1. CASE \E skip \in 0..MaxSkip : ListHistory(skip)
  <2>1. PICK skip \in 0..MaxSkip : ListHistory(skip)
    BY <1>1
  <2> DEFINE S == {i \in DOMAIN log : i > skip}
  <2>2. /\ Ids(S, "tool_use") \subseteq Call /\ Ids(S, "tool_result") \subseteq Call
        /\ IngestedVerdicts(S) \in [Call -> Verdicts \union {"none"}]
    BY ListingTypes
  <2>3. /\ seen' = seen \union Ids(S, "tool_use")
        /\ answered' = AnsweredIn(S)
        /\ verdicts' = IngestedVerdicts(S)
        /\ pass' = Unanswered(S) /\ todo' = Unanswered(S)
        /\ ended' = LastEndsTurn(S)
    BY <2>1 DEF ListHistory
  <2> HIDE DEF S
  <2>4. clock' \in Clock
    BY <2>1, ClockTypes DEF ListHistory, TypeOK, Clock, Disarm
  <2>5. LastEndsTurn(S) \in BOOLEAN
    BY DEF LastEndsTurn
  <2>6. /\ seen' \subseteq Call /\ answered' \subseteq Call
        /\ pass' \subseteq Call /\ todo' \subseteq Call
    BY <2>2, <2>3 DEF Unanswered, AnsweredIn, TypeOK
  <2> QED BY <2>1, <2>2, <2>3, <2>4, <2>5, <2>6
          DEF ListHistory, TypeOK, session, exec, consumer
<1>2. ASSUME NEW c \in Call, Route(c)
      PROVE  TypeOK'
  <2>1. DispatchOK
    BY <1>2 DEF Route, TypeOK, DispatchOK
  <2>2. DispatchOK'
    BY <1>2, <2>1, RouteTypes DEF Route, DispatchOK
  <2>3. cur' # NoCall <=> phase' \in {"tool", "send"}
    BY <1>2, CallAssumption DEF Route, RouteToolEvent, ApplyVerdict, Execute, TypeOK, exec
  <2>4. approved' => cur' # NoCall
    BY <1>2, CallAssumption DEF Route, RouteToolEvent, ApplyVerdict, Execute, TypeOK, exec
  <2> QED BY <1>2, <2>2, <2>3, <2>4 DEF Route, TypeOK, DispatchOK, session, consumer
<1>3. ASSUME NEW c \in Call, ReleaseHeld(c)
      PROVE  TypeOK'
  <2>1. DispatchOK
    BY <1>3 DEF ReleaseHeld, TypeOK, DispatchOK
  <2>2. DispatchOK'
    BY <1>3, <2>1, ApplyTypes DEF ReleaseHeld, DispatchOK
  <2>3. cur' # NoCall <=> phase' \in {"tool", "send"}
    BY <1>3, CallAssumption DEF ReleaseHeld, ApplyVerdict, Execute, TypeOK, exec
  <2>4. approved' => cur' # NoCall
    BY <1>3, CallAssumption DEF ReleaseHeld, ApplyVerdict, Execute, TypeOK, exec
  <2> QED BY <1>3, <2>2, <2>3, <2>4
          DEF ReleaseHeld, TypeOK, DispatchOK, session, consumer, listing
<1>4. CASE Settle
  <2>1. clock' \in Clock
    BY <1>4, ClockTypes DEF Settle, TypeOK, Clock, Arm, Disarm
  <2> QED BY <1>4, <2>1 DEF Settle, TypeOK, session, exec, calls, consumer
<1> QED BY <1>1, <1>2, <1>3, <1>4 DEF Reconcile

LEMMA FailedListingKeepsType ==
    ASSUME TypeOK, NEW skip \in 0..MaxSkip, NEW n \in 0..Len(log), ListFails(skip, n)
    PROVE  TypeOK'
<1> DEFINE S == {i \in DOMAIN log : i > skip /\ i <= n}
<1>1. /\ Ids(S, "tool_use") \subseteq Call /\ Ids(S, "tool_result") \subseteq Call
      /\ IngestedVerdicts(S) \in [Call -> Verdicts \union {"none"}]
  BY ListingTypes
<1>2. /\ seen' = SeenAfterFailure(S)
      /\ answered' = AnsweredIn(S)
      /\ verdicts' = IngestedVerdicts(S)
  BY DEF ListFails
<1> HIDE DEF S
<1>3. seen' \subseteq Call /\ answered' \subseteq Call
  BY <1>1, <1>2 DEF SeenAfterFailure, AnsweredIn, TypeOK
<1> QED BY <1>1, <1>2, <1>3 DEF ListFails, TypeOK, session, exec, listing, consumer

LEMMA HandleKeepsType == ASSUME TypeOK, Handle PROVE TypeOK'
<1>1. ASSUME NEW c \in Call, HandleToolUse(c)
      PROVE  TypeOK'
  <2> DEFINE k == NoteEvent(clock, ToolUse(c))
  <2>1. k \in Clock /\ DispatchOK /\ open' \in Nat
    <3>1. clock \in Clock /\ open \in Nat
      BY DEF TypeOK
    <3>2. phase = "stream" /\ open' = open + 1
      BY <1>1 DEF HandleToolUse, Deliver
    <3>3. DispatchOK
      BY <3>2 DEF TypeOK, DispatchOK
    <3> QED BY <3>1, <3>2, <3>3, ClockTypes
  <2>2. CASE c \in seen /\ clock' = k
                /\ UNCHANGED <<phase, exec, seen, answered, held, dispatched, queue>>
    <3> HIDE DEF k
    <3> QED BY <1>1, <2>1, <2>2
            DEF HandleToolUse, TypeOK, session, exec, consumer, listing
  <2>3. CASE seen' = seen \union {c} /\ RouteToolEvent(c, k)
    <3> HIDE DEF k
    <3>1. DispatchOK' /\ phase = "stream"
      BY <1>1, <2>1, <2>3, RouteTypes DEF HandleToolUse, Deliver
    <3>2. cur' # NoCall <=> phase' \in {"tool", "send"}
      BY <2>3, <3>1, CallAssumption DEF RouteToolEvent, ApplyVerdict, Execute, TypeOK, exec
    <3>3. approved' => cur' # NoCall
      BY <2>3, <3>1, CallAssumption DEF RouteToolEvent, ApplyVerdict, Execute, TypeOK, exec
    <3> QED BY <1>1, <2>1, <2>3, <3>1, <3>2, <3>3
            DEF HandleToolUse, TypeOK, DispatchOK, session, consumer, listing
  <2> QED BY <1>1, <2>2, <2>3 DEF HandleToolUse
<1>2. ASSUME NEW c \in Call, NEW v \in Verdicts, HandleConfirmation(c, v)
      PROVE  TypeOK'
  <2> DEFINE k == NoteEvent(clock, Confirmation(c, v))
  <2>1. k \in Clock /\ DispatchOK /\ open' \in Nat
        /\ verdicts' \in [Call -> Verdicts \union {"none"}]
    <3>1. clock \in Clock /\ open \in Nat
      BY DEF TypeOK
    <3>2. phase = "stream" /\ open' = open + 1
      BY <1>2 DEF HandleConfirmation, Deliver
    <3>3. DispatchOK
      BY <3>2 DEF TypeOK, DispatchOK
    <3>4. verdicts' \in [Call -> Verdicts \union {"none"}]
      BY <1>2 DEF HandleConfirmation, TypeOK
    <3> QED BY <3>1, <3>2, <3>3, <3>4, ClockTypes
  <2>2. CASE clock' = k /\ UNCHANGED <<phase, exec, answered, held, dispatched, queue>>
    <3> HIDE DEF k
    <3> QED BY <1>2, <2>1, <2>2
            DEF HandleConfirmation, TypeOK, session, exec, consumer, listing
  <2>3. CASE ApplyVerdict(c, v, k)
    <3> HIDE DEF k
    <3>1. DispatchOK' /\ phase = "stream"
      BY <1>2, <2>1, <2>3, ApplyTypes DEF HandleConfirmation, Deliver
    <3>2. cur' # NoCall <=> phase' \in {"tool", "send"}
      BY <2>3, <3>1, CallAssumption DEF ApplyVerdict, Execute, TypeOK, exec
    <3>3. approved' => cur' # NoCall
      BY <2>3, <3>1, CallAssumption DEF ApplyVerdict, Execute, TypeOK, exec
    <3> QED BY <1>2, <2>1, <2>3, <3>1, <3>2, <3>3
            DEF HandleConfirmation, TypeOK, DispatchOK, session, consumer, listing
  <2> QED BY <1>2, <2>2, <2>3 DEF HandleConfirmation
<1>3. ASSUME NEW c \in Call, NEW by \in Clients, HandleResult(c, by)
      PROVE  TypeOK'
  <2>1. clock' \in Clock
    BY <1>3, ClockTypes DEF HandleResult, TypeOK
  <2> QED BY <1>3, <2>1
          DEF HandleResult, Deliver, TypeOK, session, exec, consumer, listing
<1>4. ASSUME NEW stop \in Stops, HandleIdle(stop)
      PROVE  TypeOK'
  <2>1. clock' \in Clock
    BY <1>4 DEF HandleIdle, TypeOK, NoteEvent, Clock, Arm, Disarm
  <2> QED BY <1>4, <2>1
          DEF HandleIdle, Deliver, TypeOK, session, exec, calls, consumer, listing
<1>5. CASE HandleTerminated
  <2>1. clock' \in Clock
    BY <1>5 DEF HandleTerminated, TypeOK, NoteEvent, Clock, Arm, Disarm
  <2> QED BY <1>5, <2>1
          DEF HandleTerminated, TypeOK, session, exec, calls, consumer, listing
<1> QED BY <1>1, <1>2, <1>3, <1>4, <1>5 DEF Handle

LEMMA SendKeepsType ==
    ASSUME TypeOK, ToolReturns \/ SendSucceeds \/ SendResponseLost \/ SendGivesUp
    PROVE  TypeOK'
<1>1. CASE ToolReturns
  BY <1>1 DEF ToolReturns, TypeOK, session, exec, calls, listing, consumer
<1>2. phase = "send" => /\ cur \in Call
                        /\ Append(log, ToolResult(cur, "runner")) \in Seq(Event)
  <2>1. phase = "send" => cur \in Call
    BY DEF TypeOK
  <2>2. \A c \in Call : ToolResult(c, "runner") \in Event
    BY DEF Event, Clients
  <2> QED BY <2>1, <2>2 DEF TypeOK
<1>3. Executed => clock' \in Clock /\ queue' \in Nat /\ phase' \in {"route", "stream"}
                  /\ resume' = "stream" /\ cur' = NoCall /\ approved' = FALSE
  <2>1. Release \in Clock
    BY CallAssumption, ClockTypes DEF TypeOK, Release
  <2> QED BY <2>1 DEF Executed, Surface, TypeOK
<1>4. CASE SendSucceeds
  <2>1. log' \in Seq(Event) /\ answered' \subseteq Call
    BY <1>2, <1>4 DEF SendSucceeds, Land, TypeOK
  <2> QED BY <1>3, <1>4, <2>1 DEF SendSucceeds, TypeOK, listing, consumer
<1>5. CASE SendResponseLost
  <2>1. log' \in Seq(Event)
    BY <1>2, <1>5 DEF SendResponseLost, Land, TypeOK
  <2> QED BY <1>5, <2>1 DEF SendResponseLost, TypeOK, exec, calls, listing, consumer
<1>6. CASE SendGivesUp
  <2>1. giveUps' \in Nat
    BY <1>6 DEF SendGivesUp, TypeOK
  <2> QED BY <1>3, <1>6, <2>1 DEF SendGivesUp, TypeOK, session, calls, listing, consumer
<1> QED BY <1>1, <1>4, <1>5, <1>6

LEMMA ConsumerKeepsType ==
    ASSUME TypeOK, Consumer \/ IdleExpires \/ Abort
    PROVE  TypeOK'
<1>1. CASE TakeResult
  BY <1>1 DEF TakeResult, TypeOK, session, exec, calls, listing
<1>2. CASE AskNext
  BY <1>2 DEF AskNext, TypeOK, session, exec, calls, listing
<1>3. CASE QueueAborted
  BY <1>3 DEF QueueAborted, TypeOK, session, exec, calls, listing
<1>4. CASE LoopSettled
  BY <1>4 DEF LoopSettled, TypeOK, session, exec, calls, listing
<1>5. CASE Drained \/ Break
  <2>1. clock' \in Clock
    BY <1>5 DEF Drained, Break, Teardown, Disarm, TypeOK, Clock
  <2>2. /\ iter' = "closing" /\ aborted' = TRUE /\ broke' \in BOOLEAN
        /\ UNCHANGED <<session, open, phase, exec, calls, listing, queue, giveUps>>
    BY <1>5 DEF Drained, Break, Teardown, TypeOK
  <2> QED BY <2>1, <2>2 DEF TypeOK, session, exec, calls, listing
<1>6. CASE Close
  BY <1>6 DEF Close, TypeOK, session, exec, calls, listing
<1>7. CASE IdleExpires
  <2>1. clock' \in Clock
    BY <1>7 DEF IdleExpires, TypeOK, Clock
  <2> QED BY <1>7, <2>1 DEF IdleExpires, TypeOK, session, exec, calls, listing, consumer
<1>8. CASE Abort
  BY <1>8 DEF Abort, TypeOK, session, exec, calls, listing, consumer
<1> QED BY <1>1, <1>2, <1>3, <1>4, <1>5, <1>6, <1>7, <1>8 DEF Consumer

(* Every variable keeps its type; nothing executes but in "tool" and "send".*)
THEOREM TypeCorrect == Spec => []TypeOK
<1>1. ASSUME Init
      PROVE  TypeOK
  <2>1. log \in Seq(Event) /\ clock \in Clock
    BY <1>1 DEF Init, NewClock, Clock
  <2>2. verdicts \in [Call -> Verdicts \union {"none"}]
    BY <1>1 DEF Init
  <2>3. /\ seen = {} /\ answered = {} /\ held = {} /\ dispatched = {}
        /\ todo = {} /\ pass = {} /\ ended = FALSE /\ aborted = FALSE
        /\ cur = NoCall /\ approved = FALSE /\ phase = "attach" /\ resume = "stream"
    BY <1>1 DEF Init
  <2>4. open = 0 /\ queue = 0 /\ giveUps = 0 /\ iter = "waiting" /\ broke = FALSE
    BY <1>1 DEF Init
  <2> QED BY <2>1, <2>2, <2>3, <2>4 DEF TypeOK
<1>2. ASSUME TypeOK, [Next]_vars
      PROVE  TypeOK'
  <2>1. CASE StreamLoop
    <3>1. ASSUME NEW skip \in 0..MaxSkip, NEW n \in 0..Len(log), ListFails(skip, n)
          PROVE  TypeOK'
      BY <1>2, <3>1, FailedListingKeepsType
    <3>2. CASE Attach \/ AttachFails \/ AttachRefused \/ Disconnect \/ Reconnect \/ Unwind
      BY <1>2, <3>2, ConnectionKeepsType
    <3>3. CASE Reconcile
      BY <1>2, <3>3, ReconcileKeepsType
    <3>4. CASE Handle
      BY <1>2, <3>4, HandleKeepsType
    <3>5. CASE ToolReturns \/ SendSucceeds \/ SendResponseLost \/ SendGivesUp
      BY <1>2, <3>5, SendKeepsType
    <3> QED BY <2>1, <3>1, <3>2, <3>3, <3>4, <3>5 DEF StreamLoop
  <2>2. CASE Session
    BY <1>2, <2>2, SessionKeepsType
  <2>3. CASE Consumer \/ IdleExpires \/ Abort
    BY <1>2, <2>3, ConsumerKeepsType
  <2>4. CASE UNCHANGED vars
    <3>1. /\ log' = log /\ open' = open /\ phase' = phase /\ resume' = resume
          /\ cur' = cur /\ approved' = approved /\ seen' = seen
          /\ answered' = answered /\ verdicts' = verdicts /\ held' = held
          /\ todo' = todo /\ pass' = pass /\ ended' = ended /\ clock' = clock
          /\ aborted' = aborted /\ queue' = queue /\ iter' = iter
          /\ broke' = broke /\ giveUps' = giveUps /\ dispatched' = dispatched
      BY <2>4 DEF vars
    <3> QED BY <1>2, <3>1 DEF TypeOK
  <2> QED BY <1>2, <2>1, <2>2, <2>3, <2>4 DEF Next
<1> QED BY <1>1, <1>2, PTL DEF Spec

-----------------------------------------------------------------------------
(* The log only grows.                                                      *)

LEMMA LogGrows ==
    ASSUME TypeOK, [Next]_vars
    PROVE  \A ev : Logged(ev) => Logged(ev)'
<1>1. log' = log \/ \E e : log' = Append(log, e)
  <2>1. CASE Session
    BY <2>1 DEF Session, EmitToolUse, AnswerElsewhere, EmitConfirmation, EmitIdle,
                Terminate, Emit
  <2>2. CASE Attach \/ AttachFails \/ AttachRefused \/ Disconnect \/ Reconnect \/ Unwind
    BY <2>2 DEF Attach, AttachFails, AttachRefused, Disconnect, Reconnect, Unwind, session
  <2>3. CASE Reconcile \/ \E skip \in 0..MaxSkip, n \in 0..Len(log) : ListFails(skip, n)
    BY <2>3 DEF Reconcile, ListHistory, Route, ReleaseHeld, Settle, ListFails, session
  <2>4. CASE Handle
    BY <2>4 DEF Handle, HandleToolUse, HandleConfirmation, HandleResult, HandleIdle,
                HandleTerminated, session
  <2>5. CASE ToolReturns \/ SendSucceeds \/ SendResponseLost \/ SendGivesUp
    BY <2>5 DEF ToolReturns, SendSucceeds, SendResponseLost, SendGivesUp, Land, session
  <2>6. CASE Consumer \/ IdleExpires \/ Abort
    BY <2>6 DEF Consumer, TakeResult, AskNext, QueueAborted, LoopSettled, Drained, Break,
                Teardown, Close, IdleExpires, Abort, session
  <2>7. CASE UNCHANGED vars
    BY <2>7 DEF vars
  <2> QED BY <2>1, <2>2, <2>3, <2>4, <2>5, <2>6, <2>7 DEF Next, StreamLoop
<1>2. SUFFICES ASSUME NEW ev, NEW i \in DOMAIN log, log[i] = ev
               PROVE  \E j \in DOMAIN log' : log'[j] = ev
  BY DEF Logged
<1>3. CASE log' = log
  BY <1>2, <1>3
<1>4. ASSUME NEW e, log' = Append(log, e)
      PROVE  \E j \in DOMAIN log' : log'[j] = ev
  <2>1. log \in Seq(Event)
    BY DEF TypeOK
  <2>2. i \in DOMAIN log' /\ log'[i] = log[i]
    BY <1>2, <1>4, <2>1
  <2> QED BY <1>2, <2>2
<1> QED BY <1>1, <1>3, <1>4

-----------------------------------------------------------------------------
(* The permission gate.  To be inductive it needs to know that a recorded   *)
(* allow comes from the log and that only gated calls are held.             *)

MayExecute(c) == /\ Permission[c] # "deny"
                 /\ Gated(c) => Logged(Confirmation(c, "allow"))

GateInv ==
    /\ Running => MayExecute(cur)
    /\ \A c \in Call : verdicts[c] = "allow" => Logged(Confirmation(c, "allow"))
    /\ \A c \in held : Gated(c)

(* A verdict a listing records is in the log, or was known before.          *)
LEMMA IngestedAllow ==
    ASSUME NEW S \in SUBSET (DOMAIN log), NEW c \in Call,
           IngestedVerdicts(S)[c] = "allow", verdicts[c] # "allow"
    PROVE  Logged(Confirmation(c, "allow"))
<1> DEFINE given == {v \in Verdicts : \E i \in S :
                      /\ log[i] = Confirmation(c, v)
                      /\ \A j \in S : j < i => ~( /\ log[j].id = c
                                                /\ log[j].type = "tool_result")}
<1>1. IngestedVerdicts(S)[c] = IF c \in answered \/ given = {} THEN verdicts[c]
                               ELSE CHOOSE v \in given : TRUE
  BY DEF IngestedVerdicts
<1>2. given # {} => (CHOOSE v \in given : TRUE) \in given
  OBVIOUS
<1>3. \A v \in given : Logged(Confirmation(c, v))
  BY DEF Logged
<1> HIDE DEF given
<1> QED BY <1>1, <1>2, <1>3

(* Applying a verdict starts a call only on an allow, and holds nothing.    *)
LEMMA ApplyGate ==
    ASSUME ~Running, NEW c \in Call, NEW v, NEW k, ApplyVerdict(c, v, k)
    PROVE  held' \subseteq held /\ (Running' => v = "allow" /\ cur' = c)
BY DEF Running, ApplyVerdict, Execute, exec

LEMMA RouteGate ==
    ASSUME ~Running, TypeOK, GateInv, NEW c \in Call, NEW k, RouteToolEvent(c, k)
    PROVE  /\ \A d \in held' : Gated(d)
           /\ Running' => cur' = c /\ MayExecute(c)
<1>1. CASE VerdictOf(c) # "none" /\ ApplyVerdict(c, VerdictOf(c), k)
  <2>1. held' \subseteq held /\ (Running' => VerdictOf(c) = "allow" /\ cur' = c)
    BY <1>1, ApplyGate
  <2>2. VerdictOf(c) = "allow" => MayExecute(c)
    BY DEF VerdictOf, MayExecute, GateInv
  <2> QED BY <2>1, <2>2 DEF GateInv
<1>2. CASE /\ VerdictOf(c) = "none" /\ ~Gated(c)
           /\ Execute(c, FALSE, k)
           /\ UNCHANGED <<held, answered>>
  <2>1. Permission[c] # "deny"
    BY <1>2 DEF VerdictOf
  <2>2. Running' => cur' = c
    BY <1>2 DEF Execute, exec, Running
  <2> QED BY <1>2, <2>1, <2>2 DEF GateInv, MayExecute
<1>3. CASE /\ Gated(c) /\ held' = held \union {c}
           /\ UNCHANGED <<answered, phase, exec, queue>>
  BY <1>3 DEF GateInv, Running
<1> QED BY <1>1, <1>2, <1>3 DEF RouteToolEvent

(* A step that starts nothing, holds nothing and records nothing.           *)
LEMMA GateFrame ==
    ASSUME TypeOK, GateInv, [Next]_vars,
           verdicts' = verdicts, held' = held, Running' => Running /\ cur' = cur
    PROVE  GateInv'
<1>1. \A ev : Logged(ev) => Logged(ev)'
  BY LogGrows
<1> QED BY <1>1 DEF GateInv, MayExecute, Gated

LEMMA GateStep == ASSUME TypeOK, GateInv, [Next]_vars PROVE GateInv'
<1>1. \A ev : Logged(ev) => Logged(ev)'
  BY LogGrows
<1>2. CASE Session
  <2>1. UNCHANGED <<verdicts, held, phase, cur>>
    BY <1>2 DEF Session, EmitToolUse, AnswerElsewhere, EmitConfirmation, EmitIdle,
                Terminate, Emit, calls, exec
  <2> QED BY <2>1, GateFrame DEF Running
<1>3. CASE Attach \/ AttachFails \/ AttachRefused \/ Disconnect \/ Reconnect \/ Unwind
  <2>1. UNCHANGED <<verdicts, held>> /\ phase' \notin {"tool", "send"}
    BY <1>3 DEF Attach, AttachFails, AttachRefused, Disconnect, Reconnect, Unwind, calls
  <2> QED BY <2>1, GateFrame DEF Running
<1>4. ASSUME NEW S \in SUBSET (DOMAIN log), verdicts' = IngestedVerdicts(S),
             held' = held, phase' \notin {"tool", "send"}
      PROVE  GateInv'
  <2>1. ASSUME NEW c \in Call, verdicts'[c] = "allow"
        PROVE  Logged(Confirmation(c, "allow"))'
    BY <1>1, <1>4, <2>1, IngestedAllow DEF GateInv
  <2> QED BY <1>4, <2>1 DEF GateInv, Running, Gated
<1>5. CASE Reconcile
  <2>1. ASSUME NEW skip \in 0..MaxSkip, ListHistory(skip)
        PROVE  GateInv'
    <3> DEFINE S == {i \in DOMAIN log : i > skip}
    <3>1. S \in SUBSET (DOMAIN log) /\ verdicts' = IngestedVerdicts(S)
          /\ held' = held /\ phase' = "route"
      BY <2>1 DEF ListHistory
    <3> HIDE DEF S
    <3> QED BY <1>4, <3>1
  <2>2. ASSUME NEW c \in Call, Route(c)
        PROVE  GateInv'
    <3>1. ~Running /\ RouteToolEvent(c, clock) /\ verdicts' = verdicts
      BY <2>2 DEF Route, Running
    <3>2. (\A d \in held' : Gated(d)) /\ (Running' => cur' = c /\ MayExecute(c))
      BY <3>1, RouteGate
    <3> QED BY <1>1, <3>1, <3>2 DEF GateInv, MayExecute, Gated
  <2>3. ASSUME NEW c \in Call, ReleaseHeld(c)
        PROVE  GateInv'
    <3>1. ~Running /\ ApplyVerdict(c, verdicts[c], clock) /\ verdicts' = verdicts
          /\ c \in held
      BY <2>3 DEF ReleaseHeld, Releasable, Running
    <3>2. held' \subseteq held /\ (Running' => verdicts[c] = "allow" /\ cur' = c)
      BY <3>1, ApplyGate
    <3>3. Permission[c] # "deny"
      BY <3>1 DEF GateInv, Gated
    <3> QED BY <1>1, <3>1, <3>2, <3>3 DEF GateInv, MayExecute, Gated
  <2>4. CASE Settle
    <3>1. UNCHANGED <<verdicts, held>> /\ phase' = "stream"
      BY <2>4 DEF Settle, calls
    <3> QED BY <3>1, GateFrame DEF Running
  <2> QED BY <1>5, <2>1, <2>2, <2>3, <2>4 DEF Reconcile
<1>6. ASSUME NEW skip \in 0..MaxSkip, NEW n \in 0..Len(log), ListFails(skip, n)
      PROVE  GateInv'
  <2> DEFINE S == {i \in DOMAIN log : i > skip /\ i <= n}
  <2>1. S \in SUBSET (DOMAIN log) /\ verdicts' = IngestedVerdicts(S)
        /\ held' = held /\ phase' = "stream"
    BY <1>6 DEF ListFails
  <2> HIDE DEF S
  <2> QED BY <1>4, <2>1
<1>7. CASE Handle
  <2>1. ASSUME NEW c \in Call, HandleToolUse(c)
        PROVE  GateInv'
    <3> DEFINE k == NoteEvent(clock, ToolUse(c))
    <3>1. ~Running /\ verdicts' = verdicts
      BY <2>1 DEF HandleToolUse, Deliver, Running
    <3>2. CASE UNCHANGED <<phase, exec, seen, answered, held, dispatched, queue>>
      BY <3>1, <3>2, GateFrame DEF Running
    <3>3. CASE RouteToolEvent(c, k)
      <4> HIDE DEF k
      <4>1. (\A d \in held' : Gated(d)) /\ (Running' => cur' = c /\ MayExecute(c))
        BY <3>1, <3>3, RouteGate
      <4> QED BY <1>1, <3>1, <4>1 DEF GateInv, MayExecute, Gated
    <3> QED BY <2>1, <3>2, <3>3 DEF HandleToolUse
  <2>2. ASSUME NEW c \in Call, NEW v \in Verdicts, HandleConfirmation(c, v)
        PROVE  GateInv'
    <3> DEFINE k == NoteEvent(clock, Confirmation(c, v))
    <3>1. ~Running /\ verdicts' = [verdicts EXCEPT ![c] = v]
      BY <2>2 DEF HandleConfirmation, Deliver, Running
    <3>2. Logged(Confirmation(c, v))
      BY <2>2 DEF HandleConfirmation, Deliver, Logged
    <3>3. \A d \in Call : verdicts'[d] = "allow" => Logged(Confirmation(d, "allow"))'
      BY <1>1, <3>1, <3>2 DEF GateInv, TypeOK
    <3>4. CASE UNCHANGED <<phase, exec, answered, held, dispatched, queue>>
      BY <3>1, <3>3, <3>4 DEF GateInv, Running, Gated
    <3>5. CASE c \in held /\ ApplyVerdict(c, v, k)
      <4> HIDE DEF k
      <4>1. held' \subseteq held /\ (Running' => v = "allow" /\ cur' = c)
        BY <3>1, <3>5, ApplyGate
      <4>2. Permission[c] # "deny"
        BY <3>5 DEF GateInv, Gated
      <4> QED BY <1>1, <3>2, <3>3, <4>1, <4>2 DEF GateInv, MayExecute, Gated
    <3> QED BY <2>2, <3>4, <3>5 DEF HandleConfirmation
  <2>3. CASE \/ \E c \in Call, by \in Clients : HandleResult(c, by)
             \/ \E stop \in Stops : HandleIdle(stop)
             \/ HandleTerminated
    <3>1. UNCHANGED <<verdicts, held>> /\ phase' \in {"stream", "stopped"}
      BY <2>3 DEF HandleResult, HandleIdle, HandleTerminated, Deliver, calls
    <3> QED BY <3>1, GateFrame DEF Running
  <2> QED BY <1>7, <2>1, <2>2, <2>3 DEF Handle
<1>8. CASE ToolReturns \/ SendSucceeds \/ SendResponseLost \/ SendGivesUp
  <2>1. UNCHANGED <<verdicts, held>> /\ Running
    BY <1>8 DEF ToolReturns, SendSucceeds, SendResponseLost, SendGivesUp, calls, Running
  <2>2. Running' => cur' = cur
    BY <1>8 DEF ToolReturns, SendSucceeds, SendResponseLost, SendGivesUp, Executed,
                exec, Running, TypeOK
  <2> QED BY <2>1, <2>2, GateFrame
<1>9. CASE Consumer \/ IdleExpires \/ Abort
  <2>1. UNCHANGED <<verdicts, held, phase, cur>>
    BY <1>9 DEF Consumer, TakeResult, AskNext, QueueAborted, LoopSettled, Drained, Break,
                Teardown, Close, IdleExpires, Abort, calls, exec
  <2> QED BY <2>1, GateFrame DEF Running
<1>10. CASE UNCHANGED vars
  BY <1>10, GateFrame DEF vars, Running
<1> QED BY <1>2, <1>3, <1>5, <1>6, <1>7, <1>8, <1>9, <1>10 DEF Next, StreamLoop

(* Whatever the order in which history and live stream bring calls and      *)
(* verdicts, a gated call executes only after the user's allow, and a call  *)
(* the server denied never executes.                                        *)
THEOREM GateIsRespected == Spec => []GateRespected
<1>1. Init => GateInv
  BY DEF Init, GateInv, Running
<1>2. GateInv => GateRespected
  BY DEF GateInv, GateRespected, MayExecute
<1>3. Spec => []GateInv
  BY <1>1, GateStep, TypeCorrect, PTL DEF Spec
<1> QED BY <1>2, <1>3, PTL
=============================================================================
