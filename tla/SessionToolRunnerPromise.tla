----------------------- MODULE SessionToolRunnerPromise -----------------------
(***************************************************************************)
(* What becomes of each call, for every set of calls, every permission and  *)
(* every bound: SessionToolRunner implements GatedDispatch, no call that    *)
(* has been seen is skipped, and what a run surfaces is yielded.            *)
(*                                                                          *)
(* A call whose result is in the log could only run again if it were routed *)
(* again.  A listing shows the result behind the call (LogInv), and the     *)
(* live stream delivers the call again only if it was attached before the   *)
(* call was emitted: then the listing made after the attachment has marked  *)
(* it seen (AheadInv).                                                      *)
(***************************************************************************)
EXTENDS SessionToolRunnerProofs

Own(c) == Logged(ToolResult(c, "runner"))

\* The live stream has yet to deliver the tool_use of c.
Ahead(c) == open # 0 /\ \E i \in DOMAIN log : i >= open /\ log[i] = ToolUse(c)

\* The runner has dealt with c, is dealing with it or is about to.
Touched(c) == c \in held \/ c \in todo \/ (Running /\ c = cur) \/ Own(c)

LogInv ==
    /\ \A c \in Call : HasResult(c) => Emitted(c)
    /\ \A c \in Call, by \in Clients : \A i, j \in DOMAIN log :
         log[i] = ToolUse(c) /\ log[j] = ToolResult(c, by) => i < j
    /\ \A c \in Call, v, w \in Verdicts :
         Logged(Confirmation(c, v)) /\ Logged(Confirmation(c, w)) => v = w

KnownInv ==
    /\ \A c \in Call : c \in answered \/ Touched(c) => Emitted(c)
    /\ \A c \in Call : verdicts[c] # "none" => Logged(Confirmation(c, verdicts[c]))
    /\ \A c \in answered : HasResult(c) \/ Refused(c)

TurnInv ==
    /\ Running => cur \notin answered \union held \union todo
    /\ \A c \in todo \union held : ~Own(c)
    /\ todo # {} => phase = "route" \/ (Running /\ resume = "route")

AheadInv == \A c \in Call : Touched(c) /\ Ahead(c) => c \in seen /\ phase # "list"

CallsInv == LogInv /\ KnownInv /\ TurnInv /\ AheadInv

-----------------------------------------------------------------------------
(* The log.                                                                 *)

LEMMA EventFields ==
    /\ \A c : ToolUse(c).type = "tool_use" /\ ToolUse(c).id = c
    /\ \A c, by : /\ ToolResult(c, by).type = "tool_result"
                  /\ ToolResult(c, by).id = c /\ ToolResult(c, by).arg = by
    /\ \A c, v : /\ Confirmation(c, v).type = "tool_confirmation"
                 /\ Confirmation(c, v).id = c /\ Confirmation(c, v).arg = v
    /\ \A stop : Idle(stop).type = "status_idle"
    /\ TerminatedEvent.type = "status_terminated"
BY DEF ToolUse, ToolResult, Confirmation, Idle, TerminatedEvent

LEMMA AppendFacts ==
    ASSUME TypeOK, NEW e, log' = Append(log, e)
    PROVE  /\ Len(log) \in Nat
           /\ DOMAIN log = 1..Len(log) /\ DOMAIN log' = 1..(Len(log) + 1)
           /\ log'[Len(log) + 1] = e /\ \A i \in DOMAIN log : log'[i] = log[i]
           /\ \A ev : Logged(ev)' <=> Logged(ev) \/ ev = e
<1>0. log \in Seq(Event)
  BY DEF TypeOK
<1>1. /\ Len(log) \in Nat
      /\ DOMAIN log = 1..Len(log) /\ DOMAIN log' = 1..(Len(log) + 1)
      /\ log'[Len(log) + 1] = e /\ \A i \in DOMAIN log : log'[i] = log[i]
  BY <1>0
<1>2. ASSUME NEW ev PROVE Logged(ev)' <=> Logged(ev) \/ ev = e
  BY <1>1 DEF Logged
<1> QED BY <1>1, <1>2

(* An event the session appends.  The first two conditions are the guards   *)
(* of EmitToolUse, AnswerElsewhere and Land, the third of EmitConfirmation. *)
LEMMA AppendKeepsLogInv ==
    ASSUME TypeOK, LogInv, NEW e, log' = Append(log, e),
           \A c \in Call : e = ToolUse(c) => ~Emitted(c),
           \A c \in Call, by \in Clients : e = ToolResult(c, by) => Emitted(c),
           \A c \in Call, v \in Verdicts : e = Confirmation(c, v) => ~Confirmed(c)
    PROVE  LogInv'
<1>1. \A ev : Logged(ev)' <=> Logged(ev) \/ ev = e
  BY AppendFacts
<1>2. ASSUME NEW c \in Call, HasResult(c)'
      PROVE  Emitted(c)'
  <2>1. PICK by \in Clients : Logged(ToolResult(c, by)) \/ ToolResult(c, by) = e
    BY <1>1, <1>2 DEF HasResult
  <2>2. Emitted(c)
    BY <2>1 DEF LogInv, HasResult
  <2> QED BY <1>1, <2>2 DEF Emitted
<1>3. ASSUME NEW c \in Call, NEW by \in Clients, NEW i \in DOMAIN log', NEW j \in DOMAIN log',
             log'[i] = ToolUse(c), log'[j] = ToolResult(c, by)
      PROVE  i < j
  <2>1. ToolUse(c) # ToolResult(c, by)
    BY DEF ToolUse, ToolResult
  <2>2. /\ Len(log) \in Nat
        /\ DOMAIN log = 1..Len(log) /\ DOMAIN log' = 1..(Len(log) + 1)
        /\ log'[Len(log) + 1] = e /\ \A n \in DOMAIN log : log'[n] = log[n]
    BY AppendFacts
  <2>3. CASE i \in DOMAIN log /\ j \in DOMAIN log
    BY <1>3, <2>2, <2>3 DEF LogInv
  <2>4. CASE i \in DOMAIN log /\ j = Len(log) + 1
    BY <2>2, <2>4
  <2>5. CASE i = Len(log) + 1
    <3>1. e = ToolUse(c) /\ j \in DOMAIN log
      BY <1>3, <2>1, <2>2, <2>5
    <3>2. HasResult(c)
      BY <1>3, <2>2, <3>1 DEF HasResult, Logged
    <3> QED BY <3>1, <3>2 DEF LogInv
  <2> QED BY <2>2, <2>3, <2>4, <2>5
<1>4. ASSUME NEW c \in Call, NEW v \in Verdicts, NEW w \in Verdicts,
             Logged(Confirmation(c, v))', Logged(Confirmation(c, w))'
      PROVE  v = w
  <2>1. /\ Logged(Confirmation(c, v)) \/ Confirmation(c, v) = e
        /\ Logged(Confirmation(c, w)) \/ Confirmation(c, w) = e
    BY <1>1, <1>4
  <2>2. Confirmation(c, v) = Confirmation(c, w) => v = w
    <3>1. Confirmation(c, v).arg = v /\ Confirmation(c, w).arg = w
      BY DEF Confirmation
    <3> QED BY <3>1
  <2> QED BY <2>1, <2>2 DEF LogInv, Confirmed
<1> QED BY <1>2, <1>3, <1>4 DEF LogInv

-----------------------------------------------------------------------------
(* A step that appends an event at most and disposes of nothing.  All that  *)
(* is known of a call stays known.                                          *)
LEMMA AppendKeepsCallsInv ==
    ASSUME TypeOK, CallsInv, NEW e, log' = Append(log, e), LogInv',
           UNCHANGED <<open, phase, resume, cur, seen, answered, verdicts, held, todo>>,
           \A c \in Call : e = ToolUse(c) => ~Emitted(c),
           \A c \in Call : e = ToolResult(c, "runner") => Running /\ c = cur
    PROVE  CallsInv'
<1>1. \A ev : Logged(ev)' <=> Logged(ev) \/ ev = e
  BY AppendFacts
<1>2. \A c \in Call : Own(c)' => Own(c) \/ (Running /\ c = cur)
  BY <1>1 DEF Own
<1>3. \A c \in Call : Touched(c)' => Touched(c)
  BY <1>2 DEF Touched, Running
<1>4. \A c \in Call : (Emitted(c) => Emitted(c)') /\ (HasResult(c) => HasResult(c)')
                       /\ (Refused(c) => Refused(c)')
  BY <1>1 DEF Emitted, HasResult, Refused
<1>5. KnownInv'
  BY <1>1, <1>3, <1>4 DEF CallsInv, KnownInv, TypeOK
<1>6. TurnInv'
  BY <1>2 DEF CallsInv, TurnInv, Running, TypeOK
<1>7. ASSUME NEW c \in Call, Touched(c)', Ahead(c)'
      PROVE  Touched(c) /\ Ahead(c)
  <2>1. Touched(c) /\ Emitted(c)
    BY <1>3, <1>7 DEF CallsInv, KnownInv
  <2>2. PICK i \in DOMAIN log' : i >= open /\ log'[i] = ToolUse(c)
    BY <1>7 DEF Ahead
  <2>3. i \in DOMAIN log /\ log[i] = ToolUse(c)
    BY <2>1, <2>2, AppendFacts
  <2> QED BY <1>7, <2>1, <2>2, <2>3 DEF Ahead
<1>8. AheadInv'
  BY <1>7 DEF CallsInv, AheadInv
<1> QED BY <1>5, <1>6, <1>8 DEF CallsInv

LEMMA SessionKeepsCallsInv == ASSUME TypeOK, CallsInv, Session PROVE CallsInv'
<1>1. PICK e : /\ Emit(e)
               /\ \/ \E c \in Call : e = ToolUse(c) /\ ~Emitted(c)
                  \/ \E c \in Call : e = ToolResult(c, "other_client") /\ Emitted(c)
                  \/ \E c \in Call, v \in Verdicts : e = Confirmation(c, v) /\ ~Confirmed(c)
                  \/ \E stop \in Stops : e = Idle(stop)
                  \/ e = TerminatedEvent
  BY CallAssumption DEF Session, EmitToolUse, AnswerElsewhere, EmitConfirmation, EmitIdle,
                        Terminate
<1>2. /\ log' = Append(log, e)
      /\ UNCHANGED <<open, phase, resume, cur, seen, answered, verdicts, held, todo>>
  BY <1>1 DEF Emit, exec, calls, listing
<1>3. ASSUME NEW c \in Call, e = ToolUse(c) PROVE ~Emitted(c)
  <2>1. e.type = "tool_use" /\ e.id = c
    BY <1>3, EventFields
  <2> QED BY <1>1, <2>1, EventFields
<1>4. ASSUME NEW c \in Call, NEW by \in Clients, e = ToolResult(c, by)
      PROVE  Emitted(c) /\ by # "runner"
  <2>1. e.type = "tool_result" /\ e.id = c /\ e.arg = by
    BY <1>4, EventFields
  <2> QED BY <1>1, <2>1, EventFields
<1>5. ASSUME NEW c \in Call, NEW v \in Verdicts, e = Confirmation(c, v) PROVE ~Confirmed(c)
  <2>1. e.type = "tool_confirmation" /\ e.id = c
    BY <1>5, EventFields
  <2> QED BY <1>1, <2>1, EventFields
<1>6. LogInv'
  BY <1>2, <1>3, <1>4, <1>5, AppendKeepsLogInv DEF CallsInv
<1> QED BY <1>2, <1>3, <1>4, <1>6, AppendKeepsCallsInv DEF Clients

-----------------------------------------------------------------------------
(* Steps that leave the log alone.                                          *)

LEMMA SameLog ==
    ASSUME log' = log
    PROVE  /\ \A ev : Logged(ev)' <=> Logged(ev)
           /\ \A c : /\ Own(c)' <=> Own(c)
                     /\ Emitted(c)' <=> Emitted(c)
                     /\ HasResult(c)' <=> HasResult(c)
                     /\ Confirmed(c)' <=> Confirmed(c)
                     /\ Refused(c)' <=> Refused(c)
           /\ LogInv => LogInv'
<1>1. \A ev : Logged(ev)' <=> Logged(ev)
  BY DEF Logged
<1>2. \A c : /\ Own(c)' <=> Own(c)
             /\ Emitted(c)' <=> Emitted(c)
             /\ HasResult(c)' <=> HasResult(c)
             /\ Confirmed(c)' <=> Confirmed(c)
             /\ Refused(c)' <=> Refused(c)
  BY <1>1 DEF Own, Emitted, HasResult, Confirmed, Refused
<1> QED BY <1>1, <1>2 DEF LogInv

\* Neither a call is disposed of, nor anything learned; the stream may have
\* moved on, ended or been attached.
LEMMA QuietKeepsCallsInv ==
    ASSUME TypeOK, CallsInv, log' = log,
           UNCHANGED <<seen, answered, verdicts, held>>,
           todo' \subseteq todo,
           todo' # {} => phase' = "route" \/ (Running' /\ resume' = "route"),
           Running' => Running /\ cur' = cur,
           \A c \in Call : Ahead(c)' => Ahead(c) /\ (phase' = "list" => phase = "list")
    PROVE  CallsInv'
<1>1. \A c : Touched(c)' => Touched(c)
  BY SameLog DEF Touched
<1>2. KnownInv'
  BY <1>1, SameLog DEF CallsInv, KnownInv
<1>3. TurnInv'
  BY SameLog DEF CallsInv, TurnInv
<1>4. AheadInv'
  BY <1>1 DEF CallsInv, AheadInv
<1> QED BY <1>2, <1>3, <1>4, SameLog DEF CallsInv

\* Delivering an event puts no call ahead of the stream that was not.
LEMMA LessAhead ==
    ASSUME TypeOK, log' = log, open' = open \/ open' = 0 \/ (open' = open + 1 /\ open # 0)
    PROVE  \A c : Ahead(c)' => Ahead(c)
<1>1. open \in Nat /\ \A i \in DOMAIN log : i \in Nat
  BY DEF TypeOK
<1> QED BY <1>1 DEF Ahead

LEMMA ConnectionKeepsCallsInv ==
    ASSUME TypeOK, CallsInv,
           Attach \/ AttachFails \/ AttachRefused \/ Disconnect \/ Reconnect \/ Unwind
    PROVE  CallsInv'
<1>1. /\ log' = log /\ UNCHANGED <<seen, answered, verdicts, held>> /\ ~Running'
      /\ todo' \subseteq todo
  BY DEF Attach, AttachFails, AttachRefused, Disconnect, Reconnect, Unwind, session, calls,
         listing, Running
<1>2. todo' = {}
  BY DEF Attach, AttachFails, AttachRefused, Disconnect, Reconnect, Unwind, listing,
         CallsInv, TurnInv, Running
<1>3. CASE Attach
  <2>1. open' = Len(log) + 1 /\ DOMAIN log = 1..Len(log) /\ Len(log) \in Nat
    BY <1>3 DEF Attach, TypeOK
  <2>2. \A c : ~Ahead(c)'
    BY <1>1, <2>1 DEF Ahead
  <2> QED BY <1>1, <1>2, <2>2, QuietKeepsCallsInv
<1>4. CASE AttachFails \/ AttachRefused \/ Disconnect \/ Reconnect \/ Unwind
  <2>1. (open' = open \/ open' = 0) /\ phase' # "list"
    BY <1>4 DEF AttachFails, AttachRefused, Disconnect, Reconnect, Unwind
  <2> QED BY <1>1, <1>2, <2>1, LessAhead, QuietKeepsCallsInv
<1> QED BY <1>3, <1>4

-----------------------------------------------------------------------------
(* Listings.                                                                *)

LEMMA ListedIds ==
    ASSUME TypeOK, NEW S \in SUBSET (DOMAIN log), NEW c
    PROVE  /\ c \in Ids(S, "tool_use") <=> c \in Call /\ \E i \in S : log[i] = ToolUse(c)
           /\ c \in Ids(S, "tool_result") <=>
                c \in Call /\ \E i \in S, by \in Clients : log[i] = ToolResult(c, by)
<1>1. \A i \in S : log[i] \in Event
  BY DEF TypeOK
<1>2. \A ev \in Event : ev.type = "tool_use" => ev.id \in Call /\ ev = ToolUse(ev.id)
  BY EventFields DEF Event
<1>3. \A ev \in Event : ev.type = "tool_result" =>
        ev.id \in Call /\ \E by \in Clients : ev = ToolResult(ev.id, by)
  BY EventFields DEF Event
<1> QED BY <1>1, <1>2, <1>3, EventFields DEF Ids

LEMMA IngestedKnown ==
    ASSUME NEW S \in SUBSET (DOMAIN log), NEW c \in Call, KnownInv,
           IngestedVerdicts(S)[c] # "none"
    PROVE  Logged(Confirmation(c, IngestedVerdicts(S)[c]))
<1> DEFINE given == {v \in Verdicts : \E i \in S :
                      /\ log[i] = Confirmation(c, v)
                      /\ \A j \in S : j < i => ~( /\ log[j].id = c
                                                /\ log[j].type = "tool_result")}
<1>1. IngestedVerdicts(S)[c] = IF c \in answered \/ given = {} THEN verdicts[c]
                               ELSE CHOOSE v \in given : TRUE
  BY DEF IngestedVerdicts
<1>2. given # {} => (CHOOSE v \in given : TRUE) \in given
  OBVIOUS
<1>3. \A v \in given : Logged(Confirmation(c, v))
  BY DEF Logged
<1> HIDE DEF given
<1> QED BY <1>1, <1>2, <1>3 DEF KnownInv

\* What a listing, complete or not, adds to `answered` and the verdicts is in the log.
LEMMA ListingLearns ==
    ASSUME TypeOK, CallsInv, NEW S \in SUBSET (DOMAIN log)
    PROVE  /\ \A c \in AnsweredIn(S) : c \in answered \/ (c \in Call /\ HasResult(c))
           /\ \A c \in Call : IngestedVerdicts(S)[c] # "none" =>
                Logged(Confirmation(c, IngestedVerdicts(S)[c]))
<1>1. \A c \in Ids(S, "tool_result") : c \in Call /\ HasResult(c)
  BY ListedIds DEF HasResult, Logged
<1> QED BY <1>1, IngestedKnown DEF AnsweredIn, CallsInv

LEMMA ListHistoryKeepsCallsInv ==
    ASSUME TypeOK, CallsInv, NEW skip \in 0..MaxSkip, ListHistory(skip)
    PROVE  CallsInv'
<1> DEFINE S == {i \in DOMAIN log : i > skip}
<1>1. /\ phase = "list" /\ phase' = "route" /\ log' = log /\ open' = open /\ held' = held
      /\ seen' = seen \union Ids(S, "tool_use") /\ answered' = AnsweredIn(S)
      /\ verdicts' = IngestedVerdicts(S) /\ todo' = Unanswered(S)
  BY DEF ListHistory, session
<1>2. S \in SUBSET (DOMAIN log) /\ ~Running /\ ~Running'
  BY <1>1 DEF Running
<1>3. ASSUME NEW c \in Unanswered(S)
      PROVE  c \in Call /\ c \in seen' /\ Emitted(c) /\ ~Own(c)
  <2>1. PICK i \in S : log[i] = ToolUse(c)
    BY <1>2, ListedIds DEF Unanswered
  <2>2. c \in Call /\ c \in seen' /\ c \notin Ids(S, "tool_result") /\ i > skip
    BY <1>1, <1>2, ListedIds DEF Unanswered, AnsweredIn
  <2>3. ~Own(c)
    <3>1. SUFFICES ASSUME NEW j \in DOMAIN log, log[j] = ToolResult(c, "runner") PROVE FALSE
      BY DEF Own, Logged
    <3>2. i < j
      BY <2>1, <2>2, <3>1 DEF CallsInv, LogInv, Clients
    <3>3. i \in Nat /\ j \in Nat /\ skip \in Nat
      BY BoundAssumption DEF TypeOK
    <3>4. j \in S
      BY <2>2, <3>2, <3>3
    <3> QED BY <1>2, <2>2, <3>1, <3>4, ListedIds DEF Clients
  <2> QED BY <2>1, <2>2, <2>3 DEF Emitted, Logged
<1> HIDE DEF S
<1>4. \A c \in Call : Touched(c)' => Touched(c) \/ c \in Unanswered(S)
  BY <1>1, <1>2, SameLog DEF Touched
<1>5. KnownInv'
  <2>1. \A c \in answered' : c \in Call /\ Emitted(c) /\ (HasResult(c) \/ Refused(c))
    BY <1>1, <1>2, ListingLearns DEF CallsInv, KnownInv, LogInv, TypeOK
  <2>2. \A c \in Call : verdicts'[c] # "none" => Logged(Confirmation(c, verdicts'[c]))
    BY <1>1, <1>2, ListingLearns
  <2>3. \A c \in Call : Touched(c)' => Emitted(c)
    BY <1>3, <1>4 DEF CallsInv, KnownInv
  <2> QED BY <1>1, <2>1, <2>2, <2>3, SameLog DEF KnownInv
<1>6. TurnInv'
  BY <1>1, <1>2, <1>3, SameLog DEF CallsInv, TurnInv, TypeOK
<1>7. AheadInv'
  <2>1. \A c \in Call : Ahead(c)' => Ahead(c)
    BY <1>1 DEF Ahead
  <2>2. \A c \in Call : Touched(c)' /\ Ahead(c)' => c \in Unanswered(S)
    BY <1>1, <1>4, <2>1 DEF CallsInv, AheadInv
  <2> QED BY <1>1, <1>3, <2>2 DEF AheadInv
<1> QED BY <1>1, <1>5, <1>6, <1>7, SameLog DEF CallsInv

LEMMA ListFailsKeepsCallsInv ==
    ASSUME TypeOK, CallsInv, NEW skip \in 0..MaxSkip, NEW n \in 0..Len(log), ListFails(skip, n)
    PROVE  CallsInv'
<1> DEFINE S == {i \in DOMAIN log : i > skip /\ i <= n}
<1>1. /\ phase = "list" /\ phase' = "stream" /\ log' = log /\ open' = open /\ held' = held
      /\ answered' = AnsweredIn(S) /\ verdicts' = IngestedVerdicts(S) /\ todo' = todo
  BY DEF ListFails, session, listing
<1>2. S \in SUBSET (DOMAIN log) /\ ~Running /\ ~Running'
  BY <1>1 DEF Running
<1> HIDE DEF S
<1>3. todo = {}
  BY <1>1, <1>2 DEF CallsInv, TurnInv
<1>4. \A c \in Call : Touched(c)' => Touched(c)
  BY <1>1, <1>2, SameLog DEF Touched
<1>5. KnownInv'
  <2>1. \A c \in answered' : c \in Call /\ Emitted(c) /\ (HasResult(c) \/ Refused(c))
    BY <1>1, <1>2, ListingLearns DEF CallsInv, KnownInv, LogInv, TypeOK
  <2>2. \A c \in Call : verdicts'[c] # "none" => Logged(Confirmation(c, verdicts'[c]))
    BY <1>1, <1>2, ListingLearns
  <2> QED BY <1>1, <1>4, <2>1, <2>2, SameLog DEF CallsInv, KnownInv
<1>6. TurnInv'
  BY <1>1, <1>2, <1>3, SameLog DEF CallsInv, TurnInv
<1>7. AheadInv'
  <2>1. \A c \in Call : Ahead(c)' => Ahead(c)
    BY <1>1 DEF Ahead
  <2> QED BY <1>1, <1>4, <2>1 DEF CallsInv, AheadInv
<1> QED BY <1>1, <1>5, <1>6, <1>7, SameLog DEF CallsInv

-----------------------------------------------------------------------------
(* What a step that disposes of a call does to it: nothing that the promise *)
(* sees, or it starts the call, or it denies it.                            *)

Moot    == phase' = phase /\ cur' = cur /\ answered' = answered
Starts(c) ==
    /\ phase' = "tool" /\ cur' = c /\ resume' = phase /\ answered' = answered
    /\ c \notin answered \union held' /\ MayExecute(c)
Denies(c) ==
    /\ phase' = phase /\ cur' = cur /\ answered' = answered \union {c}
    /\ Permission[c] = "deny" \/ \E v \in Verdicts \ {"allow"} : Logged(Confirmation(c, v))

Outcome(c) == held' \subseteq held \union {c} /\ (Moot \/ Starts(c) \/ Denies(c))

LEMMA ExecuteOutcome ==
    ASSUME NEW c \in Call, NEW ok, NEW k, Execute(c, ok, k), answered' = answered,
           c \notin held', MayExecute(c)
    PROVE  Moot \/ Starts(c)
BY DEF Execute, Moot, Starts, exec

LEMMA ApplyOutcome ==
    ASSUME NEW c \in Call, NEW v \in Verdicts, NEW k, ApplyVerdict(c, v, k),
           Permission[c] = "deny" => v # "allow",
           Permission[c] = "deny" \/ Logged(Confirmation(c, v))
    PROVE  Outcome(c)
<1>1. CASE v = "allow"
  <2>1. /\ held' = held \ {c} /\ answered' = answered
        /\ Execute(c, TRUE, IF c \in held THEN k ELSE Block(k, c))
    BY <1>1 DEF ApplyVerdict
  <2>2. MayExecute(c)
    BY <1>1 DEF MayExecute
  <2>3. Moot \/ Starts(c)
    BY <2>1, <2>2, ExecuteOutcome
  <2> QED BY <2>1, <2>3 DEF Outcome
<1>2. CASE v # "allow"
  <2>1. /\ held' = held \ {c} /\ answered' = answered \union {c}
        /\ phase' = phase /\ cur' = cur
    BY <1>2 DEF ApplyVerdict, exec
  <2> QED BY <1>2, <2>1 DEF Outcome, Denies
<1> QED BY <1>1, <1>2

LEMMA RouteOutcome ==
    ASSUME TypeOK, GateInv, KnownInv, NEW c \in Call, NEW k, RouteToolEvent(c, k)
    PROVE  Outcome(c)
<1>1. CASE VerdictOf(c) # "none" /\ ApplyVerdict(c, VerdictOf(c), k)
  <2>1. VerdictOf(c) \in Verdicts /\ (Permission[c] = "deny" => VerdictOf(c) # "allow")
        /\ (Permission[c] = "deny" \/ Logged(Confirmation(c, VerdictOf(c))))
    BY <1>1 DEF VerdictOf, Verdicts, TypeOK, KnownInv
  <2> QED BY <1>1, <2>1, ApplyOutcome
<1>2. CASE /\ VerdictOf(c) = "none" /\ ~Gated(c)
           /\ Execute(c, FALSE, k)
           /\ UNCHANGED <<held, answered>>
  <2>1. MayExecute(c) /\ c \notin held'
    BY <1>2 DEF VerdictOf, MayExecute, GateInv
  <2>2. Moot \/ Starts(c)
    BY <1>2, <2>1, ExecuteOutcome
  <2> QED BY <1>2, <2>2 DEF Outcome
<1>3. CASE held' = held \union {c} /\ UNCHANGED <<answered, phase, exec, queue>>
  BY <1>3 DEF Outcome, Moot, exec
<1> QED BY <1>1, <1>2, <1>3 DEF RouteToolEvent

LEMMA DisposeKeepsCallsInv ==
    ASSUME TypeOK, CallsInv, NEW c \in Call, Outcome(c), log' = log,
           phase \in {"route", "stream"}, todo' = todo \ {c}, todo # {} => phase = "route",
           Emitted(c), ~Own(c), seen \subseteq seen', Ahead(c) => c \in seen',
           \A d \in Call : Ahead(d)' => Ahead(d),
           \A d \in Call : verdicts'[d] # "none" => Logged(Confirmation(d, verdicts'[d]))
    PROVE  CallsInv'
<1>1. ~Running /\ (Running' => Starts(c)) /\ phase' \in {"route", "stream", "tool"}
  BY DEF Running, Outcome, Moot, Starts, Denies
<1>2. \A d \in Call : Touched(d)' => Touched(d) \/ d = c
  BY <1>1, SameLog DEF Touched, Outcome, Starts
<1>3. KnownInv'
  <2>1. \A d \in answered' : d \in answered \/ (d = c /\ Refused(c))
    BY DEF Outcome, Moot, Starts, Denies, Refused
  <2> QED BY <1>2, <2>1, SameLog DEF CallsInv, KnownInv
<1>4. TurnInv'
  <2>1. Running' => cur' \notin answered' \union held' \union todo'
    BY <1>1 DEF Starts
  <2>2. \A d \in todo' \union held' : ~Own(d)'
    BY SameLog DEF Outcome, CallsInv, TurnInv
  <2>3. todo' # {} => phase' = "route" \/ (Running' /\ resume' = "route")
    BY DEF Outcome, Moot, Starts, Denies, Running
  <2> QED BY <2>1, <2>2, <2>3 DEF TurnInv
<1>5. AheadInv'
  BY <1>1, <1>2 DEF CallsInv, AheadInv
<1> QED BY <1>3, <1>4, <1>5, SameLog DEF CallsInv

\* The steps that dispose of a call, and what they find.
LEMMA Disposals ==
    ASSUME TypeOK, GateInv, CallsInv, NEW c \in Call,
           \/ Route(c) \/ ReleaseHeld(c)
           \/ HandleToolUse(c) /\ c \notin seen
           \/ \E v \in Verdicts : HandleConfirmation(c, v) /\ c \in held
    PROVE  /\ Outcome(c) /\ log' = log
           /\ phase \in {"route", "stream"} /\ todo' = todo \ {c}
           /\ todo # {} => phase = "route"
           /\ Emitted(c) /\ ~Own(c) /\ seen \subseteq seen' /\ (Ahead(c) => c \in seen')
           /\ \A d \in Call : Ahead(d)' => Ahead(d)
           /\ \A d \in Call : verdicts'[d] # "none" => Logged(Confirmation(d, verdicts'[d]))
<1>1. CASE Route(c)
  <2>1. /\ c \in todo /\ RouteToolEvent(c, clock) /\ phase = "route" /\ todo' = todo \ {c}
        /\ log' = log /\ open' = open /\ seen' = seen /\ verdicts' = verdicts
    BY <1>1 DEF Route, session
  <2>2. Touched(c)
    BY <2>1 DEF Touched
  <2> QED BY <2>1, <2>2, RouteOutcome, LessAhead DEF CallsInv, KnownInv, TurnInv, AheadInv
<1>2. CASE ReleaseHeld(c)
  <2>1. /\ c \in held /\ verdicts[c] # "none" /\ ApplyVerdict(c, verdicts[c], clock)
        /\ phase = "route" /\ todo = {} /\ todo' = todo
        /\ log' = log /\ open' = open /\ seen' = seen /\ verdicts' = verdicts
    BY <1>2 DEF ReleaseHeld, Releasable, session, listing
  <2>2. Touched(c) /\ verdicts[c] \in Verdicts /\ Permission[c] # "deny"
    BY <2>1 DEF Touched, TypeOK, GateInv, Gated
  <2>3. Outcome(c)
    BY <2>1, <2>2, ApplyOutcome DEF CallsInv, KnownInv
  <2> QED BY <2>1, <2>2, <2>3, LessAhead DEF CallsInv, KnownInv, TurnInv, AheadInv
<1>3. CASE HandleToolUse(c) /\ c \notin seen
  <2>1. /\ phase = "stream" /\ open \in DOMAIN log /\ log[open] = ToolUse(c) /\ open' = open + 1
        /\ RouteToolEvent(c, NoteEvent(clock, ToolUse(c))) /\ seen' = seen \union {c}
        /\ log' = log /\ verdicts' = verdicts /\ todo' = todo
    BY <1>3 DEF HandleToolUse, Deliver, session, listing
  <2>2. open # 0 /\ Ahead(c)
    BY <2>1 DEF TypeOK, Ahead
  <2>3. ~Touched(c)
    BY <1>3, <2>2 DEF CallsInv, AheadInv
  <2>4. Emitted(c)
    BY <2>1 DEF Emitted, Logged
  <2>5. todo = {}
    BY <2>1 DEF CallsInv, TurnInv, Running
  <2>6. Outcome(c)
    BY <2>1, RouteOutcome DEF CallsInv
  <2> QED BY <2>1, <2>2, <2>3, <2>4, <2>5, <2>6, LessAhead DEF Touched, CallsInv, KnownInv
<1>4. ASSUME NEW v \in Verdicts, HandleConfirmation(c, v), c \in held
      PROVE  /\ Outcome(c) /\ log' = log
             /\ phase \in {"route", "stream"} /\ todo' = todo \ {c}
             /\ todo # {} => phase = "route"
             /\ Emitted(c) /\ ~Own(c) /\ seen \subseteq seen' /\ (Ahead(c) => c \in seen')
             /\ \A d \in Call : Ahead(d)' => Ahead(d)
             /\ \A d \in Call : verdicts'[d] # "none" => Logged(Confirmation(d, verdicts'[d]))
  <2>1. /\ phase = "stream" /\ open \in DOMAIN log /\ log[open] = Confirmation(c, v)
        /\ open' = open + 1 /\ ApplyVerdict(c, v, NoteEvent(clock, Confirmation(c, v)))
        /\ log' = log /\ verdicts' = [verdicts EXCEPT ![c] = v] /\ todo' = todo
        /\ seen' = seen
    BY <1>4 DEF HandleConfirmation, Deliver, session, listing
  <2>2. open # 0 /\ Logged(Confirmation(c, v)) /\ Touched(c) /\ Permission[c] # "deny"
    BY <1>4, <2>1 DEF TypeOK, Logged, Touched, GateInv, Gated
  <2>3. todo = {}
    BY <2>1 DEF CallsInv, TurnInv, Running
  <2>4. Outcome(c)
    BY <2>1, <2>2, ApplyOutcome
  <2>5. \A d \in Call : verdicts'[d] # "none" => Logged(Confirmation(d, verdicts'[d]))
    BY <2>1, <2>2 DEF TypeOK, CallsInv, KnownInv
  <2> QED BY <1>4, <2>1, <2>2, <2>3, <2>4, <2>5, LessAhead
          DEF CallsInv, KnownInv, TurnInv, AheadInv
<1> QED BY <1>1, <1>2, <1>3, <1>4

-----------------------------------------------------------------------------
(* The other events of the stream, the end of an execution, and the rest.   *)

LEMMA LearningKeepsCallsInv ==
    ASSUME TypeOK, CallsInv, NEW c \in Call, log' = log, phase = "stream", phase' = "stream",
           open' = open + 1, open # 0, UNCHANGED <<cur, held, todo, seen>>,
           answered' = answered \/ (answered' = answered \union {c} /\ HasResult(c)),
           \A d \in Call : verdicts'[d] # "none" => Logged(Confirmation(d, verdicts'[d]))
    PROVE  CallsInv'
<1>1. ~Running /\ ~Running'
  BY DEF Running
<1>2. \A d : Touched(d)' => Touched(d)
  BY <1>1, SameLog DEF Touched
<1>3. KnownInv'
  <2>1. \A d \in answered' : d \in answered \/ (d = c /\ HasResult(c))
    OBVIOUS
  <2> QED BY <1>2, <2>1, SameLog DEF CallsInv, KnownInv, LogInv
<1>4. TurnInv'
  BY <1>1, SameLog DEF CallsInv, TurnInv
<1>5. AheadInv'
  BY <1>2, LessAhead DEF CallsInv, AheadInv
<1> QED BY <1>3, <1>4, <1>5, SameLog DEF CallsInv

LEMMA HandleKeepsCallsInv == ASSUME TypeOK, GateInv, CallsInv, Handle PROVE CallsInv'
<1>1. ASSUME NEW c \in Call, HandleToolUse(c)
      PROVE  CallsInv'
  <2>1. CASE c \in seen
    <3>1. /\ log' = log /\ phase = "stream" /\ phase' = "stream" /\ open' = open + 1
          /\ open # 0 /\ UNCHANGED <<cur, held, todo, seen, answered, verdicts>>
      BY <1>1, <2>1 DEF HandleToolUse, Deliver, session, exec, listing, TypeOK
    <3> QED BY <3>1, LearningKeepsCallsInv DEF CallsInv, KnownInv
  <2>2. CASE c \notin seen
    BY <1>1, <2>2, Disposals, DisposeKeepsCallsInv
  <2> QED BY <2>1, <2>2
<1>2. ASSUME NEW c \in Call, NEW v \in Verdicts, HandleConfirmation(c, v)
      PROVE  CallsInv'
  <2>1. CASE c \in held
    BY <1>2, <2>1, Disposals, DisposeKeepsCallsInv
  <2>2. CASE c \notin held
    <3>1. /\ log' = log /\ phase = "stream" /\ phase' = "stream" /\ open' = open + 1
          /\ open # 0 /\ UNCHANGED <<cur, held, todo, seen, answered>>
          /\ verdicts' = [verdicts EXCEPT ![c] = v] /\ Logged(Confirmation(c, v))
      BY <1>2, <2>2 DEF HandleConfirmation, Deliver, session, exec, listing, TypeOK, Logged
    <3>2. \A d \in Call : verdicts'[d] # "none" => Logged(Confirmation(d, verdicts'[d]))
      BY <3>1 DEF TypeOK, CallsInv, KnownInv
    <3> QED BY <3>1, <3>2, LearningKeepsCallsInv
  <2> QED BY <2>1, <2>2
<1>3. ASSUME NEW c \in Call, NEW by \in Clients, HandleResult(c, by)
      PROVE  CallsInv'
  <2>1. /\ log' = log /\ phase = "stream" /\ phase' = "stream" /\ open' = open + 1
        /\ open # 0 /\ UNCHANGED <<cur, held, todo, seen, verdicts>>
        /\ answered' = answered \union {c} /\ HasResult(c)
    BY <1>3 DEF HandleResult, Deliver, session, exec, listing, TypeOK, HasResult, Logged
  <2> QED BY <2>1, LearningKeepsCallsInv DEF CallsInv, KnownInv
<1>4. CASE (\E stop \in Stops : HandleIdle(stop)) \/ HandleTerminated
  <2>1. /\ log' = log /\ UNCHANGED <<seen, answered, verdicts, held, todo>> /\ ~Running'
        /\ ~Running /\ phase = "stream" /\ phase' # "list"
        /\ open' = 0 \/ (open' = open + 1 /\ open # 0)
    BY <1>4 DEF HandleIdle, HandleTerminated, Deliver, session, exec, listing, calls, Running,
                TypeOK
  <2>2. todo = {}
    BY <2>1 DEF CallsInv, TurnInv
  <2> QED BY <2>1, <2>2, LessAhead, QuietKeepsCallsInv
<1> QED BY <1>1, <1>2, <1>3, <1>4 DEF Handle

LEMMA ReconcileKeepsCallsInv == ASSUME TypeOK, GateInv, CallsInv, Reconcile PROVE CallsInv'
<1>1. CASE \E c \in Call : Route(c) \/ ReleaseHeld(c)
  BY <1>1, Disposals, DisposeKeepsCallsInv
<1>2. CASE Settle
  <2>1. /\ log' = log /\ open' = open /\ UNCHANGED <<seen, answered, verdicts, held, todo>>
        /\ ~Running' /\ todo = {} /\ phase' = "stream"
    BY <1>2 DEF Settle, session, calls, Running
  <2> QED BY <2>1, LessAhead, QuietKeepsCallsInv
<1> QED BY <1>1, <1>2, ListHistoryKeepsCallsInv DEF Reconcile

\* The post of a result: nothing is known of other calls that was not.
LEMMA LandFacts ==
    ASSUME TypeOK, CallsInv, Running, Land \/ log' = log
    PROVE  /\ cur \in Call /\ LogInv'
           /\ \A ev : Logged(ev) => Logged(ev)'
           /\ \A c : /\ Emitted(c)' <=> Emitted(c)
                     /\ Confirmed(c)' <=> Confirmed(c)
                     /\ Refused(c) => Refused(c)'
                     /\ HasResult(c) => HasResult(c)'
                     /\ \A v : Logged(Confirmation(c, v))' <=> Logged(Confirmation(c, v))
                     /\ c # cur => (Own(c)' <=> Own(c)) /\ (HasResult(c)' <=> HasResult(c))
           /\ Land => \A c : c = cur => HasResult(c)'
           /\ \A c : Ahead(c)' /\ open' = open => Ahead(c)
<1>1. cur \in Call /\ Emitted(cur)
  BY CallAssumption DEF Running, TypeOK, CallsInv, KnownInv, Touched
<1>2. CASE log' = log
  BY <1>1, <1>2, SameLog DEF Land, CallsInv, HasResult, Logged, Ahead, Clients
<1>3. CASE ~HasResult(cur) /\ log' = Append(log, ToolResult(cur, "runner"))
  <2> DEFINE e == ToolResult(cur, "runner")
  <2>1. log' = Append(log, e)
    BY <1>3
  <2>2. e.type = "tool_result" /\ e.id = cur /\ e.arg = "runner"
    BY EventFields
  <2>3. \A c : e # ToolUse(c)
    BY <2>2, EventFields
  <2>4. \A c, by : e = ToolResult(c, by) => c = cur
    BY <2>2, EventFields
  <2>5. \A c, v : e # Confirmation(c, v)
    BY <2>2, EventFields
  <2>6. \A d : d = cur => ToolResult(d, "runner") = e
    OBVIOUS
  <2> HIDE DEF e
  <2>7. /\ DOMAIN log = 1..Len(log) /\ DOMAIN log' = 1..(Len(log) + 1) /\ Len(log) \in Nat
        /\ log'[Len(log) + 1] = e /\ \A i \in DOMAIN log : log'[i] = log[i]
        /\ \A ev : Logged(ev)' <=> Logged(ev) \/ ev = e
    BY <2>1, AppendFacts
  <2>8. LogInv'
    BY <1>1, <2>1, <2>3, <2>4, <2>5, AppendKeepsLogInv DEF CallsInv
  <2>9. \A c : /\ Emitted(c)' <=> Emitted(c)
               /\ Confirmed(c)' <=> Confirmed(c)
               /\ Refused(c) => Refused(c)'
    BY <2>3, <2>5, <2>7 DEF Emitted, Confirmed, Refused
  <2>10. \A c : /\ HasResult(c) => HasResult(c)'
                /\ c # cur => (Own(c)' <=> Own(c)) /\ (HasResult(c)' <=> HasResult(c))
    BY <2>4, <2>7 DEF Own, HasResult
  <2>11. \A c : c = cur => HasResult(c)'
    BY <2>6, <2>7 DEF HasResult, Clients
  <2>12. \A c : Ahead(c)' /\ open' = open => Ahead(c)
    BY <2>3, <2>7 DEF Ahead
  <2> QED BY <1>1, <2>5, <2>7, <2>8, <2>9, <2>10, <2>11, <2>12
<1> QED BY <1>2, <1>3 DEF Land

LEMMA SendKeepsCallsInv ==
    ASSUME TypeOK, CallsInv, Running, Land \/ log' = log, UNCHANGED <<held, todo, open, seen, verdicts>>,
           \/ /\ Running' /\ cur' = cur /\ resume' = resume /\ phase' # "list"
              /\ answered' = answered
           \/ ~Running' /\ phase' = resume,
           answered' = answered \/ (answered' = answered \union {cur} /\ Land)
    PROVE  CallsInv'
<1> USE LandFacts
<1>1. \A d \in Call : Touched(d)' => Touched(d)
  BY DEF Touched
<1>2. KnownInv'
  <2>1. \A d \in answered' : /\ d \in Call /\ Emitted(d)
                             /\ d \in answered \/ HasResult(d)'
    BY DEF CallsInv, KnownInv, Touched, TypeOK
  <2>2. \A d \in Call : (verdicts[d] # "none" => Logged(Confirmation(d, verdicts[d])))'
    <3>1. \A d, v : Logged(Confirmation(d, v))' <=> Logged(Confirmation(d, v))
      OBVIOUS
    <3> QED BY <3>1 DEF CallsInv, KnownInv
  <2> QED BY <1>1, <2>1, <2>2 DEF CallsInv, KnownInv
<1>3. TurnInv'
  <2>1. \A d \in todo \union held : d \in Call /\ d # cur /\ ~Own(d)
    BY DEF CallsInv, TurnInv, TypeOK
  <2>2. todo # {} => resume = "route"
    BY DEF CallsInv, TurnInv, Running
  <2>3. \A d \in todo' \union held' : ~Own(d)'
    BY <2>1
  <2>4. Running' => cur' \notin answered' \union held' \union todo'
    BY DEF CallsInv, TurnInv
  <2> QED BY <2>2, <2>3, <2>4 DEF TurnInv
<1>4. AheadInv'
  <2>1. phase' # "list"
    BY DEF TypeOK
  <2> QED BY <1>1, <2>1 DEF CallsInv, AheadInv
<1> QED BY <1>2, <1>3, <1>4 DEF CallsInv

LEMMA CallsStep == ASSUME TypeOK, GateInv, CallsInv, [Next]_vars PROVE CallsInv'
<1>1. CASE Attach \/ AttachFails \/ AttachRefused \/ Disconnect \/ Reconnect \/ Unwind
  BY <1>1, ConnectionKeepsCallsInv
<1>2. CASE ToolReturns \/ SendSucceeds \/ SendResponseLost \/ SendGivesUp
  <2>1. Running /\ UNCHANGED <<held, todo, open, seen, verdicts>>
    BY <1>2 DEF ToolReturns, SendSucceeds, SendResponseLost, SendGivesUp, Running, calls, listing
  <2>2. CASE ToolReturns \/ SendResponseLost
    <3>1. /\ Running' /\ cur' = cur /\ resume' = resume /\ phase' # "list"
          /\ answered' = answered /\ (Land \/ log' = log)
      BY <2>2 DEF ToolReturns, SendResponseLost, Running, calls, exec, session
    <3> QED BY <2>1, <3>1, SendKeepsCallsInv
  <2>3. CASE SendSucceeds \/ SendGivesUp
    <3>1. /\ ~Running' /\ phase' = resume /\ (Land \/ log' = log)
          /\ answered' = answered \/ (answered' = answered \union {cur} /\ Land)
      BY <2>3 DEF SendSucceeds, SendGivesUp, Executed, Running, calls, session, TypeOK
    <3> QED BY <2>1, <3>1, SendKeepsCallsInv
  <2> QED BY <1>2, <2>2, <2>3
<1>3. CASE Consumer \/ IdleExpires \/ Abort \/ UNCHANGED vars
  <2>1. UNCHANGED <<log, open, phase, resume, cur, seen, answered, verdicts, held, todo>>
    BY <1>3 DEF Consumer, TakeResult, AskNext, QueueAborted, LoopSettled, Drained, Break,
                Teardown, Close, IdleExpires, Abort, vars, session, exec, calls, listing
  <2>2. Running' = Running
    BY <2>1 DEF Running
  <2>3. todo' # {} => phase' = "route" \/ (Running' /\ resume' = "route")
    BY <2>1, <2>2 DEF CallsInv, TurnInv
  <2> QED BY <2>1, <2>2, <2>3, LessAhead, QuietKeepsCallsInv
<1> QED BY <1>1, <1>2, <1>3, SessionKeepsCallsInv, ReconcileKeepsCallsInv,
           ListFailsKeepsCallsInv, HandleKeepsCallsInv DEF Next, StreamLoop

LEMMA CallsInvHolds == Spec => [](TypeOK /\ GateInv /\ CallsInv)
<1>1. Init => GateInv
  BY DEF Init, GateInv, Running
<1>2. Init => CallsInv
  <2> SUFFICES ASSUME Init PROVE CallsInv
    OBVIOUS
  <2>1. \A ev : ~Logged(ev)
    BY DEF Init, Logged
  <2>2. \A c : ~Touched(c)
    BY <2>1 DEF Init, Touched, Own, Running
  <2>3. LogInv
    BY <2>1 DEF LogInv, HasResult, Init
  <2>4. KnownInv /\ TurnInv /\ AheadInv
    BY <2>1, <2>2 DEF Init, KnownInv, TurnInv, AheadInv, Running
  <2> QED BY <2>3, <2>4 DEF CallsInv
<1>3. TypeOK /\ GateInv /\ CallsInv /\ TypeOK' /\ [Next]_vars => GateInv' /\ CallsInv'
  BY GateStep, CallsStep
<1> QED BY <1>1, <1>2, <1>3, TypeCorrect, PTL DEF Spec

-----------------------------------------------------------------------------
(* The refinement.  StatusOf and Said are what the promise sees of a call.  *)

StatusOf(c) ==
    IF Running /\ cur = c THEN "running"
    ELSE IF Own(c) THEN "answered"
    ELSE IF c \in answered /\ ~HasResult(c) THEN "denied"
    ELSE IF Emitted(c) THEN "open" ELSE "absent"

Said(c) == IF ~Confirmed(c) THEN "none"
           ELSE IF Logged(Confirmation(c, "allow")) THEN "allow" ELSE "refuse"

Same(c) == StatusOf(c)' = StatusOf(c) /\ Said(c)' = Said(c)

\* What the promise lets become of one call in one step.
Moves(c) ==
    \/ StatusOf(c) = "absent" /\ StatusOf(c)' = "open" /\ Said(c)' = Said(c)
    \/ /\ Gated(c) /\ StatusOf(c) = "open" /\ StatusOf(c)' = "open"
       /\ Said(c) = "none" /\ Said(c)' \in {"allow", "refuse"}
    \/ /\ StatusOf(c) = "open" /\ StatusOf(c)' = "running" /\ Said(c)' = Said(c)
       /\ \A d \in Call : StatusOf(d) # "running"
       /\ Permission[c] # "deny" /\ (Gated(c) => Said(c) = "allow")
    \/ /\ StatusOf(c) = "running" /\ StatusOf(c)' \in {"answered", "open"}
       /\ Said(c)' = Said(c)
    \/ /\ StatusOf(c) = "open" /\ StatusOf(c)' = "denied" /\ Said(c)' = Said(c)
       /\ Permission[c] = "deny" \/ Said(c) = "refuse"

LEMMA StatusBar == Promise!vars = <<[c \in Call |-> StatusOf(c)], [c \in Call |-> Said(c)]>>
BY DEF Promise!vars, StatusOf, Said, Own

LEMMA AbstractStutter == ASSUME \A c \in Call : Same(c) PROVE UNCHANGED Promise!vars
<1>1. /\ [c \in Call |-> StatusOf(c)'] = [c \in Call |-> StatusOf(c)]
      /\ [c \in Call |-> Said(c)'] = [c \in Call |-> Said(c)]
  BY DEF Same
<1>2. Promise!vars' = <<[c \in Call |-> StatusOf(c)'], [c \in Call |-> Said(c)']>>
  BY DEF Promise!vars, StatusOf, Said, Own
<1> QED BY <1>1, <1>2, StatusBar

LEMMA AbstractStep ==
    ASSUME NEW c \in Call, Moves(c), \A d \in Call \ {c} : Same(d)
    PROVE  Promise!Next
<1> DEFINE st == [d \in Call |-> StatusOf(d)]
           sd == [d \in Call |-> Said(d)]
           stn == [d \in Call |-> StatusOf(d)']
           sdn == [d \in Call |-> Said(d)']
<1>1. stn = [st EXCEPT ![c] = StatusOf(c)'] /\ sdn = [sd EXCEPT ![c] = Said(c)']
  BY DEF Same
<1>2. Said(c)' = Said(c) => sdn = sd
  BY <1>1
<1>3. StatusOf(c)' = StatusOf(c) => stn = st
  BY <1>1
<1>4. /\ st[c] = StatusOf(c) /\ sd[c] = Said(c)
      /\ \A d \in Call : st[d] = StatusOf(d)
  OBVIOUS
<1> HIDE DEF st, sd, stn, sdn
<1>5. \/ st[c] = "absent" /\ stn = [st EXCEPT ![c] = "open"] /\ sdn = sd
      \/ /\ Gated(c) /\ sd[c] = "none" /\ st[c] = "open" /\ stn = st
         /\ \E v \in {"allow", "refuse"} : sdn = [sd EXCEPT ![c] = v]
      \/ /\ \A d \in Call : st[d] # "running"
         /\ Permission[c] # "deny" /\ (Gated(c) => sd[c] = "allow")
         /\ st[c] = "open" /\ stn = [st EXCEPT ![c] = "running"] /\ sdn = sd
      \/ /\ st[c] = "running" /\ sdn = sd
         /\ stn = [st EXCEPT ![c] = "answered"] \/ stn = [st EXCEPT ![c] = "open"]
      \/ /\ Permission[c] = "deny" \/ sd[c] = "refuse"
         /\ st[c] = "open" /\ stn = [st EXCEPT ![c] = "denied"] /\ sdn = sd
  BY <1>1, <1>2, <1>3, <1>4 DEF Moves
<1> QED
  BY <1>5 DEF st, sd, stn, sdn, StatusOf, Said, Own, Promise!Next, Promise!Emit, Promise!Decide,
     Promise!Start, Promise!Finish, Promise!Deny, Promise!Become, Promise!MayRun

\* A step that leaves the log alone, starts and ends nothing, and learns of
\* results only.
LEMMA QuietMaps ==
    ASSUME log' = log, Running' <=> Running, Running => cur' = cur,
           answered \subseteq answered', \A c \in answered' : c \in answered \/ HasResult(c)
    PROVE  UNCHANGED Promise!vars
<1>1. ASSUME NEW c \in Call PROVE Same(c)
  BY SameLog DEF Same, StatusOf, Said
<1> QED BY <1>1, AbstractStutter

LEMMA SessionMaps ==
    ASSUME TypeOK, GateInv, CallsInv, Session
    PROVE  Promise!Next \/ UNCHANGED Promise!vars
<1>1. PICK e : /\ Emit(e)
               /\ \/ \E c \in Call : e = ToolUse(c) /\ ~Emitted(c)
                  \/ \E c \in Call : /\ e = ToolResult(c, "other_client")
                                     /\ Emitted(c) /\ ~HasResult(c) /\ ~Refused(c)
                  \/ \E c \in Call, v \in Verdicts :
                       /\ e = Confirmation(c, v)
                       /\ Emitted(c) /\ Gated(c) /\ ~Confirmed(c) /\ ~HasResult(c)
                  \/ \E stop \in Stops : e = Idle(stop)
                  \/ e = TerminatedEvent
  BY CallAssumption DEF Session, EmitToolUse, AnswerElsewhere, EmitConfirmation, EmitIdle,
                        Terminate
<1>2. log' = Append(log, e) /\ UNCHANGED <<phase, cur, answered>>
  BY <1>1 DEF Emit, exec, calls
<1>3. (\A ev : Logged(ev)' <=> Logged(ev) \/ ev = e) /\ (Running' <=> Running)
  BY <1>2, AppendFacts DEF Running
<1>4. ASSUME NEW c \in Call, e = ToolUse(c), ~Emitted(c)
      PROVE  Promise!Next
  <2>1. e.type = "tool_use" /\ e.id = c
    BY <1>4, EventFields
  <2>2. /\ \A d, by : e # ToolResult(d, by)
        /\ \A d, v : e # Confirmation(d, v)
        /\ \A d : e = ToolUse(d) => d = c
    BY <2>1, EventFields
  <2>3. \A d : /\ Own(d)' <=> Own(d)
               /\ HasResult(d)' <=> HasResult(d)
               /\ Confirmed(d)' <=> Confirmed(d)
               /\ Logged(Confirmation(d, "allow"))' <=> Logged(Confirmation(d, "allow"))
               /\ Emitted(d)' <=> Emitted(d) \/ d = c
    BY <1>3, <1>4, <2>2 DEF Own, HasResult, Confirmed, Emitted
  <2>4. ~Own(c) /\ c \notin answered /\ ~(Running /\ cur = c)
    BY <1>4 DEF CallsInv, KnownInv, Touched
  <2>5. Moves(c)
    BY <1>2, <1>3, <1>4, <2>3, <2>4 DEF Moves, StatusOf, Said
  <2>6. \A d \in Call \ {c} : Same(d)
    BY <1>2, <1>3, <2>3 DEF Same, StatusOf, Said
  <2> QED BY <2>5, <2>6, AbstractStep
<1>5. ASSUME NEW c \in Call, e = ToolResult(c, "other_client"),
             Emitted(c), ~HasResult(c), ~Refused(c)
      PROVE  UNCHANGED Promise!vars
  <2>1. e.type = "tool_result" /\ e.id = c /\ e.arg = "other_client"
    BY <1>5, EventFields
  <2>2. /\ \A d : e # ToolUse(d) /\ e # ToolResult(d, "runner")
        /\ \A d, v : e # Confirmation(d, v)
        /\ \A d, by : e = ToolResult(d, by) => d = c
    BY <2>1, EventFields
  <2>3. \A d : /\ Own(d)' <=> Own(d)
               /\ d # c => (HasResult(d)' <=> HasResult(d))
               /\ Confirmed(d)' <=> Confirmed(d)
               /\ Logged(Confirmation(d, "allow"))' <=> Logged(Confirmation(d, "allow"))
               /\ Emitted(d)' <=> Emitted(d)
    BY <1>3, <2>2 DEF Own, HasResult, Confirmed, Emitted
  <2>4. c \notin answered
    BY <1>5 DEF CallsInv, KnownInv
  <2>5. \A d \in Call : Same(d)
    BY <1>2, <1>3, <2>3, <2>4 DEF Same, StatusOf, Said
  <2> QED BY <2>5, AbstractStutter
<1>6. ASSUME NEW c \in Call, NEW v \in Verdicts, e = Confirmation(c, v),
             Emitted(c), Gated(c), ~Confirmed(c), ~HasResult(c)
      PROVE  Promise!Next
  <2>1. e.type = "tool_confirmation" /\ e.id = c
    BY <1>6, EventFields
  <2>2. /\ \A d : e # ToolUse(d)
        /\ \A d, by : e # ToolResult(d, by)
        /\ \A d, w : e = Confirmation(d, w) => d = c
    BY <2>1, EventFields
  <2>3. \A d : /\ Own(d)' <=> Own(d)
               /\ HasResult(d)' <=> HasResult(d)
               /\ d # c => (Confirmed(d)' <=> Confirmed(d))
               /\ d # c => (Logged(Confirmation(d, "allow"))' <=> Logged(Confirmation(d, "allow")))
               /\ Emitted(d)' <=> Emitted(d)
    BY <1>3, <2>2 DEF Own, HasResult, Confirmed, Emitted
  <2>4. Confirmed(c)'
    BY <1>3, <1>6 DEF Confirmed
  <2>5. ~Own(c) /\ ~(Running /\ cur = c) /\ c \notin answered
    <3>1. ~Own(c)
      BY <1>6 DEF HasResult, Own, Clients
    <3>2. Running => cur # c
      BY <1>6 DEF GateInv, MayExecute, Confirmed, Verdicts
    <3>3. ~Refused(c)
      BY <1>6 DEF Refused, Confirmed, Gated
    <3> QED BY <1>6, <3>1, <3>2, <3>3 DEF CallsInv, KnownInv
  <2>6. Moves(c)
    BY <1>2, <1>3, <1>6, <2>3, <2>4, <2>5 DEF Moves, StatusOf, Said
  <2>7. \A d \in Call \ {c} : Same(d)
    BY <1>2, <1>3, <2>3 DEF Same, StatusOf, Said
  <2> QED BY <2>6, <2>7, AbstractStep
<1>7. ASSUME (\E stop \in Stops : e = Idle(stop)) \/ e = TerminatedEvent
      PROVE  UNCHANGED Promise!vars
  <2>1. e.type \in {"status_idle", "status_terminated"}
    BY <1>7, EventFields
  <2>2. /\ \A d : e # ToolUse(d)
        /\ \A d, by : e # ToolResult(d, by)
        /\ \A d, v : e # Confirmation(d, v)
    BY <2>1, EventFields
  <2>3. \A d : /\ Own(d)' <=> Own(d)
               /\ HasResult(d)' <=> HasResult(d)
               /\ Confirmed(d)' <=> Confirmed(d)
               /\ Logged(Confirmation(d, "allow"))' <=> Logged(Confirmation(d, "allow"))
               /\ Emitted(d)' <=> Emitted(d)
    BY <1>3, <2>2 DEF Own, HasResult, Confirmed, Emitted
  <2>4. \A d \in Call : Same(d)
    BY <1>2, <1>3, <2>3 DEF Same, StatusOf, Said
  <2> QED BY <2>4, AbstractStutter
<1> QED BY <1>1, <1>4, <1>5, <1>6, <1>7
LEMMA DisposeMaps ==
    ASSUME TypeOK, CallsInv, NEW c \in Call, Outcome(c), log' = log,
           phase \in {"route", "stream"}, Emitted(c), ~Own(c)
    PROVE  Promise!Next \/ UNCHANGED Promise!vars
<1>1. ~Running
  BY DEF Running
<1>2. \A d \in Call : Said(d)' = Said(d)
  BY SameLog DEF Said
<1>3. CASE Moot
  BY <1>1, <1>3, QuietMaps DEF Moot, Running
<1>4. CASE Starts(c)
  <2>1. Running' /\ cur' = c /\ answered' = answered
    BY <1>4 DEF Starts, Running
  <2>2. \A d \in Call : StatusOf(d) # "running"
    BY <1>1 DEF StatusOf
  <2>3. StatusOf(c) = "open" /\ StatusOf(c)' = "running"
    BY <1>1, <1>4, <2>1 DEF Starts, StatusOf
  <2>4. Permission[c] # "deny" /\ (Gated(c) => Said(c) = "allow")
    BY <1>4 DEF Starts, MayExecute, Said, Confirmed, Verdicts
  <2>5. Moves(c)
    BY <1>2, <2>2, <2>3, <2>4 DEF Moves
  <2>6. \A d \in Call \ {c} : Same(d)
    BY <1>1, <1>2, <2>1, SameLog DEF Same, StatusOf
  <2> QED BY <2>5, <2>6, AbstractStep
<1>5. CASE Denies(c)
  <2>1. ~Running' /\ answered' = answered \union {c}
    BY <1>1, <1>5 DEF Denies, Running
  <2>2. CASE c \in answered \/ HasResult(c)
    BY <1>1, <2>1, <2>2, QuietMaps
  <2>3. CASE c \notin answered /\ ~HasResult(c)
    <3>1. StatusOf(c) = "open" /\ StatusOf(c)' = "denied"
      BY <1>1, <2>1, <2>3, SameLog DEF StatusOf
    <3>2. Permission[c] = "deny" \/ Said(c) = "refuse"
      <4>1. ASSUME NEW v \in Verdicts \ {"allow"}, Logged(Confirmation(c, v))
            PROVE  Said(c) = "refuse"
        BY <4>1 DEF CallsInv, LogInv, Said, Confirmed, Verdicts
      <4> QED BY <1>5, <4>1 DEF Denies
    <3>3. Moves(c)
      BY <1>2, <3>1, <3>2 DEF Moves
    <3>4. \A d \in Call \ {c} : Same(d)
      BY <1>1, <1>2, <2>1, SameLog DEF Same, StatusOf
    <3> QED BY <3>3, <3>4, AbstractStep
  <2> QED BY <2>2, <2>3
<1> QED BY <1>3, <1>4, <1>5 DEF Outcome

\* A result that lands without the runner's knowing changes nothing yet; at
\* the end of the execution the call is answered or open again.
LEMMA SendMaps ==
    ASSUME TypeOK, CallsInv, Running, Land \/ log' = log,
           \/ Running' /\ cur' = cur /\ answered' = answered
           \/ ~Running',
           answered' = answered \/ (answered' = answered \union {cur} /\ Land)
    PROVE  Promise!Next \/ UNCHANGED Promise!vars
<1>1. cur \in Call
  BY LandFacts
<1>2. \A d \in Call : Said(d)' = Said(d)
  BY LandFacts DEF Said
<1>3. \A d \in Call \ {cur} : Same(d)
  BY <1>2, LandFacts DEF Same, StatusOf
<1>4. CASE Running' /\ cur' = cur
  <2>1. \A d \in Call : d = cur => StatusOf(d) = "running" /\ StatusOf(d)' = "running"
    BY <1>4 DEF StatusOf
  <2>2. \A d \in Call : Same(d)
    BY <1>2, <1>3, <2>1 DEF Same
  <2> QED BY <2>2, AbstractStutter
<1>5. CASE ~Running'
  <2>1. ASSUME NEW d \in Call, d = cur PROVE Moves(d)
    <3>1. StatusOf(d) = "running"
      BY <2>1 DEF StatusOf
    <3>2. Emitted(d)'
      BY <2>1, LandFacts DEF CallsInv, KnownInv, Touched
    <3>3. d \in answered' => HasResult(d)'
      BY <2>1, LandFacts DEF CallsInv, TurnInv
    <3>4. StatusOf(d)' \in {"answered", "open"}
      BY <1>5, <3>2, <3>3 DEF StatusOf
    <3> QED BY <1>2, <3>1, <3>4 DEF Moves
  <2> QED BY <1>1, <1>3, <2>1, AbstractStep
<1> QED BY <1>4, <1>5

LEMMA PromiseStep ==
    ASSUME TypeOK, GateInv, CallsInv, [Next]_vars
    PROVE  Promise!Next \/ UNCHANGED Promise!vars
<1>1. CASE ToolReturns \/ SendSucceeds \/ SendResponseLost \/ SendGivesUp
  <2>1. Running
    BY <1>1 DEF ToolReturns, SendSucceeds, SendResponseLost, SendGivesUp, Running
  <2>2. CASE ToolReturns \/ SendResponseLost
    <3>1. Running' /\ cur' = cur /\ answered' = answered /\ (Land \/ log' = log)
      BY <2>2 DEF ToolReturns, SendResponseLost, Running, calls, exec, session
    <3> QED BY <2>1, <3>1, SendMaps
  <2>3. CASE SendSucceeds \/ SendGivesUp
    <3>1. /\ ~Running' /\ (Land \/ log' = log)
          /\ answered' = answered \/ (answered' = answered \union {cur} /\ Land)
      BY <2>3 DEF SendSucceeds, SendGivesUp, Executed, Running, calls, session, TypeOK
    <3> QED BY <2>1, <3>1, SendMaps
  <2> QED BY <1>1, <2>2, <2>3
<1>2. CASE Unwind
  <2>1. log' = log /\ answered' = answered /\ ~Running'
    BY <1>2 DEF Unwind, Running, session, calls
  <2>2. CASE Running
    BY <2>1, <2>2, SendMaps
  <2>3. CASE ~Running
    BY <2>1, <2>3, QuietMaps
  <2> QED BY <2>2, <2>3
<1>3. CASE \/ Attach \/ AttachFails \/ AttachRefused \/ Disconnect \/ Reconnect \/ Settle
           \/ \E stop \in Stops : HandleIdle(stop)
           \/ HandleTerminated
  <2>1. log' = log /\ answered' = answered /\ ~Running /\ ~Running'
    BY <1>3 DEF Attach, AttachFails, AttachRefused, Disconnect, Reconnect, Settle, HandleIdle,
                HandleTerminated, Deliver, Running, session, calls
  <2> QED BY <2>1, QuietMaps
<1>4. CASE \/ \E skip \in 0..MaxSkip : ListHistory(skip)
           \/ \E skip \in 0..MaxSkip, n \in 0..Len(log) : ListFails(skip, n)
  <2>1. PICK S \in SUBSET (DOMAIN log) :
          log' = log /\ answered' = AnsweredIn(S) /\ ~Running /\ ~Running'
    <3>1. CASE \E skip \in 0..MaxSkip : ListHistory(skip)
      BY <3>1 DEF ListHistory, Running, session
    <3>2. CASE \E skip \in 0..MaxSkip, n \in 0..Len(log) : ListFails(skip, n)
      BY <3>2 DEF ListFails, Running, session
    <3> QED BY <1>4, <3>1, <3>2
  <2>2. /\ answered \subseteq answered'
        /\ \A c \in answered' : c \in answered \/ HasResult(c)
    BY <2>1, ListingLearns DEF AnsweredIn
  <2> QED BY <2>1, <2>2, QuietMaps
<1>5. ASSUME NEW c \in Call,
             \/ Route(c) \/ ReleaseHeld(c)
             \/ HandleToolUse(c) /\ c \notin seen
             \/ \E v \in Verdicts : HandleConfirmation(c, v) /\ c \in held
      PROVE  Promise!Next \/ UNCHANGED Promise!vars
  BY <1>5, Disposals, DisposeMaps
<1>6. ASSUME NEW c \in Call,
             \/ HandleToolUse(c) /\ c \in seen
             \/ \E v \in Verdicts : HandleConfirmation(c, v) /\ c \notin held
             \/ \E by \in Clients : HandleResult(c, by)
      PROVE  UNCHANGED Promise!vars
  <2>1. /\ log' = log /\ ~Running /\ ~Running'
        /\ answered' = answered \/ (answered' = answered \union {c} /\ HasResult(c))
    BY <1>6 DEF HandleToolUse, HandleConfirmation, HandleResult, Deliver, Running, session,
                HasResult, Logged
  <2> QED BY <2>1, QuietMaps
<1>7. CASE Consumer \/ IdleExpires \/ Abort \/ UNCHANGED vars
  <2>1. UNCHANGED <<log, phase, cur, answered>>
    BY <1>7 DEF Consumer, TakeResult, AskNext, QueueAborted, LoopSettled, Drained, Break,
                Teardown, Close, IdleExpires, Abort, vars, session, exec, calls
  <2> QED BY <2>1, QuietMaps DEF Running
<1> QED BY <1>1, <1>2, <1>3, <1>4, <1>5, <1>6, <1>7, SessionMaps
        DEF Next, StreamLoop, Handle, Reconcile

\* The runner keeps the promise of GatedDispatch: one call runs at a time, only
\* if it may and only while it has no result of this runner in the session, and
\* a call it takes for denied never runs again, whatever fails, is lost or is
\* listed again (#execute, #applyVerdict, #routeToolEvent, #reconcile).
THEOREM RunnerKeepsPromise == Spec => KeepsPromise
<1>1. Init => Promise!Init
  <2> SUFFICES ASSUME Init PROVE Promise!Init
    OBVIOUS
  <2>1. \A ev : ~Logged(ev)
    BY DEF Init, Logged
  <2>2. \A c \in Call : StatusOf(c) = "absent" /\ Said(c) = "none"
    BY <2>1 DEF Init, StatusOf, Said, Own, Running, Emitted, Confirmed
  <2> QED BY <2>2 DEF Promise!Init, StatusOf, Said, Own
<1>2. TypeOK /\ GateInv /\ CallsInv /\ [Next]_vars => [Promise!Next]_(Promise!vars)
  BY PromiseStep
<1> QED BY <1>1, <1>2, CallsInvHolds, PTL DEF KeepsPromise, Promise!Spec, Spec
-----------------------------------------------------------------------------
(* No call that has been seen is skipped.                                   *)

LEMMA StoppedStays ==
    ASSUME phase = "stopped", [Next]_vars
    PROVE  phase' = "stopped" /\ (queue' = queue \/ TakeResult)
<1>1. CASE Session
  BY <1>1 DEF Session, EmitToolUse, AnswerElsewhere, EmitConfirmation, EmitIdle, Terminate, Emit
<1>2. CASE StreamLoop
  BY <1>2 DEF StreamLoop, Attach, AttachFails, AttachRefused, Disconnect, Reconnect, Unwind,
              AbortPoints, Reconcile, ListHistory, Route, ReleaseHeld, Settle, ListFails, Handle,
              HandleToolUse, HandleConfirmation, HandleResult, HandleIdle, HandleTerminated,
              Deliver, ToolReturns, SendSucceeds, SendResponseLost, SendGivesUp
<1>3. CASE IdleExpires \/ Abort \/ Consumer \/ UNCHANGED vars
  BY <1>3 DEF IdleExpires, Abort, Consumer, TakeResult, AskNext, QueueAborted, LoopSettled,
              Drained, Break, Teardown, Close, vars
<1> QED BY <1>1, <1>2, <1>3 DEF Next

\* Every disposal counts the call as dispatched and forgets nothing.
LEMMA DisposalDispatches ==
    ASSUME NEW c \in Call, NEW k,
           RouteToolEvent(c, k) \/ \E v : ApplyVerdict(c, v, k)
    PROVE  /\ dispatched' = dispatched \union {c}
           /\ answered \subseteq answered'
BY DEF RouteToolEvent, ApplyVerdict, Execute, Done

LEMMA SeenStep ==
    ASSUME TypeOK, CallsInv, SeenMeansDispatched, [Next]_vars
    PROVE  SeenMeansDispatched'
<1>1. CASE phase' = "stopped"
  BY <1>1 DEF SeenMeansDispatched
<1>2. ASSUME UNCHANGED <<seen, todo, dispatched>>, answered \subseteq answered'
      PROVE  SeenMeansDispatched'
  BY <1>2, StoppedStays DEF SeenMeansDispatched
<1>3. CASE Session \/ IdleExpires \/ Abort \/ Consumer \/ UNCHANGED vars
  BY <1>2, <1>3
     DEF Session, EmitToolUse, AnswerElsewhere, EmitConfirmation, EmitIdle, Terminate, Emit,
         IdleExpires, Abort, Consumer, TakeResult, AskNext, QueueAborted, LoopSettled, Drained,
         Break, Teardown, Close, vars, calls, listing
<1>4. CASE \/ Attach \/ AttachFails \/ AttachRefused \/ Disconnect \/ Reconnect \/ Settle
           \/ ToolReturns \/ SendSucceeds \/ SendResponseLost \/ SendGivesUp
  BY <1>2, <1>4
     DEF Attach, AttachFails, AttachRefused, Disconnect, Reconnect, Settle, ToolReturns,
         SendSucceeds, SendResponseLost, SendGivesUp, calls, listing
<1>5. CASE Unwind
  BY <1>1, <1>5 DEF Unwind
<1>6. ASSUME NEW skip \in 0..MaxSkip, ListHistory(skip)
      PROVE  SeenMeansDispatched'
  <2> DEFINE S == {i \in DOMAIN log : i > skip}
  <2>1. /\ phase = "list" /\ dispatched' = dispatched
        /\ seen' = seen \union Ids(S, "tool_use") /\ answered' = AnsweredIn(S)
        /\ todo' = Unanswered(S)
    BY <1>6 DEF ListHistory
  <2> HIDE DEF S
  <2>2. todo = {}
    BY <2>1 DEF CallsInv, TurnInv, Running
  <2> QED BY <2>1, <2>2 DEF SeenMeansDispatched, Unanswered, AnsweredIn
<1>7. ASSUME NEW skip \in 0..MaxSkip, NEW n \in 0..Len(log), ListFails(skip, n)
      PROVE  SeenMeansDispatched'
  <2> DEFINE S == {i \in DOMAIN log : i > skip /\ i <= n}
  <2>1. /\ phase = "list" /\ dispatched' = dispatched /\ todo' = todo
        /\ seen' = SeenAfterFailure(S) /\ answered' = AnsweredIn(S)
    BY <1>7 DEF ListFails, listing
  <2> HIDE DEF S
  <2> QED BY <2>1 DEF SeenMeansDispatched, SeenAfterFailure, AnsweredIn
<1>8. ASSUME NEW c \in Call,
             \/ Route(c) \/ ReleaseHeld(c)
             \/ HandleToolUse(c) /\ c \notin seen
             \/ \E v \in Verdicts : HandleConfirmation(c, v) /\ c \in held
      PROVE  SeenMeansDispatched'
  <2>1. /\ \E k : RouteToolEvent(c, k) \/ \E v : ApplyVerdict(c, v, k)
        /\ phase # "stopped" /\ seen' \subseteq seen \union {c} /\ todo \subseteq todo' \union {c}
    BY <1>8 DEF Route, ReleaseHeld, HandleToolUse, HandleConfirmation, Deliver, listing
  <2> QED BY <2>1, DisposalDispatches DEF SeenMeansDispatched
<1>9. ASSUME NEW c \in Call,
             \/ HandleToolUse(c) /\ c \in seen
             \/ \E v \in Verdicts : HandleConfirmation(c, v) /\ c \notin held
             \/ \E by \in Clients : HandleResult(c, by)
      PROVE  SeenMeansDispatched'
  BY <1>2, <1>9 DEF HandleToolUse, HandleConfirmation, HandleResult, listing
<1>10. CASE (\E stop \in Stops : HandleIdle(stop)) \/ HandleTerminated
  BY <1>1, <1>2, <1>10 DEF HandleIdle, HandleTerminated, calls, listing
<1> QED BY <1>3, <1>4, <1>5, <1>6, <1>7, <1>8, <1>9, <1>10
        DEF Next, StreamLoop, Handle, Reconcile

\* A failed listing never makes the live stream skip a call: while the loop runs,
\* every call in #seen has been dispatched, is about to be routed or is known to be
\* answered (the catch block of #reconcile takes back what it had marked).
THEOREM SeenIsDispatched == Spec => []SeenMeansDispatched
<1>1. Init => SeenMeansDispatched
  BY DEF Init, SeenMeansDispatched
<1>2. TypeOK /\ CallsInv /\ SeenMeansDispatched /\ [Next]_vars => SeenMeansDispatched'
  BY SeenStep
<1> QED BY <1>1, <1>2, CallsInvHolds, PTL DEF Spec

-----------------------------------------------------------------------------
(* What a run surfaces is yielded.                                          *)

\* The queue is drained, and the iterator closed, behind the end of the loop.
YieldInv ==
    /\ iter \in {"draining", "yielded_last"} => phase = "stopped"
    /\ iter \in {"closing", "done"} /\ ~broke => phase = "stopped" /\ queue = 0

LEMMA YieldStep == ASSUME YieldInv, [Next]_vars PROVE YieldInv'
<1>1. CASE Consumer
  BY <1>1, StoppedStays
     DEF YieldInv, Consumer, TakeResult, AskNext, QueueAborted, LoopSettled, Drained, Break,
         Teardown, Close
<1>2. CASE ~Consumer
  <2>1. UNCHANGED <<iter, broke>>
    <3>1. CASE Session
      BY <3>1 DEF Session, EmitToolUse, AnswerElsewhere, EmitConfirmation, EmitIdle, Terminate,
                  Emit, consumer
    <3>2. CASE StreamLoop
      BY <3>2 DEF StreamLoop, Attach, AttachFails, AttachRefused, Disconnect, Reconnect, Unwind,
                  Reconcile, ListHistory, Route, ReleaseHeld, Settle, ListFails, Handle,
                  HandleToolUse, HandleConfirmation, HandleResult, HandleIdle, HandleTerminated,
                  ToolReturns, SendSucceeds, SendResponseLost, SendGivesUp, consumer
    <3>3. CASE IdleExpires \/ Abort \/ UNCHANGED vars
      BY <3>3 DEF IdleExpires, Abort, vars, consumer
    <3> QED BY <1>2, <3>1, <3>2, <3>3 DEF Next
  <2>2. phase = "stopped" => phase' = "stopped" /\ queue' = queue
    BY <1>2, StoppedStays DEF Consumer
  <2> QED BY <2>1, <2>2 DEF YieldInv
<1> QED BY <1>1, <1>2

\* Results pushed between the abort and the end of the stream loop reach the
\* consumer: the iterator closes over an empty queue unless the consumer broke
\* off (the two phases of the async iterator and its finally block).
THEOREM SurfacedResultsAreYielded == Spec => []SurfacedIsYielded
<1>1. Init => YieldInv
  BY DEF Init, YieldInv
<1>2. YieldInv => SurfacedIsYielded
  BY DEF YieldInv, SurfacedIsYielded
<1> QED BY <1>1, <1>2, YieldStep, PTL DEF Spec
=============================================================================
