--------------------------- MODULE TokenCacheProofs ---------------------------
(***************************************************************************)
(* TokenCache, for any requests, any number of calls and of revocations:    *)
(* no refresh that is over is joined or awaited, and without revocations    *)
(* one call of the provider serves all.                                     *)
(***************************************************************************)
EXTENDS TokenCache, TLAPS

\* What is read, issued or sent is a token, and none is of a later epoch.
TokenInv ==
    /\ cached <= epoch /\ disk <= epoch
    /\ \A c \in Call : result[c] <= epoch
    /\ \A r \in Request : token[r] <= epoch
    /\ \A c \in Call : call[c] \in {"read", "issued"} => result[c] # NoToken
    /\ \A r \in Request : pc[r] = "sent" => token[r] # NoToken

\* Before the first revocation nothing is refused, so nothing is forced: the
\* call in flight is pending.
QuietInv ==
    epoch = 0 => /\ nextForce = FALSE
                 /\ \A c \in Call : InFlight(c) => pending = c

\* A retry that is waited for is left.
RetryInv == \A r \in Request : pc[r] = "backoff" => retries[r] > 0

IInv == TypeOK /\ PendingIsLive /\ TokenInv /\ QuietInv /\ RetryInv

-----------------------------------------------------------------------------
(* The operations, one at a time.                                           *)

LEMMA NoTokenType == NoToken \in NoToken..MaxEpoch
BY BoundAssumption DEF NoToken

LEMMA DoRefreshType ==
    ASSUME TypeOK, NEW c \in Call, NEW force \in BOOLEAN, NEW quietly \in BOOLEAN,
           DoRefresh(c, force, quietly)
    PROVE  /\ (call \in [Call -> {"free", "begun", "read", "issued"}])'
           /\ (forced \in [Call -> BOOLEAN])' /\ (advisory \in [Call -> BOOLEAN])'
           /\ (result \in [Call -> NoToken..MaxEpoch])'
           /\ (pending \in Call \union {NoCall})'
BY NoTokenType DEF TypeOK, DoRefresh

LEMMA GetTokenStep ==
    ASSUME IInv, NEW r \in Request, GetToken(r),
           refreshed' \in [Request -> BOOLEAN], retries' \in [Request -> 0..MaxRetries],
           \A q \in Request \ {r} : retries'[q] = retries[q]
    PROVE  IInv'
<1> USE CallAssumption, LifeAssumption, BoundAssumption
<1> USE DEF IInv, TypeOK, InFlight, NoToken
<1>1. ASSUME Sent(r, cached), cached # NoToken,
             UNCHANGED <<calls, pending>>
      PROVE  IInv'
  <2>1. TypeOK'
    BY <1>1 DEF GetToken, Sent, calls
  <2>2. PendingIsLive'
    BY <1>1 DEF Sent, calls, PendingIsLive
  <2>3. TokenInv' /\ RetryInv'
    BY <1>1 DEF GetToken, Sent, calls, TokenInv, RetryInv
  <2>4. QuietInv'
    BY <1>1 DEF GetToken, calls, QuietInv
  <2> QED BY <2>1, <2>2, <2>3, <2>4
<1>2. ASSUME NEW c \in Call, Sent(r, cached), cached # NoToken,
             pending = NoCall, DoRefresh(c, FALSE, TRUE)
      PROVE  IInv'
  <2>1. TypeOK'
    <3>1. /\ (call \in [Call -> {"free", "begun", "read", "issued"}])'
          /\ (forced \in [Call -> BOOLEAN])' /\ (advisory \in [Call -> BOOLEAN])'
          /\ (result \in [Call -> NoToken..MaxEpoch])'
          /\ (pending \in Call \union {NoCall})'
      BY <1>2, DoRefreshType
    <3>2. /\ pc' \in [Request -> {"idle", "waiting", "sent", "backoff", "done", "failed"}]
          /\ token' \in [Request -> NoToken..MaxEpoch]
          /\ awaited' \in [Request -> Call \union {NoCall}]
      BY <1>2 DEF Sent
    <3>3. nextForce' = FALSE /\ UNCHANGED <<cached, life, cooling, disk, epoch>>
      BY DEF GetToken
    <3> QED BY <3>1, <3>2, <3>3
  <2>2. PendingIsLive'
    BY <1>2 DEF Sent, DoRefresh, PendingIsLive
  <2>3. TokenInv' /\ RetryInv'
    BY <1>2 DEF GetToken, Sent, DoRefresh, TokenInv, RetryInv
  <2>4. QuietInv'
    BY <1>2 DEF GetToken, DoRefresh, QuietInv
  <2> QED BY <2>1, <2>2, <2>3, <2>4
<1>3. ASSUME Waits(r, pending), pending # NoCall, UNCHANGED <<calls, pending>>
      PROVE  IInv'
  <2>1. TypeOK'
    BY <1>3 DEF GetToken, Waits, calls
  <2>2. PendingIsLive'
    BY <1>3 DEF Waits, calls, PendingIsLive
  <2>3. TokenInv' /\ RetryInv'
    BY <1>3 DEF GetToken, Waits, calls, TokenInv, RetryInv
  <2>4. QuietInv'
    BY <1>3 DEF GetToken, calls, QuietInv
  <2> QED BY <2>1, <2>2, <2>3, <2>4
<1>4. ASSUME NEW c \in Call, pending = NoCall \/ TakesForce,
             DoRefresh(c, TakesForce, FALSE), Waits(r, c)
      PROVE  IInv'
  <2>1. TypeOK'
    <3>1. TakesForce \in BOOLEAN
      BY DEF TakesForce
    <3>2. /\ (call \in [Call -> {"free", "begun", "read", "issued"}])'
          /\ (forced \in [Call -> BOOLEAN])' /\ (advisory \in [Call -> BOOLEAN])'
          /\ (result \in [Call -> NoToken..MaxEpoch])'
          /\ (pending \in Call \union {NoCall})'
      BY <1>4, <3>1, DoRefreshType
    <3>3. /\ pc' \in [Request -> {"idle", "waiting", "sent", "backoff", "done", "failed"}]
          /\ awaited' \in [Request -> Call \union {NoCall}] /\ token' = token
      BY <1>4 DEF Waits
    <3>4. nextForce' = FALSE /\ UNCHANGED <<cached, life, cooling, disk, epoch>>
      BY DEF GetToken
    <3> QED BY <3>2, <3>3, <3>4
  <2>2. PendingIsLive'
    BY <1>4 DEF Waits, DoRefresh, PendingIsLive
  <2>3. TokenInv' /\ RetryInv'
    BY <1>4 DEF GetToken, Waits, DoRefresh, TokenInv, RetryInv
  <2>4. QuietInv'
    <3>1. epoch = 0 => pending = NoCall
      BY <1>4 DEF TakesForce, QuietInv
    <3>2. nextForce' = FALSE /\ pending' = c /\ call' = [call EXCEPT ![c] = "begun"]
      BY <1>4 DEF GetToken, DoRefresh
    <3>3. epoch' = epoch
      BY DEF GetToken
    <3> QED BY <3>1, <3>2, <3>3 DEF QuietInv
  <2> QED BY <2>1, <2>2, <2>3, <2>4
<1>5. CASE Serve(r)
  BY <1>1, <1>2, <1>5 DEF Serve, Usable, MayRefreshQuietly
<1>6. CASE Refresh(r)
  BY <1>3, <1>4, <1>6 DEF Refresh
<1>7. Serve(r) \/ Refresh(r)
  BY DEF GetToken
<1> QED BY <1>5, <1>6, <1>7

LEMMA ProviderStep ==
    ASSUME IInv, NEW c \in Call, Provider(c)
    PROVE  IInv'
<1> USE CallAssumption, LifeAssumption, BoundAssumption
<1> USE DEF IInv, TypeOK, InFlight, NoToken
<1>1. CASE ReadFile(c) \/ Exchange(c)
  BY <1>1 DEF ReadFile, Exchange, Result, cache, requests,
              PendingIsLive, TokenInv, QuietInv, RetryInv
<1>2. CASE Settle(c)
  <2>1. TypeOK'
    BY <1>2 DEF Settle, Wake, Awaiting, Over, TokenInv
  <2>2. PendingIsLive'
    BY <1>2 DEF Settle, Wake, Awaiting, Over, PendingIsLive
  <2>3. TokenInv' /\ RetryInv'
    BY <1>2 DEF Settle, Wake, Awaiting, Over, TokenInv, RetryInv
  <2>4. QuietInv'
    BY <1>2 DEF Settle, Over, QuietInv
  <2> QED BY <2>1, <2>2, <2>3, <2>4
<1>3. CASE Fail(c)
  <2>1. TypeOK'
    BY <1>3 DEF Fail, PendingAfterFailure, Wake, Awaiting, Over
  <2>2. PendingIsLive'
    BY <1>3 DEF Fail, PendingAfterFailure, Wake, Awaiting, Over, PendingIsLive
  <2>3. TokenInv' /\ RetryInv'
    BY <1>3 DEF Fail, Wake, Awaiting, Over, TokenInv, RetryInv
  <2>4. QuietInv'
    BY <1>3 DEF Fail, PendingAfterFailure, Over, QuietInv
  <2> QED BY <2>1, <2>2, <2>3, <2>4
<1> QED BY <1>1, <1>2, <1>3 DEF Provider

LEMMA AnswerStep ==
    ASSUME IInv, NEW r \in Request, Answer(r)
    PROVE  IInv'
<1> USE CallAssumption, LifeAssumption, BoundAssumption
<1> USE DEF IInv, TypeOK, InFlight, NoToken, cache, calls, RetryInv,
            AgainOrFailed, MayRetry
<1>1. CASE Accepted(r) \/ Disturbed(r)
  BY <1>1 DEF Accepted, Disturbed, PendingIsLive, TokenInv, QuietInv
<1>2. CASE Refused(r)
  <2>1. TypeOK'
    BY <1>2, NoTokenType DEF Refused
  <2>2. PendingIsLive' /\ TokenInv' /\ RetryInv'
    BY <1>2 DEF Refused, PendingIsLive, TokenInv
  <2>3. epoch # 0 /\ epoch' = epoch
    BY <1>2 DEF Refused, TokenInv
  <2> QED BY <2>1, <2>2, <2>3 DEF QuietInv
<1> QED BY <1>1, <1>2 DEF Answer

LEMMA Step == IInv /\ [Next]_vars => IInv'
<1> SUFFICES ASSUME IInv, [Next]_vars PROVE IInv'
  OBVIOUS
<1>1. ASSUME NEW r \in Request, Start(r) PROVE IInv'
  <2>1. /\ refreshed' \in [Request -> BOOLEAN] /\ retries' \in [Request -> 0..MaxRetries]
        /\ \A q \in Request \ {r} : retries'[q] = retries[q]
        /\ GetToken(r)
    BY <1>1, BoundAssumption DEF Start, IInv, TypeOK
  <2> QED BY <2>1, GetTokenStep
<1>2. ASSUME NEW r \in Request, Retry(r) PROVE IInv'
  <2>1. /\ refreshed' \in [Request -> BOOLEAN] /\ retries' \in [Request -> 0..MaxRetries]
        /\ \A q \in Request \ {r} : retries'[q] = retries[q]
        /\ GetToken(r)
    BY <1>2, BoundAssumption DEF Retry, IInv, TypeOK, RetryInv
  <2> QED BY <2>1, GetTokenStep
<1>3. CASE Revoke
  <2> USE BoundAssumption DEF Revoke, cache, calls, requests, IInv, TypeOK, NoToken
  <2>1. TypeOK' /\ PendingIsLive' /\ RetryInv'
    BY <1>3 DEF PendingIsLive, RetryInv, InFlight
  <2>2. TokenInv'
    BY <1>3 DEF TokenInv
  <2>3. QuietInv'
    BY <1>3 DEF QuietInv
  <2> QED BY <2>1, <2>2, <2>3
<1>4. CASE Age \/ Cooled
  <2> USE DEF Age, Cooled, calls, requests, IInv
  <2>1. TypeOK' /\ PendingIsLive' /\ RetryInv'
    BY <1>4 DEF TypeOK, Life, PendingIsLive, RetryInv, InFlight
  <2>2. TokenInv' /\ QuietInv'
    BY <1>4 DEF TypeOK, TokenInv, QuietInv, InFlight
  <2> QED BY <2>1, <2>2
<1>5. CASE UNCHANGED vars
  BY <1>5 DEF vars, IInv, TypeOK, PendingIsLive, TokenInv, QuietInv, RetryInv, InFlight
<1> QED
  BY <1>1, <1>2, <1>3, <1>4, <1>5, ProviderStep, AnswerStep DEF Next

LEMMA Invariants == Spec => []IInv
<1>1. Init => IInv
  <2> SUFFICES ASSUME Init PROVE IInv
    OBVIOUS
  <2>1. result \in [Call -> NoToken..MaxEpoch] /\ token \in [Request -> NoToken..MaxEpoch]
        /\ disk \in 0..MaxEpoch /\ epoch \in 0..MaxEpoch
        /\ retries \in [Request -> 0..MaxRetries] /\ cached \in NoToken..MaxEpoch
    BY NoTokenType, BoundAssumption DEF Init
  <2>2. TypeOK
    BY <2>1 DEF Init, TypeOK, Life
  <2>3. PendingIsLive /\ TokenInv /\ QuietInv /\ RetryInv
    BY DEF Init, NoToken, PendingIsLive, TokenInv, QuietInv, RetryInv, InFlight
  <2> QED BY <2>2, <2>3 DEF IInv
<1>2. IInv /\ [Next]_vars => IInv'
  BY Step
<1> QED BY <1>1, <1>2, PTL DEF Spec

-----------------------------------------------------------------------------
\* Every variable keeps its type; no request is retried more often than
\* maxRetries.
THEOREM TypeCorrect == Spec => []TypeOK
BY Invariants, PTL DEF IInv

\* No getToken joins or awaits a refresh that is over, however many refreshes
\* overlap and whichever of them fail.
THEOREM PendingIsAlive == Spec => []PendingIsLive
BY Invariants, PTL DEF IInv

\* As long as the server revokes nothing, at most one call of the provider is
\* in flight, for any number of requests.
THEOREM OneCall == Spec => []OneCallAtATime
<1>1. IInv => OneCallAtATime
  BY DEF IInv, QuietInv, OneCallAtATime
<1> QED BY <1>1, Invariants, PTL
=============================================================================
