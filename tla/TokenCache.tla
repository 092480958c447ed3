------------------------------ MODULE TokenCache ------------------------------
(***************************************************************************)
(* TokenCache (src/src/lib/credentials/token-cache.ts) under the requests   *)
(* of a client (src/src/client.ts) that sign with its token and, on a 401,  *)
(* invalidate it and try again.  The provider behind the cache re-serves a  *)
(* token of the credentials file unless it is told to refresh               *)
(* (src/src/lib/credentials/user-oauth.ts).                                 *)
(*                                                                          *)
(* Of a token only its epoch is kept: the number of times the server had    *)
(* revoked what it issued when it issued this one.  The server takes the    *)
(* tokens of its own epoch.  A file shared with other processes and calls   *)
(* of any length make every remaining life of a new token possible.         *)
(***************************************************************************)
EXTENDS Integers

CONSTANTS Request, Call, NoCall,
          NewLife,      \* how long a token may have to go when it is cached
          MaxEpoch,     \* Bound: the server revokes its tokens so many times
          MaxRetries,   \* the client's maxRetries
          Faults        \* providers fail, and the server answers 5xx

ASSUME CallAssumption == NoCall \notin Call
Life == {"eternal", "fresh", "advisory", "mandatory"}

ASSUME LifeAssumption == NewLife # {} /\ NewLife \subseteq Life
ASSUME BoundAssumption == MaxEpoch \in Nat /\ MaxRetries \in Nat /\ Faults \in BOOLEAN

VARIABLES
    cached,     \* TokenCache.cached: the epoch of the token, or NoToken
    life,       \* what remains of it until its expiresAt
    pending,    \* pendingRefresh
    nextForce,  \* nextForce
    cooling,    \* lastAdvisoryError is less than the backoff ago
    call,       \* the stage of each call of the provider
    forced,     \* it was made with forceRefresh
    advisory,   \* it was made by backgroundRefresh
    result,     \* the token it has read or been issued
    disk,       \* the token in the credentials file
    epoch,      \* the revocations at the server (external)
    pc,         \* where each request is
    token,      \* the token it was sent with last
    awaited,    \* the call its getToken awaits
    refreshed,  \* didRefreshFor401
    retries     \* retriesRemaining

cache    == <<cached, life, pending, nextForce, cooling>>
calls    == <<call, forced, advisory, result>>
requests == <<pc, token, awaited, refreshed, retries>>
vars     == <<cached, life, pending, nextForce, cooling, call, forced, advisory,
              result, disk, epoch, pc, token, awaited, refreshed, retries>>

NoToken == -1

InFlight(c) == call[c] # "free"

Init ==
    /\ cached = NoToken /\ life = "fresh" /\ pending = NoCall
    /\ nextForce = FALSE /\ cooling = FALSE
    /\ call = [c \in Call |-> "free"]
    /\ forced = [c \in Call |-> FALSE] /\ advisory = [c \in Call |-> FALSE]
    /\ result = [c \in Call |-> NoToken]
    /\ disk = 0 /\ epoch = 0
    /\ pc = [r \in Request |-> "idle"]
    /\ token = [r \in Request |-> NoToken]
    /\ awaited = [r \in Request |-> NoCall]
    /\ refreshed = [r \in Request |-> FALSE]
    /\ retries = [r \in Request |-> MaxRetries]

-----------------------------------------------------------------------------
(* getToken.                                                                *)

\* doRefresh.  Bound: at most Cardinality(Call) calls are in flight.
DoRefresh(c, force, quietly) ==
    /\ ~InFlight(c)
    /\ call' = [call EXCEPT ![c] = "begun"]
    /\ forced' = [forced EXCEPT ![c] = force]
    /\ advisory' = [advisory EXCEPT ![c] = quietly]
    /\ result' = [result EXCEPT ![c] = NoToken]
    /\ pending' = c

Sent(r, t) ==
    /\ pc' = [pc EXCEPT ![r] = "sent"]
    /\ token' = [token EXCEPT ![r] = t]
    /\ awaited' = [awaited EXCEPT ![r] = NoCall]

Waits(r, c) ==
    /\ pc' = [pc EXCEPT ![r] = "waiting"]
    /\ awaited' = [awaited EXCEPT ![r] = c]
    /\ UNCHANGED token

\* Mutant: an invalidated cache is filled like an empty one.
TakesForce_Never == FALSE

\* nextForce is taken by the first getToken that sees it.
TakesForce == nextForce

Usable == cached # NoToken /\ ~TakesForce /\ life # "mandatory"

\* Mutant: a background refresh starts beside one in flight.
MayRefreshQuietly_Always == life = "advisory" /\ ~cooling

\* backgroundRefresh: one at a time, not right after a failure.
MayRefreshQuietly == life = "advisory" /\ pending = NoCall /\ ~cooling

\* The cached token is served, and renewed in the background when it is old.
Serve(r) ==
    /\ Usable
    /\ Sent(r, cached)
    /\ \/ /\ MayRefreshQuietly
          /\ \E c \in Call : DoRefresh(c, FALSE, TRUE)
       \/ ~MayRefreshQuietly /\ UNCHANGED <<calls, pending>>

\* A mandatory refresh joins the one in flight unless it is forced.
Refresh(r) ==
    /\ ~Usable
    /\ \/ /\ pending # NoCall /\ ~TakesForce
          /\ Waits(r, pending)
          /\ UNCHANGED <<calls, pending>>
       \/ /\ pending = NoCall \/ TakesForce
          /\ \E c \in Call : DoRefresh(c, TakesForce, FALSE) /\ Waits(r, c)

GetToken(r) ==
    /\ Serve(r) \/ Refresh(r)
    /\ nextForce' = FALSE
    /\ UNCHANGED <<cached, life, cooling, disk, epoch>>

-----------------------------------------------------------------------------
(* The provider's calls.                                                    *)

Result(c, stage, t) ==
    /\ call' = [call EXCEPT ![c] = stage]
    /\ result' = [result EXCEPT ![c] = t]
    /\ UNCHANGED <<cache, forced, advisory, disk, epoch, requests>>

\* The token of the file still has a while to go.
ReadFile(c) ==
    /\ call[c] = "begun" /\ ~forced[c]
    /\ Result(c, "read", disk)

\* The file's token is old, or not to be used: the server issues one.
Exchange(c) ==
    /\ call[c] = "begun"
    /\ Result(c, "issued", epoch)

\* Everyone that awaits the promise, a newer refresh or not.
Awaiting(c) == {r \in Request : awaited[r] = c}

Wake(c, where, t) ==
    /\ pc' = [r \in Request |-> IF r \in Awaiting(c) THEN where ELSE pc[r]]
    /\ token' = [r \in Request |-> IF r \in Awaiting(c) THEN t ELSE token[r]]
    /\ awaited' = [r \in Request |-> IF r \in Awaiting(c) THEN NoCall ELSE awaited[r]]
    /\ UNCHANGED <<refreshed, retries>>

Over(c) ==
    /\ call' = [call EXCEPT ![c] = "free"]
    /\ forced' = [forced EXCEPT ![c] = FALSE]
    /\ advisory' = [advisory EXCEPT ![c] = FALSE]
    /\ result' = [result EXCEPT ![c] = NoToken]

\* An issued token is written to the file and returned, one that was read is
\* returned: it is cached, and whatever refresh is pending is not any more.
Settle(c) ==
    /\ call[c] \in {"read", "issued"}
    /\ disk' = IF call[c] = "issued" THEN result[c] ELSE disk
    /\ cached' = result[c] /\ life' \in NewLife
    /\ pending' = NoCall
    /\ Wake(c, "sent", result[c])
    /\ Over(c)
    /\ UNCHANGED <<nextForce, cooling, epoch>>

\* Mutant: a failed refresh stays pending.
PendingAfterFailure_Kept == pending

PendingAfterFailure == NoCall

\* The provider fails, at the token endpoint or at the file.
Fail(c) ==
    /\ Faults /\ call[c] \in {"begun", "issued"}
    /\ pending' = PendingAfterFailure
    /\ cooling' = (cooling \/ advisory[c])
    /\ Wake(c, "failed", NoToken)
    /\ Over(c)
    /\ UNCHANGED <<cached, life, nextForce, disk, epoch>>

-----------------------------------------------------------------------------
(* A request.                                                               *)

\* makeRequest, called by the user: the flags of the options are reset.
Start(r) ==
    /\ pc[r] \in {"idle", "done", "failed"}
    /\ refreshed' = [refreshed EXCEPT ![r] = FALSE]
    /\ retries' = [retries EXCEPT ![r] = MaxRetries]
    /\ GetToken(r)

Accepted(r) ==
    /\ pc[r] = "sent" /\ token[r] = epoch
    /\ pc' = [pc EXCEPT ![r] = "done"]
    /\ UNCHANGED <<cache, calls, disk, epoch, token, awaited, refreshed, retries>>

\* Mutant: a request without retries left is retried.
MayRetry_One(r) == retries[r] >= 0

MayRetry(r) == retries[r] > 0

AgainOrFailed(r) ==
    pc' = [pc EXCEPT ![r] = IF MayRetry(r) THEN "backoff" ELSE "failed"]

\* A 401: the first of a request invalidates the cache.
Refused(r) ==
    /\ pc[r] = "sent" /\ token[r] # epoch
    /\ \/ /\ ~refreshed[r]
          /\ refreshed' = [refreshed EXCEPT ![r] = TRUE]
          /\ cached' = NoToken /\ nextForce' = TRUE
          /\ AgainOrFailed(r)
          /\ UNCHANGED <<life, pending, cooling>>
       \/ /\ refreshed[r]
          /\ pc' = [pc EXCEPT ![r] = "failed"]
          /\ UNCHANGED <<refreshed, cache>>
    /\ UNCHANGED <<calls, disk, epoch, token, awaited, retries>>

\* A connection error, a timeout or a 5xx.
Disturbed(r) ==
    /\ Faults /\ pc[r] = "sent"
    /\ AgainOrFailed(r)
    /\ UNCHANGED <<cache, calls, disk, epoch, token, awaited, refreshed, retries>>

\* retryRequest, and makeRequest from the top.
Retry(r) ==
    /\ pc[r] = "backoff"
    /\ retries' = [retries EXCEPT ![r] = @ - 1]
    /\ UNCHANGED refreshed
    /\ GetToken(r)

-----------------------------------------------------------------------------
\* The server revokes every token it has issued.
Revoke ==
    /\ epoch < MaxEpoch
    /\ epoch' = epoch + 1
    /\ UNCHANGED <<cache, calls, disk, requests>>

\* Time passes for the cached token.
Age ==
    /\ cached # NoToken
    /\ \/ life = "fresh" /\ life' = "advisory"
       \/ life = "advisory" /\ life' = "mandatory"
    /\ UNCHANGED <<cached, pending, nextForce, cooling, calls, disk, epoch, requests>>

\* ADVISORY_REFRESH_BACKOFF_IN_SECONDS are over.
Cooled ==
    /\ cooling /\ cooling' = FALSE
    /\ UNCHANGED <<cached, life, pending, nextForce, calls, disk, epoch, requests>>

Provider(c) == ReadFile(c) \/ Exchange(c) \/ Settle(c) \/ Fail(c)

Answer(r) == Accepted(r) \/ Refused(r) \/ Disturbed(r)

Next ==
    \/ \E c \in Call : Provider(c)
    \/ \E r \in Request : Start(r) \/ Answer(r) \/ Retry(r)
    \/ Revoke \/ Age \/ Cooled

Spec == Init /\ [][Next]_vars

\* Calls and requests end.  No failure is for ever: a provider asked again and
\* again answers, its file can be written, and the server is behind its 5xx.
Fairness ==
    /\ \A c \in Call :
        /\ WF_vars(Provider(c)) /\ SF_vars(call[c] = "issued" /\ Settle(c))
        /\ SF_vars(ReadFile(c) \/ Exchange(c)) /\ SF_vars(forced[c] /\ Exchange(c))
    /\ \A r \in Request :
        /\ WF_vars(Start(r) \/ Answer(r) \/ Retry(r))
        /\ SF_vars(Accepted(r) \/ Refused(r))

FairSpec == Spec /\ Fairness

-----------------------------------------------------------------------------
TypeOK ==
    /\ cached \in NoToken..MaxEpoch /\ life \in Life
    /\ pending \in Call \union {NoCall}
    /\ nextForce \in BOOLEAN /\ cooling \in BOOLEAN
    /\ call \in [Call -> {"free", "begun", "read", "issued"}]
    /\ forced \in [Call -> BOOLEAN] /\ advisory \in [Call -> BOOLEAN]
    /\ result \in [Call -> NoToken..MaxEpoch]
    /\ disk \in 0..MaxEpoch /\ epoch \in 0..MaxEpoch
    /\ pc \in [Request -> {"idle", "waiting", "sent", "backoff", "done", "failed"}]
    /\ token \in [Request -> NoToken..MaxEpoch]
    /\ awaited \in [Request -> Call \union {NoCall}]
    /\ refreshed \in [Request -> BOOLEAN]
    /\ retries \in [Request -> 0..MaxRetries]

\* Nobody joins or awaits a refresh that is over, however refreshes overlap and
\* whichever of them fails: a failure is never handed out a second time.
PendingIsLive ==
    /\ pending # NoCall => InFlight(pending)
    /\ \A r \in Request : pc[r] = "waiting" => awaited[r] \in Call /\ InFlight(awaited[r])

\* Until the server first revokes a token, advisory and mandatory refreshes
\* share one call of the provider, whichever calls fail and however tokens age.
OneCallAtATime ==
    epoch = 0 => \A c, d \in Call : InFlight(c) /\ InFlight(d) => c = d

\* However requests, late refreshes and revocations overlap, requests succeed
\* again: the cache and the file do not keep a revoked token for ever.
Recovers == []<>(\E r \in Request : pc[r] = "done")

\* "Concurrent mandatory callers coalesce into a single provider call."
\* (token-cache.ts:23).  Not so after a forced refresh: see the README.
MandatoryCoalesce ==
    [][\A r \in Request, c \in Call :
        (DoRefresh(c, FALSE, FALSE) /\ Waits(r, c))
            => \A d \in Call : InFlight(d) => advisory[d]]_vars
=============================================================================
