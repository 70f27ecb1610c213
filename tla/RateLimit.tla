------------------------------ MODULE RateLimit ------------------------------
(***************************************************************************)
(* The rate limiter (app/middleware/ratelimit.py): a request passes three  *)
(* checks one after the other, of its user, of the endpoint and of the     *)
(* service, each an atomic INCR, EXPIRE and GET of one Redis counter.      *)
(* Requests interleave between the checks, and a rejected request leaves   *)
(* what it added to the counters it passed.                                *)
(***************************************************************************)
EXTENDS Integers, Sequences

CONSTANTS Requests,       \* requests in flight
          Users, Endpoints,
          Limit,          \* user_limit, endpoint_limits and global_limit by key
          Window,         \* window_seconds, in ticks
          Service         \* the key of the service-wide counter

Keys == Users \cup Endpoints \cup {Service}

ASSUME RateLimitAssumption ==
    /\ Limit \in [Keys -> Nat \ {0}]
    /\ Window \in Nat \ {0}

VARIABLES
    count,       \* counter of a key, saturated one above its limit
    ttl,         \* ticks left to it, 0 when there is no counter
    path,        \* the checks a request has still to pass
    passes       \* history: checks passed in the last t ticks, for t up to Window

rateVars == <<count, ttl, path, passes>>

RateTypeOK ==
    /\ count \in [Keys -> Nat] /\ \A k \in Keys : count[k] <= Limit[k] + 1
    /\ ttl \in [Keys -> 0 .. Window]
    /\ \A k \in Keys : ttl[k] = 0 <=> count[k] = 0
    /\ path \in [Requests -> Seq(Keys)] /\ \A r \in Requests : Len(path[r]) <= 3
    /\ passes \in [Keys -> [1 .. Window -> Nat]]

RateInit ==
    /\ count = [k \in Keys |-> 0]
    /\ ttl = [k \in Keys |-> 0]
    /\ path = [r \in Requests |-> <<>>]
    /\ passes = [k \in Keys |-> [t \in 1 .. Window |-> 0]]

Shifted(h) == [k \in Keys |-> [t \in 1 .. Window |-> IF t = 1 THEN 0 ELSE h[k][t - 1]]]

\* A counter whose time has come is deleted by Redis.
RateTick ==
    /\ ttl' = [k \in Keys |-> IF ttl[k] = 0 THEN 0 ELSE ttl[k] - 1]
    /\ count' = [k \in Keys |-> IF ttl[k] <= 1 THEN 0 ELSE count[k]]
    /\ passes' = Shifted(passes)
    /\ UNCHANGED path

\* Requests without a user header have no user check.
Dispatch(r, user, endpoint) ==
    /\ path[r] = <<>>
    /\ path' = [path EXCEPT ![r] = user \o <<endpoint, Service>>]
    /\ UNCHANGED <<count, ttl, passes>>

\* Mutant: the expiry is set only by the request that creates the counter.
ExpireOnce(k) == ttl' = [ttl EXCEPT ![k] = IF @ = 0 THEN Window ELSE @]

\* Mutant: a counter is made without an expiry.
ExpireNever(k) == UNCHANGED ttl

Expire(k) == ttl' = [ttl EXCEPT ![k] = Window]

\* The request goes on to the next check or, over the limit, no further.
CheckRateLimit(r) ==
    /\ path[r] # <<>>
    /\ LET k == Head(path[r])
           allowed == count[k] < Limit[k]
       IN  /\ count' = [count EXCEPT ![k] = IF allowed THEN @ + 1 ELSE Limit[k] + 1]
           /\ Expire(k)
           /\ path' = [path EXCEPT ![r] = IF allowed THEN Tail(@) ELSE <<>>]
           /\ passes' = IF allowed THEN [passes EXCEPT ![k] = [t \in 1 .. Window |-> @[t] + 1]] ELSE passes

\* Redis is unavailable: the request is denied, whatever it passed before.
CheckFails(r) ==
    /\ path[r] # <<>>
    /\ path' = [path EXCEPT ![r] = <<>>]
    /\ UNCHANGED <<count, ttl, passes>>

RateNext ==
    \/ RateTick
    \/ \E r \in Requests :
          \/ \E user \in {<<>>} \cup {<<u>> : u \in Users}, endpoint \in Endpoints :
                Dispatch(r, user, endpoint)
          \/ CheckRateLimit(r)
          \/ CheckFails(r)

RateSpec == RateInit /\ [][RateNext]_rateVars

-----------------------------------------------------------------------------
(* Properties.                                                             *)

\* In no stretch of Window ticks does a counter let through more than its limit,
\* wherever the stretch begins and however the requests interleave.
WithinWindow == \A k \in Keys : passes[k][Window] <= Limit[k]

\* What the limiter promises to the service: no counter lets through more than its
\* limit in any window.
RatePromise ==
    /\ RateTypeOK
    /\ WithinWindow
==============================================================================
