------------------------------ MODULE RateLimiter ------------------------------
(***************************************************************************)
(* Token buckets (auth/rate_limiter.cc), one for each address or account,   *)
(* under one mutex.  The clock counts NsPerMs ticks to a millisecond, as     *)
(* steady_clock does; a bucket's fraction of a token is counted in parts of  *)
(* 1/Period.  Prune has no caller: buckets are never forgotten.              *)
(***************************************************************************)
EXTENDS Naturals, FiniteSetsExt

CONSTANTS Clients,
          BucketCapacity, \* RateLimit::capacity
          Period,     \* RateLimit::refill_period, in milliseconds
          NsPerMs,    \* 1000000
          MaxNow,     \* bound on the clock
          Steps       \* how far the clock goes at a time

VARIABLES now,
          bucket,       \* buckets: what is in each, and since when; full at first
          retryAt,      \* when the last refusal of a client told him to come back
          early,        \* the clients that were allowed before that
          served        \* how often each was allowed

limiterVars == <<now, bucket, retryAt, early, served>>

\* The constructor raises to one what is not positive.
LimitIsPositive == BucketCapacity \in Nat \ {0} /\ Period \in Nat \ {0}

ClockIsInTicks == NsPerMs \in Nat /\ MaxNow \in Nat /\ Steps \subseteq Nat

Full == BucketCapacity * Period

LimiterTypeOK ==
  /\ now \in 0..MaxNow
  /\ bucket \in [Clients -> [tokens : 0..Full, updated : 0..MaxNow]]
  /\ retryAt \in [Clients -> Nat]
  /\ early \subseteq Clients
  /\ served \in [Clients -> Nat]

LimiterInit ==
  /\ now = 0
  /\ bucket = [c \in Clients |-> [tokens |-> Full, updated |-> 0]]
  /\ retryAt = [c \in Clients |-> 0]
  /\ early = {}
  /\ served = [c \in Clients |-> 0]

\* A count of the clock's ticks is divided by one of milliseconds.
Refilled(c) ==
  Min({Full, bucket[c].tokens + (now - bucket[c].updated) * BucketCapacity})

\* Milliseconds, rounded up, until there is a token.
RetryAfter(tokens) == (Period - tokens + BucketCapacity - 1) \div BucketCapacity

Consume(c) ==
  LET tokens == Refilled(c)  allowed == tokens >= Period IN
  /\ bucket' = [bucket EXCEPT ![c] =
       [tokens |-> IF allowed THEN tokens - Period ELSE tokens, updated |-> now]]
  /\ \/ /\ allowed
        /\ early' = IF now < retryAt[c] THEN early \cup {c} ELSE early
        /\ served' = [served EXCEPT ![c] = @ + 1]
        /\ UNCHANGED retryAt
     \/ /\ ~allowed
        /\ retryAt' = [retryAt EXCEPT ![c] = now + NsPerMs * RetryAfter(tokens)]
        /\ UNCHANGED <<early, served>>
  /\ UNCHANGED now

TimePasses(d) == /\ now + d <= MaxNow
                 /\ now' = now + d
                 /\ UNCHANGED <<bucket, retryAt, early, served>>

LimiterNext == \/ \E c \in Clients : Consume(c)
               \/ \E d \in Steps : TimePasses(d)

LimiterSpec == LimiterInit /\ [][LimiterNext]_limiterVars
-----------------------------------------------------------------------------
(* Who is refused is not allowed before the retry_after he was told has      *)
(* passed: the limiter keeps to its own answer.                              *)
RetryAfterIsKept == early = {}

(* Whatever the unit of its clock: nobody is served more than what a bucket  *)
(* holds at first and what has flowed into it since.                         *)
ServedFlowedIn == \A c \in Clients : served[c] * Period <= Full + now * BucketCapacity
=============================================================================
