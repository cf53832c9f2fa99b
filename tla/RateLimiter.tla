---------------------------- MODULE RateLimiter ----------------------------
(***************************************************************************)
(* The per-tenant request limiter of xero-client (rate_limit.rs).          *)
(*                                                                         *)
(* One TenantRateLimiter per tenant, shared through a process-wide         *)
(* registry, keeps an in-flight counter and the quota the last response    *)
(* header reported.  acquire() tests the counter, then may sleep because   *)
(* the quota is low, and only then increments the counter: the test and    *)
(* the increment are one step when there is no sleep (the callers are      *)
(* futures of one task and switch only at an await) and two steps when     *)
(* there is.  Time is abstracted: a sleep is a phase that may end at any   *)
(* moment.  day_remaining and app_min_remaining are written by the code    *)
(* and read by nothing, so they are left out.                              *)
(***************************************************************************)
EXTENDS Integers, FiniteSets, TenantCallers

CONSTANTS
  MAX_CONCURRENT_PER_TENANT,    \* 6 in the code
  PROACTIVE_THROTTLE_THRESHOLD, \* 5 in the code
  Quotas,                       \* values of X-MinLimit-Remaining
  NoQuota                       \* min_remaining = None

ASSUME LimiterAssumption ==
  /\ IsFiniteSet(Callers)
  /\ MAX_CONCURRENT_PER_TENANT \in Nat \ {0}
  /\ PROACTIVE_THROTTLE_THRESHOLD \in Nat
  /\ Quotas \subseteq Nat
  /\ NoQuota \notin Nat

VARIABLES
  inFlight,      \* in_flight of each tenant's limiter
  minRemaining,  \* min_remaining of each tenant's limiter
  phase          \* where each caller is with respect to its limiter

limiterVars == <<inFlight, minRemaining, phase>>

Phases == {"outside", "throttled", "holding"}

LimiterTypeOK ==
  /\ inFlight \in [Tenants -> Nat]
  /\ minRemaining \in [Tenants -> Quotas \cup {NoQuota}]
  /\ phase \in [Callers -> Phases]

LimiterInit ==
  /\ inFlight = [t \in Tenants |-> 0]
  /\ minRemaining = [t \in Tenants |-> NoQuota]
  /\ phase = [c \in Callers |-> "outside"]

Holders(t) == {c \in Callers : phase[c] = "holding" /\ TenantOf[c] = t}
----------------------------------------------------------------------------
(* The milliseconds acquire() sleeps for a known quota; 0 stands for None. *)
ProactiveWait(q) ==
  IF q = NoQuota \/ q > PROACTIVE_THROTTLE_THRESHOLD THEN 0
  ELSE IF q = 0 THEN 2000
  ELSE 150 * (PROACTIVE_THROTTLE_THRESHOLD + 1 - q)

UnderCap(t) == inFlight[t] < MAX_CONCURRENT_PER_TENANT

Throttling(t) == ProactiveWait(minRemaining[t]) > 0

(* acquire(): the cap test passes and there is no need to throttle, so the *)
(* counter is incremented before any other caller can run.  While the test *)
(* fails the caller sleeps 50 ms and repeats it: a stuttering step here.   *)
TakePermit(c) ==
  LET t == TenantOf[c] IN
  /\ phase[c] = "outside"
  /\ UnderCap(t)
  /\ ~Throttling(t)
  /\ inFlight' = [inFlight EXCEPT ![t] = @ + 1]
  /\ phase' = [phase EXCEPT ![c] = "holding"]
  /\ UNCHANGED minRemaining

(* Mutant of Throttle: the counter is incremented before the sleep too.    *)
ThrottleCounted(c) ==
  LET t == TenantOf[c] IN
  /\ phase[c] = "outside"
  /\ UnderCap(t)
  /\ Throttling(t)
  /\ inFlight' = [inFlight EXCEPT ![t] = @ + 1]
  /\ phase' = [phase EXCEPT ![c] = "throttled"]
  /\ UNCHANGED minRemaining

(* The cap test passes but the quota is low: the caller sleeps with the    *)
(* test behind it and the increment ahead.                                 *)
Throttle(c) ==
  LET t == TenantOf[c] IN
  /\ phase[c] = "outside"
  /\ UnderCap(t)
  /\ Throttling(t)
  /\ phase' = [phase EXCEPT ![c] = "throttled"]
  /\ UNCHANGED <<inFlight, minRemaining>>

(* The throttle sleep is over: increment without repeating the test.       *)
WakeAndTakePermit(c) ==
  LET t == TenantOf[c] IN
  /\ phase[c] = "throttled"
  /\ inFlight' = [inFlight EXCEPT ![t] = @ + 1]
  /\ phase' = [phase EXCEPT ![c] = "holding"]
  /\ UNCHANGED minRemaining

(* Mutant of Released: Drop of a permit that was moved into the response   *)
(* does nothing.                                                           *)
ReleasedNever(t) == inFlight[t]

(* The counter after release(), which Drop of the permit calls.            *)
Released(t) == IF inFlight[t] > 0 THEN inFlight[t] - 1 ELSE inFlight[t]

(* The permit goes out of scope.                                           *)
DropPermit(c) ==
  LET t == TenantOf[c] IN
  /\ phase[c] = "holding"
  /\ inFlight' = [inFlight EXCEPT ![t] = Released(t)]
  /\ phase' = [phase EXCEPT ![c] = "outside"]

(* A response arrived: q is its X-MinLimit-Remaining header, NoQuota when  *)
(* the header is absent or unreadable and the old value stays.             *)
UpdateFromHeaders(c, q) ==
  minRemaining' =
    IF q = NoQuota THEN minRemaining
                   ELSE [minRemaining EXCEPT ![TenantOf[c]] = q]

(* A caller that only uses the limiter: one response, then the permit goes.*)
Respond(c) ==
  \E q \in Quotas \cup {NoQuota} : DropPermit(c) /\ UpdateFromHeaders(c, q)

LimiterNext ==
  \E c \in Callers :
    \/ TakePermit(c)
    \/ Throttle(c)
    \/ WakeAndTakePermit(c)
    \/ Respond(c)

LimiterSpec == LimiterInit /\ [][LimiterNext]_limiterVars
----------------------------------------------------------------------------
(* The counter equals the number of permits that are alive: no path of     *)
(* acquire/Drop loses or leaks one, although release() would hide an       *)
(* underflow.                                                              *)
PermitAccounting ==
  \A t \in Tenants : inFlight[t] = Cardinality(Holders(t))

(* "caps in-flight concurrency" (rate_limit.rs:8-9): a tenant never has    *)
(* more than MAX_CONCURRENT_PER_TENANT requests in flight.                 *)
CapRespected ==
  \A t \in Tenants : Cardinality(Holders(t)) <= MAX_CONCURRENT_PER_TENANT
============================================================================
