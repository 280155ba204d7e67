---------------------------- MODULE RateLimiter -----------------------------
(***************************************************************************)
(* The sliding-window limiter in front of the manual imports, for one      *)
(* client address.  The dependency is a plain function, so FastAPI runs it *)
(* in the threads of its pool, and is_allowed has no lock: the bucket is   *)
(* read, put back, measured and appended to by statements that other       *)
(* threads come between.                                                   *)
(***************************************************************************)
EXTENDS Integers, FiniteSets

CONSTANTS
  Threads,       \* threads of the pool that serve this client
  MaxRequests,   \* _max_requests
  LimiterWindow, \* _window_seconds, in ticks
  MaxCalls,      \* bound on the calls
  LimiterMaxTime \* bound on the clock

ASSUME LimiterAssumption ==
  /\ IsFiniteSet(Threads)
  /\ MaxRequests \in Nat \ {0}
  /\ LimiterWindow \in Nat \ {0}
  /\ MaxCalls \in Nat
  /\ LimiterMaxTime \in Nat

VARIABLES
  mono,     \* time.monotonic(), in ticks
  calls,    \* calls so far
  bucket,   \* the time stamps in self._buckets[key]
  thread,   \* what each thread is at in is_allowed
  allowed,  \* the stamps of the requests that were let through
  refused,  \* the times of the requests that were refused
  raced     \* some call began while another was under way

limiterVars == <<mono, calls, bucket, thread, allowed, refused, raced>>

\* The time stamp of a call; two calls of one tick differ in the code.
Stamp == [call : Nat, at : Nat]

Idle == [pc |-> "idle"]
Calls == [pc : {"filter", "check", "append"}, call : Nat, at : Nat]
         \cup [pc : {"store"}, call : Nat, at : Nat, kept : SUBSET Stamp]

LimiterInit ==
  /\ mono = 0
  /\ calls = 0
  /\ bucket = {}
  /\ thread = [t \in Threads |-> Idle]
  /\ allowed = {}
  /\ refused = {}
  /\ raced = FALSE

\* A call takes less than a tick.
LimiterTick ==
  /\ mono < LimiterMaxTime
  /\ \A t \in Threads : thread[t].pc # "idle" => thread[t].at = mono
  /\ mono' = mono + 1
  /\ UNCHANGED <<calls, bucket, thread, allowed, refused, raced>>

\* is_allowed begins: now is read.
Arrive(t) ==
  /\ thread[t].pc = "idle"
  /\ calls < MaxCalls
  /\ calls' = calls + 1
  /\ raced' = (raced \/ \E u \in Threads : thread[u].pc # "idle")
  /\ thread' = [thread EXCEPT ![t] =
                  [pc |-> "filter", call |-> calls + 1, at |-> mono]]
  /\ UNCHANGED <<mono, bucket, allowed, refused>>

Recent(t) == {s \in bucket : s.at > t - LimiterWindow}

\* The list comprehension over the bucket.
FilterBucket(t) ==
  /\ thread[t].pc = "filter"
  /\ thread' = [thread EXCEPT ![t] =
                  [pc |-> "store", call |-> @.call, at |-> @.at,
                   kept |-> Recent(@.at)]]
  /\ UNCHANGED <<mono, calls, bucket, allowed, refused, raced>>

StoreBucket(t) ==
  /\ thread[t].pc = "store"
  /\ bucket' = thread[t].kept
  /\ thread' = [thread EXCEPT ![t] =
                  [pc |-> "check", call |-> @.call, at |-> @.at]]
  /\ UNCHANGED <<mono, calls, allowed, refused, raced>>

\* Mutation: one request too many.
OverFull == Cardinality(bucket) > MaxRequests

\* Mutation: one request too few.
FullEarly == Cardinality(bucket) >= MaxRequests - 1

Full == Cardinality(bucket) >= MaxRequests

\* The answer is 429.
Refuse(t) ==
  /\ thread[t].pc = "check"
  /\ Full
  /\ refused' = refused \cup {thread[t].at}
  /\ thread' = [thread EXCEPT ![t] = Idle]
  /\ UNCHANGED <<mono, calls, bucket, allowed, raced>>

PassLimit(t) ==
  /\ thread[t].pc = "check"
  /\ ~Full
  /\ thread' = [thread EXCEPT ![t] =
                  [pc |-> "append", call |-> @.call, at |-> @.at]]
  /\ UNCHANGED <<mono, calls, bucket, allowed, refused, raced>>

\* The request is let through.
AppendStamp(t) ==
  LET stamp == [call |-> thread[t].call, at |-> thread[t].at] IN
  /\ thread[t].pc = "append"
  /\ bucket' = bucket \cup {stamp}
  /\ allowed' = allowed \cup {stamp}
  /\ thread' = [thread EXCEPT ![t] = Idle]
  /\ UNCHANGED <<mono, calls, refused, raced>>

\* The bounds are reached.
LimiterDone ==
  /\ mono = LimiterMaxTime
  /\ calls = MaxCalls
  /\ \A t \in Threads : thread[t].pc = "idle"
  /\ UNCHANGED limiterVars

LimiterNext ==
  \/ LimiterTick
  \/ LimiterDone
  \/ \E t \in Threads :
       \/ Arrive(t)
       \/ FilterBucket(t)
       \/ StoreBucket(t)
       \/ Refuse(t)
       \/ PassLimit(t)
       \/ AppendStamp(t)

LimiterSpec == LimiterInit /\ [][LimiterNext]_limiterVars

-----------------------------------------------------------------------------
LimiterTypeOK ==
  /\ mono \in Nat
  /\ calls \in 0..MaxCalls
  /\ bucket \subseteq Stamp
  /\ thread \in [Threads -> {Idle} \cup Calls]
  /\ allowed \subseteq Stamp
  /\ refused \subseteq Nat
  /\ raced \in BOOLEAN

InWindowOf(t) == {s \in allowed : s.at > t - LimiterWindow /\ s.at <= t}

\* As long as no two calls have met in the pool, no window of any position
\* lets through more than the limit, however the requests are spread.  (Two
\* threads that meet may each put back a bucket without the other's stamp.)
LimitHeld == ~raced => \A t \in 0..mono : Cardinality(InWindowOf(t)) <= MaxRequests

\* Threads that race lose stamps but never make any up: a client is refused
\* only if the limit was let through in the window before; a thread that
\* read the clock a tick earlier may have put back what was then recent.
RefusedOnlyWhenFull ==
  \A t \in refused :
    Cardinality({s \in allowed : s.at >= t - LimiterWindow}) >= MaxRequests
=============================================================================
