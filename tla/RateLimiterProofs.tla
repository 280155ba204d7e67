------------------------- MODULE RateLimiterProofs --------------------------
(***************************************************************************)
(* A stamp in a bucket was let through; the age of what a bucket may hold  *)
(* is bounded by the clocks the threads have read, which are a tick apart  *)
(* at most.  As long as calls do not meet, the bucket also holds all that  *)
(* was let through in the window of the call under way.                    *)
(***************************************************************************)
EXTENDS RateLimiter, FiniteSetTheorems, TLAPS

ActiveCall(t) == thread[t].pc # "idle"

LimiterTypeInv ==
  /\ mono \in Nat
  /\ calls \in 0..MaxCalls
  /\ thread \in [Threads -> {Idle} \cup Calls]
  /\ allowed \subseteq Stamp
  /\ refused \subseteq Nat
  /\ raced \in BOOLEAN

\* The clocks read are at most a tick old, and so are the stamps not newer
\* than the clock.
ClockInv ==
  /\ \A t \in Threads : ActiveCall(t) => thread[t].at \in Nat /\ thread[t].at \in {mono - 1, mono}
  /\ \A s \in allowed : s.at <= mono

\* No stamp is made up, and what a thread measures is from its window or
\* from the one of a thread a tick earlier.
BucketInv ==
  /\ IsFiniteSet(allowed)
  /\ bucket \subseteq allowed
  /\ \A t \in Threads : thread[t].pc = "store" =>
       /\ thread[t].kept \subseteq allowed
       /\ \A s \in thread[t].kept : s.at > thread[t].at - LimiterWindow
  /\ \A t \in Threads : thread[t].pc = "check" =>
       \A s \in bucket : s.at >= thread[t].at - LimiterWindow

\* Without a race one call at a time is under way, and nothing let through
\* in its window is missing from the bucket.
AloneInv ==
  ~raced =>
    /\ \A t, u \in Threads : ActiveCall(t) /\ ActiveCall(u) => t = u
    /\ \A s \in allowed : s.at > mono - LimiterWindow => s \in bucket
    /\ \A t \in Threads : ActiveCall(t) => \A s \in allowed :
         /\ s.at <= thread[t].at
         /\ s.at > thread[t].at - LimiterWindow =>
              s \in bucket /\ (thread[t].pc = "store" => s \in thread[t].kept)
    /\ \A t \in Threads : thread[t].pc = "append" => Cardinality(bucket) < MaxRequests

LimiterInv ==
  LimiterTypeInv /\ ClockInv /\ BucketInv /\ AloneInv /\ LimitHeld /\ RefusedOnlyWhenFull

-----------------------------------------------------------------------------
LEMMA LimiterInvInit == LimiterInit => LimiterInv
<1> SUFFICES ASSUME LimiterInit PROVE LimiterInv
  OBVIOUS
<1> USE LimiterAssumption
<1>1. thread \in [Threads -> {Idle} \cup Calls] /\ \A t \in Threads : ~ActiveCall(t) /\ thread[t].pc = "idle"
  BY DEF LimiterInit, ActiveCall, Idle
<1>2. raced \in BOOLEAN
  BY Zenon DEF LimiterInit
<1>3. LimiterTypeInv
  BY <1>1, <1>2 DEF LimiterInit, LimiterTypeInv
<1>4. ClockInv
  BY <1>1 DEF LimiterInit, ClockInv
<1>5. BucketInv
  BY <1>1, FS_EmptySet DEF LimiterInit, BucketInv
<1>6. AloneInv
  BY <1>1 DEF LimiterInit, AloneInv
<1>7. LimitHeld
  <2>1. ASSUME NEW t \in 0..mono PROVE InWindowOf(t) = {}
    BY DEF LimiterInit, InWindowOf
  <2> QED
    BY <2>1, FS_EmptySet DEF LimitHeld
<1>8. RefusedOnlyWhenFull
  BY DEF LimiterInit, RefusedOnlyWhenFull
<1> QED
  BY <1>3, <1>4, <1>5, <1>6, <1>7, <1>8 DEF LimiterInv

\* The state of an active thread.
LEMMA ActiveFields ==
  ASSUME LimiterTypeInv, NEW t \in Threads, ActiveCall(t)
  PROVE  /\ thread[t].pc \in {"filter", "store", "check", "append"}
         /\ thread[t].call \in Nat
         /\ thread[t].at \in Nat
         /\ thread[t].pc = "store" => thread[t].kept \in SUBSET Stamp
BY DEF LimiterTypeInv, ActiveCall, Idle, Calls

\* Fewer requests in a smaller set.
LEMMA NoLarger ==
  ASSUME BucketInv, NEW A, NEW B, A \subseteq B, B \subseteq allowed
  PROVE  /\ IsFiniteSet(A) /\ Cardinality(A) \in Nat /\ Cardinality(B) \in Nat
         /\ Cardinality(A) <= Cardinality(B)
<1>1. IsFiniteSet(B) /\ IsFiniteSet(A)
  BY FS_Subset DEF BucketInv
<1> QED
  BY <1>1, FS_Subset, FS_CardinalityType

\* A step that lets nothing through and refuses nothing, without a tick.
LEMMA SameWindows ==
  ASSUME LimitHeld, RefusedOnlyWhenFull, allowed' = allowed, refused' = refused,
         mono' = mono, raced => raced'
  PROVE  LimitHeld' /\ RefusedOnlyWhenFull'
<1>1. \A t : InWindowOf(t)' = InWindowOf(t)
  BY DEF InWindowOf
<1> QED
  BY <1>1 DEF LimitHeld, RefusedOnlyWhenFull

\* The state of one thread changes.
LEMMA OneThread ==
  ASSUME LimiterTypeInv, NEW t \in Threads, NEW r \in {Idle} \cup Calls,
         thread' = [thread EXCEPT ![t] = r]
  PROVE  /\ thread' \in [Threads -> {Idle} \cup Calls]
         /\ thread'[t] = r
         /\ \A u \in Threads \ {t} : thread'[u] = thread[u]
BY DEF LimiterTypeInv

-----------------------------------------------------------------------------
LEMMA TickInv ==
  ASSUME LimiterInv, LimiterTick
  PROVE  LimiterInv'
<1> USE LimiterAssumption DEF LimiterInv
<1>1. /\ mono' = mono + 1 /\ mono \in Nat
      /\ UNCHANGED <<calls, bucket, thread, allowed, refused, raced>>
      /\ \A t \in Threads : ActiveCall(t) => thread[t].at = mono
  BY DEF LimiterTick, LimiterTypeInv, ActiveCall
<1>2. LimiterTypeInv'
  BY <1>1 DEF LimiterTypeInv
<1>3. ClockInv'
  BY <1>1 DEF ClockInv, ActiveCall, LimiterTypeInv, Stamp
<1>4. BucketInv'
  BY <1>1 DEF BucketInv
<1>5. AloneInv'
  BY <1>1 DEF AloneInv, ActiveCall, LimiterTypeInv, Stamp
<1>6. RefusedOnlyWhenFull'
  BY <1>1 DEF RefusedOnlyWhenFull
<1>7. LimitHeld'
  <2>1. SUFFICES ASSUME ~raced, NEW t \in 0..(mono + 1)
                 PROVE  Cardinality(InWindowOf(t)) <= MaxRequests
    BY <1>1 DEF LimitHeld, InWindowOf
  <2>2. CASE t \in 0..mono
    BY <2>1, <2>2 DEF LimitHeld
  <2>3. CASE t = mono + 1
    <3>1. InWindowOf(t) \subseteq InWindowOf(mono) /\ InWindowOf(mono) \subseteq allowed
      BY <1>1, <2>3 DEF InWindowOf, ClockInv, LimiterTypeInv, Stamp
    <3>2. Cardinality(InWindowOf(mono)) <= MaxRequests
      BY <1>1, <2>1 DEF LimitHeld
    <3> HIDE DEF LimiterInv
    <3>3. BucketInv
      BY DEF LimiterInv
    <3>4. /\ Cardinality(InWindowOf(t)) \in Nat /\ Cardinality(InWindowOf(mono)) \in Nat
          /\ Cardinality(InWindowOf(t)) <= Cardinality(InWindowOf(mono))
      BY <3>1, <3>3, NoLarger
    <3> QED
      BY <3>2, <3>4
  <2> QED
    BY <1>1, <2>2, <2>3
<1> QED
  BY <1>2, <1>3, <1>4, <1>5, <1>6, <1>7

LEMMA ArriveInv ==
  ASSUME LimiterInv, NEW t \in Threads, Arrive(t)
  PROVE  LimiterInv'
<1> USE LimiterAssumption DEF LimiterInv
<1> DEFINE r == [pc |-> "filter", call |-> calls + 1, at |-> mono]
<1>1. r \in Calls /\ calls' \in 0..MaxCalls
  BY DEF Arrive, LimiterTypeInv, Calls
<1>2. /\ thread' = [thread EXCEPT ![t] = r] /\ ~ActiveCall(t)
      /\ UNCHANGED <<mono, bucket, allowed, refused>>
  BY DEF Arrive, ActiveCall
<1>3. /\ thread' \in [Threads -> {Idle} \cup Calls]
      /\ thread'[t] = r
      /\ \A u \in Threads \ {t} : thread'[u] = thread[u]
  BY <1>1, <1>2, OneThread
<1>4. /\ raced' \in BOOLEAN
      /\ ~raced' => ~raced /\ \A u \in Threads : ~ActiveCall(u)
  BY Zenon DEF Arrive, ActiveCall
<1>5. LimiterTypeInv'
  BY <1>1, <1>2, <1>3, <1>4 DEF LimiterTypeInv
<1>6. ClockInv'
  BY <1>2, <1>3 DEF ClockInv, ActiveCall, LimiterTypeInv
<1>7. BucketInv'
  BY <1>2, <1>3 DEF BucketInv
<1>8. AloneInv'
  <2>1. SUFFICES ASSUME ~raced' PROVE AloneInv'
    BY DEF AloneInv
  <2>2. ~raced /\ \A u \in Threads : ActiveCall(u)' => u = t
    BY <1>3, <1>4, <2>1 DEF ActiveCall
  <2>3. \A s \in allowed : s.at <= mono /\ (s.at > mono - LimiterWindow => s \in bucket)
    BY <2>2 DEF ClockInv, AloneInv
  <2>4. thread'[t].pc = "filter" /\ thread'[t].at = mono
    BY <1>3
  <2>5. \A u \in Threads : thread'[u].pc = "append" => FALSE
    BY <2>2, <2>4 DEF ActiveCall
  <2> QED
    BY <1>2, <2>2, <2>3, <2>4, <2>5 DEF AloneInv
<1>9. LimitHeld' /\ RefusedOnlyWhenFull'
  BY <1>2, <1>4, SameWindows
<1> QED
  BY <1>5, <1>6, <1>7, <1>8, <1>9

LEMMA FilterInv ==
  ASSUME LimiterInv, NEW t \in Threads, FilterBucket(t)
  PROVE  LimiterInv'
<1> USE LimiterAssumption DEF LimiterInv
<1> DEFINE at == thread[t].at
           kept == {s \in bucket : s.at > at - LimiterWindow}
           r == [pc |-> "store", call |-> thread[t].call, at |-> at, kept |-> kept]
<1>1. thread[t].pc = "filter" /\ ActiveCall(t) /\ at \in Nat /\ thread[t].call \in Nat
  BY ActiveFields DEF FilterBucket, ActiveCall
<1>2. /\ thread' = [thread EXCEPT ![t] = r]
      /\ UNCHANGED <<mono, calls, bucket, allowed, refused, raced>>
  BY DEF FilterBucket, Recent
<1>3. kept \subseteq bucket /\ \A s \in kept : s.at > at - LimiterWindow
  OBVIOUS
<1>4. \A s \in bucket : s.at > at - LimiterWindow => s \in kept
  OBVIOUS
<1> HIDE DEF kept
<1>5. r \in Calls
  BY <1>1, <1>3 DEF Calls, BucketInv, LimiterTypeInv
<1>6. /\ thread' \in [Threads -> {Idle} \cup Calls]
      /\ thread'[t] = r
      /\ \A u \in Threads \ {t} : thread'[u] = thread[u]
  BY <1>2, <1>5, OneThread
<1>7. \A u \in Threads : ActiveCall(u)' <=> ActiveCall(u)
  BY <1>1, <1>6 DEF ActiveCall
<1>8. \A u \in Threads : thread'[u].at = thread[u].at
  BY <1>6
<1>9. LimiterTypeInv'
  BY <1>2, <1>6 DEF LimiterTypeInv
<1>10. ClockInv'
  BY <1>2, <1>7, <1>8 DEF ClockInv
<1>11. BucketInv'
  BY <1>2, <1>3, <1>6 DEF BucketInv
<1>12. AloneInv'
  <2>1. ASSUME ~raced, NEW u \in Threads, ActiveCall(u)
        PROVE  u = t /\ thread'[u].kept = kept /\ thread'[u].pc = "store"
    BY <1>1, <1>6, <2>1 DEF AloneInv
  <2>2. ASSUME ~raced, NEW u \in Threads, ActiveCall(u), NEW s \in allowed
        PROVE  /\ s.at <= thread'[u].at
               /\ s.at > thread'[u].at - LimiterWindow => s \in bucket /\ s \in thread'[u].kept
    BY <1>4, <1>8, <2>1, <2>2 DEF AloneInv
  <2>3. ~raced => \A u \in Threads : thread'[u].pc = "append" => FALSE
    BY <1>7, <2>1 DEF ActiveCall
  <2> QED
    BY <1>2, <1>7, <2>2, <2>3 DEF AloneInv
<1>13. LimitHeld' /\ RefusedOnlyWhenFull'
  BY <1>2, SameWindows
<1> QED
  BY <1>9, <1>10, <1>11, <1>12, <1>13

LEMMA StoreInv ==
  ASSUME LimiterInv, NEW t \in Threads, StoreBucket(t)
  PROVE  LimiterInv'
<1> USE LimiterAssumption DEF LimiterInv
<1> DEFINE r == [pc |-> "check", call |-> thread[t].call, at |-> thread[t].at]
<1>1. /\ thread[t].pc = "store" /\ ActiveCall(t)
      /\ thread[t].at \in Nat /\ thread[t].call \in Nat
  BY ActiveFields DEF StoreBucket, ActiveCall
<1>2. /\ thread' = [thread EXCEPT ![t] = r]
      /\ bucket' = thread[t].kept
      /\ UNCHANGED <<mono, calls, allowed, refused, raced>>
  BY DEF StoreBucket
<1>3. r \in Calls
  BY <1>1 DEF Calls
<1>4. /\ thread' \in [Threads -> {Idle} \cup Calls]
      /\ thread'[t] = r
      /\ \A u \in Threads \ {t} : thread'[u] = thread[u]
  BY <1>2, <1>3, OneThread
<1>5. \A u \in Threads : ActiveCall(u)' <=> ActiveCall(u)
  BY <1>1, <1>4 DEF ActiveCall
<1>6. \A u \in Threads : thread'[u].at = thread[u].at
  BY <1>4
<1>7. LimiterTypeInv'
  BY <1>2, <1>4 DEF LimiterTypeInv
<1>8. ClockInv'
  BY <1>2, <1>5, <1>6 DEF ClockInv
<1>9. BucketInv'
  <2>1. bucket' \subseteq allowed' /\ \A s \in bucket' : s \in Stamp /\ s.at > thread[t].at - LimiterWindow
    BY <1>1, <1>2 DEF BucketInv, LimiterTypeInv
  <2>2. ASSUME NEW u \in Threads, ActiveCall(u), NEW s \in bucket'
        PROVE  s.at >= thread[u].at - LimiterWindow
    <3>1. thread[u].at \in {mono - 1, mono} /\ thread[t].at \in {mono - 1, mono}
      BY <1>1, <2>2 DEF ClockInv
    <3>2. s.at \in Nat /\ s.at > thread[t].at - LimiterWindow
      BY <2>1 DEF Stamp
    <3> QED
      BY <3>1, <3>2 DEF LimiterTypeInv
  <2>3. \A u \in Threads : thread'[u].pc = "check" =>
          \A s \in bucket' : s.at >= thread'[u].at - LimiterWindow
    BY <1>5, <1>6, <2>2 DEF ActiveCall
  <2>4. \A u \in Threads : thread'[u].pc = "store" =>
          thread[u].pc = "store" /\ thread'[u] = thread[u]
    BY <1>4
  <2> QED
    BY <1>2, <2>1, <2>3, <2>4 DEF BucketInv
<1>10. AloneInv'
  <2>1. ASSUME ~raced, NEW u \in Threads, ActiveCall(u)
        PROVE  u = t /\ thread'[u].pc = "check"
    BY <1>1, <1>4, <2>1 DEF AloneInv
  <2>2. ASSUME ~raced, NEW s \in allowed
        PROVE  /\ s.at <= thread[t].at
               /\ s.at > thread[t].at - LimiterWindow => s \in bucket'
               /\ s.at > mono - LimiterWindow => s \in bucket'
    <3>1. /\ s.at <= thread[t].at
          /\ s.at > thread[t].at - LimiterWindow => s \in bucket'
      BY <1>1, <1>2, <2>2 DEF AloneInv
    <3>2. thread[t].at \in {mono - 1, mono} /\ s.at \in Nat
      BY <1>1 DEF ClockInv, LimiterTypeInv, Stamp
    <3> QED
      BY <3>1, <3>2 DEF LimiterTypeInv
  <2>3. ~raced => \A u \in Threads : ActiveCall(u)' => u = t /\ thread'[u].pc = "check"
    BY <1>5, <2>1
  <2>4. ~raced => \A u \in Threads : thread'[u].pc = "append" => FALSE
    BY <2>3 DEF ActiveCall
  <2> QED
    BY <1>2, <1>6, <2>2, <2>3, <2>4 DEF AloneInv
<1>11. LimitHeld' /\ RefusedOnlyWhenFull'
  BY <1>2, SameWindows
<1> QED
  BY <1>7, <1>8, <1>9, <1>10, <1>11

LEMMA PassInv ==
  ASSUME LimiterInv, NEW t \in Threads, PassLimit(t)
  PROVE  LimiterInv'
<1> USE LimiterAssumption DEF LimiterInv
<1> DEFINE r == [pc |-> "append", call |-> thread[t].call, at |-> thread[t].at]
<1>1. /\ thread[t].pc = "check" /\ ActiveCall(t)
      /\ thread[t].at \in Nat /\ thread[t].call \in Nat
  BY ActiveFields DEF PassLimit, ActiveCall
<1>2. /\ thread' = [thread EXCEPT ![t] = r]
      /\ UNCHANGED <<mono, calls, bucket, allowed, refused, raced>>
  BY DEF PassLimit
<1>3. r \in Calls
  BY <1>1 DEF Calls
<1>4. /\ thread' \in [Threads -> {Idle} \cup Calls]
      /\ thread'[t] = r
      /\ \A u \in Threads \ {t} : thread'[u] = thread[u]
  BY <1>2, <1>3, OneThread
<1>5. \A u \in Threads : ActiveCall(u)' <=> ActiveCall(u)
  BY <1>1, <1>4 DEF ActiveCall
<1>6. \A u \in Threads : thread'[u].at = thread[u].at
  BY <1>4
<1>7. LimiterTypeInv'
  BY <1>2, <1>4 DEF LimiterTypeInv
<1>8. ClockInv'
  BY <1>2, <1>5, <1>6 DEF ClockInv
<1>9. BucketInv'
  BY <1>2, <1>4 DEF BucketInv
<1>10. Cardinality(bucket) < MaxRequests
  <2>1. Cardinality(bucket) \in Nat
    BY NoLarger DEF BucketInv
  <2> QED
    BY <2>1 DEF PassLimit, Full
<1>11. AloneInv'
  <2>1. ASSUME ~raced, NEW u \in Threads, ActiveCall(u)
        PROVE  thread'[u].pc # "store"
    BY <1>1, <1>4, <2>1 DEF AloneInv
  <2> QED
    BY <1>2, <1>5, <1>6, <1>10, <2>1 DEF AloneInv
<1>12. LimitHeld' /\ RefusedOnlyWhenFull'
  BY <1>2, SameWindows
<1> QED
  BY <1>7, <1>8, <1>9, <1>11, <1>12

LEMMA RefuseInv ==
  ASSUME LimiterInv, NEW t \in Threads, Refuse(t)
  PROVE  LimiterInv'
<1> USE LimiterAssumption DEF LimiterInv
<1> DEFINE at == thread[t].at
<1>1. thread[t].pc = "check" /\ ActiveCall(t) /\ at \in Nat
  BY ActiveFields DEF Refuse, ActiveCall
<1>2. /\ thread' = [thread EXCEPT ![t] = Idle]
      /\ refused' = refused \cup {at}
      /\ UNCHANGED <<mono, calls, bucket, allowed, raced>>
  BY DEF Refuse
<1>3. /\ thread' \in [Threads -> {Idle} \cup Calls]
      /\ thread'[t] = Idle
      /\ \A u \in Threads \ {t} : thread'[u] = thread[u]
  BY <1>2, OneThread
<1>4. \A u \in Threads : ActiveCall(u)' => ActiveCall(u) /\ thread'[u] = thread[u]
  BY <1>3 DEF ActiveCall, Idle
<1>5. \A u \in Threads : thread'[u].pc \in {"store", "check", "append"} =>
        thread'[u] = thread[u]
  BY <1>4 DEF ActiveCall
<1>6. LimiterTypeInv'
  BY <1>1, <1>2, <1>3 DEF LimiterTypeInv
<1>7. ClockInv'
  BY <1>2, <1>4 DEF ClockInv
<1>8. BucketInv'
  BY <1>2, <1>5 DEF BucketInv
<1>9. AloneInv'
  BY <1>2, <1>4, <1>5 DEF AloneInv
<1>10. LimitHeld'
  BY <1>2 DEF LimitHeld, InWindowOf
<1>11. RefusedOnlyWhenFull'
  <2> DEFINE past == {s \in allowed : s.at >= at - LimiterWindow}
  <2>1. bucket \subseteq past /\ past \subseteq allowed
    BY <1>1 DEF BucketInv
  <2>2. /\ Cardinality(bucket) <= Cardinality(past)
        /\ Cardinality(bucket) \in Nat /\ Cardinality(past) \in Nat
    BY <2>1, NoLarger
  <2>3. Cardinality(bucket) >= MaxRequests
    BY DEF Refuse, Full
  <2>4. Cardinality(past) >= MaxRequests
    BY <2>2, <2>3
  <2> QED
    BY <1>2, <2>4 DEF RefusedOnlyWhenFull
<1> QED
  BY <1>6, <1>7, <1>8, <1>9, <1>10, <1>11

\* The one step that lets a request through.
LEMMA AppendInv ==
  ASSUME LimiterInv, NEW t \in Threads, AppendStamp(t)
  PROVE  LimiterInv'
<1> USE LimiterAssumption DEF LimiterInv
<1> DEFINE at == thread[t].at
           stamp == [call |-> thread[t].call, at |-> at]
<1>1. thread[t].pc = "append" /\ ActiveCall(t) /\ at \in Nat /\ thread[t].call \in Nat
  BY ActiveFields DEF AppendStamp, ActiveCall
<1>2. /\ thread' = [thread EXCEPT ![t] = Idle]
      /\ bucket' = bucket \cup {stamp}
      /\ allowed' = allowed \cup {stamp}
      /\ UNCHANGED <<mono, calls, refused, raced>>
  BY DEF AppendStamp
<1>3. stamp \in Stamp /\ stamp.at = at /\ at \in {mono - 1, mono}
  BY <1>1 DEF Stamp, ClockInv
<1> HIDE DEF stamp
<1>4. /\ thread' \in [Threads -> {Idle} \cup Calls]
      /\ thread'[t] = Idle
      /\ \A u \in Threads \ {t} : thread'[u] = thread[u]
  BY <1>2, OneThread
<1>5. \A u \in Threads : ActiveCall(u)' => ActiveCall(u) /\ u # t /\ thread'[u] = thread[u]
  BY <1>4 DEF ActiveCall, Idle
<1>6. \A u \in Threads : thread'[u].pc \in {"store", "check", "append"} =>
        ActiveCall(u) /\ thread'[u] = thread[u]
  BY <1>5 DEF ActiveCall
<1>7. LimiterTypeInv'
  BY <1>2, <1>3, <1>4 DEF LimiterTypeInv
<1>8. ClockInv'
  BY <1>2, <1>3, <1>5 DEF ClockInv, LimiterTypeInv
<1>9. BucketInv'
  <2>1. IsFiniteSet(allowed')
    BY <1>2, FS_AddElement DEF BucketInv
  <2>2. ASSUME NEW u \in Threads, thread'[u].pc = "check", NEW s \in bucket'
        PROVE  s.at >= thread'[u].at - LimiterWindow
    <3>1. ActiveCall(u) /\ thread'[u] = thread[u] /\ thread[u].pc = "check"
      BY <1>6, <2>2
    <3>2. thread[u].at \in {mono - 1, mono}
      BY <3>1 DEF ClockInv
    <3>3. CASE s = stamp
      BY <1>3, <3>1, <3>2, <3>3 DEF LimiterTypeInv
    <3>4. CASE s \in bucket
      BY <3>1, <3>4 DEF BucketInv
    <3> QED
      BY <1>2, <2>2, <3>3, <3>4
  <2> QED
    BY <1>2, <1>6, <2>1, <2>2 DEF BucketInv
<1>10. AloneInv'
  <2>1. ~raced => \A u \in Threads : ~ActiveCall(u)'
    BY <1>1, <1>5 DEF AloneInv
  <2>2. ~raced => \A u \in Threads : thread'[u].pc # "append"
    BY <2>1 DEF ActiveCall
  <2>3. ~raced => \A s \in allowed' : s.at > mono' - LimiterWindow => s \in bucket'
    BY <1>2 DEF AloneInv
  <2> QED
    BY <1>2, <2>1, <2>2, <2>3 DEF AloneInv
<1>11. LimitHeld'
  <2> SUFFICES ASSUME ~raced, NEW w \in 0..mono
               PROVE  Cardinality(InWindowOf(w)') <= MaxRequests
    BY <1>2 DEF LimitHeld, InWindowOf
  <2>1. CASE w < at
    <3>1. InWindowOf(w)' = InWindowOf(w)
      BY <1>1, <1>2, <1>3, <2>1 DEF InWindowOf
    <3> QED
      BY <3>1 DEF LimitHeld
  <2>2. CASE ~(w < at)
    <3>1. InWindowOf(w)' \subseteq bucket'
      <4>1. \A s \in allowed : s.at \in Nat
        BY DEF LimiterTypeInv, Stamp
      <4>2. \A s \in allowed : s.at > at - LimiterWindow => s \in bucket
        BY <1>1 DEF AloneInv
      <4>3. \A s \in allowed : s.at > w - LimiterWindow => s.at > at - LimiterWindow
        BY <1>1, <2>2, <4>1
      <4> QED
        BY <1>2, <4>2, <4>3 DEF InWindowOf
    <3>2. /\ IsFiniteSet(bucket) /\ Cardinality(bucket) \in Nat
          /\ Cardinality(bucket) < MaxRequests
      BY <1>1, NoLarger DEF BucketInv, AloneInv
    <3>3. IsFiniteSet(bucket') /\ Cardinality(bucket') \in Nat
          /\ Cardinality(bucket') <= Cardinality(bucket) + 1
      <4>1. /\ IsFiniteSet(bucket \cup {stamp})
            /\ \/ Cardinality(bucket \cup {stamp}) = Cardinality(bucket)
               \/ Cardinality(bucket \cup {stamp}) = Cardinality(bucket) + 1
        BY <3>2, FS_AddElement
      <4> QED
        BY <1>2, <3>2, <4>1
    <3>4. Cardinality(InWindowOf(w)') \in Nat
          /\ Cardinality(InWindowOf(w)') <= Cardinality(bucket')
      BY <3>1, <3>3, FS_Subset, FS_CardinalityType
    <3> QED
      BY <3>2, <3>3, <3>4
  <2> QED
    BY <2>1, <2>2
<1>12. RefusedOnlyWhenFull'
  <2> SUFFICES ASSUME NEW w \in refused
               PROVE  Cardinality({s \in allowed' : s.at >= w - LimiterWindow}) >= MaxRequests
    BY <1>2 DEF RefusedOnlyWhenFull
  <2> DEFINE past == {s \in allowed : s.at >= w - LimiterWindow}
             past2 == {s \in allowed' : s.at >= w - LimiterWindow}
  <2>1. IsFiniteSet(allowed') /\ past2 \subseteq allowed' /\ past \subseteq past2
    BY <1>2, FS_AddElement DEF BucketInv
  <2>2. Cardinality(past) >= MaxRequests
    BY DEF RefusedOnlyWhenFull
  <2> HIDE DEF past, past2
  <2>3. IsFiniteSet(past2)
    BY <2>1, FS_Subset
  <2>4. /\ Cardinality(past) <= Cardinality(past2)
        /\ Cardinality(past) \in Nat /\ Cardinality(past2) \in Nat
    BY <2>1, <2>3, FS_Subset, FS_CardinalityType
  <2>5. Cardinality(past2) >= MaxRequests
    BY <2>2, <2>4
  <2> QED
    BY <2>5 DEF past2
<1> QED
  BY <1>7, <1>8, <1>9, <1>10, <1>11, <1>12

LEMMA StutterInv == LimiterInv /\ UNCHANGED limiterVars => LimiterInv'
<1> SUFFICES ASSUME LimiterInv, UNCHANGED limiterVars PROVE LimiterInv'
  OBVIOUS
<1>1. UNCHANGED <<mono, calls, bucket, thread, allowed, refused, raced>>
  BY DEF limiterVars
<1> QED
  BY <1>1 DEF LimiterInv, LimiterTypeInv, ClockInv, BucketInv, AloneInv, LimitHeld,
              RefusedOnlyWhenFull, InWindowOf, ActiveCall

LEMMA LimiterInvariance == LimiterSpec => []LimiterInv
<1>1. LimiterInv /\ [LimiterNext]_limiterVars => LimiterInv'
  BY TickInv, ArriveInv, FilterInv, StoreInv, PassInv, RefuseInv, AppendInv, StutterInv
  DEF LimiterNext, LimiterDone
<1> QED
  BY <1>1, LimiterInvInit, PTL DEF LimiterSpec

-----------------------------------------------------------------------------
\* Every variable keeps its type, and a bucket holds stamps of calls only.
THEOREM LimiterTypeCorrect == LimiterSpec => []LimiterTypeOK
<1>1. LimiterInv => LimiterTypeOK
  BY DEF LimiterInv, LimiterTypeInv, BucketInv, LimiterTypeOK
<1> QED
  BY <1>1, LimiterInvariance, PTL

\* As long as no two calls meet, no window lets more than the limit through,
\* for any number of threads, any limit and any window.
THEOREM LimitIsHeld == LimiterSpec => []LimitHeld
<1>1. LimiterInv => LimitHeld
  BY DEF LimiterInv
<1> QED
  BY <1>1, LimiterInvariance, PTL

\* A client is refused only if the limit was let through in the window
\* before, however its calls race.
THEOREM RefusesRightly == LimiterSpec => []RefusedOnlyWhenFull
<1>1. LimiterInv => RefusedOnlyWhenFull
  BY DEF LimiterInv
<1> QED
  BY <1>1, LimiterInvariance, PTL
=============================================================================
