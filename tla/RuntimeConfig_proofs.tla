------------------------ MODULE RuntimeConfig_proofs ------------------------
(***************************************************************************)
(* One thread refreshes the settings at a time, not too often, and the     *)
(* cache neither goes back nor ages beyond its bound, for any number of    *)
(* threads, edits and failures.                                            *)
(***************************************************************************)
EXTENDS RuntimeConfig, TLAPS

USE DEF Nothing, Never

(* The changes that the steps make to a thread's state.                    *)
LEMMA ThreadStates ==
  ASSUME TypeOK
  PROVE  /\ Idle \in ThreadState
         /\ \A t \in Thread, step \in Step :
                [thread[t] EXCEPT !.at = step] \in ThreadState
         /\ \A t \in Thread, step \in Step, excuse \in {"none", "backoff", "busy", "failed"} :
                [thread[t] EXCEPT !.at = step, !.excuse = excuse] \in ThreadState
         /\ \A t \in Thread, step \in Step, doc \in Nothing..MaxEdits :
                [thread[t] EXCEPT !.at = step, !.doc = doc] \in ThreadState
<1> USE DEF TypeOK, ThreadState
<1>1. Idle \in ThreadState
  BY TimesAssumption, EditsAssumption DEF Idle, Step
<1>2. ASSUME NEW t \in Thread, NEW step \in Step
      PROVE  [thread[t] EXCEPT !.at = step] \in ThreadState
  OBVIOUS
<1>3. ASSUME NEW t \in Thread, NEW step \in Step,
             NEW excuse \in {"none", "backoff", "busy", "failed"}
      PROVE  [thread[t] EXCEPT !.at = step, !.excuse = excuse] \in ThreadState
  OBVIOUS
<1>4. ASSUME NEW t \in Thread, NEW step \in Step, NEW doc \in Nothing..MaxEdits
      PROVE  [thread[t] EXCEPT !.at = step, !.doc = doc] \in ThreadState
  OBVIOUS
<1> QED
  BY <1>1, <1>2, <1>3, <1>4

(* A well-typed state for one thread leaves the others as they are.        *)
LEMMA OneThreadMoves ==
  ASSUME TypeOK, NEW t \in Thread, NEW rec \in ThreadState, Becomes(t, rec)
  PROVE  thread' \in [Thread -> ThreadState]
BY DEF TypeOK, Becomes

(* What refresh() assigns stays in range, and get() is left in one of its  *)
(* steps.                                                                  *)
LEMMA TypeRefresh == ASSUME TypeOK, NEW t \in Thread, Refreshes(t) PROVE TypeOK'
<1> "test" \in Step /\ "store" \in Step /\ "report" \in Step
  BY DEF Step
<1>1. now \in Never..MaxClock /\ Never \in Never..MaxClock /\ edits \in Nothing..MaxEdits
  BY EditsAssumption, TimesAssumption DEF TypeOK
<1>2. thread[t].doc \in Nothing..MaxEdits
  BY DEF TypeOK, ThreadState
<1>3. lock \ {t} \subseteq Thread
  BY DEF TypeOK
<1>4. CASE NoDatabase(t)
  <2>1. thread' \in [Thread -> ThreadState]
    BY <1>4, ThreadStates, OneThreadMoves DEF NoDatabase
  <2> QED
    BY <1>1, <1>3, <1>4, <2>1 DEF TypeOK, NoDatabase
<1>5. CASE ReadSettings(t)
  <2>1. [thread[t] EXCEPT !.at = "store", !.doc = edits] \in ThreadState
    BY <1>1, ThreadStates
  <2>2. thread' \in [Thread -> ThreadState]
    BY <1>5, <2>1, OneThreadMoves DEF ReadSettings
  <2> QED
    BY <1>5, <2>2 DEF TypeOK, ReadSettings
<1>6. CASE Fails(t)
  <2> DEFINE excuse == IF At(t, "read") THEN "failed" ELSE "none"
  <2>1. excuse \in {"none", "backoff", "busy", "failed"}
    OBVIOUS
  <2>2. [thread[t] EXCEPT !.at = "test", !.excuse = excuse] \in ThreadState
    BY <2>1, ThreadStates
  <2>3. thread' \in [Thread -> ThreadState]
    BY <1>6, <2>2, OneThreadMoves DEF Fails
  <2> QED
    BY <1>1, <1>3, <1>6, <2>3 DEF TypeOK, Fails
<1>7. CASE Store(t)
  <2>1. thread' \in [Thread -> ThreadState]
    BY <1>7, ThreadStates, OneThreadMoves DEF Store
  <2> QED
    BY <1>1, <1>2, <1>7, <2>1 DEF TypeOK, Store
<1>8. CASE Reported(t)
  <2>1. thread' \in [Thread -> ThreadState]
    BY <1>8, ThreadStates, OneThreadMoves DEF Reported
  <2> QED
    BY <1>3, <1>8, <2>1 DEF TypeOK, Reported
<1> QED
  BY <1>4, <1>5, <1>6, <1>7, <1>8 DEF Refreshes

(* Every step of get() and refresh() leaves the cache well typed.          *)
LEMMA TypeStep == TypeOK /\ [Next]_vars => TypeOK'
<1> SUFFICES ASSUME TypeOK, [Next]_vars PROVE TypeOK'
  OBVIOUS
<1>1. CASE Edit
  <2>1. edits' \in 0..MaxEdits /\ edits + 1 \in 0..MaxEdits
    BY <1>1, EditsAssumption DEF Edit, TypeOK
  <2> QED
    BY <1>1, <2>1 DEF Edit, TypeOK
<1>2. CASE Tick
  BY <1>2, TimesAssumption DEF Tick, TypeOK
<1>3. ASSUME NEW t \in Thread, Begin(t) PROVE TypeOK'
  <2> DEFINE to == IF Fresh THEN "test" ELSE "failure"
             rec == [Idle EXCEPT !.at = to, !.began = now]
  <2>1. to \in Step
    BY DEF Step
  <2>2. Idle \in ThreadState /\ now \in 0..MaxClock /\ MaxClock \in Nat
    BY ThreadStates, TimesAssumption DEF TypeOK
  <2>3. rec \in ThreadState
    <3> HIDE DEF to
    <3> QED
      BY <2>1, <2>2 DEF ThreadState
  <2>4. Becomes(t, rec)
    BY <1>3 DEF Begin
  <2>5. thread' \in [Thread -> ThreadState]
    BY <2>3, <2>4, OneThreadMoves
  <2> QED
    BY <1>3, <2>5 DEF Begin, TypeOK
<1>4. ASSUME NEW t \in Thread, Refreshes(t) PROVE TypeOK'
  BY <1>4, TypeRefresh
<1>5. ASSUME NEW t \in Thread, Gets(t) PROVE TypeOK'
  <2> /\ "read" \in Step /\ "test" \in Step /\ "lookup" \in Step /\ "raised" \in Step
      /\ "acquire" \in Step /\ "backoff" \in Step
    BY DEF Step
  <2>1. CASE TryLock(t)
    BY <2>1, ThreadStates DEF TryLock, TypeOK, Becomes
  <2>2. CASE Test(t)
    <3>1. thread' \in [Thread -> ThreadState]
      BY <2>2, ThreadStates, OneThreadMoves DEF Test
    <3> QED
      BY <2>2, <3>1 DEF Test, TypeOK
  <2>3. CASE Lookup(t)
    <3>1. thread' \in [Thread -> ThreadState]
      BY <2>3, ThreadStates, OneThreadMoves DEF Lookup
    <3> QED
      BY <2>3, <3>1 DEF Lookup, TypeOK
  <2>4. CASE Raises(t)
    <3>1. thread' \in [Thread -> ThreadState]
      BY <2>4, ThreadStates, OneThreadMoves DEF Raises
    <3> QED
      BY <2>4, <3>1 DEF Raises, TypeOK
  <2>5. CASE FailureSought(t)
    <3>1. thread' \in [Thread -> ThreadState]
      BY <2>5, ThreadStates, OneThreadMoves DEF FailureSought
    <3> QED
      BY <2>5, <3>1 DEF FailureSought, TypeOK
  <2>6. CASE FailureDated(t)
    <3>1. thread' \in [Thread -> ThreadState]
      BY <2>6, ThreadStates, OneThreadMoves DEF FailureDated
    <3> QED
      BY <2>6, <3>1 DEF FailureDated, TypeOK
  <2> QED
    BY <1>5, <2>1, <2>2, <2>3, <2>4, <2>5, <2>6 DEF Gets
<1>6. CASE UNCHANGED vars
  BY <1>6 DEF vars, TypeOK
<1> QED
  BY <1>1, <1>2, <1>3, <1>4, <1>5, <1>6 DEF Next

(* Type correctness of the settings cache.                                 *)
THEOREM TypeCorrect == Spec => []TypeOK
<1>1. Init => TypeOK
  BY EditsAssumption, TimesAssumption DEF Init, TypeOK, ThreadState, Step, Idle
<1> QED
  BY <1>1, TypeStep, PTL DEF Spec

----------------------------------------------------------------------------

(* A thread is between the acquisition and the release of _lock in these   *)
(* places.                                                                 *)
Refreshing(t) == thread[t].at \in {"read", "store", "report"}

OneRefresher ==
    /\ \A t \in Thread : Refreshing(t) <=> t \in lock
    /\ \A t, u \in lock : t = u

(* What is in the cache, and what a thread has read and is about to store, *)
(* are in this order.                                                      *)
ReadsInOrder ==
    /\ overrides <= edits
    /\ \A t \in Thread : At(t, "store") => overrides <= thread[t].doc /\ thread[t].doc <= edits

(* The order is kept only because nobody else stores in between.           *)
IInv == TypeOK /\ OneRefresher /\ ReadsInOrder

LEMMA InvInit == Init => IInv
<1>1. Init => TypeOK
  BY EditsAssumption, TimesAssumption DEF Init, TypeOK, ThreadState, Step, Idle
<1> QED
  BY <1>1 DEF Init, IInv, OneRefresher, ReadsInOrder, Refreshing, At, Idle

(* The lock is what keeps two threads apart.                               *)
LEMMA OneRefresherStep == IInv /\ [Next]_vars => OneRefresher'
<1> SUFFICES ASSUME IInv, [Next]_vars PROVE OneRefresher'
  OBVIOUS
<1> USE DEF IInv, TypeOK, ThreadState, OneRefresher, Refreshing, At, Becomes
<1>1. CASE Edit
  BY <1>1 DEF Edit
<1>2. CASE Tick
  BY <1>2 DEF Tick
<1>3. ASSUME NEW t \in Thread, Begin(t) PROVE OneRefresher'
  BY <1>3 DEF Begin, Idle
<1>4. ASSUME NEW t \in Thread, Refreshes(t) PROVE OneRefresher'
  <2>1. CASE NoDatabase(t)
    BY <2>1 DEF NoDatabase
  <2>2. CASE ReadSettings(t)
    BY <2>2 DEF ReadSettings
  <2>3. CASE Fails(t)
    BY <2>3 DEF Fails
  <2>4. CASE Store(t)
    BY <2>4 DEF Store
  <2>5. CASE Reported(t)
    BY <2>5 DEF Reported
  <2> QED
    BY <1>4, <2>1, <2>2, <2>3, <2>4, <2>5 DEF Refreshes
<1>5. ASSUME NEW t \in Thread, Gets(t) PROVE OneRefresher'
  <2>1. CASE TryLock(t)
    <3>1. CASE lock = {} /\ lock' = {t} /\ Becomes(t, [thread[t] EXCEPT !.at = "read"])
      BY <3>1
    <3>2. CASE UNCHANGED lock /\ Becomes(t, [thread[t] EXCEPT !.at = "test", !.excuse = "busy"])
      BY <2>1, <3>2 DEF TryLock
    <3> QED
      BY <2>1, <3>1, <3>2 DEF TryLock
  <2>2. CASE Test(t)
    BY <2>2 DEF Test, Idle
  <2>3. CASE Lookup(t)
    BY <2>3 DEF Lookup, Idle
  <2>4. CASE Raises(t)
    BY <2>4 DEF Raises, Idle
  <2>5. CASE FailureSought(t) \/ FailureDated(t)
    <3>1. UNCHANGED lock /\ ~ Refreshing(t) /\ \A u \in Thread \ {t} : thread'[u] = thread[u]
      BY <2>5 DEF FailureSought, FailureDated
    <3>2. thread'[t].at \in {"acquire", "backoff", "raised", "test"}
      <4>1. CASE FailureSought(t)
        BY <4>1 DEF FailureSought
      <4>2. CASE FailureDated(t)
        <5>1. \/ Becomes(t, [thread[t] EXCEPT !.at = "raised"])
              \/ Becomes(t, [thread[t] EXCEPT !.at = "test", !.excuse = "backoff"])
              \/ Becomes(t, [thread[t] EXCEPT !.at = "acquire"])
          BY <4>2 DEF FailureDated
        <5>2. thread[t] \in ThreadState
          OBVIOUS
        <5>3. CASE Becomes(t, [thread[t] EXCEPT !.at = "test", !.excuse = "backoff"])
          <6>1. [thread[t] EXCEPT !.at = "test", !.excuse = "backoff"].at = "test"
            BY <5>2
          <6> QED
            BY <5>3, <6>1
        <5> QED
          BY <5>1, <5>2, <5>3
      <4> QED
        BY <2>5, <4>1, <4>2
    <3> QED
      BY <3>1, <3>2
  <2> QED
    BY <1>5, <2>1, <2>2, <2>3, <2>4, <2>5 DEF Gets
<1>6. CASE UNCHANGED vars
  BY <1>6 DEF vars
<1> QED
  BY <1>1, <1>2, <1>3, <1>4, <1>5, <1>6 DEF Next

(* A read is never older than the cache, and only its own store moves the  *)
(* cache before it is stored.                                              *)
LEMMA ReadsInOrderStep == IInv /\ [Next]_vars => ReadsInOrder'
<1> SUFFICES ASSUME IInv, [Next]_vars PROVE ReadsInOrder'
  OBVIOUS
<1> USE DEF IInv, TypeOK, ThreadState, ReadsInOrder, At, Becomes
<1>1. CASE Edit
  BY <1>1, EditsAssumption DEF Edit
<1>2. CASE Tick
  BY <1>2 DEF Tick
<1>3. ASSUME NEW t \in Thread, Begin(t) PROVE ReadsInOrder'
  BY <1>3 DEF Begin, Idle
<1>4. ASSUME NEW t \in Thread, Refreshes(t) PROVE ReadsInOrder'
  <2>1. CASE NoDatabase(t)
    BY <2>1 DEF NoDatabase
  <2>2. CASE ReadSettings(t)
    BY <2>2, EditsAssumption DEF ReadSettings
  <2>3. CASE Fails(t)
    BY <2>3 DEF Fails
  <2>4. CASE Store(t)
    <3>1. ASSUME NEW u \in Thread, u # t PROVE ~ At(u, "store")
      BY <2>4, <3>1 DEF Store, OneRefresher, Refreshing
    <3> QED
      BY <2>4, <3>1 DEF Store
  <2>5. CASE Reported(t)
    BY <2>5 DEF Reported
  <2> QED
    BY <1>4, <2>1, <2>2, <2>3, <2>4, <2>5 DEF Refreshes
<1>5. ASSUME NEW t \in Thread, Gets(t) PROVE ReadsInOrder'
  <2>1. CASE TryLock(t)
    BY <2>1 DEF TryLock
  <2>2. CASE Test(t)
    BY <2>2 DEF Test, Idle
  <2>3. CASE Lookup(t)
    BY <2>3 DEF Lookup, Idle
  <2>4. CASE Raises(t)
    BY <2>4 DEF Raises, Idle
  <2>5. CASE FailureSought(t) \/ FailureDated(t)
    BY <2>5 DEF FailureSought, FailureDated
  <2> QED
    BY <1>5, <2>1, <2>2, <2>3, <2>4, <2>5 DEF Gets
<1>6. CASE UNCHANGED vars
  BY <1>6 DEF vars
<1> QED
  BY <1>1, <1>2, <1>3, <1>4, <1>5, <1>6 DEF Next

LEMMA InvStep == IInv /\ [Next]_vars => IInv'
BY TypeStep, OneRefresherStep, ReadsInOrderStep DEF IInv

(* refresh() is a critical section: never are two threads in it.           *)
THEOREM RefreshesOneAtATime == Spec => []OneRefresher
<1>1. IInv => OneRefresher
  BY DEF IInv
<1> QED
  BY <1>1, InvInit, InvStep, PTL DEF Spec

(* The cache never goes back to older values, whatever the order in which  *)
(* threads read, fail and store.                                           *)
THEOREM CacheNeverGoesBack == Spec => SnapshotNeverOlder
<1>1. IInv /\ [Next]_vars => [overrides' >= overrides]_vars
  <2> SUFFICES ASSUME IInv, [Next]_vars, vars' # vars PROVE overrides' >= overrides
    OBVIOUS
  <2>1. overrides \in Int
    BY EditsAssumption DEF IInv, TypeOK
  <2>2. ASSUME NEW t \in Thread, Store(t) PROVE overrides' >= overrides
    BY <2>1, <2>2, EditsAssumption DEF Store, IInv, TypeOK, ReadsInOrder
  <2>3. CASE UNCHANGED overrides
    BY <2>1, <2>3
  <2>4. (\E t \in Thread : Store(t)) \/ UNCHANGED overrides
    BY DEF Next, Edit, Tick, Begin, Refreshes, NoDatabase, ReadSettings, Fails, Reported,
           Gets, FailureSought, FailureDated, TryLock, Test, Lookup, Raises
  <2> QED
    BY <2>2, <2>3, <2>4
<1> QED
  BY <1>1, InvInit, InvStep, PTL DEF Spec, SnapshotNeverOlder

----------------------------------------------------------------------------
(* Time.  The clock does not run away from a get(), nor from the cache.    *)

Punctual(t) ==
    ~ At(t, "idle") => thread[t].began <= now /\ now <= thread[t].began + Slowness

(* A thread that goes for the lock had found the cache too old, and no     *)
(* failure too recent; others may have read, or failed, since it looked.   *)
OldEnough(stamp, began, age) == stamp \in {Never} \union began .. now \/ now - stamp >= age

MayRead(t) ==
    /\ At(t, "failure") \/ At(t, "backoff") \/ At(t, "acquire") =>
           OldEnough(fetched_at, thread[t].began, TTL)
    /\ At(t, "acquire") => OldEnough(failed_at, thread[t].began, RetryAfter)

InTime ==
    /\ fetched_at <= now /\ failed_at <= now
    /\ \A t \in Thread : Punctual(t) /\ MayRead(t)

(* What a step of one thread leaves to the others, and to itself.          *)
LEMMA BecomesOnly ==
    ASSUME TypeOK, NEW t \in Thread, NEW rec, Becomes(t, rec)
    PROVE  thread'[t] = rec /\ \A u \in Thread \ {t} : thread'[u] = thread[u]
BY DEF TypeOK, Becomes

LEMMA OtherFieldsStay ==
    ASSUME NEW rec \in ThreadState, NEW step, NEW value
    PROVE  /\ [rec EXCEPT !.at = step, !.excuse = value].at = step
           /\ [rec EXCEPT !.at = step, !.excuse = value].began = rec.began
           /\ [rec EXCEPT !.at = step, !.excuse = value].excuse = value
           /\ [rec EXCEPT !.at = step, !.doc = value].at = step
           /\ [rec EXCEPT !.at = step, !.doc = value].began = rec.began
           /\ [rec EXCEPT !.at = step, !.doc = value].doc = value
           /\ [rec EXCEPT !.at = step].began = rec.began
           /\ [rec EXCEPT !.at = step].excuse = rec.excuse
BY DEF ThreadState

LEMMA BeginSets ==
    ASSUME TypeOK, NEW t \in Thread, Begin(t)
    PROVE  /\ At(t, "idle")
           /\ thread'[t].at = IF Fresh THEN "test" ELSE "failure"
           /\ thread'[t].began = now
<1>1. ASSUME NEW rec \in ThreadState, NEW step, NEW time
      PROVE  /\ [rec EXCEPT !.at = step, !.began = time].at = step
             /\ [rec EXCEPT !.at = step, !.began = time].began = time
  BY DEF ThreadState
<1> DEFINE to == IF Fresh THEN "test" ELSE "failure"
           new == [Idle EXCEPT !.at = to, !.began = now]
<1>2. Becomes(t, new) /\ At(t, "idle")
  BY DEF Begin
<1>3. thread'[t] = new
  BY <1>2, BecomesOnly
<1>4. new.at = to /\ new.began = now
  <2>1. Idle \in ThreadState
    BY ThreadStates
  <2> HIDE DEF to
  <2> QED
    BY <1>1, <2>1
<1> QED
  BY <1>2, <1>3, <1>4

(* On its way to the lock a thread looks for a failure and how old it is.  *)
LooksForFailure(t) ==
    /\ At(t, "failure") \/ At(t, "backoff")
    /\ thread'[t].at = "acquire" => failed_at = Never \/ ~ BackingOff(t)

(* One step of a thread: where it comes from, where it gets, and which of  *)
(* the two times it sets.                                                  *)
ThreadMoves(t) ==
    /\ \A u \in Thread \ {t} : thread'[u] = thread[u]
    /\ UNCHANGED <<configured, now>>
    /\ fetched_at' \in {fetched_at, now}
    /\ failed_at' \in {failed_at, now, Never}
    /\ \/ thread'[t].at = "idle"
       \/ Begin(t)
       \/ /\ ~ At(t, "idle")
          /\ thread'[t].began = thread[t].began
          /\ thread'[t].at \in {"failure", "backoff", "acquire"} =>
                 LooksForFailure(t) /\ UNCHANGED <<fetched_at, failed_at>>

LEMMA ThreadStep ==
    ASSUME TypeOK, NEW t \in Thread, Begin(t) \/ Refreshes(t) \/ Gets(t)
    PROVE  ThreadMoves(t)
<1> USE BecomesOnly DEF ThreadMoves, At
<1>1. thread[t] \in ThreadState
  BY DEF TypeOK
<1>2. CASE Begin(t)
  BY <1>2 DEF Begin
<1>3. CASE NoDatabase(t)
  BY <1>1, <1>3 DEF NoDatabase, ThreadState
<1>4. CASE ReadSettings(t)
  <2> DEFINE rec == [thread[t] EXCEPT !.at = "store", !.doc = edits]
  <2>1. rec.at = "store" /\ rec.began = thread[t].began
    BY <1>1, OtherFieldsStay
  <2>2. Becomes(t, rec)
    BY <1>4 DEF ReadSettings
  <2> HIDE DEF rec
  <2> QED
    BY <1>4, <2>1, <2>2 DEF ReadSettings
<1>5. CASE Fails(t)
  <2> DEFINE excuse == IF At(t, "read") THEN "failed" ELSE "none"
             rec == [thread[t] EXCEPT !.at = "test", !.excuse = excuse]
  <2>1. rec.at = "test" /\ rec.began = thread[t].began
    BY <1>1, OtherFieldsStay
  <2>2. Becomes(t, rec)
    BY <1>5 DEF Fails
  <2> HIDE DEF rec
  <2> QED
    BY <1>5, <2>1, <2>2 DEF Fails
<1>6. CASE Store(t)
  BY <1>1, <1>6 DEF Store, ThreadState
<1>7. CASE Reported(t)
  BY <1>1, <1>7 DEF Reported, ThreadState
<1>8. CASE TryLock(t)
  <2> DEFINE busy == [thread[t] EXCEPT !.at = "test", !.excuse = "busy"]
             free == [thread[t] EXCEPT !.at = "read"]
  <2>1. busy.at = "test" /\ busy.began = thread[t].began
    BY <1>1, OtherFieldsStay
  <2>2. free.at = "read" /\ free.began = thread[t].began
    BY <1>1 DEF ThreadState
  <2>3. Becomes(t, busy) \/ Becomes(t, free)
    BY <1>8 DEF TryLock
  <2> HIDE DEF busy, free
  <2> QED
    BY <1>8, <2>1, <2>2, <2>3 DEF TryLock
<1>9. CASE Test(t)
  BY <1>1, <1>9 DEF Test, ThreadState, Idle
<1>10. CASE Lookup(t)
  BY <1>1, <1>10 DEF Lookup, ThreadState, Idle
<1>11. CASE Raises(t)
  BY <1>1, <1>11 DEF Raises, ThreadState, Idle
<1>12. CASE FailureSought(t)
  <2> DEFINE to == IF failed_at = Never THEN "acquire" ELSE "backoff"
             rec == [thread[t] EXCEPT !.at = to]
  <2>1. rec.at = to /\ rec.began = thread[t].began
    BY <1>1 DEF ThreadState
  <2>2. Becomes(t, rec)
    BY <1>12 DEF FailureSought
  <2>3. to = "acquire" => failed_at = Never
    OBVIOUS
  <2> HIDE DEF rec, to
  <2> QED
    BY <1>12, <2>1, <2>2, <2>3 DEF FailureSought, LooksForFailure
<1>13. CASE FailureDated(t)
  <2> DEFINE raised == [thread[t] EXCEPT !.at = "raised"]
             waits == [thread[t] EXCEPT !.at = "test", !.excuse = "backoff"]
             goes == [thread[t] EXCEPT !.at = "acquire"]
  <2>1. /\ raised.at = "raised" /\ raised.began = thread[t].began
        /\ goes.at = "acquire" /\ goes.began = thread[t].began
    BY <1>1 DEF ThreadState
  <2>2. waits.at = "test" /\ waits.began = thread[t].began
    BY <1>1, OtherFieldsStay
  <2>3. Becomes(t, raised) \/ Becomes(t, waits) \/ (Becomes(t, goes) /\ ~ BackingOff(t))
    BY <1>13 DEF FailureDated
  <2> HIDE DEF raised, waits, goes
  <2> QED
    BY <1>13, <2>1, <2>2, <2>3 DEF FailureDated, LooksForFailure
<1> QED
  BY <1>2, <1>3, <1>4, <1>5, <1>6, <1>7, <1>8, <1>9, <1>10, <1>11, <1>12, <1>13
  DEF Refreshes, Gets

LEMMA InTimeStep == TypeOK /\ InTime /\ [Next]_vars => InTime'
<1> SUFFICES ASSUME TypeOK, InTime, [Next]_vars PROVE InTime'
  OBVIOUS
<1>1. /\ now \in Nat /\ fetched_at \in Int /\ failed_at \in Int /\ MaxClock \in Nat
      /\ TTL \in Nat /\ RetryAfter \in Nat /\ Slowness \in Nat
      /\ \A t \in Thread : thread[t].began \in Nat
  BY TimesAssumption DEF TypeOK, ThreadState
<1> USE <1>1 DEF InTime, Punctual, MayRead, OldEnough
<1>2. CASE Tick
  BY <1>2 DEF Tick, At
<1>3. ASSUME NEW t \in Thread, ThreadMoves(t) PROVE InTime'
  <2>1. ASSUME NEW u \in Thread \ {t} PROVE Punctual(u)' /\ MayRead(u)'
    BY <1>3, <2>1 DEF ThreadMoves, At
  <2>2. Punctual(t)' /\ MayRead(t)'
    <3>1. CASE Begin(t)
      <4>1. thread'[t].began = now
        BY <3>1, BeginSets
      <4>2. thread'[t].at = IF Fresh THEN "test" ELSE "failure"
        BY <3>1, BeginSets
      <4>3. UNCHANGED <<fetched_at, failed_at, now>>
        BY <3>1 DEF Begin
      <4> QED
        BY <4>1, <4>2, <4>3 DEF Fresh, At
    <3>2. CASE ~ Begin(t)
      <4>1. CASE thread'[t].at \in {"failure", "backoff", "acquire"}
        <5>1. LooksForFailure(t) /\ UNCHANGED <<fetched_at, failed_at, now>>
          BY <1>3, <3>2, <4>1 DEF ThreadMoves
        <5>2. ~ At(t, "idle") /\ thread'[t].began = thread[t].began
          BY <1>3, <3>2, <4>1 DEF ThreadMoves
        <5> QED
          BY <5>1, <5>2 DEF LooksForFailure, BackingOff, At
      <4>2. CASE thread'[t].at \notin {"failure", "backoff", "acquire"}
        BY <1>3, <3>2, <4>2 DEF ThreadMoves, At
      <4> QED
        BY <4>1, <4>2
    <3> QED
      BY <3>1, <3>2
  <2>3. fetched_at' <= now' /\ failed_at' <= now'
    BY <1>3 DEF ThreadMoves
  <2> QED
    BY <2>1, <2>2, <2>3
<1>4. CASE Edit \/ UNCHANGED vars
  BY <1>4 DEF Edit, vars, At
<1> QED
  BY <1>2, <1>3, <1>4, ThreadStep DEF Next

(* However the threads interleave: nobody reads the database within the    *)
(* TTL of a read or the back-off of a failure that it could have known of. *)
THEOREM DatabaseIsSpared == Spec => SparesDatabase
<1>1. Init => TypeOK /\ InTime
  <2> SUFFICES ASSUME Init PROVE TypeOK /\ InTime
    OBVIOUS
  <2>1. TypeOK
    BY InvInit DEF IInv
  <2> QED
    BY <2>1, TimesAssumption DEF Init, InTime, Punctual, MayRead, At, Idle
<1>2. TypeOK /\ InTime /\ [Next]_vars => (TypeOK /\ InTime)'
  BY TypeStep, InTimeStep
<1>3. InTime =>
          [\A t \in Thread :
               At(t, "acquire") /\ thread'[t].at = "read" =>
                   /\ \/ fetched_at \in {Never} \union thread[t].began .. now
                      \/ now - fetched_at >= TTL
                   /\ \/ failed_at \in {Never} \union thread[t].began .. now
                      \/ now - failed_at >= RetryAfter]_vars
  BY DEF InTime, MayRead, OldEnough
<1> QED
  BY <1>1, <1>2, <1>3, PTL DEF Spec, SparesDatabase

----------------------------------------------------------------------------
(* Freshness.  What a snapshot lacks was edited after it was read.         *)

(* The values up to an edit were still in force at a time.                 *)
InForceAt(edit, time) == edit < edits => edited_at[edit + 1] >= time

ReadInTime(t) == At(t, "store") => InForceAt(thread[t].doc, thread[t].began)

(* A thread without an excuse, from the moment it knows the cache is good. *)
KnowsFresh(t) ==
    \/ At(t, "report")
    \/ At(t, "test") /\ thread[t].excuse = "none"
    \/ At(t, "lookup") /\ thread[t].excuse = "none"

AnswersInTime(t) ==
    KnowsFresh(t) => InForceAt(overrides, thread[t].began - TTL - Slowness)

Current ==
    configured =>
        /\ fetched_at # Never => InForceAt(overrides, fetched_at - Slowness)
        /\ \A t \in Thread : ReadInTime(t) /\ AnswersInTime(t)

LEMMA CurrentStep == IInv /\ InTime /\ Current /\ [Next]_vars => Current'
<1> SUFFICES ASSUME IInv, InTime, Current, [Next]_vars, configured' PROVE Current'
  BY DEF Current
<1>1. /\ now \in Nat /\ fetched_at \in Int /\ MaxClock \in Nat /\ MaxEdits \in Nat
      /\ TTL \in Nat /\ Slowness \in Nat /\ edits \in 0..MaxEdits /\ overrides \in Int
      /\ overrides <= edits /\ overrides + 1 >= 0
      /\ \A e \in 0..MaxEdits : edited_at[e] \in Nat
      /\ \A t \in Thread : /\ thread[t].began \in Nat
                           /\ thread[t].doc \in Int /\ thread[t].doc + 1 >= 0
  BY TimesAssumption, EditsAssumption DEF IInv, TypeOK, ThreadState, ReadsInOrder
<1>2. TypeOK /\ configured
  BY DEF IInv, Next, Edit, Tick, Begin, Refreshes, NoDatabase, ReadSettings, Fails, Store,
         Reported, Gets, FailureSought, FailureDated, TryLock, Test, Lookup, Raises, vars
<1> USE <1>1, <1>2 DEF Current

<1>3. CASE Edit
  <2>1. ASSUME NEW e \in Int, NEW time \in Int, e + 1 >= 0, time <= now, InForceAt(e, time)
        PROVE  e < edits' => edited_at'[e + 1] >= time
    BY <1>3, <2>1 DEF Edit, TypeOK, InForceAt
  <2>2. UNCHANGED <<overrides, fetched_at, thread>>
    BY <1>3 DEF Edit
  <2>3. fetched_at # Never => InForceAt(overrides, fetched_at - Slowness)'
    BY <2>1, <2>2 DEF InTime, InForceAt
  <2>4. ASSUME NEW t \in Thread PROVE ReadInTime(t)' /\ AnswersInTime(t)'
    <3>1. ~ At(t, "idle") => thread[t].began <= now
      BY DEF InTime, Punctual
    <3>2. ReadInTime(t)'
      BY <2>1, <2>2, <3>1 DEF ReadInTime, InForceAt, At
    <3>3. AnswersInTime(t)'
      BY <2>1, <2>2, <3>1 DEF AnswersInTime, KnowsFresh, InForceAt, At
    <3> QED
      BY <3>2, <3>3
  <2> QED
    BY <2>2, <2>3, <2>4
<1>4. ASSUME NEW t \in Thread, Store(t) PROVE Current'
  <2> DEFINE began == thread[t].began
             doc == thread[t].doc
  <2>1. InForceAt(doc, began) /\ now - Slowness <= began
    BY <1>4 DEF Store, ReadInTime, InTime, Punctual, At
  <2>2. /\ overrides' = doc /\ fetched_at' = now /\ UNCHANGED <<edits, edited_at>>
        /\ thread'[t].at = "report" /\ thread'[t].began = began
        /\ \A u \in Thread \ {t} : thread'[u] = thread[u]
    <3>1. thread[t] \in ThreadState /\ Becomes(t, [thread[t] EXCEPT !.at = "report"])
      BY <1>4 DEF Store, TypeOK
    <3>2. thread'[t].at = "report" /\ thread'[t].began = began
      BY <3>1, BecomesOnly DEF ThreadState
    <3> QED
      BY <1>4, <3>1, <3>2, BecomesOnly DEF Store
  <2>3. InForceAt(overrides, fetched_at - Slowness)'
    BY <2>1, <2>2 DEF InForceAt
  <2>4. ReadInTime(t)' /\ AnswersInTime(t)'
    BY <2>1, <2>2 DEF ReadInTime, AnswersInTime, KnowsFresh, InForceAt, At
  <2>5. ASSUME NEW u \in Thread \ {t} PROVE ReadInTime(u)' /\ AnswersInTime(u)'
    <3>1. ReadInTime(u)'
      BY <2>2 DEF ReadInTime, InForceAt, At
    <3>2. ~ At(u, "idle") => thread[u].began - Slowness <= began
      BY <2>1 DEF InTime, Punctual
    <3>3. AnswersInTime(u)'
      BY <2>1, <2>2, <3>2 DEF AnswersInTime, KnowsFresh, InForceAt, At
    <3> QED
      BY <3>1, <3>3
  <2> QED
    BY <2>3, <2>4, <2>5
<1>5. ASSUME NEW t \in Thread, UNCHANGED <<edits, edited_at, overrides, fetched_at>>,
             \A u \in Thread \ {t} : thread'[u] = thread[u],
             ReadInTime(t)' /\ AnswersInTime(t)'
      PROVE  Current'
  BY <1>5 DEF ReadInTime, AnswersInTime, KnowsFresh, InForceAt, At
<1>6. ASSUME NEW t \in Thread, Begin(t) PROVE Current'
  <2>1. UNCHANGED <<edits, edited_at, overrides, fetched_at>>
    BY <1>6 DEF Begin
  <2>2. thread'[t].at \in {"test", "failure"} /\ thread'[t].began = now
    BY <1>6, BeginSets
  <2>3. thread'[t].at = "test" => Fresh
    BY <1>6, BeginSets
  <2>4. ReadInTime(t)' /\ AnswersInTime(t)'
    BY <2>1, <2>2, <2>3 DEF ReadInTime, AnswersInTime, KnowsFresh, InForceAt, At, Fresh
  <2>5. \A u \in Thread \ {t} : thread'[u] = thread[u]
    BY <1>6, BecomesOnly DEF Begin
  <2> QED
    BY <1>5, <2>1, <2>4, <2>5
<1>7. ASSUME NEW t \in Thread, NEW rec, Becomes(t, rec),
             UNCHANGED <<edits, edited_at, overrides, fetched_at>>,
             \/ rec.at \notin {"store", "report", "test", "lookup"}
             \/ rec.at = "store" /\ rec.doc = edits
             \/ rec.at \in {"test", "lookup"} /\ rec.excuse \in {"backoff", "busy", "failed"}
             \/ /\ At(t, "report") \/ At(t, "test") \/ At(t, "lookup")
                /\ rec.at \in {"test", "lookup"}
                /\ rec.began = thread[t].began
                /\ At(t, "report") \/ rec.excuse = thread[t].excuse
      PROVE  Current'
  <2>1. thread'[t] = rec /\ \A u \in Thread \ {t} : thread'[u] = thread[u]
    BY <1>7, BecomesOnly
  <2>2. ReadInTime(t)'
    BY <1>7, <2>1 DEF ReadInTime, InForceAt, At
  <2>3. AnswersInTime(t)'
    <3>1. AnswersInTime(t)
      OBVIOUS
    <3>2. CASE /\ At(t, "report") \/ At(t, "test") \/ At(t, "lookup")
               /\ rec.began = thread[t].began
               /\ At(t, "report") \/ rec.excuse = thread[t].excuse
      <4>1. rec.excuse = "none" => InForceAt(overrides, rec.began - TTL - Slowness)
        BY <3>1, <3>2 DEF AnswersInTime, KnowsFresh
      <4>2. rec.at \in {"report", "test", "lookup"} => rec.at \in {"test", "lookup"}
        BY <1>7, <3>2 DEF At
      <4> QED
        BY <1>7, <2>1, <4>1, <4>2 DEF AnswersInTime, KnowsFresh, InForceAt, At
    <3>3. CASE \/ rec.at \notin {"report", "test", "lookup"}
               \/ rec.at \in {"test", "lookup"} /\ rec.excuse # "none"
      BY <2>1, <3>3 DEF AnswersInTime, KnowsFresh, At
    <3> QED
      BY <1>7, <3>2, <3>3
  <2> QED
    BY <1>5, <1>7, <2>1, <2>2, <2>3
<1>8. ASSUME NEW t \in Thread, Refreshes(t), ~ Store(t) PROVE Current'
  <2>1. thread[t] \in ThreadState
    BY DEF TypeOK
  <2>2. CASE ReadSettings(t)
    <3> DEFINE rec == [thread[t] EXCEPT !.at = "store", !.doc = edits]
    <3>1. rec.at = "store" /\ rec.doc = edits
      BY <2>1, OtherFieldsStay
    <3> HIDE DEF rec
    <3> QED
      BY <1>7, <2>2, <3>1 DEF ReadSettings, rec
  <2>3. CASE Fails(t)
    <3> DEFINE excuse == IF At(t, "read") THEN "failed" ELSE "none"
               rec == [thread[t] EXCEPT !.at = "test", !.excuse = excuse]
    <3>1. rec.at = "test" /\ rec.began = thread[t].began /\ rec.excuse = excuse
      BY <2>1, OtherFieldsStay
    <3>2. Becomes(t, rec) /\ UNCHANGED <<edits, edited_at, overrides, fetched_at>>
      BY <2>3 DEF Fails
    <3>3. At(t, "report") \/ excuse = "failed"
      BY <2>3 DEF Fails
    <3> HIDE DEF rec, excuse
    <3> QED
      BY <1>7, <3>1, <3>2, <3>3
  <2>4. CASE Reported(t)
    <3> DEFINE rec == [thread[t] EXCEPT !.at = "test"]
    <3>1. rec.at = "test" /\ rec.began = thread[t].began
      BY <2>1 DEF ThreadState
    <3>2. Becomes(t, rec) /\ UNCHANGED <<edits, edited_at, overrides, fetched_at>>
      BY <2>4 DEF Reported
    <3> HIDE DEF rec
    <3> QED
      BY <1>7, <2>4, <3>1, <3>2 DEF Reported
  <2> QED
    BY <1>8, <2>2, <2>3, <2>4 DEF Refreshes, NoDatabase
<1>9. ASSUME NEW t \in Thread, Gets(t) PROVE Current'
  <2>1. thread[t] \in ThreadState
    BY DEF TypeOK
  <2>2. UNCHANGED <<edits, edited_at, overrides, fetched_at>>
    BY <1>9 DEF Gets, FailureSought, FailureDated, TryLock, Test, Lookup, Raises
  <2>3. \A step \in Step : /\ [thread[t] EXCEPT !.at = step].at = step
                          /\ [thread[t] EXCEPT !.at = step].began = thread[t].began
                          /\ [thread[t] EXCEPT !.at = step].excuse = thread[t].excuse
    BY <2>1 DEF ThreadState
  <2>4. CASE TryLock(t)
    <3> DEFINE busy == [thread[t] EXCEPT !.at = "test", !.excuse = "busy"]
               free == [thread[t] EXCEPT !.at = "read"]
    <3>1. busy.at = "test" /\ busy.excuse = "busy" /\ free.at = "read"
      BY <2>1, <2>3, OtherFieldsStay DEF Step
    <3>2. Becomes(t, busy) \/ Becomes(t, free)
      BY <2>4 DEF TryLock
    <3> HIDE DEF busy, free
    <3> QED
      BY <1>7, <2>2, <3>1, <3>2
  <2>5. CASE FailureSought(t)
    <3> DEFINE to == IF failed_at = Never THEN "acquire" ELSE "backoff"
    <3>1. to \in Step /\ to \in {"acquire", "backoff"}
      BY DEF Step
    <3>2. Becomes(t, [thread[t] EXCEPT !.at = to])
      BY <2>5 DEF FailureSought
    <3> HIDE DEF to
    <3> QED
      BY <1>7, <2>2, <2>3, <3>1, <3>2
  <2>6. CASE FailureDated(t)
    <3> DEFINE raised == [thread[t] EXCEPT !.at = "raised"]
               waits == [thread[t] EXCEPT !.at = "test", !.excuse = "backoff"]
               goes == [thread[t] EXCEPT !.at = "acquire"]
    <3>1. raised.at = "raised" /\ goes.at = "acquire"
      BY <2>3 DEF Step
    <3>2. waits.at = "test" /\ waits.excuse = "backoff"
      BY <2>1, OtherFieldsStay
    <3>3. Becomes(t, raised) \/ Becomes(t, waits) \/ Becomes(t, goes)
      BY <2>6 DEF FailureDated
    <3> HIDE DEF raised, waits, goes
    <3> QED
      BY <1>7, <2>2, <3>1, <3>2, <3>3
  <2>7. CASE Test(t) \/ Lookup(t) \/ Raises(t)
    <3>1. \/ Becomes(t, Idle)
          \/ At(t, "test") /\ Becomes(t, [thread[t] EXCEPT !.at = "lookup"])
          \/ Becomes(t, [thread[t] EXCEPT !.at = "raised"])
      BY <2>7 DEF Test, Lookup, Raises
    <3>2. Idle.at = "idle" /\ "lookup" \in Step /\ "raised" \in Step
      BY DEF Idle, Step
    <3> QED
      BY <1>7, <2>2, <2>3, <3>1, <3>2
  <2> QED
    BY <1>9, <2>4, <2>5, <2>6, <2>7 DEF Gets
<1>10. CASE Tick \/ UNCHANGED vars
  BY <1>10 DEF Tick, vars, ReadInTime, AnswersInTime, KnowsFresh, InForceAt, At
<1> QED
  BY <1>3, <1>4, <1>6, <1>8, <1>9, <1>10 DEF Next

(* However slow the reads and however they interleave with the edits: an   *)
(* answer without an excuse is at most the TTL, a read and a get() old.    *)
THEOREM AnswersAreFresh == Spec => FreshUnlessExcused
<1> DEFINE Inv == IInv /\ InTime /\ Current
<1>1. Init => Inv
  <2> SUFFICES ASSUME Init PROVE Inv
    OBVIOUS
  <2>1. InTime
    BY TimesAssumption DEF Init, InTime, Punctual, MayRead, At, Idle
  <2>2. Current
    BY DEF Init, Current, ReadInTime, AnswersInTime, KnowsFresh, At, Idle
  <2> QED
    BY <2>1, <2>2, InvInit
<1>2. Inv /\ [Next]_vars => Inv'
  <2>1. IInv => TypeOK
    BY DEF IInv
  <2> QED
    BY <2>1, InvStep, InTimeStep, CurrentStep
<1>3. Inv /\ [Next]_vars =>
          [\A t \in Thread :
               Answers(t) /\ configured /\ thread[t].excuse = "none" /\ overrides < edits =>
                   now - edited_at[overrides + 1] <= TTL + 2 * Slowness]_vars
  <2> SUFFICES ASSUME Inv, NEW t \in Thread, Answers(t), configured, thread[t].excuse = "none",
                      overrides < edits
               PROVE  now - edited_at[overrides + 1] <= TTL + 2 * Slowness
    OBVIOUS
  <2>1. /\ now \in Nat /\ TTL \in Nat /\ Slowness \in Nat /\ thread[t].began \in Nat
        /\ overrides + 1 \in 0..MaxEdits
    BY TimesAssumption, EditsAssumption DEF IInv, TypeOK, ThreadState
  <2>2. edited_at[overrides + 1] \in Nat
    BY <2>1, TimesAssumption DEF IInv, TypeOK
  <2>3. edited_at[overrides + 1] >= thread[t].began - TTL - Slowness
    BY DEF Current, AnswersInTime, KnowsFresh, InForceAt, Answers
  <2>4. now <= thread[t].began + Slowness
    BY DEF InTime, Punctual, Answers, At
  <2> QED
    BY <2>1, <2>2, <2>3, <2>4
<1> QED
  BY <1>1, <1>2, <1>3, PTL DEF Spec, FreshUnlessExcused

=============================================================================
