--------------------------- MODULE RuntimeConfig ---------------------------
(***************************************************************************)
(* runtime_config.py: the settings that the admin panel may override, read *)
(* by every thread of the service through one cache.  The model follows    *)
(* cfg.get() of a single name.  What the database holds is told by the     *)
(* number of edits made so far, what the cache holds by the number of the  *)
(* edit it has read up to.  invalidate() and refresh(force=True), which    *)
(* only the tests call, are left out.                                      *)
(***************************************************************************)
EXTENDS Integers

CONSTANTS
    Thread,         \* the threads that read settings
    MaxEdits,       \* bound: edits made in the admin panel
    Overridden,     \* the edits after which the name is overridden
    TTL,            \* TTL_SECONDS
    RetryAfter,     \* RETRY_AFTER_FAILURE_SECONDS
    Slowness,       \* the longest that one get() takes
    MaxClock        \* bound: the clock stops here

ASSUME EditsAssumption == MaxEdits \in Nat /\ Overridden \subseteq 0..MaxEdits
ASSUME TimesAssumption ==
    TTL \in Nat \ {0} /\ RetryAfter \in Nat /\ Slowness \in Nat /\ MaxClock \in Nat

VARIABLES
    configured,     \* MONGODB_URI is set
    edits,          \* what the database holds
    overrides,      \* RuntimeConfig._overrides, or Nothing: the empty dict of the start
    fetched_at,     \* _fetched_at, or Never for 0.0
    failed_at,      \* _failed_at, or Never for None
    lock,           \* the threads that hold _lock
    thread,         \* where each thread is in get()
    edited_at,      \* ghost: when each edit was made
    now             \* time.monotonic()

vars == <<configured, edits, overrides, fetched_at, failed_at, lock, thread, edited_at, now>>

Nothing == -1
Never == -1

(* "excuse" is a ghost: why this get() does not read the database although *)
(* the cache is older than the TTL.                                        *)
Step == {"idle", "failure", "backoff", "acquire", "read", "store", "report", "test", "lookup",
         "raised"}

Idle == [at |-> "idle", began |-> 0, doc |-> Nothing, excuse |-> "none"]

ThreadState == [at : Step, began : 0..MaxClock, doc : Nothing..MaxEdits,
                excuse : {"none", "backoff", "busy", "failed"}]

TypeOK ==
    /\ configured \in BOOLEAN
    /\ edits \in 0..MaxEdits
    /\ overrides \in Nothing..MaxEdits
    /\ fetched_at \in Never..MaxClock
    /\ failed_at \in Never..MaxClock
    /\ lock \subseteq Thread
    /\ thread \in [Thread -> ThreadState]
    /\ edited_at \in [0..MaxEdits -> 0..MaxClock]
    /\ now \in 0..MaxClock

Init ==
    /\ configured \in BOOLEAN
    /\ edits = 0
    /\ overrides = Nothing
    /\ fetched_at = Never
    /\ failed_at = Never
    /\ lock = {}
    /\ thread = [t \in Thread |-> Idle]
    /\ edited_at = [e \in 0..MaxEdits |-> 0]
    /\ now = 0

----------------------------------------------------------------------------
(* refresh().                                                              *)

At(t, step) == thread[t].at = step

Becomes(t, rec) == thread' = [thread EXCEPT ![t] = rec]

(* Mutants: the cache is good for ever; the back-off is skipped.           *)
FreshForEver == fetched_at # Never

Fresh == fetched_at # Never /\ now - fetched_at < TTL

BackingOffNever(t) == thread[t].began < failed_at

BackingOff(t) == thread[t].began - failed_at < RetryAfter

(* get() is called: a fresh cache ends the refresh.                        *)
Begin(t) ==
    /\ At(t, "idle")
    /\ Becomes(t, [Idle EXCEPT !.at = IF Fresh THEN "test" ELSE "failure", !.began = now])
    /\ UNCHANGED <<configured, edits, overrides, fetched_at, failed_at, lock, edited_at, now>>

(* So does a recent failure.  _failed_at is read twice, and the lock not   *)
(* held: another thread's refresh may have set it to None in between.      *)
FailureSought(t) ==
    /\ At(t, "failure")
    /\ Becomes(t, [thread[t] EXCEPT !.at = IF failed_at = Never THEN "acquire" ELSE "backoff"])
    /\ UNCHANGED <<configured, edits, overrides, fetched_at, failed_at, lock, edited_at, now>>

FailureDated(t) ==
    /\ At(t, "backoff")
    /\ \/ /\ failed_at = Never
          /\ Becomes(t, [thread[t] EXCEPT !.at = "raised"])
       \/ /\ failed_at # Never
          /\ BackingOff(t)
          /\ Becomes(t, [thread[t] EXCEPT !.at = "test", !.excuse = "backoff"])
       \/ /\ failed_at # Never
          /\ ~ BackingOff(t)
          /\ Becomes(t, [thread[t] EXCEPT !.at = "acquire"])
    /\ UNCHANGED <<configured, edits, overrides, fetched_at, failed_at, lock, edited_at, now>>

(* Mutants: the lock is waited for; the lock is not looked at.             *)
TryLockWaits(t) ==
    /\ At(t, "acquire")
    /\ lock = {}
    /\ lock' = lock \union {t}
    /\ Becomes(t, [thread[t] EXCEPT !.at = "read"])
    /\ UNCHANGED <<configured, edits, overrides, fetched_at, failed_at, edited_at, now>>

TryLockUnchecked(t) ==
    /\ At(t, "acquire")
    /\ lock' = lock \union {t}
    /\ Becomes(t, [thread[t] EXCEPT !.at = "read"])
    /\ UNCHANGED <<configured, edits, overrides, fetched_at, failed_at, edited_at, now>>

TryLock(t) ==
    /\ At(t, "acquire")
    /\ \/ /\ lock = {}
          /\ lock' = lock \union {t}
          /\ Becomes(t, [thread[t] EXCEPT !.at = "read"])
       \/ /\ lock # {}
          /\ UNCHANGED lock
          /\ Becomes(t, [thread[t] EXCEPT !.at = "test", !.excuse = "busy"])
    /\ UNCHANGED <<configured, edits, overrides, fetched_at, failed_at, edited_at, now>>

(* MONGODB_URI is not set: there is nothing to read.                       *)
NoDatabase(t) ==
    /\ At(t, "read")
    /\ ~ configured
    /\ fetched_at' = now
    /\ lock' = lock \ {t}
    /\ Becomes(t, [thread[t] EXCEPT !.at = "test"])
    /\ UNCHANGED <<configured, edits, overrides, failed_at, edited_at, now>>

ReadSettings(t) ==
    /\ At(t, "read")
    /\ configured
    /\ Becomes(t, [thread[t] EXCEPT !.at = "store", !.doc = edits])
    /\ UNCHANGED <<configured, edits, overrides, fetched_at, failed_at, lock, edited_at, now>>

(* The read, or later the report of the environment, raises.               *)
Fails(t) ==
    /\ configured
    /\ At(t, "read") \/ At(t, "report")
    /\ failed_at' = now
    /\ lock' = lock \ {t}
    /\ Becomes(t, [thread[t] EXCEPT !.at = "test",
                                    !.excuse = IF At(t, "read") THEN "failed" ELSE "none"])
    /\ UNCHANGED <<configured, edits, overrides, fetched_at, edited_at, now>>

(* Mutant: the time the values expire is stored for the time of the read.  *)
StoreExpiry(t) ==
    /\ At(t, "store")
    /\ overrides' = thread[t].doc
    /\ fetched_at' = now + TTL
    /\ failed_at' = Never
    /\ Becomes(t, [thread[t] EXCEPT !.at = "report"])
    /\ UNCHANGED <<configured, edits, lock, edited_at, now>>

(* The new values replace the dict as a whole.                             *)
Store(t) ==
    /\ At(t, "store")
    /\ overrides' = thread[t].doc
    /\ fetched_at' = now
    /\ failed_at' = Never
    /\ Becomes(t, [thread[t] EXCEPT !.at = "report"])
    /\ UNCHANGED <<configured, edits, lock, edited_at, now>>

Reported(t) ==
    /\ At(t, "report")
    /\ lock' = lock \ {t}
    /\ Becomes(t, [thread[t] EXCEPT !.at = "test"])
    /\ UNCHANGED <<configured, edits, overrides, fetched_at, failed_at, edited_at, now>>

----------------------------------------------------------------------------
(* The rest of get(): it reads _overrides twice.                           *)

Test(t) ==
    /\ At(t, "test")
    /\ Becomes(t, IF overrides \in Overridden
                  THEN [thread[t] EXCEPT !.at = "lookup"]
                  ELSE Idle)
    /\ UNCHANGED <<configured, edits, overrides, fetched_at, failed_at, lock, edited_at, now>>

Lookup(t) ==
    /\ At(t, "lookup")
    /\ Becomes(t, IF overrides \in Overridden
                  THEN Idle
                  ELSE [thread[t] EXCEPT !.at = "raised"])
    /\ UNCHANGED <<configured, edits, overrides, fetched_at, failed_at, lock, edited_at, now>>

(* Out of get(): the TypeError of refresh(), or the KeyError of the lookup. *)
Raises(t) ==
    /\ At(t, "raised")
    /\ Becomes(t, Idle)
    /\ UNCHANGED <<configured, edits, overrides, fetched_at, failed_at, lock, edited_at, now>>

----------------------------------------------------------------------------

(* The admin panel sets or clears the override.                            *)
Edit ==
    /\ configured
    /\ edits < MaxEdits
    /\ edits' = edits + 1
    /\ edited_at' = [edited_at EXCEPT ![edits + 1] = now]
    /\ UNCHANGED <<configured, overrides, fetched_at, failed_at, lock, thread, now>>

(* A get() is over before Slowness has passed.                             *)
Tick ==
    /\ now < MaxClock
    /\ \A t \in Thread : At(t, "idle") \/ now - thread[t].began < Slowness
    /\ now' = now + 1
    /\ UNCHANGED <<configured, edits, overrides, fetched_at, failed_at, lock, thread, edited_at>>

Refreshes(t) ==
    \/ NoDatabase(t)
    \/ ReadSettings(t)
    \/ Fails(t)
    \/ Store(t)
    \/ Reported(t)

Gets(t) ==
    \/ FailureSought(t)
    \/ FailureDated(t)
    \/ TryLock(t)
    \/ Test(t)
    \/ Lookup(t)
    \/ Raises(t)

Next ==
    \/ Edit
    \/ Tick
    \/ \E t \in Thread : Begin(t) \/ Refreshes(t) \/ Gets(t)

Spec == Init /\ [][Next]_vars

(* Threads run on, but a read of the database may never come back.         *)
FairSpec == Spec /\ \A t \in Thread : WF_vars(Gets(t))

----------------------------------------------------------------------------

(* The cache never goes back to values older than those it has: a slow     *)
(* read is not stored over the result of a later one, and a failure leaves *)
(* the last good snapshot in place.                                        *)
SnapshotNeverOlder == [][overrides' >= overrides]_vars

(* A get() that neither follows a failure nor meets another thread's       *)
(* refresh answers by values that were in force at most the TTL, the time  *)
(* of the read and its own time ago.                                       *)
Answers(t) ==
    /\ At(t, "test") \/ At(t, "lookup")
    /\ thread'[t].at = "idle"

FreshUnlessExcused ==
    [][ \A t \in Thread :
            Answers(t) /\ configured /\ thread[t].excuse = "none" /\ overrides < edits =>
                now - edited_at[overrides + 1] <= TTL + 2 * Slowness ]_vars

(* The database is spared: within the TTL of a read and the back-off of a  *)
(* failure only a thread reads it that had decided to do so before.        *)
SparesDatabase ==
    [][ \A t \in Thread :
            At(t, "acquire") /\ thread'[t].at = "read" =>
                /\ \/ fetched_at \in {Never} \union thread[t].began .. now
                   \/ now - fetched_at >= TTL
                /\ \/ failed_at \in {Never} \union thread[t].began .. now
                   \/ now - failed_at >= RetryAfter ]_vars

(* No get() waits for another thread's refresh, not even for one that      *)
(* hangs.                                                                  *)
NobodyWaits ==
    \A t \in Thread : At(t, "acquire") ~> At(t, "idle") \/ t \in lock

----------------------------------------------------------------------------
(* What the documentation says and the code does not do in every case.     *)

(* A settings problem "never breaks a request".                            *)
NeverBreaksARequest == \A t \in Thread : ~ At(t, "raised")

=============================================================================
