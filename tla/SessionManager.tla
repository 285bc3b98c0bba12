--------------------------- MODULE SessionManager ---------------------------
(***************************************************************************)
(* session_manager.py: the state machine of the Kaggle session with its    *)
(* time stamps.  Every public method holds _lock from its first to its     *)
(* last line, so each is one action.  A start that takes too long is only  *)
(* noticed by the next reader (_maybe_timeout), and the limit it compares  *)
(* with is re-read from the settings at each check.                        *)
(***************************************************************************)
EXTENDS Integers

CONSTANTS
    None,           \* Python's None
    StartTimeouts,  \* the values SESSION_START_TIMEOUT_SECONDS may be given
    Uptimes,        \* the uptimes a probed model server may report
    MaxClock        \* bound: the clock stops here

ASSUME NoneAssumption == None \notin Int
ASSUME StartTimeoutsAssumption == StartTimeouts \subseteq Int
ASSUME UptimesAssumption == Uptimes \subseteq Nat
ASSUME MaxClockAssumption == MaxClock \in Nat

VARIABLES
    state,          \* _state
    error_detail,   \* _error_detail
    started_at,     \* _started_at
    ready_at,       \* _ready_at
    ended_at,       \* _ended_at
    now             \* time.time(), which does not go backwards here

vars == <<state, error_detail, started_at, ready_at, ended_at, now>>

Lifecycle == INSTANCE SessionLifecycle
    WITH None <- None, state <- state, error_detail <- error_detail

ASSUME DetailAssumption == None \notin Lifecycle!ErrorDetail

Time == 0..MaxClock

TypeOK ==
    /\ state \in Lifecycle!SessionState
    /\ error_detail \in Lifecycle!ErrorDetail \union {None}
    /\ started_at \in Int \union {None}
    /\ ready_at \in Time \union {None}
    /\ ended_at \in Time \union {None}
    /\ now \in Time

Init ==
    /\ Lifecycle!SessionInit
    /\ started_at = None
    /\ ready_at = None
    /\ ended_at = None
    /\ now = 0

----------------------------------------------------------------------------

(* A start is made only while the clock has room for the longest timeout,  *)
(* so that the bound never keeps a start from timing out.                  *)
ClockHasRoom == \A t \in StartTimeouts : now + t < MaxClock

(* Mutants: the start is not stamped; a ready session does not refuse it.  *)
BeginStartUnstamped ==
    /\ ClockHasRoom
    /\ Lifecycle!TryBeginStart
    /\ ready_at' = None
    /\ ended_at' = None
    /\ UNCHANGED <<started_at, now>>

BeginStartOverReady ==
    /\ ClockHasRoom
    /\ state # "starting"
    /\ state' = "starting"
    /\ error_detail' = None
    /\ started_at' = now
    /\ ready_at' = None
    /\ ended_at' = None
    /\ UNCHANGED now

BeginStart ==
    /\ ClockHasRoom
    /\ Lifecycle!TryBeginStart
    /\ started_at' = now
    /\ ready_at' = None
    /\ ended_at' = None
    /\ UNCHANGED now

MarkReady ==
    /\ Lifecycle!MarkReady
    /\ ready_at' = now
    /\ UNCHANGED <<started_at, ended_at, now>>

MarkEnded ==
    /\ Lifecycle!MarkEnded
    /\ ended_at' = now
    /\ UNCHANGED <<started_at, ready_at, now>>

MarkError(detail) ==
    /\ Lifecycle!MarkError(detail)
    /\ UNCHANGED <<started_at, ready_at, ended_at, now>>

(* Mutants: readiness is dated back with the start; a stale end is kept.   *)
AdoptRunningBackdated(uptime) ==
    /\ Lifecycle!AdoptRunning
    /\ IF state \in Lifecycle!Claimed
       THEN UNCHANGED <<started_at, ready_at, ended_at>>
       ELSE /\ started_at' = now - uptime
            /\ ready_at' = now - uptime
            /\ ended_at' = None
    /\ UNCHANGED now

AdoptRunningKeepsEnded(uptime) ==
    /\ Lifecycle!AdoptRunning
    /\ IF state \in Lifecycle!Claimed
       THEN UNCHANGED <<started_at, ready_at, ended_at>>
       ELSE /\ started_at' = now - uptime
            /\ ready_at' = now
            /\ UNCHANGED ended_at
    /\ UNCHANGED now

(* The caller computes the start from the uptime the server reports.       *)
AdoptRunning(uptime) ==
    /\ Lifecycle!AdoptRunning
    /\ IF state \in Lifecycle!Claimed
       THEN UNCHANGED <<started_at, ready_at, ended_at>>
       ELSE /\ started_at' = now - uptime
            /\ ready_at' = now
            /\ ended_at' = None
    /\ UNCHANGED now

ResetToIdle ==
    /\ Lifecycle!ResetToIdle
    /\ UNCHANGED <<started_at, ready_at, ended_at, now>>

(* What snapshot() and is_ready() do before they answer.                   *)
TimedOut(timeout) ==
    /\ state = "starting"
    /\ started_at # None
    /\ now - started_at > timeout

MaybeTimeout(timeout) ==
    /\ IF TimedOut(timeout)
       THEN Lifecycle!MarkError("timeout")
       ELSE UNCHANGED <<state, error_detail>>
    /\ UNCHANGED <<started_at, ready_at, ended_at, now>>

Read == \E timeout \in StartTimeouts : MaybeTimeout(timeout)

Tick ==
    /\ now < MaxClock
    /\ now' = now + 1
    /\ UNCHANGED <<state, error_detail, started_at, ready_at, ended_at>>

Next ==
    \/ BeginStart
    \/ MarkReady
    \/ MarkEnded
    \/ \E detail \in Lifecycle!ErrorDetail \ {"timeout"} : MarkError(detail)
    \/ \E uptime \in Uptimes : AdoptRunning(uptime)
    \/ ResetToIdle
    \/ Read
    \/ Tick

Spec == Init /\ [][Next]_vars

(* Time passes, and somebody keeps reading the state: the supervisor takes *)
(* a snapshot on every pass and the dashboard polls /session/status.       *)
FairSpec == Spec /\ WF_vars(Tick) /\ WF_vars(Read)

----------------------------------------------------------------------------

(* While a session is starting the record is that of this start alone: its *)
(* own start time, and nothing left of the session before.  try_begin_start *)
(* has to clear all of it, since the supervisor reads the detail and        *)
(* /session/status shows the stamps.                                       *)
StartingIsFresh ==
    state = "starting" =>
        /\ started_at # None
        /\ ready_at = None
        /\ ended_at = None
        /\ error_detail = None

(* A session that reports ready, ended or error also reports since when or *)
(* why: each transition writes its evidence and none of the others takes   *)
(* it away while that state lasts.                                         *)
StateHasEvidence ==
    /\ state = "ready" => ready_at # None
    /\ state = "ended" => ended_at # None
    /\ state = "error" => error_detail # None
    /\ state = "idle" => error_detail = None

(* The stamps tell a possible history, whatever order the webhooks, the    *)
(* adoptions and the starts came in: nothing is stamped in the future,     *)
(* nothing precedes the start, and a session that has ended did so after   *)
(* it was ready.                                                           *)
NotAfter(t, u) == t # None /\ u # None => t <= u

StampsInOrder ==
    /\ NotAfter(started_at, now)
    /\ NotAfter(ready_at, now)
    /\ NotAfter(ended_at, now)
    /\ NotAfter(started_at, ready_at)
    /\ NotAfter(started_at, ended_at)
    /\ state = "ended" => NotAfter(ready_at, ended_at)

(* Together: the record always tells a history that can have happened,     *)
(* under every order of starts, webhooks, adoptions, failures and reads.   *)
PossibleHistory == StartingIsFresh /\ StateHasEvidence /\ StampsInOrder

(* Only a start that is still waiting can time out, and only after it has  *)
(* waited longer than the shortest timeout: a reader with a stale opinion  *)
(* never takes a ready session down.                                       *)
OnlyOldStartsTimeOut ==
    [][ error_detail' = "timeout" /\ error_detail # "timeout" =>
            /\ state = "starting"
            /\ \E t \in StartTimeouts : started_at + t < now ]_vars

(* The time stamps are an implementation of the life cycle without them.   *)
ImplementsLifecycle == Lifecycle!SessionSpec

(* A start never stays pending for ever: a webhook, a failed push or a     *)
(* reader that finds it too old resolves it.                               *)
StartResolves == state = "starting" ~> state # "starting"

=============================================================================
