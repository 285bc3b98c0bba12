------------------------------ MODULE ServeRun ------------------------------
(***************************************************************************)
(* serve.py: one Kaggle run, from the first line of the script to the end  *)
(* of the process.  Its main thread loads the models, opens the tunnel,    *)
(* reports ready and becomes the watchdog; uvicorn serves requests in      *)
(* other threads; cloudflared is a process of its own.  Time is counted    *)
(* from process start, and passes only while the main thread is waiting.   *)
(***************************************************************************)
EXTENDS Integers, FiniteSets

CONSTANTS
    Request,        \* the /generate and /embed calls of the run
    Limits,         \* the pairs of limits it may be started with; 0 is no limit
    LoadTime,       \* bound: the clock stands still once loading has taken so long
    Grace,          \* READY_CONFIRM_GRACE_SECONDS
    CheckInterval,  \* IDLE_CHECK_INTERVAL_SECONDS
    DrainTimeout,   \* DRAIN_TIMEOUT_SECONDS
    DrainPoll,      \* _drain_inflight's sleep(1)
    StopTime,       \* the wait(timeout=10) for cloudflared
    Attempts,       \* call_webhook's attempts
    CallTimeout,    \* its timeout of 90 s
    RetryDelays,    \* its pauses: after a 5xx and after an exception
    MaxTime         \* bound: the watchdog does not look again after it

ASSUME RequestAssumption == IsFiniteSet(Request)
ASSUME LimitsAssumption ==
    \A l \in Limits : l = [max_runtime |-> l.max_runtime, idle_timeout |-> l.idle_timeout]
                      /\ l.max_runtime \in Int /\ l.idle_timeout \in Int
ASSUME DurationsAssumption ==
    /\ {LoadTime, Grace, DrainTimeout, StopTime, CallTimeout, MaxTime} \subseteq Nat
    /\ {CheckInterval, DrainPoll, Attempts} \subseteq Nat \ {0}
    /\ RetryDelays \subseteq Nat

VARIABLES
    limits,         \* MAX_RUNTIME_SECONDS and IDLE_TIMEOUT_SECONDS
    now,            \* _uptime()
    pc,             \* where the main thread is
    wake,           \* when what it waits for is over at the latest
    tunnel,         \* the cloudflared process
    server,         \* uvicorn accepts connections
    call,           \* the webhook being called, and the attempt
    heard,          \* the webhooks the backend has handled, once or more often
    late,           \* how often it may handle each after the call was given up
    refused,        \* the webhooks answered with a status below 500, but not handled
    last_activity,  \* _last_activity_time
    idle_for,       \* the watchdog's reading of it
    inflight,       \* _inflight
    deadline,       \* _drain_inflight's deadline
    reason,         \* why shutdown() was called
    req,            \* where each request is in the server
    last_call,      \* ghost: when a handler last began, or -1
    confirmed_at,   \* ghost: when the run found itself up, or -1
    watch_from,     \* ghost: when the watchdog began, or -1
    drained         \* ghost: the requests counted when the drain began

ghostVars == <<last_call, confirmed_at, watch_from, drained>>
callVars == <<call, heard, late, refused>>
requestVars == <<last_activity, inflight, req>>
watchVars == <<idle_for, deadline, reason>>

vars == <<limits, now, pc, wake, tunnel, server, callVars, requestVars, watchVars, ghostVars>>

Path == {"ready", "ended"}

Pc == {"loading", "grace", "call", "retry", "watch", "check", "drain", "drain_sleep",
       "stop", "stopping", "leave", "exited", "silent"}

TypeOK ==
    /\ limits \in Limits
    /\ now \in Nat
    /\ pc \in Pc
    /\ wake \in Nat
    /\ tunnel \in {"none", "up", "dead", "stopping", "down"}
    /\ server \in BOOLEAN
    /\ call \in [path : Path, attempt : 1..Attempts]
    /\ heard \subseteq Path
    /\ late \in [Path -> 0..Attempts]
    /\ refused \subseteq Path
    /\ last_activity \in Nat
    /\ idle_for \in Nat
    /\ inflight \in 0..Cardinality(Request)
    /\ deadline \in Nat
    /\ reason \in {"none", "tunnel_died", "scheduled_restart", "idle_timeout"}
    /\ req \in [Request -> {"new", "arrived", "counted", "serving", "done"}]
    /\ last_call \in Nat \union {-1}
    /\ confirmed_at \in Nat \union {-1}
    /\ watch_from \in Nat \union {-1}
    /\ drained \subseteq Request

Init ==
    /\ limits \in Limits
    /\ now = 0
    /\ pc = "loading"
    /\ wake = LoadTime
    /\ tunnel = "none"
    /\ server = FALSE
    /\ call = [path |-> "ready", attempt |-> 1]
    /\ heard = {}
    /\ late = [path \in Path |-> 0]
    /\ refused = {}
    /\ last_activity = 0
    /\ idle_for = 0
    /\ inflight = 0
    /\ deadline = 0
    /\ reason = "none"
    /\ req = [q \in Request |-> "new"]
    /\ last_call = -1
    /\ confirmed_at = -1
    /\ watch_from = -1
    /\ drained = {}

----------------------------------------------------------------------------
(* The main thread's waits.                                                *)

Goes(to, duration) ==
    /\ pc' = to
    /\ wake' = now + duration

Tick ==
    /\ now < wake
    /\ now' = now + 1
    /\ UNCHANGED <<limits, pc, wake, tunnel, server, callVars, requestVars, watchVars, ghostVars>>

Ended == pc \in {"exited", "silent"}

----------------------------------------------------------------------------
(* call_webhook().                                                         *)

Calls(path) ==
    /\ Goes("call", CallTimeout)
    /\ call' = [path |-> path, attempt |-> 1]

(* It returns: from "ready" to the watchdog, from "ended" to the exit,     *)
(* which every caller of it takes at once.                                 *)
CallReturns ==
    IF call.path = "ready"
    THEN /\ Goes("watch", CheckInterval)
         /\ watch_from' = now
    ELSE /\ Goes("leave", 0)
         /\ UNCHANGED watch_from

Leaves ==
    /\ pc = "leave"
    /\ Goes("exited", 0)
    /\ UNCHANGED <<limits, now, tunnel, server, callVars, requestVars, watchVars, ghostVars>>

(* Mutants: the last attempt is not made; there is always another one.     *)
TriesAgainTooFew(delays) ==
    IF call.attempt + 1 < Attempts
    THEN (\E d \in delays : Goes("retry", d)) /\ UNCHANGED watch_from
    ELSE CallReturns

TriesAgainAlways(delays) == (\E d \in delays : Goes("retry", d)) /\ UNCHANGED watch_from

TriesAgain(delays) ==
    IF call.attempt < Attempts
    THEN (\E d \in delays : Goes("retry", d)) /\ UNCHANGED watch_from
    ELSE CallReturns

(* A status below 500: handled, or turned down (401).                      *)
CallAnswered ==
    /\ pc = "call"
    /\ \/ heard' = heard \union {call.path} /\ UNCHANGED refused
       \/ refused' = refused \union {call.path} /\ UNCHANGED heard
    /\ CallReturns
    /\ UNCHANGED <<limits, now, tunnel, server, call, late, requestVars, watchVars, last_call,
                   confirmed_at, drained>>

(* A 5xx while the backend boots; the pauses differ, the retry does not.   *)
CallUnavailable ==
    /\ pc = "call"
    /\ TriesAgain(RetryDelays)
    /\ UNCHANGED <<limits, now, tunnel, server, callVars, requestVars, watchVars, last_call,
                   confirmed_at, drained>>

(* RequestException: the call was not handled, was handled and its answer  *)
(* lost, or is handled later.                                              *)
CallFails ==
    /\ pc = "call"
    /\ \/ UNCHANGED <<heard, late>>
       \/ heard' = heard \union {call.path} /\ UNCHANGED late
       \/ late' = [late EXCEPT ![call.path] = @ + 1] /\ UNCHANGED heard
    /\ TriesAgain(RetryDelays)
    /\ UNCHANGED <<limits, now, tunnel, server, call, refused, requestVars, watchVars, last_call,
                   confirmed_at, drained>>

CallRetried ==
    /\ pc = "retry"
    /\ now = wake
    /\ Goes("call", CallTimeout)
    /\ call' = [call EXCEPT !.attempt = @ + 1]
    /\ UNCHANGED <<limits, now, tunnel, server, heard, late, refused, requestVars, watchVars,
                   ghostVars>>

HandledLate(path) ==
    /\ late[path] > 0
    /\ late' = [late EXCEPT ![path] = @ - 1]
    /\ heard' = heard \union {path}
    /\ UNCHANGED <<limits, now, pc, wake, tunnel, server, call, refused, requestVars, watchVars,
                   ghostVars>>

----------------------------------------------------------------------------
(* main(), up to the watchdog.                                             *)

(* A secret is missing: sys.exit(1) before there is anything to report to. *)
SecretMissing ==
    /\ pc = "loading"
    /\ now = 0
    /\ Goes("silent", 0)
    /\ UNCHANGED <<limits, now, tunnel, server, callVars, requestVars, watchVars, ghostVars>>

(* load_models() or ensure_cloudflared() raises; the script's last line.   *)
LoadFails ==
    /\ pc = "loading"
    /\ Calls("ended")
    /\ UNCHANGED <<limits, now, tunnel, server, heard, late, refused, requestVars, watchVars,
                   ghostVars>>

(* The tunnel and the server are started, and given a moment.              *)
Loaded ==
    /\ pc = "loading"
    /\ tunnel' = "up"
    /\ Goes("grace", Grace)
    /\ UNCHANGED <<limits, now, server, callVars, requestVars, watchVars, ghostVars>>

TunnelFailed ==
    /\ pc = "grace"
    /\ now = wake
    /\ tunnel = "dead"
    /\ Calls("ended")
    /\ UNCHANGED <<limits, now, tunnel, server, heard, late, refused, requestVars, watchVars,
                   ghostVars>>

(* The local /health fails, or does not answer in time; cloudflared is     *)
(* told to stop, and not waited for.                                       *)
HealthFailed ==
    /\ pc = "grace"
    /\ now = wake
    /\ tunnel = "up"
    /\ tunnel' = "stopping"
    /\ Calls("ended")
    /\ UNCHANGED <<limits, now, server, heard, late, refused, requestVars, watchVars, ghostVars>>

Confirmed ==
    /\ pc = "grace"
    /\ now = wake
    /\ tunnel = "up"
    /\ server
    /\ last_activity' = now
    /\ confirmed_at' = now
    /\ Calls("ready")
    /\ UNCHANGED <<limits, now, tunnel, server, heard, late, refused, inflight, req, watchVars,
                   last_call, watch_from, drained>>

----------------------------------------------------------------------------
(* idle_watchdog(), _drain_inflight() and shutdown().                      *)

WatchReads ==
    /\ pc = "watch"
    /\ now = wake
    /\ idle_for' = now - last_activity
    /\ Goes("check", 0)
    /\ UNCHANGED <<limits, now, tunnel, server, callVars, requestVars, deadline, reason, ghostVars>>

RuntimeReached == limits.max_runtime # 0 /\ now >= limits.max_runtime

IdleTooLong == limits.idle_timeout # 0 /\ idle_for >= limits.idle_timeout

Stops(why) ==
    /\ reason' = why
    /\ Goes("stop", 0)

FindsTunnelDead ==
    /\ pc = "check"
    /\ tunnel = "dead"
    /\ idle_for' = 0
    /\ Stops("tunnel_died")
    /\ UNCHANGED <<limits, now, tunnel, server, callVars, requestVars, deadline, ghostVars>>

RestartDue ==
    /\ pc = "check"
    /\ tunnel # "dead"
    /\ RuntimeReached
    /\ reason' = "scheduled_restart"
    /\ deadline' = now + DrainTimeout
    /\ drained' = {q \in Request : req[q] \in {"counted", "serving"}}
    /\ idle_for' = 0
    /\ Goes("drain", 0)
    /\ UNCHANGED <<limits, now, tunnel, server, callVars, requestVars, last_call,
                   confirmed_at, watch_from>>

FindsIdle ==
    /\ pc = "check"
    /\ tunnel # "dead"
    /\ ~ RuntimeReached
    /\ IdleTooLong
    /\ idle_for' = 0
    /\ Stops("idle_timeout")
    /\ UNCHANGED <<limits, now, tunnel, server, callVars, requestVars, deadline, ghostVars>>

WatchesOn ==
    /\ pc = "check"
    /\ tunnel # "dead"
    /\ ~ RuntimeReached
    /\ ~ IdleTooLong
    /\ now + CheckInterval <= MaxTime
    /\ idle_for' = 0
    /\ Goes("watch", CheckInterval)
    /\ UNCHANGED <<limits, now, tunnel, server, callVars, requestVars, deadline, reason, ghostVars>>

(* Mutant: one request may be left.                                        *)
DrainOverEarly == now >= deadline \/ inflight <= 1

DrainOver == now >= deadline \/ inflight = 0

DrainEnds ==
    /\ pc = "drain"
    /\ DrainOver
    /\ Goes("stop", 0)
    /\ UNCHANGED <<limits, now, tunnel, server, callVars, requestVars, watchVars, ghostVars>>

DrainWaits ==
    /\ pc = "drain"
    /\ ~ DrainOver
    /\ Goes("drain_sleep", DrainPoll)
    /\ UNCHANGED <<limits, now, tunnel, server, callVars, requestVars, watchVars, ghostVars>>

(* Mutants: every look at the requests sets the deadline anew; the         *)
(* requests are waited for without a timeout.                              *)
DrainLooksExtends ==
    /\ pc = "drain_sleep"
    /\ now = wake
    /\ deadline' = now + DrainTimeout
    /\ Goes("drain", 0)
    /\ UNCHANGED <<limits, now, tunnel, server, callVars, requestVars, idle_for, reason, ghostVars>>

DrainLooksWhenEmpty ==
    /\ pc = "drain_sleep"
    /\ now = wake
    /\ inflight = 0
    /\ Goes("drain", 0)
    /\ UNCHANGED <<limits, now, tunnel, server, callVars, requestVars, watchVars, ghostVars>>

DrainLooks ==
    /\ pc = "drain_sleep"
    /\ now = wake
    /\ Goes("drain", 0)
    /\ UNCHANGED <<limits, now, tunnel, server, callVars, requestVars, watchVars, ghostVars>>

(* Mutant: the end is reported while cloudflared is still stopping.        *)
StopsTunnelUnawaited ==
    /\ pc = "stop"
    /\ tunnel' = IF tunnel = "up" THEN "stopping" ELSE tunnel
    /\ Calls("ended")
    /\ UNCHANGED <<limits, now, server, heard, late, refused, requestVars, watchVars, ghostVars>>

StopsTunnel ==
    /\ pc = "stop"
    /\ tunnel' = IF tunnel = "up" THEN "stopping" ELSE tunnel
    /\ Goes("stopping", StopTime)
    /\ UNCHANGED <<limits, now, server, callVars, requestVars, watchVars, ghostVars>>

(* wait() returns, or runs out and is followed by kill().                  *)
TunnelStopped ==
    /\ pc = "stopping"
    /\ tunnel' = "down"
    /\ Calls("ended")
    /\ UNCHANGED <<limits, now, server, heard, late, refused, requestVars, watchVars, ghostVars>>

----------------------------------------------------------------------------
(* The other threads and processes.                                        *)

ServerUp ==
    /\ pc \notin {"loading", "exited", "silent"}
    /\ tunnel # "none"
    /\ ~ server
    /\ server' = TRUE
    /\ UNCHANGED <<limits, now, pc, wake, tunnel, callVars, requestVars, watchVars, ghostVars>>

(* cloudflared dies, or a stop that nobody waits for is carried out.       *)
TunnelGoes ==
    /\ \/ tunnel = "up" /\ tunnel' = "dead"
       \/ tunnel = "stopping" /\ tunnel' = "down"
    /\ UNCHANGED <<limits, now, pc, wake, server, callVars, requestVars, watchVars, ghostVars>>

Reachable == tunnel = "up" /\ server /\ ~ Ended

Arrives(q) ==
    /\ Reachable
    /\ req[q] = "new"
    /\ req' = [req EXCEPT ![q] = "arrived"]
    /\ UNCHANGED <<limits, now, pc, wake, tunnel, server, callVars, last_activity, inflight,
                   watchVars, ghostVars>>

(* _inflight_guard(), up to its yield.                                     *)
Counted(q) ==
    /\ ~ Ended
    /\ req[q] = "arrived"
    /\ req' = [req EXCEPT ![q] = "counted"]
    /\ inflight' = inflight + 1
    /\ UNCHANGED <<limits, now, pc, wake, tunnel, server, callVars, last_activity, watchVars,
                   ghostVars>>

(* Mutant: the request does not touch the idle clock.                      *)
HandlerStartsUntouched(q) ==
    /\ ~ Ended
    /\ req[q] = "counted"
    /\ req' = [req EXCEPT ![q] = "serving"]
    /\ last_call' = now
    /\ UNCHANGED <<limits, now, pc, wake, tunnel, server, callVars, last_activity, inflight,
                   watchVars, confirmed_at, watch_from, drained>>

HandlerStarts(q) ==
    /\ ~ Ended
    /\ req[q] = "counted"
    /\ req' = [req EXCEPT ![q] = "serving"]
    /\ last_activity' = now
    /\ last_call' = now
    /\ UNCHANGED <<limits, now, pc, wake, tunnel, server, callVars, inflight, watchVars,
                   confirmed_at, watch_from, drained>>

(* The answer or the error, and the guard's finally.                       *)
HandlerEnds(q) ==
    /\ ~ Ended
    /\ req[q] = "serving"
    /\ req' = [req EXCEPT ![q] = "done"]
    /\ inflight' = inflight - 1
    /\ UNCHANGED <<limits, now, pc, wake, tunnel, server, callVars, last_activity, watchVars,
                   ghostVars>>

----------------------------------------------------------------------------

Loading ==
    \/ SecretMissing
    \/ LoadFails
    \/ Loaded

ComingUp ==
    \/ TunnelFailed
    \/ HealthFailed
    \/ Confirmed

Starting == Loading \/ ComingUp

WebhookCalls ==
    \/ CallAnswered
    \/ CallUnavailable
    \/ CallFails
    \/ CallRetried
    \/ Leaves

Watching ==
    \/ WatchReads
    \/ FindsTunnelDead
    \/ RestartDue
    \/ FindsIdle
    \/ WatchesOn
    \/ DrainEnds
    \/ DrainWaits
    \/ DrainLooks
    \/ StopsTunnel
    \/ TunnelStopped

Serving(q) ==
    \/ Arrives(q)
    \/ Counted(q)
    \/ HandlerStarts(q)
    \/ HandlerEnds(q)

Next ==
    \/ Tick
    \/ Starting
    \/ WebhookCalls
    \/ Watching
    \/ ServerUp
    \/ TunnelGoes
    \/ \E path \in Path : HandledLate(path)
    \/ \E q \in Request : Serving(q)

Spec == Init /\ [][Next]_vars

(* Time passes, and from the start of the tunnel the main thread runs on:  *)
(* each of its waits is then a sleep or a call with a timeout.  Nothing    *)
(* bounds the load (the models, the secrets and the wget that gets         *)
(* cloudflared have no timeout), and a request need not be finished ever.  *)
FairSpec == Spec /\ WF_vars(Tick) /\ WF_vars(ComingUp \/ WebhookCalls \/ Watching)

----------------------------------------------------------------------------

(* What the backend may see of the run.  It is up until its tunnel is shut *)
(* for good, cloudflared gone and not merely told to; one that never came  *)
(* up stops to answer when its server fails.                               *)
ShutForGood == confirmed_at = -1 \/ tunnel \in {"dead", "down"}

Status ==
    IF Ended THEN "gone"
    ELSE IF call.path = "ended" /\ ShutForGood THEN "stopping"
    ELSE IF confirmed_at # -1 THEN "up"
    ELSE IF pc = "grace" /\ server THEN "answering"
    ELSE "loading"

(* How often a webhook may still be handled: in the attempts that are left *)
(* of the call, the one under way included, and late.                      *)
AttemptsLeft(path) ==
    IF call.path = path /\ pc \in {"call", "retry"}
    THEN Attempts - call.attempt + (IF pc = "call" THEN 1 ELSE 0)
    ELSE 0

CallsLeft(path) == AttemptsLeft(path) + late[path]

Lifecycle == INSTANCE RunLifecycle
    WITH run <- [status |-> Status, ready |-> CallsLeft("ready"), ended |-> CallsLeft("ended")],
         heard <- heard,
         Copies <- Attempts

(* One run of serve.py is a run as AlwaysOn takes it: ready is reported at *)
(* most once and only of a server that answers, the end is heard of only   *)
(* when the tunnel no longer leads to the run (the supervisor looks for a  *)
(* server to take over just then and would adopt the dying one), and       *)
(* nothing is handled more often than it was sent.                         *)
ImplementsRun == Lifecycle!Spec

(* A scheduled restart cuts off no request that was counted when the drain *)
(* began, unless the drain timeout has run out, however many more arrive.  *)
DrainedRequestsFinish ==
    [][ pc = "stop" /\ pc' # "stop" /\ reason = "scheduled_restart" =>
            now >= deadline \/ \A q \in drained : req[q] = "done" ]_vars

(* The watchdog finds a run idle only after a whole idle timeout since it  *)
(* came up, and since every call, but for one that came in at the moment   *)
(* it looked.                                                              *)
IdleMeansIdle ==
    [][ reason' = "idle_timeout" /\ reason # "idle_timeout" =>
            /\ limits.idle_timeout # 0
            /\ now - confirmed_at >= limits.idle_timeout
            /\ \/ last_call \in {-1, now}
               \/ now - last_call >= limits.idle_timeout ]_vars

(* A run with a runtime limit has begun to stop its tunnel one check and   *)
(* one drain after the limit at the latest, or after the ready report if   *)
(* that took until beyond it: the margin that Kaggle's own limit needs.    *)
Later(t, u) == IF t >= u THEN t ELSE u

RestartsInTime ==
    limits.max_runtime # 0 /\ watch_from # -1
        /\ pc \in {"watch", "check", "drain", "drain_sleep", "stop"} =>
            now <= Later(limits.max_runtime, watch_from) + CheckInterval
                       + DrainTimeout + DrainPoll - 1

(* A run that leaves through its own code has told the backend that it     *)
(* ended, unless it was turned down or none of the attempts got through.   *)
ExitIsReported ==
    pc = "exited" =>
        \/ "ended" \in heard \/ late["ended"] > 0
        \/ "ended" \in refused
        \/ call = [path |-> "ended", attempt |-> Attempts]

(* Once it has loaded its models a run with a runtime limit comes to an    *)
(* end, whatever the webhooks come to and though requests may hang.        *)
ScheduledRunEnds == limits.max_runtime # 0 /\ pc # "loading" ~> Ended

=============================================================================
