-------------------------- MODULE ServeRun_proofs --------------------------
(***************************************************************************)
(* For all limits, durations and requests: a run with a limit stops its    *)
(* tunnel in time, not before what it drained is done, and for idleness    *)
(* only when idle; one that exits has reported its end, or tried to as     *)
(* often as it may; and what its backend sees of it is RunLifecycle.       *)
(***************************************************************************)
EXTENDS ServeRun, FiniteSetTheorems, TLAPS

USE DEF Goes, Path

----------------------------------------------------------------------------
(* Time.  It does not pass the end of the main thread's wait.              *)

Clock ==
    /\ limits \in Limits
    /\ {now, wake, deadline} \subseteq Nat
    /\ now <= wake
    /\ watch_from \in Nat \union {-1}

LEMMA LimitsAreNumbers ==
    ASSUME NEW l \in Limits
    PROVE  l.max_runtime \in Int /\ l.idle_timeout \in Int
BY LimitsAssumption

LEMMA DurationsAreNumbers ==
    /\ LoadTime \in Nat /\ Grace \in Nat /\ DrainTimeout \in Nat /\ StopTime \in Nat
    /\ CallTimeout \in Nat /\ MaxTime \in Nat
    /\ CheckInterval \in Nat \ {0} /\ DrainPoll \in Nat \ {0} /\ Attempts \in Nat \ {0}
    /\ \A d \in RetryDelays : d \in Nat
BY DurationsAssumption

(* When a step of the watchdog may be over at the latest.                  *)
LastCheck == Later(limits.max_runtime, watch_from) + CheckInterval

WaitsInTime ==
    limits.max_runtime # 0 /\ watch_from # -1 =>
        /\ pc \in {"watch", "check"} => wake <= LastCheck
        /\ pc \in {"drain", "drain_sleep"} => /\ deadline <= LastCheck + DrainTimeout
                                              /\ wake <= deadline + DrainPoll - 1
        /\ pc = "stop" => wake <= LastCheck + DrainTimeout + DrainPoll - 1

(* No step lets the clock pass a wait, or puts off the end of one.         *)
LEMMA TimeStep ==
    ASSUME Clock, WaitsInTime, [Next]_vars
    PROVE  Clock' /\ WaitsInTime'
<1> USE LimitsAreNumbers, DurationsAreNumbers DEF Clock, WaitsInTime, LastCheck, Later
<1>1. CASE Tick
  BY <1>1 DEF Tick, watchVars, ghostVars
<1>2. CASE Starting
  <2> USE DEF watchVars, ghostVars, Calls
  <2>1. CASE SecretMissing \/ LoadFails
    BY <2>1 DEF SecretMissing, LoadFails
  <2>2. CASE Loaded
    BY <2>2 DEF Loaded
  <2>3. CASE TunnelFailed \/ HealthFailed
    BY <2>3 DEF TunnelFailed, HealthFailed
  <2>4. CASE Confirmed
    BY <2>4 DEF Confirmed
  <2> QED
    BY <1>2, <2>1, <2>2, <2>3, <2>4 DEF Starting, Loading, ComingUp
<1>3. CASE WebhookCalls
  <2>1. CASE CallAnswered
    BY <2>1 DEF CallAnswered, CallReturns, watchVars
  <2>2. CASE CallUnavailable \/ CallFails
    BY <2>2 DEF CallUnavailable, CallFails, TriesAgain, CallReturns, callVars, watchVars
  <2>3. CASE CallRetried \/ Leaves
    BY <2>3 DEF CallRetried, Leaves, watchVars, ghostVars
  <2> QED
    BY <1>3, <2>1, <2>2, <2>3 DEF WebhookCalls
<1>4. CASE Watching
  <2> USE DEF watchVars, ghostVars
  <2>1. CASE WatchReads
    BY <2>1 DEF WatchReads
  <2>2. CASE FindsTunnelDead \/ FindsIdle
    BY <2>2 DEF FindsTunnelDead, FindsIdle, Stops
  <2>3. CASE RestartDue
    BY <2>3 DEF RestartDue
  <2>4. CASE WatchesOn
    BY <2>4 DEF WatchesOn, RuntimeReached
  <2>5. CASE DrainEnds
    BY <2>5 DEF DrainEnds
  <2>6. CASE DrainWaits
    BY <2>6 DEF DrainWaits, DrainOver
  <2>7. CASE DrainLooks
    BY <2>7 DEF DrainLooks
  <2>8. CASE StopsTunnel \/ TunnelStopped
    BY <2>8 DEF StopsTunnel, TunnelStopped, Calls
  <2> QED
    BY <1>4, <2>1, <2>2, <2>3, <2>4, <2>5, <2>6, <2>7, <2>8 DEF Watching
<1>5. ASSUME UNCHANGED <<limits, now, wake, deadline, watch_from, pc>>
      PROVE  Clock' /\ WaitsInTime'
  BY <1>5
<1>6. CASE \/ ServerUp
           \/ TunnelGoes
           \/ \E path \in Path : HandledLate(path)
           \/ \E q \in Request : Serving(q)
           \/ UNCHANGED vars
  BY <1>5, <1>6 DEF ServerUp, TunnelGoes, HandledLate, Serving, Arrives, Counted, HandlerStarts,
                    HandlerEnds, vars, watchVars, ghostVars
<1> QED
  BY <1>1, <1>2, <1>3, <1>4, <1>6 DEF Next

(* However the load, the ready report and the requests drag on: a run with *)
(* a limit has begun to stop its tunnel within one check and one drain.    *)
THEOREM StopsInTime == Spec => []RestartsInTime
<1>1. Init => Clock /\ WaitsInTime
  BY LimitsAreNumbers, DurationsAreNumbers DEF Init, Clock, WaitsInTime
<1>2. Clock /\ WaitsInTime /\ [Next]_vars => (Clock /\ WaitsInTime)'
  BY TimeStep
<1>3. Clock /\ WaitsInTime => RestartsInTime
  <2> SUFFICES ASSUME Clock, WaitsInTime PROVE RestartsInTime
    OBVIOUS
  <2> QED
    BY LimitsAreNumbers, DurationsAreNumbers
    DEF Clock, WaitsInTime, LastCheck, Later, RestartsInTime
<1> QED
  BY <1>1, <1>2, <1>3, PTL DEF Spec

----------------------------------------------------------------------------
(* Reports.                                                                *)

CallTypeOK ==
    /\ call \in [path : Path, attempt : 1..Attempts]
    /\ heard \subseteq Path
    /\ late \in [Path -> Nat]
    /\ pc = "retry" => call.attempt < Attempts

Reported ==
    \/ "ended" \in heard
    \/ late["ended"] > 0
    \/ "ended" \in refused
    \/ call = [path |-> "ended", attempt |-> Attempts]

LeavesReported == pc \in {"leave", "exited"} => Reported

(* The main thread gets to its exit only by a call of "ended" that was    *)
(* answered, or by the last attempt of one.                                *)
LEMMA ReportStep ==
    ASSUME CallTypeOK, LeavesReported, [Next]_vars
    PROVE  CallTypeOK' /\ LeavesReported'
<1> USE DurationsAreNumbers DEF CallTypeOK
<1>1. ASSUME UNCHANGED callVars,
             pc' = "retry" => pc = "retry",
             pc' \in {"leave", "exited"} => pc \in {"leave", "exited"}
      PROVE  CallTypeOK' /\ LeavesReported'
  BY <1>1 DEF callVars, LeavesReported, Reported
<1>2. ASSUME NEW path \in Path, Calls(path), UNCHANGED <<heard, late, refused>>
      PROVE  CallTypeOK' /\ LeavesReported'
  BY <1>2 DEF Calls, LeavesReported
<1>3. CASE Starting
  BY <1>1, <1>2, <1>3
  DEF Starting, Loading, ComingUp, SecretMissing, LoadFails, Loaded, TunnelFailed,
         HealthFailed, Confirmed
<1>4. CASE Watching
  BY <1>1, <1>2, <1>4
  DEF Watching, WatchReads, FindsTunnelDead, RestartDue, FindsIdle, WatchesOn, DrainEnds,
      DrainWaits, DrainLooks, StopsTunnel, TunnelStopped, Stops
<1>5. CASE CallAnswered
  <2>1. call' = call /\ late' = late
    BY <1>5 DEF CallAnswered
  <2>2. call.path \in heard' \/ call.path \in refused'
    BY <1>5 DEF CallAnswered
  <2>3. heard' \subseteq Path
    BY <1>5 DEF CallAnswered
  <2>4. pc' \in {"leave", "exited"} => call.path = "ended"
    BY <1>5 DEF CallAnswered, CallReturns
  <2>5. pc' # "retry"
    BY <1>5 DEF CallAnswered, CallReturns
  <2> QED
    BY <2>1, <2>2, <2>3, <2>4, <2>5 DEF LeavesReported, Reported
<1>6. CASE CallUnavailable \/ CallFails
  <2>1. call' = call
    BY <1>6 DEF CallUnavailable, CallFails, callVars
  <2>2. heard' \subseteq Path
    BY <1>6 DEF CallUnavailable, CallFails, callVars
  <2>3. late' \in [Path -> Nat]
    <3>1. late' = late \/ late' = [late EXCEPT ![call.path] = @ + 1]
      BY <1>6 DEF CallUnavailable, CallFails, callVars
    <3> QED
      BY <3>1
  <2>4. pc' \in {"leave", "exited"} => call.path = "ended" /\ call.attempt = Attempts
    BY <1>6 DEF CallUnavailable, CallFails, TriesAgain, CallReturns
  <2>5. pc' = "retry" => call.attempt < Attempts
    BY <1>6 DEF CallUnavailable, CallFails, TriesAgain, CallReturns
  <2>6. call = [path |-> call.path, attempt |-> call.attempt]
    OBVIOUS
  <2> QED
    BY <2>1, <2>2, <2>3, <2>4, <2>5, <2>6 DEF LeavesReported, Reported
<1>7. CASE CallRetried
  <2>1. pc' = "call" /\ UNCHANGED <<heard, late>>
    BY <1>7 DEF CallRetried
  <2>2. call' = [path |-> call.path, attempt |-> call.attempt + 1]
    BY <1>7 DEF CallRetried
  <2>3. call.attempt + 1 \in 1..Attempts
    BY <1>7 DEF CallRetried
  <2> QED
    BY <2>1, <2>2, <2>3 DEF LeavesReported
<1>8. ASSUME NEW path \in Path, HandledLate(path) PROVE CallTypeOK' /\ LeavesReported'
  BY <1>8 DEF HandledLate, LeavesReported, Reported
<1>9. CASE \/ Tick
           \/ Leaves
           \/ ServerUp
           \/ TunnelGoes
           \/ \E q \in Request : Serving(q)
           \/ UNCHANGED vars
  BY <1>1, <1>9 DEF Tick, Leaves, ServerUp, TunnelGoes, Serving, Arrives, Counted, HandlerStarts,
                    HandlerEnds, vars
<1> QED
  BY <1>3, <1>4, <1>5, <1>6, <1>7, <1>8, <1>9 DEF Next, WebhookCalls

(* A run that leaves through its own code has got its end through, was     *)
(* turned down, or has made all its attempts.                              *)
THEOREM ExitsAreReported == Spec => []ExitIsReported
<1>1. Init => CallTypeOK /\ LeavesReported
  BY DurationsAreNumbers DEF Init, CallTypeOK, LeavesReported
<1>2. CallTypeOK /\ LeavesReported /\ [Next]_vars => (CallTypeOK /\ LeavesReported)'
  BY ReportStep
<1>3. LeavesReported => ExitIsReported
  BY DEF LeavesReported, Reported, ExitIsReported
<1> QED
  BY <1>1, <1>2, <1>3, PTL DEF Spec

----------------------------------------------------------------------------
(* Requests.  _inflight is the number of those between the guard's two     *)
(* halves, and those that the drain began with have not gone back.         *)

InServer == {q \in Request : req[q] \in {"counted", "serving"}}

RequestsCounted ==
    /\ req \in [Request -> {"new", "arrived", "counted", "serving", "done"}]
    /\ inflight = Cardinality(InServer)
    /\ drained \subseteq InServer \union {q \in Request : req[q] = "done"}

LEMMA InServerIsFinite ==
    /\ IsFiniteSet(InServer)
    /\ Cardinality(InServer) \in 0 .. Cardinality(Request)
    /\ Cardinality(InServer) = 0 => InServer = {}
<1>1. InServer \in SUBSET Request
  BY DEF InServer
<1>2. IsFiniteSet(InServer) /\ Cardinality(InServer) <= Cardinality(Request)
  BY <1>1, FS_Subset, RequestAssumption
<1>3. Cardinality(InServer) \in Nat /\ Cardinality(Request) \in Nat
  BY <1>2, FS_CardinalityType, RequestAssumption
<1> QED
  BY <1>2, <1>3, FS_EmptySet

(* One request at a time is counted, served or done with.                  *)
LEMMA ServingStep ==
    ASSUME RequestsCounted, NEW q \in Request, Serving(q)
    PROVE  RequestsCounted'
<1> USE DEF RequestsCounted
<1>1. UNCHANGED drained
  BY DEF Serving, Arrives, Counted, HandlerStarts, HandlerEnds, ghostVars
<1>2. CASE Arrives(q) \/ HandlerStarts(q)
  <2>1. InServer' = InServer
    BY <1>2 DEF Arrives, HandlerStarts, InServer
  <2> QED
    BY <1>1, <1>2, <2>1 DEF Arrives, HandlerStarts
<1>3. CASE Counted(q)
  <2>1. InServer' = InServer \union {q} /\ q \notin InServer
    BY <1>3 DEF Counted, InServer
  <2>2. Cardinality(InServer') = Cardinality(InServer) + 1
    BY <2>1, InServerIsFinite, FS_AddElement
  <2> QED
    BY <1>1, <1>3, <2>1, <2>2 DEF Counted
<1>4. CASE HandlerEnds(q)
  <2>1. InServer' = InServer \ {q} /\ q \in InServer
    BY <1>4 DEF HandlerEnds, InServer
  <2>2. Cardinality(InServer') = Cardinality(InServer) - 1
    BY <2>1, InServerIsFinite, FS_RemoveElement
  <2>3. req' \in [Request -> {"new", "arrived", "counted", "serving", "done"}]
    BY <1>4 DEF HandlerEnds
  <2>4. {p \in Request : req[p] = "done"} \union {q} = {p \in Request : req'[p] = "done"}
    BY <1>4 DEF HandlerEnds
  <2>5. drained' \subseteq InServer' \union {p \in Request : req'[p] = "done"}
    BY <1>1, <2>1, <2>4
  <2> QED
    BY <1>4, <2>2, <2>3, <2>5 DEF HandlerEnds
<1> QED
  BY <1>2, <1>3, <1>4 DEF Serving

LEMMA RequestStep ==
    ASSUME RequestsCounted, [Next]_vars
    PROVE  RequestsCounted'
<1>1. CASE UNCHANGED <<req, inflight, drained>>
  BY <1>1 DEF RequestsCounted, InServer
<1>2. CASE RestartDue
  BY <1>2 DEF RequestsCounted, InServer, RestartDue, requestVars
<1>3. CASE \E q \in Request : Serving(q)
  BY <1>3, ServingStep
<1>4. \/ UNCHANGED <<req, inflight, drained>>
      \/ RestartDue
      \/ \E q \in Request : Serving(q)
  <2> USE DEF requestVars, ghostVars
  <2>1. CASE Starting
    BY <2>1 DEF Starting, Loading, ComingUp, SecretMissing, LoadFails, Loaded, TunnelFailed,
         HealthFailed, Confirmed
  <2>2. CASE WebhookCalls
    BY <2>2 DEF WebhookCalls, CallAnswered, CallUnavailable, CallFails, CallRetried, Leaves
  <2>3. CASE Watching
    BY <2>3 DEF Watching, WatchReads, FindsTunnelDead, FindsIdle, WatchesOn, DrainEnds,
                DrainWaits, DrainLooks, StopsTunnel, TunnelStopped
  <2> QED
    BY <2>1, <2>2, <2>3 DEF Next, Tick, ServerUp, TunnelGoes, HandledLate, vars
<1> QED
  BY <1>1, <1>2, <1>3, <1>4

(* The drain is over when nothing is counted any more, and nothing that it *)
(* began with comes back between that and the stop.                        *)
DrainDone == now >= deadline \/ \A q \in drained : req[q] = "done"

DrainObserved == pc = "stop" /\ reason = "scheduled_restart" => DrainDone

LEMMA DrainStep ==
    ASSUME Clock, RequestsCounted, DrainObserved, [Next]_vars
    PROVE  DrainObserved'
<1> USE DEF DrainObserved
<1>1. ASSUME pc' = "stop" => pc = "stop", UNCHANGED <<deadline, reason, drained, req>>,
             now' \in Nat, now' >= now
      PROVE  DrainObserved'
  BY <1>1 DEF DrainDone, Clock
<1>2. ASSUME pc' # "stop" \/ reason' # "scheduled_restart" PROVE DrainObserved'
  BY <1>2
<1>3. CASE DrainEnds
  <2>1. UNCHANGED <<now, deadline, drained, req>>
    BY <1>3 DEF DrainEnds, watchVars, ghostVars, requestVars
  <2>2. CASE now >= deadline
    BY <2>1, <2>2 DEF DrainDone
  <2>3. CASE inflight = 0
    <3>1. InServer = {}
      BY <2>3, InServerIsFinite DEF RequestsCounted
    <3> QED
      BY <2>1, <3>1 DEF DrainDone, RequestsCounted
  <2> QED
    BY <1>3, <2>2, <2>3 DEF DrainEnds, DrainOver
<1>4. CASE \E q \in Request : Serving(q)
  <2>1. PICK q \in Request : Serving(q)
    BY <1>4
  <2>2. UNCHANGED <<now, pc, deadline, reason, drained>>
    BY <2>1 DEF Serving, Arrives, Counted, HandlerStarts, HandlerEnds, watchVars, ghostVars
  <2>3. \A p \in Request : req[p] = "done" => req'[p] = "done"
    BY <2>1 DEF Serving, Arrives, Counted, HandlerStarts, HandlerEnds, RequestsCounted
  <2> QED
    BY <2>2, <2>3 DEF DrainDone, RequestsCounted, InServer
<1>5. CASE Tick
  BY <1>1, <1>5 DEF Tick, Clock, watchVars, ghostVars, requestVars
<1>6. CASE Starting
  BY <1>2, <1>6 DEF Starting, Loading, ComingUp, SecretMissing, LoadFails, Loaded, TunnelFailed,
                    HealthFailed, Confirmed, Calls
<1>7. CASE WebhookCalls
  BY <1>2, <1>7 DEF WebhookCalls, CallAnswered, CallUnavailable, CallFails, CallRetried, Leaves,
                    TriesAgain, CallReturns
<1>8. CASE Watching
  BY <1>2, <1>3, <1>8 DEF Watching, WatchReads, FindsTunnelDead, RestartDue, FindsIdle, WatchesOn,
                          DrainWaits, DrainLooks, StopsTunnel, TunnelStopped, Stops, Calls
<1>9. CASE \/ ServerUp
           \/ TunnelGoes
           \/ \E path \in Path : HandledLate(path)
           \/ UNCHANGED vars
  BY <1>1, <1>9 DEF ServerUp, TunnelGoes, HandledLate, vars, watchVars, ghostVars, requestVars,
                    Clock
<1> QED
  BY <1>4, <1>5, <1>6, <1>7, <1>8, <1>9 DEF Next

(* However many requests come in during a drain, and in whatever order     *)
(* they end: those that it began with are done, or had their time.         *)
THEOREM DrainsAreFinished == Spec => DrainedRequestsFinish
<1> DEFINE Inv == Clock /\ WaitsInTime /\ RequestsCounted /\ DrainObserved
<1>1. Init => Inv
  <2> SUFFICES ASSUME Init PROVE Inv
    OBVIOUS
  <2>1. Clock /\ WaitsInTime
    BY LimitsAreNumbers, DurationsAreNumbers DEF Init, Clock, WaitsInTime
  <2>2. InServer = {} /\ req \in [Request -> {"new"}] /\ inflight = 0 /\ drained = {}
    BY DEF Init, InServer
  <2>3. RequestsCounted
    BY <2>2, FS_EmptySet DEF RequestsCounted
  <2>4. DrainObserved
    BY DEF Init, DrainObserved
  <2> QED
    BY <2>1, <2>3, <2>4
<1>2. Inv /\ [Next]_vars => Inv'
  BY TimeStep, RequestStep, DrainStep
<1>3. Inv /\ [Next]_vars =>
          [pc = "stop" /\ pc' # "stop" /\ reason = "scheduled_restart" =>
               now >= deadline \/ \A q \in drained : req[q] = "done"]_vars
  BY DEF DrainObserved, DrainDone
<1> QED
  BY <1>1, <1>2, <1>3, PTL DEF Spec, DrainedRequestsFinish

----------------------------------------------------------------------------
(* Idleness.  The watchdog's reading was taken at the moment it looks, and *)
(* the clock it read was set by whatever happened last.                    *)

ActivityInOrder ==
    /\ last_activity \in Nat /\ last_activity <= now
    /\ last_call \in Nat \union {-1} /\ last_call <= last_activity
    /\ confirmed_at \in Nat \union {-1} /\ confirmed_at <= last_activity
    /\ idle_for \in Nat

ReadingIsRecent ==
    pc = "check" => /\ now = wake
                    /\ idle_for <= now - confirmed_at
                    /\ last_call = now \/ idle_for <= now - last_call

LEMMA ActivityStep ==
    ASSUME Clock, ActivityInOrder, ReadingIsRecent, [Next]_vars
    PROVE  ActivityInOrder' /\ ReadingIsRecent'
<1> USE DEF Clock, ActivityInOrder, ReadingIsRecent
<1>1. ASSUME UNCHANGED <<now, last_activity, last_call, confirmed_at>>,
             pc' # "check", idle_for' \in {idle_for, 0}
      PROVE  ActivityInOrder' /\ ReadingIsRecent'
  BY <1>1
<1>2. CASE Tick
  BY <1>2 DEF Tick, requestVars, watchVars, ghostVars
<1>3. CASE Confirmed
  BY <1>3 DEF Confirmed, watchVars, Calls
<1>4. CASE Starting /\ ~ Confirmed
  BY <1>1, <1>4 DEF Starting, Loading, ComingUp, SecretMissing, LoadFails, Loaded, TunnelFailed,
                    HealthFailed, Calls, requestVars, watchVars, ghostVars
<1>5. CASE WebhookCalls
  BY <1>1, <1>5 DEF WebhookCalls, CallAnswered, CallUnavailable, CallFails, CallRetried, Leaves,
                    TriesAgain, CallReturns, requestVars, watchVars, ghostVars
<1>6. CASE WatchReads
  BY <1>6 DEF WatchReads, requestVars, ghostVars
<1>7. CASE Watching /\ ~ WatchReads
  BY <1>1, <1>7 DEF Watching, FindsTunnelDead, RestartDue, FindsIdle, WatchesOn, DrainEnds,
                    DrainWaits, DrainLooks, StopsTunnel, TunnelStopped, Stops, Calls,
                    requestVars, watchVars, ghostVars
<1>8. ASSUME NEW q \in Request, HandlerStarts(q) PROVE ActivityInOrder' /\ ReadingIsRecent'
  BY <1>8 DEF HandlerStarts, watchVars
<1>9. ASSUME UNCHANGED <<now, pc, wake, last_activity, last_call, confirmed_at, idle_for>>
      PROVE  ActivityInOrder' /\ ReadingIsRecent'
  BY <1>9
<1>10. CASE \/ ServerUp
            \/ TunnelGoes
            \/ \E path \in Path : HandledLate(path)
            \/ \E q \in Request : Arrives(q) \/ Counted(q) \/ HandlerEnds(q)
            \/ UNCHANGED vars
  BY <1>9, <1>10 DEF ServerUp, TunnelGoes, HandledLate, Arrives, Counted, HandlerEnds, vars,
                     requestVars, watchVars, ghostVars
<1> QED
  BY <1>2, <1>3, <1>4, <1>5, <1>6, <1>7, <1>8, <1>10 DEF Next, Serving

LEMMA OnlyFindsIdle ==
    ASSUME [Next]_vars, reason' = "idle_timeout", reason # "idle_timeout"
    PROVE  FindsIdle
<1> USE DEF watchVars
<1>1. CASE Starting
  BY <1>1 DEF Starting, Loading, ComingUp, SecretMissing, LoadFails, Loaded, TunnelFailed,
         HealthFailed, Confirmed
<1>2. CASE WebhookCalls
  BY <1>2 DEF WebhookCalls, CallAnswered, CallUnavailable, CallFails, CallRetried, Leaves
<1>3. CASE Watching
  BY <1>3 DEF Watching, WatchReads, FindsTunnelDead, RestartDue, WatchesOn, DrainEnds, DrainWaits,
              DrainLooks, StopsTunnel, TunnelStopped, Stops
<1> QED
  BY <1>1, <1>2, <1>3 DEF Next, Tick, ServerUp, TunnelGoes, HandledLate, Serving, Arrives,
                          Counted, HandlerStarts, HandlerEnds, vars

(* A run is stopped for idleness only after a whole idle timeout without a *)
(* call, whatever calls come in between the reading and the decision.      *)
THEOREM IdleStopsAreEarned == Spec => IdleMeansIdle
<1> DEFINE Inv == Clock /\ WaitsInTime /\ ActivityInOrder /\ ReadingIsRecent
<1>1. Init => Inv
  BY LimitsAreNumbers, DurationsAreNumbers
  DEF Init, Clock, WaitsInTime, ActivityInOrder, ReadingIsRecent
<1>2. Inv /\ [Next]_vars => Inv'
  BY TimeStep, ActivityStep
<1>3. Inv /\ [Next]_vars =>
          [reason' = "idle_timeout" /\ reason # "idle_timeout" =>
               /\ limits.idle_timeout # 0
               /\ now - confirmed_at >= limits.idle_timeout
               /\ \/ last_call \in {-1, now}
                  \/ now - last_call >= limits.idle_timeout]_vars
  <2> SUFFICES ASSUME Inv, [Next]_vars, reason' = "idle_timeout", reason # "idle_timeout"
               PROVE  /\ limits.idle_timeout # 0
                      /\ now - confirmed_at >= limits.idle_timeout
                      /\ \/ last_call \in {-1, now}
                         \/ now - last_call >= limits.idle_timeout
    OBVIOUS
  <2>1. FindsIdle
    BY OnlyFindsIdle
  <2> QED
    BY <2>1, LimitsAreNumbers DEF FindsIdle, IdleTooLong, Clock, ActivityInOrder, ReadingIsRecent
<1> QED
  BY <1>1, <1>2, <1>3, PTL DEF Spec, IdleMeansIdle

----------------------------------------------------------------------------
(* The order of a run's life.  The end is reported from the last call on;  *)
(* until then "ended" is not on its way, and from then on the tunnel of a  *)
(* run that was up leads nowhere.                                          *)

AtWatch == pc \in {"watch", "check", "drain", "drain_sleep", "stop", "stopping"}

LifeInOrder ==
    /\ pc \in Pc
    /\ tunnel \in {"none", "up", "dead", "stopping", "down"}
    /\ server \in BOOLEAN
    /\ pc = "loading" => ~ server
    /\ pc \in {"loading", "grace", "silent"} => confirmed_at = -1
    /\ pc \notin {"loading", "grace", "silent"} /\ call.path = "ready" => confirmed_at # -1
    /\ call.path = "ended" => ShutForGood

(* What of a call is still to be handled late, or to be tried, was sent:   *)
(* "ready" not before it is called, "ended" not before that.               *)
CallsInOrder ==
    /\ pc \in {"loading", "grace", "silent"} => call = [path |-> "ready", attempt |-> 1]
                                               /\ late["ready"] = 0
    /\ AtWatch => call.path = "ready"
    /\ pc \in {"leave", "exited"} => call.path = "ended"
    /\ call.path = "ready" => late["ended"] = 0
    /\ \A path \in Path : CallsLeft(path) <= Attempts

LEMMA LifeStep ==
    ASSUME Clock, CallTypeOK, LifeInOrder, CallsInOrder, [Next]_vars
    PROVE  LifeInOrder'
<1> USE DEF LifeInOrder, Pc, ShutForGood
<1>1. ASSUME UNCHANGED <<pc, tunnel, server, call, confirmed_at>> PROVE LifeInOrder'
  BY <1>1
<1>2. CASE Starting
  <2> USE DEF CallsInOrder, Calls, callVars, ghostVars
  <2>1. CASE SecretMissing \/ LoadFails
    BY <2>1 DEF SecretMissing, LoadFails
  <2>2. CASE Loaded
    BY <2>2 DEF Loaded
  <2>3. CASE TunnelFailed \/ HealthFailed
    BY <2>3 DEF TunnelFailed, HealthFailed
  <2>4. CASE Confirmed
    BY <2>4 DEF Confirmed, Clock
  <2> QED
    BY <1>2, <2>1, <2>2, <2>3, <2>4 DEF Starting, Loading, ComingUp
<1>3. CASE WebhookCalls
  <2>1. pc \in {"call", "retry", "leave"} /\ pc' \in {"call", "retry", "watch", "leave", "exited"}
    BY <1>3 DEF WebhookCalls, CallAnswered, CallUnavailable, CallFails, CallRetried, Leaves,
                TriesAgain, CallReturns
  <2>2. UNCHANGED <<tunnel, server, confirmed_at>>
    BY <1>3 DEF WebhookCalls, CallAnswered, CallUnavailable, CallFails, CallRetried, Leaves,
                ghostVars
  <2>3. call' = call \/ call' = [call EXCEPT !.attempt = @ + 1]
    BY <1>3 DEF WebhookCalls, CallAnswered, CallUnavailable, CallFails, CallRetried, Leaves,
                callVars
  <2>4. call'.path = call.path
    BY <2>3 DEF CallTypeOK
  <2> QED
    BY <2>1, <2>2, <2>4
<1>4. CASE Watching
  <2>1. AtWatch /\ call.path = "ready" /\ confirmed_at # -1
    BY <1>4 DEF Watching, WatchReads, FindsTunnelDead, RestartDue, FindsIdle, WatchesOn, DrainEnds,
                DrainWaits, DrainLooks, StopsTunnel, TunnelStopped, AtWatch, CallsInOrder
  <2>2. CASE TunnelStopped
    BY <2>1, <2>2 DEF TunnelStopped, Calls, ghostVars
  <2>3. CASE Watching /\ ~ TunnelStopped
    <3>1. AtWatch' /\ UNCHANGED <<call, server, confirmed_at>>
      BY <2>3 DEF Watching, WatchReads, FindsTunnelDead, RestartDue, FindsIdle, WatchesOn,
                  DrainEnds, DrainWaits, DrainLooks, StopsTunnel, Stops, AtWatch, callVars,
                  ghostVars
    <3>2. tunnel' \in {tunnel, "stopping"}
      BY <2>3 DEF Watching, WatchReads, FindsTunnelDead, RestartDue, FindsIdle, WatchesOn,
                  DrainEnds, DrainWaits, DrainLooks, StopsTunnel
    <3> QED
      BY <2>1, <3>1, <3>2 DEF AtWatch
  <2> QED
    BY <1>4, <2>2, <2>3
<1>5. CASE ServerUp \/ TunnelGoes
  <2>1. UNCHANGED <<pc, call, confirmed_at>>
    BY <1>5 DEF ServerUp, TunnelGoes, callVars, ghostVars
  <2>2. CASE ServerUp
    BY <2>1, <2>2 DEF ServerUp
  <2>3. CASE TunnelGoes
    BY <2>1, <2>3 DEF TunnelGoes
  <2> QED
    BY <1>5, <2>2, <2>3
<1>6. CASE \/ Tick
           \/ \E path \in Path : HandledLate(path)
           \/ \E q \in Request : Serving(q)
           \/ UNCHANGED vars
  BY <1>1, <1>6 DEF Tick, HandledLate, Serving, Arrives, Counted, HandlerStarts, HandlerEnds, vars,
                    callVars, ghostVars
<1> QED
  BY <1>2, <1>3, <1>4, <1>5, <1>6 DEF Next

(* A step that neither calls nor returns from a call leaves what is still  *)
(* to be handled as it was.                                                *)
LEMMA CallsLeftKept ==
    ASSUME UNCHANGED <<call, late>>, pc' \in {"call", "retry"} \/ pc \in {"call", "retry"} => pc' = pc,
           NEW path \in Path
    PROVE  CallsLeft(path)' = CallsLeft(path)
BY DEF CallsLeft, AttemptsLeft

LEMMA CallsStep ==
    ASSUME Clock, CallTypeOK, LifeInOrder, CallsInOrder, [Next]_vars
    PROVE  CallsInOrder'
<1> USE DurationsAreNumbers DEF CallsInOrder, CallTypeOK
<1>1. ASSUME UNCHANGED <<call, late>>,
             pc' \in {"call", "retry"} \/ pc \in {"call", "retry"} => pc' = pc,
             \/ pc' = pc
             \/ AtWatch /\ AtWatch'
             \/ {pc, pc'} \subseteq {"loading", "grace", "silent"}
             \/ {pc, pc'} \subseteq {"leave", "exited"}
      PROVE  CallsInOrder'
  BY <1>1, CallsLeftKept DEF AtWatch
<1>2. ASSUME NEW path \in Path, Calls(path), UNCHANGED late, call.path = "ready",
             late[path] = 0, pc \notin {"call", "retry"}
      PROVE  CallsInOrder'
  BY <1>2 DEF Calls, CallsLeft, AttemptsLeft, AtWatch
<1>3. CASE Starting
  <2>1. CASE SecretMissing \/ Loaded
    BY <1>1, <2>1 DEF SecretMissing, Loaded, callVars
  <2>2. CASE LoadFails \/ TunnelFailed \/ HealthFailed
    BY <1>2, <2>2 DEF LoadFails, TunnelFailed, HealthFailed
  <2>3. CASE Confirmed
    BY <1>2, <2>3 DEF Confirmed
  <2> QED
    BY <1>3, <2>1, <2>2, <2>3 DEF Starting, Loading, ComingUp
<1>4. CASE Watching
  <2>1. CASE TunnelStopped
    BY <1>2, <2>1 DEF TunnelStopped, AtWatch
  <2>2. CASE Watching /\ ~ TunnelStopped
    <3>1. AtWatch /\ AtWatch' /\ UNCHANGED <<call, late>>
      BY <2>2 DEF Watching, WatchReads, FindsTunnelDead, RestartDue, FindsIdle, WatchesOn,
                  DrainEnds, DrainWaits, DrainLooks, StopsTunnel, Stops, AtWatch, callVars
    <3> QED
      BY <1>1, <3>1 DEF AtWatch
  <2> QED
    BY <1>4, <2>1, <2>2
<1>5. CASE CallAnswered
  <2>1. UNCHANGED <<call, late>> /\ pc = "call"
    BY <1>5 DEF CallAnswered
  <2>2. pc' = IF call.path = "ready" THEN "watch" ELSE "leave"
    BY <1>5 DEF CallAnswered, CallReturns
  <2> QED
    BY <2>1, <2>2 DEF CallsLeft, AttemptsLeft, AtWatch
<1>6. CASE CallUnavailable \/ CallFails
  <2>1. call' = call /\ pc = "call"
    BY <1>6 DEF CallUnavailable, CallFails, callVars
  <2>2. late' = late \/ late' = [late EXCEPT ![call.path] = @ + 1]
    BY <1>6 DEF CallUnavailable, CallFails, callVars
  <2>3. pc' = IF call.attempt < Attempts THEN "retry"
              ELSE IF call.path = "ready" THEN "watch" ELSE "leave"
    BY <1>6 DEF CallUnavailable, CallFails, TriesAgain, CallReturns
  <2> QED
    BY <2>1, <2>2, <2>3 DEF CallsLeft, AttemptsLeft, AtWatch
<1>7. CASE CallRetried
  <2>1. call' = [path |-> call.path, attempt |-> call.attempt + 1]
    BY <1>7 DEF CallRetried
  <2>2. pc = "retry" /\ pc' = "call" /\ late' = late
    BY <1>7 DEF CallRetried
  <2> QED
    BY <2>1, <2>2 DEF CallsLeft, AttemptsLeft, AtWatch
<1>8. ASSUME NEW path \in Path, HandledLate(path) PROVE CallsInOrder'
  <2>1. late' = [late EXCEPT ![path] = @ - 1] /\ late[path] > 0
    BY <1>8 DEF HandledLate
  <2>2. UNCHANGED <<pc, call>>
    BY <1>8 DEF HandledLate
  <2> QED
    BY <2>1, <2>2 DEF CallsLeft, AttemptsLeft, AtWatch
<1>9. CASE \/ Tick
           \/ Leaves
           \/ ServerUp
           \/ TunnelGoes
           \/ \E q \in Request : Serving(q)
           \/ UNCHANGED vars
  BY <1>1, <1>9 DEF Tick, Leaves, ServerUp, TunnelGoes, Serving, Arrives, Counted, HandlerStarts,
                    HandlerEnds, vars, callVars
<1> QED
  BY <1>3, <1>4, <1>5, <1>6, <1>7, <1>8, <1>9 DEF Next, WebhookCalls

FlagsTypeOK ==
    /\ refused \subseteq Path
    /\ reason \in {"none", "tunnel_died", "scheduled_restart", "idle_timeout"}

LEMMA FlagsStep ==
    ASSUME FlagsTypeOK, CallTypeOK, [Next]_vars
    PROVE  FlagsTypeOK'
<1> USE DEF FlagsTypeOK, callVars, watchVars
<1>1. CASE Starting
  BY <1>1 DEF Starting, Loading, ComingUp, SecretMissing, LoadFails, Loaded, TunnelFailed,
         HealthFailed, Confirmed
<1>2. CASE WebhookCalls
  <2>1. call.path \in Path
    BY DEF CallTypeOK
  <2> QED
    BY <1>2, <2>1
    DEF WebhookCalls, CallAnswered, CallUnavailable, CallFails, CallRetried, Leaves
<1>3. CASE Watching
  BY <1>3 DEF Watching, WatchReads, FindsTunnelDead, RestartDue, FindsIdle, WatchesOn, DrainEnds,
              DrainWaits, DrainLooks, StopsTunnel, TunnelStopped, Stops
<1> QED
  BY <1>1, <1>2, <1>3 DEF Next, Tick, ServerUp, TunnelGoes, HandledLate, Serving, Arrives,
                          Counted, HandlerStarts, HandlerEnds, vars

ServeInv ==
    /\ Clock /\ WaitsInTime
    /\ CallTypeOK /\ LeavesReported
    /\ RequestsCounted
    /\ ActivityInOrder /\ ReadingIsRecent
    /\ LifeInOrder /\ CallsInOrder
    /\ FlagsTypeOK

LEMMA Invariance == Spec => []ServeInv
<1>1. Init => ServeInv
  <2> SUFFICES ASSUME Init PROVE ServeInv
    OBVIOUS
  <2> USE DurationsAreNumbers DEF Init
  <2>1. Clock /\ WaitsInTime
    BY LimitsAreNumbers DEF Clock, WaitsInTime
  <2>2. CallTypeOK /\ LeavesReported
    BY DEF CallTypeOK, LeavesReported
  <2>3. RequestsCounted
    <3>1. InServer = {}
      BY DEF InServer
    <3> QED
      BY <3>1, FS_EmptySet DEF RequestsCounted
  <2>4. ActivityInOrder /\ ReadingIsRecent
    BY DEF ActivityInOrder, ReadingIsRecent
  <2>5. LifeInOrder
    BY DEF LifeInOrder, Pc
  <2>6. CallsInOrder
    <3>1. pc = "loading" /\ call = [path |-> "ready", attempt |-> 1] /\ call.path = "ready"
      OBVIOUS
    <3>2. late["ready"] = 0 /\ late["ended"] = 0
      OBVIOUS
    <3> QED
      BY <3>1, <3>2 DEF CallsInOrder, CallsLeft, AttemptsLeft, AtWatch
  <2>7. FlagsTypeOK
    BY DEF FlagsTypeOK
  <2> QED
    BY <2>1, <2>2, <2>3, <2>4, <2>5, <2>6, <2>7 DEF ServeInv
<1>2. ServeInv /\ [Next]_vars => ServeInv'
  BY TimeStep, ReportStep, RequestStep, ActivityStep, LifeStep, CallsStep, FlagsStep DEF ServeInv
<1> QED
  BY <1>1, <1>2, PTL DEF Spec

(* Type correctness: _inflight never leaves the number of requests, and    *)
(* no webhook is on its way more often than it was tried.                  *)
THEOREM TypeCorrect == Spec => []TypeOK
<1>1. ServeInv => TypeOK
  <2> SUFFICES ASSUME ServeInv PROVE TypeOK
    OBVIOUS
  <2>1. inflight \in 0 .. Cardinality(Request) /\ drained \subseteq Request
    BY InServerIsFinite DEF ServeInv, RequestsCounted, InServer
  <2>2. late \in [Path -> 0..Attempts]
    <3>1. ASSUME NEW path \in Path PROVE late[path] \in 0..Attempts
      BY DurationsAreNumbers
      DEF ServeInv, CallsInOrder, CallsLeft, AttemptsLeft, CallTypeOK
    <3> QED
      BY <3>1 DEF ServeInv, CallTypeOK
  <2> QED
    BY <2>1, <2>2
    DEF ServeInv, TypeOK, Clock, CallTypeOK, RequestsCounted, ActivityInOrder, LifeInOrder,
        FlagsTypeOK
<1> QED
  BY <1>1, Invariance, PTL

----------------------------------------------------------------------------
(* What the backend sees: the run as RunLifecycle has it.                  *)

Run == [status |-> Status, ready |-> CallsLeft("ready"), ended |-> CallsLeft("ended")]

AbstractStep == Lifecycle!Next \/ UNCHANGED <<Run, heard>>

LEMMA CallsLeftAreNumbers ==
    ASSUME CallTypeOK, NEW path \in Path
    PROVE  CallsLeft(path) \in Nat
BY DurationsAreNumbers DEF CallTypeOK, CallsLeft, AttemptsLeft

(* One call that is handled, or comes to nothing.                          *)
LEMMA OneCallFewer ==
    ASSUME CallTypeOK, CallTypeOK', NEW path \in Path,
           Status' = Status,
           CallsLeft(path)' < CallsLeft(path),
           \A other \in Path \ {path} : CallsLeft(other)' = CallsLeft(other),
           heard' \in {heard, heard \union {path}}
    PROVE  AbstractStep
<1>1. CallsLeft(path)' \in 0 .. CallsLeft(path) - 1
  <2>1. CallsLeft(path)' \in Nat
    BY DurationsAreNumbers DEF CallTypeOK, CallsLeft, AttemptsLeft
  <2> QED
    BY <2>1, CallsLeftAreNumbers
<1>2. CASE path = "ready"
  <2>1. Run' = [Run EXCEPT !["ready"] = CallsLeft("ready")']
    BY <1>2 DEF Run
  <2>2. Run' \in Lifecycle!FewerCalls(Run, "ready")
    BY <1>1, <1>2, <2>1 DEF Lifecycle!FewerCalls, Run
  <2> QED
    BY <1>2, <2>2 DEF AbstractStep, Lifecycle!Next, Lifecycle!Hears, Lifecycle!Misses,
                      Lifecycle!Path, Run
<1>3. CASE path = "ended"
  <2>1. Run' = [Run EXCEPT !["ended"] = CallsLeft("ended")']
    BY <1>3 DEF Run
  <2>2. Run' \in Lifecycle!FewerCalls(Run, "ended")
    BY <1>1, <1>3, <2>1 DEF Lifecycle!FewerCalls, Run
  <2> QED
    BY <1>3, <2>2 DEF AbstractStep, Lifecycle!Next, Lifecycle!Hears, Lifecycle!Misses,
                      Lifecycle!Path, Run
<1> QED
  BY <1>2, <1>3

(* One turn in the run's life, given what is seen of it before and after.  *)
LEMMA LifeGoesOn ==
    ASSUME heard' = heard, NEW ready, NEW ended, NEW status,
           Run = [status |-> status, ready |-> ready, ended |-> ended],
           \/ Run' = Run
           \/ /\ status = "loading"
              /\ Run' = [status |-> "answering", ready |-> ready, ended |-> ended]
           \/ /\ status = "answering"
              /\ Run' = [status |-> "up", ready |-> Attempts, ended |-> ended]
           \/ /\ status \in {"loading", "answering", "up"}
              /\ Run' = [status |-> "stopping", ready |-> ready, ended |-> Attempts]
           \/ /\ status # "gone"
              /\ Run' = [status |-> "gone", ready |-> ready, ended |-> ended]
    PROVE  AbstractStep
<1> USE DEF Lifecycle!When
<1>1. ASSUME \/ Run' \in Lifecycle!Opens(Run) \/ Run' \in Lifecycle!ComesUp(Run)
             \/ Run' \in Lifecycle!FailsEarly(Run) \/ Run' \in Lifecycle!ShutsDown(Run)
             \/ Run' \in Lifecycle!Exits(Run) \/ Run' \in Lifecycle!Dies(Run)
      PROVE  AbstractStep
  BY <1>1 DEF AbstractStep, Lifecycle!Next, Lifecycle!Lives, Run
<1>2. CASE Run' = Run
  BY <1>2 DEF AbstractStep
<1>3. CASE status = "loading" /\ Run' = [status |-> "answering", ready |-> ready, ended |-> ended]
  <2>1. Run' \in Lifecycle!Opens(Run)
    BY <1>3 DEF Lifecycle!Opens
  <2> QED
    BY <1>1, <2>1
<1>4. CASE status = "answering" /\ Run' = [status |-> "up", ready |-> Attempts, ended |-> ended]
  <2>1. [Run EXCEPT !.status = "up", !.ready = Attempts]
            = [status |-> "up", ready |-> Attempts, ended |-> ended]
    <3>1. [Run EXCEPT !.status = "up"] = [status |-> "up", ready |-> ready, ended |-> ended]
      OBVIOUS
    <3>2. [[status |-> "up", ready |-> ready, ended |-> ended] EXCEPT !.ready = Attempts]
              = [status |-> "up", ready |-> Attempts, ended |-> ended]
      OBVIOUS
    <3> QED
      BY <3>1, <3>2
  <2>2. Run' \in Lifecycle!ComesUp(Run)
    BY <1>4, <2>1 DEF Lifecycle!ComesUp
  <2> QED
    BY <1>1, <2>2
<1>5. CASE /\ status \in {"loading", "answering", "up"}
           /\ Run' = [status |-> "stopping", ready |-> ready, ended |-> Attempts]
  <2>1. Lifecycle!Reports(Run) = [status |-> "stopping", ready |-> ready, ended |-> Attempts]
    <3>1. [Run EXCEPT !.status = "stopping"]
              = [status |-> "stopping", ready |-> ready, ended |-> ended]
      OBVIOUS
    <3>2. [[status |-> "stopping", ready |-> ready, ended |-> ended] EXCEPT !.ended = Attempts]
              = [status |-> "stopping", ready |-> ready, ended |-> Attempts]
      OBVIOUS
    <3> QED
      BY <3>1, <3>2 DEF Lifecycle!Reports
  <2>2. Run' \in Lifecycle!FailsEarly(Run) \/ Run' \in Lifecycle!ShutsDown(Run)
    BY <1>5, <2>1 DEF Lifecycle!FailsEarly, Lifecycle!ShutsDown
  <2> QED
    BY <1>1, <2>2
<1>6. CASE status # "gone" /\ Run' = [status |-> "gone", ready |-> ready, ended |-> ended]
  <2>1. Run' \in Lifecycle!Dies(Run)
    BY <1>6 DEF Lifecycle!Dies
  <2> QED
    BY <1>1, <2>1
<1> QED
  BY <1>2, <1>3, <1>4, <1>5, <1>6

(* main() up to the watchdog: it fails, with a report or without, or comes *)
(* up and reports it.                                                      *)
LEMMA StartingRefines ==
    ASSUME ServeInv, Starting
    PROVE  AbstractStep
<1> USE DEF ServeInv, LifeInOrder, CallsInOrder
<1>1. late["ended"] = 0 /\ late["ready"] = 0 /\ call.path = "ready" /\ confirmed_at = -1
  BY DEF Starting, Loading, ComingUp, SecretMissing, LoadFails, Loaded, TunnelFailed,
         HealthFailed, Confirmed
<1>2. heard' = heard
  BY DEF Starting, Loading, ComingUp, SecretMissing, LoadFails, Loaded, TunnelFailed,
         HealthFailed, Confirmed, callVars
<1>3. pc \in {"loading", "grace"}
  BY DEF Starting, Loading, ComingUp, SecretMissing, LoadFails, Loaded, TunnelFailed,
         HealthFailed, Confirmed
<1>4. Run = [status |-> IF pc = "grace" /\ server THEN "answering" ELSE "loading",
             ready |-> 0, ended |-> 0]
  BY <1>1, <1>3 DEF Run, Status, Ended, ShutForGood, CallsLeft, AttemptsLeft
<1>5. CASE SecretMissing
  <2>1. Run' = [status |-> "gone", ready |-> 0, ended |-> 0]
    BY <1>1, <1>5 DEF SecretMissing, Run, Status, Ended, CallsLeft, AttemptsLeft, callVars
  <2> QED
    BY <1>2, <1>4, <2>1, LifeGoesOn
<1>6. CASE LoadFails \/ TunnelFailed \/ HealthFailed
  <2>1. Calls("ended") /\ UNCHANGED <<late, confirmed_at>>
    BY <1>6 DEF LoadFails, TunnelFailed, HealthFailed, ghostVars
  <2>2. Run' = [status |-> "stopping", ready |-> 0, ended |-> Attempts]
    BY <1>1, <2>1, DurationsAreNumbers
    DEF Calls, Run, Status, Ended, ShutForGood, CallsLeft, AttemptsLeft
  <2> QED
    BY <1>2, <1>4, <2>2, LifeGoesOn
<1>7. CASE Loaded
  <2>1. Run' = Run
    BY <1>1, <1>4, <1>7
    DEF Loaded, Run, Status, Ended, ShutForGood, CallsLeft, AttemptsLeft, callVars, ghostVars
  <2> QED
    BY <1>2, <2>1 DEF AbstractStep
<1>8. CASE Confirmed
  <2>1. Calls("ready") /\ UNCHANGED late /\ confirmed_at' # -1 /\ pc = "grace" /\ server
    BY <1>8 DEF Confirmed, Clock
  <2>2. Run' = [status |-> "up", ready |-> Attempts, ended |-> 0]
    BY <1>1, <2>1, DurationsAreNumbers
    DEF Calls, Run, Status, Ended, ShutForGood, CallsLeft, AttemptsLeft
  <2> QED
    BY <1>2, <1>4, <2>1, <2>2, LifeGoesOn
<1> QED
  BY <1>5, <1>6, <1>7, <1>8 DEF Starting, Loading, ComingUp

(* The watchdog: nothing is seen of it until the tunnel is closed and the  *)
(* end reported.                                                           *)
LEMMA WatchingRefines ==
    ASSUME ServeInv, Watching
    PROVE  AbstractStep
<1> USE DEF ServeInv, LifeInOrder, CallsInOrder
<1>1. AtWatch /\ call.path = "ready" /\ confirmed_at # -1 /\ late["ended"] = 0
  BY DEF Watching, WatchReads, FindsTunnelDead, RestartDue, FindsIdle, WatchesOn, DrainEnds,
         DrainWaits, DrainLooks, StopsTunnel, TunnelStopped, AtWatch
<1>2. UNCHANGED <<heard, late, confirmed_at>>
  BY DEF Watching, WatchReads, FindsTunnelDead, RestartDue, FindsIdle, WatchesOn, DrainEnds,
         DrainWaits, DrainLooks, StopsTunnel, TunnelStopped, callVars, ghostVars
<1>3. Run = [status |-> "up", ready |-> late["ready"], ended |-> 0]
  BY <1>1 DEF Run, Status, Ended, ShutForGood, CallsLeft, AttemptsLeft, AtWatch, CallTypeOK
<1>4. CASE TunnelStopped
  <2>1. Run' = [status |-> "stopping", ready |-> late["ready"], ended |-> Attempts]
    BY <1>1, <1>2, <1>4, DurationsAreNumbers
    DEF TunnelStopped, Calls, Run, Status, Ended, ShutForGood, CallsLeft, AttemptsLeft, CallTypeOK
  <2> QED
    BY <1>2, <1>3, <2>1, LifeGoesOn
<1>5. CASE Watching /\ ~ TunnelStopped
  <2>1. AtWatch' /\ call' = call
    BY <1>5 DEF Watching, WatchReads, FindsTunnelDead, RestartDue, FindsIdle, WatchesOn,
                DrainEnds, DrainWaits, DrainLooks, StopsTunnel, Stops, AtWatch, callVars
  <2>2. Run' = Run
    BY <1>1, <1>2, <1>3, <2>1
    DEF Run, Status, Ended, ShutForGood, CallsLeft, AttemptsLeft, AtWatch, CallTypeOK
  <2> QED
    BY <1>2, <2>2 DEF AbstractStep
<1> QED
  BY <1>4, <1>5

(* call_webhook(): an attempt is handled, lost, or left to be handled      *)
(* late; a retry makes none that was not counted.                          *)
LEMMA CallingRefines ==
    ASSUME ServeInv, CallTypeOK', WebhookCalls
    PROVE  AbstractStep
<1> USE DEF ServeInv, LifeInOrder, CallsInOrder, CallTypeOK
<1>1. call.attempt \in 1..Attempts
  OBVIOUS
<1> PICK path \in Path : path = call.path
  OBVIOUS
<1>2. CASE CallAnswered \/ CallUnavailable \/ CallFails
  <2>1. pc = "call" /\ pc' \in {"retry", "watch", "leave"} /\ call' = call
    BY <1>2 DEF CallAnswered, CallUnavailable, CallFails, TriesAgain, CallReturns, callVars
  <2>2. UNCHANGED <<tunnel, server, confirmed_at>>
    BY <1>2 DEF CallAnswered, CallUnavailable, CallFails
  <2>3. Status' = Status
    BY <2>1, <2>2 DEF Status, Ended, ShutForGood
  <2>4. AttemptsLeft(path)' \in Nat /\ AttemptsLeft(path)' < AttemptsLeft(path)
    BY <1>1, <1>2, <2>1, DurationsAreNumbers
    DEF CallAnswered, CallUnavailable, CallFails, TriesAgain, CallReturns, AttemptsLeft
  <2>5. ~ CallAnswered => AttemptsLeft(path)' = AttemptsLeft(path) - 1
    BY <1>1, <1>2, <2>1, DurationsAreNumbers
    DEF CallUnavailable, CallFails, TriesAgain, CallReturns, AttemptsLeft
  <2>6. \A other \in Path \ {path} : AttemptsLeft(other)' = AttemptsLeft(other)
    BY <2>1 DEF AttemptsLeft
  <2>7. AttemptsLeft(path) \in Nat
    BY <1>1, <2>1, DurationsAreNumbers DEF AttemptsLeft
  <2>8. CASE late' = late /\ heard' \in {heard, heard \union {path}}
    <3>1. CallsLeft(path)' < CallsLeft(path)
      BY <1>1, <2>4, <2>7, <2>8 DEF CallsLeft
    <3>2. \A other \in Path \ {path} : CallsLeft(other)' = CallsLeft(other)
      BY <2>6, <2>8 DEF CallsLeft
    <3> QED
      BY <1>1, <2>3, <2>8, <3>1, <3>2, OneCallFewer
  <2>9. CASE ~ CallAnswered /\ late' = [late EXCEPT ![path] = @ + 1] /\ heard' = heard
    <3>1. ASSUME NEW other \in Path PROVE CallsLeft(other)' = CallsLeft(other)
      <4>1. CASE other = path
        <5>1. late'[path] = late[path] + 1 /\ late[path] \in Nat
          BY <1>1, <2>9
        <5> QED
          BY <2>5, <2>7, <2>9, <4>1, <5>1 DEF CallsLeft
      <4>2. CASE other # path
        BY <2>6, <2>9, <4>2 DEF CallsLeft
      <4> QED
        BY <4>1, <4>2
    <3>2. Run' = Run
      BY <2>3, <3>1 DEF Run
    <3> QED
      BY <2>9, <3>2 DEF AbstractStep
  <2>10. \/ late' = late /\ heard' \in {heard, heard \union {path}}
         \/ ~ CallAnswered /\ late' = [late EXCEPT ![path] = @ + 1] /\ heard' = heard
    <3>1. CASE CallAnswered
      BY <3>1 DEF CallAnswered
    <3>2. CASE CallUnavailable
      BY <3>2 DEF CallUnavailable, callVars
    <3>3. CASE CallFails /\ ~ CallAnswered
      BY <3>3 DEF CallFails
    <3> QED
      BY <1>2, <3>1, <3>2, <3>3
  <2> QED
    BY <2>8, <2>9, <2>10
<1>3. CASE CallRetried
  <2>1. call' = [path |-> path, attempt |-> call.attempt + 1]
    BY <1>3 DEF CallRetried
  <2>2. UNCHANGED <<tunnel, server, heard, late, confirmed_at>> /\ pc = "retry" /\ pc' = "call"
    BY <1>3 DEF CallRetried, ghostVars
  <2>3. Run' = Run
    <3>1. Status' = Status
      BY <2>1, <2>2 DEF Status, Ended, ShutForGood
    <3>2. ASSUME NEW any \in Path PROVE CallsLeft(any)' = CallsLeft(any)
      BY <2>1, <2>2, DurationsAreNumbers DEF CallsLeft, AttemptsLeft
    <3> QED
      BY <3>1, <3>2 DEF Run
  <2> QED
    BY <2>2, <2>3 DEF AbstractStep
<1>4. CASE Leaves
  <2>1. UNCHANGED <<heard, late, call>> /\ pc = "leave" /\ pc' = "exited"
    BY <1>4 DEF Leaves, callVars
  <2>2. Status # "gone" /\ Status' = "gone"
    BY <2>1 DEF Status, Ended
  <2>3. CallsLeft("ready")' = CallsLeft("ready") /\ CallsLeft("ended")' = CallsLeft("ended")
    BY <2>1 DEF CallsLeft, AttemptsLeft
  <2> QED
    BY <2>1, <2>2, <2>3, LifeGoesOn DEF Run
<1> QED
  BY <1>2, <1>3, <1>4 DEF WebhookCalls

(* The server, cloudflared, the backend's late answers, the requests.      *)
LEMMA OthersRefine ==
    ASSUME ServeInv, CallTypeOK',
           \/ Tick
           \/ ServerUp
           \/ TunnelGoes
           \/ \E path \in Path : HandledLate(path)
           \/ \E q \in Request : Serving(q)
           \/ UNCHANGED vars
    PROVE  AbstractStep
<1> USE DEF ServeInv, LifeInOrder, CallsInOrder
<1>1. CASE \E path \in Path : HandledLate(path)
  <2>1. PICK path \in Path : HandledLate(path)
    BY <1>1
  <2>2. late' = [late EXCEPT ![path] = @ - 1] /\ late[path] \in Nat /\ late[path] > 0
    BY <2>1 DEF HandledLate, CallTypeOK
  <2>3. UNCHANGED <<pc, tunnel, server, call, confirmed_at>> /\ heard' = heard \union {path}
    BY <2>1 DEF HandledLate, ghostVars
  <2>4. Status' = Status
    BY <2>3 DEF Status, Ended, ShutForGood
  <2>5. \A any \in Path : AttemptsLeft(any)' = AttemptsLeft(any) /\ AttemptsLeft(any) \in Nat
    BY <2>3, DurationsAreNumbers DEF AttemptsLeft, CallTypeOK
  <2>6. late'[path] = late[path] - 1 /\ \A other \in Path \ {path} : late'[other] = late[other]
    BY <2>2 DEF CallTypeOK
  <2>7. CallsLeft(path)' < CallsLeft(path)
    BY <2>2, <2>5, <2>6 DEF CallsLeft
  <2>8. \A other \in Path \ {path} : CallsLeft(other)' = CallsLeft(other)
    BY <2>5, <2>6 DEF CallsLeft
  <2> QED
    BY <2>3, <2>4, <2>7, <2>8, OneCallFewer
<1>2. CASE ServerUp
  <2>1. UNCHANGED <<pc, tunnel, call, heard, late, confirmed_at>> /\ ~ server /\ server'
    BY <1>2 DEF ServerUp, callVars, ghostVars
  <2>2. CallsLeft("ready")' = CallsLeft("ready") /\ CallsLeft("ended")' = CallsLeft("ended")
    BY <2>1 DEF CallsLeft, AttemptsLeft
  <2>3. CASE pc = "grace"
    <3>1. Status = "loading" /\ Status' = "answering"
      BY <2>1, <2>3 DEF Status, Ended, ShutForGood
    <3> QED
      BY <2>1, <2>2, <3>1, LifeGoesOn DEF Run
  <2>4. CASE pc # "grace"
    <3>1. Status' = Status
      BY <2>1, <2>4 DEF Status, Ended, ShutForGood
    <3> QED
      BY <2>1, <2>2, <3>1 DEF AbstractStep, Run
  <2> QED
    BY <2>3, <2>4
<1>3. CASE TunnelGoes
  <2>1. UNCHANGED <<pc, server, call, heard, late, confirmed_at>>
    BY <1>3 DEF TunnelGoes, callVars, ghostVars
  <2>2. CallsLeft("ready")' = CallsLeft("ready") /\ CallsLeft("ended")' = CallsLeft("ended")
    BY <2>1 DEF CallsLeft, AttemptsLeft
  <2>3. call.path = "ended" => ShutForGood /\ ShutForGood'
    BY <1>3, <2>1 DEF TunnelGoes, ShutForGood
  <2>4. Status' = Status
    BY <2>1, <2>3 DEF Status, Ended
  <2> QED
    BY <2>1, <2>2, <2>4 DEF AbstractStep, Run
<1>4. CASE Tick \/ (\E q \in Request : Serving(q)) \/ UNCHANGED vars
  <2>1. UNCHANGED <<pc, tunnel, server, call, heard, late, confirmed_at>>
    BY <1>4 DEF Tick, Serving, Arrives, Counted, HandlerStarts, HandlerEnds, vars, callVars,
                ghostVars
  <2>2. UNCHANGED <<Status, CallsLeft("ready"), CallsLeft("ended")>>
    BY <2>1 DEF Status, Ended, ShutForGood, CallsLeft, AttemptsLeft
  <2> QED
    BY <2>1, <2>2 DEF AbstractStep, Run
<1> QED
  BY <1>1, <1>2, <1>3, <1>4

(* Whatever fails, is lost or comes late: a run of serve.py is to its      *)
(* backend a run as AlwaysOn takes it.                                     *)
THEOREM Implementation == Spec => ImplementsRun
<1>1. Init => Lifecycle!Init
  <2> SUFFICES ASSUME Init PROVE Lifecycle!Init
    OBVIOUS
  <2>1. pc = "loading" /\ call.path = "ready" /\ confirmed_at = -1
    BY DEF Init
  <2>2. late["ready"] = 0 /\ late["ended"] = 0 /\ heard = {}
    BY DEF Init
  <2> QED
    BY <2>1, <2>2 DEF Lifecycle!Init, Status, Ended, CallsLeft, AttemptsLeft
<1>2. ServeInv /\ ServeInv' /\ [Next]_vars => AbstractStep
  <2> SUFFICES ASSUME ServeInv, ServeInv', [Next]_vars PROVE AbstractStep
    OBVIOUS
  <2>1. CallTypeOK'
    BY DEF ServeInv
  <2> QED
    BY <2>1, StartingRefines, WatchingRefines, CallingRefines, OthersRefine DEF Next
<1>3. AbstractStep => [Lifecycle!Next]_<<Run, heard>>
  BY DEF AbstractStep
<1> QED
  BY <1>1, <1>2, <1>3, Invariance, PTL DEF Spec, ImplementsRun, Lifecycle!Spec, Run

=============================================================================
