------------------------------ MODULE AlwaysOn ------------------------------
(***************************************************************************)
(* The always-on backend: the supervisor thread (supervisor.py), the HTTP  *)
(* handlers and the launch they share (main.py) work on one session record *)
(* (SessionLifecycle) and one rotation (Rotation), while Kaggle runs       *)
(* (KaggleRun) come up, report and go away on their own.  A step is what a *)
(* thread does between two points where another can get in: one call under *)
(* the lock, one probe of the tunnel, one call of the kaggle CLI.          *)
(***************************************************************************)
EXTENDS SessionLifecycle, Rotation, KaggleRun

CONSTANTS
    Users,          \* threads that serve POST /session/start
    Supervisor,     \* the supervisor thread
    Run,            \* bound: the Kaggle runs that can be about at one time
    Faults,         \* which of KnownFaults the environment may show
    MaxMisses,      \* health_failures_before_error
    MaxRestarts,    \* bound: restarts of the backend process
    MaxPushes       \* bound: pushes that Kaggle accepts

(* "restart"       the backend process is replaced, its memory lost        *)
(* "start_timeout" a run may take longer to load than the start timeout    *)
(* "late_webhook"  a webhook may be handled long after the run sent it     *)
(* "lost_webhook"  a webhook is refused (401) or all its retries fail      *)
(* "push_failed"   Kaggle refuses a push for a reason of its own           *)
(* "push_raises"   the push dies of something else than KagglePushError    *)
(* "lost_answer"   Kaggle took the run, but the CLI times out, fails, or   *)
(*                 repeats its request and gets a 409                      *)
(* "bad_settings"  KAGGLE_ACCOUNTS may be unusable                         *)
(* "kill"          Kaggle ends a run without a webhook                     *)
(* "probe_miss"    a probe may fail although the model server is up        *)
KnownFaults ==
    {"restart", "start_timeout", "late_webhook", "lost_webhook", "push_failed",
     "push_raises", "lost_answer", "bad_settings", "kill", "probe_miss"}

ASSUME ThreadAssumption == Supervisor \notin Users
ASSUME FaultsAssumption == Faults \subseteq KnownFaults
ASSUME NoneIsNoNumber == None \notin Int
ASSUME NoneIsNoDetail == None \notin ErrorDetail
ASSUME DetailsSplit == Conflict = {"conflict"} /\ ErrorDetail \subseteq Conflict \union OtherFailure
ASSUME CountsAssumption ==
    MaxMisses \in Nat \ {0} /\ MaxRestarts \in Nat /\ MaxPushes \in Nat

Thread == Users \union {Supervisor}

VARIABLES
    launch,         \* thread -> where it is in _launch_session, and what it planned
    sup_pc,         \* where the supervisor is in its pass
    snap,           \* the snapshot its pass goes by
    probe,          \* what /health answered: a session number, or None
    misses,         \* Supervisor._misses
    attempt_open,   \* Supervisor._attempt_open
    attempt_account,\* ghost: the account the open attempt was planned on
    launched_since, \* ghost: a launch was begun since a failure was counted
    run,            \* the runs on Kaggle, with their webhooks on the way
    restarts,       \* counts Restart against its bound
    pushes          \* counts PushAccepted against its bound

boundVars == <<restarts, pushes>>

supervisorVars ==
    <<sup_pc, snap, probe, misses, attempt_open, attempt_account, launched_since>>

vars == <<sessionVars, rotationVars, launch, supervisorVars, run, boundVars>>

NoLaunch == [pc |-> "idle", number |-> 0, account |-> None, run |-> None]

LaunchPc == {"idle", "claimed", "pushing", "accepted"}

SupPc == {"wait", "judge", "probe_adopt", "adopt", "launch", "probe_tunnel", "tunnel"}

NoSnap == [state |-> "idle", error_detail |-> None]

(* The calls a handler of a report has still to make.                      *)
HandlerCall == {"succeeded", "mark_ready", "mark_ended"}

(* A run of KaggleRun, or none, with what the handlers of its reports have *)
(* still to do.  Ghost: the backend process knows a run whose push it saw  *)
(* return, or that it has heard from.                                      *)
NoRun == [status |-> "absent", number |-> 0, account |-> None,
          ready |-> 0, ended |-> 0, todo |-> {}, known |-> FALSE]

AlwaysOnTypeOK ==
    /\ SessionTypeOK
    /\ RotationTypeOK
    /\ launch \in [Thread -> [pc : LaunchPc, number : Nat,
                              account : Account \union {None}, run : Run \union {None}]]
    /\ sup_pc \in SupPc
    /\ snap \in [state : SessionState, error_detail : ErrorDetail \union {None}]
    /\ probe \in Nat \union {None}
    /\ misses \in 0 .. MaxMisses - 1
    /\ attempt_open \in BOOLEAN
    /\ attempt_account \in Account \union {None}
    /\ launched_since \in BOOLEAN
    /\ run \in [Run -> [status : RunStatus \union {"absent"}, number : Nat,
                        account : Account \union {None},
                        ready : 0..Copies, ended : 0..Copies,
                        todo : SUBSET HandlerCall, known : BOOLEAN]]
    /\ restarts \in 0..MaxRestarts
    /\ pushes \in Nat

(* A new process: main.py's import, with its first sync_rotation(), up to  *)
(* the supervisor thread's first pass.                                     *)
ProcessInit(s) ==
    /\ SessionInit
    /\ accounts = s.accounts
    /\ sessions_per_account = AtLeastOne(s.sessions_per_account)
    /\ skip_after_failures = AtLeastOne(s.skip_after_failures)
    /\ n = 0
    /\ fail_streak = 0
    /\ launch = [t \in Thread |-> NoLaunch]
    /\ sup_pc = "wait"
    /\ snap = NoSnap
    /\ probe = None
    /\ misses = 0
    /\ attempt_open = FALSE
    /\ attempt_account = None
    /\ launched_since = FALSE

Init ==
    /\ \E s \in Settings : ProcessInit(s)
    /\ run = [r \in Run |-> NoRun]
    /\ restarts = 0
    /\ pushes = 0

----------------------------------------------------------------------------
(* Kaggle and the runs.                                                    *)

(* A run Kaggle still counts as active on its account.                     *)
Active(r) == run[r].status \notin {"absent", "gone"}

(* A run that holds a GPU to serve with: what there should be one of.      *)
Live(r) == run[r].status \in {"loading", "answering", "up"}

Busy(account) == \E r \in Run : Active(r) /\ run[r].account = account

Answering == {r \in Run : run[r].status \in {"answering", "up"}}

(* A report of r is on the way, or its handler has not finished.           *)
InFlight(r) == run[r].ready + run[r].ended > 0 \/ run[r].todo # {}

(* Some thread is still inside the CLI call that started the run.          *)
PushPending(r) == \E t \in Thread : launch[t].pc = "accepted" /\ launch[t].run = r

(* A run that is gone, with nothing of it on the way, leaves its place to  *)
(* another one.                                                            *)
Placed(rec) ==
    IF rec.status = "gone" /\ rec.ready + rec.ended = 0 /\ rec.todo = {} THEN NoRun ELSE rec

Becomes(r, rec) == run' = [run EXCEPT ![r] = Placed(rec)]

(* call_webhook returns when its call has been answered, unless it timed   *)
(* out on an answer that is still to come.                                 *)
CallAnswered(r) == ~ InFlight(r) \/ "late_webhook" \in Faults

RunOpens(r) ==
    /\ \E rec \in Opens(run[r]) : Becomes(r, rec)
    /\ UNCHANGED <<sessionVars, rotationVars, launch, supervisorVars, boundVars>>

RunComesUp(r) ==
    /\ \E rec \in ComesUp(run[r]) : Becomes(r, rec)
    /\ UNCHANGED <<sessionVars, rotationVars, launch, supervisorVars, boundVars>>

RunFailsEarly(r) ==
    /\ \E rec \in FailsEarly(run[r]) : Becomes(r, rec)
    /\ UNCHANGED <<sessionVars, rotationVars, launch, supervisorVars, boundVars>>

RunShutsDown(r) ==
    /\ CallAnswered(r)
    /\ \E rec \in ShutsDown(run[r]) : Becomes(r, rec)
    /\ UNCHANGED <<sessionVars, rotationVars, launch, supervisorVars, boundVars>>

RunExits(r) ==
    /\ CallAnswered(r)
    /\ ~ PushPending(r)
    /\ \E rec \in Exits(run[r]) : Becomes(r, rec)
    /\ UNCHANGED <<sessionVars, rotationVars, launch, supervisorVars, boundVars>>

RunKilled(r) ==
    /\ "kill" \in Faults
    /\ Active(r)
    /\ ~ PushPending(r)
    /\ \E rec \in Dies(run[r]) : Becomes(r, rec)
    /\ UNCHANGED <<sessionVars, rotationVars, launch, supervisorVars, boundVars>>

----------------------------------------------------------------------------
(* Webhooks.  A handler makes two or three calls, each under a lock: other *)
(* threads may get in between.  Of one report a run makes, one handler at  *)
(* a time has the same call still to make.                                 *)

Handled(r, path, call) ==
    /\ call \notin run[r].todo
    /\ Sync(run[r].number)
    /\ \E rec \in FewerCalls(run[r], path) :
           Becomes(r, [rec EXCEPT !.known = TRUE, !.todo = @ \union {call}])
    /\ UNCHANGED <<sessionVars, launch, supervisorVars, boundVars>>

HandleReady(r) == Handled(r, "ready", "succeeded")

HandleEnded(r) == Handled(r, "ended", "mark_ended")

HandlerCalls(r, call, others) ==
    /\ call \in run[r].todo
    /\ Becomes(r, [run[r] EXCEPT !.todo = (@ \ {call}) \union others])
    /\ UNCHANGED <<launch, supervisorVars, boundVars>>

HandlerSucceeded(r) ==
    /\ HandlerCalls(r, "succeeded", {"mark_ready"})
    /\ Succeeded
    /\ UNCHANGED sessionVars

HandlerMarksReady(r) ==
    /\ HandlerCalls(r, "mark_ready", {})
    /\ MarkReady
    /\ UNCHANGED rotationVars

HandlerMarksEnded(r) ==
    /\ HandlerCalls(r, "mark_ended", {})
    /\ MarkEnded
    /\ UNCHANGED rotationVars

HandlerGoesOn(r) == HandlerSucceeded(r) \/ HandlerMarksReady(r) \/ HandlerMarksEnded(r)

(* _check_webhook_secret answers 401, or the last of the retries fails.    *)
LoseWebhook(r) ==
    /\ "lost_webhook" \in Faults
    /\ \E path \in Path : \E rec \in FewerCalls(run[r], path) : Becomes(r, rec)
    /\ UNCHANGED <<sessionVars, rotationVars, launch, supervisorVars, boundVars>>

----------------------------------------------------------------------------
(* _launch_session(), on the supervisor's thread or a request's.           *)

LaunchSteps(t, rec) == launch' = [launch EXCEPT ![t] = rec]

(* It returns or raises; tick() swallows what it raises and is done.       *)
LaunchDone(t) ==
    /\ LaunchSteps(t, NoLaunch)
    /\ sup_pc' = IF t = Supervisor THEN "wait" ELSE sup_pc
    /\ UNCHANGED <<snap, probe, misses, attempt_open, attempt_account, launched_since>>

MayClaim(t) ==
    /\ launch[t].pc = "idle"
    /\ t = Supervisor => sup_pc = "launch"

(* The bound: no launch is begun beyond it.                                *)
MayBegin == n <= MaxNumber /\ fail_streak <= MaxStreak /\ pushes < MaxPushes

Claim(t) ==
    /\ MayClaim(t)
    /\ t \in Users => MayBegin
    /\ TryBeginStart
    /\ LaunchSteps(t, [NoLaunch EXCEPT !.pc = "claimed"])
    /\ UNCHANGED <<rotationVars, supervisorVars, run, boundVars>>

(* try_begin_start() returned False; for a request nothing has happened.   *)
ClaimRefused ==
    /\ MayClaim(Supervisor)
    /\ state \in Claimed
    /\ LaunchDone(Supervisor)
    /\ UNCHANGED <<sessionVars, rotationVars, run, boundVars>>

(* Mutant: the streak shifts the account but not the number.               *)
PlanLaunchShifted(t, s) ==
    /\ launch[t].pc = "claimed"
    /\ s.accounts # <<>>
    /\ Configure(s)
    /\ LaunchSteps(t, [NoLaunch EXCEPT !.pc = "pushing", !.number = n,
                                       !.account = AccountOf(n + fail_streak)'])
    /\ attempt_account' = IF t = Supervisor THEN AccountOf(n)' ELSE attempt_account
    /\ UNCHANGED <<sessionVars, sup_pc, snap, probe, misses, attempt_open, launched_since,
                   run, boundVars>>

(* sync_rotation() and plan().                                             *)
PlanLaunch(t, s) ==
    /\ launch[t].pc = "claimed"
    /\ s.accounts # <<>>
    /\ Configure(s)
    /\ LaunchSteps(t, [NoLaunch EXCEPT !.pc = "pushing", !.number = n,
                                       !.account = AccountOf(n)'])
    /\ attempt_account' = IF t = Supervisor THEN AccountOf(n)' ELSE attempt_account
    /\ UNCHANGED <<sessionVars, sup_pc, snap, probe, misses, attempt_open, launched_since,
                   run, boundVars>>

(* sync_rotation() reports a problem, or plan() raises.                    *)
PlanFails(t) ==
    /\ launch[t].pc = "claimed"
    /\ \/ "bad_settings" \in Faults /\ UNCHANGED rotationVars
       \/ \E s \in Settings : s.accounts = <<>> /\ Configure(s)
    /\ MarkError("settings")
    /\ LaunchDone(t)
    /\ UNCHANGED <<run, boundVars>>

(* Kaggle takes the push, the dataset's and then the kernel's: one run is  *)
(* active on an account at a time.                                         *)
PushAccepted(t) ==
    LET new == CHOOSE r \in Run : run[r].status = "absent"
    IN  /\ launch[t].pc = "pushing"
        /\ ~ Busy(launch[t].account)
        /\ \E r \in Run : run[r].status = "absent"
        /\ LaunchSteps(t, [launch[t] EXCEPT !.pc = "accepted", !.run = new])
        /\ Becomes(new, [NoRun EXCEPT !.status = "loading", !.number = launch[t].number,
                                      !.account = launch[t].account])
        /\ pushes' = pushes + 1
        /\ UNCHANGED <<sessionVars, rotationVars, supervisorVars, restarts>>

(* KagglePushError: the 409 of a busy account, or any other refusal.       *)
PushRefused(t, detail) ==
    /\ launch[t].pc = "pushing"
    /\ \/ detail = "conflict" /\ Busy(launch[t].account)
       \/ detail \in {"conflict", "failed"} /\ "push_failed" \in Faults
    /\ MarkError(detail)
    /\ LaunchDone(t)
    /\ UNCHANGED <<rotationVars, run, boundVars>>

(* An exception other than KagglePushError leaves the claim behind.        *)
PushRaises(t) ==
    /\ "push_raises" \in Faults
    /\ launch[t].pc \in {"claimed", "pushing"}
    /\ LaunchDone(t)
    /\ UNCHANGED <<sessionVars, rotationVars, run, boundVars>>

PushReturns(t) ==
    /\ launch[t].pc = "accepted"
    /\ Launched
    /\ Becomes(launch[t].run, [run[launch[t].run] EXCEPT !.known = TRUE])
    /\ LaunchDone(t)
    /\ UNCHANGED <<sessionVars, boundVars>>

(* The push is given up though Kaggle took it: it timed out, or the CLI    *)
(* failed, with a 409 perhaps, as a repeated request is answered.          *)
PushGivenUp(t, detail) ==
    /\ "lost_answer" \in Faults
    /\ launch[t].pc = "accepted"
    /\ detail \in {"conflict", "failed"}
    /\ MarkError(detail)
    /\ LaunchDone(t)
    /\ UNCHANGED <<rotationVars, run, boundVars>>

(* With such a 409 the push may have an attempt left; within the bound.    *)
PushMadeAgain(t) ==
    /\ "lost_answer" \in Faults
    /\ launch[t].pc = "accepted"
    /\ pushes < MaxPushes
    /\ LaunchSteps(t, [launch[t] EXCEPT !.pc = "pushing", !.run = None])
    /\ UNCHANGED <<sessionVars, rotationVars, supervisorVars, run, boundVars>>

(* Unless it is too short, the start timeout outlasts the push and the     *)
(* loading of the models, until the run has reported.                      *)
StartMayTimeOut ==
    \/ "start_timeout" \in Faults
    \/ /\ \A t \in Thread : launch[t].pc = "idle"
       /\ \A r \in Run : run[r].status \notin {"loading", "answering"} /\ ~ InFlight(r)

(* GET /session/status reads the state and applies the account settings.   *)

PollStatus(s) ==
    /\ Users # {}
    /\ \/ StartMayTimeOut /\ StartTimesOut
       \/ UNCHANGED sessionVars
    /\ Configure(s)
    /\ UNCHANGED <<launch, supervisorVars, run, boundVars>>

----------------------------------------------------------------------------
(* One pass of the supervisor, tick().  Settings and the window are read,  *)
(* and sleeping and back-off waited out, in steps left to chance.          *)

(* With webhooks handled promptly none is on the way when a pass begins.   *)
WebhooksSettled == (\A r \in Run : ~ InFlight(r)) \/ "late_webhook" \in Faults

SupSnapshot ==
    /\ sup_pc = "wait"
    /\ WebhooksSettled
    /\ UNCHANGED sessionVars
    /\ snap' = [state |-> state, error_detail |-> error_detail]
    /\ sup_pc' = "judge"
    /\ UNCHANGED <<rotationVars, launch, probe, misses, attempt_open, attempt_account,
                   launched_since, run, boundVars>>

(* Mutant: snapshot() reports the state without _maybe_timeout().          *)
SupSnapshotNeverTimesOut == StartMayTimeOut /\ SupSnapshot

SupSnapshotTimesOut ==
    /\ sup_pc = "wait"
    /\ WebhooksSettled
    /\ StartMayTimeOut
    /\ StartTimesOut
    /\ snap' = [state |-> "error", error_detail |-> "timeout"]
    /\ sup_pc' = "judge"
    /\ UNCHANGED <<rotationVars, launch, probe, misses, attempt_open, attempt_account,
                   launched_since, run, boundVars>>

SupSeesStarting ==
    /\ sup_pc = "judge"
    /\ snap.state = "starting"
    /\ sup_pc' = "wait"
    /\ snap' = NoSnap
    /\ UNCHANGED <<sessionVars, rotationVars, launch, probe, misses, attempt_open,
                   attempt_account, launched_since, run, boundVars>>

SupSeesReady ==
    /\ sup_pc = "judge"
    /\ snap.state = "ready"
    /\ Succeeded
    /\ attempt_open' = FALSE
    /\ attempt_account' = None
    /\ sup_pc' = "probe_tunnel"
    /\ snap' = NoSnap
    /\ UNCHANGED <<sessionVars, launch, probe, misses, launched_since, run, boundVars>>

(* Mutant: the attempt judged stays open.                                  *)
SupSeesNoSessionAgain ==
    /\ sup_pc = "judge"
    /\ snap.state \in {"idle", "ended", "error"}
    /\ IF attempt_open /\ snap.state = "error"
       THEN RecordFailure(snap.error_detail)
       ELSE UNCHANGED rotationVars
    /\ launched_since' = (launched_since /\ UNCHANGED <<n, fail_streak>>)
    /\ misses' = 0
    /\ sup_pc' = "probe_adopt"
    /\ snap' = NoSnap
    /\ UNCHANGED <<sessionVars, launch, probe, attempt_open, attempt_account, run, boundVars>>

(* Idle, ended or error: an open attempt is judged, then a session has to  *)
(* come back.                                                              *)
SupSeesNoSession ==
    /\ sup_pc = "judge"
    /\ snap.state \in {"idle", "ended", "error"}
    /\ IF attempt_open /\ snap.state = "error"
       THEN RecordFailure(snap.error_detail)
       ELSE UNCHANGED rotationVars
    /\ attempt_open' = (attempt_open /\ snap.state = "idle")
    /\ attempt_account' = IF snap.state = "idle" THEN attempt_account ELSE None
    /\ launched_since' = (launched_since /\ UNCHANGED <<n, fail_streak>>)
    /\ misses' = 0
    /\ sup_pc' = "probe_adopt"
    /\ snap' = NoSnap
    /\ UNCHANGED <<sessionVars, launch, probe, run, boundVars>>

(* _probe(): whichever run is up may answer for the one tunnel.            *)
SupProbe ==
    /\ \/ sup_pc = "probe_adopt" /\ sup_pc' = "adopt"
       \/ sup_pc = "probe_tunnel" /\ sup_pc' = "tunnel"
    /\ \/ \E r \in Answering : probe' = run[r].number
       \/ /\ Answering = {} \/ "probe_miss" \in Faults
          /\ probe' = None
    /\ UNCHANGED <<sessionVars, rotationVars, launch, snap, misses, attempt_open,
                   attempt_account, launched_since, run, boundVars>>

SupBack ==
    /\ sup_pc' = "wait"
    /\ probe' = None
    /\ UNCHANGED snap

(* _adopt_if_running(): the run found may by now be gone.                  *)
SupAdopt ==
    /\ sup_pc = "adopt"
    /\ probe # None
    /\ Sync(probe)
    /\ AdoptRunning
    /\ run' = [r \in Run |->
                 IF run[r].status # "absent" /\ run[r].number = probe
                 THEN [run[r] EXCEPT !.known = TRUE] ELSE run[r]]
    /\ SupBack
    /\ UNCHANGED <<launch, misses, attempt_open, attempt_account, launched_since, boundVars>>

(* Outside the window, or the back-off is not over.                        *)
SupHoldsOff ==
    /\ sup_pc = "adopt"
    /\ probe = None
    /\ SupBack
    /\ UNCHANGED <<sessionVars, rotationVars, launch, misses, attempt_open,
                   attempt_account, launched_since, run, boundVars>>

SupDecidesToLaunch ==
    /\ sup_pc = "adopt"
    /\ probe = None
    /\ MayBegin
    /\ attempt_open' = TRUE
    /\ attempt_account' = None
    /\ launched_since' = TRUE
    /\ sup_pc' = "launch"
    /\ UNCHANGED <<sessionVars, rotationVars, launch, snap, probe, misses, run, boundVars>>

(* _check_tunnel().                                                        *)
SupTunnelAnswers ==
    /\ sup_pc = "tunnel"
    /\ probe # None
    /\ misses' = 0
    /\ SupBack
    /\ UNCHANGED <<sessionVars, rotationVars, launch, attempt_open, attempt_account,
                   launched_since, run, boundVars>>

(* Mutants: one miss too many is waited for; misses are not added up.      *)
SupTunnelMissesLate ==
    /\ sup_pc = "tunnel"
    /\ probe = None
    /\ IF misses >= MaxMisses
       THEN misses' = 0 /\ MarkError("tunnel")
       ELSE misses' = misses + 1 /\ UNCHANGED sessionVars
    /\ SupBack
    /\ UNCHANGED <<rotationVars, launch, attempt_open, attempt_account, launched_since,
                   run, boundVars>>

SupTunnelMissesForgets ==
    /\ sup_pc = "tunnel"
    /\ probe = None
    /\ SupBack
    /\ UNCHANGED <<sessionVars, rotationVars, launch, misses, attempt_open,
                   attempt_account, launched_since, run, boundVars>>

SupTunnelMisses ==
    /\ sup_pc = "tunnel"
    /\ probe = None
    /\ IF misses + 1 >= MaxMisses
       THEN misses' = 0 /\ MarkError("tunnel")
       ELSE misses' = misses + 1 /\ UNCHANGED sessionVars
    /\ SupBack
    /\ UNCHANGED <<rotationVars, launch, attempt_open, attempt_account, launched_since,
                   run, boundVars>>

----------------------------------------------------------------------------

Forgotten(rec) == Placed([rec EXCEPT !.known = FALSE, !.todo = {}])

(* The process is replaced.  Its memory, its calls and its handlers are    *)
(* gone; the runs, and the webhooks they are still trying to deliver, are  *)
(* not.                                                                    *)
Restart(s) ==
    /\ "restart" \in Faults
    /\ restarts < MaxRestarts
    /\ restarts' = restarts + 1
    /\ ResetToIdle
    /\ accounts' = s.accounts
    /\ sessions_per_account' = AtLeastOne(s.sessions_per_account)
    /\ skip_after_failures' = AtLeastOne(s.skip_after_failures)
    /\ n' = 0
    /\ fail_streak' = 0
    /\ launch' = [t \in Thread |-> NoLaunch]
    /\ sup_pc' = "wait"
    /\ snap' = NoSnap
    /\ probe' = None
    /\ misses' = 0
    /\ attempt_open' = FALSE
    /\ attempt_account' = None
    /\ launched_since' = FALSE
    /\ run' = [r \in Run |-> Forgotten(run[r])]
    /\ UNCHANGED pushes

Launching(t) ==
    \/ Claim(t)
    \/ \E s \in Settings : PlanLaunch(t, s)
    \/ PlanFails(t)
    \/ PushAccepted(t)
    \/ \E detail \in ErrorDetail : PushRefused(t, detail)
    \/ PushRaises(t)
    \/ PushReturns(t)
    \/ \E detail \in ErrorDetail : PushGivenUp(t, detail)
    \/ PushMadeAgain(t)

Supervising ==
    \/ SupSnapshot
    \/ SupSnapshotTimesOut
    \/ SupSeesStarting
    \/ SupSeesReady
    \/ SupSeesNoSession
    \/ SupProbe
    \/ SupAdopt
    \/ SupHoldsOff
    \/ SupDecidesToLaunch
    \/ ClaimRefused
    \/ SupTunnelAnswers
    \/ SupTunnelMisses

Running(r) ==
    \/ RunOpens(r)
    \/ RunComesUp(r)
    \/ RunFailsEarly(r)
    \/ RunShutsDown(r)
    \/ RunExits(r)
    \/ RunKilled(r)
    \/ HandleReady(r)
    \/ HandleEnded(r)
    \/ HandlerGoesOn(r)
    \/ LoseWebhook(r)

Next ==
    \/ \E t \in Thread : Launching(t)
    \/ Supervising
    \/ \E r \in Run : Running(r)
    \/ \E s \in Settings : PollStatus(s) \/ Restart(s)

Spec == Init /\ [][Next]_vars

----------------------------------------------------------------------------
(* Fairness.  The supervisor's thread runs on: its steps are calls with a  *)
(* timeout, the window opens again and back-offs end, and a start timeout  *)
(* runs out.  A push is not refused for ever.  Runs finish loading, or     *)
(* fail to, and exit once they are done; Starlette's threads serve what    *)
(* arrives.  A request to start, a kill or a restart need never come.      *)

RunLoads(r) == RunOpens(r) \/ RunComesUp(r) \/ RunFailsEarly(r)

WebhookArrives(r) ==
    HandleReady(r) \/ HandleEnded(r) \/ HandlerGoesOn(r) \/ LoseWebhook(r)

Fairness ==
    /\ WF_vars(Supervising)
    /\ SF_vars(SupDecidesToLaunch)
    /\ SF_vars(SupSnapshotTimesOut)
    /\ WF_vars(Launching(Supervisor))
    /\ SF_vars(\E s \in Settings : PlanLaunch(Supervisor, s))
    /\ SF_vars(PushAccepted(Supervisor))
    /\ \A r \in Run : /\ WF_vars(RunLoads(r))
                      /\ WF_vars(RunExits(r))
                      /\ WF_vars(WebhookArrives(r))

FairSpec == Spec /\ Fairness

----------------------------------------------------------------------------

(* Every launch number this process has seen used, because its push came   *)
(* back or because a webhook or a probe reported it, lies behind the       *)
(* counter, so that it is not planned again; whatever order the pushes,    *)
(* the reports and the skips come in.                                      *)
KnownNumbersSpent == \A r \in Run : run[r].known => run[r].number < n

(* Two runs that are active at once never carry the same number, although  *)
(* two launches may plan the same one (a claim can time out while its push *)
(* is under way) and a push whose answer was lost is made again: a number  *)
(* is bound to its account, and the second push meets the 409.             *)
ActiveNumbersDistinct ==
    \A r, q \in Run : r # q /\ Active(r) /\ Active(q) => run[r].number # run[q].number

(* A launch the supervisor begins costs at most one failure, however often *)
(* the record's error is looked at: between two failures that it counts,   *)
(* or skips an account for, it has begun another launch.                   *)
FailureCountedOnce ==
    [][ fail_streak' > fail_streak \/ (snap.state = "error" /\ snap' # snap /\ n' > n) =>
            launched_since ]_vars

(* There are never two runs with a GPU to serve with at once.              *)
AtMostOneLive == \A r, q \in Run : Live(r) /\ Live(q) => r = q

(* A launch that is planned gets a number above those of all runs still    *)
(* about, the one that has just ended and not yet gone included.           *)
PlannedNumberIsFresh ==
    [][ \A t \in Thread : launch[t].pc = "claimed" /\ launch'[t].pc = "pushing" =>
            \A r \in Run : run[r].status # "absent" => run[r].number < launch'[t].number ]_vars

(* Without a session one comes back, unless the bound on launches is met.  *)
SessionComesBack == state # "ready" ~> state = "ready" \/ ~ MayBegin

(* "ready" does not outlast a server that went away without a word.        *)
DeadSessionNoticed ==
    state = "ready" /\ ~ (\E r \in Run : Live(r))
        ~> state # "ready" \/ \E r \in Run : Live(r)

(* A server that answers while the backend knows of no session, as after a *)
(* restart, is taken over for as long as it stays up.                      *)
LiveServerAdopted ==
    Answering # {} /\ state \notin Claimed ~> state = "ready" \/ Answering = {}

----------------------------------------------------------------------------
(* What the documentation says and the code does not do in every case.     *)

(* accounts.py: the skip rule moves on "instead of retrying the broken"    *)
(* account.                                                                *)
SkipLeavesFailingAccount ==
    [][ snap.state = "error" /\ snap' # snap /\ n' > n /\ attempt_account # None =>
            AccountOf(n)' # attempt_account ]_vars

=============================================================================
