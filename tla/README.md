# Verification of the KPLC chatbot backend

TLA+ specifications of the service that keeps one Kaggle GPU session alive
behind the KPLC chatbot: the session record, the rotation over several Kaggle
accounts, the supervisor thread, the HTTP handlers, the pushes to Kaggle, one
run of `serve.py` and the cache of live-edited settings. TLC checks them on
small instances; TLAPS proves the most important safety properties of each for
every value of their constants.

File names below are those of the repository; `X.tla` is a module here.

## 1. The system

| Part | State | Operations | Talks to |
|---|---|---|---|
| Session record (`session_manager.py`) | state, error detail, three time stamps, behind one lock | claim a start, mark ready / ended / error, adopt a running server, reset, read (which notices a start that took too long) | called by handlers and supervisor |
| Rotation (`accounts.py`) | accounts, turn length, skip limit, number of the next launch, streak of failures | configure, plan, launched, succeeded, sync, record_failure | called by handlers and supervisor |
| Supervisor (`supervisor.py`) | misses of the tunnel, whether a launch of its own is still to be judged, time of the last attempt, its copy of the settings | a loop: apply the settings, then one pass: take a snapshot, judge, then probe the tunnel, adopt, hold off or launch | session record, rotation, launch, `/health` of the run through the tunnel |
| Launch and webhooks (`main.py`) | none of its own | `_launch_session`, `/session/start`, `/session/ready`, `/session/ended`, `/session/status`, proxy | all of the above |
| Kaggle push (`kaggle_client.py`) | a temporary copy, and `kaggle.json`, which its own calls do not read; on Kaggle: the secrets dataset and the kernel | push the dataset, push the kernel with retries on a 409 | the `kaggle` CLI |
| Run (`serve.py`) | requests in flight, last activity, the tunnel process, limits | load, confirm, serve, watch, drain, shut down, report | webhooks to the backend |
| Settings (`runtime_config.py`, `app_config.py`) | cached overrides, times of the last read and of the last failure, lock | refresh, get | MongoDB, every thread |

What is hard about it:

* **Threads.** The supervisor's thread and Starlette's worker threads share the
  record and the rotation. Each call is atomic, a launch or a pass of the
  supervisor is not: between its calls lie a probe of up to 15 s and pushes of
  minutes.
* **Messages.** A run reports over webhooks that are retried (so they may come
  twice), given up (so they may never come), or handled after their sender gave
  up (so they may come late and out of order).
* **Crashes.** The backend keeps nothing on disk; after a restart it has to
  learn from the tunnel or a webhook what is going on. Kaggle may end a run
  without a word.
* **Timeouts.** A start times out when somebody looks, not by itself, and the
  push it belongs to may still be running then.
* **Counters.** The account is a function of a launch number; an off-by-one at
  the end of a turn, a number used twice or a skip at the wrong place sends a
  GPU run to the wrong account.

What makes each part correct: the record always tells a possible history and
no start is pending for ever; the rotation gives every account its turn, never
goes back, and leaves an account that keeps failing; the composition never has
two GPU runs, never uses up a launch number twice, counts a failure once, and
gets a session back after whatever happened; the supervisor launches only when
it is wanted, not too often and not too late; a push starts a run only while
it goes on and its account has none, never claims one that was not started, and
gives no run stale secrets; a run stops in time, finishes what
it drained and reports its end once it can no longer be reached; the settings
cache never goes back, ages within a bound and never blocks.

## 2. The modules

```
SessionLifecycle  <--implements--  SessionManager      <-- SessionManager_proofs
   |     |
   |     +-- KeepAlive    <-- MCKeepAlive, KeepAlive_proofs
   |
   +------ AlwaysOn       <-- MCAlwaysOn, AlwaysOn_proofs (also Rotation_proofs)
           |      |                          <-- AlwaysOnAlone_proofs
           |      |
   Rotation       KaggleRun  <-- RunLifecycle  <--implements--  ServeRun
   |                                                            |
   +-- MCRotation, Rotation_proofs              MCServeRun, ServeRun_proofs

PushLifecycle  <--implements--  KagglePush  <-- KagglePush_proofs

RuntimeConfig  <-- RuntimeConfig_proofs
```

An arrow points from a module to the one it extends or implements.

**SessionLifecycle** is what `session_manager.py` promises: the state and the
kind of the error, no clock. Giving up on a start is an action that may happen
whenever one is pending.

**SessionManager** is the class itself with its stamps and a clock. Every
public method holds the lock throughout, so each is one action. `Read` stands
for `snapshot()` and `is_ready()`, which run `_maybe_timeout` first; the timeout
is re-read from the settings each time, so `Read` picks any of `StartTimeouts`.
`ImplementsLifecycle` says that dropping the stamps gives SessionLifecycle.

**Rotation** is `accounts.py`: one action per method, `AccountIndex` for the
arithmetic of `plan()`. Accounts are names; keys and JSON are left out.
`load_accounts` contributes that names are distinct.

**AlwaysOn** composes both with the supervisor, the launch, the webhooks, a
restart of the process and the runs on Kaggle.

* `launch[t]` is where thread `t` is in `_launch_session`: `Claim` is
  `try_begin_start()`, `PlanLaunch` is `sync_rotation()` with `plan()`,
  `PushAccepted` the moment Kaggle takes the run, `PushReturns` the return of
  the CLI with `launched()`. `PlanFails`, `PushRefused` and `PushRaises` are the
  error paths; in `PushGivenUp` and `PushMadeAgain` Kaggle has taken the run and
  the answer is lost, so that the launch is told the contrary or pushes once
  more. The push is two steps because a run may come up, report, and begin to
  stop before the CLI call that made it returns; that it is gone by then is left
  out.
* `sup_pc` is where the supervisor is in `tick()`: `SupSnapshot` takes the
  snapshot, `SupSees...` acts on it, `SupProbe` is the HTTP call, `SupAdopt`,
  `SupHoldsOff`, `SupDecidesToLaunch`, `SupTunnelAnswers` and `SupTunnelMisses`
  act on its answer. Other threads get in between any two of them.
* `run[r]` is a Kaggle run, which takes the steps of KaggleRun: loading,
  answering, up, stopping, gone; with how often each of its webhooks may still be
  handled, up to `Copies`. A 409 is `Busy(account)`: one active run per account.
* `HandleReady` and `HandleEnded` are the first call of a handler, `sync()`;
  `HandlerSucceeded`, `HandlerMarksReady` and `HandlerMarksEnded` the others, each
  under its own lock. `run[r].todo` holds the calls still to be made, so that a
  launch may read the record before a handler has written it and the rotation
  after.
* `PollStatus` is `/session/status`; `is_ready()` for the proxy is the same
  without the settings.
* `Faults` switches on what may go wrong, so that a run can say which
  assumptions its properties need. Without `start_timeout` a claim does not time
  out while its push is running, a run is loading, or its webhook is on the way;
  without `late_webhook` a webhook is handled before the supervisor's next pass.
  `probe_miss` is any probe that fails though the run goes on, a tunnel that has
  died and that the run has yet to notice included.

Window, back-off, delays and the enabled switch only decide whether a pass
launches now or later; here a pass may always hold off, and KeepAlive says when
it does.

**KeepAlive** is the same loop on a clock, and leaves out what AlwaysOn has: the
rotation, the runs, restarts. The panel holds texts (`Unset`, `Blank`, `Junk`,
`Yes`, numbers, pairs of minutes) and may be edited between any two steps;
`GetBool`, `GetInt`, `ParseWindow` and `InWindow` are the conversions. The pass
is cut where the code waits: `ReadsEnabled` and `Applies` are `_apply()`, whose
settings are read one after the other, `Judges` the snapshot, `FindsNone`,
`Adopts` and `ChecksTunnel` the answers to the probe, `OutOfWindow`, `TooSoon`
and `Attempts` the decision, `LaunchEnds` the return of `launch()`, `PassRaises`
an exception that the loop swallows, in `_apply()`, in the snapshot or around a
probe. What the others do to the state happens at
any time. `Wanted` says what a window means without the code's case distinction:
the window is on if its end comes before its next beginning.

**PushLifecycle** is what `kaggle_client.py` promises `_launch_session` of a push,
with the actions AlwaysOn takes for it: a run is started only by a launch that is
still pushing, and only while its account has none; the launch is told that it
was started only if it was. The contrary may be told of a run that was started.

**KagglePush** is `kaggle_client.py`, call by call: `Begins` and `StatusAnswers` are
`datasets status`, `DatasetTaken` and `DatasetNotTaken` the outcomes of `datasets
create` or `version`, `Prepares` the copy of the kernel. For `kernels push`
Kaggle queues the run in `KernelTaken`, or not; then the call returns
(`CallReturns`), answers 409 (`KernelConflicts`), or fails or times out
(`KernelFails`). The latter two also follow on a run that was queued, when the
answer is lost: the CLI's own repetition of its request is answered 409, or
nothing comes back at all. `TriesAgain` is the next attempt, `Diagnosed` the
status asked for in the error message, `Raises` what is no `KagglePushError`. On
Kaggle's side a dataset version is processed, and a run mounts the newest version
there is when it starts. Each call carries its account's credentials in its
environment, so `kaggle.json`, which is written but not read then, is left out.
`ImplementsPush` entitles AlwaysOn to the push it has.

**ServeRun** is one run of `serve.py`: the main thread (`pc`, with the time its
wait is over in `wake`), the requests in uvicorn's threads, cloudflared and the
webhook calls. Time passes only while the main thread waits, which makes its
deadlines exact up to scheduling. A kill by Kaggle is no step here: the safety
properties hold of every prefix of a behaviour anyway. `tunnel` distinguishes a
cloudflared that was told to stop from one that is gone. A run whose own health
check failed (`HealthFailed`) does not wait for its tunnel to be gone; it is
assumed not to answer any more, since its server did not.

**RunLifecycle** is the abstract run, what a backend may rely on: it reports
`ready` at most once and only after it began to answer, its end at most once and
only when it no longer answers, and each webhook is handled at most `Copies`
times. `ImplementsRun` maps a run of `serve.py` to it: the status from where the
main thread is and the tunnel, the calls still to come from the attempts left and
the copies handled late. Its steps are the operators of **KaggleRun**, with which
AlwaysOn lets its runs live, so what AlwaysOn takes for granted of a run is
what ServeRun is checked to keep.

**RuntimeConfig** follows `get()` of one setting through `refresh()`. What the
database holds is the number of edits made so far, what the cache holds is the
number of the edit it has read up to; so "older" is `<`. A thread's two reads of
`_failed_at` without the lock are two steps (`FailureSought`, `FailureDated`), and
so are those of `_overrides` (`Test`, `Lookup`).

## 3. The checks

`tlc -config <cfg> <module>`. Each property of a passing run is also tested by
a mutant: a plausible wrong version of one definition, kept beside it in the
module and described in a comment, under which TLC finds the property violated.

| Run | Question | Properties |
|---|---|---|
| `SessionManager.cfg` | does the record tell a possible history? | types; `PossibleHistory`, `ImplementsLifecycle`, `StartResolves` |
| `MCRotation.cfg` | is the arithmetic of turns and skips right? | types; `FairShares`, `TurnsInOrder`, `SkipStartsNextTurn`, `StreakStaysBelowLimit` |
| `KagglePush.cfg` | are overlapping pushes, with lost answers, what the backend takes them to be? | types; `NoStaleSecrets`, `ImplementsPush`, `PushReturns` |
| `AlwaysOnQuiet.cfg` | the supervisor alone, runs killed, pushes failing | `AtMostOneLive`, `PlannedNumberIsFresh`, `SessionComesBack`, `DeadSessionNoticed` |
| `AlwaysOnRestart.cfg` | the backend restarts, webhooks are lost or late | `AtMostOneLive`, `KnownNumbersSpent`, `LiveServerAdopted` |
| `AlwaysOnUsers.cfg` | requests race the supervisor, claims time out early, answers to pushes are lost | types; `KnownNumbersSpent`, `ActiveNumbersDistinct`, `FailureCountedOnce` |
| `KeepAlive.cfg` | does the supervisor act when it is asked to, and only then? | types; `ReturnsInTime`, `OnlyWhenWanted`, `AttemptsSpaced` |
| `ServeRun.cfg` | does a run stop in time and leave properly? | types; `ImplementsRun`, `RestartsInTime`, `ExitIsReported`, `DrainedRequestsFinish`, `IdleMeansIdle`, `ScheduledRunEnds` |
| `RuntimeConfig.cfg` | is the cache coherent and non-blocking? | types; `SnapshotNeverOlder`, `FreshUnlessExcused`, `SparesDatabase`, `NobodyWaits` |

Which assumptions matter is part of the result. `AtMostOneLive` holds while the
supervisor launches alone with a start timeout longer than a load (`AlwaysOnQuiet`,
and proved for such systems of any size), and across restarts as long as the
restarted counter leads to the same account, where Kaggle's 409 and the adoption
protect it (`AlwaysOnRestart`, and proved while the counter stays in one account's
turns); it does not hold across a restart in another account's turn (finding 2).
`KnownNumbersSpent` needs none of this: it is checked with restarts, kills and lost
and late webhooks, again with early timeouts, lost answers and racing launches, and
proved for all faults together. `ActiveNumbersDistinct` needs that the ring of accounts and
the length of a turn stay as they are: edited between two launches, they may send
one number to two accounts.

`ReturnsInTime` is a liveness property stated as a bound: the supervisor gets to
`launch()` within `LongestLack` of any moment since which a session is wanted and
missing. A pass that raises starts this time again (`PassRaises`), since nothing
in the code limits how many of them there are.

### Bounds

* `SessionManager`: the clock ends at 7; `ClockHasRoom` lets a start happen only
  where the longest timeout still fits, so the bound never saves a start from
  timing out.
* `Rotation`: numbers up to 20, which is twice around three accounts with turns
  of three; five settings, among them none, one account, and limits below 1.
* `KagglePush`: two launches, on one account or on two, and the code's three
  attempts. A third launch brings no new case: what a launch meets on Kaggle is a
  busy account, a version in processing, or neither.
* `AlwaysOn`: two accounts, and two runs at a time: a place is free again when
  its run is gone and its webhooks are handled or lost, and behaviours with three
  runs at once are not explored. `MaxNumber`, `MaxStreak` and `MaxPushes` bound the
  launches that are begun, never their outcome; a push already under way may go
  beyond. Two accepted pushes are what `AlwaysOnRestart` needs: the run that a
  restart forgets, and a duplicate of it. `Copies` is the most often one webhook may be handled: 2, or 1 where
  other faults make the states many. Turns of one launch make every launch an
  account change; turns of six keep the restarts of `AlwaysOnRestart` within one
  turn. `MayBegin` is false at the bound, so `SessionComesBack` excepts it by name.
  `AlwaysOnUsers` uses symmetry of the runs, and checks no liveness.
* `KeepAlive`: a day of eight minutes, of which the clock runs through any number;
  three panels, between which the admin may switch at any moment: always on by
  the defaults; on around midnight with interval 0 and back-off -1; off with a
  window. The interval is 1 or 2, the delay after an end 2, the back-off 3, 0 or
  -1; a call takes up to 1, a launch up to 2. Waits are told apart up to `Long`,
  which is the longest of them.
* `ServeRun`: a unit of time is about half a minute (the check interval);
  limits of 4 for the runtime and 2 for idleness against a drain of 2, and a
  negative one, which is no 0; two requests, one to be drained and one to arrive
  meanwhile; two attempts instead of four per webhook. `MaxTime` ends the watch of
  runs without a runtime limit. `LoadTime` only stops the clock of a run that never
  loads; at 0, as here, time begins with the tunnel.
* `RuntimeConfig`: two threads, one edit that sets the override and one that
  resets it, TTL 1, back-off 3 (their real ratio), a clock up to 6, which is
  beyond the age `FreshUnlessExcused` allows.

`CHECK_DEADLOCK FALSE` where the system or its bounded clock really stops.

### Fairness

* Record: time passes and somebody reads it; the supervisor does every minute,
  the dashboard polls. Without a reader a start would stay pending for ever.
* KagglePush: a call that has a timeout returns, which is every one but
  `datasets status`; nothing of Kaggle's, which may stay busy for ever.
  `PushReturns` therefore begins behind that call.
* AlwaysOn: the supervisor's thread goes on (its calls have timeouts, its loop
  swallows exceptions); strong fairness for deciding to launch (windows open
  again, back-offs end), for planning (settings are repaired) and for an accepted
  push (Kaggle is not down for good). Runs load or fail, and exit; a webhook is
  handled or lost. None for requests, kills or restarts. One premise goes beyond
  the code: a push that hangs in `datasets status` would stop the supervisor; the
  fairness assumes that it returns.
* ServeRun: time, and the main thread from the start of the tunnel, whose waits
  are sleeps and calls with a timeout from there. None for the load: the models
  and the `wget` of cloudflared have no timeout (`serve.py:245-265`, `361-368`), and
  the watchdog does not run yet; `ScheduledRunEnds` begins behind it. None for
  requests: it holds though they hang.
* RuntimeConfig: a thread runs on outside the database read, which may hang.
* KeepAlive states none: its properties are safety properties.

## 4. Findings

Three runs check a sentence of the documentation that the code does not keep in
every case. TLC shows each by a short trace.

1. `SkipBroken.cfg`, `SkipLeavesFailingAccount`: the skip rule may return to
   the failing account (`accounts.py:117` against `accounts.py:24-26`). Launches
   that were accepted have advanced the counter when their runs fail, so with
   the defaults (turns of 3, limit 3, two accounts) the third failure finds the
   counter in the healthy account's turn already and skips that.
2. `RestartDuplicate.cfg`, `AtMostOneLive`: a run that is still loading when
   the backend restarts is not adopted, and a duplicate may be pushed on
   another account (`supervisor.py:193` against `supervisor.py:13-14`).
3. `SettingVanishes.cfg`, `NeverBreaksARequest`: `refresh()` reads `_failed_at`
   twice without the lock and outside its `try`; when another thread's refresh
   succeeds in between, the second read finds `None`, and `now - None` raises
   `TypeError` out of `get()` (`runtime_config.py:90` against
   `runtime_config.py:27-28`). A setting reset between the two reads of
   `_overrides` raises `KeyError` in the same way (`runtime_config.py:136-137`).

Seen while modelling, not given a run:

* A launch that is told of a failure though its run was started may be counted
  against the account; with failures before it, the skip leaves for another
  account while the run is loading, and a second one is accepted there
  (`kaggle_client.py:222-232`). `AtMostOneLive` is therefore not claimed with lost
  answers.
* A run that hangs while loading outlasts its `MAX_RUNTIME_SECONDS`: the watchdog
  starts after the ready report (`serve.py:489-524`), and nothing in the load has
  a timeout. The backend's start timeout only makes it try another one.
* The supervisor may launch before the `/session/ended` that woke the service is
  handled (`main.py:229`; `main.py:287-290` has the webhook re-sync the rotation
  for the next launch): it starts with the application, whose first request the
  webhook is.
* The tunnel check may mark a start as failed that was claimed during its probe
  (`supervisor.py:209`), as the verdict rests on the snapshot before it; and misses
  of an earlier session are carried over when the next one came without a pass
  that found none.
* Two first launches of an account may both find no dataset and both create it;
  a `status` that fails for another reason is taken for "there is none"
  (`kaggle_client.py:81`). In either case the launch fails, and is tried again.
* A run that is queued while a later launch updates the dataset reads the later
  number (`serve.py:146`), and reports it.
* The comment "~50s total" (`kaggle_client.py:199-200`) counts the pauses; the
  three calls have 120 s each.
* The back-off is counted from the beginning of an attempt
  (`supervisor.py:167-169`); when the attempt fails after that time, as a start
  timeout of 600 s does, the next one follows at once.
* An early failure of `serve.py` is recorded as `ended` (`main.py:293`), which
  `session_manager.py:13` calls an error, and is therefore never counted against
  its account.
* A `RESTART_EVERY_HOURS` of `nan` makes the launch raise after its claim; a
  negative one makes every run restart at its first check. A
  `MODEL_TUNNEL_URL` that cannot be parsed makes every pass raise.

## 5. The proofs

`tlapm X_proofs.tla` checks the proofs about `X`. Each temporal theorem has an
inductive invariant, a lemma per kind of step, and one `PTL` step at its end.

*Session record.* `TypeCorrect` needs the assumptions that uptimes are natural
numbers and the clock bound is one. `PossibleHistory` is a conjunction of three
parts, and with the types it is inductive, though none of its parts is: that an
`ended` session ended after it was ready (`StampsInOrder`) rests on a start having
cleared the stamps (`StartingIsFresh`), and clearing them is harmless only because
`starting` needs no evidence (`StateHasEvidence`). `OnlyOldStartsDoTimeOut` then
follows step by step, and `Implementation` maps each action to the one of the same
name in SessionLifecycle, `Read` to a timeout or a stutter, `Tick` to a stutter.

*Rotation.* The arithmetic comes first: `Division` and `DivisionUnique` are the
quotient and remainder of natural numbers, `DivisionStep` says what adding one
does to them, `RingStep` what it does modulo the number of accounts,
`NextBlockFacts` that the skip's number opens the block after the present one.
With `RotationTypeOK` as the invariant, `TurnsGoRound`, `SkipsGoToTheNeighbour`,
`NumbersNeverComeBack` and `StreakIsKeptBelowLimit` are proved as action
properties for any number of accounts, any turn and any limit. `SharesAreFair`
counts without an induction over the round: `Coordinates` writes a number as
round, turn and launch of the turn, so taking the remainder is a bijection between
the launches of an account in a round, from wherever it starts, and
`0 .. sessions_per_account - 1` (`RoundHasEach`, `RoundHasNoTwo`). The
assumptions are those declared in `Rotation.tla`: accounts of a setting are
distinct, and a 409 is none of the other failures.

*Kaggle push.* `Inv` joins the types with two facts. A launch sleeps only with
another attempt to come (`SleepsToTryAgain`), or its attempts would leave their
range. `SecretsAreThere` strengthens `NoStaleSecrets`: a launch past its dataset
push has a version there, its run is queued only when that version is processed,
and both survive whatever the others append (`VersionsStay`). For
`PushImplemented` a step of a launch moves its own phase at most (`PhaseStep`), and
only `KernelTaken` and Kaggle move the set of active runs (`PushStep`). All of it
holds for any number of launches, accounts and attempts.

*AlwaysOn.* `Inv` is `AlwaysOnTypeOK`, `KnownNumbersSpent` and `LaunchesBehind`: the
number a launch carries to its push, and that of a run whose push has not returned,
is at most the counter. The last is needed because `PushReturns` makes the run
known, and is then carried beyond by `launched()`. `StepKinds` splits the steps by
what they do to numbers: ordinary ones, which keep numbers and do not set the
counter back; `Plans`; `Starts` of a run; and `Forgets`, the restart, which sets the
counter back and knows no run any more. `FailuresAreCountedOnce` needs that an
open attempt belongs to a launch begun since the last failure was counted
(`OpenedByLaunch`), and that only the step judging an open attempt counts
(`OnlyJudgingCounts`).
`ActiveNumbersStayDistinct` rests on `OneRunPerAccount`, that an active run is on
the account of its number and no other is, and assumes that all settings share their
ring and length of turn. With all launches on one account, Kaggle's 409 alone keeps
a second run away (`AllOn`), whatever the process has forgotten: `OneAccountOneRun`
for a single account in the settings, `OneTurnOneRun` for as long as the counter
stays in one account's turns. All faults are allowed in all of these.

*The supervisor alone.* Two properties hold only without some of the faults, and
`AlwaysOnAlone_proofs` proves them from assumptions that say without which, with any
accounts, settings, runs, bounds and number of webhook retries. `OneLiveRun` assumes
`Alone`: nobody but the supervisor launches, the backend does not restart, a claim
does not time out while its run loads, webhooks are handled before the next pass and
not lost, and pushes and probes are answered truly. Pushes may fail or raise,
settings may be unusable, Kaggle may end a run without a word. That is a service
nobody starts by hand, a start timeout longer than a load, and a network that
answers. None of the seven can be dropped: on the instance of `AlwaysOnQuiet`, with
turns of one launch, each one alone leads TLC to two live runs. The inductive
invariant has two halves that need each other. `LoneRun`: at most one run is live or
yet to be heard from, and the record has claimed the session until its report is
handled. `LonePass`: a pass on its way to a launch goes by a snapshot that is still
true, so that no run and no report is about when it claims and pushes.
`PlannedNumbersAreFresh` assumes less (`NothingForgotten`: the supervisor alone, no
restart, no lost answer; each of these three is needed) as webhooks need not come
for it: `UnknownArePending` says that the process has learnt of every run still
about, except the one whose push has not returned, and `KnownNumbersSpent` does the
rest.

*KeepAlive.* `WindowMeansItsText` proves the code's case distinction equivalent to
`Wanted` for every length of the day. For `LaunchesWhenWanted`, `AskedLately` says
that a pass that may still launch has read its settings from panels that were in
force within the time the pass has lasted so far. For `LaunchesAreApart`, `Apart`
relates the time since the last launch to the place of the loop; it needs that
the session is never idle again after an attempt, since a pass that finds it idle
does not wait. For `SessionsComeBack`, a bound for a liveness, `MissingFor` says at
every place of the loop how long a wanted session can be missing there, counted
from the longest wait it may have been lost in. The loop may go back to sleep
without an attempt while a session is wanted: it acted on settings that had just
gone out of date, or out of the window, or too soon after the last attempt.
`MissedForAReason` covers the last, since a session is then missing no longer than
that attempt is ago; `LeftInTime` bounds the waits by `LongestInterval`, which is a
maximum over the panels. That one exists only for finitely many intervals
(`PanelsAssumption`; `MaxIsGreatest` proves that a finite set has it).

*ServeRun.* `RequestAssumption` says that there are finitely many requests. For
`StopsInTime`, `WaitsInTime` bounds the end of the wait at every place after the
ready report, the drain's deadline included; with the clock never past the end of a
wait (`Clock`) this bounds the clock. For `ExitsAreReported`, `LeavesReported` says
the same of the step before the exit, and `CallTypeOK` that a pause is followed by
an attempt that is still allowed. `DrainsAreFinished` needs that `_inflight` is the
number of requests between the guard's two halves, whatever their order
(`RequestsCounted`): only so does a 0 read in the drain mean that the requests it
began with are done (`DrainObserved`). `IdleStopsAreEarned` needs that the reading
the decision goes by is no longer than what has passed since the last call before
it, although calls set the clock meanwhile (`ReadingIsRecent`, `ActivityInOrder`).
`Implementation` maps each step to a step of RunLifecycle or a stutter
(`StartingRefines`, `WatchingRefines`, `CallingRefines`, `OthersRefine`), in the
states of `ServeInv`. That adds the order of a life to the above: until a report is
called none of its calls is on its way (`CallsInOrder`), and from the last call on
the tunnel of a run that was up leads nowhere (`LifeInOrder`). Limits may be any
integers, durations any natural numbers.

*Settings cache.* `IInv` joins the types with `OneRefresher` (a thread is between
the read and the release exactly while it holds the lock, and one thread does)
and `ReadsInOrder` (what a thread is about to store is between the cache and the
database in age). The second needs the first: a store moves the cache, and only
because no other thread has then read already does every pending read stay newer.
`RefreshesOneAtATime` and `CacheNeverGoesBack` follow, for any number of threads
and edits, from the two assumptions on the bounds and times in
`RuntimeConfig.tla`. `DatabaseIsSpared` needs `InTime`: a thread that goes for the
lock found the cache too old and no failure too recent, and what has changed since
has changed since it began. For `AnswersAreFresh`, `Current` says that a
snapshot's values were in force when its read began, and follows a thread without
an excuse from the place where it finds, or makes, the cache good to its answer.

Only model-checked: liveness (`StartResolves`, `SessionComesBack`,
`DeadSessionNoticed`, `LiveServerAdopted`, `PushReturns`, `ScheduledRunEnds`,
`NobodyWaits`), which the prover does not reach; and `AtMostOneLive` on the whole of
`AlwaysOnRestart`, which also skips into the other account's turn: the theorems cover
what stays within one turn. Every other property of a passing run is a theorem,
under the assumptions above.

## 6. What is not modelled

* The proxy (`/generate`, `/embed` of `main.py`) keeps no state: it passes a
  request on while the record is ready.
* `app_config.py` makes one RuntimeConfig; the texts in `tests/` and the
  deployment files have no behaviour here.
* The parsing in `load_accounts`, `_int_secret` and `get_float`; `describe()`;
  windows with hours beyond 24, which a panel could hold. Which accounts and
  limits come out of the texts is a choice of `Settings` and `Limits`.
* `bind()`, `invalidate()`, `refresh(force=True)`, `overrides()`, `environ()`: not
  called by the service.
* Model loading, tokenizing, generation; the wording of messages and logs.
* The temporary directories of a push, which leak when the copy fails.
* A backwards jump of the wall clock, which would put stamps out of order.
* Two worker processes: the README of the repository rules them out.

## 7. Plan

Done, in this order: SessionLifecycle and SessionManager, Rotation, AlwaysOn
(the most important behaviour), ServeRun, RuntimeConfig, and the proofs about
record, rotation and cache; then KagglePush, KaggleRun and RunLifecycle with the
refinement by ServeRun, KeepAlive, and proofs about each of them and AlwaysOn.

Then the proofs that were left: the refinement, the drain, the idle stop and the
types of ServeRun; the bound on a missing session; the fair shares; the age of the
cache; one live run and fresh numbers under the faults of their runs; and the push
with lost answers as an implementation of PushLifecycle.

What could follow, all of it proofs: `AtMostOneLive` across restarts when the turn
is changed in between, from the adoption.
