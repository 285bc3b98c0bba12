-------------------------- MODULE AlwaysOn_proofs --------------------------
(***************************************************************************)
(* For any number of threads and runs, every list of accounts and all the  *)
(* faults: no number known to be used is planned again, a failed attempt   *)
(* is counted once, and, while the accounts are not edited, two runs that  *)
(* are active at once have different numbers.                              *)
(***************************************************************************)
EXTENDS AlwaysOn, Rotation_proofs

LaunchRecord ==
    [pc : LaunchPc, number : Nat, account : Account \union {None}, run : Run \union {None}]

RunRecord ==
    [status : RunStatus \union {"absent"}, number : Nat, account : Account \union {None},
     ready : 0..Copies, ended : 0..Copies, todo : SUBSET HandlerCall, known : BOOLEAN]

SupervisorTypeOK ==
    /\ sup_pc \in SupPc
    /\ snap \in [state : SessionState, error_detail : ErrorDetail \union {None}]
    /\ probe \in Nat \union {None}
    /\ misses \in 0 .. MaxMisses - 1
    /\ attempt_open \in BOOLEAN
    /\ attempt_account \in Account \union {None}
    /\ launched_since \in BOOLEAN

BoundTypeOK == restarts \in 0..MaxRestarts /\ pushes \in Nat

TypeParts ==
    /\ SessionTypeOK
    /\ RotationTypeOK
    /\ launch \in [Thread -> LaunchRecord]
    /\ SupervisorTypeOK
    /\ run \in [Run -> RunRecord]
    /\ BoundTypeOK

LEMMA TypeInParts == (AlwaysOnTypeOK <=> TypeParts) /\ (AlwaysOnTypeOK' <=> TypeParts')
BY DEF AlwaysOnTypeOK, TypeParts, LaunchRecord, RunRecord, SupervisorTypeOK, BoundTypeOK

----------------------------------------------------------------------------
(* The rotation.  Its methods keep the types and do not set the counter    *)
(* back.                                                                   *)
LEMMA RotationMethods ==
    ASSUME RotationTypeOK,
           \/ \E s \in Settings : Configure(s)
           \/ Launched
           \/ Succeeded
           \/ \E k \in Nat : Sync(k)
           \/ \E detail : RecordFailure(detail)
           \/ UNCHANGED rotationVars
    PROVE  RotationTypeOK' /\ n' >= n
<1> USE DEF RotationTypeOK, rotationVars, settingVars, Distinct
<1>1. ASSUME NEW s \in Settings, Configure(s) PROVE RotationTypeOK' /\ n' >= n
  <2>1. /\ s.accounts \in Seq(Account)
        /\ Distinct(s.accounts)
        /\ s.sessions_per_account \in Int
        /\ s.skip_after_failures \in Int
    BY SettingsAssumption
  <2>2. /\ accounts' = s.accounts
        /\ sessions_per_account' \in Nat \ {0}
        /\ skip_after_failures' \in Nat \ {0}
        /\ n' = n
        /\ fail_streak' = fail_streak
    BY <1>1, <2>1 DEF Configure, AtLeastOne
  <2>3. accounts' \in Seq(Account) /\ Distinct(accounts)'
    BY <2>1, <2>2
  <2>4. n' \in Nat /\ fail_streak' \in Nat /\ n' >= n
    BY <2>2
  <2> HIDE DEF Distinct
  <2> QED
    BY <2>2, <2>3, <2>4
<1>2. CASE Launched
  BY <1>2 DEF Launched
<1>3. CASE Succeeded
  BY <1>3 DEF Succeeded
<1>4. ASSUME NEW k \in Nat, Sync(k) PROVE RotationTypeOK' /\ n' >= n
  BY <1>4 DEF Sync, Synced
<1>5. ASSUME NEW detail, RecordFailure(detail) PROVE RotationTypeOK' /\ n' >= n
  BY <1>5, NextBlockFacts DEF RecordFailure
<1>6. CASE UNCHANGED rotationVars
  BY <1>6
<1> QED
  BY <1>1, <1>2, <1>3, <1>4, <1>5, <1>6

(* The account of a number is one of those listed.                         *)
LEMMA AccountsAreListed ==
    ASSUME NEW ring \in Seq(Account), ring # <<>>, NEW d \in Nat \ {0}, NEW k \in Nat
    PROVE  ring[((k \div d) % Len(ring)) + 1] \in Account
<1>1. Len(ring) \in Nat \ {0}
  OBVIOUS
<1>2. k \div d \in Nat
  BY Division
<1>3. (k \div d) % Len(ring) \in 0 .. Len(ring) - 1
  BY <1>1, <1>2, Division
<1>4. ((k \div d) % Len(ring)) + 1 \in 1 .. Len(ring)
  BY <1>1, <1>3
<1> QED
  BY <1>4

----------------------------------------------------------------------------
(* The runs.  What a run does itself, and what is done about its webhooks, *)
(* changes neither its number nor its account, and does not revive it.     *)
LEMMA RunGoesOn ==
    ASSUME NEW old \in RunRecord,
           NEW rec \in UNION {Opens(old), ComesUp(old), FailsEarly(old), ShutsDown(old),
                              Exits(old), Dies(old), FewerCalls(old, "ready"),
                              FewerCalls(old, "ended")}
    PROVE  /\ rec \in RunRecord
           /\ rec.number = old.number
           /\ rec.account = old.account
           /\ rec.known = old.known
           /\ rec.status \notin {"absent", "gone"} => old.status \notin {"absent", "gone"}
<1> USE DEF RunRecord, RunStatus
<1> Copies \in 0..Copies
  BY CopiesAssumption
<1>1. CASE rec \in Opens(old)
  BY <1>1 DEF Opens, When
<1>2. CASE rec \in ComesUp(old)
  BY <1>2 DEF ComesUp, When
<1>3. CASE rec \in FailsEarly(old)
  BY <1>3 DEF FailsEarly, Reports, When
<1>4. CASE rec \in ShutsDown(old)
  BY <1>4 DEF ShutsDown, Reports, When
<1>5. CASE rec \in Exits(old)
  BY <1>5 DEF Exits, When
<1>6. CASE rec \in Dies(old)
  BY <1>6 DEF Dies, When
<1>7. CASE rec \in FewerCalls(old, "ready")
  BY <1>7 DEF FewerCalls
<1>8. CASE rec \in FewerCalls(old, "ended")
  BY <1>8 DEF FewerCalls
<1> QED
  BY <1>1, <1>2, <1>3, <1>4, <1>5, <1>6, <1>7, <1>8

(* A run r goes on: it leaves its place, or keeps number and account, and  *)
(* becomes known only with its number behind the counter.                  *)
RunKept(r) ==
    \/ run'[r] = NoRun
    \/ /\ run'[r].number = run[r].number
       /\ run'[r].account = run[r].account
       /\ Active(r)' => Active(r)
       /\ run'[r].known => run[r].known \/ run[r].number < n'

LEMMA RunBecomes ==
    ASSUME run \in [Run -> RunRecord], NEW r \in Run, NEW rec \in RunRecord,
           Becomes(r, rec)
    PROVE  /\ run' \in [Run -> RunRecord]
           /\ run'[r] \in {rec, NoRun}
           /\ \A q \in Run : q # r => run'[q] = run[q]
<1>1. NoRun \in RunRecord
  BY CopiesAssumption DEF NoRun, RunRecord
<1>2. run' = [run EXCEPT ![r] = rec] \/ run' = [run EXCEPT ![r] = NoRun]
  BY DEF Becomes, Placed
<1> QED
  BY <1>1, <1>2

(* A step that changes one run only, as those do.                          *)
LEMMA RunStep ==
    ASSUME run \in [Run -> RunRecord], NEW r \in Run, NEW rec \in RunRecord,
           Becomes(r, rec),
           rec.number = run[r].number,
           rec.account = run[r].account,
           rec.status \notin {"absent", "gone"} => Active(r),
           rec.known => run[r].known \/ run[r].number < n'
    PROVE  run' \in [Run -> RunRecord] /\ \A q \in Run : RunKept(q)
<1>1. /\ run' \in [Run -> RunRecord]
      /\ run'[r] \in {rec, NoRun}
      /\ \A q \in Run : q # r => run'[q] = run[q]
  BY RunBecomes
<1>2. RunKept(r)
  BY <1>1 DEF RunKept, Active
<1>3. ASSUME NEW q \in Run, run'[q] = run[q] PROVE RunKept(q)
  BY <1>3 DEF RunKept, Active
<1> QED
  BY <1>1, <1>2, <1>3

----------------------------------------------------------------------------
(* What is being pushed, or was accepted and has not returned, has a       *)
(* number up to the counter.                                               *)
LaunchesBehind ==
    \A t \in Thread :
        /\ launch[t].pc = "pushing" => launch[t].number <= n
        /\ launch[t].pc = "accepted" =>
               /\ launch[t].number <= n
               /\ launch[t].run \in Run /\ run[launch[t].run].number <= n

Inv == AlwaysOnTypeOK /\ LaunchesBehind /\ KnownNumbersSpent

LaunchKept(t) ==
    \/ launch'[t] = launch[t]
    \/ launch'[t].pc \in {"idle", "claimed"}
    \/ /\ launch[t].pc = "accepted"
       /\ launch'[t].pc = "pushing"
       /\ launch'[t].number = launch[t].number
       /\ launch'[t].account = launch[t].account

(* Most steps plan nothing, start no run, and forget nothing.              *)
Ordinary ==
    /\ n' >= n
    /\ \A t \in Thread : LaunchKept(t)
    /\ \A r \in Run : RunKept(r)

LEMMA SameRuns == ASSUME UNCHANGED run PROVE \A r \in Run : RunKept(r)
BY DEF RunKept, Active

LEMMA SameLaunches == ASSUME UNCHANGED launch PROVE \A t \in Thread : LaunchKept(t)
BY DEF LaunchKept

LEMMA SameSession == ASSUME SessionTypeOK, UNCHANGED sessionVars PROVE SessionTypeOK'
BY DEF SessionTypeOK, sessionVars

LEMMA SameSupervisor ==
    ASSUME SupervisorTypeOK, UNCHANGED supervisorVars PROVE SupervisorTypeOK'
BY DEF SupervisorTypeOK, supervisorVars

LEMMA SameBounds == ASSUME BoundTypeOK, UNCHANGED boundVars PROVE BoundTypeOK'
BY DEF BoundTypeOK, boundVars

(* The session record keeps its types whatever it is told.                 *)
LEMMA SessionMethods ==
    ASSUME SessionTypeOK,
           \/ TryBeginStart
           \/ MarkReady
           \/ MarkEnded
           \/ \E detail \in ErrorDetail : MarkError(detail)
           \/ AdoptRunning
           \/ ResetToIdle
           \/ StartTimesOut
           \/ UNCHANGED sessionVars
    PROVE  SessionTypeOK'
BY DEF SessionTypeOK, SessionState, ErrorDetail, TryBeginStart, MarkReady, MarkEnded, MarkError,
       AdoptRunning, ResetToIdle, StartTimesOut, sessionVars

LEMMA RunningStep ==
    ASSUME Inv, NEW r \in Run, Running(r)
    PROVE  AlwaysOnTypeOK' /\ Ordinary
<1>1. /\ SessionTypeOK
      /\ RotationTypeOK
      /\ launch \in [Thread -> LaunchRecord]
      /\ SupervisorTypeOK
      /\ run \in [Run -> RunRecord]
      /\ BoundTypeOK
      /\ KnownNumbersSpent
  BY TypeInParts DEF Inv, TypeParts
<1> DEFINE Later == UNION {Opens(run[r]), ComesUp(run[r]), FailsEarly(run[r]),
                           ShutsDown(run[r]), Exits(run[r]), Dies(run[r]),
                           FewerCalls(run[r], "ready"), FewerCalls(run[r], "ended")}
<1>2. CASE \/ RunOpens(r)
           \/ RunComesUp(r)
           \/ RunFailsEarly(r)
           \/ RunShutsDown(r)
           \/ RunExits(r)
           \/ RunKilled(r)
           \/ LoseWebhook(r)
  <2>1. /\ UNCHANGED <<sessionVars, rotationVars, launch, supervisorVars, boundVars>>
        /\ \E rec \in Later : Becomes(r, rec)
    BY <1>2 DEF RunOpens, RunComesUp, RunFailsEarly, RunShutsDown, RunExits, RunKilled,
                LoseWebhook, Path
  <2>2. run' \in [Run -> RunRecord] /\ \A q \in Run : RunKept(q)
    <3>1. PICK rec \in Later : Becomes(r, rec)
      BY <2>1
    <3>2. run[r] \in RunRecord
      BY <1>1
    <3>3. /\ rec \in RunRecord
          /\ rec.number = run[r].number
          /\ rec.account = run[r].account
          /\ rec.known = run[r].known
          /\ rec.status \notin {"absent", "gone"} => Active(r)
      BY <3>1, <3>2, RunGoesOn DEF Active
    <3> QED
      BY <1>1, <3>1, <3>3, RunStep
  <2>3. RotationTypeOK' /\ n' >= n
    BY <1>1, <2>1, RotationMethods
  <2> QED
    BY <1>1, <2>1, <2>2, <2>3, TypeInParts, SameSession, SameSupervisor,
       SameBounds, SameLaunches DEF Ordinary, TypeParts
<1>3. CASE HandleReady(r) \/ HandleEnded(r)
  <2>1. PICK call \in HandlerCall, rec \in UNION {FewerCalls(run[r], path) : path \in Path} :
            Becomes(r, [rec EXCEPT !.known = TRUE, !.todo = @ \union {call}])
    BY <1>3 DEF HandleReady, HandleEnded, Handled, Path, HandlerCall
  <2>2. /\ Sync(run[r].number)
        /\ UNCHANGED <<sessionVars, launch, supervisorVars, boundVars>>
    BY <1>3 DEF HandleReady, HandleEnded, Handled
  <2>3. run[r] \in RunRecord /\ run[r].number \in Nat /\ n \in Nat
    BY <1>1 DEF RunRecord, RotationTypeOK
  <2>4. RotationTypeOK' /\ n' >= n /\ run[r].number < n'
    BY <1>1, <2>2, <2>3, RotationMethods DEF Sync, Synced
  <2>5. /\ rec \in RunRecord
        /\ rec.number = run[r].number
        /\ rec.account = run[r].account
        /\ rec.status \notin {"absent", "gone"} => Active(r)
    BY <2>1, <2>3, RunGoesOn DEF Active, Path
  <2>6. PICK new : new = [rec EXCEPT !.known = TRUE, !.todo = @ \union {call}]
    OBVIOUS
  <2>7. /\ new \in RunRecord
        /\ new.number = rec.number
        /\ new.account = rec.account
        /\ new.status = rec.status
    BY <2>1, <2>5, <2>6 DEF RunRecord
  <2>8. Becomes(r, new)
    BY <2>1, <2>6
  <2>9. run' \in [Run -> RunRecord] /\ \A q \in Run : RunKept(q)
    BY <1>1, <2>4, <2>5, <2>7, <2>8, RunStep
  <2> QED
    BY <1>1, <2>2, <2>4, <2>9, TypeInParts, SameSession, SameSupervisor,
       SameBounds, SameLaunches DEF Ordinary, TypeParts
<1>4. CASE HandlerGoesOn(r)
  <2>1. PICK call \in HandlerCall, others \in SUBSET HandlerCall :
            Becomes(r, [run[r] EXCEPT !.todo = (@ \ {call}) \union others])
    BY <1>4 DEF HandlerGoesOn, HandlerSucceeded, HandlerMarksReady, HandlerMarksEnded,
                HandlerCalls, HandlerCall
  <2>2. /\ Succeeded \/ UNCHANGED rotationVars
        /\ MarkReady \/ MarkEnded \/ UNCHANGED sessionVars
        /\ UNCHANGED <<launch, supervisorVars, boundVars>>
    BY <1>4 DEF HandlerGoesOn, HandlerSucceeded, HandlerMarksReady, HandlerMarksEnded,
                HandlerCalls
  <2>3. PICK new : new = [run[r] EXCEPT !.todo = (@ \ {call}) \union others]
    OBVIOUS
  <2>4. /\ new \in RunRecord
        /\ new.number = run[r].number
        /\ new.account = run[r].account
        /\ new.status = run[r].status
        /\ new.known = run[r].known
    BY <1>1, <2>1, <2>3 DEF RunRecord
  <2>5. Becomes(r, new)
    BY <2>1, <2>3
  <2>6. run' \in [Run -> RunRecord] /\ \A q \in Run : RunKept(q)
    BY <1>1, <2>4, <2>5, RunStep DEF Active
  <2>7. RotationTypeOK' /\ n' >= n
    BY <1>1, <2>2, RotationMethods
  <2>8. SessionTypeOK'
    BY <1>1, <2>2, SessionMethods
  <2> QED
    BY <1>1, <2>2, <2>6, <2>7, <2>8, TypeInParts, SameSupervisor,
       SameBounds, SameLaunches DEF Ordinary, TypeParts
<1> QED
  BY <1>2, <1>3, <1>4 DEF Running

(* A launch that is over.                                                  *)
LEMMA LaunchIsDone ==
    ASSUME launch \in [Thread -> LaunchRecord], SupervisorTypeOK, NEW t \in Thread,
           LaunchDone(t)
    PROVE  /\ launch' \in [Thread -> LaunchRecord]
           /\ \A u \in Thread : LaunchKept(u)
           /\ SupervisorTypeOK'
<1>1. NoLaunch \in LaunchRecord /\ NoLaunch.pc = "idle"
  BY DEF NoLaunch, LaunchRecord, LaunchPc
<1>2. launch' = [launch EXCEPT ![t] = NoLaunch]
  BY DEF LaunchDone, LaunchSteps
<1>3. SupervisorTypeOK'
  BY DEF LaunchDone, SupervisorTypeOK, SupPc
<1> QED
  BY <1>1, <1>2, <1>3 DEF LaunchKept

LEMMA LaunchingStep ==
    ASSUME Inv, NEW t \in Thread,
           \/ Claim(t)
           \/ PlanFails(t)
           \/ \E detail \in ErrorDetail : PushRefused(t, detail)
           \/ PushRaises(t)
           \/ PushReturns(t)
           \/ \E detail \in ErrorDetail : PushGivenUp(t, detail)
           \/ PushMadeAgain(t)
    PROVE  AlwaysOnTypeOK' /\ Ordinary
<1>1. TypeParts /\ LaunchesBehind
  BY TypeInParts DEF Inv
<1> USE DEF TypeParts
<1>2. CASE Claim(t)
  <2>1. /\ TryBeginStart
        /\ launch' = [launch EXCEPT ![t] = [NoLaunch EXCEPT !.pc = "claimed"]]
        /\ UNCHANGED <<rotationVars, supervisorVars, run, boundVars>>
    BY <1>2 DEF Claim, LaunchSteps
  <2>2. LET rec == [NoLaunch EXCEPT !.pc = "claimed"]
        IN  rec \in LaunchRecord /\ rec.pc = "claimed"
    BY DEF NoLaunch, LaunchRecord, LaunchPc
  <2>3. launch' \in [Thread -> LaunchRecord] /\ \A u \in Thread : LaunchKept(u)
    BY <1>1, <2>1, <2>2 DEF LaunchKept
  <2>4. SessionTypeOK'
    BY <1>1, <2>1, SessionMethods
  <2>5. RotationTypeOK' /\ n' >= n
    BY <1>1, <2>1, RotationMethods
  <2>6. SupervisorTypeOK' /\ BoundTypeOK' /\ \A r \in Run : RunKept(r)
    BY <1>1, <2>1, SameSupervisor, SameBounds, SameRuns
  <2> QED
    BY <1>1, <2>1, <2>3, <2>4, <2>5, <2>6, TypeInParts DEF Ordinary
<1>3. CASE PlanFails(t) \/ (\E detail \in ErrorDetail : PushRefused(t, detail))
           \/ PushRaises(t) \/ (\E detail \in ErrorDetail : PushGivenUp(t, detail))
  <2>1. /\ LaunchDone(t)
        /\ UNCHANGED <<run, boundVars>>
        /\ (\E s \in Settings : Configure(s)) \/ UNCHANGED rotationVars
        /\ (\E detail \in ErrorDetail : MarkError(detail)) \/ UNCHANGED sessionVars
    BY <1>3 DEF PlanFails, PushRefused, PushRaises, PushGivenUp, ErrorDetail
  <2>2. /\ launch' \in [Thread -> LaunchRecord]
        /\ \A u \in Thread : LaunchKept(u)
        /\ SupervisorTypeOK'
    BY <1>1, <2>1, LaunchIsDone
  <2>3. SessionTypeOK'
    BY <1>1, <2>1, SessionMethods
  <2>4. RotationTypeOK' /\ n' >= n
    BY <1>1, <2>1, RotationMethods
  <2>5. BoundTypeOK' /\ \A r \in Run : RunKept(r)
    BY <1>1, <2>1, SameBounds, SameRuns
  <2> QED
    BY <1>1, <2>1, <2>2, <2>3, <2>4, <2>5, TypeInParts DEF Ordinary
<1>4. CASE PushReturns(t)
  <2>1. PICK r \in Run : r = launch[t].run /\ run[r].number <= n
    BY <1>1, <1>4 DEF PushReturns, LaunchesBehind
  <2>2. PICK rec : rec = [run[r] EXCEPT !.known = TRUE]
    OBVIOUS
  <2>3. /\ LaunchDone(t)
        /\ Launched
        /\ Becomes(r, rec)
        /\ UNCHANGED <<sessionVars, boundVars>>
    BY <1>4, <2>1, <2>2 DEF PushReturns
  <2>4. /\ launch' \in [Thread -> LaunchRecord]
        /\ \A u \in Thread : LaunchKept(u)
        /\ SupervisorTypeOK'
    BY <1>1, <2>3, LaunchIsDone
  <2>5. /\ RotationTypeOK'
        /\ n' >= n
        /\ run[r].number < n'
    <3>1. n \in Nat /\ run[r].number \in Nat
      BY <1>1 DEF RotationTypeOK, RunRecord
    <3> QED
      BY <1>1, <2>1, <2>3, <3>1, RotationMethods DEF Launched
  <2>6. /\ rec \in RunRecord
        /\ rec.number = run[r].number
        /\ rec.account = run[r].account
        /\ rec.status = run[r].status
    BY <1>1, <2>2 DEF RunRecord
  <2>7. /\ run' \in [Run -> RunRecord]
        /\ run'[r] \in {rec, NoRun}
        /\ \A q \in Run : q # r => run'[q] = run[q]
    BY <1>1, <2>3, <2>6, RunBecomes
  <2>8. RunKept(r) /\ \A q \in Run : q # r => RunKept(q)
    BY <2>5, <2>6, <2>7 DEF RunKept, Active
  <2>9. SessionTypeOK' /\ BoundTypeOK'
    BY <1>1, <2>3, SameSession, SameBounds
  <2> QED
    BY <2>4, <2>5, <2>7, <2>8, <2>9, TypeInParts DEF Ordinary
<1>5. CASE PushMadeAgain(t)
  <2>1. PICK l \in LaunchRecord : l = launch[t] /\ l.pc = "accepted"
    BY <1>1, <1>5 DEF PushMadeAgain
  <2>2. PICK new : new = [l EXCEPT !.pc = "pushing", !.run = None]
    OBVIOUS
  <2>3. /\ new \in LaunchRecord
        /\ new.pc = "pushing" /\ new.number = l.number /\ new.account = l.account
    BY <2>1, <2>2 DEF LaunchRecord, LaunchPc
  <2>4. /\ launch' = [launch EXCEPT ![t] = new]
        /\ UNCHANGED <<sessionVars, rotationVars, supervisorVars, run, boundVars>>
    BY <1>5, <2>1, <2>2 DEF PushMadeAgain, LaunchSteps
  <2>5. launch' \in [Thread -> LaunchRecord] /\ \A u \in Thread : LaunchKept(u)
    BY <1>1, <2>1, <2>3, <2>4 DEF LaunchKept
  <2>6. RotationTypeOK' /\ n' >= n
    BY <1>1, <2>4, RotationMethods
  <2>7. SessionTypeOK' /\ SupervisorTypeOK' /\ BoundTypeOK' /\ \A r \in Run : RunKept(r)
    BY <1>1, <2>4, SameSession, SameSupervisor, SameBounds, SameRuns
  <2> QED
    BY <1>1, <2>4, <2>5, <2>6, <2>7, TypeInParts DEF Ordinary
<1> QED
  BY <1>2, <1>3, <1>4, <1>5

LEMMA SupervisingStep ==
    ASSUME Inv, Supervising \/ \E s \in Settings : PollStatus(s)
    PROVE  AlwaysOnTypeOK' /\ Ordinary
<1>1. TypeParts /\ n \in Nat
  BY TypeInParts DEF Inv, TypeParts, RotationTypeOK
<1> USE DEF TypeParts
<1>2. CASE SupSnapshot \/ SupSnapshotTimesOut
  <2>1. /\ UNCHANGED <<rotationVars, launch, probe, misses, attempt_open, attempt_account,
                       launched_since, run, boundVars>>
        /\ StartTimesOut \/ UNCHANGED sessionVars
        /\ sup_pc' = "judge"
        /\ snap' \in [state : SessionState, error_detail : ErrorDetail \union {None}]
    BY <1>1, <1>2
    DEF SupSnapshot, SupSnapshotTimesOut, SessionTypeOK, SessionState, ErrorDetail
  <2>2. SupervisorTypeOK'
    BY <1>1, <2>1 DEF SupervisorTypeOK, SupPc
  <2> QED
    BY <1>1, <2>1, <2>2, SessionMethods, RotationMethods, SameBounds, SameLaunches, SameRuns,
       TypeInParts DEF Ordinary
<1>3. CASE SupSeesStarting \/ SupSeesReady \/ SupSeesNoSession \/ SupProbe \/ SupHoldsOff
           \/ SupDecidesToLaunch \/ SupTunnelAnswers \/ SupTunnelMisses
  <2>1. /\ UNCHANGED <<launch, run, boundVars>>
        /\ \/ UNCHANGED rotationVars
           \/ Succeeded
           \/ \E detail : RecordFailure(detail)
        /\ (\E detail \in ErrorDetail : MarkError(detail)) \/ UNCHANGED sessionVars
    BY <1>3
    DEF SupSeesStarting, SupSeesReady, SupSeesNoSession, SupProbe, SupHoldsOff,
        SupDecidesToLaunch, SupTunnelAnswers, SupTunnelMisses, ErrorDetail
  <2>2. SupervisorTypeOK'
    <3> USE DEF SupervisorTypeOK, SupPc
    <3>1. NoSnap \in [state : SessionState, error_detail : ErrorDetail \union {None}]
      BY DEF NoSnap, SessionState
    <3>2. CASE SupSeesStarting \/ SupSeesReady
      BY <1>1, <3>1, <3>2 DEF SupSeesStarting, SupSeesReady
    <3>3. CASE SupSeesNoSession
      BY <1>1, <3>1, <3>3, CountsAssumption DEF SupSeesNoSession
    <3>4. CASE SupProbe
      BY <1>1, <3>4 DEF SupProbe, Answering, RunRecord
    <3>5. CASE SupHoldsOff \/ SupDecidesToLaunch
      BY <1>1, <3>5 DEF SupHoldsOff, SupDecidesToLaunch, SupBack
    <3>6. CASE SupTunnelAnswers \/ SupTunnelMisses
      BY <1>1, <3>6, CountsAssumption DEF SupTunnelAnswers, SupTunnelMisses, SupBack
    <3> QED
      BY <1>3, <3>2, <3>3, <3>4, <3>5, <3>6
  <2> QED
    BY <1>1, <2>1, <2>2, SessionMethods, RotationMethods, SameBounds, SameLaunches, SameRuns,
       TypeInParts DEF Ordinary
<1>4. CASE SupAdopt
  <2>1. /\ Sync(probe)
        /\ AdoptRunning
        /\ run' = [r \in Run |-> IF run[r].status # "absent" /\ run[r].number = probe
                                 THEN [run[r] EXCEPT !.known = TRUE] ELSE run[r]]
        /\ sup_pc' = "wait"
        /\ probe' = None
        /\ UNCHANGED <<snap, launch, misses, attempt_open, attempt_account, launched_since,
                       boundVars>>
    BY <1>4 DEF SupAdopt, SupBack
  <2>2. probe \in Nat
    BY <1>1, <1>4 DEF SupAdopt, SupervisorTypeOK
  <2>3. n' >= n /\ probe < n' /\ RotationTypeOK'
    BY <1>1, <2>1, <2>2, RotationMethods DEF Sync, Synced
  <2>4. ASSUME NEW r \in Run PROVE run'[r] \in RunRecord /\ RunKept(r)
    <3>1. run[r] \in RunRecord
      BY <1>1
    <3>2. CASE run[r].status # "absent" /\ run[r].number = probe
      <4>1. run'[r] = [run[r] EXCEPT !.known = TRUE]
        BY <2>1, <3>2
      <4>2. /\ run'[r] \in RunRecord
            /\ run'[r].number = run[r].number
            /\ run'[r].account = run[r].account
            /\ run'[r].status = run[r].status
        BY <3>1, <4>1 DEF RunRecord
      <4> QED
        BY <2>3, <3>2, <4>2 DEF RunKept, Active
    <3>3. CASE ~ (run[r].status # "absent" /\ run[r].number = probe)
      BY <2>1, <3>1, <3>3 DEF RunKept, Active
    <3> QED
      BY <3>2, <3>3
  <2>5. run' \in [Run -> RunRecord]
    BY <2>1, <2>4
  <2>6. SupervisorTypeOK'
    BY <1>1, <2>1 DEF SupervisorTypeOK, SupPc
  <2> QED
    BY <1>1, <2>1, <2>3, <2>4, <2>5, <2>6, SessionMethods, SameBounds, SameLaunches,
       TypeInParts DEF Ordinary
<1>5. CASE ClaimRefused
  <2>1. /\ LaunchDone(Supervisor)
        /\ Supervisor \in Thread
        /\ UNCHANGED <<sessionVars, rotationVars, run, boundVars>>
    BY <1>5 DEF ClaimRefused, Thread
  <2>2. /\ launch' \in [Thread -> LaunchRecord]
        /\ \A u \in Thread : LaunchKept(u)
        /\ SupervisorTypeOK'
    BY <1>1, <2>1, LaunchIsDone
  <2> QED
    BY <1>1, <2>1, <2>2, SameSession, RotationMethods, SameBounds, SameRuns,
       TypeInParts DEF Ordinary
<1>6. CASE \E s \in Settings : PollStatus(s)
  <2>1. /\ StartTimesOut \/ UNCHANGED sessionVars
        /\ \E s \in Settings : Configure(s)
        /\ UNCHANGED <<launch, supervisorVars, run, boundVars>>
    BY <1>6 DEF PollStatus
  <2> QED
    BY <1>1, <2>1, SessionMethods, RotationMethods, SameSupervisor, SameBounds, SameLaunches,
       SameRuns, TypeInParts DEF Ordinary
<1> QED
  BY <1>2, <1>3, <1>4, <1>5, <1>6 DEF Supervising

(* The steps that do more: a launch is planned, a run is started, the      *)
(* process is replaced.                                                    *)
Plans(t) ==
    /\ UNCHANGED <<n, run>>
    /\ \E s \in Settings : /\ accounts' = s.accounts
                           /\ sessions_per_account' = AtLeastOne(s.sessions_per_account)
    /\ launch'[t].pc = "pushing"
    /\ launch'[t].number = n
    /\ launch'[t].account = AccountOf(n)'
    /\ \E i \in 1..Len(accounts') : launch'[t].account = accounts'[i]
    /\ \A u \in Thread : u # t => launch'[u] = launch[u]

Starts(t, r) ==
    /\ UNCHANGED n
    /\ launch[t].pc = "pushing"
    /\ launch'[t].pc = "accepted"
    /\ launch'[t].run = r
    /\ launch'[t].number = launch[t].number
    /\ launch'[t].account = launch[t].account
    /\ \A u \in Thread : u # t => launch'[u] = launch[u]
    /\ ~ Busy(launch[t].account)
    /\ run'[r].number = launch[t].number
    /\ run'[r].account = launch[t].account
    /\ ~ run'[r].known
    /\ \A q \in Run : q # r => run'[q] = run[q]

Forgets ==
    /\ n' = 0
    /\ \A t \in Thread : launch'[t].pc = "idle"
    /\ \A r \in Run : /\ ~ run'[r].known
                      /\ \/ run'[r] = NoRun
                         \/ /\ run'[r].status = run[r].status
                            /\ run'[r].number = run[r].number
                            /\ run'[r].account = run[r].account

LEMMA PlanStep ==
    ASSUME Inv, NEW t \in Thread, NEW s \in Settings, PlanLaunch(t, s)
    PROVE  AlwaysOnTypeOK' /\ Plans(t)
<1>1. TypeParts
  BY TypeInParts DEF Inv
<1> USE DEF TypeParts
<1>2. RotationTypeOK' /\ n' = n
  BY <1>1, RotationMethods DEF PlanLaunch, Configure
<1>3. accounts' # <<>>
  BY DEF PlanLaunch, Configure
<1>4. n \in Nat
  BY <1>1 DEF RotationTypeOK
<1>5. AccountOf(n)' \in Account /\ \E i \in 1..Len(accounts') : AccountOf(n)' = accounts'[i]
  BY <1>2, <1>3, <1>4, AccountsAreListed
  DEF AccountOf, AccountAt, AccountIndex, Block, RotationTypeOK
<1> DEFINE rec == [NoLaunch EXCEPT !.pc = "pushing", !.number = n, !.account = AccountOf(n)']
<1>6. /\ rec \in LaunchRecord
      /\ rec.pc = "pushing"
      /\ rec.number = n
      /\ rec.account = AccountOf(n)'
  <2> HIDE DEF AccountOf
  <2> QED
    BY <1>4, <1>5 DEF NoLaunch, LaunchRecord, LaunchPc
<1>7. launch' = [launch EXCEPT ![t] = rec]
  BY DEF PlanLaunch, LaunchSteps
<1> HIDE DEF rec
<1>8. /\ launch' \in [Thread -> LaunchRecord]
      /\ launch'[t] = rec
      /\ \A u \in Thread : u # t => launch'[u] = launch[u]
  BY <1>1, <1>6, <1>7
<1>9. SupervisorTypeOK'
  BY <1>1, <1>5 DEF PlanLaunch, SupervisorTypeOK
<1>10. UNCHANGED <<sessionVars, run, boundVars>>
  BY DEF PlanLaunch
<1>11. SessionTypeOK' /\ BoundTypeOK'
  BY <1>1, <1>10, SameSession, SameBounds
<1>12. accounts' = s.accounts /\ sessions_per_account' = AtLeastOne(s.sessions_per_account)
  BY DEF PlanLaunch, Configure
<1>13. /\ launch'[t].account = AccountOf(n)'
       /\ \E i \in 1..Len(accounts') : launch'[t].account = accounts'[i]
  <2> HIDE DEF AccountOf
  <2> QED
    BY <1>5, <1>6, <1>8
<1> QED
  BY <1>1, <1>2, <1>6, <1>8, <1>9, <1>10, <1>11, <1>12, <1>13, TypeInParts DEF Plans

LEMMA AcceptStep ==
    ASSUME Inv, NEW t \in Thread, PushAccepted(t)
    PROVE  AlwaysOnTypeOK' /\ \E r \in Run : Starts(t, r)
<1>1. TypeParts
  BY TypeInParts DEF Inv
<1> USE DEF TypeParts
<1>2. PICK r \in Run :
        /\ run[r].status = "absent"
        /\ launch' = [launch EXCEPT ![t] = [launch[t] EXCEPT !.pc = "accepted", !.run = r]]
        /\ Becomes(r, [NoRun EXCEPT !.status = "loading", !.number = launch[t].number,
                                    !.account = launch[t].account])
  BY DEF PushAccepted, LaunchSteps
<1>3. /\ launch[t].pc = "pushing"
      /\ ~ Busy(launch[t].account)
      /\ pushes' = pushes + 1
      /\ UNCHANGED <<sessionVars, rotationVars, supervisorVars, restarts>>
  BY DEF PushAccepted
<1>4. PICK l : l = launch[t] /\ l \in LaunchRecord
  BY <1>1
<1>5. PICK rec : rec = [NoRun EXCEPT !.status = "loading", !.number = l.number,
                                     !.account = l.account]
  OBVIOUS
<1>6. /\ rec \in RunRecord
      /\ rec.status = "loading"
      /\ rec.number = l.number
      /\ rec.account = l.account
      /\ ~ rec.known
  <2>1. 0 \in 0..Copies
    BY CopiesAssumption
  <2>2. l.number \in Nat /\ l.account \in Account \union {None}
    BY <1>4 DEF LaunchRecord
  <2>3. rec = [status |-> "loading", number |-> l.number, account |-> l.account,
               ready |-> 0, ended |-> 0, todo |-> {}, known |-> FALSE]
    BY <1>5 DEF NoRun
  <2> QED
    BY <2>1, <2>2, <2>3 DEF RunRecord, RunStatus
<1>7. run' = [run EXCEPT ![r] = rec]
  <2>1. Becomes(r, rec)
    BY <1>2, <1>4, <1>5
  <2> QED
    BY <1>6, <2>1 DEF Becomes, Placed
<1>8. PICK new : new = [l EXCEPT !.pc = "accepted", !.run = r]
  OBVIOUS
<1>9. /\ new \in LaunchRecord /\ new.pc = "accepted" /\ new.run = r
      /\ new.number = l.number /\ new.account = l.account
  BY <1>4, <1>8 DEF LaunchRecord, LaunchPc
<1>10. launch' = [launch EXCEPT ![t] = new]
  BY <1>2, <1>4, <1>8
<1>11. /\ run' \in [Run -> RunRecord]
       /\ run'[r] = rec
       /\ \A q \in Run : q # r => run'[q] = run[q]
  BY <1>1, <1>6, <1>7
<1>12. /\ launch' \in [Thread -> LaunchRecord]
       /\ launch'[t] = new
       /\ \A u \in Thread : u # t => launch'[u] = launch[u]
  BY <1>1, <1>9, <1>10
<1>13. SessionTypeOK' /\ SupervisorTypeOK'
  BY <1>1, <1>3, SameSession, SameSupervisor
<1>14. RotationTypeOK' /\ UNCHANGED n
  BY <1>1, <1>3, RotationMethods DEF rotationVars
<1>15. BoundTypeOK'
  BY <1>1, <1>3 DEF BoundTypeOK
<1>16. Starts(t, r)
  BY <1>3, <1>4, <1>6, <1>9, <1>11, <1>12, <1>14 DEF Starts
<1> QED
  BY <1>11, <1>12, <1>13, <1>14, <1>15, <1>16, TypeInParts

LEMMA RestartStep ==
    ASSUME Inv, NEW s \in Settings, Restart(s)
    PROVE  AlwaysOnTypeOK' /\ Forgets
<1>1. TypeParts
  BY TypeInParts DEF Inv
<1> USE DEF TypeParts
<1>2. NoLaunch \in LaunchRecord /\ NoLaunch.pc = "idle"
  BY DEF NoLaunch, LaunchRecord, LaunchPc
<1>3. launch' \in [Thread -> LaunchRecord] /\ \A t \in Thread : launch'[t].pc = "idle"
  BY <1>2 DEF Restart
<1>4. SessionTypeOK'
  BY <1>1, SessionMethods DEF Restart
<1>5. RotationTypeOK'
  <2>1. /\ s.accounts \in Seq(Account)
        /\ Distinct(s.accounts)
        /\ s.sessions_per_account \in Int
        /\ s.skip_after_failures \in Int
    BY SettingsAssumption
  <2>2. /\ accounts' = s.accounts
        /\ sessions_per_account' \in Nat \ {0}
        /\ skip_after_failures' \in Nat \ {0}
        /\ n' = 0
        /\ fail_streak' = 0
    BY <2>1 DEF Restart, AtLeastOne
  <2> QED
    BY <2>1, <2>2 DEF RotationTypeOK, Distinct
<1>6. SupervisorTypeOK'
  <2>1. /\ sup_pc' = "wait"
        /\ snap' = [state |-> "idle", error_detail |-> None]
        /\ probe' = None
        /\ misses' = 0
        /\ attempt_open' = FALSE
        /\ attempt_account' = None
        /\ launched_since' = FALSE
    BY DEF Restart, NoSnap
  <2>2. 0 \in 0 .. MaxMisses - 1
    BY CountsAssumption
  <2> QED
    BY <2>1, <2>2 DEF SupervisorTypeOK, SupPc, SessionState
<1>7. ASSUME NEW r \in Run
      PROVE  /\ run'[r] \in RunRecord
             /\ ~ run'[r].known
             /\ \/ run'[r] = NoRun
                \/ /\ run'[r].status = run[r].status
                   /\ run'[r].number = run[r].number
                   /\ run'[r].account = run[r].account
  <2>1. PICK rec : rec = [run[r] EXCEPT !.known = FALSE, !.todo = {}]
    OBVIOUS
  <2>2. /\ rec \in RunRecord /\ ~ rec.known
        /\ rec.status = run[r].status
        /\ rec.number = run[r].number
        /\ rec.account = run[r].account
    BY <1>1, <2>1 DEF RunRecord
  <2>3. run'[r] = Placed(rec)
    BY <2>1 DEF Restart, Forgotten
  <2>4. run'[r] = rec \/ run'[r] = NoRun
    BY <2>3 DEF Placed
  <2>5. NoRun \in RunRecord /\ ~ NoRun.known
    BY CopiesAssumption DEF NoRun, RunRecord
  <2> QED
    BY <2>2, <2>4, <2>5
<1>8. run' \in [Run -> RunRecord]
  BY <1>7 DEF Restart
<1>9. BoundTypeOK'
  BY <1>1, CountsAssumption DEF Restart, BoundTypeOK
<1>10. n' = 0
  BY DEF Restart
<1> QED
  BY <1>3, <1>4, <1>5, <1>6, <1>7, <1>8, <1>9, <1>10, TypeInParts DEF Forgets

(* So much for the single actions: there are no others.                    *)
LEMMA StepKinds ==
    ASSUME Inv, [Next]_vars
    PROVE  /\ AlwaysOnTypeOK'
           /\ \/ Ordinary
              \/ \E t \in Thread : Plans(t)
              \/ \E t \in Thread, r \in Run : Starts(t, r)
              \/ Forgets
<1>1. CASE UNCHANGED vars
  <2>1. AlwaysOnTypeOK' /\ n' = n
    BY <1>1 DEF vars, Inv, AlwaysOnTypeOK, SessionTypeOK, RotationTypeOK, Distinct,
                sessionVars, rotationVars, settingVars, supervisorVars, boundVars
  <2>2. Ordinary
    BY <1>1, <2>1, SameLaunches, SameRuns DEF Ordinary, vars, Inv, AlwaysOnTypeOK, RotationTypeOK
  <2> QED
    BY <2>1, <2>2
<1>2. CASE Next
  BY <1>2, RunningStep, LaunchingStep, SupervisingStep, PlanStep, AcceptStep, RestartStep
  DEF Next, Launching
<1> QED
  BY <1>1, <1>2

LEMMA NumbersStep ==
    ASSUME Inv, [Next]_vars
    PROVE  LaunchesBehind' /\ KnownNumbersSpent'
<1>1. /\ AlwaysOnTypeOK'
      /\ \/ Ordinary
         \/ \E t \in Thread : Plans(t)
         \/ \E t \in Thread, r \in Run : Starts(t, r)
         \/ Forgets
  BY StepKinds
<1>2. /\ n \in Nat
      /\ n' \in Nat
      /\ \A r \in Run : run[r].number \in Nat
      /\ \A t \in Thread : launch[t].number \in Nat
  BY <1>1 DEF Inv, AlwaysOnTypeOK, RotationTypeOK
<1> USE DEF Inv, LaunchesBehind, KnownNumbersSpent
<1>3. CASE Ordinary
  <2>1. ASSUME NEW r \in Run
        PROVE  /\ run[r].number <= n => run'[r].number <= n'
               /\ run'[r].known => run'[r].number < n'
    BY <1>2, <1>3 DEF Ordinary, RunKept, NoRun
  <2> QED
    BY <1>2, <1>3, <2>1 DEF Ordinary, LaunchKept
<1>4. ASSUME NEW t \in Thread, Plans(t) PROVE LaunchesBehind' /\ KnownNumbersSpent'
  BY <1>2, <1>4 DEF Plans
<1>5. ASSUME NEW t \in Thread, NEW r \in Run, Starts(t, r)
      PROVE  LaunchesBehind' /\ KnownNumbersSpent'
  BY <1>2, <1>5 DEF Starts
<1>6. CASE Forgets
  BY <1>2, <1>6 DEF Forgets
<1> QED
  BY <1>1, <1>3, <1>4, <1>5, <1>6

LEMMA InvInit == Init => Inv
<1> SUFFICES ASSUME Init PROVE Inv
  OBVIOUS
<1>1. PICK s \in Settings : ProcessInit(s)
  BY DEF Init
<1>2. RotationTypeOK
  <2>1. /\ s.accounts \in Seq(Account)
        /\ Distinct(s.accounts)
        /\ s.sessions_per_account \in Int
        /\ s.skip_after_failures \in Int
    BY SettingsAssumption
  <2> QED
    BY <1>1, <2>1 DEF ProcessInit, AtLeastOne, RotationTypeOK, Distinct
<1>3. NoLaunch \in LaunchRecord /\ NoLaunch.pc = "idle"
  BY DEF NoLaunch, LaunchRecord, LaunchPc
<1>4. NoRun \in RunRecord /\ ~ NoRun.known
  BY CopiesAssumption DEF NoRun, RunRecord
<1>5. SessionTypeOK
  BY <1>1 DEF ProcessInit, SessionInit, SessionTypeOK, SessionState
<1>6. SupervisorTypeOK
  <2>1. 0 \in 0 .. MaxMisses - 1
    BY CountsAssumption
  <2> QED
    BY <1>1, <2>1 DEF ProcessInit, SupervisorTypeOK, SupPc, NoSnap, SessionState
<1>7. BoundTypeOK
  BY CountsAssumption DEF Init, BoundTypeOK
<1>8. launch \in [Thread -> LaunchRecord] /\ \A t \in Thread : launch[t].pc = "idle"
  BY <1>1, <1>3 DEF ProcessInit
<1>9. run \in [Run -> RunRecord] /\ \A r \in Run : run[r] = NoRun
  BY <1>4 DEF Init
<1> QED
  BY <1>2, <1>4, <1>5, <1>6, <1>7, <1>8, <1>9, TypeInParts
  DEF Inv, TypeParts, LaunchesBehind, KnownNumbersSpent

THEOREM Invariance == Spec => []Inv
<1>1. Inv /\ [Next]_vars => Inv'
  BY StepKinds, NumbersStep DEF Inv
<1> QED
  BY InvInit, <1>1, PTL DEF Spec

(* No interleaving of threads, reports and faults takes a variable out of  *)
(* its type; in particular the misses stay below their limit.              *)
THEOREM AlwaysOnTypeCorrect == Spec => []AlwaysOnTypeOK
<1>1. Inv => AlwaysOnTypeOK
  BY DEF Inv
<1> QED
  BY <1>1, Invariance, PTL

(* No process plans a number again that it knows to be used, whatever      *)
(* order pushes, webhooks, probes, skips and edited settings come in.      *)
THEOREM KnownNumbersAreSpent == Spec => []KnownNumbersSpent
<1>1. Inv => KnownNumbersSpent
  BY DEF Inv
<1> QED
  BY <1>1, Invariance, PTL

----------------------------------------------------------------------------
(* Failures.  Only the step that judges an attempt counts one.             *)
CountsNothing == fail_streak' <= fail_streak /\ (snap' = snap \/ n' <= n)

LEMMA OnlyJudgingCounts ==
    ASSUME Inv, Next
    PROVE  CountsNothing \/ SupSeesNoSession
<1>1. n \in Nat /\ fail_streak \in Nat
  BY DEF Inv, AlwaysOnTypeOK, RotationTypeOK
<1> USE DEF CountsNothing, rotationVars, settingVars, supervisorVars
<1>2. ASSUME NEW t \in Thread, Launching(t) PROVE CountsNothing
  <2>1. /\ snap' = snap
        /\ \/ UNCHANGED rotationVars
           \/ \E s \in Settings : Configure(s)
           \/ Launched
    BY <1>2 DEF Launching, Claim, PlanLaunch, PlanFails, PushAccepted, PushRefused, PushRaises,
                PushReturns, PushGivenUp, PushMadeAgain, LaunchDone
  <2> QED
    BY <1>1, <2>1 DEF Configure, Launched
<1>3. CASE Supervising
  <2>1. \/ UNCHANGED rotationVars
        \/ Succeeded
        \/ SupAdopt
        \/ SupSeesNoSession
    BY <1>3
    DEF Supervising, SupSnapshot, SupSnapshotTimesOut, SupSeesStarting, SupSeesReady, SupProbe,
        SupHoldsOff, SupDecidesToLaunch, ClaimRefused, SupTunnelAnswers, SupTunnelMisses
  <2> QED
    BY <1>1, <2>1 DEF Succeeded, SupAdopt, SupBack, Sync
<1>4. ASSUME NEW r \in Run, Running(r) PROVE CountsNothing
  <2>1. snap' = snap /\ fail_streak' \in {0, fail_streak}
    BY <1>4 DEF Running, RunOpens, RunComesUp, RunFailsEarly, RunShutsDown, RunExits, RunKilled,
                HandleReady, HandleEnded, Handled, HandlerGoesOn, HandlerSucceeded,
                HandlerMarksReady, HandlerMarksEnded, HandlerCalls, LoseWebhook, Sync, Succeeded
  <2> QED
    BY <1>1, <2>1
<1>5. ASSUME NEW s \in Settings, PollStatus(s) \/ Restart(s) PROVE CountsNothing
  BY <1>1, <1>5 DEF PollStatus, Configure, Restart
<1> QED
  BY <1>2, <1>3, <1>4, <1>5 DEF Next

(* An attempt is open only after a launch, and from its being judged on    *)
(* none is until the next.                                                 *)
OpenedByLaunch == attempt_open => launched_since

LEMMA OpenedStep ==
    ASSUME Inv, OpenedByLaunch, [Next]_vars
    PROVE  OpenedByLaunch'
<1> USE DEF OpenedByLaunch, supervisorVars
<1>1. ASSUME NEW t \in Thread, Launching(t) PROVE OpenedByLaunch'
  BY <1>1 DEF Launching, Claim, PlanLaunch, PlanFails, PushAccepted, PushRefused, PushRaises,
              PushReturns, PushGivenUp, PushMadeAgain, LaunchDone
<1>2. CASE SupSeesNoSession
  <2>1. CASE attempt_open /\ snap.state = "error"
    <3>1. attempt_open' = FALSE
      BY <1>2, <2>1 DEF SupSeesNoSession
    <3> QED
      BY <3>1
  <2>2. CASE ~ (attempt_open /\ snap.state = "error")
    <3>1. UNCHANGED <<n, fail_streak>>
      BY <1>2, <2>2 DEF SupSeesNoSession, rotationVars
    <3>2. launched_since' = launched_since
      BY <1>2, <3>1 DEF SupSeesNoSession, Inv, AlwaysOnTypeOK
    <3>3. attempt_open' => attempt_open
      BY <1>2 DEF SupSeesNoSession
    <3> QED
      BY <3>2, <3>3
  <2> QED
    BY <2>1, <2>2
<1>3. CASE Supervising /\ ~ SupSeesNoSession
  <2>1. CASE SupSeesReady \/ SupDecidesToLaunch
    BY <2>1 DEF SupSeesReady, SupDecidesToLaunch
  <2>2. CASE ~ (SupSeesReady \/ SupDecidesToLaunch)
    <3>1. UNCHANGED <<attempt_open, launched_since>>
      BY <1>3, <2>2
      DEF Supervising, SupSnapshot, SupSnapshotTimesOut, SupSeesStarting, SupProbe, SupAdopt,
          SupHoldsOff, ClaimRefused, LaunchDone, SupTunnelAnswers, SupTunnelMisses
    <3> QED
      BY <3>1
  <2> QED
    BY <2>1, <2>2
<1>4. ASSUME NEW r \in Run, Running(r) PROVE OpenedByLaunch'
  BY <1>4 DEF Running, RunOpens, RunComesUp, RunFailsEarly, RunShutsDown, RunExits, RunKilled,
              HandleReady, HandleEnded, Handled, HandlerGoesOn, HandlerSucceeded,
              HandlerMarksReady, HandlerMarksEnded, HandlerCalls, LoseWebhook
<1>5. ASSUME NEW s \in Settings, PollStatus(s) \/ Restart(s) PROVE OpenedByLaunch'
  BY <1>5 DEF PollStatus, Restart
<1>6. CASE UNCHANGED vars
  BY <1>6 DEF vars
<1> QED
  BY <1>1, <1>2, <1>3, <1>4, <1>5, <1>6 DEF Next

(* However often the error of an attempt is looked at, and whoever writes  *)
(* the record meanwhile: between two failures that are counted, or skipped *)
(* for, the supervisor has begun another launch.                           *)
THEOREM FailuresAreCountedOnce == Spec => FailureCountedOnce
<1>1. Inv /\ OpenedByLaunch /\ [Next]_vars =>
        [ fail_streak' > fail_streak \/ (snap.state = "error" /\ snap' # snap /\ n' > n) =>
              launched_since ]_vars
  <2> SUFFICES ASSUME Inv, OpenedByLaunch, Next,
                      \/ fail_streak' > fail_streak
                      \/ snap.state = "error" /\ snap' # snap /\ n' > n
               PROVE  launched_since
    OBVIOUS
  <2>1. n \in Nat /\ fail_streak \in Nat /\ n' \in Nat /\ fail_streak' \in Nat
    <3>1. AlwaysOnTypeOK /\ AlwaysOnTypeOK'
      BY StepKinds DEF Inv
    <3> QED
      BY <3>1 DEF AlwaysOnTypeOK, RotationTypeOK
  <2>2. SupSeesNoSession
    BY <2>1, OnlyJudgingCounts DEF CountsNothing
  <2>3. attempt_open
    BY <2>1, <2>2 DEF SupSeesNoSession, rotationVars
  <2> QED
    BY <2>3 DEF OpenedByLaunch
<1>2. Inv /\ OpenedByLaunch /\ [Next]_vars => OpenedByLaunch'
  BY OpenedStep
<1>3. Init => OpenedByLaunch
  BY DEF Init, ProcessInit, OpenedByLaunch
<1> QED
  BY <1>1, <1>2, <1>3, Invariance, PTL DEF Spec, FailureCountedOnce

----------------------------------------------------------------------------
(* Accounts.  While the list and the length of a turn are those of s, each *)
(* number has one account, and an account one active run.                  *)
AccountUnder(s, k) ==
    s.accounts[((k \div AtLeastOne(s.sessions_per_account)) % Len(s.accounts)) + 1]

AccountsAreThoseOf(s) ==
    \A q \in Settings : /\ q.accounts = s.accounts
                        /\ q.sessions_per_account = s.sessions_per_account

OneRunPerAccount(s) ==
    /\ \A t \in Thread :
           launch[t].pc \in {"pushing", "accepted"} =>
               launch[t].account = AccountUnder(s, launch[t].number)
    /\ \A r \in Run : Active(r) => run[r].account = AccountUnder(s, run[r].number)
    /\ \A r, q \in Run : r # q /\ Active(r) /\ Active(q) => run[r].account # run[q].account

LEMMA OneRunStep ==
    ASSUME NEW s \in Settings, AccountsAreThoseOf(s), Inv, OneRunPerAccount(s), [Next]_vars
    PROVE  OneRunPerAccount(s)'
<1>1. \/ Ordinary
      \/ \E t \in Thread : Plans(t)
      \/ \E t \in Thread, r \in Run : Starts(t, r)
      \/ Forgets
  BY StepKinds
<1> USE DEF OneRunPerAccount
<1>2. CASE Ordinary
  <2>1. ASSUME NEW r \in Run, Active(r)'
        PROVE  /\ Active(r)
               /\ run'[r].account = run[r].account
               /\ run'[r].number = run[r].number
    BY <1>2, <2>1 DEF Ordinary, RunKept, Active, NoRun
  <2>2. ASSUME NEW t \in Thread, launch'[t].pc \in {"pushing", "accepted"}
        PROVE  /\ launch[t].pc \in {"pushing", "accepted"}
               /\ launch'[t].number = launch[t].number
               /\ launch'[t].account = launch[t].account
    BY <1>2, <2>2 DEF Ordinary, LaunchKept
  <2> QED
    BY <2>1, <2>2
<1>3. ASSUME NEW t \in Thread, Plans(t) PROVE OneRunPerAccount(s)'
  <2>1. accounts' = s.accounts /\ sessions_per_account' = AtLeastOne(s.sessions_per_account)
    BY <1>3 DEF Plans, AccountsAreThoseOf
  <2>2. AccountOf(n)' = AccountUnder(s, n)
    BY <1>3, <2>1 DEF Plans, AccountOf, AccountAt, AccountIndex, Block, AccountUnder
  <2>3. ASSUME NEW u \in Thread, launch'[u].pc \in {"pushing", "accepted"}
        PROVE  launch'[u].account = AccountUnder(s, launch'[u].number)
    BY <1>3, <2>2, <2>3 DEF Plans
  <2> QED
    BY <1>3, <2>3 DEF Plans, Active
<1>4. ASSUME NEW t \in Thread, NEW r \in Run, Starts(t, r) PROVE OneRunPerAccount(s)'
  <2>1. ASSUME NEW u \in Thread, launch'[u].pc \in {"pushing", "accepted"}
        PROVE  /\ launch[u].pc \in {"pushing", "accepted"}
               /\ launch'[u].number = launch[u].number
               /\ launch'[u].account = launch[u].account
    BY <1>4, <2>1 DEF Starts
  <2>2. /\ run'[r].account = launch[t].account
        /\ run'[r].account = AccountUnder(s, run'[r].number)
        /\ \A q \in Run : Active(q) => run[q].account # launch[t].account
        /\ \A q \in Run : q # r => run'[q] = run[q]
    BY <1>4 DEF Starts, Busy
  <2> QED
    BY <2>1, <2>2 DEF Active
<1>5. CASE Forgets
  BY <1>5 DEF Forgets, Active, NoRun
<1> QED
  BY <1>1, <1>2, <1>3, <1>4, <1>5

(* Claims may time out during their push, pushes may be given up or made   *)
(* again though they were accepted, and a restart begins at 0 again: while *)
(* the accounts are not edited, no two active runs have one number.        *)
THEOREM ActiveNumbersStayDistinct ==
    ASSUME NEW s \in Settings, AccountsAreThoseOf(s)
    PROVE  Spec => []ActiveNumbersDistinct
<1>1. Init => OneRunPerAccount(s)
  BY DEF Init, ProcessInit, OneRunPerAccount, NoLaunch, Active, NoRun
<1>2. Inv /\ OneRunPerAccount(s) /\ [Next]_vars => OneRunPerAccount(s)'
  BY OneRunStep
<1>3. OneRunPerAccount(s) => ActiveNumbersDistinct
  BY DEF OneRunPerAccount, ActiveNumbersDistinct
<1> QED
  BY <1>1, <1>2, <1>3, Invariance, PTL DEF Spec

----------------------------------------------------------------------------
(* Launches that are all on one account.  Then the 409 of its busy run     *)
(* stands in for the memory that a restart loses and for the reports that  *)
(* do not come.                                                            *)
AllOn(a) ==
    /\ \A t \in Thread : launch[t].pc \in {"pushing", "accepted"} => launch[t].account = a
    /\ \A r \in Run : Active(r) => run[r].account = a
    /\ \A r, q \in Run : Active(r) /\ Active(q) => r = q

LEMMA AllOnStep ==
    ASSUME Inv, [Next]_vars, NEW a, AllOn(a),
           \A t \in Thread : Plans(t) => launch'[t].account = a
    PROVE  AllOn(a)'
<1>1. \/ Ordinary
      \/ \E t \in Thread : Plans(t)
      \/ \E t \in Thread, r \in Run : Starts(t, r)
      \/ Forgets
  BY StepKinds
<1> USE DEF AllOn
<1>2. CASE Ordinary
  <2>1. ASSUME NEW r \in Run, Active(r)'
        PROVE  Active(r) /\ run'[r].account = run[r].account
    BY <1>2, <2>1 DEF Ordinary, RunKept, Active, NoRun
  <2>2. ASSUME NEW t \in Thread, launch'[t].pc \in {"pushing", "accepted"}
        PROVE  /\ launch[t].pc \in {"pushing", "accepted"}
               /\ launch'[t].number = launch[t].number
               /\ launch'[t].account = launch[t].account
    BY <1>2, <2>2 DEF Ordinary, LaunchKept
  <2> QED
    BY <2>1, <2>2
<1>3. ASSUME NEW t \in Thread, Plans(t) PROVE AllOn(a)'
  <2>1. launch'[t].account = a
    BY <1>3
  <2> QED
    BY <1>3, <2>1 DEF Plans, Active
<1>4. ASSUME NEW t \in Thread, NEW r \in Run, Starts(t, r) PROVE AllOn(a)'
  <2>1. ASSUME NEW u \in Thread, launch'[u].pc \in {"pushing", "accepted"}
        PROVE  /\ launch[u].pc \in {"pushing", "accepted"}
               /\ launch'[u].number = launch[u].number
               /\ launch'[u].account = launch[u].account
    BY <1>4, <2>1 DEF Starts
  <2>2. /\ run'[r].account = a
        /\ \A q \in Run : ~ Active(q)
        /\ \A q \in Run : q # r => run'[q] = run[q]
    BY <1>4 DEF Starts, Busy
  <2> QED
    BY <2>1, <2>2 DEF Active
<1>5. CASE Forgets
  BY <1>5 DEF Forgets, Active, NoRun
<1> QED
  BY <1>1, <1>2, <1>3, <1>4, <1>5

LEMMA AllOnInit == ASSUME NEW a PROVE Init => AllOn(a)
BY DEF Init, ProcessInit, AllOn, NoLaunch, Active, NoRun

LEMMA AllOnMeansOne == ASSUME NEW a PROVE AllOn(a) => AtMostOneLive
BY DEF AllOn, Active, Live, AtMostOneLive

(* With one account, whatever its turns and limits are edited to, there    *)
(* are never two runs with a GPU: not across restarts, nor when claims     *)
(* time out early, reports are lost, or requests race the supervisor.      *)
THEOREM OneAccountOneRun ==
    ASSUME NEW a, \A s \in Settings : \A i \in 1..Len(s.accounts) : s.accounts[i] = a
    PROVE  Spec => []AtMostOneLive
<1>1. [Next]_vars => \A t \in Thread : Plans(t) => launch'[t].account = a
  BY DEF Plans
<1>2. Inv /\ AllOn(a) /\ [Next]_vars => AllOn(a)'
  BY <1>1, AllOnStep
<1> QED
  BY <1>2, AllOnInit, AllOnMeansOne, Invariance, PTL DEF Spec

(* The counter is in a turn of account a.                                  *)
StaysOn(a) == CanPlan => AccountOf(n) = a

(* With several accounts the same holds for as long as the counter stays   *)
(* in one account's turns: a restart then begins again on the account of   *)
(* the run it forgot.                                                      *)
THEOREM OneTurnOneRun == ASSUME NEW a PROVE Spec /\ []StaysOn(a) => []AtMostOneLive
<1>1. StaysOn(a)' => \A t \in Thread : Plans(t) => launch'[t].account = a
  <2> SUFFICES ASSUME StaysOn(a)', NEW t \in Thread, Plans(t) PROVE launch'[t].account = a
    OBVIOUS
  <2>1. accounts' # <<>> /\ launch'[t].account = AccountOf(n)'
    BY DEF Plans
  <2> HIDE DEF AccountOf
  <2> QED
    BY <2>1 DEF StaysOn, CanPlan
<1>2. Inv /\ AllOn(a) /\ [Next]_vars /\ StaysOn(a)' => AllOn(a)'
  BY <1>1, AllOnStep
<1> QED
  BY <1>2, AllOnInit, AllOnMeansOne, Invariance, PTL DEF Spec

=============================================================================
