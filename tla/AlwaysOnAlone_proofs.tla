------------------------ MODULE AlwaysOnAlone_proofs ------------------------
(***************************************************************************)
(* The supervisor alone, with its calls and webhooks answered in time, the *)
(* start timeout long enough and the process never replaced: for any list  *)
(* of accounts, any number of runs and any number of tries of a webhook,   *)
(* there is one run with a GPU at a time, and every launch gets a number   *)
(* above those of all runs still about.                                    *)
(***************************************************************************)
EXTENDS AlwaysOn_proofs

(* The faults left are a push that is refused or dies, accounts that are   *)
(* unusable, and a run that Kaggle ends without a word.                    *)
Alone ==
    /\ Users = {}
    /\ Faults \intersect {"restart", "start_timeout", "late_webhook", "lost_webhook",
                          "lost_answer", "probe_miss"} = {}

LEMMA OneThread == Alone => Thread = {Supervisor}
BY DEF Alone, Thread

----------------------------------------------------------------------------
(* The invariant.                                                          *)

(* A run that serves or is going to, or that is yet to be heard from.      *)
Heard(r) == Live(r) \/ InFlight(r)

NoneHeard == \A r \in Run : ~ Heard(r)

Loads(r) == run[r].status \in {"loading", "answering"}

(* There is one such run.  The record says "starting" for as long as it    *)
(* loads, and, once it is up, until its report has been handled.           *)
LoneRun ==
    /\ \A r, q \in Run : Heard(r) /\ Heard(q) => r = q
    /\ \A r \in Run : Loads(r) => state = "starting" /\ ~ InFlight(r)
    /\ \A r \in Run :
           run[r].status = "up" =>
               /\ run[r].ended = 0 /\ "mark_ended" \notin run[r].todo
               /\ state = "ready" \/ (state = "starting" /\ InFlight(r))

(* A pass that found no session goes by a record that is still true when   *)
(* the launch is claimed and pushed: nothing can have come up meanwhile.   *)
LonePass ==
    /\ launch[Supervisor].pc # "idle" => sup_pc = "launch"
    /\ sup_pc = "judge" /\ snap.state \notin Claimed => NoneHeard /\ state \notin Claimed
    /\ sup_pc \in {"probe_adopt", "adopt"} => NoneHeard /\ state \notin Claimed
    /\ sup_pc = "adopt" => probe = None
    /\ sup_pc = "launch" /\ launch[Supervisor].pc = "idle" => NoneHeard /\ state \notin Claimed
    /\ launch[Supervisor].pc \in {"claimed", "pushing"} => NoneHeard /\ state = "starting"
    /\ sup_pc = "judge" /\ snap.state = "ready" => \A r \in Run : ~ Loads(r)
    /\ sup_pc \in {"probe_tunnel", "tunnel"} => \A r \in Run : ~ Loads(r)
    /\ sup_pc = "tunnel" /\ probe = None => \A r \in Run : ~ Live(r)

LoneInv == LoneRun /\ LonePass

----------------------------------------------------------------------------
(* What becomes of a run, as far as it is heard.                           *)

LEMMA RunChanges ==
    ASSUME NEW old \in RunRecord, NEW rec
    PROVE  /\ rec \in Opens(old) =>
                  /\ old.status = "loading" /\ rec.status = "answering"
                  /\ rec.ready = old.ready /\ rec.ended = old.ended /\ rec.todo = old.todo
           /\ rec \in ComesUp(old) =>
                  /\ old.status = "answering" /\ rec.status = "up"
                  /\ rec.ready = Copies /\ rec.ended = old.ended /\ rec.todo = old.todo
           /\ rec \in FailsEarly(old) =>
                  old.status \in {"loading", "answering"} /\ rec.status = "stopping"
           /\ rec \in ShutsDown(old) => old.status = "up" /\ rec.status = "stopping"
           /\ rec \in Exits(old) \union Dies(old) =>
                  /\ rec.status = "gone"
                  /\ rec.ready = old.ready /\ rec.ended = old.ended /\ rec.todo = old.todo
           /\ rec \in FewerCalls(old, "ready") =>
                  /\ rec.status = old.status /\ rec.ended = old.ended /\ rec.todo = old.todo
                  /\ rec.ready \in Nat /\ rec.ready < old.ready
           /\ rec \in FewerCalls(old, "ended") =>
                  /\ rec.status = old.status /\ rec.ready = old.ready /\ rec.todo = old.todo
                  /\ rec.ended \in Nat /\ rec.ended < old.ended
<1> USE DEF RunRecord, RunStatus
<1>1. rec \in Opens(old) =>
        /\ old.status = "loading" /\ rec.status = "answering"
        /\ rec.ready = old.ready /\ rec.ended = old.ended /\ rec.todo = old.todo
  BY DEF Opens, When
<1>2. rec \in ComesUp(old) =>
        /\ old.status = "answering" /\ rec.status = "up"
        /\ rec.ready = Copies /\ rec.ended = old.ended /\ rec.todo = old.todo
  <2> SUFFICES ASSUME rec \in ComesUp(old)
               PROVE  /\ old.status = "answering" /\ rec.status = "up"
                      /\ rec.ready = Copies /\ rec.ended = old.ended /\ rec.todo = old.todo
    OBVIOUS
  <2>1. old.status = "answering" /\ rec = [old EXCEPT !.status = "up", !.ready = Copies]
    BY DEF ComesUp, When
  <2> QED
    BY <2>1
<1>3. rec \in FailsEarly(old) =>
        old.status \in {"loading", "answering"} /\ rec.status = "stopping"
  BY DEF FailsEarly, Reports, When
<1>4. rec \in ShutsDown(old) => old.status = "up" /\ rec.status = "stopping"
  BY DEF ShutsDown, Reports, When
<1>5. rec \in Exits(old) \union Dies(old) =>
        /\ rec.status = "gone"
        /\ rec.ready = old.ready /\ rec.ended = old.ended /\ rec.todo = old.todo
  BY DEF Exits, Dies, When
<1>6. rec \in FewerCalls(old, "ready") =>
        /\ rec.status = old.status /\ rec.ended = old.ended /\ rec.todo = old.todo
        /\ rec.ready \in Nat /\ rec.ready < old.ready
  BY DEF FewerCalls
<1>7. rec \in FewerCalls(old, "ended") =>
        /\ rec.status = old.status /\ rec.ready = old.ready /\ rec.todo = old.todo
        /\ rec.ended \in Nat /\ rec.ended < old.ended
  BY DEF FewerCalls
<1> QED
  BY <1>1, <1>2, <1>3, <1>4, <1>5, <1>6, <1>7

(* Run r becomes rec, or leaves its place, silent.                         *)
LEMMA RunPlaces ==
    ASSUME run \in [Run -> RunRecord], NEW r \in Run, NEW rec, Becomes(r, rec)
    PROVE  /\ \/ run'[r] = rec
              \/ run'[r].status = "absent" /\ ~ Live(r)' /\ ~ InFlight(r)' /\ ~ Loads(r)'
           /\ \A q \in Run \ {r} : run'[q] = run[q]
<1>1. /\ run'[r] = rec \/ run'[r] = NoRun
      /\ \A q \in Run \ {r} : run'[q] = run[q]
  BY DEF Becomes, Placed
<1>2. /\ NoRun.status = "absent" /\ NoRun.ready = 0 /\ NoRun.ended = 0 /\ NoRun.todo = {}
      /\ ~ NoRun.ready + NoRun.ended > 0
  BY DEF NoRun
<1> QED
  BY <1>1, <1>2 DEF Live, InFlight, Loads

(* The runs are no louder for it, and the record changes only by one that  *)
(* is heard.                                                               *)
NoLouder(r) ==
    /\ \A q \in Run \ {r} : run'[q] = run[q]
    /\ Heard(r)' => Heard(r)
    /\ Live(r)' => Live(r)
    /\ Loads(r)' => Loads(r)
    /\ state' = state \/ Heard(r)

LEMMA LoneRunKept ==
    ASSUME LoneRun, NEW r \in Run, NoLouder(r),
           Loads(r)' => state' = "starting" /\ ~ InFlight(r)',
           run'[r].status = "up" =>
               /\ run'[r].ended = 0 /\ "mark_ended" \notin run'[r].todo
               /\ state' = "ready" \/ (state' = "starting" /\ InFlight(r)')
    PROVE  LoneRun'
<1>1. ASSUME NEW q \in Run \ {r}
      PROVE  /\ run'[q] = run[q]
             /\ Heard(q)' <=> Heard(q)
             /\ Loads(q)' <=> Loads(q)
             /\ InFlight(q)' <=> InFlight(q)
             /\ state' = state \/ ~ Heard(q)
  BY DEF NoLouder, LoneRun, Heard, Live, InFlight, Loads
<1>2. \A p, q \in Run : Heard(p)' /\ Heard(q)' => p = q
  BY <1>1 DEF NoLouder, LoneRun
<1>3. ASSUME NEW q \in Run, Loads(q)' PROVE state' = "starting" /\ ~ InFlight(q)'
  BY <1>1, <1>3 DEF LoneRun, Heard, Live, Loads
<1>4. ASSUME NEW q \in Run, run'[q].status = "up"
      PROVE  /\ run'[q].ended = 0 /\ "mark_ended" \notin run'[q].todo
             /\ state' = "ready" \/ (state' = "starting" /\ InFlight(q)')
  BY <1>1, <1>4 DEF LoneRun, Heard, Live
<1> QED
  BY <1>2, <1>3, <1>4 DEF LoneRun

LEMMA LonePassKept ==
    ASSUME LonePass, NEW r \in Run, NoLouder(r), UNCHANGED <<launch, supervisorVars>>
    PROVE  LonePass'
<1>1. NoneHeard => NoneHeard' /\ state' = state
  BY DEF NoneHeard, NoLouder, Heard, Live, InFlight
<1>2. (\A q \in Run : ~ Loads(q)) => \A q \in Run : ~ Loads(q)'
  BY DEF NoLouder, Loads
<1>3. (\A q \in Run : ~ Live(q)) => \A q \in Run : ~ Live(q)'
  BY DEF NoLouder, Live
<1> QED
  BY <1>1, <1>2, <1>3 DEF LonePass, supervisorVars

----------------------------------------------------------------------------
(* The steps of the runs.                                                  *)

LEMMA LoneRunning ==
    ASSUME Alone, Inv, LoneRun, NEW r \in Run, Running(r)
    PROVE  LoneRun' /\ NoLouder(r) /\ UNCHANGED <<launch, supervisorVars>>
<1>1. /\ run \in [Run -> RunRecord]
      /\ run[r] \in RunRecord
      /\ run[r].ready \in Nat /\ run[r].ended \in Nat
  BY TypeInParts DEF Inv, TypeParts, RunRecord
<1>2. Copies \in Nat \ {0}
  BY CopiesAssumption
<1>3. UNCHANGED <<launch, supervisorVars>>
  BY DEF Running, RunOpens, RunComesUp, RunFailsEarly, RunShutsDown, RunExits, RunKilled,
         HandleReady, HandleEnded, Handled, HandlerGoesOn, HandlerSucceeded, HandlerMarksReady,
         HandlerMarksEnded, HandlerCalls, LoseWebhook
<1>4. /\ Loads(r) => state = "starting" /\ ~ InFlight(r)
      /\ run[r].status = "up" =>
            /\ run[r].ended = 0 /\ "mark_ended" \notin run[r].todo
            /\ state = "ready" \/ (state = "starting" /\ InFlight(r))
  BY DEF LoneRun
<1> USE <1>1, <1>2 DEF Heard, Live, InFlight, Loads
<1>5. CASE RunOpens(r)
  <2>1. PICK rec \in Opens(run[r]) : Becomes(r, rec)
    BY <1>5 DEF RunOpens
  <2>2. state' = state
    BY <1>5 DEF RunOpens, sessionVars
  <2>3. /\ run[r].status = "loading" /\ rec.status = "answering"
        /\ rec.ready = run[r].ready /\ rec.ended = run[r].ended /\ rec.todo = run[r].todo
    BY RunChanges
  <2>4. NoLouder(r)
    BY <2>1, <2>2, <2>3, RunPlaces DEF NoLouder
  <2> QED
    BY <1>3, <1>4, <2>1, <2>2, <2>3, <2>4, RunPlaces, LoneRunKept
<1>6. CASE RunComesUp(r)
  <2>1. PICK rec \in ComesUp(run[r]) : Becomes(r, rec)
    BY <1>6 DEF RunComesUp
  <2>2. state' = state
    BY <1>6 DEF RunComesUp, sessionVars
  <2>3. /\ run[r].status = "answering" /\ rec.status = "up"
        /\ rec.ready = Copies /\ rec.ended = run[r].ended /\ rec.todo = run[r].todo
    BY RunChanges
  <2>4. NoLouder(r)
    BY <2>1, <2>2, <2>3, RunPlaces DEF NoLouder
  <2>5. state = "starting" /\ run[r].ended = 0 /\ run[r].todo = {}
    BY <1>4, <2>3
  <2> QED
    BY <1>3, <2>1, <2>2, <2>3, <2>4, <2>5, RunPlaces, LoneRunKept
<1>7. CASE RunFailsEarly(r) \/ RunShutsDown(r)
  <2>1. PICK rec \in FailsEarly(run[r]) \union ShutsDown(run[r]) : Becomes(r, rec)
    BY <1>7 DEF RunFailsEarly, RunShutsDown
  <2>2. state' = state
    BY <1>7 DEF RunFailsEarly, RunShutsDown, sessionVars
  <2>3. run[r].status \in {"loading", "answering", "up"} /\ rec.status = "stopping"
    BY RunChanges
  <2>4. NoLouder(r)
    BY <2>1, <2>2, <2>3, RunPlaces DEF NoLouder
  <2> QED
    BY <1>3, <2>1, <2>2, <2>3, <2>4, RunPlaces, LoneRunKept
<1>8. CASE RunExits(r) \/ RunKilled(r)
  <2>1. PICK rec \in Exits(run[r]) \union Dies(run[r]) : Becomes(r, rec)
    BY <1>8 DEF RunExits, RunKilled
  <2>2. state' = state
    BY <1>8 DEF RunExits, RunKilled, sessionVars
  <2>3. /\ rec.status = "gone" /\ rec.ready = run[r].ready /\ rec.ended = run[r].ended
        /\ rec.todo = run[r].todo
    BY RunChanges
  <2>4. NoLouder(r)
    BY <2>1, <2>2, <2>3, RunPlaces DEF NoLouder
  <2> QED
    BY <1>3, <2>1, <2>2, <2>3, <2>4, RunPlaces, LoneRunKept
<1>9. CASE HandleReady(r)
  <2>1. PICK rec \in FewerCalls(run[r], "ready") :
            Becomes(r, [rec EXCEPT !.known = TRUE, !.todo = @ \union {"succeeded"}])
    BY <1>9 DEF HandleReady, Handled
  <2>2. state' = state
    BY <1>9 DEF HandleReady, Handled, sessionVars
  <2>3. /\ rec.status = run[r].status /\ rec.ended = run[r].ended /\ rec.todo = run[r].todo
        /\ rec.ready \in Nat /\ rec.ready < run[r].ready
    BY RunChanges
  <2>4. rec \in RunRecord
    BY RunGoesOn
  <2>5. PICK new : new = [rec EXCEPT !.known = TRUE, !.todo = @ \union {"succeeded"}]
    OBVIOUS
  <2>6. /\ Becomes(r, new)
        /\ new.status = rec.status /\ new.ended = rec.ended
        /\ new.todo = rec.todo \union {"succeeded"}
    BY <2>1, <2>4, <2>5 DEF RunRecord
  <2>7. InFlight(r)
    BY <2>3
  <2>8. NoLouder(r)
    BY <2>2, <2>3, <2>6, <2>7, RunPlaces DEF NoLouder
  <2>9. CASE run'[r] = new
    <3>1. run'[r].status = run[r].status /\ run'[r].ended = run[r].ended
      BY <2>3, <2>6, <2>9
    <3>2. run'[r].todo = run[r].todo \union {"succeeded"}
      BY <2>3, <2>6, <2>9
    <3>3. ~ Loads(r)' /\ InFlight(r)'
      BY <1>4, <2>7, <3>1, <3>2
    <3> QED
      BY <1>3, <1>4, <2>2, <2>8, <3>1, <3>2, <3>3, LoneRunKept
  <2>10. CASE run'[r].status = "absent" /\ ~ Live(r)' /\ ~ InFlight(r)' /\ ~ Loads(r)'
    BY <1>3, <2>8, <2>10, LoneRunKept
  <2> QED
    BY <2>6, <2>9, <2>10, RunPlaces
<1>10. CASE HandleEnded(r)
  <2>1. PICK rec \in FewerCalls(run[r], "ended") :
            Becomes(r, [rec EXCEPT !.known = TRUE, !.todo = @ \union {"mark_ended"}])
    BY <1>10 DEF HandleEnded, Handled
  <2>2. state' = state
    BY <1>10 DEF HandleEnded, Handled, sessionVars
  <2>3. /\ rec.status = run[r].status /\ rec.ready = run[r].ready /\ rec.todo = run[r].todo
        /\ rec.ended \in Nat /\ rec.ended < run[r].ended
    BY RunChanges
  <2>4. rec \in RunRecord
    BY RunGoesOn
  <2>5. PICK new : new = [rec EXCEPT !.known = TRUE, !.todo = @ \union {"mark_ended"}]
    OBVIOUS
  <2>6. /\ Becomes(r, new)
        /\ new.status = rec.status /\ new.ended = rec.ended
        /\ new.todo = rec.todo \union {"mark_ended"}
    BY <2>1, <2>4, <2>5 DEF RunRecord
  <2>7. InFlight(r) /\ ~ Live(r)
    BY <1>4, <2>3
  <2>8. NoLouder(r)
    BY <2>2, <2>3, <2>6, <2>7, RunPlaces DEF NoLouder
  <2> QED
    BY <1>3, <1>4, <2>2, <2>3, <2>6, <2>7, <2>8, RunPlaces, LoneRunKept
<1>11. CASE HandlerSucceeded(r)
  <2>1. PICK new : new = [run[r] EXCEPT !.todo = (@ \ {"succeeded"}) \union {"mark_ready"}]
    OBVIOUS
  <2>2. Becomes(r, new) /\ "succeeded" \in run[r].todo
    BY <1>11, <2>1 DEF HandlerSucceeded, HandlerCalls
  <2>3. /\ new.status = run[r].status /\ new.ended = run[r].ended
        /\ new.todo = (run[r].todo \ {"succeeded"}) \union {"mark_ready"}
    BY <2>1 DEF RunRecord
  <2>4. state' = state
    BY <1>11 DEF HandlerSucceeded, sessionVars
  <2>5. InFlight(r)
    BY <2>2
  <2>6. NoLouder(r)
    BY <2>2, <2>3, <2>4, <2>5, RunPlaces DEF NoLouder
  <2> QED
    BY <1>3, <1>4, <2>2, <2>3, <2>4, <2>5, <2>6, RunPlaces, LoneRunKept
<1>12. CASE HandlerMarksReady(r)
  <2>1. PICK new : new = [run[r] EXCEPT !.todo = (@ \ {"mark_ready"}) \union {}]
    OBVIOUS
  <2>2. Becomes(r, new) /\ "mark_ready" \in run[r].todo
    BY <1>12, <2>1 DEF HandlerMarksReady, HandlerCalls
  <2>3. /\ new.status = run[r].status /\ new.ended = run[r].ended
        /\ new.todo = (run[r].todo \ {"mark_ready"}) \union {}
    BY <2>1 DEF RunRecord
  <2>4. state' = "ready"
    BY <1>12 DEF HandlerMarksReady, MarkReady
  <2>5. InFlight(r)
    BY <2>2
  <2>6. NoLouder(r)
    BY <2>2, <2>3, <2>4, <2>5, RunPlaces DEF NoLouder
  <2> QED
    BY <1>3, <1>4, <2>2, <2>3, <2>4, <2>5, <2>6, RunPlaces, LoneRunKept
<1>13. CASE HandlerMarksEnded(r)
  <2>1. PICK new : new = [run[r] EXCEPT !.todo = (@ \ {"mark_ended"}) \union {}]
    OBVIOUS
  <2>2. Becomes(r, new) /\ "mark_ended" \in run[r].todo
    BY <1>13, <2>1 DEF HandlerMarksEnded, HandlerCalls
  <2>3. /\ new.status = run[r].status /\ new.ended = run[r].ended
        /\ new.todo = (run[r].todo \ {"mark_ended"}) \union {}
    BY <2>1 DEF RunRecord
  <2>4. state' = "ended"
    BY <1>13 DEF HandlerMarksEnded, MarkEnded
  <2>5. InFlight(r) /\ ~ Live(r)
    BY <1>4, <2>2
  <2>6. NoLouder(r)
    BY <2>2, <2>3, <2>4, <2>5, RunPlaces DEF NoLouder
  <2> QED
    BY <1>3, <1>4, <2>2, <2>3, <2>4, <2>5, <2>6, RunPlaces, LoneRunKept
<1>14. CASE LoseWebhook(r)
  BY <1>14 DEF LoseWebhook, Alone
<1> QED
  BY <1>5, <1>6, <1>7, <1>8, <1>9, <1>10, <1>11, <1>12, <1>13, <1>14 DEF Running, HandlerGoesOn

----------------------------------------------------------------------------
(* The steps of the supervisor.                                            *)

LEMMA RunsStay ==
    ASSUME UNCHANGED run
    PROVE  \A r \in Run : /\ Heard(r)' <=> Heard(r)
                          /\ Live(r)' <=> Live(r)
                          /\ Loads(r)' <=> Loads(r)
                          /\ InFlight(r)' <=> InFlight(r)
BY DEF Heard, Live, Loads, InFlight

(* The record may be overwritten while nothing is live.                    *)
LEMMA LoneRunStays ==
    ASSUME LoneRun, UNCHANGED run, state' = state \/ \A r \in Run : ~ Live(r)
    PROVE  LoneRun'
BY RunsStay DEF LoneRun, Live, Loads

(* A pass begins with everything settled, so that what the record says of  *)
(* a missing session is true of the runs.                                  *)
LEMMA SettledRecord ==
    ASSUME Alone, Inv, LoneRun, WebhooksSettled
    PROVE  /\ state \notin Claimed => NoneHeard
           /\ state = "ready" => \A r \in Run : ~ Loads(r)
           /\ state = "starting" /\ StartMayTimeOut => NoneHeard
<1>1. \A r \in Run : ~ InFlight(r)
  BY DEF Alone, WebhooksSettled
<1>2. \A r \in Run : Loads(r) => state = "starting"
  BY DEF LoneRun
<1>3. \A r \in Run : run[r].status = "up" => state \in Claimed
  BY DEF LoneRun, Claimed
<1>4. ASSUME NEW r \in Run, run[r].status = "up" PROVE state = "ready"
  <2>1. state = "ready" \/ (state = "starting" /\ InFlight(r))
    BY <1>4 DEF LoneRun
  <2> QED
    BY <1>1, <2>1
<1>5. state \notin Claimed => NoneHeard
  BY <1>1, <1>2, <1>3 DEF NoneHeard, Heard, Live, Loads, Claimed
<1>6. state = "ready" => \A r \in Run : ~ Loads(r)
  BY <1>2
<1>7. state = "starting" /\ StartMayTimeOut => NoneHeard
  BY <1>1, <1>4 DEF StartMayTimeOut, Alone, NoneHeard, Heard, Live
<1> QED
  BY <1>5, <1>6, <1>7

LEMMA LoneSupervising ==
    ASSUME Alone, Inv, LoneInv, Supervising
    PROVE  LoneInv'
<1>1. LoneRun /\ LonePass /\ state \in SessionState /\ snap.state \in SessionState
  BY DEF LoneInv, Inv, AlwaysOnTypeOK, SessionTypeOK
<1> USE <1>1 DEF NoneHeard, SessionState, Claimed
<1>2. CASE SupSnapshot
  <2>1. /\ WebhooksSettled
        /\ sup_pc = "wait" /\ sup_pc' = "judge"
        /\ snap' = [state |-> state, error_detail |-> error_detail]
        /\ UNCHANGED <<state, launch, run>>
    BY <1>2 DEF SupSnapshot, sessionVars
  <2>2. /\ state \notin Claimed => NoneHeard
        /\ state = "ready" => \A r \in Run : ~ Loads(r)
    BY <2>1, SettledRecord
  <2>3. launch[Supervisor].pc = "idle"
    BY <2>1 DEF LonePass
  <2> QED
    BY <2>1, <2>2, <2>3, LoneRunStays, RunsStay DEF LoneInv, LonePass
<1>3. CASE SupSnapshotTimesOut
  <2>1. /\ WebhooksSettled
        /\ StartMayTimeOut
        /\ state = "starting" /\ state' = "error"
        /\ sup_pc = "wait" /\ sup_pc' = "judge"
        /\ snap' = [state |-> "error", error_detail |-> "timeout"]
        /\ UNCHANGED <<launch, run>>
    BY <1>3 DEF SupSnapshotTimesOut, StartTimesOut, MarkError
  <2>2. NoneHeard
    BY <2>1, SettledRecord
  <2>3. launch[Supervisor].pc = "idle"
    BY <2>1 DEF LonePass
  <2>4. LoneRun'
    BY <2>1, <2>2, LoneRunStays DEF Heard
  <2> QED
    BY <2>1, <2>2, <2>3, <2>4, RunsStay DEF LoneInv, LonePass
<1>4. CASE SupSeesStarting
  <2>1. /\ sup_pc = "judge" /\ sup_pc' = "wait"
        /\ UNCHANGED <<state, launch, run>>
    BY <1>4 DEF SupSeesStarting, sessionVars
  <2> QED
    BY <2>1, LoneRunStays, RunsStay DEF LoneInv, LonePass
<1>5. CASE SupSeesReady
  <2>1. /\ sup_pc = "judge" /\ sup_pc' = "probe_tunnel"
        /\ snap.state = "ready"
        /\ UNCHANGED <<state, launch, run>>
    BY <1>5 DEF SupSeesReady, sessionVars
  <2> QED
    BY <2>1, LoneRunStays, RunsStay DEF LoneInv, LonePass
<1>6. CASE SupSeesNoSession
  <2>1. /\ sup_pc = "judge" /\ sup_pc' = "probe_adopt"
        /\ snap.state \notin Claimed
        /\ UNCHANGED <<state, launch, run>>
    BY <1>6 DEF SupSeesNoSession, sessionVars
  <2> QED
    BY <2>1, LoneRunStays, RunsStay DEF LoneInv, LonePass
<1>7. CASE SupProbe
  <2>1. /\ \/ sup_pc = "probe_adopt" /\ sup_pc' = "adopt"
           \/ sup_pc = "probe_tunnel" /\ sup_pc' = "tunnel"
        /\ \/ \E r \in Answering : probe' = run[r].number
           \/ Answering = {} /\ probe' = None
        /\ UNCHANGED <<state, launch, run>>
    BY <1>7 DEF SupProbe, sessionVars, Alone
  <2>2. \A r \in Answering : run[r].number # None
    BY NoneIsNoNumber DEF Inv, AlwaysOnTypeOK, Answering
  <2>3. NoneHeard => Answering = {}
    BY DEF Answering, Heard, Live
  <2>4. Answering = {} /\ (\A r \in Run : ~ Loads(r)) => \A r \in Run : ~ Live(r)
    BY DEF Answering, Live, Loads
  <2> QED
    BY <2>1, <2>2, <2>3, <2>4, LoneRunStays, RunsStay DEF LoneInv, LonePass
<1>8. CASE SupAdopt
  BY <1>8 DEF SupAdopt, LonePass
<1>9. CASE SupHoldsOff \/ SupTunnelAnswers
  <2>1. /\ sup_pc \in {"adopt", "tunnel"} /\ sup_pc' = "wait"
        /\ UNCHANGED <<state, launch, run>>
    BY <1>9 DEF SupHoldsOff, SupTunnelAnswers, SupBack, sessionVars
  <2> QED
    BY <2>1, LoneRunStays, RunsStay DEF LoneInv, LonePass
<1>10. CASE SupDecidesToLaunch
  <2>1. /\ sup_pc = "adopt" /\ sup_pc' = "launch"
        /\ UNCHANGED <<state, launch, run>>
    BY <1>10 DEF SupDecidesToLaunch, sessionVars
  <2> QED
    BY <2>1, LoneRunStays, RunsStay DEF LoneInv, LonePass
<1>11. CASE ClaimRefused
  BY <1>11 DEF ClaimRefused, MayClaim, LonePass
<1>12. CASE SupTunnelMisses
  <2>1. /\ sup_pc = "tunnel" /\ probe = None /\ sup_pc' = "wait"
        /\ UNCHANGED <<launch, run>>
    BY <1>12 DEF SupTunnelMisses, SupBack
  <2>2. \A r \in Run : ~ Live(r)
    BY <2>1 DEF LonePass
  <2> QED
    BY <2>1, <2>2, LoneRunStays, RunsStay DEF LoneInv, LonePass
<1> QED
  BY <1>2, <1>3, <1>4, <1>5, <1>6, <1>7, <1>8, <1>9, <1>10, <1>11, <1>12 DEF Supervising

LEMMA LoneLaunching ==
    ASSUME Alone, Inv, LoneInv, NEW t \in Thread, Launching(t)
    PROVE  LoneInv'
<1>1. LoneRun /\ LonePass
  BY DEF LoneInv
<1>2. t = Supervisor
  BY OneThread
<1>3. launch \in [Thread -> LaunchRecord] /\ run \in [Run -> RunRecord]
  BY TypeInParts DEF Inv, TypeParts
<1>4. NoLaunch.pc = "idle" /\ NoLaunch \in LaunchRecord
  BY DEF NoLaunch, LaunchRecord, LaunchPc
<1> USE <1>1, <1>2, <1>3, <1>4 DEF NoneHeard, Claimed, LaunchSteps
<1>5. LaunchDone(t) => launch'[Supervisor].pc = "idle" /\ sup_pc' = "wait"
  BY DEF LaunchDone
<1>6. CASE Claim(t)
  <2>1. PICK rec : rec = [NoLaunch EXCEPT !.pc = "claimed"]
    OBVIOUS
  <2>2. rec.pc = "claimed"
    BY <2>1 DEF NoLaunch
  <2>3. launch' = [launch EXCEPT ![t] = rec] /\ UNCHANGED <<run, sup_pc>>
    BY <1>6, <2>1 DEF Claim, supervisorVars
  <2>4. launch'[Supervisor].pc = "claimed"
    BY <2>2, <2>3
  <2>5. launch[t].pc = "idle" /\ sup_pc = "launch" /\ state' = "starting"
    BY <1>6 DEF Claim, MayClaim, TryBeginStart
  <2>6. NoneHeard
    BY <2>5 DEF LonePass
  <2>7. LoneRun'
    BY <2>3, <2>6, LoneRunStays DEF Heard
  <2> QED
    BY <2>3, <2>4, <2>5, <2>6, <2>7, RunsStay DEF LoneInv, LonePass
<1>7. ASSUME NEW s \in Settings, PlanLaunch(t, s) PROVE LoneInv'
  <2>1. /\ launch[t].pc = "claimed" /\ launch'[t].pc = "pushing"
        /\ UNCHANGED <<state, run, sup_pc>>
    BY <1>7, PlanStep DEF Plans, PlanLaunch, sessionVars
  <2>2. NoneHeard /\ state = "starting" /\ sup_pc = "launch"
    BY <2>1 DEF LonePass
  <2> QED
    BY <2>1, <2>2, LoneRunStays, RunsStay DEF LoneInv, LonePass
<1>8. CASE PlanFails(t) \/ (\E detail \in ErrorDetail : PushRefused(t, detail)) \/ PushRaises(t)
  <2>1. /\ launch[t].pc \in {"claimed", "pushing"}
        /\ LaunchDone(t)
        /\ UNCHANGED run
    BY <1>8 DEF PlanFails, PushRefused, PushRaises
  <2>2. NoneHeard
    BY <2>1 DEF LonePass
  <2>3. LoneRun'
    BY <2>1, <2>2, LoneRunStays DEF Heard
  <2> QED
    BY <1>5, <2>1, <2>3, RunsStay DEF LoneInv, LonePass
<1>9. CASE PushAccepted(t)
  <2>1. PICK r \in Run :
          Becomes(r, [NoRun EXCEPT !.status = "loading", !.number = launch[t].number,
                                   !.account = launch[t].account])
    BY <1>9 DEF PushAccepted
  <2>2. PICK rec : rec = [NoRun EXCEPT !.status = "loading", !.number = launch[t].number,
                                       !.account = launch[t].account]
    OBVIOUS
  <2>3. rec = [status |-> "loading", number |-> launch[t].number,
               account |-> launch[t].account, ready |-> 0, ended |-> 0, todo |-> {}, known |-> FALSE]
    BY <2>2 DEF NoRun
  <2>4. rec.status = "loading" /\ rec.ready = 0 /\ rec.ended = 0 /\ rec.todo = {}
    BY <2>3
  <2>5. /\ run'[r] = rec
        /\ \A q \in Run \ {r} : run'[q] = run[q]
    BY <2>1, <2>2, <2>4 DEF Becomes, Placed
  <2>6. launch[t].pc = "pushing" /\ UNCHANGED <<state, sup_pc>>
    BY <1>9 DEF PushAccepted, sessionVars, supervisorVars
  <2>7. NoneHeard /\ state = "starting" /\ sup_pc = "launch"
    BY <2>6 DEF LonePass
  <2>8. launch'[Supervisor].pc = "accepted"
    BY <1>9, AcceptStep DEF Starts
  <2>9. \A q \in Run : Heard(q)' => q = r
    BY <2>5, <2>7 DEF Heard, Live, InFlight
  <2>10. LoneRun'
    BY <2>4, <2>5, <2>6, <2>7, <2>9 DEF LoneRun, Heard, Live, Loads, InFlight
  <2> QED
    BY <2>6, <2>7, <2>8, <2>10 DEF LoneInv, LonePass
<1>10. CASE PushReturns(t)
  <2>1. /\ launch[t].pc = "accepted"
        /\ LaunchDone(t)
        /\ state' = state
        /\ Becomes(launch[t].run, [run[launch[t].run] EXCEPT !.known = TRUE])
    BY <1>10 DEF PushReturns, sessionVars
  <2>2. PICK r \in Run : r = launch[t].run
    BY <2>1 DEF Inv, LaunchesBehind
  <2>3. PICK rec : rec = [run[r] EXCEPT !.known = TRUE]
    OBVIOUS
  <2>4. run[r] \in RunRecord
    OBVIOUS
  <2>5. /\ rec.status = run[r].status /\ rec.ready = run[r].ready /\ rec.ended = run[r].ended
        /\ rec.todo = run[r].todo
    BY <2>3, <2>4 DEF RunRecord
  <2>6. Becomes(r, rec)
    BY <2>1, <2>2, <2>3
  <2>7. NoLouder(r)
    BY <2>1, <2>5, <2>6, RunPlaces DEF NoLouder, Heard, Live, InFlight, Loads
  <2>8. LoneRun'
    BY <2>1, <2>5, <2>6, <2>7, RunPlaces, LoneRunKept DEF LoneRun, InFlight, Loads
  <2> QED
    BY <1>5, <2>1, <2>8 DEF LoneInv, LonePass
<1>11. CASE (\E detail \in ErrorDetail : PushGivenUp(t, detail)) \/ PushMadeAgain(t)
  BY <1>11 DEF PushGivenUp, PushMadeAgain, Alone
<1> QED
  BY <1>6, <1>7, <1>8, <1>9, <1>10, <1>11 DEF Launching

LEMMA LoneStep ==
    ASSUME Alone, Inv, LoneInv, [Next]_vars
    PROVE  LoneInv'
<1>1. ASSUME NEW r \in Run, Running(r) PROVE LoneInv'
  BY <1>1, LoneRunning, LonePassKept DEF LoneInv
<1>2. ASSUME NEW s \in Settings, PollStatus(s) \/ Restart(s) PROVE FALSE
  BY <1>2 DEF PollStatus, Restart, Alone
<1>3. CASE UNCHANGED vars
  BY <1>3, LoneRunStays, RunsStay
  DEF LoneInv, LonePass, NoneHeard, vars, sessionVars, supervisorVars
<1> QED
  BY <1>1, <1>2, <1>3, LoneSupervising, LoneLaunching DEF Next

LEMMA LoneInit == Init => LoneInv
<1> SUFFICES ASSUME Init PROVE LoneInv
  OBVIOUS
<1>1. \A r \in Run : /\ run[r].status = "absent" /\ run[r].ready = 0 /\ run[r].ended = 0
                     /\ run[r].todo = {}
  BY DEF Init, NoRun
<1>2. sup_pc = "wait" /\ \A t \in Thread : launch[t].pc = "idle"
  BY DEF Init, ProcessInit, NoLaunch
<1> QED
  BY <1>1, <1>2
  DEF LoneInv, LoneRun, LonePass, Heard, Live, InFlight, Loads, Thread

(* There are never two runs with a GPU to serve with at once, whatever     *)
(* pushes are refused or die and whenever Kaggle ends a run.               *)
THEOREM OneLiveRun == ASSUME Alone PROVE Spec => []AtMostOneLive
<1>1. Inv /\ LoneInv /\ [Next]_vars => LoneInv'
  BY LoneStep
<1>2. LoneInv => AtMostOneLive
  BY DEF LoneInv, LoneRun, Heard, AtMostOneLive
<1> QED
  BY <1>1, <1>2, LoneInit, Invariance, PTL DEF Spec

----------------------------------------------------------------------------
(* Every run still about is known to the process, but the one whose push   *)
(* has not come back.  No webhook needs to come for that.                  *)

(* The supervisor alone, with no lost answer and no restart; any other     *)
(* fault may show.                                                         *)
NothingForgotten ==
    /\ Users = {}
    /\ Faults \intersect {"restart", "lost_answer"} = {}

UnknownArePending ==
    \A r \in Run :
        run[r].status # "absent" /\ ~ run[r].known =>
            launch[Supervisor].pc = "accepted" /\ launch[Supervisor].run = r

StaysKnown(r) ==
    \/ run'[r].status = "absent"
    \/ run[r].status # "absent" /\ (run[r].known => run'[r].known)

LEMMA KnownRunning ==
    ASSUME Inv, NEW r \in Run, Running(r)
    PROVE  \A q \in Run : StaysKnown(q)
<1>1. run \in [Run -> RunRecord] /\ run[r] \in RunRecord
  BY TypeInParts DEF Inv, TypeParts
<1> DEFINE Later == UNION {Opens(run[r]), ComesUp(run[r]), FailsEarly(run[r]),
                           ShutsDown(run[r]), Exits(run[r]), FewerCalls(run[r], "ready"),
                           FewerCalls(run[r], "ended")}
<1>0. ASSUME NEW rec \in Later
      PROVE  rec.status # "absent" => run[r].status # "absent"
  <2>1. \/ run[r].status \in {"loading", "answering", "up", "stopping"}
        \/ rec.status = run[r].status
    BY <1>1, RunChanges DEF Exits, When
  <2> QED
    BY <2>1
<1>2. ASSUME NEW rec \in RunRecord, Becomes(r, rec),
             rec.status # "absent" => run[r].status # "absent",
             run[r].known => rec.known
      PROVE  \A q \in Run : StaysKnown(q)
  BY <1>1, <1>2, RunPlaces DEF StaysKnown
<1>3. CASE HandleReady(r) \/ HandleEnded(r)
  <2>1. PICK call \in HandlerCall, rec \in UNION {FewerCalls(run[r], path) : path \in Path} :
            Becomes(r, [rec EXCEPT !.known = TRUE, !.todo = @ \union {call}])
    BY <1>3 DEF HandleReady, HandleEnded, Handled, Path, HandlerCall
  <2>2. rec \in RunRecord /\ (rec.status # "absent" => run[r].status # "absent")
    BY <1>0, <1>1, <2>1, RunGoesOn DEF Path
  <2>3. PICK new : new = [rec EXCEPT !.known = TRUE, !.todo = @ \union {call}]
    OBVIOUS
  <2>4. new \in RunRecord /\ new.status = rec.status /\ new.known
    BY <2>1, <2>2, <2>3 DEF RunRecord
  <2>5. Becomes(r, new)
    BY <2>1, <2>3
  <2> QED
    BY <1>2, <2>2, <2>4, <2>5
<1>4. CASE HandlerGoesOn(r)
  <2>1. PICK call \in HandlerCall, others \in SUBSET HandlerCall :
            Becomes(r, [run[r] EXCEPT !.todo = (@ \ {call}) \union others])
    BY <1>4 DEF HandlerGoesOn, HandlerSucceeded, HandlerMarksReady, HandlerMarksEnded,
                HandlerCalls, HandlerCall
  <2>2. PICK new : new = [run[r] EXCEPT !.todo = (@ \ {call}) \union others]
    OBVIOUS
  <2>3. new \in RunRecord /\ new.status = run[r].status /\ new.known = run[r].known
    BY <1>1, <2>1, <2>2 DEF RunRecord
  <2>4. Becomes(r, new)
    BY <2>1, <2>2
  <2> QED
    BY <1>2, <2>3, <2>4
<1>5. CASE ~ (HandleReady(r) \/ HandleEnded(r) \/ HandlerGoesOn(r))
  <2>1. PICK rec \in Later \union Dies(run[r]) :
          /\ Becomes(r, rec)
          /\ rec \in Dies(run[r]) => rec \in Later \/ Active(r)
    BY <1>5 DEF Running, RunOpens, RunComesUp, RunFailsEarly, RunShutsDown, RunExits, RunKilled,
                LoseWebhook, Path
  <2>2. rec \in RunRecord /\ rec.known = run[r].known
    BY <1>1, <2>1, RunGoesOn
  <2>3. rec.status # "absent" => run[r].status # "absent"
    BY <1>0, <2>1 DEF Active
  <2> QED
    BY <1>2, <2>1, <2>2, <2>3
<1> QED
  BY <1>3, <1>4, <1>5

LEMMA UnknownStep ==
    ASSUME NothingForgotten, Inv, UnknownArePending, [Next]_vars
    PROVE  UnknownArePending'
<1>1. launch \in [Thread -> LaunchRecord] /\ run \in [Run -> RunRecord]
      /\ Thread = {Supervisor}
  BY TypeInParts DEF Inv, TypeParts, NothingForgotten, Thread
(* Where no push comes back and none is accepted there is nothing to show. *)
<1>s. ASSUME \A r \in Run : StaysKnown(r),
             launch[Supervisor].pc = "accepted" => launch'[Supervisor] = launch[Supervisor]
      PROVE  UnknownArePending'
  BY <1>s DEF UnknownArePending, StaysKnown
<1>2. ASSUME NEW r \in Run, Running(r) PROVE UnknownArePending'
  <2>1. UNCHANGED launch
    BY <1>2 DEF Running, RunOpens, RunComesUp, RunFailsEarly, RunShutsDown, RunExits, RunKilled,
                HandleReady, HandleEnded, Handled, HandlerGoesOn, HandlerSucceeded,
                HandlerMarksReady, HandlerMarksEnded, HandlerCalls, LoseWebhook
  <2> QED
    BY <1>2, <1>s, <2>1, KnownRunning
<1>3. CASE Supervising
  <2>1. CASE SupAdopt
    <3>1. UNCHANGED launch
      BY <2>1 DEF SupAdopt
    <3>2. ASSUME NEW r \in Run PROVE StaysKnown(r)
      <4>1. run[r] \in RunRecord
        BY <1>1
      <4>2. run'[r] = run[r] \/ (run[r].status # "absent" /\ run'[r] = [run[r] EXCEPT !.known = TRUE])
        BY <2>1 DEF SupAdopt
      <4> QED
        BY <4>1, <4>2 DEF StaysKnown, RunRecord
    <3> QED
      BY <1>s, <3>1, <3>2
  <2>2. CASE ClaimRefused
    BY <1>s, <2>2 DEF ClaimRefused, MayClaim, StaysKnown
  <2>3. CASE ~ SupAdopt /\ ~ ClaimRefused
    <3>1. UNCHANGED <<launch, run>>
      BY <1>3, <2>3
      DEF Supervising, SupSnapshot, SupSnapshotTimesOut, SupSeesStarting, SupSeesReady,
          SupSeesNoSession, SupProbe, SupHoldsOff, SupDecidesToLaunch, SupTunnelAnswers,
          SupTunnelMisses
    <3> QED
      BY <1>s, <3>1 DEF StaysKnown
  <2> QED
    BY <2>1, <2>2, <2>3
<1>4. ASSUME NEW t \in Thread, Launching(t) PROVE UnknownArePending'
  <2>1. t = Supervisor
    BY <1>1
  <2>2. CASE \/ Claim(t)
             \/ \E s \in Settings : PlanLaunch(t, s)
             \/ PlanFails(t)
             \/ \E detail \in ErrorDetail : PushRefused(t, detail)
             \/ PushRaises(t)
    <3>1. launch[t].pc # "accepted" /\ UNCHANGED run
      BY <2>2 DEF Claim, MayClaim, PlanLaunch, PlanFails, PushRefused, PushRaises
    <3> QED
      BY <1>s, <2>1, <3>1 DEF StaysKnown
  <2>3. CASE PushAccepted(t)
    <3>1. PICK r \in Run : Starts(t, r)
      BY <2>3, AcceptStep
    <3> QED
      BY <2>1, <3>1 DEF Starts, UnknownArePending
  <2>4. CASE PushReturns(t)
    <3>1. PICK r \in Run : r = launch[t].run
      BY <2>4 DEF PushReturns, Inv, LaunchesBehind
    <3>2. PICK rec : rec = [run[r] EXCEPT !.known = TRUE]
      OBVIOUS
    <3>3. Becomes(r, rec)
      BY <2>4, <3>1, <3>2 DEF PushReturns
    <3>4. rec.known
      BY <1>1, <3>2 DEF RunRecord
    <3>5. /\ run'[r].status = "absent" \/ run'[r].known
          /\ \A q \in Run \ {r} : run'[q] = run[q]
      BY <1>1, <3>3, <3>4, RunPlaces
    <3> QED
      BY <2>1, <3>1, <3>5 DEF UnknownArePending
  <2>5. CASE (\E detail \in ErrorDetail : PushGivenUp(t, detail)) \/ PushMadeAgain(t)
    BY <2>5 DEF PushGivenUp, PushMadeAgain, NothingForgotten
  <2> QED
    BY <1>4, <2>2, <2>3, <2>4, <2>5 DEF Launching
<1>5. ASSUME NEW s \in Settings, PollStatus(s) \/ Restart(s) PROVE FALSE
  BY <1>5 DEF PollStatus, Restart, NothingForgotten
<1>6. CASE UNCHANGED vars
  BY <1>6, <1>s DEF vars, StaysKnown
<1> QED
  BY <1>2, <1>3, <1>4, <1>5, <1>6 DEF Next

(* A launch gets a number above those of all runs still about: of the one  *)
(* just ended, of one whose end or start never was reported, and of one    *)
(* that was adopted.                                                       *)
THEOREM PlannedNumbersAreFresh == ASSUME NothingForgotten PROVE Spec => PlannedNumberIsFresh
<1>1. Init => UnknownArePending
  BY DEF Init, NoRun, UnknownArePending
<1>2. Inv /\ UnknownArePending /\ [Next]_vars => UnknownArePending'
  BY UnknownStep
<1>3. Inv /\ UnknownArePending /\ [Next]_vars =>
        [ \A t \in Thread : launch[t].pc = "claimed" /\ launch'[t].pc = "pushing" =>
              \A r \in Run :
                  run[r].status # "absent" => run[r].number < launch'[t].number ]_vars
  <2> SUFFICES ASSUME Inv, UnknownArePending, Next,
                      NEW t \in Thread, launch[t].pc = "claimed", launch'[t].pc = "pushing",
                      NEW r \in Run, run[r].status # "absent"
               PROVE  run[r].number < launch'[t].number
    OBVIOUS
  <2>1. t = Supervisor
    BY DEF Thread, NothingForgotten
  <2>2. run[r].known
    BY <2>1 DEF UnknownArePending
  <2>3. run[r].number < n
    BY <2>2 DEF Inv, KnownNumbersSpent
  <2>4. launch'[t].number = n
    BY <2>1, StepKinds DEF Ordinary, LaunchKept, Plans, Starts, Forgets, Thread, NothingForgotten
  <2> QED
    BY <2>3, <2>4
<1> QED
  BY <1>1, <1>2, <1>3, Invariance, PTL DEF Spec, PlannedNumberIsFresh

=============================================================================
