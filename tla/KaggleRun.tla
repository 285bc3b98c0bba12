----------------------------- MODULE KaggleRun -----------------------------
(***************************************************************************)
(* One run of serve.py on Kaggle, reduced to what its backend can see of   *)
(* it: whether it answers /health through the tunnel, and how often each   *)
(* of its two webhooks may still be handled.  An operator takes the run as *)
(* it is to the set of what the step makes of it, which is empty where the *)
(* step cannot be taken.  AlwaysOn makes its runs of them, whatever else a *)
(* record of its holds; RunLifecycle says what the life of one run is, and *)
(* ServeRun implements it.                                                 *)
(***************************************************************************)
EXTENDS Naturals

CONSTANT Copies     \* the most often that one webhook is handled

ASSUME CopiesAssumption == Copies \in Nat \ {0}

(* A run loads its models; answers once its server and tunnel are open;    *)
(* is up once it has found itself so, and reports ready; is stopping once  *)
(* it reports its end; is gone.                                            *)
RunStatus == {"loading", "answering", "up", "stopping", "gone"}

Path == {"ready", "ended"}

RunTypeOK(run) ==
    run.status \in RunStatus /\ run.ready \in 0..Copies /\ run.ended \in 0..Copies

When(condition, results) == IF condition THEN results ELSE {}

(* The tunnel and the server are open a grace period before the report.    *)
Opens(run) ==
    When(run.status = "loading", {[run EXCEPT !.status = "answering"]})

ComesUp(run) ==
    When(run.status = "answering", {[run EXCEPT !.status = "up", !.ready = Copies]})

Reports(run) == [run EXCEPT !.status = "stopping", !.ended = Copies]

(* The models, the tunnel or the server fail: "ended" without "ready".     *)
FailsEarly(run) == When(run.status \in {"loading", "answering"}, {Reports(run)})

(* Scheduled restart, idle timeout or a dead tunnel.                       *)
ShutsDown(run) == When(run.status = "up", {Reports(run)})

Exits(run) == When(run.status = "stopping", {[run EXCEPT !.status = "gone"]})

(* Kaggle ends the run, or the script leaves without a word.               *)
Dies(run) == When(run.status # "gone", {[run EXCEPT !.status = "gone"]})

(* A call is handled, or turned out for nothing; the retries still to come *)
(* may be spared by it.                                                    *)
FewerCalls(run, path) == {[run EXCEPT ![path] = c] : c \in 0 .. run[path] - 1}

=============================================================================
