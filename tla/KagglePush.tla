----------------------------- MODULE KagglePush -----------------------------
(***************************************************************************)
(* kaggle_client.py: what _launch_session() does on Kaggle.  A launch      *)
(* pushes a version of its account's private dataset, with the secrets and *)
(* the launch number in it, and then the kernel, which starts a run that   *)
(* reads the dataset.  Launches overlap when a claim times out during its  *)
(* push.  A step is one call of the kaggle CLI, the answer to one, or what *)
(* lies between two of them.  Each call carries its account's credentials  *)
(* in its environment, so it acts on account[l]; kaggle.json, which is     *)
(* written too, is not read then and is left out.                          *)
(***************************************************************************)
EXTENDS Naturals, Sequences

CONSTANTS
    Launch,         \* the launches
    Account,        \* the accounts they are planned on
    MaxAttempts     \* max_attempts of push_kernel

ASSUME AttemptsAssumption == MaxAttempts \in Nat \ {0}

VARIABLES
    account,        \* launch -> the account it was planned on
    pc,             \* launch -> where it is, in the end its outcome
    exists,         \* launch -> what _dataset_exists() returned
    attempt,        \* launch -> attempt of push_kernel
    versions,       \* account -> the launches whose secrets its dataset got
    ready,          \* account -> how many of the versions are processed
    run             \* launch -> the run it started last, or NoRun

launchVars == <<account, pc, exists, attempt>>
kaggleVars == <<versions, ready, run>>

vars == <<launchVars, kaggleVars>>

(* What _launch_session() gets: the push was accepted; KagglePushError for *)
(* a 409, or for any other reason; another exception.                      *)
Outcome == {"launched", "conflict", "failed", "raised"}

(* "taken": Kaggle has queued the run, the call is still to be answered.   *)
Pc == {"planned", "status", "dataset", "kernel", "push", "taken", "sleep", "diagnose"}
          \union Outcome

NoRun == [status |-> "none", secrets |-> 0]

TypeOK ==
    /\ account \in [Launch -> Account]
    /\ pc \in [Launch -> Pc]
    /\ exists \in [Launch -> BOOLEAN]
    /\ attempt \in [Launch -> 1..MaxAttempts]
    /\ versions \in [Account -> Seq(Launch)]
    /\ ready \in [Account -> Nat]
    /\ \A a \in Account : ready[a] <= Len(versions[a])
    /\ run \in [Launch -> [status : {"none", "queued", "running", "gone"}, secrets : Nat]]

Init ==
    /\ account \in [Launch -> Account]
    /\ pc = [l \in Launch |-> "planned"]
    /\ exists = [l \in Launch |-> FALSE]
    /\ attempt = [l \in Launch |-> 1]
    /\ versions = [a \in Account |-> <<>>]
    /\ ready = [a \in Account |-> 0]
    /\ run = [l \in Launch |-> NoRun]

----------------------------------------------------------------------------

Goes(l, to) == pc' = [pc EXCEPT ![l] = to]

(* push_secrets_dataset().                                                 *)

Begins(l) ==
    /\ pc[l] = "planned"
    /\ Goes(l, "status")
    /\ UNCHANGED <<account, exists, attempt, kaggleVars>>

(* `kaggle datasets status`: any failure is taken for "there is none".     *)
StatusAnswers(l) ==
    /\ pc[l] = "status"
    /\ \E answer \in {FALSE, versions[account[l]] # <<>>} :
           exists' = [exists EXCEPT ![l] = answer]
    /\ Goes(l, "dataset")
    /\ UNCHANGED <<account, attempt, kaggleVars>>

(* `datasets create` needs that there is no dataset yet, `datasets         *)
(* version` that there is; the call may be given up though it is taken.    *)
DatasetTaken(l) ==
    /\ pc[l] = "dataset"
    /\ exists[l] <=> versions[account[l]] # <<>>
    /\ versions' = [versions EXCEPT ![account[l]] = Append(@, l)]
    /\ \E next \in {"kernel", "failed"} : Goes(l, next)
    /\ UNCHANGED <<account, exists, attempt, ready, run>>

(* Mutant: the launch goes on with the dataset as it is.                   *)
DatasetNotTakenIgnored(l) ==
    /\ pc[l] = "dataset"
    /\ \E next \in {"kernel", "failed"} : Goes(l, next)
    /\ UNCHANGED <<account, exists, attempt, kaggleVars>>

DatasetNotTaken(l) ==
    /\ pc[l] = "dataset"
    /\ Goes(l, "failed")
    /\ UNCHANGED <<account, exists, attempt, kaggleVars>>

----------------------------------------------------------------------------
(* push_kernel().                                                          *)

(* The copy with the account's kernel id and dataset; without a            *)
(* kernel-metadata.json there is nothing to push.                          *)
Prepares(l) ==
    /\ pc[l] = "kernel"
    /\ \E next \in {"push", "failed"} : Goes(l, next)
    /\ UNCHANGED <<account, exists, attempt, kaggleVars>>

Busy(a) == \E l \in Launch : run[l].status \in {"queued", "running"} /\ account[l] = a

Processing(a) == ready[a] < Len(versions[a])

(* Kaggle queues the run.                                                  *)
KernelTaken(l) ==
    /\ pc[l] = "push"
    /\ ~ Busy(account[l])
    /\ ~ Processing(account[l])
    /\ run' = [run EXCEPT ![l] = [NoRun EXCEPT !.status = "queued"]]
    /\ Goes(l, "taken")
    /\ UNCHANGED <<account, exists, attempt, versions, ready>>

CallReturns(l) ==
    /\ pc[l] = "taken"
    /\ Goes(l, "launched")
    /\ UNCHANGED <<account, exists, attempt, kaggleVars>>

(* A 409: the run before is still active, the dataset is not processed     *)
(* yet; or the push was taken, its answer lost, and the request repeated.  *)
Conflicts(l) ==
    \/ pc[l] = "push" /\ (Busy(account[l]) \/ Processing(account[l]))
    \/ pc[l] = "taken"

(* Mutant: one attempt too many.                                           *)
KernelConflictsOnceMore(l) ==
    /\ Conflicts(l)
    /\ Goes(l, IF attempt[l] <= MaxAttempts THEN "sleep" ELSE "diagnose")
    /\ UNCHANGED <<account, exists, attempt, kaggleVars>>

KernelConflicts(l) ==
    /\ Conflicts(l)
    /\ Goes(l, IF attempt[l] < MaxAttempts THEN "sleep" ELSE "diagnose")
    /\ UNCHANGED <<account, exists, attempt, kaggleVars>>

(* Mutant: the exit code of the call is not looked at.                     *)
KernelFailsUnchecked(l) ==
    /\ pc[l] \in {"push", "taken"}
    /\ \E next \in {"launched", "failed"} : Goes(l, next)
    /\ UNCHANGED <<account, exists, attempt, kaggleVars>>

(* Any other exit code, or a timeout: of a push that was refused, or did   *)
(* not get through, or was taken without the answer getting back.          *)
KernelFails(l) ==
    /\ pc[l] \in {"push", "taken"}
    /\ Goes(l, "failed")
    /\ UNCHANGED <<account, exists, attempt, kaggleVars>>

(* Mutant: the attempts are not counted.                                   *)
TriesAgainUncounted(l) ==
    /\ pc[l] = "sleep"
    /\ Goes(l, "push")
    /\ UNCHANGED <<account, exists, attempt, kaggleVars>>

TriesAgain(l) ==
    /\ pc[l] = "sleep"
    /\ attempt' = [attempt EXCEPT ![l] = @ + 1]
    /\ Goes(l, "push")
    /\ UNCHANGED <<account, exists, kaggleVars>>

(* _kernel_status() for the error message: it has a timeout, and nothing   *)
(* it raises gets out.                                                     *)
Diagnosed(l) ==
    /\ pc[l] = "diagnose"
    /\ Goes(l, "conflict")
    /\ UNCHANGED <<account, exists, attempt, kaggleVars>>

(* The CLI is missing, the copy cannot be made: no KagglePushError.        *)
Raises(l) ==
    /\ pc[l] \in {"status", "dataset", "kernel", "push"}
    /\ Goes(l, "raised")
    /\ UNCHANGED <<account, exists, attempt, kaggleVars>>

----------------------------------------------------------------------------
(* Kaggle.                                                                 *)

VersionProcessed(a) ==
    /\ Processing(a)
    /\ ready' = [ready EXCEPT ![a] = Len(versions[a])]
    /\ UNCHANGED <<launchVars, versions, run>>

(* The run mounts the latest version of the dataset there is by then.      *)
RunStarts(l) ==
    /\ run[l].status = "queued"
    /\ run' = [run EXCEPT ![l].status = "running", ![l].secrets = ready[account[l]]]
    /\ UNCHANGED <<launchVars, versions, ready>>

RunEnds(l) ==
    /\ run[l].status \in {"queued", "running"}
    /\ run' = [run EXCEPT ![l].status = "gone"]
    /\ UNCHANGED <<launchVars, versions, ready>>

Returns(l) ==
    \/ DatasetTaken(l)
    \/ DatasetNotTaken(l)
    \/ Prepares(l)
    \/ KernelTaken(l)
    \/ CallReturns(l)
    \/ KernelConflicts(l)
    \/ KernelFails(l)
    \/ TriesAgain(l)
    \/ Diagnosed(l)
    \/ Raises(l)

Next ==
    \/ \E l \in Launch : Begins(l) \/ StatusAnswers(l) \/ Returns(l)
    \/ \E a \in Account : VersionProcessed(a)
    \/ \E l \in Launch : RunStarts(l) \/ RunEnds(l)

Spec == Init /\ [][Next]_vars

(* Every call has a timeout but `datasets status`, which may hang; Kaggle  *)
(* may keep a dataset in processing, and a run active, for ever.           *)
FairSpec == Spec /\ \A l \in Launch : WF_vars(Returns(l))

----------------------------------------------------------------------------

(* A run never reads secrets older than those of its own launch: the       *)
(* kernel is not pushed when the dataset was not, and Kaggle's 409 keeps   *)
(* it away until the version is processed.                                 *)
NoStaleSecrets ==
    \A l \in Launch : run[l].status = "running" =>
        \E i \in 1 .. run[l].secrets : versions[account[l]][i] = l

(* Through all its calls, retries and lost answers, a launch's push is     *)
(* what the rest of the backend takes it to be: a run starts only while    *)
(* the launch is still pushing and its account has none, and the launch is *)
(* told so, by which the counter goes, only if one did.                    *)
Phase(l) ==
    IF pc[l] = "taken" THEN "accepted" ELSE IF pc[l] \in Outcome THEN pc[l] ELSE "pushing"

Push == INSTANCE PushLifecycle WITH
    phase <- [l \in Launch |-> Phase(l)],
    active <- {l \in Launch : run[l].status \in {"queued", "running"}}

ImplementsPush == Push!Spec

(* Once past `datasets status` a launch comes to an end, however often     *)
(* Kaggle answers 409.                                                     *)
PushReturns ==
    \A l \in Launch : pc[l] = "dataset" ~> pc[l] \in Outcome

=============================================================================
