------------------------- MODULE KagglePush_proofs -------------------------
(***************************************************************************)
(* For any number of overlapping launches, accounts and attempts: no run   *)
(* reads stale secrets, and a launch's push implements PushLifecycle.      *)
(***************************************************************************)
EXTENDS KagglePush, TLAPS

USE DEF launchVars, kaggleVars, Goes

(* A launch sleeps only with another attempt to come.                      *)
SleepsToTryAgain == \A l \in Launch : pc[l] = "sleep" => attempt[l] < MaxAttempts

(* One more version of the dataset of account a.                           *)
LEMMA OneMoreVersion ==
    ASSUME NEW old \in [Account -> Seq(Launch)], NEW a \in Account, NEW l \in Launch,
           NEW new, new = [old EXCEPT ![a] = Append(@, l)]
    PROVE  /\ new \in [Account -> Seq(Launch)]
           /\ \A b \in Account : Len(old[b]) <= Len(new[b])
<1>1. PICK more \in Seq(Launch) : more = Append(old[a], l) /\ Len(more) = Len(old[a]) + 1
  <2>1. ASSUME NEW seq \in Seq(Launch)
        PROVE  Append(seq, l) \in Seq(Launch) /\ Len(Append(seq, l)) = Len(seq) + 1
    OBVIOUS
  <2>2. old[a] \in Seq(Launch)
    OBVIOUS
  <2> QED
    BY <2>1, <2>2, Zenon
<1>2. new = [old EXCEPT ![a] = more]
  BY <1>1
<1>3. ASSUME NEW b \in Account PROVE Len(old[b]) <= Len(new[b])
  <2>1. new[b] = IF b = a THEN more ELSE old[b]
    BY <1>2
  <2>2. Len(old[b]) \in Nat
    OBVIOUS
  <2> QED
    BY <1>1, <2>1, <2>2
<1> QED
  BY <1>2, <1>3

LEMMA TypeStep ==
    TypeOK /\ SleepsToTryAgain /\ [Next]_vars => TypeOK' /\ SleepsToTryAgain'
<1> SUFFICES ASSUME TypeOK, SleepsToTryAgain, [Next]_vars
             PROVE  TypeOK' /\ SleepsToTryAgain'
  OBVIOUS
<1> USE AttemptsAssumption DEF TypeOK, Pc, Outcome, SleepsToTryAgain
<1> DEFINE RunRecord == [status : {"none", "queued", "running", "gone"}, secrets : Nat]
<1>1. ASSUME NEW l \in Launch, Begins(l) PROVE TypeOK' /\ SleepsToTryAgain'
  BY <1>1 DEF Begins
<1>2. ASSUME NEW l \in Launch, StatusAnswers(l) PROVE TypeOK' /\ SleepsToTryAgain'
  BY <1>2 DEF StatusAnswers
<1>3. ASSUME NEW l \in Launch, DatasetTaken(l) PROVE TypeOK' /\ SleepsToTryAgain'
  <2>1. /\ versions \in [Account -> Seq(Launch)] /\ account[l] \in Account
        /\ versions' = [versions EXCEPT ![account[l]] = Append(@, l)]
    BY <1>3 DEF DatasetTaken
  <2>2. /\ versions' \in [Account -> Seq(Launch)]
        /\ \A a \in Account : Len(versions[a]) <= Len(versions'[a])
    BY <2>1, OneMoreVersion, Zenon
  <2>3. \A a \in Account : ready[a] <= Len(versions'[a])
    <3> TAKE a \in Account
    <3>1. ready[a] \in Nat /\ Len(versions[a]) \in Nat /\ Len(versions'[a]) \in Nat
      BY <2>2
    <3> QED
      BY <2>2, <3>1
  <2>4. pc' \in [Launch -> Pc] /\ \A k \in Launch : pc'[k] = "sleep" => pc[k] = "sleep"
    BY <1>3 DEF DatasetTaken
  <2> QED
    BY <1>3, <2>2, <2>3, <2>4 DEF DatasetTaken
<1>4. ASSUME NEW l \in Launch, DatasetNotTaken(l) \/ Prepares(l)
      PROVE  TypeOK' /\ SleepsToTryAgain'
  <2>1. /\ UNCHANGED <<account, exists, attempt, versions, ready, run>>
        /\ \E to \in {"failed", "push"} : pc' = [pc EXCEPT ![l] = to]
    BY <1>4 DEF DatasetNotTaken, Prepares
  <2>2. pc' \in [Launch -> Pc] /\ \A k \in Launch : pc'[k] = "sleep" => pc[k] = "sleep"
    BY <2>1
  <2> QED
    BY <2>1, <2>2
<1>5. ASSUME NEW l \in Launch, KernelTaken(l) PROVE TypeOK' /\ SleepsToTryAgain'
  <2>1. [NoRun EXCEPT !.status = "queued"] \in RunRecord
    BY DEF NoRun
  <2> HIDE DEF RunRecord
  <2>2. run' \in [Launch -> RunRecord]
    BY <1>5, <2>1 DEF KernelTaken, RunRecord
  <2>3. pc' \in [Launch -> Pc] /\ \A k \in Launch : pc'[k] = "sleep" => pc[k] = "sleep"
    BY <1>5 DEF KernelTaken
  <2>4. UNCHANGED <<account, exists, attempt, versions, ready>>
    BY <1>5 DEF KernelTaken
  <2> QED
    BY <2>2, <2>3, <2>4 DEF RunRecord
<1>6. ASSUME NEW l \in Launch, CallReturns(l) \/ KernelConflicts(l) \/ KernelFails(l)
      PROVE  TypeOK' /\ SleepsToTryAgain'
  BY <1>6 DEF CallReturns, KernelConflicts, KernelFails
<1>7. ASSUME NEW l \in Launch, TriesAgain(l) PROVE TypeOK' /\ SleepsToTryAgain'
  BY <1>7 DEF TriesAgain
<1>8. ASSUME NEW l \in Launch, Diagnosed(l) \/ Raises(l) PROVE TypeOK' /\ SleepsToTryAgain'
  BY <1>8 DEF Diagnosed, Raises
<1>9. ASSUME NEW a \in Account, VersionProcessed(a) PROVE TypeOK' /\ SleepsToTryAgain'
  BY <1>9 DEF VersionProcessed
<1>10. ASSUME NEW l \in Launch, RunStarts(l) \/ RunEnds(l)
       PROVE  TypeOK' /\ SleepsToTryAgain'
  <2>1. CASE RunStarts(l)
    <3>1. [run[l] EXCEPT !.status = "running", !.secrets = ready[account[l]]] \in RunRecord
      BY <2>1 DEF RunStarts
    <3> QED
      BY <2>1, <3>1 DEF RunStarts
  <2>2. CASE RunEnds(l)
    BY <1>10, <2>2 DEF RunEnds
  <2> QED
    BY <1>10, <2>1, <2>2
<1>11. CASE UNCHANGED vars
  BY <1>11 DEF vars
<1> QED
  BY <1>1, <1>2, <1>3, <1>4, <1>5, <1>6, <1>7, <1>8, <1>9, <1>10, <1>11 DEF Next, Returns
----------------------------------------------------------------------------
(* What was pushed stays, with whatever is appended after it.              *)
LEMMA VersionsStay ==
    ASSUME TypeOK, NEW l \in Launch, DatasetTaken(l), NEW a \in Account
    PROVE  /\ Len(versions[a]) \in Nat
           /\ Len(versions'[a]) \in Nat
           /\ Len(versions'[a]) >= Len(versions[a])
           /\ \A i \in 1..Len(versions[a]) : versions'[a][i] = versions[a][i]
           /\ a = account[l] => /\ Len(versions'[a]) = Len(versions[a]) + 1
                                /\ versions'[a][Len(versions'[a])] = l
<1> USE DEF TypeOK
<1>1. CASE a = account[l]
  <2>1. versions'[a] = Append(versions[a], l) /\ versions[a] \in Seq(Launch)
    BY <1>1 DEF DatasetTaken
  <2> QED
    BY <1>1, <2>1
<1>2. CASE a # account[l]
  <2>1. versions'[a] = versions[a]
    BY <1>2 DEF DatasetTaken
  <2> QED
    BY <1>2, <2>1
<1> QED
  BY <1>1, <1>2

----------------------------------------------------------------------------
(* Secrets.  Past the push of the dataset its version is there; and where  *)
(* a run is queued that version is processed, which no later push undoes.  *)
Holds(secrets, l, k) == \E i \in 1..k : secrets[i] = l

SecretsAreThere ==
    \A l \in Launch :
        /\ pc[l] \in {"kernel", "push", "taken", "sleep"} =>
               Holds(versions[account[l]], l, Len(versions[account[l]]))
        /\ run[l].status = "queued" => Holds(versions[account[l]], l, ready[account[l]])
        /\ run[l].status = "running" =>
               /\ run[l].secrets <= ready[account[l]]
               /\ Holds(versions[account[l]], l, run[l].secrets)

LEMMA HoldsOn ==
    ASSUME NEW s, NEW t, NEW l, NEW k \in Nat, NEW m \in Nat, k <= m,
           \A j \in 1..k : t[j] = s[j], Holds(s, l, k)
    PROVE  Holds(t, l, m)
<1>1. PICK i \in 1..k : s[i] = l
  BY DEF Holds
<1>2. i \in 1..m /\ t[i] = l
  BY <1>1
<1> QED
  BY <1>2 DEF Holds

LEMMA SecretsStep ==
    TypeOK /\ SecretsAreThere /\ [Next]_vars => SecretsAreThere'
<1> SUFFICES ASSUME TypeOK, SecretsAreThere, [Next]_vars,
                    NEW k \in Launch
             PROVE  (/\ pc[k] \in {"kernel", "push", "taken", "sleep"} =>
                          Holds(versions[account[k]], k, Len(versions[account[k]]))
                     /\ run[k].status = "queued" =>
                          Holds(versions[account[k]], k, ready[account[k]])
                     /\ run[k].status = "running" =>
                          /\ run[k].secrets <= ready[account[k]]
                          /\ Holds(versions[account[k]], k, run[k].secrets))'
  BY DEF SecretsAreThere
<1> DEFINE a == account[k]
           Goal == (/\ pc[k] \in {"kernel", "push", "taken", "sleep"} =>
                          Holds(versions[a], k, Len(versions[a]))
                    /\ run[k].status = "queued" => Holds(versions[a], k, ready[a])
                    /\ run[k].status = "running" =>
                          /\ run[k].secrets <= ready[a]
                          /\ Holds(versions[a], k, run[k].secrets))'
<1> SUFFICES Goal
  OBVIOUS
<1>1. /\ a \in Account
      /\ ready[a] \in Nat
      /\ ready[a] <= Len(versions[a])
      /\ versions[a] \in Seq(Launch)
      /\ Len(versions[a]) \in Nat
      /\ run[k].secrets \in Nat
  BY DEF TypeOK
<1>2. /\ pc[k] \in {"kernel", "push", "taken", "sleep"} => Holds(versions[a], k, Len(versions[a]))
      /\ run[k].status = "queued" => Holds(versions[a], k, ready[a])
      /\ run[k].status = "running" => /\ run[k].secrets <= ready[a]
                                      /\ Holds(versions[a], k, run[k].secrets)
  BY DEF SecretsAreThere
<1>3. ASSUME NEW l \in Launch, DatasetTaken(l) PROVE Goal
  <2>1. account' = account /\ run' = run /\ ready' = ready
    BY <1>3 DEF DatasetTaken
  <2>2. /\ Len(versions'[a]) \in Nat
        /\ Len(versions'[a]) >= Len(versions[a])
        /\ \A j \in 1..Len(versions[a]) : versions'[a][j] = versions[a][j]
    BY <1>1, <1>3, VersionsStay
  <2>3. ASSUME NEW m \in Nat, m <= Len(versions[a]), Holds(versions[a], k, m)
        PROVE  Holds(versions'[a], k, m) /\ Holds(versions'[a], k, Len(versions'[a]))
    <3>1. \A j \in 1..m : versions'[a][j] = versions[a][j]
      BY <1>1, <2>2, <2>3
    <3>2. m <= Len(versions'[a]) /\ m <= m
      BY <1>1, <2>2, <2>3
    <3>3. Holds(versions'[a], k, m)
      BY <2>3, <3>1, <3>2, HoldsOn
    <3>4. Holds(versions'[a], k, Len(versions'[a]))
      BY <2>2, <2>3, <3>1, <3>2, HoldsOn
    <3> QED
      BY <3>3, <3>4
  <2>4. CASE k = l
    <3>1. /\ Len(versions'[a]) = Len(versions[a]) + 1
          /\ versions'[a][Len(versions'[a])] = k
      BY <1>1, <1>3, <2>4, VersionsStay
    <3>2. Holds(versions'[a], k, Len(versions'[a]))
      BY <1>1, <3>1 DEF Holds
    <3> QED
      BY <1>1, <1>2, <2>1, <2>3, <3>2
  <2>5. CASE k # l
    <3>1. pc'[k] = pc[k]
      BY <1>3, <2>5 DEF DatasetTaken, TypeOK
    <3> QED
      BY <1>1, <1>2, <2>1, <2>3, <3>1
  <2> QED
    BY <2>4, <2>5
<1>4. ASSUME NEW l \in Launch, KernelTaken(l) PROVE Goal
  <2>1. UNCHANGED <<account, versions, ready>>
    BY <1>4 DEF KernelTaken
  <2>2. CASE k = l
    <3>1. pc[k] = "push" /\ ready[a] >= Len(versions[a])
      BY <1>1, <1>4, <2>2 DEF KernelTaken, Processing
    <3>2. ready[a] = Len(versions[a]) /\ Holds(versions[a], k, ready[a])
      BY <1>1, <1>2, <3>1
    <3>3. run'[k].status = "queued" /\ pc'[k] = "taken"
      BY <1>4, <2>2 DEF KernelTaken, TypeOK, NoRun
    <3> QED
      BY <2>1, <3>2, <3>3
  <2>3. CASE k # l
    <3>1. run'[k] = run[k] /\ pc'[k] = pc[k]
      BY <1>4, <2>3 DEF KernelTaken, TypeOK
    <3> QED
      BY <1>2, <2>1, <3>1
  <2> QED
    BY <2>2, <2>3
<1>5. ASSUME NEW b \in Account, VersionProcessed(b) PROVE Goal
  <2>1. UNCHANGED <<account, versions, pc, run>>
    BY <1>5 DEF VersionProcessed
  <2>2. ready'[a] \in Nat /\ ready'[a] >= ready[a]
    BY <1>1, <1>5 DEF VersionProcessed, TypeOK
  <2>3. Holds(versions[a], k, ready[a]) => Holds(versions[a], k, ready'[a])
    BY <1>1, <2>2, HoldsOn
  <2> QED
    BY <1>1, <1>2, <2>1, <2>2, <2>3
<1>6. ASSUME NEW l \in Launch, RunStarts(l) PROVE Goal
  <2>1. UNCHANGED <<account, versions, ready, pc>>
    BY <1>6 DEF RunStarts
  <2>2. CASE k = l
    <3>1. run[k].status = "queued"
      BY <1>6, <2>2 DEF RunStarts
    <3>2. run'[k].status = "running" /\ run'[k].secrets = ready[a]
      BY <1>6, <2>2, <3>1 DEF RunStarts, TypeOK
    <3> QED
      BY <1>1, <1>2, <2>1, <3>1, <3>2
  <2>3. CASE k # l
    <3>1. run'[k] = run[k]
      BY <1>6, <2>3 DEF RunStarts, TypeOK
    <3> QED
      BY <1>2, <2>1, <3>1
  <2> QED
    BY <2>2, <2>3
<1>7. ASSUME NEW l \in Launch, RunEnds(l) PROVE Goal
  <2>1. UNCHANGED <<account, versions, ready, pc>>
    BY <1>7 DEF RunEnds
  <2>2. run'[k] = run[k] \/ run'[k].status = "gone"
    BY <1>7 DEF RunEnds, TypeOK
  <2> QED
    BY <1>2, <2>1, <2>2
<1>8. ASSUME UNCHANGED <<account, versions, ready, run>>,
             pc'[k] \in {"kernel", "push", "taken", "sleep"} => pc[k] \in {"kernel", "push", "taken", "sleep"}
      PROVE  Goal
  BY <1>2, <1>8
<1>9. ASSUME NEW l \in Launch,
             \/ Begins(l)
             \/ StatusAnswers(l)
             \/ DatasetNotTaken(l)
             \/ Prepares(l)
             \/ CallReturns(l)
             \/ KernelConflicts(l)
             \/ KernelFails(l)
             \/ TriesAgain(l)
             \/ Diagnosed(l)
             \/ Raises(l)
      PROVE  Goal
  <2>1. /\ UNCHANGED <<account, versions, ready, run>>
        /\ \E to \in Pc : /\ pc' = [pc EXCEPT ![l] = to]
                          /\ to \in {"kernel", "push", "taken", "sleep"} =>
                                 pc[l] \in {"kernel", "push", "taken", "sleep"}
    BY <1>9
    DEF Begins, StatusAnswers, DatasetNotTaken, Prepares, CallReturns, KernelConflicts,
        Conflicts, KernelFails, TriesAgain, Diagnosed, Raises, Pc, Outcome
  <2>2. pc'[k] \in {"kernel", "push", "taken", "sleep"} => pc[k] \in {"kernel", "push", "taken", "sleep"}
    BY <2>1 DEF TypeOK
  <2> QED
    BY <1>8, <2>1, <2>2
<1>10. CASE UNCHANGED vars
  BY <1>8, <1>10 DEF vars
<1> QED
  BY <1>3, <1>4, <1>5, <1>6, <1>7, <1>9, <1>10 DEF Next, Returns

----------------------------------------------------------------------------
(* The inductive invariant, of its three parts.                            *)
Inv ==
    /\ TypeOK
    /\ SleepsToTryAgain
    /\ SecretsAreThere

LEMMA InvInit == Init => Inv
<1> SUFFICES ASSUME Init PROVE Inv
  OBVIOUS
<1> USE DEF Init, NoRun
<1>1. TypeOK
  <2>1. \A a \in Account : versions[a] \in Seq(Launch) /\ Len(versions[a]) = 0
    OBVIOUS
  <2>2. versions \in [Account -> Seq(Launch)]
    BY <2>1
  <2> QED
    BY <2>1, <2>2, AttemptsAssumption DEF TypeOK, Pc, Outcome
<1> QED
  BY <1>1 DEF Inv, SleepsToTryAgain, SecretsAreThere

THEOREM Invariance == Spec => []Inv
<1>1. Inv /\ [Next]_vars => Inv'
  BY TypeStep, SecretsStep DEF Inv
<1> QED
  BY InvInit, <1>1, PTL DEF Spec

(* Whatever two launches do at once, no value leaves its type, and no push *)
(* is tried more than MaxAttempts times.                                   *)
THEOREM TypeCorrect == Spec => []TypeOK
<1>1. Inv => TypeOK
  BY DEF Inv
<1> QED
  BY <1>1, Invariance, PTL

(* No run reads secrets older than those of its own launch, however pushes *)
(* overlap: the 409 of a dataset in processing is what guarantees it.      *)
THEOREM SecretsAreFresh == Spec => []NoStaleSecrets
<1>1. Inv => NoStaleSecrets
  BY DEF Inv, SecretsAreThere, Holds, NoStaleSecrets
<1> QED
  BY <1>1, Invariance, PTL

----------------------------------------------------------------------------
(* The refinement.  A step of launch l moves its own phase at most; and    *)
(* only the kernel's acceptance and Kaggle move the set of active runs.    *)
PhaseOf == [l \in Launch |-> Phase(l)]

Active == {l \in Launch : run[l].status \in {"queued", "running"}}

LEMMA PhaseStep ==
    ASSUME TypeOK, NEW l \in Launch, NEW to, pc' = [pc EXCEPT ![l] = to]
    PROVE  PhaseOf' = [PhaseOf EXCEPT ![l] = IF to = "taken" THEN "accepted"
                                             ELSE IF to \in Outcome THEN to ELSE "pushing"]
BY DEF TypeOK, PhaseOf, Phase

LEMMA PushStep == TypeOK /\ [Next]_vars => [Push!Next]_(Push!vars)
<1> SUFFICES ASSUME TypeOK, [Next]_vars
             PROVE  Push!Next \/ UNCHANGED <<account, PhaseOf, Active>>
  BY DEF Push!vars, PhaseOf, Active
<1>1. ASSUME NEW l \in Launch, KernelTaken(l) PROVE Push!PushAccepted(l)
  <2>1. PhaseOf' = [PhaseOf EXCEPT ![l] = "accepted"] /\ PhaseOf[l] = "pushing"
    BY <1>1, PhaseStep DEF KernelTaken, PhaseOf, Phase, Outcome
  <2>2. \A k \in Active : account[k] # account[l]
    BY <1>1 DEF KernelTaken, Busy, Active
  <2>3. Active' = Active \union {l}
    BY <1>1 DEF KernelTaken, Active, NoRun, TypeOK
  <2> QED
    BY <1>1, <2>1, <2>2, <2>3 DEF KernelTaken, Push!PushAccepted, Push!From, PhaseOf, Active
<1>2. ASSUME NEW l \in Launch, RunEnds(l) PROVE Push!RunEnds(l)
  <2>1. l \in Active /\ Active' = Active \ {l} /\ PhaseOf' = PhaseOf /\ account' = account
    BY <1>2 DEF RunEnds, Active, PhaseOf, Phase, TypeOK
  <2> QED
    BY <2>1 DEF Push!RunEnds, PhaseOf, Active
<1>3. ASSUME NEW l \in Launch, RunStarts(l) PROVE UNCHANGED <<account, PhaseOf, Active>>
  BY <1>3 DEF RunStarts, Active, PhaseOf, Phase, TypeOK
<1>4. ASSUME NEW l \in Launch, CallReturns(l) PROVE Push!PushReturns(l)
  <2>1. PhaseOf' = [PhaseOf EXCEPT ![l] = "launched"] /\ PhaseOf[l] = "accepted"
    BY <1>4, PhaseStep DEF CallReturns, PhaseOf, Phase, Outcome
  <2>2. Active' = Active /\ account' = account
    BY <1>4 DEF CallReturns, Active
  <2> QED
    BY <2>1, <2>2 DEF Push!PushReturns, Push!From, PhaseOf, Active
<1>5. ASSUME NEW l \in Launch,
             \/ DatasetTaken(l)
             \/ DatasetNotTaken(l)
             \/ Prepares(l)
             \/ KernelConflicts(l)
             \/ KernelFails(l)
             \/ TriesAgain(l)
             \/ Diagnosed(l)
             \/ Raises(l)
      PROVE  \/ Push!PushRefused(l)
             \/ Push!PushGivenUp(l)
             \/ Push!PushMadeAgain(l)
             \/ Push!PushRaises(l)
             \/ UNCHANGED <<account, PhaseOf, Active>>
  <2>1. Active' = Active /\ account' = account
    BY <1>5
    DEF DatasetTaken, DatasetNotTaken, Prepares, KernelConflicts, KernelFails, TriesAgain,
        Diagnosed, Raises, Active
  <2>2. PICK to \in Pc \ {"taken", "launched"} :
            /\ pc' = [pc EXCEPT ![l] = to]
            /\ pc[l] \notin Outcome
            /\ to = "raised" => pc[l] # "taken"
    BY <1>5
    DEF DatasetTaken, DatasetNotTaken, Prepares, KernelConflicts, KernelFails, TriesAgain,
        Diagnosed, Raises, Conflicts, Pc, Outcome
  <2>3. PICK after \in {"pushing", "conflict", "failed", "raised"} :
            /\ PhaseOf' = [PhaseOf EXCEPT ![l] = after]
            /\ after = "raised" => pc[l] # "taken"
    BY <2>2, PhaseStep DEF Outcome
  <2>4. PhaseOf[l] = IF pc[l] = "taken" THEN "accepted" ELSE "pushing"
    BY <2>2 DEF PhaseOf, Phase
  <2>5. PhaseOf[l] = after => PhaseOf' = PhaseOf
    BY <2>3 DEF PhaseOf
  <2> QED
    BY <2>1, <2>3, <2>4, <2>5
    DEF Push!PushRefused, Push!PushGivenUp, Push!PushMadeAgain, Push!PushRaises, Push!From,
        PhaseOf, Active
<1>6. ASSUME NEW l \in Launch, Begins(l) \/ StatusAnswers(l)
      PROVE  UNCHANGED <<account, PhaseOf, Active>>
  BY <1>6 DEF Begins, StatusAnswers, Active, PhaseOf, Phase, TypeOK, Outcome
<1>7. ASSUME NEW a \in Account, VersionProcessed(a)
      PROVE  UNCHANGED <<account, PhaseOf, Active>>
  BY <1>7 DEF VersionProcessed, Active, PhaseOf, Phase
<1>8. CASE UNCHANGED vars
  BY <1>8 DEF vars, Active, PhaseOf, Phase
<1> QED
  BY <1>1, <1>2, <1>3, <1>4, <1>5, <1>6, <1>7, <1>8 DEF Next, Returns, Push!Next

(* Any number of overlapping launches, with whatever answers are lost:     *)
(* each push does what the rest of the backend takes a push to do.         *)
THEOREM PushImplemented == Spec => ImplementsPush
<1>1. Init => Push!Init
  BY DEF Init, NoRun, Push!Init, Phase, Outcome
<1>2. Inv /\ [Next]_vars => [Push!Next]_(Push!vars)
  BY PushStep DEF Inv
<1> QED
  BY <1>1, <1>2, Invariance, PTL DEF Spec, ImplementsPush, Push!Spec

=============================================================================
