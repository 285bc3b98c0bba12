------------------------ MODULE SessionManager_proofs ------------------------
(***************************************************************************)
(* The session record is well typed, its stamps always tell a possible     *)
(* history, and it implements the life cycle without stamps, for every     *)
(* clock, start timeout and uptime.                                        *)
(***************************************************************************)
EXTENDS SessionManager, TLAPS

USE DEF Lifecycle!SessionState, Lifecycle!ErrorDetail, Lifecycle!Claimed, Time

(* Every call, and the passing of time, leaves the fields well typed.      *)
LEMMA TypeStep == TypeOK /\ [Next]_vars => TypeOK'
<1> SUFFICES ASSUME TypeOK, [Next]_vars PROVE TypeOK'
  OBVIOUS
<1> USE DEF TypeOK
<1>1. CASE BeginStart
  BY <1>1 DEF BeginStart, Lifecycle!TryBeginStart
<1>2. CASE MarkReady
  BY <1>2 DEF MarkReady, Lifecycle!MarkReady
<1>3. CASE MarkEnded
  BY <1>3 DEF MarkEnded, Lifecycle!MarkEnded
<1>4. ASSUME NEW detail \in Lifecycle!ErrorDetail, MarkError(detail)
      PROVE  TypeOK'
  BY <1>4 DEF MarkError, Lifecycle!MarkError
<1>5. ASSUME NEW uptime \in Uptimes, AdoptRunning(uptime)
      PROVE  TypeOK'
  <2>1. now - uptime \in Int
    BY UptimesAssumption
  <2> QED
    BY <1>5, <2>1 DEF AdoptRunning, Lifecycle!AdoptRunning, Lifecycle!sessionVars
<1>6. CASE ResetToIdle
  BY <1>6 DEF ResetToIdle, Lifecycle!ResetToIdle
<1>7. CASE Read
  BY <1>7 DEF Read, MaybeTimeout, Lifecycle!MarkError
<1>8. CASE Tick
  BY <1>8, MaxClockAssumption DEF Tick
<1>9. CASE UNCHANGED vars
  BY <1>9 DEF vars
<1> QED
  BY <1>1, <1>2, <1>3, <1>4, <1>5, <1>6, <1>7, <1>8, <1>9 DEF Next

(* Type correctness: whatever order the calls come in, every field of the  *)
(* record holds a value session_manager.py gives it.                       *)
THEOREM TypeCorrect == Spec => []TypeOK
<1>1. Init => TypeOK
  BY MaxClockAssumption DEF Init, TypeOK, Lifecycle!SessionInit
<1> QED
  BY <1>1, TypeStep, PTL DEF Spec

(* The three invariants of the record.  Each is inductive once the others  *)
(* and the types are known: StampsInOrder leans on StartingIsFresh's reset *)
(* of the stamps, which StateHasEvidence keeps from losing an evidence.    *)
IInv == TypeOK /\ StartingIsFresh /\ StateHasEvidence /\ StampsInOrder

USE DEF NotAfter

LEMMA InvInit == Init => IInv
BY MaxClockAssumption, NoneAssumption
DEF Init, IInv, TypeOK, StartingIsFresh, StateHasEvidence, StampsInOrder,
    Lifecycle!SessionInit

(* No call, and no passing of time, breaks the record.                     *)
LEMMA InvStep == IInv /\ [Next]_vars => IInv'
<1> SUFFICES ASSUME IInv, [Next]_vars PROVE (StartingIsFresh /\ StateHasEvidence /\ StampsInOrder)'
  BY TypeStep DEF IInv
<1> USE NoneAssumption, DetailAssumption
    DEF IInv, TypeOK, StartingIsFresh, StateHasEvidence, StampsInOrder
<1>1. CASE BeginStart
  BY <1>1 DEF BeginStart, Lifecycle!TryBeginStart
<1>2. CASE MarkReady
  BY <1>2 DEF MarkReady, Lifecycle!MarkReady
<1>3. CASE MarkEnded
  BY <1>3 DEF MarkEnded, Lifecycle!MarkEnded
<1>4. ASSUME NEW detail \in Lifecycle!ErrorDetail, MarkError(detail)
      PROVE  (StartingIsFresh /\ StateHasEvidence /\ StampsInOrder)'
  BY <1>4 DEF MarkError, Lifecycle!MarkError
<1>5. ASSUME NEW uptime \in Uptimes, AdoptRunning(uptime)
      PROVE  (StartingIsFresh /\ StateHasEvidence /\ StampsInOrder)'
  <2>1. now - uptime \in Int /\ now - uptime <= now
    BY UptimesAssumption
  <2>2. CASE state \in Lifecycle!Claimed
    BY <1>5, <2>2 DEF AdoptRunning, Lifecycle!AdoptRunning, Lifecycle!sessionVars
  <2>3. CASE state \notin Lifecycle!Claimed
    BY <1>5, <2>1, <2>3 DEF AdoptRunning, Lifecycle!AdoptRunning
  <2> QED
    BY <2>2, <2>3
<1>6. CASE ResetToIdle
  BY <1>6 DEF ResetToIdle, Lifecycle!ResetToIdle
<1>7. CASE Read
  BY <1>7 DEF Read, MaybeTimeout, Lifecycle!MarkError
<1>8. CASE Tick
  BY <1>8 DEF Tick
<1>9. CASE UNCHANGED vars
  BY <1>9 DEF vars
<1> QED
  BY <1>1, <1>2, <1>3, <1>4, <1>5, <1>6, <1>7, <1>8, <1>9 DEF Next

(* The record tells a possible history, in whatever order starts,          *)
(* webhooks, adoptions, failures and reads come: a pending start shows     *)
(* nothing of the session before it, the other states show since when or   *)
(* why, and the stamps are in order.                                       *)
THEOREM HistoryIsPossible == Spec => []PossibleHistory
<1>1. IInv => PossibleHistory
  BY DEF IInv, PossibleHistory
<1> QED
  BY InvInit, InvStep, <1>1, PTL DEF Spec

(* Only a pending start that is too old times out: the step that sets the  *)
(* detail to "timeout" finds the session starting, and long enough so.     *)
THEOREM OnlyOldStartsDoTimeOut == Spec => OnlyOldStartsTimeOut
<1>1. TypeOK /\ [Next]_vars =>
        [ error_detail' = "timeout" /\ error_detail # "timeout" =>
            /\ state = "starting"
            /\ \E t \in StartTimeouts : started_at + t < now ]_vars
  <2> SUFFICES ASSUME TypeOK, Next, error_detail' = "timeout", error_detail # "timeout"
               PROVE  /\ state = "starting"
                      /\ \E t \in StartTimeouts : started_at + t < now
    OBVIOUS
  <2>1. Read
    BY NoneAssumption, DetailAssumption
    DEF Next, BeginStart, MarkReady, MarkEnded, MarkError, AdoptRunning, ResetToIdle, Tick,
        Lifecycle!TryBeginStart, Lifecycle!MarkReady, Lifecycle!MarkEnded, Lifecycle!MarkError,
        Lifecycle!AdoptRunning, Lifecycle!sessionVars, Lifecycle!ResetToIdle
  <2>2. PICK t \in StartTimeouts : MaybeTimeout(t)
    BY <2>1 DEF Read
  <2>3. TimedOut(t)
    BY <2>2 DEF MaybeTimeout
  <2>4. started_at + t < now
    BY <2>3, StartTimeoutsAssumption DEF TimedOut, TypeOK
  <2> QED
    BY <2>3, <2>4 DEF TimedOut
<1>2. Spec => []TypeOK
  BY TypeCorrect
<1> QED
  BY <1>1, <1>2, PTL DEF Spec, OnlyOldStartsTimeOut

(* Every step of the record with stamps is a step of the life cycle, or    *)
(* leaves it alone: what AlwaysOn relies on is what session_manager.py     *)
(* does.                                                                   *)
THEOREM Implementation == Spec => ImplementsLifecycle
<1>1. Init => Lifecycle!SessionInit
  BY DEF Init
<1>2. [Next]_vars => [Lifecycle!SessionNext]_Lifecycle!sessionVars
  <2> SUFFICES ASSUME [Next]_vars PROVE [Lifecycle!SessionNext]_Lifecycle!sessionVars
    OBVIOUS
  <2> USE DEF Lifecycle!SessionNext, Lifecycle!sessionVars
  <2>1. CASE BeginStart
    BY <2>1 DEF BeginStart
  <2>2. CASE MarkReady
    BY <2>2 DEF MarkReady
  <2>3. CASE MarkEnded
    BY <2>3 DEF MarkEnded
  <2>4. ASSUME NEW detail \in Lifecycle!ErrorDetail \ {"timeout"}, MarkError(detail)
        PROVE  Lifecycle!SessionNext
    BY <2>4 DEF MarkError
  <2>5. ASSUME NEW uptime \in Uptimes, AdoptRunning(uptime)
        PROVE  Lifecycle!SessionNext
    BY <2>5 DEF AdoptRunning
  <2>6. CASE ResetToIdle
    BY <2>6 DEF ResetToIdle
  <2>7. CASE Read
    BY <2>7 DEF Read, MaybeTimeout, TimedOut, Lifecycle!StartTimesOut
  <2>8. CASE Tick
    BY <2>8 DEF Tick
  <2>9. CASE UNCHANGED vars
    BY <2>9 DEF vars
  <2> QED
    BY <2>1, <2>2, <2>3, <2>4, <2>5, <2>6, <2>7, <2>8, <2>9 DEF Next
<1> QED
  BY <1>1, <1>2, PTL DEF Spec, ImplementsLifecycle, Lifecycle!SessionSpec

=============================================================================
