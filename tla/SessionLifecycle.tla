-------------------------- MODULE SessionLifecycle --------------------------
(***************************************************************************)
(* What session_manager.py promises to the rest of the backend: the state  *)
(* of the Kaggle session and, while it is "error", why.  The clock and the *)
(* time stamps are left out here, so that giving up on a launch is an      *)
(* action that may happen whenever the session is starting; SessionManager *)
(* puts them back and implements this module.  AlwaysOn extends it.        *)
(***************************************************************************)
CONSTANT None       \* Python's None

VARIABLES
    state,          \* SessionManager._state
    error_detail    \* SessionManager._error_detail, reduced to its kind

sessionVars == <<state, error_detail>>

SessionState == {"idle", "starting", "ready", "ended", "error"}

(* The texts mark_error is given, told apart as far as a caller does: the  *)
(* start timed out, Kaggle answered 409, the push failed in another way,   *)
(* the accounts setting is unusable, the tunnel stopped answering.         *)
ErrorDetail == {"timeout", "conflict", "failed", "settings", "tunnel"}

(* The states in which a second start is refused.                          *)
Claimed == {"starting", "ready"}

SessionTypeOK ==
    /\ state \in SessionState
    /\ error_detail \in ErrorDetail \union {None}

SessionInit ==
    /\ state = "idle"
    /\ error_detail = None

----------------------------------------------------------------------------

(* Mutant: the claim is not recorded.                                      *)
TryBeginStartSilent ==
    /\ state \notin Claimed
    /\ error_detail' = None
    /\ UNCHANGED state

(* try_begin_start() returning True; where it is disabled it returns False *)
(* and changes nothing.                                                    *)
TryBeginStart ==
    /\ state \notin Claimed
    /\ state' = "starting"
    /\ error_detail' = None

(* The three unconditional transitions: each overwrites whatever state it  *)
(* finds, and only mark_error touches the detail.                          *)
MarkReady ==
    /\ state' = "ready"
    /\ UNCHANGED error_detail

MarkEnded ==
    /\ state' = "ended"
    /\ UNCHANGED error_detail

MarkError(detail) ==
    /\ state' = "error"
    /\ error_detail' = detail

(* Mutant: an errored session is not taken over.                           *)
AdoptRunningNotFromError ==
    IF state \in Claimed \union {"error"}
    THEN UNCHANGED sessionVars
    ELSE /\ state' = "ready"
         /\ error_detail' = None

(* adopt_running(): a no-op while a session is starting or ready.          *)
AdoptRunning ==
    IF state \in Claimed
    THEN UNCHANGED sessionVars
    ELSE /\ state' = "ready"
         /\ error_detail' = None

ResetToIdle ==
    /\ state' = "idle"
    /\ error_detail' = None

(* _maybe_timeout() giving up on a launch, from snapshot() or is_ready().  *)
StartTimesOut ==
    /\ state = "starting"
    /\ MarkError("timeout")

----------------------------------------------------------------------------

SessionNext ==
    \/ TryBeginStart
    \/ MarkReady
    \/ MarkEnded
    \/ \E detail \in ErrorDetail \ {"timeout"} : MarkError(detail)
    \/ AdoptRunning
    \/ ResetToIdle
    \/ StartTimesOut

SessionSpec == SessionInit /\ [][SessionNext]_sessionVars

=============================================================================
