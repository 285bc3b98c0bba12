---------------------------- MODULE PushLifecycle ----------------------------
(***************************************************************************)
(* What kaggle_client.py promises to _launch_session() of its pushes, and  *)
(* AlwaysOn takes them to be: a run is started only by a launch that is    *)
(* still pushing, and only while its account has no other; the launch is   *)
(* told that it was started only if it was.  It may be told the contrary   *)
(* of a run that was started, or push once more behind it, as an answer    *)
(* may be lost.  The actions have the names of AlwaysOn's.                 *)
(***************************************************************************)
CONSTANTS Launch, Account

VARIABLES
    account,        \* launch -> the account it was planned on
    phase,          \* launch -> pushing, accepted by Kaggle, or its outcome
    active          \* the launches with a run that Kaggle counts as active

vars == <<account, phase, active>>

Init ==
    /\ account \in [Launch -> Account]
    /\ phase = [l \in Launch |-> "pushing"]
    /\ active = {}

From(l, before, after) == phase[l] = before /\ phase' = [phase EXCEPT ![l] = after]

PushAccepted(l) ==
    /\ From(l, "pushing", "accepted")
    /\ \A k \in active : account[k] # account[l]
    /\ active' = active \union {l}
    /\ UNCHANGED account

PushReturns(l) == From(l, "accepted", "launched") /\ UNCHANGED <<account, active>>

PushGivenUp(l) ==
    /\ \E outcome \in {"conflict", "failed"} : From(l, "accepted", outcome)
    /\ UNCHANGED <<account, active>>

PushMadeAgain(l) == From(l, "accepted", "pushing") /\ UNCHANGED <<account, active>>

PushRefused(l) ==
    /\ \E outcome \in {"conflict", "failed"} : From(l, "pushing", outcome)
    /\ UNCHANGED <<account, active>>

PushRaises(l) == From(l, "pushing", "raised") /\ UNCHANGED <<account, active>>

RunEnds(l) == l \in active /\ active' = active \ {l} /\ UNCHANGED <<account, phase>>

Next ==
    \E l \in Launch :
        \/ PushAccepted(l)
        \/ PushReturns(l)
        \/ PushGivenUp(l)
        \/ PushMadeAgain(l)
        \/ PushRefused(l)
        \/ PushRaises(l)
        \/ RunEnds(l)

Spec == Init /\ [][Next]_vars

=============================================================================
