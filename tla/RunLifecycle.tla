---------------------------- MODULE RunLifecycle ----------------------------
(***************************************************************************)
(* What serve.py promises to the backend of the life of one run: it        *)
(* reports ready at most once, after it began to answer, and its end at    *)
(* most once, after which it answers no more; the backend hears nothing it *)
(* was not told.                                                           *)
(***************************************************************************)
EXTENDS KaggleRun

VARIABLES
    run,            \* the run, a record of KaggleRun
    heard           \* the webhooks the backend has handled

Init ==
    /\ run = [status |-> "loading", ready |-> 0, ended |-> 0]
    /\ heard = {}

Lives ==
    /\ run' \in UNION {Opens(run), ComesUp(run), FailsEarly(run), ShutsDown(run),
                       Exits(run), Dies(run)}
    /\ UNCHANGED heard

Hears(path) ==
    /\ run' \in FewerCalls(run, path)
    /\ heard' = heard \union {path}

Misses(path) ==
    /\ run' \in FewerCalls(run, path)
    /\ UNCHANGED heard

Next == Lives \/ \E path \in Path : Hears(path) \/ Misses(path)

Spec == Init /\ [][Next]_<<run, heard>>

=============================================================================
