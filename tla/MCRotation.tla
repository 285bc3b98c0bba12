----------------------------- MODULE MCRotation -----------------------------
(***************************************************************************)
(* Account settings for TLC: none yet, one account, a ring of three with   *)
(* long turns, a ring of two with short ones, and limits below 1, which    *)
(* configure() raises to 1.                                                *)
(***************************************************************************)
EXTENDS Rotation

CONSTANTS a, b, c

Setting(ring, sessions, skip) ==
    [accounts |-> ring, sessions_per_account |-> sessions,
     skip_after_failures |-> skip]

MCSettings ==
    {Setting(<<>>, 3, 3), Setting(<<a>>, 2, 1), Setting(<<a, b, c>>, 3, 2),
     Setting(<<c, a>>, 0, -1), Setting(<<b, c>>, 2, 3)}

MCConflict == {"conflict"}

MCOtherFailure == {"timeout", "failed", "settings", "tunnel"}

=============================================================================
