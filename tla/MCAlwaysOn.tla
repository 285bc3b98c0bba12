----------------------------- MODULE MCAlwaysOn -----------------------------
(***************************************************************************)
(* Two accounts for TLC, with turns of one launch or of three.             *)
(***************************************************************************)
EXTENDS AlwaysOn, TLC

CONSTANTS a, b

Setting(ring, sessions, skip) ==
    [accounts |-> ring, sessions_per_account |-> sessions,
     skip_after_failures |-> skip]

ShortTurns == {Setting(<<a, b>>, 1, 2)}

LongTurns == {Setting(<<a, b>>, 6, 2)}

ShortTurnsOrNone == ShortTurns \union {Setting(<<>>, 1, 2)}

(* A run is known by what is recorded of it; which place it has is free.   *)
RunSymmetry == Permutations(Run)

(* SESSIONS_PER_ACCOUNT and ACCOUNT_SKIP_AFTER_FAILURES as main.py's       *)
(* sync_rotation() sets them by default.                                   *)
DefaultTurns == {Setting(<<a, b>>, 3, 3)}

=============================================================================
