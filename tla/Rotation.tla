------------------------------ MODULE Rotation ------------------------------
(***************************************************************************)
(* accounts.py: the rotation over several Kaggle accounts.  Launch number  *)
(* n runs on account (n \div sessions_per_account) % Len(accounts), counted *)
(* from 0, so the numbers fall into blocks of sessions_per_account, one    *)
(* block an account.  Every method holds _lock throughout and is one       *)
(* action.                                                                 *)
(***************************************************************************)
EXTENDS Integers, Sequences, FiniteSets

CONSTANTS
    Account,        \* the Kaggle accounts that may be configured
    Settings,       \* the account settings the admin panel may hold
    Conflict,       \* the details record_failure takes for a 409
    OtherFailure,   \* and the ones it counts
    MaxNumber,      \* bound: no launch number above this one is handed out
    MaxStreak       \* bound: failures counted in a row

(* load_accounts refuses two entries for one username.                     *)
Distinct(seq) ==
    \A i, j \in 1..Len(seq) : seq[i] = seq[j] => i = j

ASSUME SettingsAssumption ==
    \A s \in Settings :
        /\ s = [accounts |-> s.accounts,
                sessions_per_account |-> s.sessions_per_account,
                skip_after_failures |-> s.skip_after_failures]
        /\ s.accounts \in Seq(Account)
        /\ Distinct(s.accounts)
        /\ s.sessions_per_account \in Int
        /\ s.skip_after_failures \in Int

ASSUME FailureAssumption == Conflict \intersect OtherFailure = {}

ASSUME RotationBoundsAssumption == MaxNumber \in Nat /\ MaxStreak \in Nat

VARIABLES
    accounts,               \* Rotation.accounts, without the keys
    sessions_per_account,   \* Rotation.sessions_per_account
    skip_after_failures,    \* Rotation.skip_after_failures
    n,                      \* Rotation._n: the number of the NEXT launch
    fail_streak             \* Rotation._fail_streak

settingVars == <<accounts, sessions_per_account, skip_after_failures>>

rotationVars == <<settingVars, n, fail_streak>>

RotationTypeOK ==
    /\ accounts \in Seq(Account)
    /\ Distinct(accounts)
    /\ sessions_per_account \in Nat \ {0}
    /\ skip_after_failures \in Nat \ {0}
    /\ n \in Nat
    /\ fail_streak \in Nat

AtLeastOne(i) == IF i < 1 THEN 1 ELSE i

(* Rotation([]) at import, and a new process starts with it again.         *)
RotationInit ==
    /\ accounts = <<>>
    /\ sessions_per_account = 3
    /\ skip_after_failures = 3
    /\ n = 0
    /\ fail_streak = 0

----------------------------------------------------------------------------

(* Mutants: the launches are counted from 1; the remainder is taken for    *)
(* the quotient.                                                           *)
BlockFromOne(number) == (number + 1) \div sessions_per_account

BlockRemainder(number) == number % sessions_per_account

Block(number) == number \div sessions_per_account

(* Which account, counted from 0, plan() gives to a launch number.         *)
AccountIndex(number) == Block(number) % Len(accounts)

(* Python's accounts[i].                                                   *)
AccountAt(i) == accounts[i + 1]

AccountOf(number) == AccountAt(AccountIndex(number))

(* plan() raises RuntimeError where this is false.                         *)
CanPlan == accounts # <<>>

(* Mutants: the values are taken as they are; an edit resets the counter.  *)
ConfigureUnchecked(s) ==
    /\ accounts' = s.accounts
    /\ sessions_per_account' = s.sessions_per_account
    /\ skip_after_failures' = s.skip_after_failures
    /\ UNCHANGED <<n, fail_streak>>

ConfigureResets(s) ==
    /\ accounts' = s.accounts
    /\ sessions_per_account' = AtLeastOne(s.sessions_per_account)
    /\ skip_after_failures' = AtLeastOne(s.skip_after_failures)
    /\ n' = 0
    /\ UNCHANGED fail_streak

(* configure(): the counter and the streak are kept.                       *)
Configure(s) ==
    /\ accounts' = s.accounts
    /\ sessions_per_account' = AtLeastOne(s.sessions_per_account)
    /\ skip_after_failures' = AtLeastOne(s.skip_after_failures)
    /\ UNCHANGED <<n, fail_streak>>

(* Mutant: the launch is not counted.                                      *)
LaunchedUncounted == UNCHANGED rotationVars

Launched ==
    /\ n' = n + 1
    /\ UNCHANGED <<settingVars, fail_streak>>

Succeeded ==
    /\ fail_streak' = 0
    /\ UNCHANGED <<settingVars, n>>

(* Mutant: the report of the number that was next is missed.               *)
SyncedTooLate(k) == IF k >= 0 /\ k > n THEN k + 1 ELSE n

(* sync(k) moves the counter past a number that a run reports.  Anything   *)
(* that is no number, and a negative one (serve.py's -1 for "not told"),   *)
(* is ignored.                                                             *)
Synced(k) == IF k >= 0 /\ k >= n THEN k + 1 ELSE n

Sync(k) ==
    /\ n' = Synced(k)
    /\ UNCHANGED <<settingVars, fail_streak>>

(* Mutants: the jump is a block's length; a 409 is counted; the limit is   *)
(* met exactly, or not at all.                                             *)
NextBlockUnaligned == n + sessions_per_account

SkipsAtLimit ==
    /\ fail_streak + 1 = skip_after_failures
    /\ Len(accounts) >= 2

(* record_failure(): a 409 is not counted; the last failure tolerated in a *)
(* row starts the next block, if there is another account.                 *)
Skips ==
    /\ fail_streak + 1 >= skip_after_failures
    /\ Len(accounts) >= 2

NextBlock == (Block(n) + 1) * sessions_per_account

RecordFailureOfConflict(detail) ==
    /\ n' = IF Skips THEN NextBlock ELSE n
    /\ fail_streak' = IF Skips THEN 0 ELSE fail_streak + 1
    /\ UNCHANGED settingVars

RecordFailure(detail) ==
    IF detail \in Conflict
    THEN UNCHANGED rotationVars
    ELSE /\ n' = IF Skips THEN NextBlock ELSE n
         /\ fail_streak' = IF Skips THEN 0 ELSE fail_streak + 1
         /\ UNCHANGED settingVars

----------------------------------------------------------------------------

WithinBounds == n' <= MaxNumber /\ fail_streak' <= MaxStreak

RotationNext ==
    /\ \/ \E s \in Settings : Configure(s)
       \/ CanPlan /\ Launched
       \/ Succeeded
       \/ \E k \in -1..MaxNumber : Sync(k)
       \/ \E detail \in Conflict \union OtherFailure : RecordFailure(detail)
    /\ WithinBounds

RotationSpec == RotationInit /\ [][RotationNext]_rotationVars

----------------------------------------------------------------------------

(* The counter never goes back: whatever order the reports of old runs     *)
(* come in, and whatever the admin panel changes, no launch number is      *)
(* handed out again by the same process.                                   *)
CounterNeverBackward == [][n' >= n]_rotationVars

(* Whatever the counter stands at, the next full round gives every account *)
(* the same number of launches, sessions_per_account.                      *)
Round == n .. n + sessions_per_account * Len(accounts) - 1

FairShares ==
    \A i \in 0 .. Len(accounts) - 1 :
        Cardinality({number \in Round : AccountIndex(number) = i})
            = sessions_per_account

(* Launches that succeed one after the other stay on an account until its  *)
(* block is used up and then go to the next one, around the ring: no       *)
(* account is passed over.                                                 *)
NextAccount(i) == (i + 1) % Len(accounts)

TurnsInOrder ==
    [][ n' = n + 1 /\ UNCHANGED settingVars /\ CanPlan =>
            AccountIndex(n') =
                IF n' % sessions_per_account = 0
                THEN NextAccount(AccountIndex(n))
                ELSE AccountIndex(n) ]_rotationVars

(* When failures move the counter, the launch that was next goes to        *)
(* another account, the neighbour in the ring, and that one has its whole  *)
(* block before it.                                                        *)
SkipStartsNextTurn ==
    [][ \A detail \in Conflict \union OtherFailure :
            RecordFailure(detail) /\ n' # n =>
                /\ AccountIndex(n') # AccountIndex(n)
                /\ AccountIndex(n') = NextAccount(AccountIndex(n))
                /\ n' % sessions_per_account = 0 ]_rotationVars

(* With another account to go to, a counted failure leaves the streak      *)
(* below the limit, also when the limit was lowered while a streak was     *)
(* running: the tolerated number of failures is never exceeded.            *)
StreakStaysBelowLimit ==
    [][ \A detail \in OtherFailure :
            RecordFailure(detail) /\ Len(accounts) >= 2 =>
                fail_streak' < skip_after_failures ]_rotationVars

=============================================================================
