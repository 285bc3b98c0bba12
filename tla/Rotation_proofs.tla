--------------------------- MODULE Rotation_proofs ---------------------------
(***************************************************************************)
(* The rotation keeps its types, never hands a number out twice, and goes  *)
(* round the ring with an equal share for each account, for every list of  *)
(* accounts, every length of turn, every limit and every report.           *)
(***************************************************************************)
EXTENDS Rotation, FunctionTheorems, FiniteSetTheorems, TLAPS

(* Quotient and remainder of a launch number.                              *)
LEMMA Division ==
  ASSUME NEW m \in Nat, NEW d \in Nat \ {0}
  PROVE  /\ m \div d \in Nat
         /\ m % d \in 0 .. d - 1
         /\ m = d * (m \div d) + (m % d)
<1>1. m \div d \in Int /\ m % d \in 0 .. d - 1
  OBVIOUS
<1>2. m = d * (m \div d) + (m % d)
  OBVIOUS
<1>3. ASSUME m \div d < 0 PROVE FALSE
  <2>1. m \div d <= -1
    BY <1>1, <1>3
  <2>2. d * (m \div d) <= -d
    BY <1>1, <2>1
  <2> QED
    BY <1>1, <1>2, <2>2
<1> QED
  BY <1>1, <1>2, <1>3

(* They are the only ones.                                                 *)
LEMMA DivisionUnique ==
  ASSUME NEW m \in Nat, NEW d \in Nat \ {0}, NEW q \in Nat, NEW r \in 0 .. d - 1,
         m = d * q + r
  PROVE  m \div d = q /\ m % d = r
OBVIOUS

(* One step on from m: the remainder goes up, or starts again with the     *)
(* next quotient.                                                          *)
LEMMA DivisionStep ==
  ASSUME NEW m \in Nat, NEW d \in Nat \ {0}
  PROVE  /\ (m + 1) % d = 0 => (m + 1) \div d = (m \div d) + 1
         /\ (m + 1) % d # 0 => /\ (m + 1) \div d = m \div d
                               /\ (m + 1) % d = (m % d) + 1
<1> DEFINE q == m \div d
           r == m % d
<1>1. q \in Nat /\ r \in 0 .. d - 1 /\ m = d * q + r
  BY Division
<1> HIDE DEF q, r
<1>2. CASE r + 1 < d
  <2>1. m + 1 = d * q + (r + 1) /\ r + 1 \in 0 .. d - 1
    BY <1>1, <1>2
  <2>2. (m + 1) \div d = q /\ (m + 1) % d = r + 1
    BY <1>1, <2>1, DivisionUnique
  <2> QED
    BY <1>1, <2>2 DEF q, r
<1>3. CASE r + 1 = d
  <2>1. m + 1 = d * (q + 1) + 0 /\ 0 \in 0 .. d - 1
    BY <1>1, <1>3
  <2>2. (m + 1) \div d = q + 1 /\ (m + 1) % d = 0
    BY <1>1, <2>1, DivisionUnique
  <2> QED
    BY <1>1, <2>2 DEF q, r
<1> QED
  BY <1>1, <1>2, <1>3

(* One step around a ring of d places, and never on the spot if there are  *)
(* two.                                                                    *)
LEMMA RingStep ==
  ASSUME NEW m \in Nat, NEW d \in Nat \ {0}
  PROVE  /\ (m + 1) % d = ((m % d) + 1) % d
         /\ d >= 2 => (m + 1) % d # m % d
<1> DEFINE r == m % d
           s == (m + 1) % d
<1>1. r \in 0 .. d - 1 /\ s \in 0 .. d - 1
  BY Division
<1>2. s = 0 \/ s = r + 1
  BY DivisionStep
<1>3. CASE s = r + 1
  <2>1. (r + 1) % d = r + 1
    <3>1. r + 1 \in Nat /\ r + 1 \in 0 .. d - 1 /\ r + 1 = d * 0 + (r + 1)
      BY <1>1, <1>3
    <3> HIDE DEF r, s
    <3> QED
      BY <3>1, DivisionUnique
  <2> QED
    BY <1>1, <1>3, <2>1
<1>4. CASE s = 0
  <2>1. r + 1 = d
    <3>1. SUFFICES ASSUME r + 1 < d PROVE FALSE
      BY <1>1
    <3>2. m \div d \in Nat /\ m + 1 = d * (m \div d) + (r + 1)
      BY Division
    <3>3. s = r + 1
      <4>1. r + 1 \in 0 .. d - 1 /\ m + 1 \in Nat
        BY <1>1, <3>1
      <4> HIDE DEF r
      <4> QED
        BY <3>2, <4>1, DivisionUnique
    <3> QED
      BY <1>1, <1>4, <3>3
  <2>2. (r + 1) % d = 0
    <3>1. r + 1 \in Nat /\ 0 \in 0 .. d - 1 /\ r + 1 = d * 1 + 0
      BY <1>1, <2>1
    <3> HIDE DEF r, s
    <3> QED
      BY <3>1, DivisionUnique
  <2> QED
    BY <1>1, <1>4, <2>1, <2>2
<1> QED
  BY <1>2, <1>3, <1>4

----------------------------------------------------------------------------

(* Every method leaves the fields well typed: configure() with whatever    *)
(* the admin panel holds, and a skip with whatever the counter stands at.  *)
LEMMA TypeStep == RotationTypeOK /\ [RotationNext]_rotationVars => RotationTypeOK'
<1> SUFFICES ASSUME RotationTypeOK, [RotationNext]_rotationVars PROVE RotationTypeOK'
  OBVIOUS
<1> USE DEF RotationTypeOK, settingVars, rotationVars
<1>1. ASSUME NEW s \in Settings, Configure(s) PROVE RotationTypeOK'
  <2>1. /\ s.accounts \in Seq(Account)
        /\ Distinct(s.accounts)
        /\ s.sessions_per_account \in Int
        /\ s.skip_after_failures \in Int
    BY SettingsAssumption
  <2> QED
    BY <1>1, <2>1 DEF Configure, AtLeastOne, Distinct
<1>2. CASE Launched
  BY <1>2 DEF Launched, Distinct
<1>3. CASE Succeeded
  BY <1>3 DEF Succeeded, Distinct
<1>4. ASSUME NEW k \in -1 .. MaxNumber, Sync(k) PROVE RotationTypeOK'
  BY <1>4, RotationBoundsAssumption DEF Sync, Synced, Distinct
<1>5. ASSUME NEW detail, RecordFailure(detail) PROVE RotationTypeOK'
  <2>1. NextBlock \in Nat
    <3>1. Block(n) \in Nat
      BY Division DEF Block
    <3> QED
      BY <3>1 DEF NextBlock
  <2> QED
    BY <1>5, <2>1 DEF RecordFailure, Distinct
<1>6. CASE UNCHANGED rotationVars
  BY <1>6 DEF Distinct
<1> QED
  BY <1>1, <1>2, <1>3, <1>4, <1>5, <1>6 DEF RotationNext

(* Type correctness.                                                       *)
THEOREM RotationTypeCorrect == RotationSpec => []RotationTypeOK
<1>1. RotationInit => RotationTypeOK
  BY DEF RotationInit, RotationTypeOK, Distinct
<1> QED
  BY <1>1, TypeStep, PTL DEF RotationSpec

(* The first number of the next block is further on, in the next block.    *)
LEMMA NextBlockFacts ==
  ASSUME RotationTypeOK
  PROVE  /\ Block(n) \in Nat
         /\ NextBlock \in Nat
         /\ NextBlock > n
         /\ Block(NextBlock) = Block(n) + 1
         /\ NextBlock % sessions_per_account = 0
<1> DEFINE d == sessions_per_account
           q == n \div d
           r == n % d
<1>1. n \in Nat /\ d \in Nat \ {0}
  BY DEF RotationTypeOK
<1>2. q \in Nat /\ r \in 0 .. d - 1 /\ n = d * q + r
  BY <1>1, Division
<1>3. NextBlock = d * (q + 1)
  <2>1. NextBlock = (q + 1) * d
    BY DEF NextBlock, Block
  <2> HIDE DEF q, d
  <2> QED
    BY <1>1, <1>2, <2>1
<1>4. Block(NextBlock) = NextBlock \div d /\ Block(n) = q
  BY DEF Block
<1> HIDE DEF q, r, d
<1>5. NextBlock \in Nat /\ NextBlock > n
  <2>1. d * (q + 1) = d * q + d
    BY <1>1, <1>2
  <2>2. d * q \in Nat
    BY <1>1, <1>2
  <2> QED
    BY <1>1, <1>2, <1>3, <2>1, <2>2
<1>6. NextBlock \div d = q + 1 /\ NextBlock % d = 0
  <2>1. NextBlock = d * (q + 1) + 0 /\ q + 1 \in Nat /\ 0 \in 0 .. d - 1
    BY <1>1, <1>2, <1>3, <1>5
  <2> QED
    BY <1>1, <1>5, <2>1, DivisionUnique
<1> QED
  BY <1>2, <1>4, <1>5, <1>6 DEF d

(* No launch number is handed out twice by one process: reports of old     *)
(* runs, in any order, skips and edited settings never set it back.        *)
THEOREM NumbersNeverComeBack == RotationSpec => CounterNeverBackward
<1>1. RotationTypeOK /\ [RotationNext]_rotationVars => [n' >= n]_rotationVars
  <2> SUFFICES ASSUME RotationTypeOK, RotationNext PROVE n' >= n
    BY DEF rotationVars
  <2> USE DEF RotationTypeOK
  <2>1. ASSUME NEW s \in Settings, Configure(s) PROVE n' >= n
    BY <2>1 DEF Configure
  <2>2. CASE Launched
    BY <2>2 DEF Launched
  <2>3. CASE Succeeded
    BY <2>3 DEF Succeeded
  <2>4. ASSUME NEW k \in -1 .. MaxNumber, Sync(k) PROVE n' >= n
    BY <2>4, RotationBoundsAssumption DEF Sync, Synced
  <2>5. ASSUME NEW detail, RecordFailure(detail) PROVE n' >= n
    BY <2>5, NextBlockFacts DEF RecordFailure, rotationVars
  <2> QED
    BY <2>1, <2>2, <2>3, <2>4, <2>5 DEF RotationNext
<1> QED
  BY <1>1, RotationTypeCorrect, PTL DEF RotationSpec, CounterNeverBackward

(* Successful launches use up the turn and then go to the neighbour in the *)
(* ring; none is passed over.                                              *)
THEOREM TurnsGoRound == RotationSpec => TurnsInOrder
<1>1. RotationTypeOK /\ [RotationNext]_rotationVars =>
        [ n' = n + 1 /\ UNCHANGED settingVars /\ CanPlan =>
            AccountIndex(n') =
                IF n' % sessions_per_account = 0
                THEN NextAccount(AccountIndex(n))
                ELSE AccountIndex(n) ]_rotationVars
  <2> SUFFICES ASSUME RotationTypeOK, n' = n + 1, CanPlan
               PROVE  AccountIndex(n + 1) =
                        IF (n + 1) % sessions_per_account = 0
                        THEN NextAccount(AccountIndex(n))
                        ELSE AccountIndex(n)
    OBVIOUS
  <2>1. n \in Nat /\ sessions_per_account \in Nat \ {0} /\ Len(accounts) \in Nat \ {0}
    BY DEF RotationTypeOK, CanPlan
  <2>2. Block(n) \in Nat
    BY <2>1, Division DEF Block
  <2>3. (n + 1) % sessions_per_account = 0 => Block(n + 1) = Block(n) + 1
    BY <2>1, DivisionStep DEF Block
  <2>4. (n + 1) % sessions_per_account # 0 => Block(n + 1) = Block(n)
    BY <2>1, DivisionStep DEF Block
  <2>5. (Block(n) + 1) % Len(accounts) = ((Block(n) % Len(accounts)) + 1) % Len(accounts)
    BY <2>1, <2>2, RingStep
  <2> QED
    BY <2>3, <2>4, <2>5 DEF AccountIndex, NextAccount
<1> QED
  BY <1>1, RotationTypeCorrect, PTL DEF RotationSpec, TurnsInOrder

(* A failure that moves the counter gives the next launch to the neighbour *)
(* in the ring, another account, with its whole turn before it.            *)
THEOREM SkipsGoToTheNeighbour == RotationSpec => SkipStartsNextTurn
<1>1. RotationTypeOK /\ [RotationNext]_rotationVars =>
        [ \A detail \in Conflict \union OtherFailure :
            RecordFailure(detail) /\ n' # n =>
                /\ AccountIndex(n') # AccountIndex(n)
                /\ AccountIndex(n') = NextAccount(AccountIndex(n))
                /\ n' % sessions_per_account = 0 ]_rotationVars
  <2> SUFFICES ASSUME RotationTypeOK, NEW detail, RecordFailure(detail), n' # n
               PROVE  /\ AccountIndex(n') # AccountIndex(n)
                      /\ AccountIndex(n') = NextAccount(AccountIndex(n))
                      /\ n' % sessions_per_account = 0
    OBVIOUS
  <2>1. n' = NextBlock /\ Len(accounts) >= 2
    BY DEF RecordFailure, Skips, rotationVars
  <2>2. Len(accounts) \in Nat \ {0} /\ Len(accounts) > 1
    BY <2>1 DEF RotationTypeOK
  <2>3. Block(n) \in Nat /\ Block(NextBlock) = Block(n) + 1
        /\ NextBlock % sessions_per_account = 0
    BY NextBlockFacts
  <2>4. (Block(n) + 1) % Len(accounts) = ((Block(n) % Len(accounts)) + 1) % Len(accounts)
    BY <2>2, <2>3, RingStep
  <2>5. (Block(n) + 1) % Len(accounts) # Block(n) % Len(accounts)
    BY <2>2, <2>3, RingStep
  <2> QED
    BY <2>1, <2>3, <2>4, <2>5 DEF AccountIndex, NextAccount
<1> QED
  BY <1>1, RotationTypeCorrect, PTL DEF RotationSpec, SkipStartsNextTurn

(* Once a failure has been counted, fewer than the tolerated number stand  *)
(* against the account, however the limit was changed before.              *)
THEOREM StreakIsKeptBelowLimit == RotationSpec => StreakStaysBelowLimit
<1>1. RotationTypeOK /\ [RotationNext]_rotationVars =>
        [ \A detail \in OtherFailure :
            RecordFailure(detail) /\ Len(accounts) >= 2 =>
                fail_streak' < skip_after_failures ]_rotationVars
  BY FailureAssumption DEF RotationTypeOK, RecordFailure, Skips
<1> QED
  BY <1>1, RotationTypeCorrect, PTL DEF RotationSpec, StreakStaysBelowLimit

----------------------------------------------------------------------------
(* The shares.  A number stands for a round of the ring, a place in it and *)
(* a launch of that place's turn.                                          *)
LEMMA Coordinates ==
  ASSUME NEW k \in Nat, NEW d \in Nat \ {0}, NEW l \in Nat \ {0}
  PROVE  /\ (k \div d) \div l \in Nat
         /\ (k \div d) % l \in 0 .. l - 1
         /\ k % d \in 0 .. d - 1
         /\ k = (d * l) * ((k \div d) \div l) + (d * ((k \div d) % l) + (k % d))
<1> DEFINE q == k \div d
<1>1. q \in Nat /\ k % d \in 0 .. d - 1 /\ k = d * q + (k % d)
  BY Division
<1> HIDE DEF q
<1>2. q \div l \in Nat /\ q % l \in 0 .. l - 1 /\ q = l * (q \div l) + (q % l)
  BY <1>1, Division
<1> DEFINE a == q \div l
           i == q % l
           r == k % d
<1>3. a \in Nat /\ i \in Nat /\ r \in Nat /\ k = d * q + r /\ q = l * a + i
  BY <1>1, <1>2
<1> HIDE DEF a, i, r
<1>4. d * (l * a + i) = (d * l) * a + d * i
  BY <1>3
<1>5. k = (d * l) * a + (d * i + r)
  BY <1>3, <1>4
<1> QED
  BY <1>1, <1>2, <1>5, Zenon DEF a, i, r, q

(* The launches of place i among as many numbers in a row as there are in  *)
(* a round, from wherever.                                                 *)
TurnOf(i, m, d, l) == {k \in m .. m + d * l - 1 : (k \div d) % l = i}

(* Launch r of a turn, counted from 0.                                     *)
Comes(r, turn, d) == \E k \in turn : k % d = r

(* Each launch of the place's turn is among them ...                       *)
LEMMA RoundHasEach ==
  ASSUME NEW m \in Nat, NEW d \in Nat \ {0}, NEW l \in Nat \ {0},
         NEW i \in Nat, i < l, NEW r \in Nat, r < d
  PROVE  Comes(r, TurnOf(i, m, d, l), d)
<1> DEFINE round == d * l
           b == d * i + r
<1>1. round \in Nat \ {0} /\ b \in Nat /\ b < round
  <2>1. d * (l - 1) = d * l - d /\ d * l \in Nat \ {0} /\ d * i \in Nat
    OBVIOUS
  <2>2. d * i <= d * (l - 1)
    OBVIOUS
  <2> QED
    BY <2>1, <2>2
<1> HIDE DEF b
<1>2. PICK Q \in Nat, s \in 0 .. round - 1 : m = round * Q + s
  <2> HIDE DEF round
  <2>1. m \div round \in Nat /\ m % round \in 0 .. round - 1
    BY <1>1, Division, Zenon
  <2>2. m = round * (m \div round) + (m % round)
    BY <1>1, Division, Zenon
  <2> QED
    BY <2>1, <2>2, Zenon
<1>3. \E q \in Nat : round * q + b \in m .. m + round - 1
  <2>1. round * (Q + 1) = round * Q + round /\ round * Q \in Nat
    <3> HIDE DEF round
    <3> QED
      BY <1>1, <1>2
  <2> HIDE DEF round
  <2>2. CASE b >= s
    BY <1>1, <1>2, <2>1, <2>2
  <2>3. CASE b < s
    <3>1. round * (Q + 1) + b \in m .. m + round - 1
      BY <1>1, <1>2, <2>1, <2>3
    <3> QED
      BY <1>2, <3>1
  <2> QED
    BY <1>1, <1>2, <2>2, <2>3
<1>4. PICK q \in Nat : round * q + b \in m .. m + round - 1
  BY <1>3
<1> DEFINE p == l * q + i
<1>5. p \in Nat /\ round * q + b = d * p + r
  BY DEF b
<1>6. p \div l = q /\ p % l = i
  BY <1>5, DivisionUnique
<1> HIDE DEF p, round
<1>7. PICK k \in m .. m + round - 1 : k = d * p + r
  BY <1>4, <1>5
<1>8. k \in Nat
  BY <1>1, <1>7
<1>9. k \div d = p /\ k % d = r
  <2>1. r \in 0 .. d - 1
    OBVIOUS
  <2> QED
    BY <1>5, <1>7, <1>8, <2>1, DivisionUnique
<1> QED
  BY <1>6, <1>7, <1>9 DEF TurnOf, round, Comes

(* ... and only once.                                                      *)
LEMMA RoundHasNoTwo ==
  ASSUME NEW m \in Nat, NEW d \in Nat \ {0}, NEW l \in Nat \ {0},
         NEW i, NEW j \in TurnOf(i, m, d, l), NEW k \in TurnOf(i, m, d, l), j % d = k % d
  PROVE  j = k
<1> DEFINE round == d * l
           a == (j \div d) \div l
           c == (k \div d) \div l
           b == d * ((j \div d) % l) + (j % d)
<1>0. /\ j \in m .. m + d * l - 1 /\ k \in m .. m + d * l - 1
      /\ (j \div d) % l = (k \div d) % l
  BY DEF TurnOf
<1>1. round \in Nat \ {0} /\ j \in Nat /\ k \in Nat
  BY <1>0
<1>2. a \in Nat /\ c \in Nat /\ b \in Nat /\ j = round * a + b /\ k = round * c + b
  <2>1. /\ a \in Nat /\ (j \div d) % l \in 0 .. l - 1 /\ j % d \in 0 .. d - 1
        /\ j = round * a + b
    BY <1>1, Coordinates, Zenon
  <2>2. /\ c \in Nat
        /\ k = round * c + (d * ((k \div d) % l) + (k % d))
    BY <1>1, Coordinates, Zenon
  <2>3. k = round * c + b
    BY <1>0, <2>2, Zenon
  <2>4. b \in Nat
    <3>1. PICK x \in Nat, r \in Nat : x = (j \div d) % l /\ r = j % d
      BY <2>1
    <3>2. d * x + r \in Nat
      OBVIOUS
    <3> QED
      BY <3>1, <3>2, Zenon
  <2> QED
    BY <2>1, <2>2, <2>3, <2>4, Zenon
<1>3. j <= m + round - 1 /\ k <= m + round - 1 /\ m <= j /\ m <= k
  BY <1>0
<1> HIDE DEF round, a, b, c
<1>4. ASSUME NEW x \in Nat, NEW y \in Nat, x < y
      PROVE  round * y >= round * x + round
  <2>1. y >= x + 1 /\ round * (x + 1) = round * x + round
    BY <1>1, <1>4
  <2>2. round * y >= round * (x + 1)
    BY <1>1, <2>1
  <2> QED
    BY <2>1, <2>2
<1>5. round * a \in Nat /\ round * c \in Nat
  BY <1>1, <1>2
<1>6. ~ a < c /\ ~ c < a
  BY <1>1, <1>2, <1>3, <1>4, <1>5
<1>7. a = c
  BY <1>2, <1>6
<1> QED
  BY <1>2, <1>7

(* From wherever the counter stands, the next full round gives every       *)
(* account its sessions_per_account launches, no more and no fewer.        *)
THEOREM SharesAreFair == RotationSpec => []FairShares
<1>1. ASSUME RotationTypeOK, NEW i \in 0 .. Len(accounts) - 1
      PROVE  Cardinality({number \in Round : AccountIndex(number) = i}) = sessions_per_account
  <2> DEFINE d == sessions_per_account
             l == Len(accounts)
             S == {number \in Round : AccountIndex(number) = i}
             turn == [number \in S |-> number % d]
  <2>1. n \in Nat /\ d \in Nat \ {0} /\ l \in Nat \ {0} /\ i \in 0 .. l - 1
    BY <1>1 DEF RotationTypeOK
  <2>2. S = TurnOf(i, n, d, l)
    BY DEF Round, AccountIndex, Block, TurnOf
  <2> HIDE DEF d, l, S
  <2>3. turn \in [S -> 0 .. d - 1]
    <3>1. ASSUME NEW k \in S PROVE k % d \in 0 .. d - 1
      <4>1. k \in Nat
        BY <2>1, <2>2 DEF TurnOf
      <4> QED
        BY <2>1, <4>1, Division
    <3> QED
      BY <3>1
  <2>4. ASSUME NEW j \in S, NEW k \in S, turn[j] = turn[k] PROVE j = k
    BY <2>1, <2>2, <2>4, RoundHasNoTwo
  <2>5. ASSUME NEW r \in 0 .. d - 1 PROVE \E k \in S : turn[k] = r
    <3>1. i \in Nat /\ i < l /\ r \in Nat /\ r < d
      BY <2>1
    <3>2. Comes(r, TurnOf(i, n, d, l), d)
      BY <2>1, <3>1, RoundHasEach
    <3> QED
      BY <2>2, <3>2 DEF Comes
  <2> HIDE DEF turn
  <2>6. turn \in Bijection(S, 0 .. d - 1)
    BY <2>3, <2>4, <2>5, Fun_IsBij
  <2>7. ExistsBijection(0 .. d - 1, S)
    BY <2>6, Fun_ExistsBij, Fun_ExistsBijSymmetric
  <2>8. IsFiniteSet(0 .. d - 1) /\ Cardinality(0 .. d - 1) = d
    BY <2>1, FS_Interval
  <2>9. Cardinality(S) = d
    BY <2>7, <2>8, FS_Bijection
  <2> QED
    BY <2>9 DEF S, d
<1>2. RotationTypeOK => FairShares
  BY <1>1 DEF FairShares
<1> QED
  BY <1>2, RotationTypeCorrect, PTL

=============================================================================
