-------------------------- MODULE KeepAlive_proofs --------------------------
(***************************************************************************)
(* For every panel, length of the day and slowness of the calls: the test  *)
(* of the window means what its text says, the supervisor launches only    *)
(* when it was asked to a short while ago, leaves its launches apart, and  *)
(* tries for a session that is wanted and missing within a bounded time.   *)
(***************************************************************************)
EXTENDS KeepAlive, FiniteSetTheorems, TLAPS

(* in_window() of what parse_window() makes of a text is what the text     *)
(* asks for: the next time the clock strikes one of the two ends, it is    *)
(* the closing one.  It holds of windows around midnight, of empty ones    *)
(* and of the whole day.                                                   *)
THEOREM WindowMeansItsText ==
    ASSUME NEW p \in Panels, NEW m \in 0 .. Day - 1
    PROVE  InWindow(ParseWindow(p.window), m) <=> Wanted(p, m)
<1> USE DEF InWindow, ParseWindow, Wanted
<1>1. CASE p.window \in NoWindow
  BY <1>1
<1>2. CASE p.window \notin NoWindow
  <2>1. PICK s \in 0 .. Day - 1, e \in 0..Day : p.window = <<s, e>>
    BY <1>2, TextsAssumption DEF Windows
  <2>2. <<s, e>> # None /\ <<s, e>>[1] = s /\ <<s, e>>[2] = e
    BY TextsAssumption DEF Windows
  <2>3. Day \in Nat \ {0}
    BY TimesAssumption
  <2>4. (IF s <= e THEN s <= m /\ m < e ELSE s <= m \/ m < e)
          <=> (s = 0 /\ e = Day) \/ Ahead(m, e) < Ahead(m, s)
    BY <2>3 DEF Ahead
  <2>5. <<s, e>> = <<0, Day>> <=> s = 0 /\ e = Day
    BY <2>3
  <2> QED
    BY <1>2, <2>1, <2>2, <2>4, <2>5
<1> QED
  BY <1>1, <1>2

----------------------------------------------------------------------------
(* How long the loop has gone by what it read, at most: it acts on it in   *)
(* the same pass, and every call in between has its limit.                 *)
Age ==
    CASE pc = "settings"    -> Slowness - left
      [] pc = "tick"        -> Slowness
      [] pc = "probe_adopt" -> Stale - left
      [] OTHER              -> Stale

Deciding == pc \in {"tick", "probe_adopt", "decide"}

ClockType ==
    /\ panel \in Panels
    /\ enabled \in BOOLEAN
    /\ left \in Nat
    /\ minute \in 0 .. Day - 1
    /\ dropped \in [Panels -> Nat]
    /\ dropped[panel] = 0
    /\ pc \in {"tick", "decide"} => left = 0
    /\ pc \in Pc
    /\ interval \in Nat

(* A pass that may still launch read its two settings from panels that     *)
(* were in force no longer ago than the pass has lasted.                   *)
AskedLately ==
    /\ (pc = "settings" /\ enabled) \/ Deciding =>
          \E p \in Panels : KeepsAlive(p) /\ dropped[p] <= Age
    /\ Deciding =>
          \E p \in Panels : window = ParseWindow(p.window) /\ dropped[p] <= Age

(* The numbers of a panel, and what is made of them.                       *)
LEMMA NumbersRead ==
    ASSUME NEW p \in Panels
    PROVE  /\ GetInt(p.interval, DefaultInterval) \in Int
           /\ Backoff(p) \in Int
           /\ Interval(p) \in Int
           /\ Interval(p) >= MinInterval
<1> DEFINE i == GetInt(p.interval, DefaultInterval)
<1>1. i \in Int /\ Backoff(p) \in Int
  BY TimesAssumption DEF GetInt, Backoff
<1>2. MinInterval \in Int
  BY TimesAssumption
<1> HIDE DEF i
<1>3. \E x \in {MinInterval, i} : \A y \in {MinInterval, i} : x >= y
  BY <1>1, <1>2
<1>4. /\ Max({MinInterval, i}) \in {MinInterval, i}
      /\ \A y \in {MinInterval, i} : Max({MinInterval, i}) >= y
  BY <1>3 DEF Max
<1> QED
  BY <1>1, <1>2, <1>4 DEF Interval, i

LEMMA ClockTypeInit == Init => ClockType
BY TimesAssumption DEF Init, ClockType, Pc, Stale

LEMMA ClockTypeStep == ClockType /\ [Next]_vars => ClockType'
<1> SUFFICES ASSUME ClockType, [Next]_vars PROVE ClockType'
  OBVIOUS
<1> USE TimesAssumption DEF ClockType, Pc, Calls, Sleeps
<1>1. CASE ReadsEnabled
  <2>1. KeepsAlive(panel) \in BOOLEAN
    BY Zenon DEF KeepsAlive, GetBool
  <2> QED
    BY <1>1, <2>1 DEF ReadsEnabled, timeVars
<1>2. CASE Applies
  BY <1>2, NumbersRead DEF Applies, timeVars
<1>3. CASE Judges
  BY <1>3 DEF Judges, settingVars, timeVars
<1>4. CASE ChecksTunnel \/ Adopts \/ PassRaises
  BY <1>4 DEF ChecksTunnel, Adopts, PassRaises, settingVars, timeVars
<1>5. CASE FindsNone \/ OutOfWindow \/ TooSoon
  BY <1>5 DEF FindsNone, OutOfWindow, TooSoon, settingVars, timeVars
<1>6. CASE Attempts
  BY <1>6 DEF Attempts, settingVars
<1>7. CASE LaunchEnds
  BY <1>7 DEF LaunchEnds, settingVars, timeVars
<1>8. CASE OthersChangeTheState
  BY <1>8 DEF OthersChangeTheState, settingVars, loopVars, timeVars
<1>9. CASE AdminEdits
  BY <1>9 DEF AdminEdits, settingVars, loopVars
<1>10. CASE Tick
  <2>1. minute' \in 0 .. Day - 1
    BY <1>10 DEF Tick
  <2>2. Stale \in Nat
    BY DEF Stale
  <2>3. dropped' \in [Panels -> Nat] /\ dropped'[panel'] = 0
    BY <1>10, <2>2 DEF Tick, UpTo
  <2> QED
    BY <1>10, <2>1, <2>3 DEF Tick, settingVars
<1>11. CASE UNCHANGED vars
  BY <1>11 DEF vars, settingVars, loopVars, timeVars
<1> QED
  BY <1>1, <1>2, <1>3, <1>4, <1>5, <1>6, <1>7, <1>8, <1>9, <1>10, <1>11 DEF Next, Loop

LEMMA AskedInit == Init => AskedLately
BY DEF Init, AskedLately, Deciding

(* No step lets a pass go by older settings than it has lasted.            *)
LEMMA AskedStep == ClockType /\ AskedLately /\ [Next]_vars => AskedLately'
<1> SUFFICES ASSUME ClockType, AskedLately, [Next]_vars PROVE AskedLately'
  OBVIOUS
<1>0. Slowness \in Nat /\ Stale = 2 * Slowness
  BY TimesAssumption DEF Stale
<1> USE <1>0 DEF ClockType, AskedLately, Deciding, Age, Calls, Sleeps
<1>1. CASE ReadsEnabled
  BY <1>1 DEF ReadsEnabled, timeVars
<1>2. CASE Applies
  <2>1. CASE enabled
    <3>1. pc = "settings" /\ pc' = "tick" /\ Age <= Slowness /\ Age' = Slowness
      BY <1>2, <2>1 DEF Applies
    <3>2. window' = ParseWindow(panel.window) /\ dropped' = dropped /\ enabled' = enabled
      BY <1>2 DEF Applies, timeVars
    <3> QED
      BY <2>1, <3>1, <3>2
  <2>2. CASE ~ enabled
    BY <1>2, <2>2 DEF Applies
  <2> QED
    BY <2>1, <2>2
<1>3. CASE Judges
  BY <1>3 DEF Judges, settingVars, timeVars
<1>4. CASE ChecksTunnel \/ Adopts \/ PassRaises
  BY <1>4 DEF ChecksTunnel, Adopts, PassRaises, settingVars, timeVars
<1>5. CASE FindsNone
  <2>1. /\ pc = "probe_adopt" /\ pc' = "decide" /\ Age <= Stale /\ Age' = Stale
        /\ UNCHANGED <<enabled, window, dropped>>
    BY <1>5 DEF FindsNone, settingVars, timeVars
  <2> QED
    BY <2>1
<1>12. CASE OutOfWindow \/ TooSoon
  BY <1>12 DEF OutOfWindow, TooSoon, settingVars, timeVars
<1>6. CASE Attempts
  BY <1>6 DEF Attempts, settingVars
<1>7. CASE LaunchEnds
  BY <1>7 DEF LaunchEnds, settingVars, timeVars
<1>8. CASE OthersChangeTheState
  BY <1>8 DEF OthersChangeTheState, settingVars, loopVars, timeVars
<1>9. CASE AdminEdits
  <2>1. \A p \in Panels : dropped'[p] <= dropped[p]
    BY <1>9 DEF AdminEdits
  <2> QED
    BY <1>9, <2>1 DEF AdminEdits, settingVars, loopVars
<1>10. CASE Tick
  <2>1. \A p \in Panels : dropped'[p] <= dropped[p] + 1
    BY <1>10 DEF Tick, UpTo
  <2>2. pc' = pc /\ left' = left - 1 /\ left > 0 /\ enabled' = enabled /\ window' = window
    BY <1>10 DEF Tick, settingVars
  <2>3. Age' = Age + 1 \/ pc \notin {"settings", "probe_adopt"}
    BY <2>2
  <2>4. pc \notin {"tick", "decide"}
    BY <2>2
  <2>5. Age \in Int
    BY <2>2
  <2> HIDE DEF Age
  <2>6. CASE pc \in {"settings", "probe_adopt"}
    <3>1. ASSUME NEW p \in Panels, dropped[p] <= Age PROVE dropped'[p] <= Age'
      <4>1. dropped[p] \in Nat /\ dropped'[p] \in Nat
        BY ClockTypeStep
      <4> QED
        BY <2>1, <2>3, <2>5, <2>6, <3>1, <4>1
    <3> QED
      BY <2>2, <2>6, <3>1
  <2> QED
    BY <2>2, <2>4, <2>6
<1>11. CASE UNCHANGED vars
  BY <1>11 DEF vars, settingVars, loopVars, timeVars
<1> QED
  BY <1>1, <1>2, <1>3, <1>4, <1>5, <1>6, <1>7, <1>8, <1>9, <1>10, <1>11, <1>12 DEF Next, Loop

(* The supervisor never launches against the admin's wish, whatever the    *)
(* panel holds and however it is edited while a pass is under way.         *)
THEOREM LaunchesWhenWanted == Spec => OnlyWhenWanted
<1>1. ClockType /\ AskedLately /\ [Next]_vars =>
        [Attempts =>
          /\ \E p \in Panels : dropped[p] <= Stale /\ KeepsAlive(p)
          /\ \E p \in Panels : dropped[p] <= Stale /\ Wanted(p, minute)]_vars
  <2> SUFFICES ASSUME ClockType, AskedLately, Attempts
               PROVE  /\ \E p \in Panels : dropped[p] <= Stale /\ KeepsAlive(p)
                      /\ \E p \in Panels : dropped[p] <= Stale /\ Wanted(p, minute)
    OBVIOUS
  <2>1. pc = "decide" /\ InWindow(window, minute)
    BY DEF Attempts
  <2>2. \E p \in Panels : dropped[p] <= Stale /\ KeepsAlive(p)
    BY <2>1 DEF AskedLately, Deciding, Age
  <2>3. PICK p \in Panels : window = ParseWindow(p.window) /\ dropped[p] <= Stale
    BY <2>1 DEF AskedLately, Deciding, Age
  <2>4. Wanted(p, minute)
    BY <2>1, <2>3, WindowMeansItsText DEF ClockType
  <2> QED
    BY <2>2, <2>3, <2>4
<1> QED
  BY <1>1, ClockTypeInit, ClockTypeStep, AskedInit, AskedStep, PTL DEF Spec, OnlyWhenWanted

----------------------------------------------------------------------------
(* Why the launches are apart.  The time since the last one is what the    *)
(* thread remembers; a whole sleep lies between two passes; and once there *)
(* has been an attempt the session is never idle again, so that no pass    *)
(* finds it idle and skips the wait.                                       *)
Lacking == pc \in {"probe_adopt", "decide"}

Apart ==
    /\ state \in SessionState
    /\ gap \in 0..Long
    /\ since = gap
    /\ interval >= MinInterval
    /\ retry_backoff \in Int
    /\ state = "idle" => gap = Long
    /\ Lacking => snap \in SessionState \ Claimed
    /\ Lacking /\ snap = "idle" => gap = Long
    /\ pc = "sleep" => gap >= interval - left \/ gap = Long
    /\ pc \in {"settings", "tick"} \/ Lacking => gap >= MinInterval

LEMMA LongIsLong ==
    MinInterval \in 0..Long /\ EndDelay \in 0..Long /\ Long \in Nat
BY LongAssumption, TimesAssumption

LEMMA ApartInit == Init => Apart
<1>1. DefaultInterval >= MinInterval
  BY IntervalAssumption
<1> QED
  BY <1>1, LongIsLong, TimesAssumption
  DEF Init, Apart, Lacking, SessionInit, SessionState

(* No step shortens the time between two launches.                         *)
LEMMA ApartStep == ClockType /\ Apart /\ [Next]_vars => Apart'
<1> SUFFICES ASSUME ClockType, Apart, [Next]_vars PROVE Apart'
  OBVIOUS
<1> USE LongIsLong, TimesAssumption
    DEF ClockType, Apart, Lacking, Calls, Sleeps, SessionState, Claimed, sessionVars
<1>1. CASE ReadsEnabled
  BY <1>1 DEF ReadsEnabled, timeVars
<1>2. CASE Applies
  BY <1>2, NumbersRead DEF Applies, timeVars
<1>3. CASE Judges
  BY <1>3 DEF Judges, settingVars, timeVars
<1>4. CASE ChecksTunnel \/ Adopts \/ PassRaises
  BY <1>4
  DEF ChecksTunnel, Adopts, PassRaises, MarkError, AdoptRunning, settingVars, timeVars
<1>5. CASE FindsNone \/ OutOfWindow \/ TooSoon
  BY <1>5 DEF FindsNone, OutOfWindow, TooSoon, settingVars, timeVars
<1>6. CASE Attempts
  BY <1>6 DEF Attempts, TryBeginStart, settingVars
<1>7. CASE LaunchEnds
  BY <1>7 DEF LaunchEnds, MarkError, settingVars, timeVars
<1>8. CASE OthersChangeTheState
  BY <1>8
  DEF OthersChangeTheState, TryBeginStart, MarkReady, MarkEnded, MarkError, StartTimesOut,
      settingVars, loopVars, timeVars
<1>9. CASE AdminEdits
  BY <1>9 DEF AdminEdits, settingVars, loopVars
<1>10. CASE Tick
  BY <1>10 DEF Tick, UpTo, settingVars
<1>11. CASE UNCHANGED vars
  BY <1>11 DEF vars, settingVars, loopVars, timeVars
<1> QED
  BY <1>1, <1>2, <1>3, <1>4, <1>5, <1>6, <1>7, <1>8, <1>9, <1>10, <1>11 DEF Next, Loop

(* Whatever the panel says, and whoever changes the state meanwhile, the   *)
(* supervisor leaves its launches apart.                                   *)
THEOREM LaunchesAreApart == Spec => AttemptsSpaced
<1>1. ClockType /\ Apart /\ [Next]_vars =>
        [Attempts =>
          /\ gap >= MinInterval
          /\ snap = "error" => gap >= retry_backoff
          /\ gap >= EndDelay \/ gap >= retry_backoff]_vars
  <2> SUFFICES ASSUME ClockType, Apart, Attempts
               PROVE  /\ gap >= MinInterval
                      /\ snap = "error" => gap >= retry_backoff
                      /\ gap >= EndDelay \/ gap >= retry_backoff
    OBVIOUS
  <2>1. pc = "decide" /\ since >= Wait
    BY DEF Attempts
  <2>2. /\ snap = "idle" \/ Wait = EndDelay \/ Wait = retry_backoff
        /\ snap = "error" => Wait = retry_backoff
    BY <2>1 DEF Apart, Lacking, SessionState, Claimed, Wait
  <2> QED
    BY <2>1, <2>2, LongIsLong DEF Apart, Lacking
<1> QED
  BY <1>1, ClockTypeInit, ClockTypeStep, ApartInit, ApartStep, PTL DEF Spec, AttemptsSpaced

----------------------------------------------------------------------------
(* The longest of the waits.                                               *)

(* Of a finite set of numbers, not empty, Max is the greatest: a number    *)
(* that has the fewest above it has none above it.                         *)
LEMMA MaxIsGreatest ==
    ASSUME NEW S \in SUBSET Int, S # {}, IsFiniteSet(S)
    PROVE  Max(S) \in S /\ \A y \in S : Max(S) >= y
<1> DEFINE Above(x) == {y \in S : y > x}
           Aboves == {Above(x) : x \in S}
<1>1. Aboves \subseteq FiniteSubsetsOf(S)
  BY FS_FiniteSubsetsOfFinite
<1>2. PICK U \in Aboves : \A V \in Aboves : <<V, U>> \notin StrictSubsetOrdering(S)
  <2>1. IsWellFoundedOn(StrictSubsetOrdering(S), FiniteSubsetsOf(S))
    BY FS_StrictSubsetOrderingWellFounded
  <2>2. Aboves # {}
    OBVIOUS
  <2> HIDE DEF Aboves
  <2> QED
    BY <1>1, <2>1, <2>2, WFMin
<1>3. PICK x \in S : U = Above(x)
  OBVIOUS
<1>4. ASSUME NEW y \in S, y > x PROVE FALSE
  <2> S \subseteq Int /\ x \in Int /\ y \in Int
    OBVIOUS
  <2>1. /\ \A z \in S : z > y => z > x
        /\ ~ y > y
    BY <1>4
  <2>3. Above(y) \subseteq U
    BY <1>3, <2>1
  <2>4. y \in U /\ y \notin Above(y)
    BY <1>3, <1>4, <2>1
  <2>2. <<Above(y), U>> \in StrictSubsetOrdering(S)
    BY <1>3, <2>3, <2>4 DEF StrictSubsetOrdering
  <2> QED
    BY <1>2, <2>2
<1>5. \E z \in S : \A y \in S : z >= y
  BY <1>4
<1> QED
  BY <1>5 DEF Max

LEMMA IntervalsAreBounded ==
    /\ LongestInterval \in Int
    /\ DefaultInterval <= LongestInterval
    /\ \A p \in Panels : Interval(p) <= LongestInterval
<1> DEFINE S == {Interval(p) : p \in Panels} \union {DefaultInterval}
<1>1. S \in SUBSET Int /\ S # {}
  BY NumbersRead, TimesAssumption
<1>2. IsFiniteSet(S)
  BY PanelsAssumption, FS_AddElement
<1>3. Max(S) \in S /\ \A y \in S : Max(S) >= y
  <2> HIDE DEF S
  <2> QED
    BY <1>1, <1>2, MaxIsGreatest
<1> QED
  BY <1>1, <1>3 DEF LongestInterval

(* The greatest of three.                                                  *)
LEMMA MaxOfThree ==
    ASSUME NEW a \in Int, NEW b \in Int, NEW c \in Int
    PROVE  /\ Max({a, b, c}) \in Int
           /\ a <= Max({a, b, c}) /\ b <= Max({a, b, c}) /\ c <= Max({a, b, c})
<1>1. \E z \in {a, b, c} : \A y \in {a, b, c} : z >= y
  OBVIOUS
<1>2. Max({a, b, c}) \in {a, b, c} /\ \A y \in {a, b, c} : Max({a, b, c}) >= y
  BY <1>1 DEF Max
<1> QED
  BY <1>2

----------------------------------------------------------------------------
(* Why a missing session is tried for in time.                             *)

(* The longest wait that begins while a session may be missing already:    *)
(* the rest of the delay since an attempt, a launch that fails, or a pass  *)
(* whose settings are out of date.                                         *)
LongestWait == Max({Long - 1, LaunchTime, Stale})

LEMMA WaitsAreBounded ==
    /\ LongestWait \in Int
    /\ Long - 1 <= LongestWait /\ LaunchTime <= LongestWait /\ Stale <= LongestWait
    /\ Stale = 2 * Slowness
    /\ LongestLack = LongestWait + LongestInterval + Stale
<1>1. Long - 1 \in Int /\ LaunchTime \in Int /\ Stale \in Int
  BY LongAssumption, TimesAssumption DEF Stale
<1> QED
  BY <1>1, MaxOfThree DEF LongestWait, LongestLack, Stale

(* What the loop waits for lasts no longer than it may.                    *)
LeftInTime ==
    /\ left \in Nat
    /\ pc = "sleep" => left <= LongestInterval
    /\ pc \in {"settings", "probe_adopt", "probe_tunnel"} => left <= Slowness
    /\ pc \in {"tick", "decide"} => left = 0
    /\ pc = "launch" => left <= LaunchTime

(* What the loop remembers was read from some panel, or is the default.    *)
MemoryType ==
    /\ SessionTypeOK
    /\ interval \in MinInterval .. LongestInterval
    /\ retry_backoff \in {Backoff(p) : p \in Panels} \union {DefaultBackoff}
    /\ window \in {ParseWindow(p.window) : p \in Panels} \union {None}
    /\ snap \in SessionState
    /\ since \in 0..Long
    /\ gap \in 0..Long
    /\ dropped \in [Panels -> 0 .. Stale + 1]
    /\ lacking \in Nat

(* A session is missing only while it is asked for, and no longer than the *)
(* last attempt is ago.                                                    *)
MissedForAReason ==
    /\ state \in Claimed => lacking = 0
    /\ lacking > 0 => KeepsAlive(panel)
    /\ since < Long => lacking <= since

ReadLately == window = ParseWindow(panel.window)

(* How long it has been missing, place by place: no longer than the loop   *)
(* has been on its way since it last looked.  The loop may go to sleep     *)
(* without an attempt only out of the window, when the session is not      *)
(* wanted and the next minute counts from the start, or with settings so   *)
(* fresh out of date that it was not missing before.                       *)
MissingFor ==
    /\ pc = "sleep" =>
          \/ lacking <= LongestWait + LongestInterval - left
          \/ left > 0 /\ ~ AsksForSession /\ lacking <= LongestLack
    /\ pc = "settings" =>
          /\ lacking <= LongestWait + LongestInterval + Slowness - left
          /\ enabled \/ lacking <= Slowness - left
    /\ pc = "tick" =>
          /\ lacking <= LongestWait + LongestInterval + Slowness
          /\ ReadLately \/ lacking = 0
    /\ pc = "probe_adopt" =>
          /\ lacking <= LongestLack - left
          /\ ReadLately \/ lacking <= Slowness - left
    /\ pc = "decide" =>
          /\ lacking <= LongestLack
          /\ ReadLately \/ lacking <= Slowness
    /\ pc = "launch" => lacking <= LaunchTime - left
    /\ pc = "probe_tunnel" => lacking <= Slowness - left

KeepAliveInv == ClockType /\ LeftInTime /\ MemoryType /\ MissedForAReason /\ MissingFor

LEMMA KeepAliveInit == Init => KeepAliveInv
<1> SUFFICES ASSUME Init PROVE KeepAliveInv
  OBVIOUS
<1> USE TimesAssumption, LongAssumption, WaitsAreBounded, IntervalsAreBounded
<1>1. ClockType
  BY ClockTypeInit
<1>2. LeftInTime
  BY DEF Init, LeftInTime
<1>3. MemoryType
  <2>1. Stale \in Nat
    BY DEF Stale
  <2>2. SessionTypeOK
    BY DEF Init, SessionInit, SessionTypeOK, SessionState
  <2>3. dropped \in [Panels -> 0 .. Stale + 1]
    BY <2>1 DEF Init
  <2>4. interval \in MinInterval .. LongestInterval
    BY IntervalAssumption DEF Init
  <2>5. since \in 0..Long /\ gap \in 0..Long /\ lacking \in Nat /\ snap \in SessionState
    BY DEF Init, SessionState
  <2>6. /\ retry_backoff \in {Backoff(p) : p \in Panels} \union {DefaultBackoff}
        /\ window \in {ParseWindow(p.window) : p \in Panels} \union {None}
    BY DEF Init
  <2> QED
    BY <2>2, <2>3, <2>4, <2>5, <2>6 DEF MemoryType
<1>4. MissedForAReason /\ MissingFor
  BY DEF Init, MissedForAReason, MissingFor, SessionInit, Claimed
<1> QED
  BY <1>1, <1>2, <1>3, <1>4 DEF KeepAliveInv

LEMMA LeftStep == ClockType /\ LeftInTime /\ MemoryType /\ [Next]_vars => LeftInTime'
<1> SUFFICES ASSUME ClockType, LeftInTime, MemoryType, [Next]_vars PROVE LeftInTime'
  OBVIOUS
<1>0. /\ interval \in Nat /\ interval <= LongestInterval
      /\ Slowness \in Nat /\ LaunchTime \in Nat
  BY TimesAssumption, IntervalsAreBounded DEF MemoryType
<1> USE <1>0 DEF LeftInTime, Calls, Sleeps
<1>1. CASE ReadsEnabled
  BY <1>1 DEF ReadsEnabled
<1>2. CASE Applies
  <2>1. interval' \in Nat /\ interval' <= LongestInterval
    BY <1>2, NumbersRead, IntervalsAreBounded, TimesAssumption DEF Applies, ClockType
  <2> QED
    BY <1>2, <2>1 DEF Applies
<1>3. CASE Judges
  BY <1>3 DEF Judges, settingVars
<1>4. CASE ChecksTunnel \/ Adopts \/ PassRaises
  BY <1>4 DEF ChecksTunnel, Adopts, PassRaises
<1>5. CASE FindsNone \/ OutOfWindow \/ TooSoon
  BY <1>5 DEF FindsNone, OutOfWindow, TooSoon
<1>6. CASE Attempts
  BY <1>6 DEF Attempts
<1>7. CASE LaunchEnds
  BY <1>7 DEF LaunchEnds
<1>8. CASE OthersChangeTheState \/ AdminEdits
  BY <1>8 DEF OthersChangeTheState, AdminEdits, loopVars
<1>10. CASE Tick
  BY <1>10, IntervalsAreBounded DEF Tick
<1>11. CASE UNCHANGED vars
  BY <1>11 DEF vars, loopVars
<1> QED
  BY <1>1, <1>2, <1>3, <1>4, <1>5, <1>6, <1>7, <1>8, <1>10, <1>11 DEF Next, Loop

LEMMA MemoryStep == ClockType /\ MemoryType /\ [Next]_vars => MemoryType'
<1> SUFFICES ASSUME ClockType, MemoryType, [Next]_vars PROVE MemoryType'
  OBVIOUS
<1>0. Long \in Nat /\ Stale \in Nat
  BY TimesAssumption, LongAssumption DEF Stale
<1> USE <1>0
    DEF MemoryType, Calls, Sleeps, SessionTypeOK, SessionState, Claimed, sessionVars
<1>1. CASE ReadsEnabled
  BY <1>1 DEF ReadsEnabled, timeVars
<1>2. CASE Applies
  <2>1. interval' \in MinInterval .. LongestInterval
    BY <1>2, NumbersRead, IntervalsAreBounded, TimesAssumption DEF Applies, ClockType
  <2> QED
    BY <1>2, <2>1 DEF Applies, ClockType, timeVars
<1>3. CASE Judges
  BY <1>3 DEF Judges, settingVars, timeVars
<1>4. CASE ChecksTunnel \/ Adopts \/ PassRaises
  BY <1>4
  DEF ChecksTunnel, Adopts, PassRaises, MarkError, ErrorDetail, AdoptRunning, settingVars,
      timeVars
<1>5. CASE FindsNone \/ OutOfWindow \/ TooSoon
  BY <1>5 DEF FindsNone, OutOfWindow, TooSoon, settingVars, timeVars
<1>6. CASE Attempts
  BY <1>6 DEF Attempts, TryBeginStart, settingVars
<1>7. CASE LaunchEnds
  BY <1>7 DEF LaunchEnds, MarkError, ErrorDetail, settingVars, timeVars
<1>8. CASE OthersChangeTheState
  BY <1>8
  DEF OthersChangeTheState, TryBeginStart, MarkReady, MarkEnded, MarkError, StartTimesOut,
      ErrorDetail, settingVars, loopVars, timeVars
<1>9. CASE AdminEdits
  BY <1>9 DEF AdminEdits, settingVars, loopVars
<1>10. CASE Tick
  BY <1>10 DEF Tick, UpTo, settingVars
<1>11. CASE UNCHANGED vars
  BY <1>11 DEF vars, settingVars, loopVars, timeVars
<1> QED
  BY <1>1, <1>2, <1>3, <1>4, <1>5, <1>6, <1>7, <1>8, <1>9, <1>10, <1>11 DEF Next, Loop

(* KeepsAlive(panel) stays, or nothing is missing.                         *)
LEMMA ReasonStep ==
    ClockType /\ MemoryType /\ MissedForAReason /\ [Next]_vars => MissedForAReason'
<1> SUFFICES ASSUME ClockType, MemoryType, MissedForAReason, [Next]_vars
             PROVE  MissedForAReason'
  OBVIOUS
<1>0. Long \in Nat
  BY LongAssumption
<1> USE <1>0 DEF MissedForAReason, MemoryType, Claimed, sessionVars
<1>1. CASE ReadsEnabled \/ Applies
  BY <1>1 DEF ReadsEnabled, Applies, timeVars
<1>3. CASE Judges
  BY <1>3 DEF Judges, timeVars
<1>4. CASE ChecksTunnel \/ Adopts \/ PassRaises
  BY <1>4 DEF ChecksTunnel, Adopts, PassRaises, MarkError, AdoptRunning, timeVars
<1>5. CASE FindsNone \/ OutOfWindow \/ TooSoon
  BY <1>5 DEF FindsNone, OutOfWindow, TooSoon, timeVars
<1>6. CASE Attempts
  BY <1>6 DEF Attempts, TryBeginStart
<1>7. CASE LaunchEnds
  BY <1>7 DEF LaunchEnds, MarkError, timeVars
<1>8. CASE OthersChangeTheState
  BY <1>8
  DEF OthersChangeTheState, TryBeginStart, MarkReady, MarkEnded, MarkError, StartTimesOut,
      timeVars
<1>9. CASE AdminEdits
  BY <1>9 DEF AdminEdits
<1>10. CASE Tick
  BY <1>10 DEF Tick, UpTo, AsksForSession
<1>11. CASE UNCHANGED vars
  BY <1>11 DEF vars, timeVars
<1> QED
  BY <1>1, <1>3, <1>4, <1>5, <1>6, <1>7, <1>8, <1>9, <1>10, <1>11 DEF Next, Loop

(* How long a session has been missing, step by step.                      *)
LEMMA MissingStep == KeepAliveInv /\ [Next]_vars => MissingFor'
<1> SUFFICES ASSUME KeepAliveInv, [Next]_vars PROVE MissingFor'
  OBVIOUS
<1>0. /\ Long \in Nat /\ Slowness \in Nat /\ LaunchTime \in Nat /\ LongestInterval \in Nat
      /\ LongestWait \in Nat /\ Long - 1 <= LongestWait /\ LaunchTime <= LongestWait
      /\ 2 * Slowness <= LongestWait
      /\ LongestLack = LongestWait + LongestInterval + 2 * Slowness
  BY TimesAssumption, LongAssumption, IntervalsAreBounded, WaitsAreBounded
<1>00. /\ lacking \in Nat /\ left \in Nat /\ since \in 0..Long
       /\ interval \in Nat /\ interval <= LongestInterval /\ interval > 0
       /\ panel \in Panels /\ minute \in 0 .. Day - 1 /\ enabled \in BOOLEAN
  BY TimesAssumption, IntervalsAreBounded DEF KeepAliveInv, ClockType, LeftInTime, MemoryType
<1> HIDE DEF LongestWait, LongestInterval, LongestLack
<1> USE <1>0, <1>00 DEF Calls, Sleeps
(* A sleep that begins with so little missing is long enough by itself.    *)
<1>s. ASSUME Sleeps, lacking' \in Nat, lacking' <= LongestWait PROVE MissingFor'
  BY <1>s DEF MissingFor
<1>1. CASE ReadsEnabled
  <2>1. pc = "sleep" /\ left = 0 /\ pc' = "settings" /\ left' = Slowness /\ lacking' = lacking
        /\ enabled' = KeepsAlive(panel)
    BY <1>1 DEF ReadsEnabled
  <2>2. lacking <= LongestWait + LongestInterval
    BY <2>1 DEF KeepAliveInv, MissingFor
  <2>3. lacking > 0 => enabled'
    BY <2>1 DEF KeepAliveInv, MissedForAReason
  <2> QED
    BY <2>1, <2>2, <2>3 DEF MissingFor
<1>2. CASE Applies
  <2>1. pc = "settings" /\ left <= Slowness /\ lacking' = lacking
        /\ window' = ParseWindow(panel'.window)
    BY <1>2 DEF Applies, KeepAliveInv, LeftInTime
  <2>2. /\ lacking <= LongestWait + LongestInterval + Slowness - left
        /\ enabled \/ lacking <= Slowness - left
    BY <2>1 DEF KeepAliveInv, MissingFor
  <2>3. CASE enabled
    BY <1>2, <2>1, <2>2, <2>3 DEF Applies, MissingFor, ReadLately
  <2>4. CASE ~ enabled
    <3>1. pc' = "sleep" /\ left' = Interval(panel)
      BY <1>2, <2>4 DEF Applies
    <3>2. Interval(panel) \in Nat /\ Interval(panel) <= LongestInterval
      BY NumbersRead, IntervalsAreBounded, TimesAssumption
    <3>3. lacking <= Slowness - left
      BY <2>2, <2>4
    <3>4. lacking' = lacking /\ lacking <= LongestWait + LongestInterval - Interval(panel)
      BY <2>1, <3>1, <3>2, <3>3, NumbersRead
    <3> QED
      BY <3>1, <3>4 DEF MissingFor
  <2> QED
    BY <2>3, <2>4
<1>3. CASE Judges
  <2>1. pc = "tick" /\ lacking' = lacking /\ UNCHANGED <<window, panel>>
    BY <1>3 DEF Judges, settingVars
  <2>2. /\ lacking <= LongestWait + LongestInterval + Slowness
        /\ ReadLately \/ lacking = 0
    BY <2>1 DEF KeepAliveInv, MissingFor
  <2>3. CASE state = "starting"
    BY <1>3, <1>s, <2>1, <2>3 DEF Judges, KeepAliveInv, MissedForAReason, Claimed
  <2>4. CASE state = "ready"
    <3>1. lacking' = 0 /\ pc' = "probe_tunnel" /\ left' = Slowness
      BY <1>3, <2>1, <2>4 DEF Judges, KeepAliveInv, MissedForAReason, Claimed
    <3> QED
      BY <3>1 DEF MissingFor
  <2>5. CASE state \notin {"starting", "ready"}
    <3>1. pc' = "probe_adopt" /\ left' = Slowness
      BY <1>3, <2>5 DEF Judges
    <3> QED
      BY <2>1, <2>2, <3>1 DEF MissingFor, ReadLately
  <2> QED
    BY <2>3, <2>4, <2>5
<1>4. CASE ChecksTunnel
  <2>1. lacking' = lacking /\ lacking <= Slowness /\ Sleeps
    BY <1>4 DEF ChecksTunnel, KeepAliveInv, LeftInTime, MissingFor
  <2> QED
    BY <1>s, <2>1
<1>12. CASE Adopts \/ PassRaises
  BY <1>12, <1>s DEF Adopts, PassRaises
<1>5. CASE FindsNone
  <2>1. pc = "probe_adopt" /\ pc' = "decide" /\ lacking' = lacking
        /\ UNCHANGED <<window, panel>>
    BY <1>5 DEF FindsNone, settingVars
  <2>2. /\ lacking <= LongestLack - left
        /\ ReadLately \/ lacking <= Slowness - left
    BY <2>1 DEF KeepAliveInv, MissingFor
  <2> QED
    BY <2>1, <2>2 DEF MissingFor, ReadLately
<1>13. CASE OutOfWindow
  <2>1. pc = "decide" /\ lacking' = lacking /\ Sleeps /\ UNCHANGED <<panel, minute>>
    BY <1>13 DEF OutOfWindow, timeVars
  <2>2. /\ lacking <= LongestLack
        /\ ReadLately \/ lacking <= Slowness
    BY <2>1 DEF KeepAliveInv, MissingFor
  <2>3. CASE ReadLately
    <3>1. ~ Wanted(panel, minute)
      BY <1>13, <2>3, WindowMeansItsText DEF OutOfWindow, ReadLately
    <3>2. ~ AsksForSession'
      BY <2>1, <3>1 DEF AsksForSession
    <3> QED
      BY <2>1, <2>2, <3>2 DEF MissingFor
  <2> QED
    BY <1>s, <2>1, <2>2, <2>3
<1>14. CASE TooSoon
  <2>1. lacking' = lacking /\ Sleeps /\ since < Wait
    BY <1>14 DEF TooSoon
  <2>2. Wait <= Long
    BY LongAssumption DEF Wait, KeepAliveInv, MemoryType
  <2>3. lacking <= since
    <3>1. Wait \in Int
      BY NumbersRead, TimesAssumption DEF Wait, KeepAliveInv, MemoryType
    <3> QED
      BY <2>1, <2>2, <3>1 DEF KeepAliveInv, MissedForAReason
  <2>4. since < Long
    <3>1. Wait \in Int
      BY NumbersRead, TimesAssumption DEF Wait, KeepAliveInv, MemoryType
    <3> QED
      BY <2>1, <2>2, <3>1
  <2> QED
    BY <1>s, <2>1, <2>3, <2>4
<1>6. CASE Attempts
  <2>1. lacking' = 0 /\ ((pc' = "launch" /\ left' = LaunchTime) \/ Sleeps)
    BY <1>6 DEF Attempts
  <2> QED
    BY <1>s, <2>1 DEF MissingFor
<1>7. CASE LaunchEnds
  <2>1. lacking' = lacking /\ lacking <= LaunchTime /\ Sleeps
    BY <1>7 DEF LaunchEnds, KeepAliveInv, LeftInTime, MissingFor
  <2> QED
    BY <1>s, <2>1
<1>8. CASE OthersChangeTheState
  <2>1. /\ lacking' \in {0, lacking}
        /\ UNCHANGED <<panel, enabled, window, pc, left, minute>>
    BY <1>8 DEF OthersChangeTheState, settingVars, loopVars, timeVars
  <2> QED
    BY <2>1 DEF KeepAliveInv, LeftInTime, MissingFor, ReadLately, AsksForSession
<1>9. CASE AdminEdits
  <2>1. lacking' = 0 /\ pc' = pc /\ left' = left
    BY <1>9 DEF AdminEdits, loopVars
  <2> QED
    BY <2>1 DEF KeepAliveInv, LeftInTime, MissingFor
<1>10. CASE Tick
  <2>1. /\ left > 0 /\ left' = left - 1
        /\ lacking' = lacking + 1 \/ lacking' = 0
        /\ ~ AsksForSession => lacking' = 0
        /\ UNCHANGED <<panel, enabled, window, pc>>
    BY <1>10 DEF Tick, settingVars
  <2>2. CASE lacking' = 0
    BY <2>1, <2>2 DEF KeepAliveInv, LeftInTime, MissingFor
  <2>3. CASE lacking' = lacking + 1 /\ AsksForSession
    BY <2>1, <2>3 DEF KeepAliveInv, LeftInTime, MissingFor, ReadLately
  <2> QED
    BY <2>1, <2>2, <2>3
<1>11. CASE UNCHANGED vars
  BY <1>11
  DEF vars, settingVars, loopVars, timeVars, KeepAliveInv, MissingFor, ReadLately,
      AsksForSession
<1> QED
  BY <1>1, <1>2, <1>3, <1>4, <1>5, <1>6, <1>7, <1>8, <1>9, <1>10, <1>11, <1>12, <1>13, <1>14
  DEF Next, Loop

LEMMA Invariance == Spec => []KeepAliveInv
<1>1. KeepAliveInv /\ [Next]_vars => KeepAliveInv'
  BY ClockTypeStep, LeftStep, MemoryStep, ReasonStep, MissingStep DEF KeepAliveInv
<1> QED
  BY <1>1, KeepAliveInit, PTL DEF Spec

(* The type invariant, for every panel and every slowness.                 *)
THEOREM TypeCorrect == Spec => []TypeOK
<1>1. KeepAliveInv => TypeOK
  <2> SUFFICES ASSUME KeepAliveInv PROVE TypeOK
    OBVIOUS
  <2>1. left \in 0 .. Max({LongestInterval, Slowness, LaunchTime})
    <3>1. left <= LongestInterval \/ left <= Slowness \/ left <= LaunchTime
      BY TimesAssumption DEF KeepAliveInv, ClockType, Pc, LeftInTime
    <3>2. LongestInterval \in Int /\ Slowness \in Int /\ LaunchTime \in Int /\ left \in Nat
      BY IntervalsAreBounded, TimesAssumption DEF KeepAliveInv, LeftInTime
    <3> DEFINE longest == Max({LongestInterval, Slowness, LaunchTime})
    <3>3. /\ longest \in Int
          /\ LongestInterval <= longest /\ Slowness <= longest /\ LaunchTime <= longest
      BY <3>2, MaxOfThree
    <3> HIDE DEF longest, LongestInterval
    <3>4. left \in 0 .. longest
      BY <3>1, <3>2, <3>3
    <3> QED
      BY <3>4 DEF longest
  <2> QED
    BY <2>1 DEF KeepAliveInv, ClockType, MemoryType, TypeOK
<1> QED
  BY <1>1, Invariance, PTL

(* However the state and the panel change and however slow the calls are,  *)
(* a session the panel asks for is tried for within the bounded time.      *)
THEOREM SessionsComeBack == Spec => []ReturnsInTime
<1>1. KeepAliveInv => ReturnsInTime
  <2> SUFFICES ASSUME KeepAliveInv PROVE ReturnsInTime
    OBVIOUS
  <2>1. lacking \in Nat /\ left \in Nat
    BY DEF KeepAliveInv, MemoryType, LeftInTime
  <2>2. /\ LongestInterval \in Nat /\ LongestWait \in Nat /\ Slowness \in Nat
        /\ LaunchTime <= LongestWait /\ LaunchTime \in Nat
        /\ LongestLack = LongestWait + LongestInterval + 2 * Slowness
    BY TimesAssumption, IntervalsAreBounded, WaitsAreBounded
  <2> HIDE DEF LongestWait, LongestInterval, LongestLack
  <2>3. pc \in Pc
    BY DEF KeepAliveInv, ClockType
  <2> QED
    BY <2>1, <2>2, <2>3 DEF KeepAliveInv, MissingFor, LeftInTime, Pc, ReturnsInTime
<1> QED
  BY <1>1, Invariance, PTL

=============================================================================
