----------------------------- MODULE KeepAlive -----------------------------
(***************************************************************************)
(* When the supervisor acts: the settings its loop reads (supervisor.py,   *)
(* main.py) through the typed getters of runtime_config.py, the window it  *)
(* keeps to and the waits between its launches.  Every call takes time,    *)
(* the panel is edited and the session changed by others meanwhile.  What  *)
(* the calls do to the rotation and to the runs is AlwaysOn's.             *)
(***************************************************************************)
EXTENDS SessionLifecycle, Integers, FiniteSetsExt

CONSTANTS
    Unset, Blank, Junk, Yes,    \* texts of a setting that are no number and no window
    Panels,                     \* what the admin panel may hold, as texts
    Day,                        \* minutes of a day
    MinInterval,                \* the shortest interval _apply() takes
    DefaultInterval,            \* 60, of main.py
    DefaultBackoff,             \* 300, of main.py
    EndDelay,                   \* after_end_delay_seconds
    Slowness,                   \* the longest that settings or a probe take
    LaunchTime,                 \* the longest that a launch takes
    Long                        \* bound: longer waits than this are not told apart

NoWindow == {Unset, Blank, Junk}

Windows == (0 .. Day - 1) \X (0..Day)

ASSUME TextsAssumption ==
    /\ {Unset, Blank, Junk, Yes} \intersect Int = {}
    /\ (NoWindow \union {None}) \intersect Windows = {}
    /\ \A p \in Panels : p.window \in NoWindow \union Windows
ASSUME TimesAssumption ==
    /\ {Day, MinInterval, DefaultInterval} \subseteq Nat \ {0}
    /\ {DefaultBackoff, EndDelay, Slowness, LaunchTime} \subseteq Nat
ASSUME IntervalAssumption == DefaultInterval >= MinInterval

VARIABLES
    panel,          \* the settings as cfg would answer now
    enabled,        \* what the pass has read for Supervisor.enabled
    interval,       \* Supervisor.interval
    retry_backoff,  \* Supervisor.retry_backoff
    window,         \* Supervisor.window: None, or start and end minute
    pc,             \* where the loop is
    snap,           \* the state its pass goes by
    left,           \* how long the present wait lasts, or the present call may
    minute,         \* the minute of the day
    since,          \* how long ago _last_attempt is, up to Long
    gap,            \* ghost: how long ago launch() was last called, up to Long
    dropped,        \* ghost: how long ago each panel was replaced, up to Stale + 1
    lacking         \* ghost: how long a wanted session has been missing

settingVars == <<enabled, interval, retry_backoff, window>>

loopVars == <<pc, snap, left>>

timeVars == <<minute, since, gap, dropped>>

vars == <<sessionVars, panel, settingVars, loopVars, timeVars, lacking>>

Pc == {"sleep", "settings", "tick", "probe_adopt", "decide", "launch", "probe_tunnel"}

----------------------------------------------------------------------------
(* Texts and what is made of them.                                         *)

(* get_bool(name, default): "yes" and its like are true, other texts not.  *)
GetBool(text, default) == IF text \in {Unset, Blank} THEN default ELSE text = Yes

(* keep_alive().                                                           *)
KeepsAlive(p) == GetBool(p.enabled, FALSE)

(* get_int(name, default).                                                 *)
GetInt(text, default) == IF text \in Int THEN text ELSE default

(* parse_window(): no text and a bad one alike are no window.              *)
ParseWindow(text) == IF text \in NoWindow THEN None ELSE text

(* Mutant: a window past midnight is taken like any other.                 *)
InWindowUnwrapped(w, m) == w # None => w[1] <= m /\ m < w[2]

(* in_window().                                                            *)
InWindow(w, m) ==
    w # None => IF w[1] <= w[2] THEN w[1] <= m /\ m < w[2] ELSE w[1] <= m \/ m < w[2]

(* Mutant: an interval is taken as it is.                                  *)
IntervalUnbounded(p) == GetInt(p.interval, DefaultInterval)

Interval(p) == Max({MinInterval, GetInt(p.interval, DefaultInterval)})

Backoff(p) == GetInt(p.backoff, DefaultBackoff)

ASSUME PanelsAssumption == IsFiniteSet({Interval(p) : p \in Panels})
ASSUME LongAssumption ==
    /\ Long \in Nat
    /\ {MinInterval, EndDelay, DefaultBackoff} \subseteq 0..Long
    /\ \A p \in Panels : Backoff(p) <= Long

(* The wait after the last attempt, by the state the pass saw.             *)
Wait ==
    CASE snap = "ended" -> EndDelay
      [] snap = "error" -> retry_backoff
      [] OTHER -> 0

----------------------------------------------------------------------------
(* What the texts ask for, said without the code: the time to come until   *)
(* the minute strikes t next; a window is on if its end comes first.       *)

Ahead(m, t) == IF t > m THEN t - m ELSE t - m + Day

Wanted(p, m) ==
    \/ p.window \in NoWindow \union {<<0, Day>>}
    \/ Ahead(m, p.window[2]) < Ahead(m, p.window[1])

LongestInterval == Max({Interval(p) : p \in Panels} \union {DefaultInterval})

(* How old a setting may be when the pass that read it acts on it.         *)
Stale == 2 * Slowness

(* How long a session may be missing: until the wait since an attempt, or  *)
(* the attempt itself, is over, the loop may be asleep once more, and      *)
(* reads its settings and probes before it launches.                       *)
LongestLack == Max({Long - 1, LaunchTime, Stale}) + LongestInterval + Stale

TypeOK ==
    /\ SessionTypeOK
    /\ panel \in Panels
    /\ enabled \in BOOLEAN
    /\ interval \in MinInterval .. LongestInterval
    /\ retry_backoff \in {Backoff(p) : p \in Panels} \union {DefaultBackoff}
    /\ window \in {ParseWindow(p.window) : p \in Panels} \union {None}
    /\ pc \in Pc
    /\ snap \in SessionState
    /\ left \in 0 .. Max({LongestInterval, Slowness, LaunchTime})
    /\ minute \in 0 .. Day - 1
    /\ since \in 0..Long
    /\ gap \in 0..Long
    /\ dropped \in [Panels -> 0 .. Stale + 1]
    /\ lacking \in Nat

(* The constructor, and _last_attempt = 0.0.                               *)
Init ==
    /\ SessionInit
    /\ panel \in Panels
    /\ enabled = TRUE
    /\ interval = DefaultInterval
    /\ retry_backoff = DefaultBackoff
    /\ window = None
    /\ pc = "sleep"
    /\ snap = "idle"
    /\ left = 0
    /\ minute \in 0 .. Day - 1
    /\ since = Long
    /\ gap = Long
    /\ dropped = [p \in Panels |-> IF p = panel THEN 0 ELSE Stale + 1]
    /\ lacking = 0

----------------------------------------------------------------------------
(* The loop.                                                               *)

Calls(place, longest) == pc' = place /\ left' = longest

(* _stop.wait(interval), which ends every pass.                            *)
Sleeps == Calls("sleep", interval) /\ snap' = "idle"

(* Mutant: the settings are read once.                                     *)
ReadsEnabledOnce ==
    /\ pc = "sleep"
    /\ left = 0
    /\ Calls("settings", Slowness)
    /\ UNCHANGED <<sessionVars, panel, settingVars, snap, timeVars, lacking>>

(* _apply() asks for the settings, AUTO_KEEP_ALIVE first.                  *)
ReadsEnabled ==
    /\ pc = "sleep"
    /\ left = 0
    /\ enabled' = KeepsAlive(panel)
    /\ Calls("settings", Slowness)
    /\ UNCHANGED <<sessionVars, panel, interval, retry_backoff, window, snap, timeVars, lacking>>

(* The rest of _apply(), and whether there is a tick().                    *)
Applies ==
    /\ pc = "settings"
    /\ interval' = Interval(panel)
    /\ retry_backoff' = Backoff(panel)
    /\ window' = ParseWindow(panel.window)
    /\ IF enabled THEN Calls("tick", 0) ELSE Calls("sleep", interval')
    /\ UNCHANGED <<sessionVars, panel, enabled, snap, timeVars, lacking>>

(* tick() goes by one snapshot.  Lacking a session it first probes for one *)
(* to adopt, with a session ready for its health.                          *)
Judges ==
    /\ pc = "tick"
    /\ CASE state = "starting" -> Sleeps
         [] state = "ready"    -> Calls("probe_tunnel", Slowness) /\ snap' = state
         [] OTHER              -> Calls("probe_adopt", Slowness) /\ snap' = state
    /\ UNCHANGED <<sessionVars, panel, settingVars, timeVars, lacking>>

(* _check_tunnel(): how many misses make an error is AlwaysOn's.           *)
ChecksTunnel ==
    /\ pc = "probe_tunnel"
    /\ MarkError("tunnel") \/ UNCHANGED sessionVars
    /\ Sleeps
    /\ UNCHANGED <<panel, settingVars, timeVars, lacking>>

Adopts ==
    /\ pc = "probe_adopt"
    /\ AdoptRunning
    /\ Sleeps
    /\ lacking' = 0
    /\ UNCHANGED <<panel, settingVars, timeVars>>

(* What is raised in a pass is swallowed by the loop: by a probe, or by a  *)
(* setting that _apply() or snapshot() reads.  _apply() has assigned none  *)
(* of its settings then.                                                   *)
PassRaises ==
    /\ pc \in {"settings", "tick", "probe_adopt", "probe_tunnel"}
    /\ Sleeps
    /\ lacking' = 0
    /\ UNCHANGED <<sessionVars, panel, settingVars, timeVars>>

FindsNone ==
    /\ pc = "probe_adopt"
    /\ Calls("decide", 0)
    /\ UNCHANGED <<sessionVars, panel, settingVars, snap, timeVars, lacking>>

OutOfWindow ==
    /\ pc = "decide"
    /\ ~ InWindow(window, minute)
    /\ Sleeps
    /\ UNCHANGED <<sessionVars, panel, settingVars, timeVars, lacking>>

TooSoon ==
    /\ pc = "decide"
    /\ InWindow(window, minute)
    /\ since < Wait
    /\ Sleeps
    /\ UNCHANGED <<sessionVars, panel, settingVars, timeVars, lacking>>

(* Mutant: the attempt is not recorded.                                    *)
AttemptsUnstamped ==
    /\ pc = "decide"
    /\ InWindow(window, minute)
    /\ since >= Wait
    /\ UNCHANGED since
    /\ gap' = 0
    /\ \/ TryBeginStart /\ Calls("launch", LaunchTime) /\ UNCHANGED snap
       \/ state \in Claimed /\ Sleeps /\ UNCHANGED sessionVars
    /\ lacking' = 0
    /\ UNCHANGED <<panel, settingVars, minute, dropped>>

(* _last_attempt = now, then launch(), which begins with the claim.        *)
Attempts ==
    /\ pc = "decide"
    /\ InWindow(window, minute)
    /\ since >= Wait
    /\ since' = 0
    /\ gap' = 0
    /\ \/ TryBeginStart /\ Calls("launch", LaunchTime) /\ UNCHANGED snap
       \/ state \in Claimed /\ Sleeps /\ UNCHANGED sessionVars
    /\ lacking' = 0
    /\ UNCHANGED <<panel, settingVars, minute, dropped>>

(* The push is made, or fails; what launch() raises is swallowed by tick().*)
LaunchEnds ==
    /\ pc = "launch"
    /\ MarkError("failed") \/ UNCHANGED sessionVars
    /\ Sleeps
    /\ UNCHANGED <<panel, settingVars, timeVars, lacking>>

----------------------------------------------------------------------------
(* The others, and time.                                                   *)

(* A request starts a session or its push fails, a webhook comes in, a     *)
(* launch is given up.                                                     *)
OthersChangeTheState ==
    /\ \/ TryBeginStart
       \/ MarkReady
       \/ MarkEnded
       \/ MarkError("failed")
       \/ StartTimesOut
    /\ lacking' = IF state' \in Claimed THEN 0 ELSE lacking
    /\ UNCHANGED <<panel, settingVars, loopVars, timeVars>>

AdminEdits ==
    /\ panel' \in Panels \ {panel}
    /\ dropped' = [dropped EXCEPT ![panel'] = 0]
    /\ lacking' = 0
    /\ UNCHANGED <<sessionVars, settingVars, loopVars, minute, since, gap>>

AsksForSession == KeepsAlive(panel) /\ Wanted(panel, minute)

UpTo(longest, t) == IF t < longest THEN t ELSE longest

(* A call may end before its time is up, but does not outlast it.          *)
Tick ==
    /\ left > 0
    /\ left' = left - 1
    /\ minute' = (minute + 1) % Day
    /\ since' = UpTo(Long, since + 1)
    /\ gap' = UpTo(Long, gap + 1)
    /\ dropped' = [p \in Panels |-> IF p = panel THEN 0 ELSE UpTo(Stale + 1, dropped[p] + 1)]
    /\ lacking' = IF state \notin Claimed /\ AsksForSession THEN lacking + 1 ELSE 0
    /\ UNCHANGED <<sessionVars, panel, settingVars, pc, snap>>

Loop ==
    \/ ReadsEnabled
    \/ Applies
    \/ Judges
    \/ ChecksTunnel
    \/ Adopts
    \/ PassRaises
    \/ FindsNone
    \/ OutOfWindow
    \/ TooSoon
    \/ Attempts
    \/ LaunchEnds

Next ==
    \/ Loop
    \/ OthersChangeTheState
    \/ AdminEdits
    \/ Tick

Spec == Init /\ [][Next]_vars

----------------------------------------------------------------------------

(* The supervisor never launches against the admin's wish: always-on mode  *)
(* was on in the panel, and this minute in its window, no longer ago than  *)
(* one reading of the settings and one probe take.  The window may lie     *)
(* around midnight, and the two settings be read on both sides of an edit. *)
OnlyWhenWanted ==
    [][Attempts =>
        /\ \E p \in Panels : dropped[p] <= Stale /\ KeepsAlive(p)
        /\ \E p \in Panels : dropped[p] <= Stale /\ Wanted(p, minute)]_vars

(* Whatever happens to the session between two attempts and whatever the   *)
(* panel says of the back-off and the interval, the supervisor does not    *)
(* hammer Kaggle: it leaves MinInterval between two attempts, the back-off *)
(* if the pass found an error, and otherwise the delay of an ended session *)
(* unless a shorter back-off is in force.                                  *)
AttemptsSpaced ==
    [][Attempts =>
        /\ gap >= MinInterval
        /\ snap = "error" => gap >= retry_backoff
        /\ gap >= EndDelay \/ gap >= retry_backoff]_vars

(* While the panel asks for a session and there is none, the supervisor    *)
(* tries for one within a bounded time, whatever it waited for when the    *)
(* session was lost and however the state changes meanwhile; an edit of    *)
(* the panel and a pass cut short by an exception start the time again.    *)
ReturnsInTime == lacking <= LongestLack

=============================================================================
