---------------------------- MODULE RelayTraffic ----------------------------
(***************************************************************************)
(* What happens inside one relay of hbbr (relay, check_cmd, check_params   *)
(* and the tables BLACKLIST and BLOCKLIST of relay_server.rs).  The task   *)
(* waits in a select for a message of either side or for its 3 s timer,    *)
(* charges a message to the limiters, writes it to the other side, and     *)
(* then, if a second has gone by, looks at the tables and at the average.  *)
(* While it waits for a limiter or for the other side to read, it does     *)
(* neither.  Relays share nothing but the tables, the settings and the     *)
(* total limiter, whose waits are arbitrary here, so one is enough.        *)
(*                                                                         *)
(* Time is counted in units of 1 / SECOND seconds, or 1 / MS milliseconds, *)
(* and passes only while the task waits.  The task counts whole            *)
(* milliseconds, and not while it waits for the locks of the two tables.   *)
(* BLACKLIST and BLOCKLIST say whether the tables hold the address of the  *)
(* relay's second connection.                                              *)
(*                                                                         *)
(* Operators named Mut_... are never used: each is a plausible bug in the  *)
(* definition that follows, and shows that a property can fail.            *)
(***************************************************************************)
EXTENDS Integers

CONSTANTS
    MS,             \* units of time in a millisecond
    MILLIS,         \* milliseconds in a second (1000)
    LOCK_WAIT,      \* the longest wait for the locks of the tables, or of USAGE
    TIMER,          \* units between two ticks of the timer (3 s)
    SILENCE,        \* seconds without a message after which a relay ends (30)
    Sizes,          \* the sizes of messages, in bits; a frame without bytes has 0
    Thresholds,     \* SINGLE_BANDWIDTH * DOWNGRADE_THRESHOLD_100, in bits per ms
    StartChecks,    \* DOWNGRADE_START_CHECK, in ms
    EnvThreshold,   \* what the environment sets them to, 0 for nothing
    EnvStartCheck,
    MAX_TOTAL,      \* bound: bits of a relay
    MAX_AGE         \* bound: clocks stop here

SECOND == MILLIS * MS
\* The longest time between a look at the tables and the next message.
STALE == SECOND + TIMER
\* The longest wait for a message.
LONGEST_SILENCE == (SILENCE + 1) * SECOND - 1 + TIMER

\* How long a second of a relay's life can be that it counts as one.
STRETCH == SECOND + MS - 1 + LOCK_WAIT

ASSUME ConstantsAssumption ==
    /\ MS \in Nat \ {0} /\ MILLIS \in Nat \ {0} /\ LOCK_WAIT \in Nat /\ LOCK_WAIT < SECOND
    /\ TIMER \in Nat \ {0} /\ SILENCE \in Nat
    /\ Sizes \subseteq Nat /\ Thresholds \subseteq Nat /\ StartChecks \subseteq Nat
    /\ EnvThreshold \in Thresholds \cup {0} /\ EnvStartCheck \in StartChecks \cup {0}
    /\ Thresholds # {} /\ StartChecks # {}
    /\ MAX_TOTAL \in Nat /\ MAX_AGE \in Nat
    /\ MAX_AGE >= STALE /\ MAX_AGE > LONGEST_SILENCE

VARIABLES
    pc,         \* where the task is
    nb, slow,   \* the message in hand: its size, and whether the slow limiter takes it
    tm,         \* time since the last look at the tables
    measured,   \* what tm was when it was measured for the look that is under way
    elapsed,    \* milliseconds counted up to the last look
    total,      \* bits charged
    blacked, downgrade,
    downgrade_threshold,
    due,        \* time to the next tick of the timer; negative if it is late
    silence,    \* time since last_recv_time
    BLACKLIST, BLOCKLIST,
    DOWNGRADE_THRESHOLD, DOWNGRADE_START_CHECK,
    age,        \* history: the relay's true age
    since       \* history: time since BLACKLIST last changed

task == <<pc, nb, slow, tm, measured, elapsed, total, blacked, downgrade, downgrade_threshold,
          due, silence, age>>
settings == <<BLACKLIST, BLOCKLIST, DOWNGRADE_THRESHOLD, DOWNGRADE_START_CHECK>>
vars == <<task, settings, since>>

TypeOK ==
    /\ pc \in {"none", "select", "charge", "send", "check", "block", "black", "usage"}
    /\ nb \in Sizes \cup {0} /\ slow \in BOOLEAN
    /\ tm \in 0 .. MAX_AGE /\ measured \in 0 .. MAX_AGE
    /\ elapsed \in 0 .. MAX_AGE /\ age \in 0 .. MAX_AGE
    /\ total \in Nat
    /\ blacked \in BOOLEAN /\ downgrade \in BOOLEAN
    /\ downgrade_threshold \in Thresholds \cup {0}
    /\ due \in - TIMER .. TIMER /\ silence \in 0 .. MAX_AGE
    /\ BLACKLIST \in BOOLEAN /\ BLOCKLIST \in BOOLEAN
    /\ DOWNGRADE_THRESHOLD \in Thresholds /\ DOWNGRADE_START_CHECK \in StartChecks
    /\ since \in 0 .. STALE

Capped(t, max) == IF t < max THEN t ELSE max

\* No relay runs.
Idle ==
    /\ pc = "none" /\ nb = 0 /\ slow = FALSE /\ tm = 0 /\ measured = 0 /\ elapsed = 0 /\ total = 0
    /\ blacked = FALSE /\ downgrade = FALSE /\ downgrade_threshold = 0
    /\ due = 0 /\ silence = 0 /\ age = 0

\* start loads both tables from their files.
Init ==
    /\ Idle
    /\ BLACKLIST \in BOOLEAN /\ BLOCKLIST \in BOOLEAN
    /\ DOWNGRADE_THRESHOLD \in IF EnvThreshold > 0 THEN {EnvThreshold} ELSE Thresholds
    /\ DOWNGRADE_START_CHECK \in IF EnvStartCheck > 0 THEN {EnvStartCheck} ELSE StartChecks
    /\ since = 0

-----------------------------------------------------------------------------
(* relay *)

\* The settings are read once, here.  The first tick of the timer is due.
Start ==
    /\ pc = "none"
    /\ pc' = "select"
    /\ downgrade_threshold' = DOWNGRADE_THRESHOLD
    /\ UNCHANGED <<nb, slow, tm, measured, elapsed, total, blacked, downgrade, due, silence, age>>
    /\ UNCHANGED <<settings, since>>

End ==
    /\ pc' = "none" /\ nb' = 0 /\ slow' = FALSE /\ tm' = 0 /\ measured' = 0 /\ elapsed' = 0
    /\ total' = 0
    /\ blacked' = FALSE /\ downgrade' = FALSE /\ downgrade_threshold' = 0
    /\ due' = 0 /\ silence' = 0 /\ age' = 0
    /\ UNCHANGED <<settings, since>>

\* One side sends a message; which limiter it is charged to is decided now.
Recv(n) ==
    /\ pc = "select" /\ total + n <= MAX_TOTAL
    /\ pc' = "charge"
    /\ nb' = n
    /\ slow' = (blacked \/ downgrade)
    /\ silence' = 0
    /\ UNCHANGED <<tm, measured, elapsed, total, blacked, downgrade, downgrade_threshold, due, age>>
    /\ UNCHANGED <<settings, since>>

\* A side closes or fails.
Closed == pc = "select" /\ End

\* Both limiters have let the message through; an empty one is not sent.
Charged ==
    /\ pc = "charge"
    /\ pc' = IF nb = 0 THEN "check" ELSE "send"
    /\ total' = total + nb
    /\ nb' = 0 /\ slow' = FALSE
    /\ UNCHANGED <<tm, measured, elapsed, blacked, downgrade, downgrade_threshold, due, silence, age,
                   settings, since>>

\* send_raw returns, or fails.
Sent ==
    /\ pc = "send"
    /\ pc' = "check"
    /\ UNCHANGED <<nb, slow, tm, measured, elapsed, total, blacked, downgrade, downgrade_threshold,
                   due, silence, age, settings, since>>

SendFails == pc = "send" /\ End

Mut_TimesOutOnTime == silence = (SILENCE + 1) * SECOND

\* last_recv_time.elapsed().as_secs() > 30
TimedOut == silence >= (SILENCE + 1) * SECOND

TimerTick ==
    /\ pc = "select" /\ due <= 0
    /\ ~ TimedOut
    /\ pc' = "check"
    /\ due' = due + TIMER
    /\ UNCHANGED <<nb, slow, tm, measured, elapsed, total, blacked, downgrade, downgrade_threshold,
                   silence, age, settings, since>>

Timeout == pc = "select" /\ due <= 0 /\ TimedOut /\ End

\* What the rest of the loop does, at most once a second.
NoLook ==
    /\ pc = "check" /\ tm < SECOND
    /\ pc' = "select"
    /\ UNCHANGED <<nb, slow, tm, measured, elapsed, total, blacked, downgrade, downgrade_threshold,
                   due, silence, age, settings, since>>

\* The time is taken, and then the lock of BLOCKLIST.
Measure ==
    /\ pc = "check" /\ tm >= SECOND
    /\ pc' = "block"
    /\ measured' = tm
    /\ UNCHANGED <<nb, slow, tm, elapsed, total, blacked, downgrade, downgrade_threshold,
                   due, silence, age, settings, since>>

Mut_WaitsWhileBlocked == pc = "block" /\ BLOCKLIST /\ UNCHANGED vars

Blocked == pc = "block" /\ BLOCKLIST /\ End

\* Then the lock of BLACKLIST.
NotBlocked ==
    /\ pc = "block" /\ ~ BLOCKLIST
    /\ pc' = "black"
    /\ UNCHANGED <<nb, slow, tm, measured, elapsed, total, blacked, downgrade, downgrade_threshold,
                   due, silence, age, settings, since>>

Mut_LookKeepsBlacked ==
    /\ pc = "black"
    /\ pc' = "usage"
    /\ blacked' = (blacked \/ BLACKLIST)
    /\ tm' = 0
    /\ elapsed' = Capped(elapsed + measured \div MS, MAX_AGE)
    /\ UNCHANGED <<nb, slow, measured, total, downgrade, downgrade_threshold, due, silence, age>>
    /\ UNCHANGED <<settings, since>>

\* tm is taken anew, and as_millis() of what was measured is added to elapsed.
Look ==
    /\ pc = "black"
    /\ pc' = "usage"
    /\ blacked' = BLACKLIST
    /\ tm' = 0
    /\ elapsed' = Capped(elapsed + measured \div MS, MAX_AGE)
    /\ UNCHANGED <<nb, slow, measured, total, downgrade, downgrade_threshold, due, silence, age>>
    /\ UNCHANGED <<settings, since>>

Mut_DowngradeOnLastSecond == total * MS > measured * downgrade_threshold

Exceeds == total > elapsed * downgrade_threshold

\* USAGE is written; then the average so far is compared.
Judge ==
    /\ pc = "usage"
    /\ pc' = "select"
    /\ downgrade' = (downgrade \/ (elapsed > DOWNGRADE_START_CHECK /\ Exceeds))
    /\ measured' = 0
    /\ UNCHANGED <<nb, slow, tm, elapsed, total, blacked, downgrade_threshold, due, silence, age>>
    /\ UNCHANGED <<settings, since>>

-----------------------------------------------------------------------------
(* check_cmd, check_params and time *)

\* blacklist-add, blacklist-remove
SetBlacklist ==
    /\ BLACKLIST' = ~ BLACKLIST
    /\ since' = 0
    /\ UNCHANGED <<task, BLOCKLIST, DOWNGRADE_THRESHOLD, DOWNGRADE_START_CHECK>>

\* blocklist-add, blocklist-remove
SetBlocklist ==
    /\ BLOCKLIST' = ~ BLOCKLIST
    /\ UNCHANGED <<task, BLACKLIST, DOWNGRADE_THRESHOLD, DOWNGRADE_START_CHECK, since>>

\* downgrade-threshold, single-bandwidth.  limit-speed and total-bandwidth
\* change how long a message waits, which is arbitrary here.
SetThreshold(v) ==
    /\ DOWNGRADE_THRESHOLD' = v
    /\ UNCHANGED <<task, BLACKLIST, BLOCKLIST, DOWNGRADE_START_CHECK, since>>

\* downgrade-start-check
SetStartCheck(v) ==
    /\ DOWNGRADE_START_CHECK' = v
    /\ UNCHANGED <<task, BLACKLIST, BLOCKLIST, DOWNGRADE_THRESHOLD, since>>

\* A listener fails: io_loop begins again, and with it check_params.
CheckParams ==
    /\ DOWNGRADE_THRESHOLD' = IF EnvThreshold > 0 THEN EnvThreshold ELSE DOWNGRADE_THRESHOLD
    /\ DOWNGRADE_START_CHECK' =
          IF EnvStartCheck > 0 THEN EnvStartCheck ELSE DOWNGRADE_START_CHECK
    /\ UNCHANGED <<task, BLACKLIST, BLOCKLIST, since>>

\* The task can go on by itself, or has waited for its locks long enough.
Busy ==
    \/ pc = "check" \/ (pc = "select" /\ due <= 0)
    \/ pc \in {"block", "black"} /\ tm >= measured + LOCK_WAIT
    \/ pc = "usage" /\ tm >= LOCK_WAIT

\* A timer that is late by more than one tick fires at once again; of several
\* such ticks the model keeps one.
Tick ==
    /\ ~ Busy
    /\ since' = Capped(since + 1, STALE)
    /\ IF pc = "none" THEN UNCHANGED task
       ELSE /\ tm' = Capped(tm + 1, MAX_AGE)
            /\ due' = IF due > - TIMER THEN due - 1 ELSE -1
            /\ silence' = Capped(silence + 1, MAX_AGE)
            /\ age' = Capped(age + 1, MAX_AGE)
            /\ UNCHANGED <<pc, nb, slow, measured, elapsed, total, blacked, downgrade,
                           downgrade_threshold>>
    /\ UNCHANGED settings

Next ==
    \/ Start \/ Closed \/ Charged \/ Sent \/ SendFails
    \/ \E n \in Sizes : Recv(n)
    \/ TimerTick \/ Timeout \/ NoLook \/ Measure \/ Blocked \/ NotBlocked \/ Look \/ Judge
    \/ SetBlacklist \/ SetBlocklist \/ CheckParams
    \/ \E v \in Thresholds : SetThreshold(v)
    \/ \E v \in StartChecks : SetStartCheck(v)
    \/ Tick

\* Time goes on, tokio runs a task that can run and grants the locks, which are
\* held for moments, and the limiters let every message through in the end.
\* The clients owe nothing: a side that does not read keeps the task in send_raw.
Fairness ==
    /\ SF_vars(Tick)
    /\ WF_vars(Charged) /\ WF_vars(TimerTick) /\ WF_vars(Timeout)
    /\ WF_vars(NoLook) /\ WF_vars(Measure) /\ WF_vars(Blocked) /\ WF_vars(NotBlocked)
    /\ WF_vars(Look) /\ WF_vars(Judge)

Spec == Init /\ [][Next]_vars /\ Fairness

-----------------------------------------------------------------------------
(***************************************************************************)
(* BLACKLIST is obeyed with bounded delay: a message of a relay older than *)
(* STALE is charged to the slow limiter if the address has been on the     *)
(* list for STALE, and otherwise, if it has been off the list for STALE,   *)
(* only after a downgrade.  relay looks at the table once a second and     *)
(* waits for its timer in between.                                         *)
(***************************************************************************)
BlacklistFollowed ==
    [][pc = "select" /\ pc' = "charge" /\ age >= STALE /\ since >= STALE
         => slow' = (BLACKLIST \/ downgrade)]_vars

(***************************************************************************)
(* relay downgrades on the average since the relay began, although elapsed *)
(* is a sum of truncated milliseconds and lacks the waits for the locks: a *)
(* downgraded relay has used, up to its last look, at least the part       *)
(* SECOND / STRETCH of the threshold over its true age, and one that has   *)
(* used more than the threshold is downgraded at the look.  A downgrade is *)
(* never taken back.                                                       *)
(***************************************************************************)
DowngradeFair ==
    [][/\ ~ downgrade /\ downgrade' /\ age < MAX_AGE =>
            total * MS * STRETCH > (age - tm) * SECOND * downgrade_threshold
       /\ Judge /\ elapsed > DOWNGRADE_START_CHECK /\ age < MAX_AGE =>
            (total * MS > age * downgrade_threshold => downgrade')
       /\ downgrade /\ ~ downgrade' => pc' = "none"]_vars

(***************************************************************************)
(* No relay waits for a message for longer than 30 s, the fraction of a    *)
(* second that as_secs drops and one period of the timer.                  *)
(***************************************************************************)
SilenceBounded ==
    [][pc = "select" /\ silence' > silence => silence' <= LONGEST_SILENCE]_vars

(***************************************************************************)
(* Adding an address to BLOCKLIST ends the relays whose second connection  *)
(* has it, unless it is taken off the list again; but only if both sides   *)
(* keep reading, because relay does not look while it writes.              *)
(***************************************************************************)
BlockedRelayEnds ==
    []<>(pc # "send") => (pc # "none" /\ BLOCKLIST ~> pc = "none" \/ ~ BLOCKLIST)
=============================================================================
