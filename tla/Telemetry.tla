------------------------------ MODULE Telemetry ------------------------------
(***************************************************************************)
(* The validity window of the telemetry (telemetry/telemetry.go): who      *)
(* enables telemetry enables it for a time, and a timer ends the window.   *)
(* The window is part of the configuration and outlives the process, the   *)
(* timer does not.                                                         *)
(*                                                                         *)
(* Every operation runs under one lock, so it is one step.  The callback   *)
(* of a timer runs on a goroutine of its own: between its start and its    *)
(* turn at the lock an operation may have replaced the timer.  Time is     *)
(* counted from 1, 0 is the zero time; the clock does not advance past a   *)
(* timer whose callback has not run.                                       *)
(***************************************************************************)
EXTENDS Integers

CONSTANTS
    Validities,       \* arguments of SetValidity
    DefaultValidity,
    MaxTime,          \* bound on the clock
    MaxLate,          \* bound on the callbacks of stopped timers
    MaxFaults,        \* bound on the failures of a save
    None

ASSUME TelemetryAssumption ==
    /\ Validities \subseteq Nat \ {0}
    /\ DefaultValidity \in Nat \ {0}
    /\ MaxTime \in Nat \ {0} /\ MaxLate \in Nat /\ MaxFaults \in Nat

ASSUME NoneAssumption == None \notin [due : Nat, fired : BOOLEAN]

VARIABLES
    now,       \* the clock
    status,    \* of the process: "down", "running", or "stopped" by Stop
    cfg,       \* the configuration in memory
    disk,      \* the saved one, None before the first
    timer,     \* the current timer, and whether its callback has started
    late,      \* callbacks that started before their timer was stopped
    refused,   \* history: an operation failed to save since the last success
    faults     \* number of failed saves

vars == <<now, status, cfg, disk, timer, late, refused, faults>>

Configs == [enabled : BOOLEAN, at : 0..MaxTime, validity : Validities \cup {0},
            muted : BOOLEAN]

Validity(c) == IF c.validity > 0 THEN c.validity ELSE DefaultValidity

\* The time since a window began; the clock may have been set back.
Elapsed(c) == IF now > c.at THEN now - c.at ELSE 0

\* A configuration with another window.
Window(c, enabled, at) ==
    [enabled |-> enabled, at |-> at, validity |-> c.validity, muted |-> c.muted]

Resize(c, v) ==
    [enabled |-> c.enabled, at |-> c.at, validity |-> v, muted |-> c.muted]

Disabled(c) == Window(c, FALSE, 0)

After(d) == [due |-> now + d, fired |-> FALSE]

\* SetTelemetry of the configuration store changes the memory and saves it.
Saved(next) ==
    /\ cfg' = next
    /\ disk' = next
    /\ UNCHANGED faults

SaveFails(next) ==
    /\ faults < MaxFaults
    /\ cfg' = next
    /\ disk' \in {disk, next}
    /\ faults' = faults + 1

\* stopTimerLocked, and the timer that takes the place of the stopped one.  A
\* callback that has started is not stopped.
Rearm(t) ==
    /\ late' = IF timer # None /\ timer.fired THEN late + 1 ELSE late
    /\ late' <= MaxLate
    /\ timer' = t
------------------------------------------------------------------------------
(***************************************************************************)
(* The operations.  They can be called while the process is up, also after *)
(* Stop: the report of the cloud that is being handled is not waited for.  *)
(***************************************************************************)

Up == status # "down"

Switched(b) == Window(cfg, b, IF b THEN now ELSE 0)

Enable(b) ==
    /\ Up
    /\ Saved(Switched(b))
    /\ Rearm(IF b THEN After(Validity(cfg)) ELSE None)
    /\ refused' = FALSE
    /\ UNCHANGED <<now, status>>

\* The timer of the window before is left alone.
EnableFails(b) ==
    /\ Up
    /\ SaveFails(Switched(b))
    /\ refused' = TRUE
    /\ UNCHANGED <<now, status, timer, late>>

\* What a new validity, which must be positive, makes of the window: it may
\* have ended already.
Resized(v) ==
    LET next == Resize(cfg, v)
    IN  IF cfg.enabled /\ cfg.at # 0 /\ Elapsed(cfg) >= v THEN Disabled(next) ELSE next

\* A SetValidity that leaves the timer as it is.
SetValidityOnly(v) ==
    /\ Up
    /\ Saved(Resized(v))
    /\ IF Resized(v).enabled THEN UNCHANGED <<timer, late>> ELSE Rearm(None)
    /\ refused' = FALSE
    /\ UNCHANGED <<now, status>>

SetValidity(v) ==
    /\ Up
    /\ Saved(Resized(v))
    /\ Rearm(IF Resized(v).enabled /\ cfg.at # 0 THEN After(v - Elapsed(cfg)) ELSE None)
    /\ refused' = FALSE
    /\ UNCHANGED <<now, status>>

SetValidityFails(v) ==
    /\ Up
    /\ SaveFails(Resized(v))
    /\ refused' = TRUE
    /\ UNCHANGED <<now, status, timer, late>>

\* The suppression rules do not touch the window.
SetSuppressed(m) ==
    /\ Up
    /\ \/ Saved([cfg EXCEPT !.muted = m])
       \/ SaveFails([cfg EXCEPT !.muted = m])
    /\ UNCHANGED <<now, status, timer, late, refused>>

\* Stop leaves the window as it is and stops its timer.
Stop ==
    /\ status = "running"
    /\ Rearm(None)
    /\ status' = "stopped"
    /\ UNCHANGED <<now, cfg, disk, refused, faults>>
------------------------------------------------------------------------------
(***************************************************************************)
(* The timer.                                                              *)
(***************************************************************************)

Due == timer # None /\ timer.due <= now

Fire ==
    /\ Due /\ ~timer.fired
    /\ timer' = [due |-> timer.due, fired |-> TRUE]
    /\ UNCHANGED <<now, status, cfg, disk, late, refused, faults>>

\* The callback of the current timer ends the window.  A save that fails is
\* only logged.
Expire ==
    /\ timer # None /\ timer.fired
    /\ Saved(Disabled(cfg)) \/ SaveFails(Disabled(cfg))
    /\ timer' = None
    /\ UNCHANGED <<now, status, late, refused>>

\* The callback of a stopped timer that does not look whose it is.
ExpireLateUnchecked ==
    /\ late > 0
    /\ late' = late - 1
    /\ timer' = None
    /\ Saved(Disabled(cfg))
    /\ UNCHANGED <<now, status, refused>>

\* The callback of a stopped timer finds another one in its place.
ExpireLate ==
    /\ late > 0
    /\ late' = late - 1
    /\ UNCHANGED <<now, status, cfg, disk, timer, refused, faults>>
------------------------------------------------------------------------------
(***************************************************************************)
(* The process.                                                            *)
(***************************************************************************)

Seed == [enabled |-> TRUE, at |-> now, validity |-> 0, muted |-> FALSE]

\* A resumption that opens the window anew.
ResumedAnew(c) == IF c.enabled THEN Window(c, TRUE, now) ELSE c

\* resumeValidityWindow: a window that has no beginning or begins in the
\* future begins now, and one that has ended is closed.
Resumed(c) ==
    LET at == IF c.at = 0 \/ c.at > now THEN now ELSE c.at
    IN  IF c.enabled /\ now - at < Validity(c) THEN Window(c, TRUE, at)
        ELSE IF c.enabled THEN Disabled(c) ELSE c

\* The window to resume: of the saved configuration, or of the one New seeds.
Opened == Resumed(IF disk = None THEN Seed ELSE disk)

\* New.  The save that resumption may need can fail, the seeding may not.
New ==
    /\ status = "down"
    /\ \/ Saved(Opened)
       \/ disk # None /\ Opened # disk /\ SaveFails(Opened)
    /\ timer' = IF Opened.enabled THEN After(Validity(Opened) - (now - Opened.at))
                                  ELSE None
    /\ status' = "running"
    /\ refused' = FALSE
    /\ UNCHANGED <<now, late>>

\* The process does not start if New cannot seed the configuration.
NewFails ==
    /\ status = "down"
    /\ disk = None
    /\ SaveFails(Seed)
    /\ UNCHANGED <<now, status, timer, late, refused>>

\* The process ends, and finds the clock anywhere when it starts again.
Exit ==
    /\ Up
    /\ status' = "down"
    /\ now' \in 1..MaxTime
    /\ timer' = None
    /\ late' = 0
    /\ UNCHANGED <<cfg, disk, refused, faults>>

Tick ==
    /\ now < MaxTime
    /\ ~Due
    /\ now' = now + 1
    /\ UNCHANGED <<status, cfg, disk, timer, late, refused, faults>>
------------------------------------------------------------------------------
Init ==
    /\ now = 1
    /\ status = "down"
    /\ cfg = Disabled(Seed)
    /\ disk = None
    /\ timer = None
    /\ late = 0
    /\ refused = FALSE
    /\ faults = 0

Next ==
    \/ \E b \in BOOLEAN : Enable(b) \/ EnableFails(b) \/ SetSuppressed(b)
    \/ \E v \in Validities : SetValidity(v) \/ SetValidityFails(v)
    \/ Stop \/ Fire \/ Expire \/ ExpireLate
    \/ New \/ NewFails \/ Exit \/ Tick

Spec == Init /\ [][Next]_vars
------------------------------------------------------------------------------
(***************************************************************************)
(* Properties.                                                             *)
(***************************************************************************)

Timers == [due : Nat, fired : BOOLEAN]

TypeOK ==
    /\ now \in 1..MaxTime
    /\ status \in {"down", "running", "stopped"}
    /\ cfg \in Configs
    /\ disk \in Configs \cup {None}
    /\ timer \in Timers \cup {None}
    /\ late \in 0..MaxLate
    /\ refused \in BOOLEAN
    /\ faults \in 0..MaxFaults

Within(c) == 0 < c.at /\ c.at <= now /\ now <= c.at + Validity(c)

\* Telemetry is enabled only within its window, whatever restarts, clock
\* changes between them, lost saves of the end of a window and late callbacks
\* came before, as long as no Enable or SetValidity failed to save since the
\* timer was last set (Enable, SetValidity and resumeValidityWindow,
\* telemetry.go:383, 419, 508).
WindowBounded ==
    status = "running" /\ cfg.enabled /\ ~refused => Within(cfg)

\* The window and its timer agree: the inductive invariant of WindowBounded.
Armed ==
    /\ status # "down" /\ cfg.enabled => 0 < cfg.at /\ cfg.at <= now
    /\ timer # None => now <= timer.due
    /\ status = "running" /\ cfg.enabled /\ ~refused =>
         timer # None /\ timer.due = cfg.at + Validity(cfg)

\* No window is cut short: unless Enable(false) asks for it, telemetry is
\* disabled only when the time since it was enabled has reached the validity
\* that is then in force; a callback that comes late for its own window never
\* ends the next one (startTimerLocked, telemetry.go:557).
NotCutShort ==
    [][status = "running" /\ status' = "running" /\ cfg.enabled /\ ~cfg'.enabled
         /\ ~refused
       => Enable(FALSE) \/ EnableFails(FALSE) \/ now >= cfg.at + Validity(cfg')]_vars

\* A restart never gives a window that was saved more time than it had left,
\* unless the clock was set back to before its beginning
\* (resumeValidityWindow, telemetry.go:508).
ResumeKeepsEnd ==
    [][status = "down" /\ status' = "running" /\ disk # None /\ cfg'.enabled
         /\ 0 < disk.at /\ disk.at <= now
       => timer'.due = disk.at + Validity(disk) /\ now < timer'.due]_vars
=============================================================================
