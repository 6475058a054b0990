--------------------------- MODULE TelemetryProofs ---------------------------
(***************************************************************************)
(* Proofs about Telemetry, for every choice of validities and bounds.      *)
(*                                                                         *)
(* That telemetry is enabled only within its window is not inductive: it   *)
(* is the timer that closes the window, so the invariant must say that an  *)
(* enabled window has a timer, due exactly at its end, and that the clock  *)
(* never passes a timer.                                                   *)
(***************************************************************************)
EXTENDS Telemetry, TLAPS

\* A positive validity is in force for every configuration (validityOrDefault,
\* telemetry.go:193).
LEMMA ValidityType ==
    ASSUME NEW c \in Configs
    PROVE  Validity(c) \in Nat \ {0}
  <1>1. c.validity \in Validities \cup {0}
    BY DEF Configs
  <1>2. \A v \in Validities \cup {0} : v \in Nat
    BY TelemetryAssumption
  <1>3. c.validity \in Nat
    BY <1>1, <1>2
  <1> QED
    BY <1>3, TelemetryAssumption DEF Validity

\* The time since a window that has begun (SetValidity, telemetry.go:433).
LEMMA ElapsedType ==
    ASSUME NEW c \in Configs, now \in 1..MaxTime
    PROVE  Elapsed(c) \in Nat /\ (c.at <= now => Elapsed(c) = now - c.at)
  BY TelemetryAssumption DEF Configs, Elapsed

\* What a restart makes of a saved configuration (resumeValidityWindow).
LEMMA ResumedType ==
    ASSUME NEW c \in Configs, now \in 1..MaxTime
    PROVE  /\ Resumed(c) \in Configs
           /\ Resumed(c).enabled =>
                /\ 0 < Resumed(c).at /\ Resumed(c).at <= now
                /\ now - Resumed(c).at < Validity(Resumed(c))
  BY TelemetryAssumption DEF Configs, Resumed, Validity, Disabled, Window

\* What a new validity makes of the window (SetValidity, telemetry.go:427).
LEMMA ResizedType ==
    ASSUME NEW v \in Validities, TypeOK
    PROVE  /\ Resized(v) \in Configs
           /\ Resized(v).enabled =>
                cfg.enabled /\ Resized(v).at = cfg.at /\ Validity(Resized(v)) = v
           /\ Resized(v).at \in {0, cfg.at}
           /\ Resized(v).enabled /\ cfg.at # 0 => Elapsed(cfg) < v
  BY TelemetryAssumption DEF TypeOK, Configs, Resized, Resize, Elapsed, Validity,
                                 Disabled, Window

\* What Enable makes of the configuration (telemetry.go:387).
LEMMA SwitchedType ==
    ASSUME NEW b \in BOOLEAN, TypeOK
    PROVE  /\ Switched(b) \in Configs
           /\ Switched(b).enabled = b
           /\ Switched(b).at = IF b THEN now ELSE 0
           /\ Validity(Switched(b)) = Validity(cfg)
  BY TelemetryAssumption DEF TypeOK, Configs, Switched, Validity, Window

\* A closed window has no beginning (disableLocked, telemetry.go:583).
LEMMA DisabledType ==
    ASSUME NEW c \in Configs
    PROVE  Disabled(c) \in Configs /\ ~Disabled(c).enabled /\ Disabled(c).at = 0
  BY TelemetryAssumption DEF Configs, Disabled, Window

\* New opens a window that has begun and not ended (telemetry.go:508).
LEMMA OpenedType ==
    ASSUME TypeOK
    PROVE  /\ Opened \in Configs
           /\ Opened.enabled =>
                /\ 0 < Opened.at /\ Opened.at <= now
                /\ now - Opened.at < Validity(Opened)
  <1>1. Seed \in Configs
    BY TelemetryAssumption DEF TypeOK, Configs, Seed
  <1>2. (IF disk = None THEN Seed ELSE disk) \in Configs
    BY <1>1 DEF TypeOK
  <1> QED
    BY <1>2, ResumedType DEF TypeOK, Opened

\* A timer is due after the time it was started with (telemetry.go:560).
LEMMA AfterType ==
    ASSUME now \in 1..MaxTime, NEW d \in Nat
    PROVE  After(d) \in Timers /\ After(d) # None /\ After(d).due = now + d
  <1>1. [due |-> now + d, fired |-> FALSE] \in [due : Nat, fired : BOOLEAN]
    OBVIOUS
  <1>2. [due |-> now + d, fired |-> FALSE].due = now + d
    OBVIOUS
  <1> QED
    BY <1>1, <1>2, NoneAssumption DEF After, Timers

\* A save, done or failed, leaves a configuration in both places.
LEMMA SaveType ==
    ASSUME TypeOK, NEW next \in Configs, Saved(next) \/ SaveFails(next)
    PROVE  cfg' = next /\ cfg' \in Configs /\ disk' \in Configs \cup {None}
           /\ faults' \in 0..MaxFaults
  BY TelemetryAssumption DEF TypeOK, Saved, SaveFails

\* The timer that replaces a stopped one is the current one (telemetry.go:573).
LEMMA RearmType ==
    ASSUME TypeOK, NEW t \in Timers \cup {None}, Rearm(t)
    PROVE  timer' = t /\ timer' \in Timers \cup {None} /\ late' \in 0..MaxLate
  BY TelemetryAssumption DEF TypeOK, Rearm, Timers

\* The parts of the state keep their types in every step of the telemetry.
THEOREM TypeCorrect == Spec => []TypeOK
  <1>1. Init => TypeOK
    <2> SUFFICES ASSUME Init PROVE TypeOK
      OBVIOUS
    <2>1. cfg \in Configs
      <3>1. Disabled(Seed) = [enabled |-> FALSE, at |-> 0, validity |-> 0, muted |-> FALSE]
        BY DEF Disabled, Window, Seed
      <3> QED
        BY <3>1, TelemetryAssumption DEF Init, Configs
    <2>2. 1 \in 1..MaxTime /\ 0 \in 0..MaxLate /\ 0 \in 0..MaxFaults
      BY TelemetryAssumption
    <2> QED
      BY <2>1, <2>2 DEF Init, TypeOK
  <1>2. TypeOK /\ [Next]_vars => TypeOK'
    <2> SUFFICES ASSUME TypeOK, [Next]_vars PROVE TypeOK'
      OBVIOUS
    <2>1. ASSUME NEW b \in BOOLEAN, Enable(b) PROVE TypeOK'
      <3>1. (IF b THEN After(Validity(cfg)) ELSE None) \in Timers \cup {None}
        BY ValidityType, AfterType DEF TypeOK
      <3> QED
        BY <2>1, <3>1, SwitchedType, SaveType, RearmType DEF Enable, TypeOK
    <2>2. ASSUME NEW b \in BOOLEAN, EnableFails(b) PROVE TypeOK'
      BY <2>2, SwitchedType, SaveType DEF EnableFails, TypeOK
    <2>3. ASSUME NEW b \in BOOLEAN, SetSuppressed(b) PROVE TypeOK'
      <3>1. [cfg EXCEPT !.muted = b] \in Configs
        BY DEF TypeOK, Configs
      <3> QED
        BY <2>3, <3>1, SaveType DEF SetSuppressed, TypeOK
    <2>4. ASSUME NEW v \in Validities, SetValidity(v) PROVE TypeOK'
      <3>1. (IF Resized(v).enabled /\ cfg.at # 0 THEN After(v - Elapsed(cfg)) ELSE None)
              \in Timers \cup {None}
        <4>1. CASE Resized(v).enabled /\ cfg.at # 0
          <5>1. v - Elapsed(cfg) \in Nat
            BY <4>1, ResizedType, ElapsedType, TelemetryAssumption DEF TypeOK
          <5> QED BY <4>1, <5>1, AfterType DEF TypeOK
        <4>2. CASE ~(Resized(v).enabled /\ cfg.at # 0)
          BY <4>2
        <4> QED BY <4>1, <4>2
      <3> QED
        BY <2>4, <3>1, ResizedType, SaveType, RearmType DEF SetValidity, TypeOK
    <2>5. ASSUME NEW v \in Validities, SetValidityFails(v) PROVE TypeOK'
      BY <2>5, ResizedType, SaveType DEF SetValidityFails, TypeOK
    <2>6. CASE Stop
      BY <2>6, RearmType DEF Stop, TypeOK
    <2>7. CASE Fire
      BY <2>7 DEF Fire, Due, TypeOK, Timers
    <2>8. CASE Expire
      BY <2>8, DisabledType, SaveType DEF Expire, TypeOK
    <2>9. CASE ExpireLate
      BY <2>9, TelemetryAssumption DEF ExpireLate, TypeOK
    <2>10. CASE New
      <3>1. (IF Opened.enabled THEN After(Validity(Opened) - (now - Opened.at)) ELSE None)
              \in Timers \cup {None}
        <4>1. CASE Opened.enabled
          <5>1. Validity(Opened) - (now - Opened.at) \in Nat
            BY <4>1, OpenedType, ValidityType DEF TypeOK, Configs
          <5> QED BY <4>1, <5>1, AfterType DEF TypeOK
        <4>2. CASE ~Opened.enabled
          BY <4>2
        <4> QED BY <4>1, <4>2
      <3> QED
        BY <2>10, <3>1, OpenedType, SaveType DEF New, TypeOK
    <2>11. CASE NewFails
      <3>1. Seed \in Configs
        BY TelemetryAssumption DEF TypeOK, Configs, Seed
      <3> QED
        BY <2>11, <3>1, SaveType DEF NewFails, TypeOK
    <2>12. CASE Exit
      BY <2>12, TelemetryAssumption DEF Exit, TypeOK
    <2>13. CASE Tick
      BY <2>13, TelemetryAssumption DEF Tick, TypeOK
    <2>14. CASE UNCHANGED vars
      BY <2>14 DEF vars, TypeOK
    <2> QED
      BY <2>1, <2>2, <2>3, <2>4, <2>5, <2>6, <2>7, <2>8, <2>9, <2>10, <2>11, <2>12,
         <2>13, <2>14 DEF Next
  <1> QED
    BY <1>1, <1>2, PTL DEF Spec

\* An enabled window has a timer that is due at its end, and the clock passes no
\* timer (startTimerLocked, telemetry.go:557).
THEOREM WindowArmed == Spec => []Armed
  <1>1. Init => Armed
    BY DEF Init, Armed
  <1>2. TypeOK /\ TypeOK' /\ Armed /\ [Next]_vars => Armed'
    <2> SUFFICES ASSUME TypeOK, TypeOK', Armed, [Next]_vars PROVE Armed'
      OBVIOUS
    <2>1. ASSUME NEW b \in BOOLEAN, Enable(b) PROVE Armed'
      <3>1. cfg' = Switched(b) /\ Validity(cfg') = Validity(cfg)
            /\ Validity(cfg) \in Nat /\ now \in Nat
        BY <2>1, SwitchedType, ValidityType DEF Enable, Saved, TypeOK
      <3>2. timer' = IF b THEN After(Validity(cfg)) ELSE None
        BY <2>1 DEF Enable, Rearm
      <3> QED
        BY <2>1, <3>1, <3>2, SwitchedType, AfterType DEF Enable, Armed, TypeOK, Validity
    <2>2. ASSUME NEW b \in BOOLEAN, EnableFails(b) PROVE Armed'
      BY <2>2, SwitchedType DEF EnableFails, SaveFails, Armed, TypeOK
    <2>3. ASSUME NEW b \in BOOLEAN, SetSuppressed(b) PROVE Armed'
      <3>1. cfg' = [cfg EXCEPT !.muted = b]
        BY <2>3 DEF SetSuppressed, Saved, SaveFails
      <3>2. cfg'.enabled = cfg.enabled /\ cfg'.at = cfg.at /\ Validity(cfg') = Validity(cfg)
        BY <3>1 DEF TypeOK, Configs, Validity
      <3> QED
        BY <2>3, <3>2 DEF SetSuppressed, Armed, Validity
    <2>4. ASSUME NEW v \in Validities, SetValidity(v) PROVE Armed'
      <3>1. cfg' = Resized(v)
        BY <2>4 DEF SetValidity, Saved
      <3>2. timer' = IF Resized(v).enabled /\ cfg.at # 0 THEN After(v - Elapsed(cfg)) ELSE None
        BY <2>4 DEF SetValidity, Rearm
      <3>3. Resized(v).enabled => cfg.at # 0 /\ After(v - Elapsed(cfg)) # None
                                  /\ After(v - Elapsed(cfg)).due = cfg.at + v
                                  /\ now <= cfg.at + v
        <4> SUFFICES ASSUME Resized(v).enabled
                     PROVE  cfg.at # 0 /\ After(v - Elapsed(cfg)) # None
                            /\ After(v - Elapsed(cfg)).due = cfg.at + v
                            /\ now <= cfg.at + v
          OBVIOUS
        <4>1. 0 < cfg.at /\ cfg.at <= now /\ cfg.at \in Nat /\ now \in Nat /\ v \in Nat
          BY <2>4, ResizedType, TelemetryAssumption DEF SetValidity, Up, Armed, TypeOK, Configs
        <4>2. Elapsed(cfg) = now - cfg.at /\ Elapsed(cfg) < v
          BY <4>1, ElapsedType, ResizedType DEF TypeOK
        <4>3. v - Elapsed(cfg) \in Nat
          BY <4>1, <4>2
        <4>4. After(v - Elapsed(cfg)) # None
              /\ After(v - Elapsed(cfg)).due = now + (v - Elapsed(cfg))
          BY <4>3, AfterType DEF TypeOK
        <4> QED
          BY <4>1, <4>2, <4>4
      <3>4. timer' # None => Resized(v).enabled
        BY <3>2
      <3>5. /\ Resized(v).at \in {0, cfg.at}
            /\ Resized(v).enabled => Resized(v).at = cfg.at /\ Validity(Resized(v)) = v
        BY ResizedType
      <3>6. (cfg.enabled => 0 < cfg.at /\ cfg.at <= now) /\ now' = now
        BY <2>4 DEF SetValidity, Up, Armed
      <3>7. cfg'.enabled => 0 < cfg'.at /\ cfg'.at <= now'
        BY <3>1, <3>5, <3>6, ResizedType
      <3> QED
        BY <3>1, <3>2, <3>3, <3>4, <3>5, <3>6, <3>7 DEF Armed, Validity
    <2>5. ASSUME NEW v \in Validities, SetValidityFails(v) PROVE Armed'
      <3>1. cfg' = Resized(v)
        BY <2>5 DEF SetValidityFails, SaveFails
      <3> QED
        BY <2>5, <3>1, ResizedType DEF SetValidityFails, Up, Armed, TypeOK
    <2>6. CASE Stop
      BY <2>6 DEF Stop, Rearm, Armed
    <2>7. CASE Fire
      <3>1. timer' # None
        <4>1. timer.due \in Nat
          BY <2>7 DEF Fire, Due, TypeOK, Timers
        <4>2. [due |-> timer.due, fired |-> TRUE] \in [due : Nat, fired : BOOLEAN]
          BY <4>1
        <4> QED
          BY <2>7, <4>2, NoneAssumption DEF Fire
      <3>2. timer'.due = timer.due
        BY <2>7 DEF Fire
      <3> QED
        BY <2>7, <3>1, <3>2 DEF Fire, Due, Armed, Validity
    <2>8. CASE Expire
      <3>1. cfg' = Disabled(cfg)
        BY <2>8 DEF Expire, Saved, SaveFails
      <3> QED
        BY <2>8, <3>1, DisabledType DEF Expire, Armed, TypeOK
    <2>9. CASE ExpireLate
      BY <2>9 DEF ExpireLate, Armed, Validity
    <2>10. CASE New
      <3>1. cfg' = Opened /\ now' = now
        BY <2>10 DEF New, Saved, SaveFails
      <3>2. timer' = IF Opened.enabled THEN After(Validity(Opened) - (now - Opened.at))
                                      ELSE None
        BY <2>10 DEF New
      <3>3. CASE Opened.enabled
        <4>1. /\ now \in Nat /\ Opened.at \in Nat /\ Validity(Opened) \in Nat
              /\ 0 < Opened.at /\ Opened.at <= now
              /\ now - Opened.at < Validity(Opened)
          BY <3>3, OpenedType, ValidityType DEF TypeOK, Configs
        <4>2. Validity(Opened) - (now - Opened.at) \in Nat
          BY <4>1
        <4>3. timer'.due = Opened.at + Validity(Opened) /\ timer' # None
          BY <3>2, <3>3, <4>1, <4>2, AfterType DEF TypeOK
        <4> QED
          BY <3>1, <4>1, <4>3 DEF Armed, Validity
      <3>4. CASE ~Opened.enabled
        BY <3>1, <3>2, <3>4 DEF Armed
      <3> QED
        BY <3>3, <3>4
    <2>11. CASE NewFails
      BY <2>11 DEF NewFails, Armed
    <2>12. CASE Exit
      BY <2>12 DEF Exit, Armed
    <2>13. CASE Tick
      <3>1. now' = now + 1 /\ now \in Nat /\ UNCHANGED <<status, cfg, timer, refused>>
        BY <2>13 DEF Tick, TypeOK
      <3>2. timer # None => now < timer.due
        BY <2>13, <3>1 DEF Tick, Due, TypeOK, Timers
      <3> QED
        BY <3>1, <3>2 DEF Armed, TypeOK, Configs, Timers, Validity
    <2>14. CASE UNCHANGED vars
      BY <2>14 DEF vars, Armed, Validity
    <2> QED
      BY <2>1, <2>2, <2>3, <2>4, <2>5, <2>6, <2>7, <2>8, <2>9, <2>10, <2>11, <2>12,
         <2>13, <2>14 DEF Next
  <1> QED
    BY <1>1, <1>2, TypeCorrect, PTL DEF Spec

\* Telemetry is enabled only within its window, for every validity, clock and
\* number of failed saves (Enable, SetValidity, resumeValidityWindow,
\* telemetry.go:383, 419, 508).
THEOREM TelemetryWindowBounded == Spec => []WindowBounded
  <1>1. TypeOK /\ Armed => WindowBounded
    BY DEF TypeOK, Armed, WindowBounded, Within, Configs, Timers
  <1> QED
    BY <1>1, TypeCorrect, WindowArmed, PTL

\* A callback runs only when its timer is due.
FiredIsDue == timer # None /\ timer.fired => timer.due <= now

\* A callback runs only when its timer is due, whatever replaces the timer and
\* however the clock goes on (startTimerLocked, telemetry.go:557).
THEOREM CallbackIsDue == Spec => []FiredIsDue
  <1>1. Init => FiredIsDue
    BY DEF Init, FiredIsDue
  <1>2. TypeOK /\ FiredIsDue /\ [Next]_vars => FiredIsDue'
    <2> SUFFICES ASSUME TypeOK, FiredIsDue, [Next]_vars PROVE FiredIsDue'
      OBVIOUS
    <2>1. ASSUME timer' = None PROVE FiredIsDue'
      BY <2>1 DEF FiredIsDue
    <2>2. ASSUME NEW d, timer' = After(d) PROVE FiredIsDue'
      <3>1. timer'.fired = FALSE
        BY <2>2 DEF After
      <3> QED
        BY <3>1 DEF FiredIsDue
    <2>3. CASE Fire
      <3>1. timer'.due = timer.due /\ timer.due <= now /\ now' = now
        BY <2>3 DEF Fire, Due
      <3> QED
        BY <3>1 DEF FiredIsDue
    <2>4. CASE Tick
      <3>1. now' = now + 1 /\ timer' = timer
        BY <2>4 DEF Tick
      <3> QED
        BY <3>1 DEF FiredIsDue, TypeOK, Timers
    <2>5. CASE UNCHANGED <<timer, now>>
      BY <2>5 DEF FiredIsDue
    <2>6. ASSUME NEW b \in BOOLEAN, Enable(b) PROVE FiredIsDue'
      BY <2>1, <2>2, <2>6 DEF Enable, Rearm
    <2>7. ASSUME NEW v \in Validities, SetValidity(v) PROVE FiredIsDue'
      BY <2>1, <2>2, <2>7 DEF SetValidity, Rearm
    <2>8. CASE New
      BY <2>1, <2>2, <2>8 DEF New
    <2>9. CASE Stop \/ Expire \/ Exit
      BY <2>1, <2>9 DEF Stop, Rearm, Expire, Exit
    <2> QED
      BY <2>3, <2>4, <2>5, <2>6, <2>7, <2>8, <2>9
      DEF Next, EnableFails, SetSuppressed, SetValidityFails, ExpireLate, NewFails, vars
  <1> QED
    BY <1>1, <1>2, TypeCorrect, PTL DEF Spec

\* A window is closed by a new validity only when it has ended by it (SetValidity,
\* telemetry.go:433).
LEMMA ResizedEnds ==
    ASSUME TypeOK, Armed, status = "running", cfg.enabled, NEW v \in Validities,
           ~Resized(v).enabled
    PROVE  now >= cfg.at + Validity(Resized(v))
  <1>1. 0 < cfg.at /\ cfg.at <= now /\ cfg.at \in Nat /\ now \in Nat /\ v \in Nat \ {0}
    BY TelemetryAssumption DEF Armed, TypeOK, Configs
  <1>2. Elapsed(cfg) >= v /\ Resized(v) = Disabled(Resize(cfg, v))
    BY <1>1 DEF Resized, Resize
  <1>3. Elapsed(cfg) = now - cfg.at
    BY <1>1, ElapsedType DEF TypeOK
  <1>4. Validity(Resized(v)) = v
    BY <1>1, <1>2 DEF Validity, Disabled, Window, Resize
  <1> QED
    BY <1>1, <1>2, <1>3, <1>4

\* No step ends a window before its validity is over unless it was asked to, for
\* every validity and any number of late callbacks (startTimerLocked and
\* SetValidity, telemetry.go:557, 419).
THEOREM TelemetryNotCutShort == Spec => NotCutShort
  <1> DEFINE A == status = "running" /\ status' = "running" /\ cfg.enabled /\ ~cfg'.enabled
                    /\ ~refused
                  => Enable(FALSE) \/ EnableFails(FALSE) \/ now >= cfg.at + Validity(cfg')
             Inv == TypeOK /\ Armed /\ FiredIsDue
  <1>1. ASSUME Inv, Next PROVE A
    <2> SUFFICES ASSUME status = "running", status' = "running", cfg.enabled, ~cfg'.enabled,
                        ~refused
                 PROVE  Enable(FALSE) \/ EnableFails(FALSE) \/ now >= cfg.at + Validity(cfg')
      OBVIOUS
    <2>1. ASSUME NEW b \in BOOLEAN, Enable(b) PROVE Enable(FALSE)
      <3>1. cfg' = Switched(b)
        BY <2>1 DEF Enable, Saved
      <3>2. b = FALSE
        BY <3>1, <1>1, SwitchedType
      <3> QED
        BY <3>2, <2>1
    <2>2. ASSUME NEW b \in BOOLEAN, EnableFails(b) PROVE EnableFails(FALSE)
      <3>1. cfg' = Switched(b)
        BY <2>2 DEF EnableFails, SaveFails
      <3>2. b = FALSE
        BY <3>1, <1>1, SwitchedType
      <3> QED
        BY <3>2, <2>2
    <2>3. ASSUME NEW b \in BOOLEAN, SetSuppressed(b) PROVE FALSE
      <3>1. cfg' = [cfg EXCEPT !.muted = b]
        BY <2>3 DEF SetSuppressed, Saved, SaveFails
      <3> QED
        BY <3>1, <1>1 DEF TypeOK, Configs
    <2>4. ASSUME NEW v \in Validities, SetValidity(v) \/ SetValidityFails(v)
          PROVE  now >= cfg.at + Validity(cfg')
      <3>1. cfg' = Resized(v)
        BY <2>4 DEF SetValidity, SetValidityFails, Saved, SaveFails
      <3> QED
        BY <3>1, <1>1, ResizedEnds
    <2>5. CASE Expire
      <3>1. cfg' = Disabled(cfg) /\ timer # None /\ timer.fired
        BY <2>5 DEF Expire, Saved, SaveFails
      <3>2. Validity(cfg') = Validity(cfg)
        BY <3>1 DEF Disabled, Window, Validity
      <3>3. timer.due = cfg.at + Validity(cfg) /\ timer.due <= now
        BY <3>1, <1>1 DEF Armed, FiredIsDue
      <3>4. cfg.at \in Nat /\ Validity(cfg) \in Nat /\ now \in Nat
        BY <1>1, ValidityType DEF TypeOK, Configs
      <3> QED
        BY <3>2, <3>3, <3>4
    <2>6. CASE Stop \/ Fire \/ ExpireLate \/ Tick
      BY <2>6 DEF Stop, Fire, ExpireLate, Tick
    <2>7. CASE New \/ NewFails \/ Exit
      BY <2>7 DEF New, NewFails, Exit
    <2> QED
      BY <2>1, <2>2, <2>3, <2>4, <2>5, <2>6, <2>7, <1>1 DEF Next
  <1>2. Inv /\ [Next]_vars => [A]_vars
    BY <1>1
  <1> HIDE DEF A
  <1>3. []Inv /\ [][Next]_vars => [][A]_vars
    BY <1>2, PTL
  <1>4. Spec => [][A]_vars
    BY <1>3, TypeCorrect, WindowArmed, CallbackIsDue, PTL DEF Spec
  <1> QED
    BY <1>4 DEF NotCutShort, A

\* No restart gives a saved window more time than it had left, for every validity
\* and wherever the clock is found (resumeValidityWindow, telemetry.go:508).
THEOREM TelemetryResumeKeepsEnd == Spec => ResumeKeepsEnd
  <1> DEFINE A == status = "down" /\ status' = "running" /\ disk # None /\ cfg'.enabled
                    /\ 0 < disk.at /\ disk.at <= now
                  => timer'.due = disk.at + Validity(disk) /\ now < timer'.due
  <1>1. ASSUME TypeOK, Next PROVE A
    <2> SUFFICES ASSUME status = "down", status' = "running", disk # None, cfg'.enabled,
                        0 < disk.at, disk.at <= now
                 PROVE  timer'.due = disk.at + Validity(disk) /\ now < timer'.due
      OBVIOUS
    <2>1. New
      BY <1>1 DEF Next, Enable, EnableFails, SetSuppressed, SetValidity, SetValidityFails, Stop,
                  Fire, Expire, ExpireLate, NewFails, Exit, Tick, Up
    <2>2. cfg' = Opened /\ Opened.enabled /\ Opened = Resumed(disk)
      BY <2>1 DEF New, Saved, SaveFails, Opened
    <2>3. /\ disk \in Configs /\ disk.at \in Nat /\ now \in Nat /\ Validity(disk) \in Nat
      BY <1>1, ValidityType DEF TypeOK, Configs
    <2>4. disk.enabled /\ now - disk.at < Validity(disk) /\ Opened = Window(disk, TRUE, disk.at)
      <3> DEFINE W == Window(disk, TRUE, disk.at)
      <3>1. Resumed(disk) = IF disk.enabled /\ now - disk.at < Validity(disk) THEN W
                            ELSE IF disk.enabled THEN Disabled(disk) ELSE disk
        <4>1. ~(disk.at = 0 \/ disk.at > now)
          BY <2>3
        <4> QED
          BY <4>1 DEF Resumed
      <3>2. ~Disabled(disk).enabled
        BY DEF Disabled, Window
      <3> HIDE DEF W
      <3>3. disk.enabled /\ now - disk.at < Validity(disk)
        BY <3>1, <3>2, <2>2
      <3>4. Opened = W
        BY <3>1, <3>3, <2>2
      <3> QED
        BY <3>3, <3>4 DEF W
    <2>5. Opened.at = disk.at /\ Validity(Opened) = Validity(disk)
      BY <2>4 DEF Window, Validity
    <2>6. timer' = After(Validity(disk) - (now - disk.at))
      BY <2>1, <2>2, <2>5 DEF New
    <2>7. timer'.due = now + (Validity(disk) - (now - disk.at))
      BY <2>6 DEF After
    <2> QED
      BY <2>3, <2>4, <2>7
  <1>2. TypeOK /\ [Next]_vars => [A]_vars
    BY <1>1
  <1> HIDE DEF A
  <1>3. []TypeOK /\ [][Next]_vars => [][A]_vars
    BY <1>2, PTL
  <1>4. Spec => [][A]_vars
    BY <1>3, TypeCorrect, PTL DEF Spec
  <1> QED
    BY <1>4 DEF ResumeKeepsEnd, A
=============================================================================
