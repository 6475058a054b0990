------------------------- MODULE VirtualMeterProofs --------------------------
(***************************************************************************)
(* Proofs about VirtualMeter, for any modes, levels, periods and capacity  *)
(* of the subscriptions, and any bounds of the clock, the changes and the  *)
(* faults.                                                                 *)
(***************************************************************************)
EXTENDS VirtualMeter, FiniteSetTheorems, WellFoundedInduction, TLAPS

MaxOn == Max({m["on"] : m \in Modes})
MaxLevel == Max(Levels)

\* The accounts of device d at time t: what was charged is for the time between
\* s, when the energy was zero, and the last update, and at least the reading r;
\* if it was watched (w), then with the time since it makes the energy x, and
\* the time since is not more than a recalculation charges.
Sound(d, t, s, r, w, x) ==
    /\ s <= d.LastTimeUpdated /\ d.LastTimeUpdated <= t
    /\ d.CurrentMode = "off" => d.Level = 0
    /\ d.AccumulatedEnergy <= (d.LastTimeUpdated - s) * (MaxOn * MaxLevel)
    /\ r <= d.AccumulatedEnergy
    /\ w => d.AccumulatedEnergy
              + (IF d.Active THEN (t - d.LastTimeUpdated) * Power(d) ELSE 0) = x
    /\ w /\ d.Active /\ Power(d) > 0 => t - d.LastTimeUpdated <= 2 * RecalculationPeriod

Accounts == stored # None => Sound(stored, now, since, reading, watched, drawn)

\* What is published for the handlers.
Events == [level |-> Levels, connectivity |-> BOOLEAN]

\* A thing without services is not registered.
Unregistered == services = {} => ~template

IInv == TypeOK /\ MeterMatchesStore /\ Unregistered /\ Accounts

-----------------------------------------------------------------------------

\* A finite set of numbers has a greatest one: a smallest set without one would
\* have one without any of its members.
LEMMA GreatestExists ==
    ASSUME NEW S \in SUBSET Nat, IsFiniteSet(S), S # {}
    PROVE  \E x \in S : \A y \in S : x >= y
  <1> DEFINE HasMax(U) == \E x \in U : \A y \in U : x >= y
             T == {U \in SUBSET S : U # {} /\ ~HasMax(U)}
             R == StrictSubsetOrdering(S)
  <1>1. IsWellFoundedOn(R, SUBSET S)
    <2>1. IsWellFoundedOn(R, FiniteSubsetsOf(S))
      BY FS_StrictSubsetOrderingWellFounded, Zenon
    <2> QED
      BY <2>1, FS_FiniteSubsetsOfFinite, Zenon
  <1>2. SUFFICES ASSUME T # {} PROVE FALSE
    OBVIOUS
  <1>3. PICK U \in T : \A V \in T : <<V, U>> \notin R
    <2> HIDE DEF T, R
    <2>1. T \subseteq SUBSET S
      BY DEF T
    <2> QED
      BY <2>1, <1>1, <1>2, WFMin, Zenon
  <1>4. PICK x \in U : TRUE
    OBVIOUS
  <1> DEFINE V == U \ {x}
  <1>5. <<V, U>> \in R
    BY <1>4 DEF StrictSubsetOrdering
  <1>6. V \notin T /\ V \in SUBSET S
    BY <1>3, <1>5
  <1>7. CASE V = {}
    <2>1. U = {x} /\ x \in Nat
      BY <1>7, <1>4
    <2>2. HasMax(U)
      BY <2>1
    <2> QED
      BY <2>2
  <1>8. CASE V # {}
    <2>1. PICK m \in V : \A y \in V : m >= y
      BY <1>6, <1>8
    <2>2. m \in Nat /\ x \in Nat
      BY <1>4
    <2>3. CASE m >= x
      <3>1. \A y \in U : m >= y
        BY <2>1, <2>3
      <3> QED
        BY <3>1
    <2>4. CASE x >= m
      <3>1. \A y \in U : x >= y
        <4> TAKE y \in U
        <4>1. y \in Nat
          OBVIOUS
        <4> QED
          BY <4>1, <2>1, <2>2, <2>4
      <3> QED
        BY <3>1, <1>4
    <2> QED
      BY <2>2, <2>3, <2>4
  <1> QED
    BY <1>7, <1>8

\* Max is what its name says.
LEMMA MaxIsGreatest ==
    ASSUME NEW S \in SUBSET Nat, IsFiniteSet(S), S # {}
    PROVE  Max(S) \in S /\ \A y \in S : y <= Max(S)
  <1>1. \E x \in S : \A y \in S : x >= y
    BY GreatestExists
  <1>2. Max(S) \in S /\ \A y \in S : Max(S) >= y
    BY <1>1, Zenon DEF Max
  <1> QED
    BY <1>2

\* The lesser of two numbers.
LEMMA MinOfTwo ==
    ASSUME NEW a \in Nat, NEW b \in Nat
    PROVE  /\ Min({a, b}) \in Nat /\ Min({a, b}) <= a
           /\ a <= b => Min({a, b}) = a
  <1>1. \E x \in {a, b} : \A y \in {a, b} : x <= y
    <2>1. CASE a <= b
      <3>1. \A y \in {a, b} : a <= y
        BY <2>1
      <3> QED
        BY <3>1
    <2>2. CASE b <= a
      <3>1. \A y \in {a, b} : b <= y
        BY <2>2
      <3> QED
        BY <3>1
    <2> QED
      BY <2>1, <2>2
  <1>2. Min({a, b}) \in {a, b} /\ \A y \in {a, b} : Min({a, b}) <= y
    BY <1>1, Zenon DEF Min
  <1> QED
    BY <1>2

\* What the proofs need of products.
LEMMA Products ==
    ASSUME NEW a \in Nat, NEW b \in Nat, NEW c \in Nat
    PROVE  /\ a * b \in Nat /\ 0 * b = 0 /\ a * 0 = 0
           /\ (a + b) * c = a * c + b * c
           /\ (a + 1) * c = a * c + c
           /\ a <= b => a * c <= b * c /\ c * a <= c * b
           /\ (a * b) * c = a * (b * c)
  <1>1. a * b \in Nat /\ 0 * b = 0 /\ a * 0 = 0 /\ (a + 1) * c = a * c + c
    OBVIOUS
  <1>2. (a + b) * c = a * c + b * c
    OBVIOUS
  <1>3. (a * b) * c = a * (b * c)
    OBVIOUS
  <1>4. ASSUME a <= b PROVE a * c <= b * c /\ c * a <= c * b
    <2>1. PICK d \in Nat : b = a + d
      <3>1. b - a \in Nat /\ b = a + (b - a)
        BY <1>4
      <3> QED
        BY <3>1
    <2>2. (a + d) * c = a * c + d * c /\ d * c \in Nat /\ a * c \in Nat
      OBVIOUS
    <2>3. c * a = a * c /\ c * b = b * c
      OBVIOUS
    <2> QED
      BY <2>1, <2>2, <2>3
  <1> QED
    BY <1>1, <1>2, <1>3, <1>4

\* The highest power of any mode and the highest level.
LEMMA Highest ==
    /\ MaxOn \in Nat /\ MaxLevel \in Nat /\ MaxOn * MaxLevel \in Nat
    /\ \A m \in Modes : m["on"] \in Nat /\ m["on"] <= MaxOn
    /\ \A l \in Levels \cup {0} : l \in Nat /\ l <= MaxLevel
  <1> DEFINE On == {m["on"] : m \in Modes}
             f == [m \in Modes |-> m["on"]]
  <1> USE VirtualMeterAssumption
  <1>1. On \in SUBSET Nat /\ On # {}
    OBVIOUS
  <1>2. IsFiniteSet(On)
    <2>1. f \in Surjection(Modes, On)
      BY DEF Surjection
    <2> QED
      BY <2>1, FS_Surjection
  <1>3. MaxOn \in On /\ \A y \in On : y <= MaxOn
    BY <1>1, <1>2, MaxIsGreatest DEF MaxOn
  <1>4. MaxLevel \in Levels /\ \A y \in Levels : y <= MaxLevel
    BY MaxIsGreatest DEF MaxLevel
  <1>5. MaxOn \in Nat /\ MaxLevel \in Nat
    BY <1>1, <1>3, <1>4
  <1>6. MaxOn * MaxLevel \in Nat
    BY <1>5, Products
  <1> HIDE DEF On
  <1>7. \A m \in Modes : m["on"] \in On
    BY DEF On
  <1> QED
    BY <1>1, <1>3, <1>4, <1>5, <1>6, <1>7

-----------------------------------------------------------------------------

\* The numbers among the constants.
LEMMA Numbers ==
    /\ RecalculationPeriod \in Nat /\ GarbagePeriod \in Nat
    /\ MaxTime \in Nat /\ MaxChanges \in Nat /\ MaxFaults \in Nat
  BY VirtualMeterAssumption

\* The fields of a device.
LEMMA Fields ==
    ASSUME NEW d \in Device
    PROVE  /\ d.Modes \in Modes \cup {NoModes} /\ d.CurrentMode \in {"on", "off", NoMode}
           /\ d.Level \in Levels \cup {0} /\ d.AccumulatedEnergy \in Nat
           /\ d.LastTimeUpdated \in Nat /\ d.LastTimeUpdated <= MaxTime
           /\ d.Active \in BOOLEAN /\ d # None
  <1>1. /\ d.Modes \in Modes \cup {NoModes} /\ d.CurrentMode \in {"on", "off", NoMode}
        /\ d.Level \in Levels \cup {0} /\ d.AccumulatedEnergy \in Nat
        /\ d.LastTimeUpdated \in 0..MaxTime
    BY DEF Device
  <1>2. d.Active \in BOOLEAN
    BY DEF Device
  <1>3. d.LastTimeUpdated \in Nat /\ d.LastTimeUpdated <= MaxTime
    BY <1>1, Numbers
  <1>4. d # None
    BY VirtualMeterAssumption
  <1> QED
    BY <1>1, <1>2, <1>3, <1>4

\* The power of a device is within the highest.
LEMMA PowerBound ==
    ASSUME NEW d \in Device, d.CurrentMode = "off" => d.Level = 0
    PROVE  Power(d) \in Nat /\ Power(d) <= MaxOn * MaxLevel
  <1>1. d.Level \in Nat /\ d.Level <= MaxLevel /\ MaxOn \in Nat /\ MaxLevel \in Nat
        /\ MaxOn * MaxLevel \in Nat
    BY Fields, Highest
  <1>2. NoMode # "on" /\ NoMode # "off"
    BY Zenon DEF NoMode
  <1>3. CASE Initialised(d) /\ d.CurrentMode = "on"
    <2>1. d.Modes \in Modes /\ d.Modes["on"] \in Nat /\ d.Modes["on"] <= MaxOn
      BY <1>3, Fields, Highest DEF Initialised
    <2>2. d.Modes["on"] * d.Level <= MaxOn * d.Level /\ d.Modes["on"] * d.Level \in Nat
      BY <2>1, <1>1, Products
    <2>3. MaxOn * d.Level <= MaxOn * MaxLevel /\ MaxOn * d.Level \in Nat
      BY <1>1, Products
    <2>4. Power(d) = d.Modes["on"] * d.Level
      BY <1>3, <1>2 DEF Power
    <2> QED
      BY <2>2, <2>3, <2>4, <1>1
  <1>4. CASE Initialised(d) /\ d.CurrentMode = "off"
    <2>1. d.Modes \in Modes /\ d.Modes["off"] \in Nat
      BY <1>4, Fields, VirtualMeterAssumption DEF Initialised
    <2>2. d.Modes["off"] * 0 = 0
      BY <2>1
    <2>3. Power(d) = 0
      BY <2>2, <1>4, <1>2 DEF Power
    <2> QED
      BY <2>3, <1>1
  <1>5. CASE ~Initialised(d) \/ d.CurrentMode = NoMode
    <2>1. Power(d) = 0
      BY <1>5 DEF Power
    <2> QED
      BY <2>1, <1>1
  <1> QED
    BY <1>3, <1>4, <1>5, Fields

\* Two devices of the same modes, mode and level have the same power.
LEMMA SamePower ==
    ASSUME NEW d, NEW e, e.Modes = d.Modes, e.CurrentMode = d.CurrentMode, e.Level = d.Level
    PROVE  Power(e) = Power(d) /\ (Initialised(e) <=> Initialised(d))
  BY DEF Power, Initialised

\* A device whose energy is zero from now on is accounted for.
LEMMA SoundZero ==
    ASSUME NEW d \in Device, NEW t \in Nat, NEW w,
           d.AccumulatedEnergy = 0, d.LastTimeUpdated = t, d.CurrentMode = "off" => d.Level = 0
    PROVE  Sound(d, t, t, 0, w, 0)
  <1>1. Power(d) \in Nat /\ MaxOn * MaxLevel \in Nat
    BY PowerBound, Highest
  <1>2. t - t = 0 /\ 0 * (MaxOn * MaxLevel) = 0 /\ 0 * Power(d) = 0 /\ RecalculationPeriod \in Nat
    BY <1>1, Products, VirtualMeterAssumption
  <1> QED
    BY <1>1, <1>2 DEF Sound

\* Device d becomes e by a charge of c for the time since the last update: not
\* more than it, and all of it if it is watched.  It may change its modes or its
\* level with that.
Charged(d, e, t, w, c) ==
    /\ e.Active = d.Active /\ e.LastTimeUpdated = t /\ (e.CurrentMode = "off" => e.Level = 0)
    /\ e.AccumulatedEnergy = d.AccumulatedEnergy + c
    /\ c <= (t - d.LastTimeUpdated) * Power(d)
    /\ w => c = IF d.Active THEN (t - d.LastTimeUpdated) * Power(d) ELSE 0

\* It is accounted for then.
LEMMA SoundCharged ==
    ASSUME NEW d \in Device, NEW e \in Device, NEW t \in Nat, NEW s \in Nat, NEW r \in Nat,
           NEW w \in BOOLEAN, NEW x \in Nat, NEW c \in Nat,
           Sound(d, t, s, r, w, x), Charged(d, e, t, w, c)
    PROVE  Sound(e, t, s, r, w, x)
  <1> DEFINE K == MaxOn * MaxLevel
             u == d.LastTimeUpdated
  <1>0. /\ K \in Nat /\ Power(d) \in Nat /\ Power(d) <= K /\ u \in Nat /\ s <= u /\ u <= t
        /\ d.AccumulatedEnergy \in Nat /\ d.AccumulatedEnergy <= (u - s) * K
        /\ r <= d.AccumulatedEnergy /\ Power(e) \in Nat
    BY Fields, Highest, PowerBound DEF Sound, Charged
  <1>1. PICK a \in Nat, b \in Nat : a = u - s /\ b = t - u /\ a + b = t - s
    <2>1. u - s \in Nat /\ t - u \in Nat /\ (u - s) + (t - u) = t - s
      BY <1>0
    <2> QED
      BY <2>1
  <1> HIDE DEF K
  <1>2. /\ (a + b) * K = a * K + b * K /\ b * Power(d) <= b * K
        /\ a * K \in Nat /\ b * K \in Nat /\ b * Power(d) \in Nat
    BY <1>0, <1>1, Products
  <1>3. e.AccumulatedEnergy <= (t - s) * K
    BY <1>0, <1>1, <1>2 DEF Charged
  <1>4. t - t = 0 /\ 0 * Power(e) = 0 /\ RecalculationPeriod \in Nat
    BY <1>0, Products, VirtualMeterAssumption
  <1>5. w => e.AccumulatedEnergy + (IF e.Active THEN (t - t) * Power(e) ELSE 0) = x
    <2>1. w => d.AccumulatedEnergy + c = x
      BY DEF Sound, Charged
    <2> QED
      BY <2>1, <1>0, <1>4 DEF Charged
  <1> QED
    BY <1>0, <1>3, <1>4, <1>5 DEF Sound, Charged, K

\* Device d becomes e, which changes its level or its activity while no energy is
\* to be charged, before or after, or is no longer watched.
Uncharged(d, e, t, w, v) ==
    /\ e.CurrentMode = "off" => e.Level = 0
    /\ e.LastTimeUpdated = d.LastTimeUpdated /\ e.AccumulatedEnergy = d.AccumulatedEnergy
    /\ v => w /\ (d.Active => (t - d.LastTimeUpdated) * Power(d) = 0)
    /\ v /\ e.Active => (t - e.LastTimeUpdated) * Power(e) = 0

\* It is accounted for then.
LEMMA SoundUncharged ==
    ASSUME NEW d \in Device, NEW e \in Device, NEW t \in Nat, NEW s \in Nat, NEW r \in Nat,
           NEW w \in BOOLEAN, NEW v \in BOOLEAN, NEW x \in Nat,
           Sound(d, t, s, r, w, x), Uncharged(d, e, t, w, v)
    PROVE  Sound(e, t, s, r, v, x)
  <1>0. /\ Power(e) \in Nat /\ RecalculationPeriod \in Nat
        /\ d.AccumulatedEnergy \in Nat /\ d.LastTimeUpdated \in Nat /\ d.LastTimeUpdated <= t
    BY Fields, PowerBound, VirtualMeterAssumption DEF Sound, Uncharged
  <1>1. v => e.AccumulatedEnergy
               + (IF e.Active THEN (t - e.LastTimeUpdated) * Power(e) ELSE 0) = x
    BY <1>0 DEF Sound, Uncharged
  <1>2. ASSUME v, e.Active, Power(e) > 0 PROVE t - e.LastTimeUpdated <= 2 * RecalculationPeriod
    <2>1. PICK a \in Nat : a = t - e.LastTimeUpdated
      BY <1>0 DEF Uncharged
    <2>2. a * Power(e) = 0
      BY <2>1, <1>2 DEF Uncharged
    <2>3. a = 0
      BY <2>2, <1>0, <1>2
    <2> QED
      BY <2>1, <2>3, <1>0
  <1> QED
    BY <1>1, <1>2 DEF Sound, Uncharged

\* Time passes, and is charged to device d if it is still watched.
Ticked(d, t, u, w, v, x, y) ==
    /\ u = t + 1
    /\ v =>
         /\ w /\ y = x + IF d.Active THEN Power(d) ELSE 0
         /\ ~(d.Active /\ Power(d) > 0 /\ t - d.LastTimeUpdated >= 2 * RecalculationPeriod)

\* It is accounted for then.
LEMMA SoundTick ==
    ASSUME NEW d \in Device, NEW t \in Nat, NEW u \in Nat, NEW s \in Nat, NEW r \in Nat,
           NEW w \in BOOLEAN, NEW v \in BOOLEAN, NEW x \in Nat, NEW y \in Nat,
           Sound(d, t, s, r, w, x), Ticked(d, t, u, w, v, x, y)
    PROVE  Sound(d, u, s, r, v, y)
  <1>0. /\ Power(d) \in Nat /\ RecalculationPeriod \in Nat
        /\ d.AccumulatedEnergy \in Nat /\ d.LastTimeUpdated \in Nat /\ d.LastTimeUpdated <= t
    BY Fields, PowerBound, VirtualMeterAssumption DEF Sound, Ticked
  <1>1. PICK a \in Nat : a = t - d.LastTimeUpdated /\ a + 1 = (t + 1) - d.LastTimeUpdated
    <2>1. t - d.LastTimeUpdated \in Nat
          /\ (t - d.LastTimeUpdated) + 1 = (t + 1) - d.LastTimeUpdated
      BY <1>0
    <2> QED
      BY <2>1
  <1>2. (a + 1) * Power(d) = a * Power(d) + Power(d) /\ a * Power(d) \in Nat
    BY <1>0, Products
  <1>3. v => d.AccumulatedEnergy
               + (IF d.Active THEN ((t + 1) - d.LastTimeUpdated) * Power(d) ELSE 0) = y
    BY <1>0, <1>1, <1>2 DEF Sound, Ticked
  <1>4. v /\ d.Active /\ Power(d) > 0 => (t + 1) - d.LastTimeUpdated <= 2 * RecalculationPeriod
    BY <1>0, <1>1 DEF Ticked
  <1>5. d.LastTimeUpdated <= u /\ u = t + 1
    BY <1>0 DEF Ticked
  <1> QED
    BY <1>3, <1>4, <1>5 DEF Sound, Ticked

-----------------------------------------------------------------------------

\* The device of registerVirtualServices and CleanDevice.
LEMMA DeviceNew ==
    ASSUME now \in 0..MaxTime
    PROVE  /\ EmptyDevice \in Device /\ ~Initialised(EmptyDevice)
           /\ EmptyDevice.AccumulatedEnergy = 0 /\ EmptyDevice.LastTimeUpdated = now
           /\ EmptyDevice.Level = 0
  BY DEF Device, EmptyDevice, Initialised

-----------------------------------------------------------------------------

\* An event that is published keeps the types of the bus, ...
LEMMA BusPublished ==
    ASSUME NEW CONSTANT E, BusTypeOK(E), NEW h \in Handlers, NEW e \in E[h],
           channel' = Published(h, e), UNCHANGED <<running, closeCh>>
    PROVE  BusTypeOK(E)'
  <1>1. CASE channel[h] # None /\ Len(channel[h]) < Buffer
    <2>1. channel' = [channel EXCEPT ![h] = Append(channel[h], e)]
      BY <1>1 DEF Published
    <2>2. Append(channel[h], e) \in Seq(E[h]) /\ Len(Append(channel[h], e)) <= Buffer
      BY <1>1, EventBusAssumption DEF BusTypeOK
    <2>3. channel' = [g \in Handlers |-> channel'[g]]
      BY <2>1 DEF BusTypeOK
    <2>4. channel'[h] = Append(channel[h], e) /\ \A g \in Handlers \ {h} : channel'[g] = channel[g]
      BY <2>1 DEF BusTypeOK
    <2> QED
      BY <2>2, <2>3, <2>4 DEF BusTypeOK
  <1>2. CASE ~(channel[h] # None /\ Len(channel[h]) < Buffer)
    BY <1>2 DEF Published, BusTypeOK
  <1> QED
    BY <1>1, <1>2

\* ... as does an event that is processed, ...
LEMMA BusProcess ==
    ASSUME NEW CONSTANT E, BusTypeOK(E), NEW h \in Handlers, Process(h)
    PROVE  BusTypeOK(E)' /\ Head(channel[h]) \in E[h]
  <1>1. channel[h] \in Seq(E[h]) /\ channel[h] # <<>> /\ Len(channel[h]) <= Buffer
    BY DEF Process, BusTypeOK
  <1>2. Head(channel[h]) \in E[h] /\ Tail(channel[h]) \in Seq(E[h]) /\ Len(Tail(channel[h])) <= Buffer
    <2> DEFINE q == channel[h]
    <2>1. q \in Seq(E[h]) /\ q # <<>> /\ Len(q) <= Buffer /\ Buffer \in Nat
      BY <1>1, EventBusAssumption
    <2> HIDE DEF q
    <2>2. Head(q) \in E[h] /\ Tail(q) \in Seq(E[h]) /\ Len(Tail(q)) <= Buffer
      BY <2>1
    <2> QED
      BY <2>2 DEF q
  <1>3. channel' = [channel EXCEPT ![h] = Tail(channel[h])]
    BY DEF Process
  <1>4. channel' = [g \in Handlers |-> channel'[g]]
    BY <1>3 DEF BusTypeOK
  <1>5. channel'[h] = Tail(channel[h]) /\ \A g \in Handlers \ {h} : channel'[g] = channel[g]
    BY <1>3 DEF BusTypeOK
  <1>6. BusTypeOK(E)'
    BY <1>2, <1>4, <1>5 DEF Process, BusTypeOK
  <1> QED
    BY <1>2, <1>6

\* ... and the start and the end of the listener.
LEMMA BusListener ==
    ASSUME NEW CONSTANT E, BusTypeOK(E),
           Start \/ Stop \/ Stopped \/ Exit \/ \E h \in Handlers : Leave(h)
    PROVE  BusTypeOK(E)'
  <1>1. CASE Start
    <2>1. ASSUME NEW h \in Handlers
          PROVE  Subscribed(h) \in Seq(E[h]) /\ Len(Subscribed(h)) <= Buffer
      <3>1. <<>> \in Seq(E[h]) /\ Len(<<>>) = 0 /\ 0 <= Buffer
        BY EventBusAssumption
      <3> QED
        BY <3>1 DEF BusTypeOK, Subscribed
    <2>2. channel' = [h \in Handlers |-> channel'[h]] /\ \A h \in Handlers : channel'[h] = Subscribed(h)
      BY <1>1 DEF Start
    <2>3. running' \in [Handlers -> BOOLEAN] /\ closeCh' = "open"
      BY <1>1 DEF Start
    <2> QED
      BY <2>1, <2>2, <2>3 DEF BusTypeOK
  <1>2. CASE Stop
    BY <1>2 DEF Stop, BusTypeOK
  <1>3. CASE Stopped \/ Exit
    <2>1. channel' = [h \in Handlers |-> channel'[h]] /\ \A h \in Handlers : channel'[h] = None
      BY <1>3 DEF Stopped, Exit
    <2>2. running' \in [Handlers -> BOOLEAN] /\ closeCh' = "nil"
      BY <1>3 DEF Stopped, Exit, BusTypeOK
    <2> QED
      BY <2>1, <2>2 DEF BusTypeOK
  <1>4. ASSUME NEW h \in Handlers, Leave(h) PROVE BusTypeOK(E)'
    <2>1. running' \in [Handlers -> BOOLEAN]
      BY <1>4 DEF Leave, BusTypeOK
    <2> QED
      BY <2>1, <1>4 DEF Leave, BusTypeOK
  <1> QED
    BY <1>1, <1>2, <1>3, <1>4

-----------------------------------------------------------------------------

\* The failures stay within their bound.
LEMMA OutcomeTypes ==
    ASSUME faults \in 0..MaxFaults, NEW b \in BOOLEAN, Outcome(b)
    PROVE  faults' \in 0..MaxFaults
  BY Numbers DEF Outcome

\* What the proofs of the actions use of the invariant.
LEMMA Facts ==
    ASSUME IInv
    PROVE  /\ BusTypeOK(Events)
           /\ stored # None => stored \in Device /\ Sound(stored, now, since, reading, watched, drawn)
           /\ now \in 0..MaxTime /\ now \in Nat /\ since \in 0..MaxTime /\ since \in Nat
           /\ reading \in Nat /\ drawn \in Nat /\ watched \in BOOLEAN
           /\ services \in {{}, {"vms"}, {"vms", "meter"}} /\ faults \in 0..MaxFaults
  BY Numbers DEF IInv, TypeOK, Events, Accounts

\* recalculateEnergy: a device that is accounted for still is, with no energy to
\* be charged if it was forced to.
LEMMA Recalculated ==
    ASSUME IInv, stored # None, NEW force \in BOOLEAN, NEW g,
           g = recalculateEnergy(force, stored)
    PROVE  /\ g \in Device /\ g.Modes = stored.Modes /\ g.CurrentMode = stored.CurrentMode
           /\ g.Level = stored.Level /\ g.Active = stored.Active
           /\ Sound(g, now, since, reading, watched, drawn)
           /\ force => (~stored.Active /\ g = stored) \/ g.LastTimeUpdated = now
  <1>1. PICK d \in Device : d = stored /\ Sound(d, now, since, reading, watched, drawn)
    BY Facts
  <1>2. /\ now \in 0..MaxTime /\ since \in Nat /\ reading \in Nat /\ drawn \in Nat
        /\ watched \in BOOLEAN
    BY Facts
  <1>3. SUFFICES /\ g \in Device /\ g.Modes = d.Modes /\ g.CurrentMode = d.CurrentMode
                 /\ g.Level = d.Level /\ g.Active = d.Active
                 /\ Sound(g, now, since, reading, watched, drawn)
                 /\ force => (~d.Active /\ g = d) \/ g.LastTimeUpdated = now
    BY <1>1
  <1> DEFINE c == Min({Elapsed(d), 2 * RecalculationPeriod}) * Power(d)
             e == [d EXCEPT !.AccumulatedEnergy = @ + c, !.LastTimeUpdated = now]
             f == [d EXCEPT !.AccumulatedEnergy = d.AccumulatedEnergy + c, !.LastTimeUpdated = now]
  <1>4. /\ now \in Nat /\ d.AccumulatedEnergy \in Nat /\ d.LastTimeUpdated \in Nat
        /\ d.LastTimeUpdated <= now /\ Power(d) \in Nat
        /\ RecalculationPeriod \in Nat /\ 2 * RecalculationPeriod \in Nat
        /\ d.CurrentMode = "off" => d.Level = 0
    BY <1>1, <1>2, Fields, PowerBound, Numbers DEF Sound
  <1>5. PICK a \in Nat : a = now - d.LastTimeUpdated /\ a = Elapsed(d)
    BY <1>4 DEF Elapsed
  <1>6. PICK b \in Nat : /\ b = Min({a, 2 * RecalculationPeriod}) /\ b <= a
                         /\ a <= 2 * RecalculationPeriod => b = a
    BY <1>4, MinOfTwo
  <1>7. c = b * Power(d) /\ b * Power(d) \in Nat /\ b * Power(d) <= a * Power(d)
    BY <1>4, <1>5, <1>6, Products
  <1>8. watched /\ d.Active => b * Power(d) = a * Power(d)
    <2>1. CASE Power(d) = 0
      BY <2>1, <1>4, <1>7, Products
    <2>2. CASE Power(d) > 0
      BY <2>2, <1>4, <1>5, <1>6, <1>1 DEF Sound
    <2> QED
      BY <2>1, <2>2, <1>4
  <1> HIDE DEF c
  <1>9. CASE Due(force, d)
    <2>1. recalculateEnergy(force, d) = e /\ e = f
      BY <1>9 DEF recalculateEnergy, c
    <2>2. PICK n \in Nat : n = d.AccumulatedEnergy + c
      BY <1>4, <1>7
    <2>3. /\ f \in Device /\ f.Modes = d.Modes /\ f.CurrentMode = d.CurrentMode
          /\ f.Level = d.Level /\ f.Active = d.Active
          /\ f.AccumulatedEnergy = d.AccumulatedEnergy + c /\ f.LastTimeUpdated = now
      BY <2>2, <1>2 DEF Device
    <2>4. d.Active
      BY <1>9 DEF Due
    <2> HIDE DEF e, f
    <2>5. Sound(f, now, since, reading, watched, drawn)
      <3>1. /\ c \in Nat /\ c <= (now - d.LastTimeUpdated) * Power(d)
            /\ watched => c = (now - d.LastTimeUpdated) * Power(d)
        BY <2>4, <1>5, <1>7, <1>8
      <3>2. f.CurrentMode = "off" => f.Level = 0
        BY <2>3, <1>4
      <3>3. watched => c = IF d.Active THEN (now - d.LastTimeUpdated) * Power(d) ELSE 0
        BY <3>1, <2>4
      <3>4. Charged(d, f, now, watched, c)
        BY <3>1, <3>2, <3>3, <2>3 DEF Charged
      <3> QED
        BY <3>1, <3>4, <2>3, <1>4, <1>1, <1>2, SoundCharged
    <2> QED
      BY <2>1, <2>3, <2>5, <1>1
  <1>10. CASE ~Due(force, d)
    <2>1. recalculateEnergy(force, d) = d
      BY <1>10 DEF recalculateEnergy
    <2>2. force => ~d.Active
      BY <1>10 DEF Due
    <2> QED
      BY <2>1, <2>2, <1>1
  <1> QED
    BY <1>9, <1>10

\* Whatever starts the energy from zero keeps the accounts.
LEMMA ZeroStep ==
    ASSUME IInv, NEW ok \in BOOLEAN, NEW d \in Device \cup {None},
           d # None => /\ d.AccumulatedEnergy = 0 /\ d.LastTimeUpdated = now
                       /\ d.CurrentMode = "off" => d.Level = 0,
           SetDevice(d, ok), Zeroed(ok), UNCHANGED now
    PROVE  /\ stored' \in Device \cup {None} /\ Accounts'
           /\ since' \in 0..MaxTime /\ drawn' \in Nat /\ watched' \in BOOLEAN /\ reading' \in Nat
  <1>1. CASE ok
    <2>1. /\ stored' = d /\ since' = now /\ drawn' = 0 /\ reading' = 0
      BY <1>1 DEF SetDevice, Zeroed
    <2>2. watched' \in BOOLEAN
      BY DEF Zeroed
    <2>3. d # None => Sound(d, now, now, 0, watched', 0)
      BY Facts, SoundZero
    <2>4. Accounts'
      BY <2>1, <2>3 DEF Accounts
    <2> QED
      BY <2>1, <2>2, <2>4, Facts
  <1>2. CASE ~ok
    <2>1. UNCHANGED <<stored, since, drawn, reading>> /\ watched' = watched
      BY <1>2, Facts DEF SetDevice, Zeroed
    <2>2. Accounts'
      BY <2>1 DEF IInv, Accounts
    <2> QED
      BY <2>1, <2>2, Facts DEF IInv, TypeOK
  <1> QED
    BY <1>1, <1>2

\* Whatever saves a device that is accounted for keeps the accounts.
LEMMA SaveStep ==
    ASSUME IInv, NEW ok \in BOOLEAN, NEW d \in Device,
           Sound(d, now, since, reading, watched, drawn),
           SetDevice(d, ok), UNCHANGED <<now, since, reading, watched, drawn>>
    PROVE  stored' \in Device \cup {None} /\ Accounts'
  <1>1. CASE ok
    BY <1>1 DEF SetDevice, Accounts
  <1>2. CASE ~ok
    BY <1>2 DEF SetDevice, Accounts, IInv, TypeOK
  <1> QED
    BY <1>1, <1>2

-----------------------------------------------------------------------------

\* The initial state satisfies the invariant.
LEMMA InitIInv == Init => IInv
  <1> SUFFICES ASSUME Init PROVE IInv
    OBVIOUS
  <1>1. BusTypeOK(Events)
    BY DEF Init, BusInit, BusTypeOK
  <1>2. /\ stored = None /\ services = {} /\ reading = 0 /\ level \in Levels /\ drawn = 0
        /\ now \in 0..MaxTime /\ since \in 0..MaxTime
        /\ changes \in 0..MaxChanges /\ faults \in 0..MaxFaults
    BY Numbers DEF Init
  <1>3. template = FALSE /\ template \in BOOLEAN /\ watched \in BOOLEAN
    BY DEF Init
  <1>4. TypeOK
    BY <1>1, <1>2, <1>3 DEF TypeOK, Events
  <1> QED
    BY <1>2, <1>3, <1>4 DEF IInv, MeterMatchesStore, Unregistered, Accounts

\* registerVirtualServices.
LEMMA StepRegisterThing == ASSUME IInv, RegisterThing PROVE IInv'
  <1>0. /\ BusTypeOK(Events)' /\ level' \in Levels /\ now' \in 0..MaxTime /\ changes' \in 0..MaxChanges
        /\ UNCHANGED now
    BY Facts DEF RegisterThing, world, bus, BusTypeOK, IInv, TypeOK
  <1>1. ASSUME stored # None, Initialised(stored), services' = {"vms", "meter"}, template' = TRUE,
               UNCHANGED <<stored, faults, history, reading>>
        PROVE  IInv'
    <2>1. UNCHANGED <<stored, faults, since, drawn, watched, reading>>
      BY <1>1 DEF history
    <2>2. TypeOK'
      BY <1>1, <2>1, <1>0, Facts DEF IInv, TypeOK, Events
    <2>3. MeterMatchesStore' /\ Unregistered' /\ Accounts'
      BY <2>1, <1>0, <1>1 DEF IInv, MeterMatchesStore, Unregistered, Accounts, Initialised
    <2> QED
      BY <2>2, <2>3 DEF IInv
  <1>2. ASSUME ~(stored # None /\ Initialised(stored)), NEW ok \in BOOLEAN,
               Save(EmptyDevice, ok), Zeroed(ok), services' = {"vms"}, template' = ok
        PROVE  IInv'
    <2>2. EmptyDevice \in Device \cup {None} /\ SetDevice(EmptyDevice, ok) /\ faults' \in 0..MaxFaults
      BY <1>2, Facts, DeviceNew, OutcomeTypes DEF Save
    <2>3. /\ stored' \in Device \cup {None} /\ Accounts'
          /\ since' \in 0..MaxTime /\ drawn' \in Nat /\ watched' \in BOOLEAN /\ reading' \in Nat
      BY <1>2, <2>2, <1>0, Facts, DeviceNew, ZeroStep
    <2>4. stored' = EmptyDevice \/ stored' = stored
      BY <2>2 DEF SetDevice
    <2>5. MeterMatchesStore'
      <3>1. stored' = None \/ ~Initialised(stored')
        BY <2>4, <1>2, Facts, DeviceNew DEF Initialised
      <3>2. MeterMatchesStore' <=>
              (services' # {} /\ stored' # None => ("meter" \in services' <=> template' /\ Initialised(stored')))
        BY DEF MeterMatchesStore, Initialised
      <3> QED
        BY <3>1, <3>2, <1>2
    <2>6. template' \in BOOLEAN /\ Unregistered'
      BY <1>2 DEF Unregistered
    <2>7. TypeOK'
      BY <1>2, <2>2, <2>3, <2>6, <1>0 DEF TypeOK, Events
    <2> QED
      BY <2>3, <2>5, <2>6, <2>7 DEF IInv
  <1>3. ASSUME services' = {"vms"}, UNCHANGED <<stored, template, faults, history, reading>>
        PROVE  IInv'
    <2>1. UNCHANGED <<stored, template, faults, since, drawn, watched, reading>>
      BY <1>3 DEF history
    <2>2. TypeOK'
      BY <1>3, <2>1, <1>0, Facts DEF IInv, TypeOK, Events
    <2>3. ~template'
      BY <2>1 DEF RegisterThing, IInv, Unregistered
    <2>4. MeterMatchesStore' /\ Unregistered' /\ Accounts'
      BY <2>1, <2>3, <1>0, <1>3 DEF IInv, MeterMatchesStore, Unregistered, Accounts
    <2> QED
      BY <2>2, <2>4 DEF IInv
  <1> QED
    BY <1>1, <1>2, <1>3 DEF RegisterThing

\* AddMeter.
LEMMA StepAdd == ASSUME IInv, NEW modes \in Modes, Add(modes) PROVE IInv'
  <1> DEFINE d == IF Initialised(stored) THEN recalculateEnergy(TRUE, stored) ELSE stored
             new == IF Initialised(stored) THEN {} ELSE {"meter"}
             e == [d EXCEPT !.Modes = modes, !.LastTimeUpdated = now]
  <1>0. /\ BusTypeOK(Events)' /\ level' \in Levels /\ now' \in 0..MaxTime /\ changes' \in 0..MaxChanges
        /\ UNCHANGED <<now, template, reading, since, drawn, watched>>
    BY Facts DEF Add, world, bus, history, BusTypeOK, IInv, TypeOK
  <1>1. /\ stored \in Device /\ stored # None /\ "vms" \in services /\ template
        /\ Sound(stored, now, since, reading, watched, drawn)
        /\ now \in 0..MaxTime /\ since \in Nat /\ reading \in Nat /\ drawn \in Nat
        /\ watched \in BOOLEAN
    BY Facts DEF Add
  <1>2. /\ d \in Device /\ Sound(d, now, since, reading, watched, drawn)
        /\ d.Active => (now - d.LastTimeUpdated) * Power(d) = 0
        /\ Power(d) \in Nat /\ (d.CurrentMode = "off" => d.Level = 0)
    <2>1. CASE Initialised(stored)
      <3>1. d = recalculateEnergy(TRUE, stored)
        BY <2>1
      <3> HIDE DEF d
      <3>2. /\ d \in Device /\ Sound(d, now, since, reading, watched, drawn)
            /\ d.Active = stored.Active /\ ((~stored.Active /\ d = stored) \/ d.LastTimeUpdated = now)
        BY <3>1, <1>1, Recalculated
      <3>3. Power(d) \in Nat /\ (d.CurrentMode = "off" => d.Level = 0)
        BY <3>2, PowerBound DEF Sound
      <3>4. now - now = 0 /\ 0 * Power(d) = 0
        BY <3>3, Facts, Products
      <3> QED
        BY <3>2, <3>3, <3>4
    <2>2. CASE ~Initialised(stored)
      <3>1. Power(stored) = 0
        BY <2>2 DEF Power
      <3>2. stored.LastTimeUpdated \in Nat /\ stored.LastTimeUpdated <= now
        BY <1>1, Fields DEF Sound
      <3>3. now - stored.LastTimeUpdated \in Nat
        BY <3>2, Facts
      <3>4. (now - stored.LastTimeUpdated) * 0 = 0
        BY <3>3, Products
      <3> QED
        BY <3>1, <3>4, <2>2, <1>1 DEF Sound
    <2> QED
      BY <2>1, <2>2
  <1> HIDE DEF d
  <1>3. /\ e \in Device /\ e.Modes = modes /\ e.CurrentMode = d.CurrentMode
        /\ e.Level = d.Level /\ e.Active = d.Active
        /\ e.AccumulatedEnergy = d.AccumulatedEnergy /\ e.LastTimeUpdated = now
    BY <1>1, <1>2 DEF Device
  <1> HIDE DEF e
  <1>4. Charged(d, e, now, watched, 0)
    <2>1. /\ d.AccumulatedEnergy \in Nat /\ d.LastTimeUpdated \in Nat /\ d.LastTimeUpdated <= now
      BY <1>2, Fields DEF Sound
    <2>2. now - d.LastTimeUpdated \in Nat
      BY <2>1, Facts
    <2>3. (now - d.LastTimeUpdated) * Power(d) \in Nat
      BY <2>2, <1>2, Products
    <2>4. 0 <= (now - d.LastTimeUpdated) * Power(d) /\ d.AccumulatedEnergy = d.AccumulatedEnergy + 0
      BY <2>1, <2>3
    <2> QED
      BY <2>4, <1>2, <1>3 DEF Charged
  <1>5. Sound(e, now, since, reading, watched, drawn)
    BY <1>2, <1>3, <1>4, Facts, SoundCharged
  <1>6. PICK ok \in BOOLEAN : SetDevice(e, ok) /\ Included(ok, new # {}, services \cup new)
    BY DEF Add, d, e
  <1>7. stored' \in Device \cup {None} /\ Accounts'
    BY <1>0, <1>3, <1>5, <1>6, SaveStep
  <1>8. faults' \in 0..MaxFaults
    <2>1. PICK b \in BOOLEAN : Outcome(ok /\ b)
      BY <1>6 DEF Included
    <2> QED
      BY <2>1, Facts, OutcomeTypes
  <1>9. services' \in {{}, {"vms"}, {"vms", "meter"}} /\ MeterMatchesStore'
    <2>1. MeterMatchesStore' <=>
            (services' # {} /\ stored' # None => ("meter" \in services' <=> template' /\ Initialised(stored')))
      BY DEF MeterMatchesStore, Initialised
    <2>2. CASE ok
      <3>1. stored' = e /\ services' = services \cup new
        BY <2>2, <1>6 DEF SetDevice, Included
      <3>2. Initialised(e)
        BY <1>3, VirtualMeterAssumption DEF Initialised
      <3>3. "meter" \in services \cup new
        BY <1>1 DEF IInv, MeterMatchesStore
      <3>4. services \cup new \in {{}, {"vms"}, {"vms", "meter"}}
        BY <1>1, Facts
      <3> QED
        BY <3>1, <3>2, <3>3, <3>4, <2>1, <1>0, <1>1
    <2>3. CASE ~ok
      <3>1. stored' = stored /\ services' = services
        BY <2>3, <1>6 DEF SetDevice, Included
      <3> QED
        BY <3>1, <2>1, <1>0, Facts DEF IInv, MeterMatchesStore
    <2> QED
      BY <2>2, <2>3
  <1>10. TypeOK'
    BY <1>0, <1>7, <1>8, <1>9, Facts DEF IInv, TypeOK, Events
  <1>11. Unregistered'
    BY <1>1, <1>6 DEF Included, Unregistered
  <1> QED
    BY <1>7, <1>9, <1>10, <1>11 DEF IInv

\* RemoveMeter.
LEMMA StepRemove == ASSUME IInv, Remove PROVE IInv'
  <1>0. /\ BusTypeOK(Events)' /\ level' \in Levels /\ now' \in 0..MaxTime /\ changes' \in 0..MaxChanges
        /\ UNCHANGED <<now, template>> /\ "vms" \in services
    BY Facts DEF Remove, world, bus, BusTypeOK, IInv, TypeOK
  <1>1. PICK ok \in BOOLEAN :
          SetDevice(EmptyDevice, ok) /\ Zeroed(ok) /\ Included(ok, TRUE, services \ {"meter"})
    BY DEF Remove
  <1>2. /\ stored' \in Device \cup {None} /\ Accounts'
        /\ since' \in 0..MaxTime /\ drawn' \in Nat /\ watched' \in BOOLEAN /\ reading' \in Nat
    BY <1>0, <1>1, Facts, DeviceNew, ZeroStep
  <1>3. faults' \in 0..MaxFaults
    <2>1. PICK b \in BOOLEAN : Outcome(ok /\ b)
      BY <1>1 DEF Included
    <2> QED
      BY <2>1, Facts, OutcomeTypes
  <1>4. services' \in {{}, {"vms"}, {"vms", "meter"}} /\ services' # {} /\ MeterMatchesStore'
    <2>1. MeterMatchesStore' <=>
            (services' # {} /\ stored' # None => ("meter" \in services' <=> template' /\ Initialised(stored')))
      BY DEF MeterMatchesStore, Initialised
    <2>2. CASE ok
      <3>1. stored' = EmptyDevice /\ services' = services \ {"meter"}
        BY <2>2, <1>1 DEF SetDevice, Included
      <3>2. services \ {"meter"} = {"vms"}
        BY <1>0, Facts
      <3> QED
        BY <3>1, <3>2, <2>1, Facts, DeviceNew
    <2>3. CASE ~ok
      <3>1. stored' = stored /\ services' = services
        BY <2>3, <1>1 DEF SetDevice, Included
      <3> QED
        BY <3>1, <2>1, <1>0, Facts DEF IInv, MeterMatchesStore
    <2> QED
      BY <2>2, <2>3
  <1>5. TypeOK'
    BY <1>0, <1>2, <1>3, <1>4, Facts DEF IInv, TypeOK, Events
  <1> QED
    BY <1>2, <1>4, <1>5 DEF IInv, Unregistered

\* A step that leaves the services and the modes of the device alone, or removes
\* the device, keeps the services.
LEMMA ServicesStep ==
    ASSUME IInv, UNCHANGED <<template, services>>,
           stored' = None \/ (stored # None /\ stored'.Modes = stored.Modes)
    PROVE  services' \in {{}, {"vms"}, {"vms", "meter"}} /\ MeterMatchesStore' /\ Unregistered'
  <1>1. MeterMatchesStore' <=>
          (services' # {} /\ stored' # None => ("meter" \in services' <=> template' /\ Initialised(stored')))
    BY DEF MeterMatchesStore, Initialised
  <1>2. stored' # None => (Initialised(stored') <=> Initialised(stored))
    BY DEF Initialised
  <1> QED
    BY <1>1, <1>2, Facts DEF IInv, MeterMatchesStore, Unregistered

\* MeterReport.
LEMMA StepReport == ASSUME IInv, Report PROVE IInv'
  <1> DEFINE e == recalculateEnergy(FALSE, stored)
  <1>0. /\ BusTypeOK(Events)' /\ level' \in Levels /\ now' \in 0..MaxTime /\ changes' \in 0..MaxChanges
        /\ UNCHANGED <<now, template, services, since, drawn, watched>> /\ stored # None
    BY Facts DEF Report, world, bus, history, BusTypeOK, IInv, TypeOK
  <1>1. e \in Device /\ e.Modes = stored.Modes /\ Sound(e, now, since, reading, watched, drawn)
    BY <1>0, Recalculated
  <1>2. PICK ok \in BOOLEAN : /\ Save(e, ok)
                              /\ reading' = IF ok THEN stored'.AccumulatedEnergy ELSE reading
    BY DEF Report
  <1> HIDE DEF e
  <1>3. faults' \in 0..MaxFaults /\ stored' = IF ok THEN e ELSE stored
    BY <1>2, Facts, OutcomeTypes DEF Save, SetDevice
  <1>4. e.AccumulatedEnergy \in Nat /\ Sound(e, now, since, e.AccumulatedEnergy, watched, drawn)
    BY <1>1, Fields DEF Sound
  <1>5. stored' \in Device \cup {None} /\ reading' \in Nat /\ Accounts'
    <2>1. CASE ok
      BY <2>1, <1>0, <1>1, <1>2, <1>3, <1>4 DEF Accounts
    <2>2. CASE ~ok
      BY <2>2, <1>0, <1>2, <1>3, Facts DEF Accounts
    <2> QED
      BY <2>1, <2>2
  <1>6. services' \in {{}, {"vms"}, {"vms", "meter"}} /\ MeterMatchesStore' /\ Unregistered'
    BY <1>0, <1>1, <1>3, ServicesStep
  <1>7. TypeOK'
    BY <1>0, <1>3, <1>5, <1>6, Facts DEF IInv, TypeOK, Events
  <1> QED
    BY <1>5, <1>6, <1>7 DEF IInv

\* MeterReset.
LEMMA StepReset == ASSUME IInv, Reset PROVE IInv'
  <1> DEFINE e == [stored EXCEPT !.AccumulatedEnergy = 0, !.LastTimeUpdated = now]
  <1>0. /\ BusTypeOK(Events)' /\ level' \in Levels /\ now' \in 0..MaxTime /\ changes' \in 0..MaxChanges
        /\ UNCHANGED <<now, template, services>> /\ stored # None
    BY Facts DEF Reset, world, bus, BusTypeOK, IInv, TypeOK
  <1>1. PICK ok \in BOOLEAN : Save(e, ok) /\ Zeroed(ok)
    BY DEF Reset
  <1>2. /\ stored \in Device /\ now \in 0..MaxTime
        /\ stored.CurrentMode = "off" => stored.Level = 0
    BY <1>0, Facts DEF Sound
  <1>3. /\ e \in Device /\ e.Modes = stored.Modes /\ e.CurrentMode = stored.CurrentMode
        /\ e.Level = stored.Level /\ e.AccumulatedEnergy = 0 /\ e.LastTimeUpdated = now
    BY <1>2 DEF Device
  <1> HIDE DEF e
  <1>4. faults' \in 0..MaxFaults /\ SetDevice(e, ok) /\ stored' = IF ok THEN e ELSE stored
    BY <1>1, Facts, OutcomeTypes DEF Save, SetDevice
  <1>5. /\ stored' \in Device \cup {None} /\ Accounts'
        /\ since' \in 0..MaxTime /\ drawn' \in Nat /\ watched' \in BOOLEAN /\ reading' \in Nat
    BY <1>0, <1>1, <1>2, <1>3, <1>4, ZeroStep
  <1>6. services' \in {{}, {"vms"}, {"vms", "meter"}} /\ MeterMatchesStore' /\ Unregistered'
    BY <1>0, <1>3, <1>4, ServicesStep
  <1>7. TypeOK'
    BY <1>0, <1>4, <1>5, <1>6 DEF IInv, TypeOK, Events
  <1> QED
    BY <1>5, <1>6, <1>7 DEF IInv

\* handleGarbageCleaning.
LEMMA StepClean == ASSUME IInv, Clean PROVE IInv'
  <1>0. /\ BusTypeOK(Events)' /\ level' \in Levels /\ now' \in 0..MaxTime /\ changes' \in 0..MaxChanges
        /\ UNCHANGED <<now, template, services>> /\ stored # None
    BY Facts DEF Clean, world, bus, BusTypeOK, IInv, TypeOK
  <1>1. PICK ok \in BOOLEAN : Save(None, ok) /\ Zeroed(ok)
    BY DEF Clean
  <1>2. faults' \in 0..MaxFaults /\ SetDevice(None, ok) /\ stored' = IF ok THEN None ELSE stored
    BY <1>1, Facts, OutcomeTypes DEF Save, SetDevice
  <1>3. /\ stored' \in Device \cup {None} /\ Accounts'
        /\ since' \in 0..MaxTime /\ drawn' \in Nat /\ watched' \in BOOLEAN /\ reading' \in Nat
    BY <1>0, <1>1, <1>2, ZeroStep
  <1>4. services' \in {{}, {"vms"}, {"vms", "meter"}} /\ MeterMatchesStore' /\ Unregistered'
    <2>1. stored' = None \/ (stored # None /\ stored'.Modes = stored.Modes)
      BY <1>0, <1>2
    <2> QED
      BY <2>1, <1>0, ServicesStep
  <1>5. TypeOK'
    BY <1>0, <1>2, <1>3, <1>4 DEF IInv, TypeOK, Events
  <1> QED
    BY <1>3, <1>4, <1>5 DEF IInv

\* A step of the bus or of the switch leaves the manager alone.
LEMMA StepOutside ==
    ASSUME IInv, BusTypeOK(Events)', UNCHANGED <<stored, reading, now, since, drawn, watched>>,
           UNCHANGED <<template, services>> \/ (~template' /\ services' = {}), template' \in BOOLEAN,
           level' \in Levels, changes' \in 0..MaxChanges, faults' \in 0..MaxFaults
    PROVE  IInv'
  <1>1. services' = {} \/ (services' = services /\ template' = template)
    OBVIOUS
  <1>2. Accounts'
    BY DEF IInv, Accounts
  <1>3. MeterMatchesStore' /\ Unregistered'
    BY <1>1 DEF IInv, MeterMatchesStore, Unregistered, Initialised
  <1>4. services' \in {{}, {"vms"}, {"vms", "meter"}}
    BY <1>1, Facts
  <1>5. TypeOK'
    BY <1>4, Facts DEF IInv, TypeOK, Events
  <1> QED
    BY <1>2, <1>3, <1>5 DEF IInv

\* A level is reported.
LEMMA StepUpdate == ASSUME IInv, Update PROVE IInv'
  <1> DEFINE l == Head(channel["level"])
             d == recalculateEnergy(TRUE, stored)
             e == [d EXCEPT !.Level = l, !.CurrentMode = ModeOf(l)]
  <1>0. BusTypeOK(Events)' /\ l \in Levels
    <2>1. Process("level") /\ "level" \in Handlers
      BY VirtualMeterAssumption DEF Update
    <2>2. BusTypeOK(Events)' /\ l \in Events["level"]
      BY <2>1, Facts, BusProcess
    <2> QED
      BY <2>2 DEF Events
  <1>1. /\ level' \in Levels /\ now' \in 0..MaxTime /\ changes' \in 0..MaxChanges
        /\ UNCHANGED <<now, template, services, reading, since, drawn, watched>>
    BY DEF Update, world, history, IInv, TypeOK
  <1>2. ASSUME stored # None, NEW ok \in BOOLEAN, Save(e, ok) PROVE IInv'
    <2>1. /\ d \in Device /\ d.Modes = stored.Modes /\ d.Active = stored.Active
          /\ Sound(d, now, since, reading, watched, drawn)
          /\ (~stored.Active /\ d = stored) \/ d.LastTimeUpdated = now
      BY <1>2, Recalculated
    <2>2. ModeOf(l) \in {"on", "off"} /\ (ModeOf(l) = "off" => l = 0)
      BY DEF ModeOf
    <2> HIDE DEF l, d
    <2>3. /\ e \in Device /\ e.Modes = d.Modes /\ e.CurrentMode = ModeOf(l) /\ e.Level = l
          /\ e.Active = d.Active /\ e.AccumulatedEnergy = d.AccumulatedEnergy
          /\ e.LastTimeUpdated = d.LastTimeUpdated
      BY <2>1, <2>2, <1>0 DEF Device
    <2> HIDE DEF e
    <2>4. Sound(e, now, since, reading, watched, drawn)
      <3>1. /\ d.AccumulatedEnergy \in Nat /\ now \in Nat /\ Power(d) \in Nat /\ Power(e) \in Nat
        BY <2>1, <2>2, <2>3, Facts, Fields, PowerBound DEF Sound
      <3>2. CASE d.LastTimeUpdated = now
        <4>1. (now - now) * Power(d) = 0
          BY <3>1, Products
        <4>2. Charged(d, e, now, watched, 0)
          BY <4>1, <3>1, <3>2, <2>2, <2>3 DEF Charged
        <4> QED
          BY <4>2, <2>1, <2>3, Facts, SoundCharged
      <3>3. CASE ~stored.Active
        <4>1. Uncharged(d, e, now, watched, watched)
          BY <3>3, <2>1, <2>2, <2>3 DEF Uncharged
        <4> QED
          BY <4>1, <2>1, <2>3, Facts, SoundUncharged
      <3> QED
        BY <3>2, <3>3, <2>1
    <2>5. faults' \in 0..MaxFaults /\ SetDevice(e, ok) /\ stored' = IF ok THEN e ELSE stored
      BY <1>2, Facts, OutcomeTypes DEF Save, SetDevice
    <2>6. stored' \in Device \cup {None} /\ Accounts'
      BY <2>3, <2>4, <2>5, <1>1, SaveStep
    <2>7. services' \in {{}, {"vms"}, {"vms", "meter"}} /\ MeterMatchesStore' /\ Unregistered'
      BY <2>1, <2>3, <2>5, <1>1, <1>2, ServicesStep
    <2>8. TypeOK'
      BY <2>5, <2>6, <2>7, <1>0, <1>1, Facts DEF IInv, TypeOK, Events
    <2> QED
      BY <2>6, <2>7, <2>8 DEF IInv
  <1>3. CASE UNCHANGED <<stored, faults>>
    <2>1. template' \in BOOLEAN
      BY DEF Update, IInv, TypeOK
    <2> QED
      BY <2>1, <1>0, <1>1, <1>3, Facts, StepOutside
  <1> QED
    BY <1>2, <1>3 DEF Update

\* A connection is reported.
LEMMA StepUpdateActivity == ASSUME IInv, UpdateActivity PROVE IInv'
  <1> DEFINE active == Head(channel["connectivity"])
             e == [stored EXCEPT !.Active = active]
  <1>0. BusTypeOK(Events)' /\ active \in BOOLEAN
    <2>1. Process("connectivity") /\ "connectivity" \in Handlers
      BY VirtualMeterAssumption DEF UpdateActivity
    <2>2. BusTypeOK(Events)' /\ active \in Events["connectivity"]
      BY <2>1, Facts, BusProcess
    <2> QED
      BY <2>2 DEF Events
  <1>1. /\ level' \in Levels /\ now' \in 0..MaxTime /\ changes' \in 0..MaxChanges
        /\ UNCHANGED <<now, template, services, reading, since, drawn>>
    BY DEF UpdateActivity, world, IInv, TypeOK
  <1>2. ASSUME stored # None, NEW ok \in BOOLEAN, Save(e, ok),
               watched' = (watched /\ (ok => Pending(stored) = 0))
        PROVE  IInv'
    <2>1. stored \in Device /\ Sound(stored, now, since, reading, watched, drawn)
      BY <1>2, Facts
    <2>2. watched' \in BOOLEAN /\ (watched' => watched) /\ (~ok => watched' = watched)
      BY <1>2, Facts
    <2> HIDE DEF active
    <2>3. /\ e \in Device /\ e.Modes = stored.Modes /\ e.CurrentMode = stored.CurrentMode
          /\ e.Level = stored.Level /\ e.AccumulatedEnergy = stored.AccumulatedEnergy
          /\ e.LastTimeUpdated = stored.LastTimeUpdated
      BY <2>1, <1>0 DEF Device
    <2> HIDE DEF e
    <2>4. ok => Sound(e, now, since, reading, watched', drawn)
      <3>1. Power(e) = Power(stored)
        BY <2>3, SamePower
      <3>2. ok /\ watched' => (now - stored.LastTimeUpdated) * Power(stored) = 0
        BY <1>2 DEF Pending, Elapsed
      <3>3. ok => Uncharged(stored, e, now, watched, watched')
        BY <3>1, <3>2, <2>1, <2>2, <2>3 DEF Uncharged, Sound
      <3> QED
        BY <3>3, <2>1, <2>2, <2>3, Facts, SoundUncharged
    <2>5. faults' \in 0..MaxFaults /\ stored' = IF ok THEN e ELSE stored
      BY <1>2, Facts, OutcomeTypes DEF Save, SetDevice
    <2>6. stored' \in Device \cup {None} /\ Accounts'
      <3>1. CASE ok
        BY <3>1, <2>3, <2>4, <2>5, <1>1 DEF Accounts
      <3>2. CASE ~ok
        BY <3>2, <2>1, <2>2, <2>5, <1>1 DEF Accounts
      <3> QED
        BY <3>1, <3>2
    <2>7. services' \in {{}, {"vms"}, {"vms", "meter"}} /\ MeterMatchesStore' /\ Unregistered'
      BY <2>3, <2>5, <1>1, <1>2, ServicesStep
    <2>8. TypeOK'
      BY <2>2, <2>5, <2>6, <2>7, <1>0, <1>1, Facts DEF IInv, TypeOK, Events
    <2> QED
      BY <2>6, <2>7, <2>8 DEF IInv
  <1>3. CASE UNCHANGED <<stored, faults, watched>>
    <2>1. template' \in BOOLEAN
      BY DEF UpdateActivity, IInv, TypeOK
    <2> QED
      BY <2>1, <1>0, <1>1, <1>3, Facts, StepOutside
  <1> QED
    BY <1>2, <1>3 DEF UpdateActivity

\* Time passes.
LEMMA StepTick == ASSUME IInv, Tick PROVE IInv'
  <1>0. /\ BusTypeOK(Events)' /\ level' \in Levels /\ changes' \in 0..MaxChanges
        /\ UNCHANGED <<stored, template, services, reading, since, faults>>
    BY Facts DEF Tick, bus, manager, BusTypeOK, IInv, TypeOK
  <1>1. now' = now + 1 /\ now' \in 0..MaxTime
    BY Facts, Numbers DEF Tick
  <1>2. watched' = (watched /\ ~(stored # None /\ stored.Active /\ Power(stored) > 0
                                  /\ Elapsed(stored) >= 2 * RecalculationPeriod))
    BY DEF Tick
  <1>3. watched' \in BOOLEAN
    BY <1>2
  <1>4. drawn' = IF ~watched' THEN 0
                 ELSE drawn + IF stored # None /\ stored.Active THEN Power(stored) ELSE 0
    BY DEF Tick
  <1>5. stored # None =>
          /\ stored \in Device /\ Sound(stored, now, since, reading, watched, drawn)
          /\ Power(stored) \in Nat
    BY Facts, PowerBound DEF Sound
  <1>6. drawn' \in Nat
    BY <1>4, <1>5, Facts
  <1>7. Accounts'
    <2> SUFFICES ASSUME stored # None PROVE Sound(stored, now', since, reading, watched', drawn')
      BY <1>0 DEF Accounts
    <2>1. Ticked(stored, now, now', watched, watched', drawn, drawn')
      BY <1>1, <1>2, <1>4 DEF Ticked, Elapsed
    <2>2. /\ now \in Nat /\ now' \in Nat /\ since \in Nat /\ reading \in Nat /\ drawn \in Nat
          /\ watched \in BOOLEAN
      BY <1>1, Facts
    <2>3. stored \in Device /\ Sound(stored, now, since, reading, watched, drawn)
      BY <1>5
    <2> QED
      BY <2>1, <2>2, <2>3, <1>3, <1>6, SoundTick
  <1>8. MeterMatchesStore' /\ Unregistered'
    BY <1>0 DEF IInv, MeterMatchesStore, Unregistered, Initialised
  <1>9. TypeOK'
    BY <1>0, <1>1, <1>3, <1>6, Facts DEF IInv, TypeOK, Events
  <1> QED
    BY <1>7, <1>8, <1>9 DEF IInv

\* Every step preserves the invariant.
LEMMA NextIInv == IInv /\ [Next]_vars => IInv'
  <1> SUFFICES ASSUME IInv, [Next]_vars PROVE IInv'
    OBVIOUS
  <1>0. /\ BusTypeOK(Events) /\ level \in Levels /\ changes \in 0..MaxChanges
        /\ faults \in 0..MaxFaults /\ template \in BOOLEAN
    BY Facts DEF IInv, TypeOK
  <1>1. CASE PollLevel
    <2>1. BusTypeOK(Events)'
      <3>1. "level" \in Handlers /\ level \in Events["level"]
        BY <1>0, VirtualMeterAssumption DEF Events
      <3> QED
        BY <3>1, <1>0, <1>1, BusPublished DEF PollLevel
    <2> QED
      BY <2>1, <1>0, <1>1, StepOutside DEF PollLevel, manager, world, history
  <1>2. CASE PollConnectivity
    <2>1. BusTypeOK(Events)'
      <3>1. PICK online \in BOOLEAN : channel' = Published("connectivity", online)
        BY <1>2 DEF PollConnectivity
      <3>2. "connectivity" \in Handlers /\ online \in Events["connectivity"]
        BY VirtualMeterAssumption DEF Events
      <3> QED
        BY <3>1, <3>2, <1>0, <1>2, BusPublished DEF PollConnectivity
    <2> QED
      BY <2>1, <1>0, <1>2, StepOutside DEF PollConnectivity, manager, world, history
  <1>3. CASE StartListener \/ StoppedListener \/ \E h \in Handlers : LeaveHandler(h)
    <2>1. Start \/ Stopped \/ \E h \in Handlers : Leave(h)
      BY <1>3 DEF StartListener, StoppedListener, LeaveHandler
    <2>2. BusTypeOK(Events)'
      BY <2>1, <1>0, BusListener
    <2> QED
      BY <2>2, <1>0, <1>3, StepOutside
      DEF StartListener, StoppedListener, LeaveHandler, manager, world, history
  <1>4. CASE StopListener \/ Restart
    <2>1. Stop \/ Exit
      BY <1>4 DEF StopListener, Restart
    <2>2. BusTypeOK(Events)'
      BY <2>1, <1>0, BusListener
    <2>3. faults' \in 0..MaxFaults
      BY <1>0, <1>4, Numbers DEF StopListener, Restart
    <2> QED
      BY <2>2, <2>3, <1>0, <1>4, StepOutside DEF StopListener, Restart, manager, world, history
  <1>5. CASE DeviceChanges
    <2>1. BusTypeOK(Events)'
      BY <1>0, <1>5 DEF DeviceChanges, bus, BusTypeOK
    <2>2. changes' \in 0..MaxChanges
      BY <1>0, <1>5, Numbers DEF DeviceChanges
    <2> QED
      BY <2>1, <2>2, <1>0, <1>5, StepOutside DEF DeviceChanges, manager, history
  <1>6. CASE UNCHANGED vars
    <2>1. BusTypeOK(Events)'
      BY <1>0, <1>6 DEF vars, bus, BusTypeOK
    <2> QED
      BY <2>1, <1>0, <1>6, StepOutside DEF vars, manager, world, history
  <1> QED
    BY <1>1, <1>2, <1>3, <1>4, <1>5, <1>6, StepRegisterThing, StepAdd, StepRemove, StepReport,
       StepReset, StepClean, StepUpdate, StepUpdateActivity, StepTick
    DEF Next

-----------------------------------------------------------------------------

\* The inductive invariant of the virtual meter: the types, the services that
\* match the device, and the accounts of the device (recalculateEnergy and the
\* methods of the manager that save a device).
THEOREM VirtualMeterInvariant == Spec => []IInv
  BY InitIInv, NextIInv, PTL DEF Spec

\* In every reachable state, failed reads and saves and restarts included, the
\* thing has the meter service if and only if its device has modes and the
\* manager has the service to remove it with (registerVirtualServices, add and
\* remove).
THEOREM VirtualMeterMatchesStore == Spec => [](TypeOK /\ MeterMatchesStore)
  <1>1. IInv => TypeOK /\ MeterMatchesStore
    BY DEF IInv
  <1> QED
    BY <1>1, VirtualMeterInvariant, PTL

\* In every reachable state, the energy that is stored is the energy that was
\* drawn, as long as no more than two periods pass between recalculations
\* (recalculateEnergy and its callers).
THEOREM VirtualMeterEnergyExact == Spec => []EnergyExact
  <1>1. IInv => EnergyExact
    BY DEF IInv, Accounts, Sound, EnergyExact, Pending, Elapsed
  <1> QED
    BY <1>1, VirtualMeterInvariant, PTL

\* In every reachable state, no time is charged twice: the energy is within the
\* highest power for the time since it was zero (recalculateEnergy, which moves
\* LastTimeUpdated).
THEOREM VirtualMeterNoTimeTwice == Spec => []NoTimeTwice
  <1>1. ASSUME IInv, stored # None
        PROVE  stored.AccumulatedEnergy <= (now - since) * MaxOn * MaxLevel
    <2>1. /\ stored \in Device /\ now \in Nat /\ since \in Nat
          /\ since <= stored.LastTimeUpdated /\ stored.LastTimeUpdated <= now
          /\ stored.AccumulatedEnergy <= (stored.LastTimeUpdated - since) * (MaxOn * MaxLevel)
      BY <1>1, Facts DEF Sound
    <2>2. /\ stored.LastTimeUpdated \in Nat /\ stored.AccumulatedEnergy \in Nat
          /\ MaxOn \in Nat /\ MaxLevel \in Nat /\ MaxOn * MaxLevel \in Nat
      BY <2>1, Fields, Highest
    <2>3. PICK a \in Nat, b \in Nat : a = stored.LastTimeUpdated - since /\ b = now - since /\ a <= b
      <3>1. /\ stored.LastTimeUpdated - since \in Nat /\ now - since \in Nat
            /\ stored.LastTimeUpdated - since <= now - since
        BY <2>1, <2>2
      <3> QED
        BY <3>1
    <2>4. a * (MaxOn * MaxLevel) <= b * (MaxOn * MaxLevel)
      BY <2>2, <2>3, Products
    <2>5. (b * MaxOn) * MaxLevel = b * (MaxOn * MaxLevel)
      BY <2>2, Products
    <2>6. a * (MaxOn * MaxLevel) \in Nat /\ b * (MaxOn * MaxLevel) \in Nat
      BY <2>2, Products
    <2> QED
      BY <2>1, <2>2, <2>3, <2>4, <2>5, <2>6
  <1>2. IInv => NoTimeTwice
    BY <1>1 DEF NoTimeTwice, MaxOn, MaxLevel
  <1> QED
    BY <1>2, VirtualMeterInvariant, PTL

\* In every reachable state, the energy that is stored is at least what was last
\* reported (report, which saves before it answers).
THEOREM VirtualMeterReadingsKept == Spec => []ReadingsKept
  <1>1. IInv => ReadingsKept
    BY DEF IInv, Accounts, Sound, ReadingsKept
  <1> QED
    BY <1>1, VirtualMeterInvariant, PTL

=============================================================================
