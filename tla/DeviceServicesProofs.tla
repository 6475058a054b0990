----------------------- MODULE DeviceServicesProofs ------------------------
(***************************************************************************)
(* Proofs about DeviceServices, for any number of workers and of failing   *)
(* calls.  They have two halves.  The first is about tables: every command *)
(* handler and every reporting task of the seventeen services, under every *)
(* specification, keeps some rules (Disciplined).  The second shows that   *)
(* whatever processes that keep them do, in whatever order, preserves the  *)
(* inductive invariant IInv.                                               *)
(***************************************************************************)
EXTENDS DeviceServices, SequenceTheorems, TLAPS

(***************************************************************************)
(* The rules.                                                              *)
(***************************************************************************)

\* The call sets attribute a, reports it, and reports it whatever was reported
\* before.
Sets(a, call) == call.do = "set" /\ a \in DOMAIN call.effect
Reports(a, call) == call.do = "report" /\ a \in call.attrs
Confirms(a, call) == Reports(a, call) /\ call.force

\* There is always something to report.
NeverNone == \A v \in Values[attr] : v # None

\* The services that cache what they report, and those that cache it under one
\* key: a thermostat and a water heater use the spelling of the command.
Caching == service \notin {"parameters", "diagnostic", "ota"}
OneKey == Cases = {"listed"} \/ service \notin {"thermostat", "water_heater"}

\* If the service compares the attribute with its specification, the values are
\* what it allows.
Allows(V) == attr \in DOMAIN Limits => V \subseteq Limits[attr]

\* What a single call may do.
CallOK(call) ==
    /\ IsControl(call) /\ attr \in DOMAIN call.effect => call.effect[attr] \subseteq Values[attr]
    /\ Sets(attr, call) => NeverNone
    /\ Sets(attr, call) /\ OneKey => Allows(call.effect[attr])
    /\ Reports(attr, call) => /\ call.key \in Cases
                              /\ call.cached <=> Caching
                              /\ OneKey => call.key = "listed"
                              /\ service = "out_lvl_switch" => call.event

\* What is set is confirmed later, with nothing in between that may be refused.
Kept(a, c) ==
    \A i \in 1..Len(c) : Sets(a, c[i]) =>
        \E j \in i+1..Len(c) : Confirms(a, c[j]) /\ \A k \in i..j : c[k].do # "refuse"

\* The calls of a handler are in order.
HandlerOK(c) ==
    /\ c \in Seq(Range(c))
    /\ \A i \in 1..Len(c) : CallOK(c[i])
    /\ Kept(attr, c)

Handlers == Commands \cup {handleReporting}
Disciplined == \A c \in Handlers : HandlerOK(c)

(***************************************************************************)
(* The inductive invariant.                                                *)
(***************************************************************************)

\* The calls that a process may have before it.
Calls == UNION {Range(c) : c \in Handlers}

\* A report that confirms the attribute is certain to be reached.
Owed(a, c) == \E j \in 1..Len(c) : Confirms(a, c[j]) /\ \A k \in 1..j : c[k].do # "refuse"

CallsOK ==
    /\ calls \in [Procs -> Seq(Calls)]
    /\ \A p \in Procs : Kept(attr, calls[p])
    /\ \A p \in Procs : owes[p] => Owed(attr, calls[p]) /\ NeverNone

\* Who has read the device holds the lock, and has read what it is now unless the
\* device changed on its own.
Readings ==
    /\ reading \in [Procs -> {<<>>} \cup {<<v>> : v \in Values[attr]}]
    /\ \A p \in Procs : reading[p] # <<>> =>
         /\ lock = p /\ calls[p] # <<>> /\ Reports(attr, Current(p))
         /\ ~drift => Value(p) = device

\* Where hub and device differ, somebody owes a report.
Told == ~drift => hub = Shown(device) \/ \E p \in Procs : owes[p]

CacheOK ==
    /\ cache \in [Cases -> [value : Values[attr] \ {None}, aged : BOOLEAN] \cup {None}]
    /\ OneKey => \A k \in Cases : cache[k] # None =>
                     k = "listed" /\ hub = Shown(cache[k].value)
    /\ ~Caching => \A k \in Cases : cache[k] = None

Announces == service = "out_lvl_switch" => published = hub

IInv ==
    TypeOK /\ Disciplined /\ CallsOK /\ Readings /\ Told /\ CacheOK /\ Announces
-----------------------------------------------------------------------------
(***************************************************************************)
(* Sequences of calls.                                                     *)
(***************************************************************************)

\* A call that returned leaves a sequence of calls that keeps the rule.
LEMMA KeptTail ==
    ASSUME NEW S, NEW c \in Seq(S), c # <<>>, NEW a, Kept(a, c)
    PROVE  Kept(a, Tail(c))
  <1>1. Len(Tail(c)) = Len(c) - 1 /\ Len(c) \in Nat \ {0}
    OBVIOUS
  <1>2. \A i \in 1..Len(c) - 1 : Tail(c)[i] = c[i + 1]
    OBVIOUS
  <1> SUFFICES ASSUME NEW i \in 1..Len(c) - 1, Sets(a, c[i + 1])
               PROVE  \E j \in i+1..Len(c) - 1 :
                          /\ Confirms(a, c[j + 1])
                          /\ \A k \in i..j : c[k + 1].do # "refuse"
    BY <1>1, <1>2 DEF Kept
  <1>3. PICK j \in i+1+1..Len(c) : Confirms(a, c[j]) /\ \A k \in i+1..j : c[k].do # "refuse"
    BY <1>1 DEF Kept
  <1>4. j - 1 \in i+1..Len(c) - 1 /\ (j - 1) + 1 = j
    BY <1>1, <1>3
  <1>5. \A k \in i..j - 1 : c[k + 1].do # "refuse"
    BY <1>1, <1>3
  <1> QED
    BY <1>3, <1>4, <1>5

\* A call that does not confirm is not the one that is owed.
LEMMA OwedTail ==
    ASSUME NEW S, NEW c \in Seq(S), c # <<>>, NEW a, Owed(a, c), ~Confirms(a, Head(c))
    PROVE  Owed(a, Tail(c))
  <1>1. Len(Tail(c)) = Len(c) - 1 /\ Len(c) \in Nat \ {0} /\ Head(c) = c[1]
    OBVIOUS
  <1>2. \A i \in 1..Len(c) - 1 : Tail(c)[i] = c[i + 1]
    OBVIOUS
  <1>3. PICK j \in 1..Len(c) : Confirms(a, c[j]) /\ \A k \in 1..j : c[k].do # "refuse"
    BY DEF Owed
  <1>4. j # 1
    BY <1>1, <1>3
  <1>5. j - 1 \in 1..Len(c) - 1 /\ (j - 1) + 1 = j
    BY <1>1, <1>3, <1>4
  <1>6. \A k \in 1..j - 1 : Tail(c)[k].do # "refuse"
    BY <1>1, <1>2, <1>3
  <1> QED
    BY <1>1, <1>2, <1>3, <1>5, <1>6 DEF Owed

\* After a call that sets the attribute, its confirmation is owed.
LEMMA SetOwes ==
    ASSUME NEW S, NEW c \in Seq(S), c # <<>>, NEW a, Kept(a, c), Sets(a, Head(c))
    PROVE  Owed(a, Tail(c))
  <1>1. Len(Tail(c)) = Len(c) - 1 /\ Len(c) \in Nat \ {0} /\ Head(c) = c[1]
    OBVIOUS
  <1>2. \A i \in 1..Len(c) - 1 : Tail(c)[i] = c[i + 1]
    OBVIOUS
  <1>3. PICK j \in 2..Len(c) : Confirms(a, c[j]) /\ \A k \in 1..j : c[k].do # "refuse"
    BY <1>1 DEF Kept
  <1>5. j - 1 \in 1..Len(c) - 1 /\ (j - 1) + 1 = j
    BY <1>1, <1>3
  <1>6. \A k \in 1..j - 1 : Tail(c)[k].do # "refuse"
    BY <1>1, <1>2, <1>3
  <1> QED
    BY <1>1, <1>2, <1>3, <1>5, <1>6 DEF Owed

\* Nobody who owes a report is about to be refused, or done.
LEMMA OwedNotRefused ==
    ASSUME NEW S, NEW c \in Seq(S), NEW a, Owed(a, c)
    PROVE  c # <<>> /\ Head(c).do # "refuse"
  BY DEF Owed

LEMMA KeptEmpty == \A a : Kept(a, <<>>)
  BY DEF Kept
-----------------------------------------------------------------------------
-----------------------------------------------------------------------------
(***************************************************************************)
(* Handlers that keep the rules, by their shape.                           *)
(***************************************************************************)

\* A call that does no harm wherever it stands.
Harmless(x) == CallOK(x) /\ ~Sets(attr, x)

\* The second call confirms what the first one sets.
ConfirmedBy(x, y) == CallOK(x) /\ Harmless(y) /\ (Sets(attr, x) => Confirms(attr, y))

LEMMA NoCalls == HandlerOK(<<>>)
  BY DEF HandlerOK, Kept, Range

LEMMA OneCall ==
    ASSUME NEW x, Harmless(x)
    PROVE  HandlerOK(<<x>>)
  <1>1. Len(<<x>>) = 1 /\ <<x>>[1] = x /\ Range(<<x>>) = {x} /\ <<x>> \in Seq({x})
    BY DEF Range
  <1> QED
    BY <1>1 DEF HandlerOK, Kept, Harmless

LEMMA TwoCalls ==
    ASSUME NEW x, NEW y, ConfirmedBy(x, y)
    PROVE  HandlerOK(<<x, y>>)
  <1> DEFINE c == <<x, y>>
  <1>1. Len(c) = 2 /\ c[1] = x /\ c[2] = y /\ Range(c) = {x, y} /\ c \in Seq({x, y})
    BY DEF Range
  <1> HIDE DEF c
  <1>2. ASSUME NEW i \in 1..2, Sets(attr, c[i])
        PROVE  \E j \in i+1..2 : Confirms(attr, c[j]) /\ \A k \in i..j : c[k].do # "refuse"
    <2>1. i = 1 /\ Confirms(attr, c[2]) /\ c[1].do # "refuse"
      BY <1>1, <1>2 DEF ConfirmedBy, Harmless, Sets
    <2>2. c[2].do # "refuse"
      BY <2>1 DEF Confirms, Reports
    <2>3. \A k \in 1..2 : c[k].do # "refuse"
      BY <2>1, <2>2
    <2> QED
      BY <2>1, <2>3
  <1>3. \A i \in 1..2 : CallOK(c[i])
    BY <1>1 DEF ConfirmedBy, Harmless
  <1>4. HandlerOK(c)
    BY <1>1, <1>2, <1>3 DEF HandlerOK, Kept
  <1> QED
    BY <1>4 DEF c

\* The third call follows whatever the second one reports.
LEMMA ThreeCalls ==
    ASSUME NEW x, NEW y, NEW z, CallOK(x), Harmless(y), Harmless(z),
           Sets(attr, x) => Confirms(attr, y) \/ (Confirms(attr, z) /\ y.do # "refuse")
    PROVE  HandlerOK(<<x, y, z>>)
  <1> DEFINE c == <<x, y, z>>
  <1>1. /\ Len(c) = 3 /\ c[1] = x /\ c[2] = y /\ c[3] = z
        /\ Range(c) = {x, y, z} /\ c \in Seq({x, y, z})
    BY DEF Range
  <1> HIDE DEF c
  <1>2. ASSUME NEW i \in 1..3, Sets(attr, c[i])
        PROVE  \E j \in i+1..3 : Confirms(attr, c[j]) /\ \A k \in i..j : c[k].do # "refuse"
    <2>1. i = 1 /\ c[1].do # "refuse"
      BY <1>1, <1>2 DEF Harmless, Sets
    <2>2. CASE Confirms(attr, y)
      <3>1. \A k \in 1..2 : c[k].do # "refuse"
        BY <1>1, <2>1, <2>2 DEF Confirms, Reports
      <3> QED
        BY <1>1, <2>1, <2>2, <3>1
    <2>3. CASE Confirms(attr, z) /\ y.do # "refuse"
      <3>1. \A k \in 1..3 : c[k].do # "refuse"
        BY <1>1, <2>1, <2>3 DEF Confirms, Reports
      <3> QED
        BY <1>1, <2>1, <2>3, <3>1
    <2> QED
      BY <1>1, <1>2, <2>1, <2>2, <2>3
  <1>3. \A i \in 1..3 : CallOK(c[i])
    BY <1>1 DEF Harmless
  <1>4. HandlerOK(c)
    BY <1>1, <1>2, <1>3 DEF HandlerOK, Kept
  <1> QED
    BY <1>4 DEF c

\* Any number of reports.
LEMMA ManyCalls ==
    ASSUME NEW S, NEW names \in Seq(S), NEW c, c = [i \in DOMAIN names |-> c[i]],
           \A i \in 1..Len(names) : Harmless(c[i])
    PROVE  HandlerOK(c)
  <1>1. c \in Seq(Range(c)) /\ Len(c) = Len(names)
    <2>1. c = [i \in 1..Len(names) |-> c[i]] /\ Len(names) \in Nat
      OBVIOUS
    <2>2. \A i \in 1..Len(names) : c[i] \in Range(c)
      BY <2>1 DEF Range
    <2> QED
      BY <2>1, <2>2
  <1> QED
    BY <1>1 DEF HandlerOK, Kept, Harmless

\* Calls that keep the rules keep them when others follow.
LEMMA Followed ==
    ASSUME NEW c, NEW d, HandlerOK(c), HandlerOK(d)
    PROVE  HandlerOK(c \o d)
  <1> DEFINE R == Range(c) \cup Range(d)
             e == c \o d
  <1>1. c \in Seq(Range(c)) /\ d \in Seq(Range(d))
    BY DEF HandlerOK
  <1>2. c \in Seq(R) /\ d \in Seq(R)
    BY <1>1
  <1>3. /\ e \in Seq(R) /\ Len(e) = Len(c) + Len(d) /\ Len(c) \in Nat /\ Len(d) \in Nat
        /\ \A i \in 1..Len(c) : e[i] = c[i]
        /\ \A i \in Len(c)+1..Len(c)+Len(d) : e[i] = d[i - Len(c)]
    BY <1>2
  <1> HIDE DEF e
  <1>4. e \in Seq(Range(e))
    <2>1. e = [i \in 1..Len(e) |-> e[i]] /\ Len(e) \in Nat /\ \A i \in 1..Len(e) : e[i] \in Range(e)
      BY <1>3 DEF Range
    <2> QED
      BY <2>1
  <1>5. \A i \in 1..Len(e) :
            \/ i \in 1..Len(c)
            \/ i \in Len(c)+1..Len(c)+Len(d) /\ i - Len(c) \in 1..Len(d)
    BY <1>3
  <1>6. \A i \in 1..Len(e) : CallOK(e[i])
    BY <1>3, <1>5 DEF HandlerOK
  <1>7. ASSUME NEW i \in 1..Len(e), Sets(attr, e[i])
        PROVE  \E j \in i+1..Len(e) : Confirms(attr, e[j]) /\ \A k \in i..j : e[k].do # "refuse"
    <2>1. CASE i \in 1..Len(c)
      <3>1. PICK j \in i+1..Len(c) : Confirms(attr, c[j]) /\ \A k \in i..j : c[k].do # "refuse"
        BY <1>3, <1>7, <2>1 DEF HandlerOK, Kept
      <3>2. j \in i+1..Len(e) /\ \A k \in i..j : k \in 1..Len(c)
        BY <1>3, <2>1, <3>1
      <3> QED
        BY <1>3, <3>1, <3>2
    <2>2. CASE i \in Len(c)+1..Len(c)+Len(d)
      <3> DEFINE m == i - Len(c)
      <3>1. m \in 1..Len(d) /\ i = m + Len(c) /\ Sets(attr, d[m])
        BY <1>3, <1>7, <2>2
      <3> HIDE DEF m
      <3>2. PICK j \in m+1..Len(d) : Confirms(attr, d[j]) /\ \A k \in m..j : d[k].do # "refuse"
        BY <3>1 DEF HandlerOK, Kept
      <3>3. j + Len(c) \in i+1..Len(e) /\ e[j + Len(c)] = d[j]
        <4>1. j + Len(c) \in Len(c)+1..Len(c)+Len(d) /\ (j + Len(c)) - Len(c) = j
          BY <1>3, <3>1, <3>2
        <4> QED
          BY <1>3, <3>1, <3>2, <4>1
      <3>4. ASSUME NEW k \in i..j + Len(c) PROVE e[k].do # "refuse"
        <4>1. k \in Len(c)+1..Len(c)+Len(d) /\ k - Len(c) \in m..j
          BY <1>3, <3>1, <3>2
        <4> QED
          BY <1>3, <3>2, <4>1
      <3> QED
        BY <3>2, <3>3, <3>4
    <2> QED
      BY <1>5, <2>1, <2>2
  <1>8. HandlerOK(e)
    BY <1>4, <1>6, <1>7 DEF HandlerOK, Kept
  <1> QED
    BY <1>8 DEF e
-----------------------------------------------------------------------------
(***************************************************************************)
(* Calls that keep the rules.                                              *)
(***************************************************************************)

LEMMA RefusedCall ==
    ASSUME NEW x, x.do = "refuse"
    PROVE  Harmless(x)
  BY DEF Harmless, CallOK, Sets, Reports, IsControl

\* A report under the name as it is listed, whether it is forced or not.
Standard(x) ==
    /\ x.do = "report" /\ x.key = "listed" /\ (x.cached <=> Caching)
    /\ service = "out_lvl_switch" => x.event

LEMMA StandardReport ==
    ASSUME NEW x, Standard(x)
    PROVE  Harmless(x)
  BY CasesAssumption DEF Standard, Harmless, CallOK, Sets, Reports, IsControl

\* A command that no report is to confirm.
LEMMA ChangeCall ==
    ASSUME NEW x, x.do = "change",
           attr \in DOMAIN x.effect => x.effect[attr] \subseteq Values[attr]
    PROVE  Harmless(x)
  BY DEF Harmless, CallOK, Sets, Reports, IsControl

\* A command to one attribute.
LEMMA SetCall ==
    ASSUME NEW x, x.do = "set",
           attr \in DOMAIN x.effect =>
               /\ x.effect[attr] \subseteq Values[attr] /\ NeverNone
               /\ OneKey => Allows(x.effect[attr])
    PROVE  CallOK(x)
  BY DEF CallOK, Sets, Reports, IsControl

\* A service that does not compare any attribute, and one that compares one.
LEMMA NoLimits ==
    ASSUME Limits = <<>>, NEW V
    PROVE  Allows(V)
  BY DEF Allows

LEMMA OneLimit ==
    ASSUME NEW a, NEW L, Limits = [x \in {a} |-> L], NEW V, attr = a => V \subseteq L
    PROVE  Allows(V)
  BY DEF Allows
-----------------------------------------------------------------------------
(***************************************************************************)
(* The tables of the services.                                             *)
(***************************************************************************)

LEMMA OnOffTable ==
    ASSUME service = "out_bin_switch", attr \in DOMAIN Values
    PROVE  Disciplined
  <1> USE DEF OnOff!BinaryReport
  <1>1. /\ Values = OnOff!Values /\ Limits = <<>> /\ Commands = OnOff!Commands
        /\ handleReporting = OnOff!handleReporting /\ Caching
    BY DEF Values, Limits, Commands, handleReporting, Caching
  <1>2. attr = OnOff!Attribute(OnOff!BinaryReport, OnOff!Empty) /\ Values[attr] = BOOLEAN
    BY <1>1 DEF OnOff!Values, OnOff!Takes
  <1>3. ASSUME NEW f
        PROVE  /\ Harmless(OnOff!SendBinaryReport(f))
               /\ f => Confirms(attr, OnOff!SendBinaryReport(f))
    <2>1. Standard(OnOff!SendBinaryReport(f))
      BY <1>1 DEF Standard, OnOff!SendBinaryReport, OnOff!Report, OnOff!NoKey, OnOff!Listed
    <2> QED
      BY <1>2, <2>1, StandardReport
      DEF Confirms, Reports, OnOff!SendBinaryReport, OnOff!Report, OnOff!NoKey, OnOff!Listed
  <1>4. ASSUME NEW v \in BOOLEAN PROVE CallOK(OnOff!SetBinaryState(v))
    BY <1>1, <1>2, SetCall, NoLimits, NoneAssumption
    DEF NeverNone, OnOff!SetBinaryState, OnOff!Set, OnOff!Takes
  <1>5. ASSUME NEW v \in BOOLEAN PROVE HandlerOK(OnOff!HandleCmdBinarySet(v))
    BY <1>3, <1>4, TwoCalls DEF ConfirmedBy, OnOff!HandleCmdBinarySet
  <1> QED
    BY <1>1, <1>3, <1>5, OneCall
    DEF Disciplined, Handlers, OnOff!Commands, OnOff!HandleCmdBinaryGetReport,
        OnOff!handleReporting

LEMMA ColorTable ==
    ASSUME service = "color_ctrl", attr \in DOMAIN Values
    PROVE  Disciplined
  <1>1. /\ Values = Color!Values /\ Limits = <<>> /\ Commands = Color!Commands
        /\ handleReporting = Color!handleReporting /\ Caching
    BY DEF Values, Limits, Commands, handleReporting, Caching
  <1>2. /\ attr = Color!Attribute(Color!ColorReport, Color!Empty)
        /\ Values[attr] = Color!Colors /\ NeverNone
    <2>1. \A c \in Color!Colors : c \in Names \X Int
      BY DEF Names, Color!Colors
    <2> QED
      BY <1>1, <2>1, NoneAssumption DEF NeverNone, Color!Values, Color!Takes
  <1>3. ASSUME NEW f
        PROVE  Harmless(Color!SendColorReport(f)) /\ (f => Confirms(attr, Color!SendColorReport(f)))
    BY <1>1, <1>2, StandardReport
    DEF Standard, Confirms, Reports, Color!SendColorReport, Color!Report, Color!NoKey,
        Color!Listed
  <1>4. ASSUME NEW c \in Color!Colors PROVE HandlerOK(Color!HandleCmdColorSet(c))
    <2>1. CallOK(Color!SetColor(c))
      BY <1>1, <1>2, SetCall, NoLimits DEF Color!SetColor, Color!Set, Color!Takes
    <2> QED
      BY <1>3, <2>1, TwoCalls DEF ConfirmedBy, Color!HandleCmdColorSet
  <1> QED
    BY <1>1, <1>3, <1>4, OneCall
    DEF Disciplined, Handlers, Color!Commands, Color!HandleCmdColorGetReport,
        Color!handleReporting

LEMMA PresentTable ==
    ASSUME service = "sensor_presence", attr \in DOMAIN Values
    PROVE  Disciplined
  <1>1. Commands = Present!Commands /\ handleReporting = Present!handleReporting /\ Caching
    BY DEF Commands, handleReporting, Caching
  <1>2. ASSUME NEW f PROVE Harmless(Present!SendPresenceReport(f))
    BY <1>1, StandardReport
    DEF Standard, Present!SendPresenceReport, Present!Report, Present!NoKey, Present!Listed
  <1> QED
    BY <1>1, <1>2, OneCall
    DEF Disciplined, Handlers, Present!Commands, Present!HandleCmdPresenceGetReport,
        Present!handleReporting

LEMMA FanTable ==
    ASSUME service = "fan_ctrl", spec \in SpecificationsOf(service), attr \in DOMAIN Values
    PROVE  Disciplined
  <1>1. /\ Values = Fan!Values /\ Limits = Fan!Limits /\ Commands = Fan!Commands
        /\ handleReporting = Fan!handleReporting /\ Caching /\ spec.sup_modes = {"low", "high"}
    BY DEF Values, Limits, Commands, handleReporting, Caching, SpecificationsOf,
           Fan!Specifications
  <1>2. /\ attr = Fan!Attribute(Fan!ModeReport, Fan!Empty)
        /\ Values[attr] = {"low", "high", "auto"} /\ NeverNone
    BY <1>1, NoneAssumption DEF Names, NeverNone, Fan!Values, Fan!Takes
  <1>3. ASSUME NEW f
        PROVE  Harmless(Fan!SendModeReport(f)) /\ (f => Confirms(attr, Fan!SendModeReport(f)))
    BY <1>1, <1>2, StandardReport
    DEF Standard, Confirms, Reports, Fan!SendModeReport, Fan!Checked, Fan!Report, Fan!NoKey,
        Fan!Listed
  <1>4. ASSUME NEW m \in Fan!Spelled({"low", "high", "auto"})
        PROVE  HandlerOK(Fan!HandleCmdModeSet(m))
    <2>1. m \in {Fan!Listed(n) : n \in spec.sup_modes} => m[1] \in spec.sup_modes
      BY DEF Fan!Listed
    <2>2. m \in {Fan!Listed(n) : n \in spec.sup_modes} => Allows({m[1]})
      BY <1>1, <2>1 DEF Allows, Fan!Limits, Fan!Takes
    <2>3. CallOK(Fan!SetMode(m))
      BY <1>1, <1>2, <2>1, <2>2, SetCall, RefusedCall
      DEF Harmless, Fan!SetMode, Fan!Given, Fan!Refused, Fan!Set, Fan!Takes
    <2> QED
      BY <1>3, <2>3, TwoCalls DEF ConfirmedBy, Fan!HandleCmdModeSet
  <1> QED
    BY <1>1, <1>3, <1>4, OneCall
    DEF Disciplined, Handlers, Fan!Commands, Fan!HandleCmdModeGetReport, Fan!handleReporting

LEMMA SceneTable ==
    ASSUME service = "scene_ctrl", spec \in SpecificationsOf(service), attr \in DOMAIN Values
    PROVE  Disciplined
  <1>1. /\ Values = Scene!Values /\ Limits = Scene!Limits /\ Commands = Scene!Commands
        /\ handleReporting = Scene!handleReporting /\ Caching /\ spec.sup_scenes = {"day", "night"}
    BY DEF Values, Limits, Commands, handleReporting, Caching, SpecificationsOf,
           Scene!Specifications
  <1>2. /\ attr = Scene!Attribute(Scene!SceneReport, Scene!Empty)
        /\ Values[attr] = {"day", "away"} \X {1, 2} /\ NeverNone
    BY <1>1, NoneAssumption DEF Names, NeverNone, Scene!Values, Scene!Takes
  <1>3. ASSUME NEW f
        PROVE  Harmless(Scene!SendSceneReport(f)) /\ (f => Confirms(attr, Scene!SendSceneReport(f)))
    BY <1>1, <1>2, StandardReport
    DEF Standard, Confirms, Reports, Scene!SendSceneReport, Scene!Report, Scene!NoKey,
        Scene!Listed
  <1>4. ASSUME NEW s \in Scene!Spelled({"day", "away"})
        PROVE  HandlerOK(Scene!HandleCmdSceneSet(s))
    <2>1. CallOK(Scene!SetScene(s))
      <3>1. CASE Scene!isSceneSupported(s)
        <4>1. s[1] = "day"
          BY <1>1, <3>1 DEF Scene!isSceneSupported, Scene!Listed, Scene!Spelled
        <4>2. \A t \in {1, 2} : <<s[1], t>> \in Values[attr]
                                /\ <<s[1], t>> \in spec.sup_scenes \X {1, 2}
          BY <1>1, <1>2, <4>1
        <4>3. /\ {<<s[1], t>> : t \in {1, 2}} \subseteq Values[attr]
              /\ Allows({<<s[1], t>> : t \in {1, 2}})
          BY <1>1, <4>2 DEF Allows, Scene!Limits, Scene!Takes
        <4> QED
          BY <1>2, <3>1, <4>3, SetCall DEF Scene!SetScene, Scene!Given, Scene!Set, Scene!Takes
      <3>2. CASE ~Scene!isSceneSupported(s)
        BY <3>2, RefusedCall DEF Harmless, Scene!SetScene, Scene!Given, Scene!Refused
      <3> QED
        BY <3>1, <3>2
    <2> QED
      BY <1>3, <2>1, TwoCalls DEF ConfirmedBy, Scene!HandleCmdSceneSet
  <1> QED
    BY <1>1, <1>3, <1>4, OneCall
    DEF Disciplined, Handlers, Scene!Commands, Scene!HandleCmdSceneGetReport,
        Scene!handleReporting

LEMMA SystemTable ==
    ASSUME service = "dev_sys", attr \in DOMAIN Values
    PROVE  Disciplined
  <1>1. Values = System!Values /\ Commands = System!Commands /\ handleReporting = <<>>
    BY DEF Values, Commands, handleReporting
  <1>2. Harmless(System!Reboot)
    BY <1>1, RefusedCall, ChangeCall
    DEF System!Reboot, System!Given, System!Refused, System!Change, System!Takes, System!Values
  <1> QED
    BY <1>1, <1>2, OneCall, NoCalls
    DEF Disciplined, Handlers, System!Commands, System!handleCmdThingReboot

LEMMA UpdateTable ==
    ASSUME service = "ota", attr \in DOMAIN Values
    PROVE  Disciplined
  <1>1. Values = Update!Values /\ Commands = Update!Commands /\ handleReporting = <<>> /\ ~Caching
    BY DEF Values, Commands, handleReporting, Caching
  <1>2. ASSUME NEW p PROVE Harmless(Update!StartUpdate(p))
    BY <1>1, RefusedCall, ChangeCall
    DEF Update!StartUpdate, Update!Given, Update!Refused, Update!Change, Update!Takes,
        Update!Values, Update!Statuses
  <1>3. Harmless(Update!SendStatusReport)
    BY <1>1, StandardReport
    DEF Standard, Update!SendStatusReport, Update!Uncached, Update!Checked, Update!Report,
        Update!NoKey, Update!Listed
  <1> QED
    BY <1>1, <1>2, <1>3, OneCall, NoCalls
    DEF Disciplined, Handlers, Update!Commands, Update!handleCmdOTAUpdateStart

LEMMA DiagTable ==
    ASSUME service = "diagnostic", attr \in DOMAIN Values
    PROVE  Disciplined
  <1>1. Commands = Diag!Commands /\ handleReporting = <<>> /\ ~Caching
    BY DEF Commands, handleReporting, Caching
  <1>2. ASSUME NEW i PROVE Harmless(Diag!Send(i))
    BY <1>1, RefusedCall, StandardReport
    DEF Standard, Diag!Send, Diag!Given, Diag!Refused, Diag!Uncached, Diag!Report, Diag!NoKey,
        Diag!Listed
  <1> QED
    BY <1>1, <1>2, OneCall, NoCalls
    DEF Disciplined, Handlers, Diag!Commands, Diag!handleSendReport, Diag!SendLQIReport,
        Diag!SendRSSIReport, Diag!SendRebootReasonReport, Diag!SendRebootsCountReport,
        Diag!SendUptimeReport, Diag!SendErrorsReport

LEMMA LevelTable ==
    ASSUME service = "out_lvl_switch", spec \in SpecificationsOf(service), attr \in DOMAIN Values
    PROVE  Disciplined
  <1>1. /\ Values = Level!Values /\ Limits = <<>> /\ Commands = Level!Commands
        /\ handleReporting = Level!handleReporting /\ Caching
        /\ spec.min_lvl = 0 /\ spec.max_lvl = 2
    BY DEF Values, Limits, Commands, handleReporting, Caching, SpecificationsOf,
           Level!Specifications
  <1>2. /\ attr = Level!Lvl /\ Values[attr] = Level!Requested /\ NeverNone
        /\ Level!Levels \subseteq Level!Requested
    BY <1>1, NoneAssumption
    DEF NeverNone, Level!Values, Level!Takes, Level!Levels, Level!Requested
  <1>3. ASSUME NEW f
        PROVE  Harmless(Level!SendLevelReport(f)) /\ (f => Confirms(attr, Level!SendLevelReport(f)))
    BY <1>1, <1>2, StandardReport
    DEF Standard, Confirms, Reports, Level!SendLevelReport, Level!Announced, Level!Report,
        Level!NoKey, Level!Listed, Level!Lvl
  <1>4. ASSUME NEW V, V \subseteq Level!Requested
        PROVE  CallOK(Level!Set(Level!Takes(Level!Lvl, V)))
    BY <1>1, <1>2, <1>4, SetCall, NoLimits DEF Level!Set, Level!Takes
  <1>6. ASSUME NEW d, NEW l PROVE HandlerOK(Level!HandleCmdLvlStart(d, l))
    <2>1. ASSUME NEW s PROVE Level!Reached(d, s) \subseteq Level!Requested
      BY <1>2 DEF Level!Reached
    <2>2. CallOK(Level!StartLevelTransition(d, l))
      BY <1>4, <2>1, RefusedCall
      DEF Harmless, Level!StartLevelTransition, Level!Given, Level!Refused
    <2> QED
      BY <1>3, <2>2, TwoCalls DEF ConfirmedBy, Level!HandleCmdLvlStart
  <1>7. HandlerOK(Level!HandleCmdLvlStop)
    <2>1. CallOK(Level!StopLevelTransition)
      BY <1>2, <1>4, RefusedCall DEF Harmless, Level!StopLevelTransition, Level!Given, Level!Refused
    <2> QED
      BY <1>3, <2>1, TwoCalls DEF ConfirmedBy, Level!HandleCmdLvlStop
  <1>8. ASSUME NEW l \in Level!Requested PROVE HandlerOK(Level!HandleCmdLvlSet(l))
    <2>1. CallOK(Level!SetLevel(l))
      BY <1>4 DEF Level!SetLevel
    <2> QED
      BY <1>3, <2>1, TwoCalls DEF ConfirmedBy, Level!HandleCmdLvlSet
  <1>9. ASSUME NEW b \in BOOLEAN PROVE HandlerOK(Level!HandleCmdBinarySet(b))
    <2>1. Level!Levels \ {0} \subseteq Level!Requested /\ {0} \subseteq Level!Requested
      BY <1>1, <1>2 DEF Level!Requested
    <2>2. CallOK(Level!SetBinaryState(b))
      BY <1>4, <2>1 DEF Level!SetBinaryState
    <2> QED
      BY <1>3, <2>2, TwoCalls DEF ConfirmedBy, Level!HandleCmdBinarySet
  <1>10. HandlerOK(Level!HandleCmdLvlGetReport) /\ HandlerOK(Level!handleReporting)
    BY <1>3, OneCall DEF Level!HandleCmdLvlGetReport, Level!handleReporting
  <1>11. \A c \in {Level!HandleCmdLvlStart(d, l) :
                       d \in {"up", "down", "aside"}, l \in {None, 1, 3}} : HandlerOK(c)
    BY <1>6
  <1> QED
    BY <1>1, <1>7, <1>8, <1>9, <1>10, <1>11 DEF Disciplined, Handlers, Level!Commands

LEMMA PlayerTable ==
    ASSUME service = "media_player", spec \in SpecificationsOf(service), attr \in DOMAIN Values
    PROVE  Disciplined
  <1> USE DEF Player!PlaybackReport, Player!PlaybackModeReport, Player!VolumeReport,
              Player!MuteReport, Player!MetadataReport, Player!Attribute
  <1>1. /\ Values = Player!Values /\ Limits = Player!Limits /\ Commands = Player!Commands
        /\ handleReporting = Player!handleReporting /\ Caching
        /\ spec.sup_modes = {"repeat"}
    BY DEF Values, Limits, Commands, handleReporting, Caching, SpecificationsOf,
           Player!Specifications
  <1>2. ASSUME NEW e, NEW f
        PROVE  /\ Harmless(Player!Report(e, Player!NoKey, Player!OnChange, f))
               /\ f /\ attr = <<e, Player!Empty>> =>
                      Confirms(attr, Player!Report(e, Player!NoKey, Player!OnChange, f))
    BY <1>1, StandardReport
    DEF Standard, Confirms, Reports, Player!Report, Player!NoKey, Player!Listed
  <1>3. ASSUME NEW e, NEW V,
               attr = <<e, Player!Empty>> => V \subseteq Values[attr] /\ NeverNone /\ Allows(V)
        PROVE  /\ CallOK(Player!Set(Player!Takes(<<e, Player!Empty>>, V)))
               /\ Sets(attr, Player!Set(Player!Takes(<<e, Player!Empty>>, V))) =>
                      attr = <<e, Player!Empty>>
    BY <1>1, <1>3, SetCall DEF Sets, Player!Set, Player!Takes
  <1>4. /\ attr = <<"evt.playback.report", Player!Empty>> =>
               Values[attr] = Player!States /\ NeverNone
        /\ attr = <<"evt.playbackmode.report", Player!Empty>> =>
               Values[attr] = SUBSET Player!Modes /\ NeverNone
        /\ attr = <<"evt.volume.report", Player!Empty>> => Values[attr] = {0, 1} /\ NeverNone
        /\ attr = <<"evt.mute.report", Player!Empty>> => Values[attr] = BOOLEAN /\ NeverNone
    <2>1. \A on \in SUBSET Player!Modes : on # None
      BY NoneAssumption DEF Player!Modes
    <2> QED
      BY <1>1, <2>1, NoneAssumption DEF Names, NeverNone, Player!Values, Player!States
  <1>limits. ASSUME NEW e, attr = <<e, Player!Empty>>, NEW V
             PROVE  /\ e # "evt.playbackmode.report" => Allows(V)
                    /\ V \subseteq SUBSET spec.sup_modes => Allows(V)
    <2>1. /\ DOMAIN Limits = {<<"evt.playbackmode.report", Player!Empty>>}
          /\ Limits[<<"evt.playbackmode.report", Player!Empty>>] = SUBSET spec.sup_modes
      BY <1>1 DEF Player!Limits, Player!Takes
    <2> QED
      BY <1>limits, <2>1 DEF Allows
  <1>5. ASSUME NEW a PROVE HandlerOK(Player!handleCmdPlaybackSet(a))
    <2>1. /\ CallOK(Player!SetPlayback(a))
          /\ Sets(attr, Player!SetPlayback(a)) => attr = <<"evt.playback.report", Player!Empty>>
      <3>1. (IF a[1] \in Player!States THEN {a[1]} ELSE Player!States) \subseteq Player!States
        OBVIOUS
      <3> QED
        BY <1>3, <1>4, <1>limits, <3>1, RefusedCall
        DEF Harmless, Player!SetPlayback, Player!Given, Player!Refused
    <2> QED
      BY <1>2, <2>1, ThreeCalls
      DEF Player!handleCmdPlaybackSet, Player!SendPlaybackReport, Player!SendMetadataReport
  <1>6. ASSUME NEW m PROVE HandlerOK(Player!handleCmdPlaybackModeSet(m))
    <2>1. /\ CallOK(Player!SetPlaybackMode(m))
          /\ Sets(attr, Player!SetPlaybackMode(m)) =>
                 attr = <<"evt.playbackmode.report", Player!Empty>>
      <3> DEFINE On == {on \in SUBSET (spec.sup_modes \cup DOMAIN m) :
                            \A x \in DOMAIN m : m[x] = (x \in on)}
      <3>1. Player!validateMode(m) => On \subseteq SUBSET spec.sup_modes
        BY DEF Player!validateMode
      <3>2. SUBSET spec.sup_modes \subseteq SUBSET Player!Modes
        BY <1>1 DEF Player!Modes
      <3>3. Player!SetPlaybackMode(m) =
              IF Player!validateMode(m)
              THEN Player!Set(Player!Takes(<<"evt.playbackmode.report", Player!Empty>>, On))
              ELSE [do |-> "refuse"]
        BY DEF Player!SetPlaybackMode, Player!Given, Player!Refused
      <3> HIDE DEF On
      <3> QED
        BY <1>3, <1>4, <1>limits, <3>1, <3>2, <3>3, RefusedCall DEF Harmless
    <2> QED
      BY <1>2, <2>1, TwoCalls
      DEF ConfirmedBy, Player!handleCmdPlaybackModeSet, Player!SendPlaybackModeReport
  <1>7. ASSUME NEW v \in {0, 1} PROVE HandlerOK(Player!handleCmdVolumeSet(v))
    <2>1. /\ CallOK(Player!SetVolume(v))
          /\ Sets(attr, Player!SetVolume(v)) => attr = <<"evt.volume.report", Player!Empty>>
      BY <1>3, <1>4, <1>limits DEF Player!SetVolume
    <2> QED
      BY <1>2, <2>1, TwoCalls
      DEF ConfirmedBy, Player!handleCmdVolumeSet, Player!SendVolumeReport
  <1>8. ASSUME NEW b \in BOOLEAN PROVE HandlerOK(Player!handleCmdMuteSet(b))
    <2>1. /\ CallOK(Player!SetMute(b))
          /\ Sets(attr, Player!SetMute(b)) => attr = <<"evt.mute.report", Player!Empty>>
      BY <1>3, <1>4, <1>limits DEF Player!SetMute
    <2> QED
      BY <1>2, <2>1, TwoCalls DEF ConfirmedBy, Player!handleCmdMuteSet, Player!SendMuteReport
  <1>9. /\ HandlerOK(Player!handleCmdPlaybackGetReport)
        /\ HandlerOK(Player!handleCmdPlaybackModeGetReport)
        /\ HandlerOK(Player!handleCmdVolumeGetReport)
        /\ HandlerOK(Player!handleCmdMuteGetReport)
        /\ HandlerOK(Player!handleCmdMetadataGetReport)
    BY <1>2, OneCall
    DEF Player!handleCmdPlaybackGetReport, Player!handleCmdPlaybackModeGetReport,
        Player!handleCmdVolumeGetReport, Player!handleCmdMuteGetReport,
        Player!handleCmdMetadataGetReport, Player!SendPlaybackReport,
        Player!SendPlaybackModeReport, Player!SendVolumeReport, Player!SendMuteReport,
        Player!SendMetadataReport
  <1>10. HandlerOK(Player!handleReporting)
    <2>1. ASSUME NEW p, NEW q, NEW r, NEW s, NEW t, Harmless(p), Harmless(q), Harmless(r),
                 Harmless(s), Harmless(t)
          PROVE  HandlerOK(<<p, q, r, s, t>>)
      <3>1. HandlerOK(<<p, q, r>>) /\ HandlerOK(<<s, t>>)
        BY <2>1, ThreeCalls, TwoCalls DEF Harmless, ConfirmedBy
      <3>2. <<p, q, r, s, t>> = <<p, q, r>> \o <<s, t>>
        OBVIOUS
      <3> QED
        BY <3>1, <3>2, Followed
    <2> QED
      BY <1>2, <2>1
      DEF Player!handleReporting, Player!SendPlaybackReport, Player!SendPlaybackModeReport,
          Player!SendVolumeReport, Player!SendMuteReport, Player!SendMetadataReport
  <1>11. \A c \in {Player!handleCmdPlaybackModeSet(Player!Turned(m, b)) :
                       m \in Player!Modes, b \in BOOLEAN} : HandlerOK(c)
    BY <1>6
  <1> QED
    BY <1>1, <1>5, <1>7, <1>8, <1>9, <1>10, <1>11 DEF Disciplined, Handlers, Player!Commands

LEMMA SensorTable ==
    ASSUME service = "sensor_temp", spec \in SpecificationsOf(service), attr \in DOMAIN Values
    PROVE  Disciplined
  <1>1. /\ Commands = Sensor!Commands /\ handleReporting = Sensor!handleReporting /\ Caching
        /\ spec.sup_units = <<"C", "F">>
    BY DEF Commands, handleReporting, Caching, SpecificationsOf, Sensor!Specifications
  <1>2. ASSUME NEW u, NEW f PROVE Harmless(Sensor!SendSensorReport(u, f))
    BY <1>1, RefusedCall, StandardReport
    DEF Standard, Sensor!SendSensorReport, Sensor!Given, Sensor!Refused, Sensor!Report,
        Sensor!Listed
  <1>3. ASSUME NEW f
        PROVE  HandlerOK([i \in DOMAIN spec.sup_units |->
                              Sensor!SendSensorReport(Sensor!Listed(spec.sup_units[i]), f)])
    <2>1. spec.sup_units \in Seq({"C", "F"})
      BY <1>1
    <2> QED
      BY <1>2, <2>1, ManyCalls
  <1>4. ASSUME NEW u PROVE HandlerOK(Sensor!HandleCmdSensorGetReport(u))
    BY <1>2, <1>3, OneCall DEF Sensor!HandleCmdSensorGetReport, Sensor!ForEach
  <1>5. HandlerOK(Sensor!handleReporting)
    BY <1>3 DEF Sensor!handleReporting, Sensor!ForEach
  <1> QED
    BY <1>1, <1>4, <1>5 DEF Disciplined, Handlers, Sensor!Commands

LEMMA CellTable ==
    ASSUME service = "battery", spec \in SpecificationsOf(service), attr \in DOMAIN Values
    PROVE  Disciplined
  <1>1. /\ Commands = Cell!Commands /\ handleReporting = Cell!handleReporting /\ Caching
        /\ spec.sup_events = <<"low_battery", "replace_now">>
    BY DEF Commands, handleReporting, Caching, SpecificationsOf, Cell!Specifications
  <1>2. ASSUME NEW e, NEW f PROVE Harmless(Cell!SendBatteryAlarmReport(e, f))
    BY <1>1, RefusedCall, StandardReport
    DEF Standard, Cell!SendBatteryAlarmReport, Cell!Given, Cell!Refused, Cell!Report,
        Cell!Listed
  <1>3. ASSUME NEW f PROVE HandlerOK(<<Cell!SendBatteryLevelReport(f)>>)
    BY <1>1, StandardReport, OneCall
    DEF Standard, Cell!SendBatteryLevelReport, Cell!Report, Cell!NoKey, Cell!Listed
  <1>4. ASSUME NEW f
        PROVE  HandlerOK([i \in DOMAIN spec.sup_events |->
                              Cell!SendBatteryAlarmReport(Cell!Listed(spec.sup_events[i]), f)])
    <2>1. spec.sup_events \in Seq({"low_battery", "replace_now"})
      BY <1>1
    <2> QED
      BY <1>2, <2>1, ManyCalls
  <1>5. HandlerOK(Cell!handleReporting)
    BY <1>3, <1>4, Followed DEF Cell!handleReporting, Cell!ForEach
  <1> QED
    BY <1>1, <1>3, <1>5 DEF Disciplined, Handlers, Cell!Commands, Cell!handleCmdLevelGetReport

LEMMA MeterTable ==
    ASSUME service = "meter_elec", spec \in SpecificationsOf(service), attr \in DOMAIN Values
    PROVE  Disciplined
  <1>1. /\ Values = Meter!Values /\ Commands = Meter!Commands
        /\ handleReporting = Meter!handlePeriodicReporting /\ Caching
        /\ spec.sup_units \in Seq({"kWh", "W"}) /\ spec.sup_export_units \in Seq({"kWh", "W"})
    <2>1. spec \in Meter!Specifications
      BY DEF SpecificationsOf
    <2>2. /\ spec.sup_units \in {<<"kWh", "W">>, <<"kWh">>}
          /\ spec.sup_export_units \in {<<>>, <<"kWh">>}
      BY <2>1 DEF Meter!Specifications
    <2>3. /\ <<"kWh", "W">> \in Seq({"kWh", "W"}) /\ <<"kWh">> \in Seq({"kWh", "W"})
          /\ <<>> \in Seq({"kWh", "W"})
      OBVIOUS
    <2>4. Values = Meter!Values /\ Commands = Meter!Commands
      BY DEF Values, Commands
    <2>5. handleReporting = Meter!handlePeriodicReporting /\ Caching
      BY DEF handleReporting, Caching
    <2> QED
      BY <2>2, <2>3, <2>4, <2>5
  <1>2. ASSUME NEW u, NEW f
        PROVE  Harmless(Meter!SendMeterReport(u, f)) /\ Harmless(Meter!SendMeterExportReport(u, f))
    BY <1>1, RefusedCall, StandardReport
    DEF Standard, Meter!SendMeterReport, Meter!SendMeterExportReport, Meter!Given,
        Meter!Refused,
        Meter!Report, Meter!Listed
  <1>3. ASSUME NEW V, NEW f PROVE HandlerOK(<<Meter!SendMeterExtendedReport(V, f)>>)
    BY <1>1, RefusedCall, StandardReport, OneCall
    DEF Standard, Meter!SendMeterExtendedReport, Meter!Given, Meter!Refused, Meter!ReportAll
  <1>4. ASSUME NEW f
        PROVE  HandlerOK([i \in DOMAIN spec.sup_units |->
                              Meter!SendMeterReport(Meter!Listed(spec.sup_units[i]), f)])
    BY <1>1, <1>2, ManyCalls
  <1>5. ASSUME NEW f
        PROVE  HandlerOK([i \in DOMAIN spec.sup_export_units |->
                              Meter!SendMeterExportReport(Meter!Listed(spec.sup_export_units[i]), f)])
    BY <1>1, <1>2, ManyCalls
  <1>6. HandlerOK(Meter!handleCmdMeterReset)
    <2>1. Values[attr] = {0, 1}
      BY <1>1 DEF Meter!Values
    <2>2. Harmless(Meter!ResetMeter)
      BY <2>1, RefusedCall, ChangeCall
      DEF Meter!ResetMeter, Meter!Given, Meter!Refused, Meter!Change
    <2> QED
      BY <2>2, OneCall DEF Meter!handleCmdMeterReset
  <1>7. ASSUME NEW u PROVE HandlerOK(Meter!handleCmdMeterGetReport(u))
    BY <1>2, <1>4, OneCall DEF Meter!handleCmdMeterGetReport, Meter!ForEach
  <1>8. ASSUME NEW u PROVE HandlerOK(Meter!handleCmdMeterExportGetReport(u))
    BY <1>2, <1>5, OneCall DEF Meter!handleCmdMeterExportGetReport, Meter!ForEach
  <1>9. ASSUME NEW V PROVE HandlerOK(Meter!handleCmdMeterExtGetReport(V))
    BY <1>3 DEF Meter!handleCmdMeterExtGetReport
  <1>10. HandlerOK(Meter!handlePeriodicReporting)
    BY <1>3, <1>4, <1>5, Followed, NoCalls DEF Meter!handlePeriodicReporting, Meter!ForEach
  <1> QED
    BY <1>1, <1>6, <1>7, <1>8, <1>9, <1>10 DEF Disciplined, Handlers, Meter!Commands

LEMMA ChargerTable ==
    ASSUME service = "chargepoint", spec \in SpecificationsOf(service), attr \in DOMAIN Values
    PROVE  Disciplined
  <1> USE DEF Charger!StateReport, Charger!CurrentSessionReport, Charger!CableLockReport,
              Charger!MaxCurrentReport, Charger!PhaseModeReport, Charger!Attribute
  <1>1. /\ Values = Charger!Values /\ Limits = Charger!Limits /\ Commands = Charger!Commands
        /\ handleReporting = Charger!sendChargepointReports /\ Caching
    BY DEF Values, Limits, Commands, handleReporting, Caching
  <1>2. /\ spec.sup_max_current \in {16, None}
        /\ spec.sup_phase_modes \subseteq {"NL1L2L3", "NL1"}
    <2>1. spec \in Charger!Specifications
      BY DEF SpecificationsOf
    <2> QED
      BY <2>1 DEF Charger!Specifications
  <1>values. /\ attr = <<"evt.state.report", Charger!Empty>> =>
                    Values[attr] = {"charging", "finished"} /\ NeverNone
             /\ attr = <<"evt.current_session.report", Charger!Empty>> =>
                    Values[attr] = {0, 16, 17} /\ NeverNone
             /\ attr = <<"evt.cable_lock.report", Charger!Empty>> =>
                    Values[attr] = BOOLEAN /\ NeverNone
             /\ attr = <<"evt.max_current.report", Charger!Empty>> =>
                    Values[attr] = {6, 16, 17} /\ NeverNone
             /\ attr = <<"evt.phase_mode.report", Charger!Empty>> =>
                    Values[attr] = {"NL1L2L3", "NL1"} /\ NeverNone
    BY <1>1, NoneAssumption DEF Names, NeverNone, Charger!Values, Charger!Sessions
  <1>limits. ASSUME NEW V
             PROVE  /\ attr = <<"evt.state.report", Charger!Empty>> => Allows(V)
                    /\ attr = <<"evt.cable_lock.report", Charger!Empty>> => Allows(V)
                    /\ /\ attr = <<"evt.current_session.report", Charger!Empty>>
                       /\ spec.sup_max_current = None \/ V \subseteq {0} \cup 6..16
                       => Allows(V)
                    /\ /\ attr = <<"evt.max_current.report", Charger!Empty>>
                       /\ spec.sup_max_current = 16 /\ V \subseteq 6..16
                       => Allows(V)
                    /\ /\ attr = <<"evt.phase_mode.report", Charger!Empty>>
                       /\ V \subseteq spec.sup_phase_modes
                       => Allows(V)
    <2> DEFINE currents == Charger!SupportedCurrents
               e == Charger!Empty
    <2>1. currents = IF spec.sup_max_current = None THEN {} ELSE 6..spec.sup_max_current
      BY DEF Charger!SupportedCurrents
    <2>2. spec.sup_max_current = 16 => 16 # None
      BY NoneAssumption
    <2> HIDE DEF currents, e
    <2>3. /\ <<"evt.state.report", e>> \notin DOMAIN Limits
          /\ <<"evt.cable_lock.report", e>> \notin DOMAIN Limits
          /\ currents = {} => <<"evt.current_session.report", e>> \notin DOMAIN Limits
      BY <1>1 DEF Charger!Limits, currents, e
    <2>4. /\ <<"evt.current_session.report", e>> \in DOMAIN Limits =>
                 Limits[<<"evt.current_session.report", e>>] = {0} \cup currents
          /\ Limits[<<"evt.max_current.report", e>>] = currents
          /\ Limits[<<"evt.phase_mode.report", e>>] = spec.sup_phase_modes
      BY <1>1 DEF Charger!Limits, currents, e
    <2>5. /\ attr = <<"evt.state.report", e>> => Allows(V)
          /\ attr = <<"evt.cable_lock.report", e>> => Allows(V)
      BY <2>3 DEF Allows
    <2>6. ASSUME attr = <<"evt.current_session.report", e>>,
                 spec.sup_max_current = None \/ V \subseteq {0} \cup 6..16
          PROVE  Allows(V)
      BY <1>2, <2>1, <2>2, <2>3, <2>4, <2>6 DEF Allows
    <2>7. ASSUME attr = <<"evt.max_current.report", e>>, spec.sup_max_current = 16, V \subseteq 6..16
          PROVE  Allows(V)
      BY <2>1, <2>2, <2>4, <2>7 DEF Allows
    <2>8. ASSUME attr = <<"evt.phase_mode.report", e>>, V \subseteq spec.sup_phase_modes
          PROVE  Allows(V)
      BY <2>4, <2>8 DEF Allows
    <2> QED
      BY <2>5, <2>6, <2>7, <2>8 DEF e
  <1>4. ASSUME NEW e, NEW s, NEW f
        PROVE  /\ Harmless(Charger!Report(e, Charger!NoKey, s, f))
               /\ Charger!Report(e, Charger!NoKey, s, f).do # "refuse"
               /\ f /\ attr = <<e, Charger!Empty>> =>
                      Confirms(attr, Charger!Report(e, Charger!NoKey, s, f))
    BY <1>1, StandardReport
    DEF Standard, Confirms, Reports, Charger!Report, Charger!NoKey, Charger!Listed
  <1>5. ASSUME NEW e, NEW V, attr = <<e, Charger!Empty>> =>
                   V \subseteq Values[attr] /\ Allows(V) /\ NeverNone
        PROVE  /\ CallOK(Charger!Set(Charger!Takes(<<e, Charger!Empty>>, V)))
               /\ Sets(attr, Charger!Set(Charger!Takes(<<e, Charger!Empty>>, V))) =>
                      attr = <<e, Charger!Empty>>
    BY <1>5, SetCall DEF Sets, Charger!Set, Charger!Takes
  <1>6. CallOK(Charger!Refused) /\ Harmless(Charger!Refused) /\ ~Sets(attr, Charger!Refused)
    BY RefusedCall DEF Harmless, Sets, Charger!Refused
  <1>7. ASSUME NEW S, S \subseteq {"charging", "finished"}
        PROVE  /\ CallOK(Charger!Set(Charger!StateAndSession(S)))
               /\ Sets(attr, Charger!Set(Charger!StateAndSession(S))) =>
                      attr \in {<<"evt.state.report", Charger!Empty>>,
                                <<"evt.current_session.report", Charger!Empty>>}
    <2> DEFINE x == Charger!Set(Charger!StateAndSession(S))
    <2>1. /\ x.do = "set"
          /\ DOMAIN x.effect = {<<"evt.state.report", Charger!Empty>>,
                                <<"evt.current_session.report", Charger!Empty>>}
          /\ attr = <<"evt.state.report", Charger!Empty>> => x.effect[attr] = S
          /\ attr = <<"evt.current_session.report", Charger!Empty>> => x.effect[attr] = {0, 16}
      BY DEF Charger!Set, Charger!StateAndSession, Charger!Sessions
    <2> HIDE DEF x
    <2>2. CallOK(x)
      <3>1. {0, 16} \subseteq {0} \cup 6..16 /\ {0, 16} \subseteq {0, 16, 17}
        OBVIOUS
      <3>2. attr \in DOMAIN x.effect =>
              x.effect[attr] \subseteq Values[attr] /\ NeverNone /\ Allows(x.effect[attr])
        <4>1. CASE attr = <<"evt.state.report", Charger!Empty>>
          BY <1>values, <1>limits, <1>7, <2>1, <4>1
        <4>2. CASE attr = <<"evt.current_session.report", Charger!Empty>>
          <5>1. x.effect[attr] = {0, 16}
            BY <2>1, <4>2
          <5>2. {0, 16} \subseteq Values[attr] /\ NeverNone
            BY <1>values, <3>1, <4>2
          <5>3. Allows({0, 16})
            BY <1>limits, <3>1, <4>2
          <5> QED
            BY <5>1, <5>2, <5>3
        <4> QED
          BY <2>1, <4>1, <4>2
      <3> QED
        BY <2>1, <3>2, SetCall
    <2> QED
      BY <2>1, <2>2 DEF x, Sets
  <1>8. ASSUME NEW x, CallOK(x),
               Sets(attr, x) => attr \in {<<"evt.state.report", Charger!Empty>>,
                                          <<"evt.current_session.report", Charger!Empty>>}
        PROVE  HandlerOK(<<x, Charger!SendStateReport(TRUE), Charger!SendCurrentSessionReport(TRUE)>>)
    BY <1>4, <1>8, ThreeCalls DEF Charger!SendStateReport, Charger!SendCurrentSessionReport
  <1>9. ASSUME NEW m PROVE HandlerOK(Charger!handleCmdChargeStart(m))
    BY <1>6, <1>7, <1>8 DEF Charger!handleCmdChargeStart, Charger!StartCharging, Charger!Given
  <1>10. HandlerOK(Charger!handleCmdChargeStop)
    BY <1>7, <1>8 DEF Charger!handleCmdChargeStop, Charger!StopCharging
  <1>11. ASSUME NEW b \in BOOLEAN PROVE HandlerOK(Charger!handleCmdCableLockSet(b))
    <2>1. CallOK(Charger!SetCableLock(b))
      BY <1>values, <1>limits, <1>5, <1>6 DEF Charger!SetCableLock, Charger!Given
    <2>2. Sets(attr, Charger!SetCableLock(b)) =>
              attr = <<"evt.cable_lock.report", Charger!Empty>> /\ Charger!cableLockAwareController
      BY <1>values, <1>limits, <1>5, <1>6
      DEF Charger!SetCableLock, Charger!Given, Charger!adjustableCableLockController
    <2> QED
      BY <1>4, <1>6, <2>1, <2>2, TwoCalls
      DEF ConfirmedBy, Charger!handleCmdCableLockSet, Charger!SendCableLockReport, Charger!Given
  <1>12. ASSUME NEW c \in Charger!Currents \ {6}
         PROVE  HandlerOK(Charger!handleCmdCurrentSessionSetCurrent(c))
    <2>1. Charger!adjustableOfferedCurrentController /\ Charger!validateCurrent(c) =>
              {c} \subseteq {0, 16, 17} /\ {c} \subseteq {0} \cup 6..16
      BY <1>2
      DEF Charger!adjustableOfferedCurrentController, Charger!validateCurrent,
          Charger!Currents
    <2>2. /\ CallOK(Charger!SetOfferedCurrent(c))
          /\ Sets(attr, Charger!SetOfferedCurrent(c)) =>
                 attr = <<"evt.current_session.report", Charger!Empty>>
      BY <1>values, <1>limits, <1>5, <1>6, <2>1 DEF Charger!SetOfferedCurrent, Charger!Given
    <2> QED
      BY <1>4, <2>2, TwoCalls
      DEF ConfirmedBy, Charger!handleCmdCurrentSessionSetCurrent,
          Charger!SendCurrentSessionReport
  <1>13. ASSUME NEW c \in Charger!Currents PROVE HandlerOK(Charger!handleCmdMaxCurrentSet(c))
    <2>1. Charger!adjustableMaxCurrentController /\ Charger!validateCurrent(c) =>
              /\ {c} \subseteq {6, 16, 17} /\ {c} \subseteq 6..16
              /\ spec.sup_max_current = 16
      BY <1>2
      DEF Charger!adjustableMaxCurrentController, Charger!validateCurrent, Charger!Currents
    <2>2. /\ CallOK(Charger!SetMaxCurrent(c))
          /\ Sets(attr, Charger!SetMaxCurrent(c)) =>
                 /\ attr = <<"evt.max_current.report", Charger!Empty>>
                 /\ Charger!adjustableMaxCurrentController
      BY <1>values, <1>limits, <1>5, <1>6, <2>1 DEF Charger!SetMaxCurrent, Charger!Given
    <2> QED
      BY <1>4, <1>6, <2>2, TwoCalls
      DEF ConfirmedBy, Charger!handleCmdMaxCurrentSet, Charger!SendMaxCurrentReport,
          Charger!Given
  <1>14. ASSUME NEW m \in Charger!Spelled({"NL1", "L1L2"})
         PROVE  HandlerOK(Charger!handleCmdPhaseModeSet(m))
    <2>1. Charger!validatePhaseMode(m) =>
              m[1] \in spec.sup_phase_modes /\ m[1] \in {"NL1L2L3", "NL1"}
      BY <1>2 DEF Charger!validatePhaseMode, Charger!Listed
    <2>2. /\ CallOK(Charger!SetPhaseMode(m))
          /\ Sets(attr, Charger!SetPhaseMode(m)) =>
                 attr = <<"evt.phase_mode.report", Charger!Empty>> /\ Charger!phaseModeAwareController
      BY <1>values, <1>limits, <1>5, <1>6, <2>1
      DEF Charger!SetPhaseMode, Charger!Given, Charger!adjustablePhaseModeController
    <2> QED
      BY <1>4, <1>6, <2>2, TwoCalls
      DEF ConfirmedBy, Charger!handleCmdPhaseModeSet, Charger!SendPhaseModeReport, Charger!Given
  <1>15. ASSUME NEW f
         PROVE  /\ HandlerOK(<<Charger!SendCurrentSessionReport(f)>>)
                /\ HandlerOK(<<Charger!SendStateReport(f)>>)
                /\ HandlerOK(<<Charger!SendMaxCurrentReport(f)>>)
                /\ HandlerOK(<<Charger!SendPhaseModeReport(f)>>)
                /\ HandlerOK(<<Charger!SendCableLockReport(f)>>)
    BY <1>4, <1>6, OneCall
    DEF Charger!SendCurrentSessionReport, Charger!SendStateReport, Charger!SendMaxCurrentReport,
        Charger!SendPhaseModeReport, Charger!SendCableLockReport, Charger!Given
  <1>16. HandlerOK(Charger!sendChargepointReports)
    BY <1>15, NoCalls, Followed DEF Charger!sendChargepointReports, Charger!When
  <1> QED
    BY <1>1, <1>9, <1>10, <1>11, <1>12, <1>13, <1>14, <1>15, <1>16
    DEF Disciplined, Handlers, Charger!Commands, Charger!handleCmdStateGetReport,
        Charger!handleCmdCableLockGetReport, Charger!handleCmdCurrentSessionGetReport,
        Charger!handleCmdMaxCurrentGetReport, Charger!handleCmdPhaseModeGetReport

LEMMA ParamsTable ==
    ASSUME service = "parameters", spec \in SpecificationsOf(service), attr \in DOMAIN Values
    PROVE  Disciplined
  <1> USE DEF Params!ParamReport, Params!SupParamsReport, Params!Attribute
  <1>1. /\ Values = Params!Values /\ Limits = Params!Limits /\ Commands = Params!Commands
        /\ handleReporting = <<>> /\ ~Caching
    BY DEF Values, Limits, Commands, handleReporting, Caching
  <1>2. spec \in Params!ParameterSpecifications /\ spec \in Params!Specifications
    BY DEF SpecificationsOf, Params!Specifications
  <1>3. ASSUME NEW e, NEW n, NEW f
        PROVE  /\ Harmless(Params!Uncached(Params!Report(e, Params!Listed(n), Params!OnChange, f)))
               /\ f /\ attr = <<e, n>> =>
                    Confirms(attr,
                             Params!Uncached(Params!Report(e, Params!Listed(n), Params!OnChange, f)))
    BY <1>1, StandardReport
    DEF Standard, Confirms, Reports, Params!Uncached, Params!Report, Params!Listed
  <1>4. attr[1] = "evt.param.report" => Values[attr] = Params!Numbers /\ NeverNone
    <2>1. attr[1] = "evt.param.report" => Values[attr] = Params!Numbers
      BY <1>1 DEF Params!Values
    <2>2. \A v \in {0, 1, 3} \cup {0, 1} : v # None
      BY NoneAssumption
    <2>3. \A v \in {{}, {1}, {1, 3}} : v # None
      BY NoneAssumption
    <2>4. \A v \in Params!Numbers : v # None
      BY <2>2, <2>3 DEF Params!Numbers
    <2> QED
      BY <2>1, <2>4 DEF NeverNone
  <1>5. ASSUME NEW p \in Params!Payloads, Params!Validate(p), Params!getParameterSpecification(p.id),
               ~spec.read_only, Params!ValidateParameter(p)
        PROVE  /\ Params!Value(p) \in Params!Numbers /\ p.id = "p1"
               /\ Allows({Params!Value(p)})
    <2>1. p.id = "p1"
      BY <1>2, <1>5 DEF Params!ParameterSpecifications, Params!getParameterSpecification
    <2>2. p.value_type = spec.value_type /\ spec.value_type # "object" /\ spec.value_type # "null"
      BY <1>2, <1>5 DEF Params!ParameterSpecifications, Params!ValidateParameter
    <2>3. p.json = "null" \/ p.json = spec.value_type
      BY <1>5, <2>2 DEF Params!Validate, Params!valueMatchesValueType
    <2>4. p.json # "null" => p.value \in Params!Numbers
      BY <2>2, <2>3 DEF Params!Payloads
    <2>5. Params!Value(p) \in Params!Numbers
      <3>1. CASE p.json # "null"
        BY <2>4, <3>1 DEF Params!Value
      <3>2. CASE p.json = "null"
        <4>1. Params!Value(p) = IF Params!IsArray(spec.value_type) THEN {} ELSE 0
          BY <2>2, <3>2 DEF Params!Value
        <4>2. Params!IsArray(spec.value_type) => {} \in Params!Numbers
          BY DEF Params!Numbers, Params!IsArray
        <4>3. ~Params!IsArray(spec.value_type) => 0 \in Params!Numbers
          BY DEF Params!Numbers
        <4> QED
          BY <4>1, <4>2, <4>3
      <3> QED
        BY <3>1, <3>2
    <2>6. ASSUME Params!Fits
          PROVE  /\ spec.widget_type = "select" => Params!Value(p) \in spec.options
                 /\ spec.widget_type = "multiselect" => Params!Value(p) \subseteq spec.options
                 /\ spec.min # None => Params!Value(p) >= spec.min
                 /\ spec.max # None => Params!Value(p) <= spec.max
      <3>1. spec.widget_type = "select" => Params!Value(p) \in spec.options
        BY <1>5, <2>6 DEF Params!Fits, Params!ValidateParameter, Params!validateSelect
      <3>2. spec.widget_type = "multiselect" => Params!Value(p) \subseteq spec.options
        BY <1>5, <2>6
        DEF Params!Fits, Params!ValidateParameter, Params!validateMultiSelect
      <3>3. spec.min # None \/ spec.max # None => Params!validateInput(p) /\ spec.value_type = "int"
        BY <1>2, <1>5, <2>6 DEF Params!Fits, Params!Specifications, Params!ValidateParameter
      <3> HIDE DEF Params!Value
      <3>4. /\ spec.min # None => Params!Value(p) >= spec.min
            /\ spec.max # None => Params!Value(p) <= spec.max
        BY <3>3 DEF Params!validateInput
      <3> QED
        BY <3>1, <3>2, <3>4
    <2>7. Allows({Params!Value(p)})
      <3> DEFINE v == Params!Value(p)
                 Within(x) == /\ ~spec.read_only
                              /\ Params!Fits =>
                                   /\ spec.widget_type = "select" => x \in spec.options
                                   /\ spec.widget_type = "multiselect" => x \subseteq spec.options
                                   /\ spec.min # None => x >= spec.min
                                   /\ spec.max # None => x <= spec.max
      <3>1. Limits = [a \in {<<"evt.param.report", "p1">>} |-> {x \in Params!Numbers : Within(x)}]
        BY <1>1 DEF Params!Limits, Params!Takes
      <3>2. v \in Params!Numbers /\ Within(v)
        BY <1>5, <2>5, <2>6
      <3> HIDE DEF v, Within
      <3>3. {v} \subseteq {x \in Params!Numbers : Within(x)}
        BY <3>2
      <3> QED
        BY <3>1, <3>3, OneLimit DEF v
    <2> QED
      BY <2>1, <2>5, <2>7
  <1>6. ASSUME NEW p \in Params!Payloads PROVE HandlerOK(Params!handleCmdParamSet(p))
    <2> DEFINE x == Params!SetParameter(p)
    <2>1. CallOK(x) /\ (Sets(attr, x) => attr = <<"evt.param.report", p.id>>)
      <3>1. CASE /\ Params!Validate(p) /\ Params!getParameterSpecification(p.id)
                 /\ ~spec.read_only /\ Params!ValidateParameter(p)
        <4>1. x = Params!Set(Params!Takes(<<"evt.param.report", p.id>>, {Params!Value(p)}))
          BY <3>1 DEF Params!SetParameter, Params!Given
        <4>2. /\ x.do = "set" /\ DOMAIN x.effect = {<<"evt.param.report", p.id>>}
              /\ x.effect[<<"evt.param.report", p.id>>] = {Params!Value(p)}
          BY <4>1 DEF Params!Set, Params!Takes
        <4>3. attr = <<"evt.param.report", p.id>> => attr[1] = "evt.param.report"
          OBVIOUS
        <4> HIDE DEF x
        <4>4. CallOK(x)
          BY <1>1, <1>4, <1>5, <3>1, <4>2, <4>3, SetCall
        <4> QED
          BY <4>2, <4>4 DEF Sets
      <3>2. CASE ~(/\ Params!Validate(p) /\ Params!getParameterSpecification(p.id)
                   /\ ~spec.read_only /\ Params!ValidateParameter(p))
        <4>1. x.do = "refuse"
          BY <3>2 DEF Params!SetParameter, Params!Given, Params!Refused
        <4> QED
          BY <4>1, RefusedCall DEF Harmless
      <3> QED
        BY <3>1, <3>2
    <2> HIDE DEF x
    <2>2. ConfirmedBy(x, Params!SendParameterReport(p.id, TRUE))
      BY <1>3, <2>1 DEF ConfirmedBy, Params!SendParameterReport
    <2> QED
      BY <2>2, TwoCalls DEF x, Params!handleCmdParamSet
  <1>7. /\ HandlerOK(Params!handleCmdParamGetReport("p1"))
        /\ HandlerOK(Params!handleCmdSupParamsGetReport)
        /\ HandlerOK(Params!NewInclusionReportSentEventHandler)
    BY <1>3, OneCall
    DEF Params!handleCmdParamGetReport, Params!handleCmdSupParamsGetReport,
        Params!NewInclusionReportSentEventHandler, Params!SendParameterReport,
        Params!SendSupportedParamsReport, Params!NoKey
  <1> QED
    BY <1>1, <1>6, <1>7, NoCalls DEF Disciplined, Handlers, Params!Commands

LEMMA ThermoTable ==
    ASSUME service = "thermostat", spec \in SpecificationsOf(service), attr \in DOMAIN Values
    PROVE  Disciplined
  <1> USE DEF Thermo!ModeReport, Thermo!SetpointReport, Thermo!StateReport, Thermo!Attribute
  <1>1. /\ Values = Thermo!Values /\ Limits = Thermo!Limits /\ Commands = Thermo!Commands
        /\ handleReporting = Thermo!handleReporting /\ Caching
        /\ OneKey <=> Cases = {"listed"}
    BY DEF Values, Limits, Commands, handleReporting, Caching, OneKey
  <1>2. spec.sup_modes = {"off", "heat"} /\ spec.sup_setpoints = <<"heat">>
    BY DEF SpecificationsOf, Thermo!Specifications
  <1>3. /\ attr = <<"evt.mode.report", Thermo!Empty>> =>
               Values[attr] = Thermo!Modes /\ NeverNone
        /\ \A m : attr = <<"evt.setpoint.report", m>> =>
                      Values[attr] = Thermo!Temperatures /\ NeverNone
    BY <1>1, NoneAssumption
    DEF Names, NeverNone, Thermo!Values, Thermo!Temperatures, Thermo!Modes
  <1>limits. ASSUME NEW V
             PROVE  /\ V \subseteq spec.sup_modes => Allows(V)
                    /\ \A m : attr = <<"evt.setpoint.report", m>> => Allows(V)
    <2>1. Limits = [a \in {<<"evt.mode.report", Thermo!Empty>>} |-> spec.sup_modes]
      BY <1>1 DEF Thermo!Limits, Thermo!Takes
    <2> QED
      BY <2>1 DEF Allows
  <1>4. ASSUME NEW e, NEW f
        PROVE  /\ Harmless(Thermo!Report(e, Thermo!NoKey, Thermo!OnChange, f))
               /\ f /\ attr = <<e, Thermo!Empty>> =>
                      Confirms(attr, Thermo!Report(e, Thermo!NoKey, Thermo!OnChange, f))
    BY <1>1, StandardReport
    DEF Standard, Confirms, Reports, Thermo!Report, Thermo!NoKey, Thermo!Listed
  <1>5. ASSUME NEW m, m[2] \in Cases, NEW f
        PROVE  /\ Harmless(Thermo!SendSetpointReport(m, f))
               /\ f /\ Thermo!SupportsSetpoint(m) /\ attr = <<"evt.setpoint.report", m[1]>> =>
                      Confirms(attr, Thermo!SendSetpointReport(m, f))
    <2> DEFINE r == Thermo!Report("evt.setpoint.report", m, Thermo!OnChange, f)
    <2>1. Harmless(r) /\ (f /\ attr = <<"evt.setpoint.report", m[1]>> => Confirms(attr, r))
      BY <1>1, <1>5
      DEF Harmless, CallOK, Sets, IsControl, Confirms, Reports, Thermo!Report
    <2> HIDE DEF r
    <2>2. Harmless(Thermo!Refused)
      BY RefusedCall DEF Thermo!Refused
    <2> QED
      BY <2>1, <2>2 DEF r, Thermo!SendSetpointReport, Thermo!Given
  <1>6. ASSUME NEW m \in Thermo!Spelled(Thermo!Modes)
        PROVE  HandlerOK(Thermo!HandleCmdModeSet(m))
    <2>1. m[2] \in Cases
      BY DEF Thermo!Spelled
    <2>2. /\ CallOK(Thermo!SetMode(m))
          /\ Sets(attr, Thermo!SetMode(m)) => attr = <<"evt.mode.report", Thermo!Empty>>
      <3>1. Thermo!normalizeMode(m) # None =>
              /\ {Thermo!normalizeMode(m)} \subseteq spec.sup_modes
              /\ {Thermo!normalizeMode(m)} \subseteq Thermo!Modes
        BY <1>2 DEF Thermo!normalizeMode, Thermo!Modes
      <3> QED
        BY <1>3, <1>limits, <3>1, SetCall, RefusedCall
        DEF Harmless, Sets, Thermo!SetMode, Thermo!Given, Thermo!Refused, Thermo!Set,
            Thermo!Takes
    <2>3. HandlerOK(<<Thermo!SetMode(m), Thermo!SendModeReport(TRUE)>>)
      BY <1>4, <2>2, TwoCalls DEF ConfirmedBy, Thermo!SendModeReport
    <2>4. HandlerOK(<<Thermo!SendSetpointReport(m, TRUE)>>)
      BY <1>5, <2>1, OneCall
    <2> QED
      BY <2>3, <2>4, NoCalls, Followed DEF Thermo!HandleCmdModeSet, Thermo!When
  <1>7. ASSUME NEW m \in Thermo!Spelled(Thermo!Modes), NEW t \in Thermo!Temperatures
        PROVE  HandlerOK(Thermo!HandleCmdSetpointSet(m, t))
    <2>1. m[2] \in Cases
      BY DEF Thermo!Spelled
    <2>2. Thermo!SupportsSetpoint(m) => Thermo!normalizeSetpoint(m) = m[1]
      BY DEF Thermo!SupportsSetpoint, Thermo!normalizeSetpoint
    <2>3. /\ CallOK(Thermo!SetSetpoint(m, t))
          /\ Sets(attr, Thermo!SetSetpoint(m, t)) =>
                 Thermo!SupportsSetpoint(m) /\ attr = <<"evt.setpoint.report", m[1]>>
      BY <1>3, <1>limits, <2>2, SetCall, RefusedCall
      DEF Harmless, Sets, Thermo!SetSetpoint, Thermo!Given, Thermo!Refused, Thermo!Set,
          Thermo!Takes
    <2>4. /\ Harmless(Thermo!SendSetpointReport(m, TRUE))
          /\ Thermo!SupportsSetpoint(m) /\ attr = <<"evt.setpoint.report", m[1]>> =>
                 Confirms(attr, Thermo!SendSetpointReport(m, TRUE))
      BY <1>5, <2>1
    <2>5. ConfirmedBy(Thermo!SetSetpoint(m, t), Thermo!SendSetpointReport(m, TRUE))
      BY <2>3, <2>4 DEF ConfirmedBy
    <2> QED
      BY <2>5, TwoCalls DEF Thermo!HandleCmdSetpointSet
  <1>8. ASSUME NEW m \in Thermo!Spelled(Thermo!Modes)
        PROVE  HandlerOK(Thermo!HandleCmdSetpointGetReport(m))
    BY <1>5, OneCall DEF Thermo!Spelled, Thermo!HandleCmdSetpointGetReport
  <1>9. ASSUME NEW f
        PROVE  HandlerOK(<<Thermo!SendModeReport(f)>>) /\ HandlerOK(<<Thermo!SendStateReport(f)>>)
    BY <1>4, OneCall DEF Thermo!SendModeReport, Thermo!SendStateReport
  <1>10. ASSUME NEW f
         PROVE  HandlerOK([i \in DOMAIN spec.sup_setpoints |->
                               Thermo!SendSetpointReport(Thermo!Listed(spec.sup_setpoints[i]), f)])
    <2>1. spec.sup_setpoints \in Seq({"heat"})
      BY <1>2
    <2>2. \A n : Harmless(Thermo!SendSetpointReport(Thermo!Listed(n), f))
      BY <1>5, CasesAssumption DEF Thermo!Listed
    <2> QED
      BY <2>1, <2>2, ManyCalls
  <1>11. HandlerOK(Thermo!handleReporting)
    BY <1>9, <1>10, NoCalls, Followed DEF Thermo!handleReporting, Thermo!When, Thermo!ForEach
  <1>12. \A c \in {Thermo!HandleCmdSetpointSet(m, t) :
                      m \in Thermo!Spelled(Thermo!Modes), t \in {2100, 2104}} : HandlerOK(c)
    <2>1. \A t \in {2100, 2104} : t \in Thermo!Temperatures
      BY DEF Thermo!Temperatures
    <2> QED
      BY <1>7, <2>1
  <1>13. HandlerOK(Thermo!HandleCmdModeGetReport) /\ HandlerOK(Thermo!HandleCmdStateGetReport)
    BY <1>9 DEF Thermo!HandleCmdModeGetReport, Thermo!HandleCmdStateGetReport
  <1> QED
    BY <1>1, <1>6, <1>8, <1>11, <1>12, <1>13 DEF Disciplined, Handlers, Thermo!Commands

LEMMA HeaterTable ==
    ASSUME service = "water_heater", spec \in SpecificationsOf(service), attr \in DOMAIN Values
    PROVE  Disciplined
  <1> USE DEF Heater!ModeReport, Heater!SetpointReport, Heater!StateReport, Heater!Attribute
  <1>1. /\ Values = Heater!Values /\ Limits = Heater!Limits /\ Commands = Heater!Commands
        /\ handleReporting = Heater!handleReporting /\ Caching
        /\ OneKey <=> Cases = {"listed"}
    BY DEF Values, Limits, Commands, handleReporting, Caching, OneKey
  <1>2. /\ spec.sup_modes = {"off", "normal"} /\ spec.sup_setpoints = <<"normal">>
        /\ spec.sup_step \in {0, 5}
        /\ spec.sup_ranges \in {<<>>, [normal |-> [Min |-> 30, Max |-> 45]]}
        /\ spec.sup_range \in {None, [Min |-> 30, Max |-> 49]}
    BY DEF SpecificationsOf, Heater!Specifications
  <1>3. ASSUME NEW t \in Heater!Requested PROVE Heater!RoundToStep(t) \in Int
    BY <1>2 DEF Heater!Requested, Heater!RoundToStep
  <1>modes. ASSUME attr = <<"evt.mode.report", Heater!Empty>>
            PROVE  /\ Values[attr] = Heater!Modes /\ NeverNone
                   /\ \A V : V \subseteq spec.sup_modes => Allows(V)
    <2>1. Values[attr] = Heater!Modes /\ NeverNone
      BY <1>1, <1>modes, NoneAssumption DEF Names, NeverNone, Heater!Values, Heater!Modes
    <2>2. Limits[attr] = spec.sup_modes
      BY <1>1, <1>modes DEF Heater!Limits
    <2> QED
      BY <2>1, <2>2 DEF Allows
  <1>setpoints. \A m : attr = <<"evt.setpoint.report", m>> =>
            Values[attr] = {Heater!RoundToStep(t) : t \in Heater!Requested} /\ NeverNone
    <2>1. \A m : attr = <<"evt.setpoint.report", m>> =>
            Values[attr] = {Heater!RoundToStep(t) : t \in Heater!Requested}
      BY <1>1 DEF Heater!Values
    <2> QED
      BY <1>3, <2>1, NoneAssumption DEF NeverNone
  <1>4. ASSUME NEW e, NEW f
        PROVE  /\ Harmless(Heater!Report(e, Heater!NoKey, Heater!OnChange, f))
               /\ f /\ attr = <<e, Heater!Empty>> =>
                      Confirms(attr, Heater!Report(e, Heater!NoKey, Heater!OnChange, f))
    BY <1>1, StandardReport
    DEF Standard, Confirms, Reports, Heater!Report, Heater!NoKey, Heater!Listed
  <1>5. ASSUME NEW m, m[2] \in Cases, NEW f
        PROVE  /\ Harmless(Heater!SendSetpointReport(m, f))
               /\ f /\ Heater!SupportsSetpoint(m) /\ attr = <<"evt.setpoint.report", m[1]>> =>
                      Confirms(attr, Heater!SendSetpointReport(m, f))
    <2> DEFINE r == Heater!Report("evt.setpoint.report", m, Heater!OnChange, f)
    <2>1. Harmless(r) /\ (f /\ attr = <<"evt.setpoint.report", m[1]>> => Confirms(attr, r))
      BY <1>1, <1>5
      DEF Harmless, CallOK, Sets, IsControl, Confirms, Reports, Heater!Report
    <2> HIDE DEF r
    <2>2. Harmless(Heater!Refused)
      BY RefusedCall DEF Heater!Refused
    <2> QED
      BY <2>1, <2>2 DEF r, Heater!SendSetpointReport, Heater!Given
  <1>6. ASSUME NEW m \in Heater!Spelled(Heater!Modes)
        PROVE  HandlerOK(Heater!HandleCmdModeSet(m))
    <2>1. m[2] \in Cases
      BY DEF Heater!Spelled
    <2>2. /\ CallOK(Heater!SetMode(m))
          /\ Sets(attr, Heater!SetMode(m)) => attr = <<"evt.mode.report", Heater!Empty>>
      <3>1. Heater!normalizeMode(m) # None =>
              /\ {Heater!normalizeMode(m)} \subseteq spec.sup_modes
              /\ {Heater!normalizeMode(m)} \subseteq Heater!Modes
        BY <1>2 DEF Heater!normalizeMode, Heater!Modes
      <3> QED
        BY <1>modes, <3>1, SetCall, RefusedCall
        DEF Harmless, Sets, Heater!SetMode, Heater!Given, Heater!Refused, Heater!Set,
            Heater!Takes
    <2>3. HandlerOK(<<Heater!SetMode(m), Heater!SendModeReport(TRUE)>>)
      BY <1>4, <2>2, TwoCalls DEF ConfirmedBy, Heater!SendModeReport
    <2>4. HandlerOK(<<Heater!SendSetpointReport(m, TRUE)>>)
      BY <1>5, <2>1, OneCall
    <2> QED
      BY <2>3, <2>4, NoCalls, Followed DEF Heater!HandleCmdModeSet, Heater!When
  <1>7. ASSUME NEW m \in Heater!Spelled(Heater!Modes), NEW t \in Heater!Requested
        PROVE  HandlerOK(Heater!HandleCmdSetpointSet(m, t))
    <2> DEFINE v == Heater!normalizeValue(m, t)
               a == <<"evt.setpoint.report", m[1]>>
               ok == Heater!SupportsSetpoint(m) /\ v # None
    <2>1. m[2] \in Cases
      BY DEF Heater!Spelled
    <2>2. Heater!SupportsSetpoint(m) => Heater!normalizeSetpoint(m) = m[1]
      BY DEF Heater!SupportsSetpoint, Heater!normalizeSetpoint
    <2>3. v # None => v = Heater!RoundToStep(t)
      BY DEF Heater!normalizeValue
    <2>4. ASSUME v # None, attr = a PROVE {v} \subseteq Values[attr] /\ NeverNone
      BY <1>setpoints, <2>3, <2>4
    <2>5. ASSUME v # None, attr = a, OneKey PROVE Allows({v})
      <3> DEFINE range == Heater!supportedRange(m)
                 step == spec.sup_step
      <3>1. m[2] = "listed" /\ Heater!Listed(m[1]) = m
        BY <1>1, <2>1, <2>5 DEF Heater!Listed, Heater!Spelled
      <3>2. attr \in DOMAIN Limits =>
              /\ range # None
              /\ Limits[attr] = {x \in range.Min..range.Max : step > 0 => x % step = 0}
        BY <1>1, <2>5, <3>1 DEF Heater!Limits
      <3>3. range # None => range.Min \in Int /\ range.Max \in Int
        BY <1>2 DEF Heater!supportedRange
      <3>4. range # None =>
                ~(Heater!RoundToStep(t) < range.Min \/ Heater!RoundToStep(t) > range.Max)
        BY <2>5 DEF Heater!normalizeValue
      <3>5. step > 0 => Heater!RoundToStep(t) % step = 0
        BY <1>2 DEF Heater!Requested, Heater!RoundToStep
      <3> HIDE DEF range, step, v
      <3>6. ASSUME range # None
            PROVE  v \in {x \in range.Min..range.Max : step > 0 => x % step = 0}
        BY <1>3, <2>3, <2>5, <3>3, <3>4, <3>5, <3>6
      <3> QED
        BY <3>2, <3>6 DEF Allows
    <2>6. /\ CallOK(Heater!SetSetpoint(m, t))
          /\ Sets(attr, Heater!SetSetpoint(m, t)) => Heater!SupportsSetpoint(m) /\ attr = a
      <3>1. CASE ok
        <4>1. Heater!SetSetpoint(m, t) = [do |-> "set", effect |-> [b \in {a} |-> {v}]]
          BY <2>2, <3>1 DEF Heater!SetSetpoint, Heater!Given, Heater!Set, Heater!Takes
        <4> HIDE DEF v, a
        <4> QED
          BY <2>4, <2>5, <3>1, <4>1, SetCall DEF Sets
      <3>2. CASE ~ok
        <4>1. Heater!SetSetpoint(m, t).do = "refuse"
          BY <3>2 DEF Heater!SetSetpoint, Heater!Given, Heater!Refused
        <4> QED
          BY <4>1, RefusedCall DEF Harmless
      <3> QED
        BY <3>1, <3>2
    <2>7. /\ Harmless(Heater!SendSetpointReport(m, TRUE))
          /\ Heater!SupportsSetpoint(m) /\ attr = a =>
                 Confirms(attr, Heater!SendSetpointReport(m, TRUE))
      BY <1>5, <2>1
    <2>8. ConfirmedBy(Heater!SetSetpoint(m, t), Heater!SendSetpointReport(m, TRUE))
      BY <2>6, <2>7 DEF ConfirmedBy
    <2> QED
      BY <2>8, TwoCalls DEF Heater!HandleCmdSetpointSet
  <1>8. ASSUME NEW m \in Heater!Spelled(Heater!Modes)
        PROVE  HandlerOK(Heater!HandleCmdSetpointGetReport(m))
    BY <1>5, OneCall DEF Heater!Spelled, Heater!HandleCmdSetpointGetReport
  <1>9. ASSUME NEW f
        PROVE  HandlerOK(<<Heater!SendModeReport(f)>>) /\ HandlerOK(<<Heater!SendStateReport(f)>>)
    BY <1>4, OneCall DEF Heater!SendModeReport, Heater!SendStateReport
  <1>10. ASSUME NEW f
         PROVE  HandlerOK([i \in DOMAIN spec.sup_setpoints |->
                               Heater!SendSetpointReport(Heater!Listed(spec.sup_setpoints[i]), f)])
    <2>1. spec.sup_setpoints \in Seq({"normal"})
      BY <1>2
    <2>2. \A n : Harmless(Heater!SendSetpointReport(Heater!Listed(n), f))
      BY <1>5, CasesAssumption DEF Heater!Listed
    <2> QED
      BY <2>1, <2>2, ManyCalls
  <1>11. HandlerOK(Heater!handleReporting)
    BY <1>9, <1>10, NoCalls, Followed DEF Heater!handleReporting, Heater!When, Heater!ForEach
  <1>12. \A c \in {Heater!HandleCmdSetpointSet(m, t) :
                      m \in Heater!Spelled(Heater!Modes), t \in Heater!Requested} : HandlerOK(c)
    BY <1>7
  <1>13. HandlerOK(Heater!HandleCmdModeGetReport) /\ HandlerOK(Heater!HandleCmdStateGetReport)
    BY <1>9 DEF Heater!HandleCmdModeGetReport, Heater!HandleCmdStateGetReport
  <1> QED
    BY <1>1, <1>6, <1>8, <1>11, <1>12, <1>13 DEF Disciplined, Handlers, Heater!Commands
(***************************************************************************)
(* What the actions have in common.                                        *)
(***************************************************************************)

\* Service, specification and attribute never change, so nothing that is made of
\* them does.
Same ==
    /\ UNCHANGED fixed
    /\ Values' = Values /\ Limits' = Limits /\ Handlers' = Handlers
    /\ handleReporting' = handleReporting /\ Commands' = Commands
    /\ SpecificationsOf(service)' = SpecificationsOf(service)
    /\ \A v : Shown(v)' = Shown(v)

LEMMA LevelSame ==
    ASSUME UNCHANGED fixed
    PROVE  /\ Level!Values' = Level!Values
           /\ Level!Commands' = Level!Commands
  BY DEF fixed, Level!Commands, Level!HandleCmdBinarySet,
         Level!HandleCmdLvlStart, Level!HandleCmdLvlStop, Level!Levels,
         Level!Reached, Level!SetBinaryState, Level!StartLevelTransition,
         Level!Requested, Level!StopLevelTransition, Level!Values,
         Level!validateStartLevelOption, Level!Given

LEMMA ThermoSame ==
    ASSUME UNCHANGED fixed
    PROVE  /\ Thermo!Values' = Thermo!Values
           /\ Thermo!Commands' = Thermo!Commands
           /\ Thermo!handleReporting' = Thermo!handleReporting
           /\ Thermo!Limits' = Thermo!Limits
  BY DEF fixed, Thermo!Limits, Thermo!Commands, Thermo!HandleCmdModeSet,
         Thermo!HandleCmdSetpointGetReport, Thermo!HandleCmdSetpointSet,
         Thermo!SendSetpointReport, Thermo!SetMode, Thermo!SetSetpoint,
         Thermo!SupportsSetpoint, Thermo!Values, Thermo!handleReporting,
         Thermo!normalizeMode, Thermo!normalizeSetpoint, Thermo!ForEach,
         Thermo!Given, Thermo!When

LEMMA HeaterSame ==
    ASSUME UNCHANGED fixed
    PROVE  /\ Heater!Values' = Heater!Values
           /\ Heater!Commands' = Heater!Commands
           /\ Heater!handleReporting' = Heater!handleReporting
           /\ Heater!Limits' = Heater!Limits
  BY DEF fixed, Heater!Limits, Heater!Commands, Heater!HandleCmdModeSet,
         Heater!HandleCmdSetpointGetReport, Heater!HandleCmdSetpointSet,
         Heater!RoundToStep, Heater!SendSetpointReport, Heater!SetMode,
         Heater!SetSetpoint, Heater!SupportsSetpoint, Heater!Values,
         Heater!handleReporting, Heater!normalizeMode,
         Heater!normalizeSetpoint, Heater!normalizeValue,
         Heater!supportedRange, Heater!ForEach, Heater!Given, Heater!When

LEMMA PlayerSame ==
    ASSUME UNCHANGED fixed
    PROVE  /\ Player!Values' = Player!Values
           /\ Player!Commands' = Player!Commands
           /\ Player!Limits' = Player!Limits
  BY DEF fixed, Player!Limits, Player!Commands, Player!SetPlayback, Player!SetPlaybackMode,
         Player!Values, Player!handleCmdPlaybackModeSet,
         Player!handleCmdPlaybackSet, Player!validateMode,
         Player!validatePlaybackAction, Player!Given

LEMMA ChargerSame ==
    ASSUME UNCHANGED fixed
    PROVE  /\ Charger!Commands' = Charger!Commands
           /\ Charger!sendChargepointReports' = Charger!sendChargepointReports
           /\ Charger!Limits' = Charger!Limits
  BY DEF fixed, Charger!Limits, Charger!SupportedCurrents, Charger!Commands, Charger!Implements,
         Charger!IsCableLockAware, Charger!SendCableLockReport,
         Charger!SendMaxCurrentReport, Charger!SendPhaseModeReport,
         Charger!SetCableLock, Charger!SetMaxCurrent,
         Charger!SetOfferedCurrent, Charger!SetPhaseMode,
         Charger!StartCharging, Charger!SupportsAdjustingMaxCurrent,
         Charger!SupportsAdjustingPhaseModes,
         Charger!adjustableCableLockController,
         Charger!adjustableMaxCurrentController,
         Charger!adjustableOfferedCurrentController,
         Charger!adjustablePhaseModeController,
         Charger!cableLockAwareController,
         Charger!handleCmdCableLockGetReport, Charger!handleCmdCableLockSet,
         Charger!handleCmdChargeStart,
         Charger!handleCmdCurrentSessionSetCurrent,
         Charger!handleCmdMaxCurrentGetReport, Charger!handleCmdMaxCurrentSet,
         Charger!handleCmdPhaseModeGetReport, Charger!handleCmdPhaseModeSet,
         Charger!normalizeChargingMode, Charger!phaseModeAwareController,
         Charger!sendChargepointReports, Charger!validateCurrent,
         Charger!validatePhaseMode, Charger!Given, Charger!When

LEMMA MeterSame ==
    ASSUME UNCHANGED fixed
    PROVE  /\ Meter!Values' = Meter!Values
           /\ Meter!Commands' = Meter!Commands
           /\ Meter!handlePeriodicReporting' = Meter!handlePeriodicReporting
  BY DEF fixed, Meter!Commands, Meter!ResetMeter, Meter!SendMeterExportReport,
         Meter!SendMeterExtendedReport, Meter!SendMeterReport, Meter!Values,
         Meter!exportReporter, Meter!extendedReporter,
         Meter!handleCmdMeterExportGetReport,
         Meter!handleCmdMeterExtGetReport, Meter!handleCmdMeterGetReport,
         Meter!handleCmdMeterReset, Meter!handlePeriodicReporting,
         Meter!normalizeExtendedValues, Meter!resettableReporter,
         Meter!ForEach, Meter!Given

LEMMA SensorSame ==
    ASSUME UNCHANGED fixed
    PROVE  /\ Sensor!Values' = Sensor!Values
           /\ Sensor!Commands' = Sensor!Commands
           /\ Sensor!handleReporting' = Sensor!handleReporting
  BY DEF fixed, Sensor!Commands, Sensor!HandleCmdSensorGetReport,
         Sensor!SendSensorReport, Sensor!Values, Sensor!handleReporting,
         Sensor!normalizeUnit, Sensor!ForEach, Sensor!Given

LEMMA FanSame ==
    ASSUME UNCHANGED fixed
    PROVE  /\ Fan!Commands' = Fan!Commands
           /\ Fan!handleReporting' = Fan!handleReporting
           /\ Fan!Limits' = Fan!Limits
  BY DEF fixed, Fan!Limits, Fan!Commands, Fan!HandleCmdModeGetReport,
         Fan!HandleCmdModeSet, Fan!SendModeReport, Fan!SetMode,
         Fan!handleReporting, Fan!Given

LEMMA SceneSame ==
    ASSUME UNCHANGED fixed
    PROVE  /\ Scene!Commands' = Scene!Commands
           /\ Scene!Limits' = Scene!Limits
  BY DEF fixed, Scene!Limits, Scene!Commands, Scene!HandleCmdSceneSet,
         Scene!SetScene, Scene!isSceneSupported, Scene!Given

LEMMA CellSame ==
    ASSUME UNCHANGED fixed
    PROVE  /\ Cell!Values' = Cell!Values
           /\ Cell!handleReporting' = Cell!handleReporting
  BY DEF fixed, Cell!SendBatteryAlarmReport, Cell!Values,
         Cell!handleReporting, Cell!normalizeEvent, Cell!ForEach, Cell!Given

LEMMA ParamsSame ==
    ASSUME UNCHANGED fixed
    PROVE  /\ Params!Values' = Params!Values
           /\ Params!Commands' = Params!Commands
           /\ Params!Limits' = Params!Limits
  BY DEF fixed, Params!Limits, Params!Fits, Params!Commands, Params!Numbers,
         Params!Payloads, Params!SetParameter, Params!ValidateParameter,
         Params!Values, Params!getParameterSpecification,
         Params!handleCmdParamSet, Params!validateInput,
         Params!validateMultiSelect, Params!validateSelect, Params!Given

LEMMA DiagSame ==
    ASSUME UNCHANGED fixed
    PROVE  /\ Diag!Values' = Diag!Values
           /\ Diag!Commands' = Diag!Commands
  BY DEF fixed, Diag!Commands, Diag!Send, Diag!SendErrorsReport,
         Diag!SendLQIReport, Diag!SendRSSIReport, Diag!SendRebootReasonReport,
         Diag!SendRebootsCountReport, Diag!SendUptimeReport, Diag!Values,
         Diag!Given

LEMMA SystemSame ==
    ASSUME UNCHANGED fixed
    PROVE  /\ System!Commands' = System!Commands
  BY DEF fixed, System!Commands, System!Reboot, System!handleCmdThingReboot,
         System!rebootController, System!Given

LEMMA SameTables == ASSUME UNCHANGED fixed PROVE Same
  <1> USE DEF fixed
  <1>1. Values' = Values
    BY LevelSame, ThermoSame, HeaterSame, PlayerSame, ChargerSame, MeterSame, SensorSame,
       CellSame, ParamsSame, DiagSame
    DEF Values, OnOff!Values, Color!Values, Fan!Values, Scene!Values, Present!Values,
        Update!Values, System!Values
  <1>2. Commands' = Commands
    BY LevelSame, ThermoSame, HeaterSame, PlayerSame, ChargerSame, MeterSame, SensorSame,
       FanSame, SceneSame, CellSame, ParamsSame, DiagSame, SystemSame
    DEF Commands, OnOff!Commands, Color!Commands, Present!Commands, Cell!Commands,
        Update!Commands
  <1>3. handleReporting' = handleReporting
    BY LevelSame, ThermoSame, HeaterSame, PlayerSame, ChargerSame, MeterSame, SensorSame,
       FanSame, SceneSame, CellSame
    DEF handleReporting
  <1>4. Limits' = Limits
    BY ThermoSame, HeaterSame, PlayerSame, ChargerSame, FanSame, SceneSame, ParamsSame DEF Limits
  <1>5. SpecificationsOf(service)' = SpecificationsOf(service)
    BY DEF SpecificationsOf
  <1>6. ASSUME NEW v PROVE Shown(v)' = Shown(v)
    BY DEF Shown, Thermo!StringMap, Scene!Scene
  <1> QED
    BY <1>1, <1>2, <1>3, <1>4, <1>5, <1>6 DEF Same, Handlers

\* The rules are about nothing else.
LEMMA SameRules ==
    ASSUME Same
    PROVE  /\ Disciplined' <=> Disciplined
           /\ NeverNone' <=> NeverNone
           /\ Caching' <=> Caching
           /\ OneKey' <=> OneKey
           /\ Calls' = Calls
  <1>1. /\ NeverNone' <=> NeverNone
        /\ Caching' <=> Caching
        /\ OneKey' <=> OneKey
        /\ Calls' = Calls
    BY DEF Same, fixed, NeverNone, Caching, OneKey, Calls
  <1>2. ASSUME NEW x PROVE CallOK(x)' <=> CallOK(x)
    BY <1>1 DEF Same, fixed, CallOK, Allows, IsControl
  <1>3. ASSUME NEW c PROVE HandlerOK(c)' <=> HandlerOK(c)
    BY <1>2 DEF Same, fixed, HandlerOK
  <1> QED
    BY <1>1, <1>3 DEF Same, Disciplined

\* Every call in sight keeps the rules.
LEMMA CallIsOK ==
    ASSUME IInv, NEW x \in Calls
    PROVE  CallOK(x)
  <1>1. PICK c \in Handlers : x \in Range(c)
    BY DEF Calls
  <1>2. c \in Seq(Range(c)) /\ \A i \in 1..Len(c) : CallOK(c[i])
    BY DEF IInv, Disciplined, HandlerOK
  <1> QED
    BY <1>1, <1>2 DEF Range

LEMMA CurrentIsOK ==
    ASSUME IInv, NEW p \in Procs, calls[p] # <<>>
    PROVE  /\ calls[p] \in Seq(Calls) /\ Current(p) \in Calls /\ CallOK(Current(p))
           /\ Tail(calls[p]) \in Seq(Calls) /\ Kept(attr, Tail(calls[p]))
           /\ Kept(attr, calls[p])
  <1>1. calls[p] \in Seq(Calls) /\ Kept(attr, calls[p])
    BY DEF IInv, CallsOK
  <1>2. Head(calls[p]) \in Calls /\ Tail(calls[p]) \in Seq(Calls)
    BY <1>1
  <1> QED
    BY <1>1, <1>2, CallIsOK, KeptTail DEF Current

\* While nobody has the lock nobody has read the device; while a report is under
\* way nobody else has.
LEMMA NoReading ==
    ASSUME IInv
    PROVE  /\ lock = None => \A q \in Procs : reading[q] = <<>>
           /\ \A p, q \in Procs : reading[p] # <<>> /\ q # p => reading[q] = <<>>
  BY DeviceServicesAssumption DEF IInv, Readings, Procs

\* The calls of one process change.
LEMMA CallsStep ==
    ASSUME IInv, Same, NEW p \in Procs, NEW c \in Seq(Calls), NEW b \in BOOLEAN,
           Kept(attr, c), b => Owed(attr, c) /\ NeverNone,
           calls' = [calls EXCEPT ![p] = c], owes' = [owes EXCEPT ![p] = b]
    PROVE  CallsOK' /\ owes' \in [Procs -> BOOLEAN]
  <1>1. calls \in [Procs -> Seq(Calls)] /\ owes \in [Procs -> BOOLEAN]
    BY DEF IInv, CallsOK, TypeOK
  <1>2. calls' \in [Procs -> Seq(Calls)] /\ owes' \in [Procs -> BOOLEAN]
    BY <1>1
  <1>3. \A q \in Procs : Kept(attr, calls'[q])
    BY <1>1 DEF IInv, CallsOK
  <1>4. ASSUME NEW q \in Procs, owes'[q] PROVE Owed(attr, calls'[q]) /\ NeverNone
    <2>1. CASE q = p
      BY <2>1, <1>1, <1>4
    <2>2. CASE q # p
      BY <2>2, <1>1, <1>4 DEF IInv, CallsOK
    <2> QED
      BY <2>1, <2>2
  <1>5. attr' = attr
    BY DEF Same, fixed
  <1> QED
    BY <1>2, <1>3, <1>4, <1>5, SameRules DEF CallsOK

\* The calls stay as they are.
LEMMA CallsSame ==
    ASSUME IInv, Same, UNCHANGED <<calls, owes>>
    PROVE  CallsOK' /\ owes' \in [Procs -> BOOLEAN]
  <1>1. attr' = attr
    BY DEF Same, fixed
  <1> QED
    BY <1>1, SameRules DEF IInv, CallsOK, TypeOK

\* A call returns, and what was owed is owed still.
LEMMA ReturnedStep ==
    ASSUME IInv, Same, NEW p \in Procs, calls[p] # <<>>, Returned(p), UNCHANGED owes,
           ~owes[p] \/ ~Confirms(attr, Current(p))
    PROVE  CallsOK' /\ owes' \in [Procs -> BOOLEAN]
  <1>1. owes \in [Procs -> BOOLEAN] /\ calls \in [Procs -> Seq(Calls)]
    BY DEF IInv, TypeOK, CallsOK
  <1>2. owes' = [owes EXCEPT ![p] = owes[p]] /\ owes[p] \in BOOLEAN
    BY <1>1
  <1>3. calls' = [calls EXCEPT ![p] = Tail(calls[p])]
    BY <1>1 DEF Returned
  <1>4. owes[p] => Owed(attr, Tail(calls[p])) /\ NeverNone
    BY CurrentIsOK, OwedTail DEF IInv, CallsOK, Current
  <1> QED
    BY <1>2, <1>3, <1>4, CurrentIsOK, CallsStep

\* A call returns, and nothing is owed, or its confirmation.
LEMMA PaidStep ==
    ASSUME IInv, Same, NEW p \in Procs, calls[p] # <<>>, Returned(p), NEW b \in BOOLEAN,
           owes' = [owes EXCEPT ![p] = b], b => Sets(attr, Current(p))
    PROVE  CallsOK' /\ owes' \in [Procs -> BOOLEAN]
  <1>1. calls \in [Procs -> Seq(Calls)]
    BY DEF IInv, CallsOK
  <1>2. calls' = [calls EXCEPT ![p] = Tail(calls[p])]
    BY <1>1 DEF Returned
  <1>3. b => Owed(attr, Tail(calls[p])) /\ NeverNone
    BY CurrentIsOK, SetOwes DEF Current, CallOK
  <1> QED
    BY <1>2, <1>3, CurrentIsOK, CallsStep

\* A call fails.
LEMMA FailsStep ==
    ASSUME IInv, Same, NEW p \in Procs, calls[p] # <<>>, Fails(p)
    PROVE  CallsOK' /\ owes' \in [Procs -> BOOLEAN]
  <1>1. calls \in [Procs -> Seq(Calls)]
    BY DEF IInv, CallsOK
  <1>2. CASE p = Task
    <2>1. calls' = [calls EXCEPT ![p] = Tail(calls[p])]
      BY <1>1, <1>2 DEF Fails
    <2> QED
      BY <2>1, CurrentIsOK, CallsStep DEF Fails
  <1>3. CASE p # Task
    <2>1. calls' = [calls EXCEPT ![p] = <<>>]
      BY <1>1, <1>3 DEF Fails
    <2>2. <<>> \in Seq(Calls)
      OBVIOUS
    <2> QED
      BY <2>1, <2>2, KeptEmpty, CallsStep DEF Fails
  <1> QED
    BY <1>2, <1>3

\* Nobody has read the device.
LEMMA ReadingsEmpty ==
    ASSUME IInv, Same, \A q \in Procs : reading'[q] = <<>>,
           reading' = reading \/ \E p \in Procs : reading' = [reading EXCEPT ![p] = <<>>]
    PROVE  Readings'
  <1>1. reading \in [Procs -> {<<>>} \cup {<<v>> : v \in Values[attr]}]
    BY DEF IInv, Readings
  <1>2. reading' \in [Procs -> {<<>>} \cup {<<v>> : v \in Values[attr]}]
    BY <1>1
  <1>3. (\A q \in Procs : reading[q] = <<>>)'
    OBVIOUS
  <1> QED
    BY <1>2, <1>3 DEF Readings, Same, fixed

\* The cache, the hub and the event stay as they are.
LEMMA CacheSame ==
    ASSUME IInv, Same, UNCHANGED <<cache, hub, published>>
    PROVE  CacheOK' /\ Announces'
  <1>1. attr' = attr /\ service' = service
    BY DEF Same, fixed
  <1>2. /\ Caching' <=> Caching
        /\ OneKey' <=> OneKey
        /\ Values' = Values /\ \A v : Shown(v)' = Shown(v)
    BY SameRules DEF Same
  <1>3. CacheOK /\ Announces
    BY DEF IInv
  <1>4. CacheOK'
    BY <1>1, <1>2, <1>3 DEF CacheOK
  <1> QED
    BY <1>1, <1>3, <1>4 DEF Announces

\* The types, given those of the variables that the other parts are not about.
LEMMA TypesStep ==
    ASSUME IInv, Same, CacheOK', Readings', owes' \in [Procs -> BOOLEAN],
           device' \in Values[attr], hub' \in {Shown(v) : v \in Values[attr] \ {None}} \cup {None},
           connected' \in BOOLEAN, drift' \in BOOLEAN, lock' \in Procs \cup {None},
           faults' \in 0..MaxFaults
    PROVE  TypeOK'
  <1>1. attr' = attr /\ service' = service /\ spec' = spec /\ Values' = Values
    BY DEF Same, fixed
  <1>2. service' \in Services /\ spec' \in SpecificationsOf(service)' /\ attr' \in DOMAIN Values'
    BY <1>1 DEF IInv, TypeOK, Same
  <1>3. \A k \in Cases : cache'[k] # None =>
            cache'[k] \in [value : Values'[attr'] \ {None}, aged : BOOLEAN]
    BY <1>1 DEF CacheOK
  <1>4. (\A p \in Procs : reading[p] # <<>> => Value(p) \in Values[attr])'
    BY <1>1 DEF Readings, Value
  <1>5. hub' \in {Shown(v)' : v \in Values[attr] \ {None}} \cup {None}
    BY DEF Same
  <1> QED
    BY <1>1, <1>2, <1>3, <1>4, <1>5 DEF TypeOK

\* The parts of the invariant that are about types, as facts.
LEMMA Types ==
    ASSUME IInv
    PROVE  /\ device \in Values[attr]
           /\ hub \in {Shown(v) : v \in Values[attr] \ {None}} \cup {None}
           /\ connected \in BOOLEAN /\ drift \in BOOLEAN
           /\ lock \in Procs \cup {None} /\ faults \in 0..MaxFaults
           /\ owes \in [Procs -> BOOLEAN]
           /\ calls \in [Procs -> Seq(Calls)]
           /\ reading \in [Procs -> {<<>>} \cup {<<v>> : v \in Values[attr]}]
  BY DEF IInv, TypeOK, CallsOK, Readings
-----------------------------------------------------------------------------
(***************************************************************************)
(* The steps of the handlers and of the task.                              *)
(***************************************************************************)

\* A process that had nothing to do is given the calls of a handler.
LEMMA StepGiven ==
    ASSUME IInv, NEW p \in Procs, NEW c \in Handlers, calls[p] = <<>>,
           calls' = [calls EXCEPT ![p] = c],
           UNCHANGED <<fixed, device, hub, cache, published, connected, lock, reading, owes,
                       drift, faults>>
    PROVE  IInv'
  <1>0. Same
    BY SameTables
  <1>1. owes[p] = FALSE /\ reading[p] = <<>>
    <2>1. ~owes[p]
      BY OwedNotRefused DEF IInv, CallsOK
    <2>2. owes[p] \in BOOLEAN
      BY Types
    <2>3. reading[p] = <<>>
      BY DEF IInv, Readings
    <2> QED
      BY <2>1, <2>2, <2>3
  <1>2. c \in Seq(Calls) /\ Kept(attr, c)
    <2>1. c \in Seq(Range(c)) /\ Kept(attr, c)
      BY DEF IInv, Disciplined, HandlerOK
    <2>2. Range(c) \subseteq Calls
      BY DEF Calls
    <2> QED
      BY <2>1, <2>2
  <1>3. owes' = [owes EXCEPT ![p] = FALSE]
    BY <1>1, Types
  <1>4. CallsOK' /\ owes' \in [Procs -> BOOLEAN]
    BY <1>0, <1>2, <1>3, CallsStep
  <1>5. Readings'
    <2>1. \A q \in Procs : reading[q] # <<>> => calls'[q] = calls[q]
      BY <1>1, Types
    <2> QED
      BY <2>1, <1>0 DEF IInv, Readings, Same, fixed, Current, Value
  <1>6. CacheOK' /\ Announces'
    BY <1>0, CacheSame
  <1>7. TypeOK'
    BY <1>0, <1>4, <1>5, <1>6, Types, TypesStep
  <1>8. Told'
    BY <1>0 DEF IInv, Told, Same
  <1>9. Disciplined'
    BY <1>0, SameRules DEF IInv
  <1> QED
    BY <1>4, <1>5, <1>6, <1>7, <1>8, <1>9 DEF IInv

LEMMA StepReceive == ASSUME IInv, NEW w \in Workers, Receive(w) PROVE IInv'
  <1>1. PICK c \in Commands : calls' = [calls EXCEPT ![w] = c]
    BY DEF Receive
  <1>2. c \in Handlers /\ w \in Procs
    BY DEF Handlers, Procs
  <1> QED
    BY <1>1, <1>2, StepGiven DEF Receive

LEMMA StepTick == ASSUME IInv, Tick PROVE IInv'
  <1>1. handleReporting \in Handlers /\ Task \in Procs
    BY DEF Handlers, Procs
  <1> QED
    BY <1>1, StepGiven DEF Tick

\* A call fails before a report has read the device.
LEMMA StepFaulty ==
    ASSUME IInv, NEW p \in Procs, Entered(p), Faulty(p), device' \in Values[attr],
           UNCHANGED <<fixed, hub, cache, published, connected, lock, reading>>
    PROVE  IInv'
  <1>0. Same
    BY SameTables
  <1>1. calls[p] # <<>> /\ lock = None
    BY DEF Entered
  <1>2. drift' = TRUE /\ faults' \in 0..MaxFaults
    BY Types, DeviceServicesAssumption DEF Faulty
  <1>3. CallsOK' /\ owes' \in [Procs -> BOOLEAN]
    BY <1>0, <1>1, FailsStep DEF Faulty
  <1>4. Readings'
    BY <1>0, <1>1, NoReading, ReadingsEmpty
  <1>5. CacheOK' /\ Announces'
    BY <1>0, CacheSame
  <1>6. TypeOK'
    BY <1>0, <1>2, <1>3, <1>4, <1>5, Types, TypesStep
  <1>7. Told'
    BY <1>2 DEF Told
  <1>8. Disciplined'
    BY <1>0, SameRules DEF IInv
  <1> QED
    BY <1>3, <1>4, <1>5, <1>6, <1>7, <1>8 DEF IInv

LEMMA StepRefuse == ASSUME IInv, NEW p \in Procs, Refuse(p) PROVE IInv'
  <1>0. Same
    BY SameTables DEF Refuse
  <1>1. calls[p] # <<>> /\ lock = None /\ Current(p).do = "refuse"
    BY DEF Refuse, Entered
  <1>2. ~owes[p]
    BY <1>1, CurrentIsOK, OwedNotRefused DEF IInv, CallsOK, Current
  <1>3. CallsOK' /\ owes' \in [Procs -> BOOLEAN]
    BY <1>0, <1>1, FailsStep DEF Refuse
  <1>4. Readings'
    BY <1>0, <1>1, NoReading, ReadingsEmpty DEF Refuse
  <1>5. CacheOK' /\ Announces'
    BY <1>0, CacheSame DEF Refuse
  <1>6. TypeOK'
    BY <1>0, <1>3, <1>4, <1>5, Types, TypesStep DEF Refuse
  <1>7. Told'
    <2>1. \A q \in Procs : owes[q] => owes'[q]
      BY <1>2, Types DEF Refuse, Fails
    <2> QED
      BY <2>1, <1>0 DEF IInv, Told, Same, Refuse
  <1>8. Disciplined'
    BY <1>0, SameRules DEF IInv
  <1> QED
    BY <1>3, <1>4, <1>5, <1>6, <1>7, <1>8 DEF IInv

LEMMA StepControl == ASSUME IInv, NEW p \in Procs, Control(p) PROVE IInv'
  <1>0. Same
    BY SameTables DEF Control
  <1>1. /\ calls[p] # <<>> /\ lock = None /\ Entered(p)
        /\ IsControl(Current(p)) /\ attr \in DOMAIN Current(p).effect
    BY DEF Control, Entered, Concerns, IsControl
  <1>2. PICK v \in Current(p).effect[attr] :
          \/ /\ device' = v
             /\ Returned(p)
             /\ owes' = [owes EXCEPT ![p] = Current(p).do = "set"]
             /\ drift' = (drift \/ Current(p).do = "change")
             /\ UNCHANGED faults
          \/ Faulty(p) /\ device' \in {v, device}
    BY DEF Control
  <1>3. v \in Values[attr] /\ device \in Values[attr]
    BY <1>1, <1>2, CurrentIsOK, Types DEF CallOK
  <1>4. CASE Faulty(p) /\ device' \in {v, device}
    BY <1>4, <1>1, <1>3, StepFaulty DEF Control
  <1>5. CASE /\ device' = v
             /\ Returned(p)
             /\ owes' = [owes EXCEPT ![p] = Current(p).do = "set"]
             /\ drift' = (drift \/ Current(p).do = "change")
             /\ UNCHANGED faults
    <2> DEFINE b == Current(p).do = "set"
    <2>1. b \in BOOLEAN /\ owes' = [owes EXCEPT ![p] = b] /\ (b => Sets(attr, Current(p)))
      BY <1>5, <1>1 DEF Sets
    <2> HIDE DEF b
    <2>2. CallsOK' /\ owes' \in [Procs -> BOOLEAN]
      BY <2>1, <1>5, <1>0, <1>1, PaidStep
    <2>3. Readings'
      BY <1>0, <1>1, NoReading, ReadingsEmpty DEF Control
    <2>4. CacheOK' /\ Announces'
      BY <1>0, CacheSame DEF Control
    <2>5. drift' \in BOOLEAN
      BY <1>5
    <2>6. TypeOK'
      BY <1>0, <1>3, <1>5, <2>2, <2>3, <2>4, <2>5, Types, TypesStep DEF Control
    <2>7. Told'
      <3>1. CASE Current(p).do = "set"
        <4>1. owes'[p]
          BY <3>1, <1>5, Types
        <4> QED
          BY <4>1 DEF Told
      <3>2. CASE Current(p).do = "change"
        <4>1. drift'
          BY <3>2, <1>5
        <4> QED
          BY <4>1 DEF Told
      <3> QED
        BY <3>1, <3>2, <1>1 DEF IsControl
    <2>8. Disciplined'
      BY <1>0, SameRules DEF IInv
    <2> QED
      BY <2>2, <2>3, <2>4, <2>6, <2>7, <2>8 DEF IInv
  <1> QED
    BY <1>2, <1>4, <1>5

LEMMA StepElsewhere == ASSUME IInv, NEW p \in Procs, Elsewhere(p) PROVE IInv'
  <1>0. Same
    BY SameTables DEF Elsewhere
  <1>1. calls[p] # <<>> /\ lock = None /\ Entered(p) /\ ~Concerns(Current(p))
    BY DEF Elsewhere, Entered
  <1>2. CASE Faulty(p)
    BY <1>1, <1>2, Types, StepFaulty DEF Elsewhere
  <1>3. CASE Returned(p) /\ UNCHANGED <<owes, drift, faults>>
    <2>1. ~Confirms(attr, Current(p))
      BY <1>1 DEF Confirms, Reports, Concerns
    <2>2. CallsOK' /\ owes' \in [Procs -> BOOLEAN]
      BY <2>1, <1>3, <1>0, <1>1, ReturnedStep
    <2>3. Readings'
      BY <1>0, <1>1, NoReading, ReadingsEmpty DEF Elsewhere
    <2>4. CacheOK' /\ Announces'
      BY <1>0, CacheSame DEF Elsewhere
    <2>5. TypeOK'
      BY <1>0, <1>3, <2>2, <2>3, <2>4, Types, TypesStep DEF Elsewhere
    <2>6. Told'
      BY <1>0, <1>3 DEF IInv, Told, Same, Elsewhere
    <2>7. Disciplined'
      BY <1>0, SameRules DEF IInv
    <2> QED
      BY <2>2, <2>3, <2>4, <2>5, <2>6, <2>7 DEF IInv
  <1> QED
    BY <1>2, <1>3 DEF Elsewhere

LEMMA StepRead == ASSUME IInv, NEW p \in Procs, Read(p) PROVE IInv'
  <1>0. Same
    BY SameTables DEF Read
  <1>1. /\ calls[p] # <<>> /\ lock = None /\ Entered(p)
        /\ Current(p).do = "report" /\ Concerns(Current(p))
    BY DEF Read, Entered
  <1>2. CASE Faulty(p) /\ UNCHANGED <<lock, reading>>
    BY <1>1, <1>2, Types, StepFaulty DEF Read
  <1>3. CASE /\ lock' = p
             /\ reading' = [reading EXCEPT ![p] = <<device>>]
             /\ UNCHANGED <<calls, owes, drift, faults>>
    <2>1. Reports(attr, Current(p))
      BY <1>1 DEF Reports, Concerns, IsControl
    <2>2. CallsOK' /\ owes' \in [Procs -> BOOLEAN]
      BY <1>0, <1>3, CallsSame
    <2>3. Readings'
      <3>1. reading' \in [Procs -> {<<>>} \cup {<<v>> : v \in Values[attr]}]
        BY <1>3, Types
      <3>2. reading'[p] = <<device>> /\ \A q \in Procs : q # p => reading'[q] = <<>>
        BY <1>1, <1>3, Types, NoReading
      <3>3. device' = device /\ lock' = p /\ calls' = calls /\ attr' = attr /\ Values' = Values
        BY <1>0, <1>3 DEF Read, Same, fixed
      <3>4. reading'[p][1] = device'
        BY <3>2, <3>3
      <3>5. (\A q \in Procs : reading[q] # <<>> =>
               /\ lock = q /\ calls[q] # <<>> /\ Reports(attr, Current(q))
               /\ ~drift => Value(q) = device)'
        BY <3>2, <3>3, <3>4, <2>1, <1>1 DEF Value, Current
      <3> QED
        BY <3>1, <3>3, <3>5 DEF Readings
    <2>4. CacheOK' /\ Announces'
      BY <1>0, CacheSame DEF Read
    <2>5. TypeOK'
      BY <1>0, <1>3, <2>2, <2>3, <2>4, Types, TypesStep DEF Read
    <2>6. Told'
      BY <1>0, <1>3 DEF IInv, Told, Same, Read
    <2>7. Disciplined'
      BY <1>0, SameRules DEF IInv
    <2> QED
      BY <2>2, <2>3, <2>4, <2>5, <2>6, <2>7 DEF IInv
  <1> QED
    BY <1>2, <1>3 DEF Read

\* A report ends and nobody has read the device.
LEMMA UnlockedStep ==
    ASSUME IInv, Same, NEW p \in Procs, reading[p] # <<>>, Unlocked(p)
    PROVE  Readings' /\ lock' \in Procs \cup {None}
  <1>1. \A q \in Procs : reading'[q] = <<>>
    BY NoReading, Types DEF Unlocked
  <1> QED
    BY <1>1, ReadingsEmpty DEF Unlocked

\* What is known of a report under way.
LEMMA Reading ==
    ASSUME IInv, NEW p \in Procs, reading[p] # <<>>
    PROVE  /\ calls[p] # <<>> /\ Reports(attr, Current(p)) /\ CallOK(Current(p))
           /\ Value(p) \in Values[attr] /\ (~drift => Value(p) = device)
  <1>1. /\ calls[p] # <<>> /\ Reports(attr, Current(p))
        /\ ~drift => Value(p) = device
    BY DEF IInv, Readings
  <1>2. Value(p) \in Values[attr]
    BY DEF IInv, TypeOK
  <1> QED
    BY <1>1, <1>2, CurrentIsOK

LEMMA StepReject == ASSUME IInv, NEW p \in Procs, Reject(p) PROVE IInv'
  <1>0. Same
    BY SameTables DEF Reject
  <1>1. reading[p] # <<>> /\ Unlocked(p)
    BY DEF Reject
  <1>2. /\ CallsOK' /\ owes' \in [Procs -> BOOLEAN]
        /\ drift' \in BOOLEAN
        /\ Told'
    <2>1. CASE Fails(p) /\ drift' = TRUE
      BY <2>1, <1>0, <1>1, Reading, FailsStep DEF Told
    <2>2. CASE Value(p) = None /\ Returned(p) /\ UNCHANGED <<owes, drift>>
      <3>1. ~owes[p]
        BY <2>2, <1>1, Reading DEF IInv, CallsOK, NeverNone
      <3>2. CallsOK' /\ owes' \in [Procs -> BOOLEAN]
        BY <3>1, <2>2, <1>0, <1>1, Reading, ReturnedStep
      <3>3. Told'
        BY <2>2, <1>0 DEF IInv, Told, Same, Reject
      <3> QED
        BY <3>2, <3>3, <2>2, Types
    <2> QED
      BY <2>1, <2>2 DEF Reject
  <1>3. Readings' /\ lock' \in Procs \cup {None}
    BY <1>0, <1>1, UnlockedStep
  <1>4. CacheOK' /\ Announces'
    BY <1>0, CacheSame DEF Reject
  <1>5. TypeOK'
    BY <1>0, <1>2, <1>3, <1>4, Types, TypesStep DEF Reject
  <1>6. Disciplined'
    BY <1>0, SameRules DEF IInv
  <1> QED
    BY <1>2, <1>3, <1>4, <1>5, <1>6 DEF IInv

\* A value that is not sent because it is cached is the one the hub has.
LEMMA StepSuppress == ASSUME IInv, NEW p \in Procs, Suppress(p) PROVE IInv'
  <1>0. Same
    BY SameTables DEF Suppress
  <1>1. reading[p] # <<>> /\ Unlocked(p) /\ ~Current(p).force
    BY DEF Suppress, Sendable
  <1>2. CallsOK' /\ owes' \in [Procs -> BOOLEAN]
    <2>1. ~Confirms(attr, Current(p))
      BY <1>1 DEF Confirms
    <2> QED
      BY <2>1, <1>0, <1>1, Reading, ReturnedStep DEF Suppress
  <1>3. Readings' /\ lock' \in Procs \cup {None}
    BY <1>0, <1>1, UnlockedStep
  <1>4. Told'
    BY <1>0 DEF IInv, Told, Same, Suppress
  <1>5. CacheOK'
    <2>1. attr' = attr /\ Values' = Values /\ cache' = cache /\ hub' = hub
      BY <1>0 DEF Same, fixed, Suppress
    <2> QED
      BY <2>1, <1>0, SameRules DEF IInv, CacheOK, Same
  <1>6. Announces'
    <2> SUFFICES ASSUME service = "out_lvl_switch" PROVE published' = hub
      BY <1>0 DEF Announces, Same, fixed, Suppress
    <2>1. OneKey /\ published = hub
      BY DEF OneKey, IInv, Announces
    <2>2. Current(p).key \in Cases /\ Current(p).event
      BY <1>1, Reading DEF CallOK
    <2>3. cache[Current(p).key] # None /\ cache[Current(p).key].value = Value(p)
      BY DEF Suppress, ReportRequired, HasChanged
    <2>4. hub = Shown(Value(p))
      BY <2>1, <2>2, <2>3 DEF IInv, CacheOK
    <2>5. Shown(Value(p)) = Value(p)
      BY DEF Shown
    <2>6. published' = Value(p)
      BY <2>2 DEF Suppress, Publish
    <2> QED
      BY <2>4, <2>5, <2>6
  <1>7. TypeOK'
    BY <1>0, <1>2, <1>3, <1>5, Types, TypesStep DEF Suppress
  <1>8. Disciplined'
    BY <1>0, SameRules DEF IInv
  <1> QED
    BY <1>2, <1>3, <1>4, <1>5, <1>6, <1>7, <1>8 DEF IInv

\* A value that is sent is what the hub has, and what the cache has if there is
\* one.
LEMMA StepSend == ASSUME IInv, NEW p \in Procs, Send(p) PROVE IInv'
  <1>0. Same
    BY SameTables DEF Send
  <1>1. reading[p] # <<>> /\ Unlocked(p) /\ Value(p) # None
    BY DEF Send, Sendable
  <1>2. /\ calls[p] # <<>> /\ Reports(attr, Current(p)) /\ CallOK(Current(p))
        /\ Value(p) \in Values[attr] /\ (~drift => Value(p) = device)
    BY <1>1, Reading
  <1>3. Readings' /\ lock' \in Procs \cup {None}
    BY <1>0, <1>1, UnlockedStep
  <1>4. Disciplined'
    BY <1>0, SameRules DEF IInv
  <1>5. CASE Faulty(p) /\ UNCHANGED <<hub, cache, published>>
    <2>1. CallsOK' /\ owes' \in [Procs -> BOOLEAN]
      BY <1>5, <1>0, <1>2, FailsStep DEF Faulty
    <2>2. drift' = TRUE /\ faults' \in 0..MaxFaults
      BY <1>5, Types, DeviceServicesAssumption DEF Faulty
    <2>3. CacheOK' /\ Announces'
      BY <1>5, <1>0, CacheSame
    <2>4. TypeOK'
      BY <1>0, <1>3, <1>5, <2>1, <2>2, <2>3, Types, TypesStep DEF Send
    <2>5. Told'
      BY <2>2 DEF Told
    <2> QED
      BY <1>3, <1>4, <2>1, <2>3, <2>4, <2>5 DEF IInv
  <1>6. CASE /\ hub' = Shown(Value(p))
             /\ cache' = IF Current(p).cached THEN Reported(Current(p).key, Value(p)) ELSE cache
             /\ Publish(p)
             /\ Returned(p)
             /\ owes' = [owes EXCEPT ![p] = FALSE]
             /\ drift' = (drift /\ Value(p) # device)
             /\ UNCHANGED faults
    <2>1. CallsOK' /\ owes' \in [Procs -> BOOLEAN]
      BY <1>6, <1>0, <1>2, PaidStep
    <2>2. drift' \in BOOLEAN
      BY <1>6
    <2>3. Told'
      <3>1. Value(p) = device \/ drift'
        BY <1>2, <1>6
      <3>2. device' = device
        BY DEF Send
      <3> QED
        BY <3>1, <3>2, <1>0, <1>6 DEF Told, Same
    <2>4. Announces'
      <3> SUFFICES ASSUME service = "out_lvl_switch" PROVE published' = hub'
        BY <1>0 DEF Announces, Same, fixed
      <3>1. published' = Value(p)
        BY <1>2, <1>6 DEF CallOK, Publish
      <3>2. Shown(Value(p)) = Value(p)
        BY DEF Shown
      <3> QED
        BY <3>1, <3>2, <1>6
    <2>5. CacheOK'
      <3> DEFINE entry == [value |-> Value(p), aged |-> FALSE]
      <3>1. cache \in [Cases -> [value : Values[attr] \ {None}, aged : BOOLEAN] \cup {None}]
        BY DEF IInv, CacheOK
      <3>2. entry \in [value : Values[attr] \ {None}, aged : BOOLEAN] /\ entry.value = Value(p)
        BY <1>1, <1>2
      <3> HIDE DEF entry
      <3>3. /\ Current(p).key \in Cases /\ (OneKey => Current(p).key = "listed")
            /\ Current(p).cached <=> Caching
        BY <1>2 DEF CallOK
      <3>4. /\ Caching => cache' = [cache EXCEPT ![Current(p).key] = entry]
            /\ ~Caching => cache' = cache
        BY <3>3, <1>6 DEF Reported, entry
      <3>5. cache' \in [Cases -> [value : Values[attr] \ {None}, aged : BOOLEAN] \cup {None}]
        BY <3>1, <3>2, <3>4
      <3>6. ASSUME OneKey, NEW k \in Cases, cache'[k] # None
            PROVE  k = "listed" /\ hub' = Shown(cache'[k].value)
        <4>1. Caching
          BY <3>4, <3>6 DEF IInv, CacheOK
        <4>2. cache[k] # None => k = "listed"
          BY <3>6 DEF IInv, CacheOK
        <4>3. k = "listed" /\ cache'[k] = entry
          BY <4>1, <4>2, <3>1, <3>3, <3>4, <3>6
        <4> QED
          BY <4>3, <3>2, <1>6
      <3>7. ~Caching => \A k \in Cases : cache'[k] = None
        BY <3>4 DEF IInv, CacheOK
      <3>8. attr' = attr /\ Values' = Values /\ \A v : Shown(v)' = Shown(v)
        BY <1>0 DEF Same, fixed
      <3> QED
        BY <3>5, <3>6, <3>7, <3>8, <1>0, SameRules DEF CacheOK
    <2>6. hub' \in {Shown(v) : v \in Values[attr] \ {None}} \cup {None}
      BY <1>1, <1>2, <1>6
    <2>7. TypeOK'
      BY <1>0, <1>3, <1>6, <2>1, <2>2, <2>5, <2>6, Types, TypesStep DEF Send
    <2> QED
      BY <1>3, <1>4, <2>1, <2>3, <2>4, <2>5, <2>7 DEF IInv
  <1> QED
    BY <1>5, <1>6 DEF Send

(***************************************************************************)
(* The steps of the device, the clock and the connection.                  *)
(***************************************************************************)

LEMMA StepDeviceChanges == ASSUME IInv, DeviceChanges PROVE IInv'
  <1>0. Same
    BY SameTables DEF DeviceChanges
  <1>1. drift' = TRUE /\ device' \in Values[attr]
    BY DEF DeviceChanges
  <1>2. CallsOK' /\ owes' \in [Procs -> BOOLEAN]
    BY <1>0, CallsSame DEF DeviceChanges
  <1>3. Readings'
    BY <1>0, <1>1 DEF IInv, Readings, Same, fixed, DeviceChanges, Current
  <1>4. CacheOK' /\ Announces'
    BY <1>0, CacheSame DEF DeviceChanges
  <1>5. TypeOK'
    BY <1>0, <1>1, <1>2, <1>3, <1>4, Types, TypesStep DEF DeviceChanges
  <1>6. Told'
    BY <1>1 DEF Told
  <1>7. Disciplined'
    BY <1>0, SameRules DEF IInv
  <1> QED
    BY <1>2, <1>3, <1>4, <1>5, <1>6, <1>7 DEF IInv

\* Nothing but the age of an entry of the cache and the connection changes.
LEMMA StepOther ==
    ASSUME IInv, CacheOK', connected' \in BOOLEAN,
           UNCHANGED <<fixed, device, hub, published, lock, calls, reading, owes, drift, faults>>
    PROVE  IInv'
  <1>0. Same
    BY SameTables
  <1>1. CallsOK' /\ owes' \in [Procs -> BOOLEAN]
    BY <1>0, CallsSame
  <1>2. Readings'
    BY <1>0 DEF IInv, Readings, Same, fixed, Current, Value
  <1>3. TypeOK'
    BY <1>0, <1>1, <1>2, Types, TypesStep
  <1>4. Told' /\ Announces'
    BY <1>0 DEF IInv, Told, Announces, Same, fixed
  <1>5. Disciplined'
    BY <1>0, SameRules DEF IInv
  <1> QED
    BY <1>1, <1>2, <1>3, <1>4, <1>5 DEF IInv

LEMMA StepExpire == ASSUME IInv, Expire PROVE IInv'
  <1>0. Same
    BY SameTables DEF Expire
  <1>1. PICK k \in Cases : cache[k] # None /\ cache' = [cache EXCEPT ![k].aged = TRUE]
    BY DEF Expire
  <1>2. cache \in [Cases -> [value : Values[attr] \ {None}, aged : BOOLEAN] \cup {None}]
    BY DEF IInv, CacheOK
  <1>3. /\ cache[k] \in [value : Values[attr] \ {None}, aged : BOOLEAN]
        /\ cache'[k] = [cache[k] EXCEPT !.aged = TRUE]
        /\ \A l \in Cases : l # k => cache'[l] = cache[l]
    BY <1>1, <1>2
  <1>4. cache'[k] \in [value : Values[attr] \ {None}, aged : BOOLEAN]
        /\ cache'[k].value = cache[k].value
    BY <1>3
  <1>5. cache' \in [Cases -> [value : Values[attr] \ {None}, aged : BOOLEAN] \cup {None}]
    BY <1>1, <1>2, <1>4
  <1>6. \A l \in Cases : cache'[l] # None => cache[l] # None /\ cache'[l].value = cache[l].value
    BY <1>1, <1>3, <1>4
  <1>7. attr' = attr /\ Values' = Values /\ hub' = hub /\ \A v : Shown(v)' = Shown(v)
    BY <1>0 DEF Same, fixed, Expire
  <1>8. CacheOK'
    BY <1>0, <1>1, <1>5, <1>6, <1>7, SameRules DEF IInv, CacheOK
  <1> QED
    BY <1>8, Types, StepOther DEF Expire

LEMMA StepConnectivity == ASSUME IInv, Connectivity PROVE IInv'
  <1>1. CacheOK'
    BY CacheSame, SameTables DEF Connectivity
  <1> QED
    BY <1>1, Types, StepOther DEF Connectivity

LEMMA NextIInv == IInv /\ [Next]_vars => IInv'
  <1> SUFFICES ASSUME IInv, [Next]_vars PROVE IInv'
    OBVIOUS
  <1>1. ASSUME NEW p \in Procs, Enter(p) PROVE IInv'
    BY <1>1, StepRefuse, StepControl, StepElsewhere, StepRead DEF Enter
  <1>2. ASSUME NEW p \in Procs, Finish(p) PROVE IInv'
    BY <1>2, StepReject, StepSuppress, StepSend DEF Finish
  <1>3. CASE UNCHANGED vars
    <2>1. UNCHANGED <<fixed, device, hub, published, lock, calls, reading, owes, drift, faults>>
          /\ UNCHANGED <<cache, connected>>
      BY <1>3 DEF vars, fixed
    <2>2. CacheOK'
      BY <2>1, CacheSame, SameTables
    <2> QED
      BY <2>1, <2>2, Types, StepOther
  <1> QED
    BY <1>1, <1>2, <1>3, StepReceive, StepTick, StepDeviceChanges, StepExpire,
       StepConnectivity DEF Next

\* Whatever the service, its specification and the attribute, the handlers of
\* its commands and its reporting task keep the rules.
LEMMA TablesDisciplined ==
    ASSUME service \in Services, spec \in SpecificationsOf(service), attr \in DOMAIN Values
    PROVE  Disciplined
  BY OnOffTable, LevelTable, ThermoTable, HeaterTable, PlayerTable, ChargerTable, MeterTable,
     SensorTable, ColorTable, FanTable, SceneTable, PresentTable, CellTable, ParamsTable,
     DiagTable, UpdateTable, SystemTable
  DEF Services

LEMMA InitIInv == Init => IInv
  <1> SUFFICES ASSUME Init PROVE IInv
    OBVIOUS
  <1>1. Disciplined
    BY TablesDisciplined DEF Init
  <1>2. TypeOK
    BY DeviceServicesAssumption DEF Init, TypeOK
  <1>3. CallsOK
    <2>1. \A p \in Procs : calls[p] = <<>> /\ ~owes[p]
      BY DEF Init
    <2>2. calls \in [Procs -> Seq(Calls)]
      <3>1. <<>> \in Seq(Calls)
        OBVIOUS
      <3> QED
        BY <3>1 DEF Init
    <2> QED
      BY <2>1, <2>2, KeptEmpty DEF CallsOK
  <1>4. Readings
    BY DEF Init, Readings
  <1>5. Told /\ Announces
    BY DEF Init, Told, Announces
  <1>6. CacheOK
    BY DEF Init, CacheOK
  <1> QED
    BY <1>1, <1>2, <1>3, <1>4, <1>5, <1>6 DEF IInv
-----------------------------------------------------------------------------
(***************************************************************************)
(* The theorems.                                                           *)
(***************************************************************************)

\* In every reachable state the variables have their types, the handlers under
\* way have kept the rules, and hub, cache and event are as IInv says (the
\* methods of a service, each under its lock, and cache/reporter.go).
THEOREM DeviceServicesInvariant == Spec => []IInv
  BY InitIInv, NextIInv, PTL DEF Spec

\* A handler that ended without an error has sent the attribute it set, read
\* after it was set (a Send...Report(true) after each Set... in the handlers).
THEOREM DeviceServicesCommandConfirmed == Spec => [](TypeOK /\ CommandConfirmed)
  <1>1. ASSUME IInv, NEW p \in Procs, calls[p] = <<>> PROVE ~owes[p]
    <2>1. owes[p] => Owed(attr, calls[p]) /\ calls[p] \in Seq(Calls)
      BY <1>1 DEF IInv, CallsOK
    <2> QED
      BY <1>1, <2>1, OwedNotRefused
  <1>2. IInv => TypeOK /\ CommandConfirmed
    BY <1>1 DEF IInv, CommandConfirmed
  <1> QED
    BY <1>2, DeviceServicesInvariant, PTL

\* When no handler is under way hub and device agree, whatever the order in which
\* workers and task took the lock, unless the device changed on its own or a
\* call failed.
THEOREM DeviceServicesAgreement == Spec => []Agreement
  <1>1. IInv /\ CommandConfirmed => Agreement
    BY DEF IInv, Told, CommandConfirmed, Agreement
  <1> QED
    BY <1>1, DeviceServicesInvariant, DeviceServicesCommandConfirmed, PTL

\* While no report is under way, a listener inside the process has seen the level
\* that the hub was told last (outlvlswitch, SendLevelReport).
THEOREM DeviceServicesEventFollowsHub == Spec => []EventFollowsHub
  <1>1. IInv => EventFollowsHub
    BY DEF IInv, Announces, EventFollowsHub
  <1> QED
    BY <1>1, DeviceServicesInvariant, PTL

\* What is cached is what the hub was told last, for every service but the two
\* that cache under the spelling of a command (cache/reporter.go, Reported).
THEOREM DeviceServicesCachePerKey == Spec => [](OneKey => CacheIsHub)
  <1>1. IInv => (OneKey => CacheIsHub)
    BY DEF IInv, CacheOK, CacheIsHub
  <1> QED
    BY <1>1, DeviceServicesInvariant, PTL

\* And for those two when commands spell names as the specification does.
THEOREM DeviceServicesCacheIsHub ==
    ASSUME Cases = {"listed"}
    PROVE  Spec => []CacheIsHub
  <1>1. OneKey
    BY DEF OneKey
  <1> QED
    BY <1>1, DeviceServicesCachePerKey, PTL

\* A step that sets an attribute that the service compares with its specification
\* sets it to what that allows, unless a mode of a water heater is spelled in
\* another case (the checks at the head of the Set... methods).
LEMMA RespectedStep ==
    ASSUME IInv, [Next]_vars, OneKey, NEW p \in Procs, ~owes[p], owes'[p],
           attr \in DOMAIN Limits
    PROVE  device' \in Limits[attr]
  <1>1. PICK q \in Procs : Control(q)
    <2>1. owes \in [Procs -> BOOLEAN]
      BY Types
    <2>2. \A q \in Procs : Fails(q) => ~owes'[p]
      BY <2>1 DEF Fails
    <2>3. \A q \in Procs : Refuse(q) \/ Elsewhere(q) \/ Read(q) \/ Finish(q) => ~owes'[p]
      BY <2>1, <2>2
      DEF Refuse, Elsewhere, Read, Finish, Reject, Suppress, Send, Faulty
    <2>4. ~(UNCHANGED owes)
      OBVIOUS
    <2>5. ~ \/ \E w \in Workers : Receive(w)
            \/ Tick \/ DeviceChanges \/ Expire \/ Connectivity \/ UNCHANGED vars
      BY <2>4 DEF Receive, Tick, DeviceChanges, Expire, Connectivity, vars
    <2> QED
      BY <2>3, <2>5 DEF Next, Enter
  <1>2. calls[q] # <<>> /\ UNCHANGED fixed
    BY <1>1 DEF Control, Entered
  <1>3. CallOK(Current(q)) /\ Same
    BY <1>2, CurrentIsOK, SameTables
  <1>4. owes \in [Procs -> BOOLEAN]
    BY Types
  <1>5. \E v \in Current(q).effect[attr] :
            device' = v /\ owes' = [owes EXCEPT ![q] = Current(q).do = "set"]
    <2>1. ~Fails(q)
      BY <1>4 DEF Fails
    <2> QED
      BY <1>1, <2>1 DEF Control, Faulty
  <1>6. Current(q).do = "set" /\ device' \in Current(q).effect[attr]
    BY <1>4, <1>5
  <1>7. Sets(attr, Current(q))
    BY <1>1, <1>6 DEF Sets, Control, Concerns
  <1> QED
    BY <1>3, <1>6, <1>7 DEF CallOK, Allows

\* In the services that compare what they set with their specification, a command
\* never sets the device to what it rules out, as long as names are spelled as it
\* lists them (the checks at the head of SetMode, SetSetpoint, SetPlaybackMode,
\* SetMaxCurrent, SetOfferedCurrent, SetPhaseMode, SetScene and SetParameter, and
\* the rounding of normalizeValue).
THEOREM DeviceServicesSpecificationRespected ==
    ASSUME Cases = {"listed"}
    PROVE  Spec => SpecificationRespected
  <1> DEFINE A == \A p \in Procs : ~owes[p] /\ owes'[p] /\ attr \in DOMAIN Limits =>
                     device' \in Limits[attr]
  <1>1. IInv /\ [Next]_vars => [A]_vars
    BY RespectedStep DEF OneKey
  <1> HIDE DEF A
  <1>2. []IInv /\ [][Next]_vars => [][A]_vars
    BY <1>1, PTL
  <1>3. Spec => [][A]_vars
    BY <1>2, DeviceServicesInvariant, PTL DEF Spec
  <1> QED
    BY <1>3 DEF SpecificationRespected, A
=============================================================================
