---------------------------- MODULE ServiceCalls ----------------------------
(***************************************************************************)
(* The vocabulary of the device services (adapter/service/...).  Every     *)
(* method of a service takes the lock of the service, checks its arguments *)
(* against the specification of the service and then calls the controller  *)
(* of the device, so what a method does is described by one record, a      *)
(* call; a command handler and the reporting task are sequences of calls.  *)
(* What a call does to the device, to the reporting cache and to the hub   *)
(* is the same for all services and is in DeviceServices.                  *)
(*                                                                         *)
(* What a service reports is an attribute, named as in the reporting cache *)
(* by the type of its event and a sub key (a mode, a unit, ...; empty where *)
(* the event needs none).  A name a message carries may be spelled in      *)
(* another case than the one the specification lists, so it is a pair.     *)
(***************************************************************************)
EXTENDS Integers, Sequences, Functions

CONSTANTS
    Cases,    \* how a name may be spelled: "listed" as in the specification,
              \* or "other", in another case
    None

ASSUME CasesAssumption == "listed" \in Cases /\ Cases \subseteq {"listed", "other"}

\* The names that a command may set an attribute to.
Names ==
    {"off", "heat", "dry", "normal", "boost", "play", "pause", "charging", "finished",
     "NL1L2L3", "NL1", "warm", "cold", "low", "high", "auto", "day", "away"}

\* None is none of the values that a command may set an attribute to: a switch, a
\* number, a name, a scene and its time or a color component and its intensity, the
\* modes of a player, an array.
ASSUME NoneAssumption ==
    /\ None \notin BOOLEAN \cup Int \cup Names \cup (Names \X Int)
    /\ \A S \in (SUBSET {"repeat", "crossfade"}) \cup (SUBSET {1, 3}) : S # None

\* The spellings of the names in N, and the name as it is listed.
Spelled(N) == N \X Cases
Listed(n) == <<n, "listed">>

\* The empty string, and the key of an event that needs none.
Empty == ""
NoKey == Listed(Empty)

Attribute(event, n) == <<event, n>>

OnChange == "ReportOnChangeOnly"
AtLeastEvery == "ReportAtLeastEvery"

\* The checks of a method failed: it returns an error without a call.
Refused == [do |-> "refuse"]

Given(cond, call) == IF cond THEN call ELSE Refused

\* The attribute takes one of the values.
Takes(attribute, values) == [a \in {attribute} |-> values]

\* The device is told to change.  effect maps each attribute that the command
\* is about to the values the device may take.
Set(effect) == [do |-> "set", effect |-> effect]

\* The device is told to change by a command that no report is to confirm.
Change(effect) == [do |-> "change", effect |-> effect]

\* The device is read; the value is sent to the hub when it is forced or when
\* the strategy requires it, and cached under the name as it is spelled.
Report(event, key, strategy, force) ==
    [do |-> "report", attrs |-> {Attribute(event, key[1])}, key |-> key[2],
     strategy |-> strategy, force |-> force, accepts |-> None, cached |-> TRUE,
     event |-> FALSE]

\* One message reports the values of several attributes, and is sent when one
\* of them requires it.
ReportAll(event, N, strategy, force) ==
    [do |-> "report", attrs |-> {Attribute(event, n) : n \in N}, key |-> "listed",
     strategy |-> strategy, force |-> force, accepts |-> None, cached |-> TRUE,
     event |-> FALSE]

\* A report that also publishes an event inside the process, one that fails
\* unless the value is one of some values, and one that is not cached.
Announced(report) == [report EXCEPT !.event = TRUE]
Checked(report, values) == [report EXCEPT !.accepts = values]
Uncached(report) == [report EXCEPT !.cached = FALSE]

\* A call made only under a condition: the sequence with it, or without.
When(cond, call) == IF cond THEN <<call>> ELSE <<>>

\* A call for each of the names in a list.
ForEach(names, Call(_)) == [i \in DOMAIN names |-> Call(Listed(names[i]))]
=============================================================================
