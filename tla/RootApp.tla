------------------------------- MODULE RootApp -------------------------------
(***************************************************************************)
(* The root application (root/app.go): Start brings its parts up one after *)
(* the other, Stop takes them down in the opposite order, Reset stops and  *)
(* then resets the data, and Wait blocks until one of them reports the     *)
(* end.  Start, Stop and Reset hold the application lock; Wait releases it *)
(* before it listens on the unbuffered error channel.                      *)
(* Names start with App where Lifecycle, the other module about the root,  *)
(* has the plain ones.                                                     *)
(***************************************************************************)
EXTENDS Integers

CONSTANTS
    Services,   \* number of application services
    Resetters,  \* number of resetters
    Faults,     \* the kinds of call that fail: "start", "stop", "reset"
    MaxFaults   \* bound on the failures of each kind

\* The parts in the order they are started.
Mqtt == 1
ServiceParts == 2 .. Services + 1
Router == Services + 2
Topics == Services + 3
Tasks == Services + 4
WatcherPart == Services + 5
Parts == 1..WatcherPart

ASSUME RootAssumption ==
    /\ Services \in Nat /\ Resetters \in Nat /\ MaxFaults \in Nat
    /\ Faults \subseteq {"start", "stop", "reset"}

\* Parts that refuse to be started twice or stopped twice.
Strict == {Router, Tasks}

VARIABLES
    up,       \* the parts that are running
    running,  \* app.running
    op,       \* the operation that holds the lock: its kind, and the part or
              \* resetter it is at
    result,   \* what the last operation was and what it returned
    waiting,   \* a caller of Wait
    clean,    \* the resetters that have run
    faults    \* number of failed calls of each kind so far

appVars == <<up, running, op, result, waiting, clean, faults>>

Idle == [kind |-> "none", at |-> 0]

Kinds == {"start", "stop", "reset"}

Fault(k) ==
    /\ k \in Faults
    /\ faults[k] < MaxFaults
    /\ faults' = [faults EXCEPT ![k] = @ + 1]

Return(kind, outcome) == op' = Idle /\ result' = <<kind, outcome>>

\* passErr: the send succeeds only if somebody is receiving.
PassErr == waiting' = IF waiting = "receiving" THEN "returned" ELSE waiting
------------------------------------------------------------------------------
(***************************************************************************)
(* Start.                                                                  *)
(***************************************************************************)

Start ==
    /\ op = Idle
    /\ IF running
       THEN Return("start", "ok")
       ELSE op' = [kind |-> "start", at |-> Mqtt] /\ UNCHANGED result
    /\ UNCHANGED <<up, running, waiting, clean, faults>>

\* A Start that calls the application running from its first part on.
StartPartEager ==
    /\ op.kind = "start"
    /\ op.at \notin up \cap Strict
    /\ up' = up \cup {op.at}
    /\ running' = TRUE
    /\ IF op.at = WatcherPart
       THEN Return("start", "ok")
       ELSE op' = [op EXCEPT !.at = @ + 1] /\ UNCHANGED result
    /\ UNCHANGED <<waiting, clean, faults>>

StartPart ==
    /\ op.kind = "start"
    /\ op.at \notin up \cap Strict
    /\ up' = up \cup {op.at}
    /\ IF op.at = WatcherPart
       THEN running' = TRUE /\ Return("start", "ok")
       ELSE op' = [op EXCEPT !.at = @ + 1] /\ UNCHANGED <<running, result>>
    /\ UNCHANGED <<waiting, clean, faults>>

\* A part refuses or fails: what was started before it keeps running.
StartPartFails ==
    /\ op.kind = "start"
    /\ \/ op.at \in up \cap Strict /\ UNCHANGED faults
       \/ op.at # WatcherPart /\ Fault("start")
    /\ Return("start", "error")
    /\ UNCHANGED <<up, running, waiting, clean>>
------------------------------------------------------------------------------
(***************************************************************************)
(* Stop and Reset.                                                         *)
(***************************************************************************)

\* As if a shutdown that failed told nobody.
StopReturnsQuietly(outcome) ==
    IF op.kind = "stop"
    THEN Return("stop", outcome) /\ IF outcome = "ok" THEN PassErr ELSE UNCHANGED waiting
    ELSE op' = [kind |-> "clean", at |-> 1] /\ UNCHANGED <<result, waiting>>

\* doStop is over; a reset goes on to the resetters whatever came of it.
StopReturns(outcome) ==
    IF op.kind = "stop"
    THEN Return("stop", outcome) /\ PassErr
    ELSE op' = [kind |-> "clean", at |-> 1] /\ UNCHANGED <<result, waiting>>

Begin(kind) ==
    /\ op = Idle
    /\ IF running
       THEN op' = [kind |-> kind, at |-> WatcherPart] /\ UNCHANGED <<result, waiting>>
       ELSE IF kind = "stop"
            THEN Return("stop", "ok") /\ PassErr
            ELSE op' = [kind |-> "clean", at |-> 1] /\ UNCHANGED <<result, waiting>>
    /\ UNCHANGED <<up, running, clean, faults>>

\* A Stop that tells the waiter before it stops anything.
StopAnnounced ==
    /\ op = Idle
    /\ IF running
       THEN op' = [kind |-> "stop", at |-> WatcherPart] /\ UNCHANGED result
       ELSE Return("stop", "ok")
    /\ PassErr
    /\ UNCHANGED <<up, running, clean, faults>>

Stop == Begin("stop")

Reset == Begin("reset")

Stopping == op.kind \in {"stop", "reset"}

\* A shutdown that takes the parts down in the order they were started.
StopPartForward ==
    LET first == CHOOSE i \in Parts : i \in up /\ \A j \in up : i <= j IN
    /\ Stopping
    /\ op.at \in up \/ op.at \notin Strict
    /\ up' = IF up = {} THEN up ELSE up \ {first}
    /\ IF op.at = Mqtt
       THEN running' = FALSE /\ StopReturns("ok")
       ELSE op' = [op EXCEPT !.at = @ - 1] /\ UNCHANGED <<running, result, waiting>>
    /\ UNCHANGED <<clean, faults>>

StopPart ==
    /\ Stopping
    /\ op.at \in up \/ op.at \notin Strict
    /\ up' = up \ {op.at}
    /\ IF op.at = Mqtt
       THEN running' = FALSE /\ StopReturns("ok")
       ELSE op' = [op EXCEPT !.at = @ - 1] /\ UNCHANGED <<running, result, waiting>>
    /\ UNCHANGED <<clean, faults>>

\* A part refuses or fails: it and what is below it keep running.
StopPartFails ==
    /\ Stopping
    /\ \/ op.at \in Strict \ up /\ UNCHANGED faults
       \/ op.at \notin {WatcherPart, Mqtt} /\ Fault("stop")
    /\ StopReturns("error")
    /\ UNCHANGED <<up, running, clean>>

\* doReset runs the resetters in order and stops at the first that fails.
Clean ==
    /\ op.kind = "clean"
    /\ IF op.at > Resetters
       THEN Return("reset", "ok") /\ PassErr /\ UNCHANGED clean
       ELSE /\ clean' = clean \cup {op.at}
            /\ op' = [op EXCEPT !.at = @ + 1]
            /\ UNCHANGED <<result, waiting>>
    /\ UNCHANGED <<up, running, faults>>

CleanFails ==
    /\ op.kind = "clean"
    /\ op.at <= Resetters
    /\ Fault("reset")
    /\ Return("reset", "error")
    /\ PassErr
    /\ UNCHANGED <<up, running, clean>>
------------------------------------------------------------------------------
(***************************************************************************)
(* Wait.                                                                   *)
(***************************************************************************)

Wait ==
    /\ waiting = "idle"
    /\ op = Idle
    /\ waiting' = IF running THEN "unlocked" ELSE "returned"
    /\ UNCHANGED <<up, running, op, result, clean, faults>>

WaitErr ==
    /\ waiting = "unlocked"
    /\ waiting' = "receiving"
    /\ UNCHANGED <<up, running, op, result, clean, faults>>
------------------------------------------------------------------------------
AppInit ==
    /\ up = {}
    /\ running = FALSE
    /\ op = Idle
    /\ result = <<"none", "ok">>
    /\ waiting = "idle"
    /\ clean = {}
    /\ faults = [k \in Kinds |-> 0]

Step == StartPart \/ StartPartFails \/ StopPart \/ StopPartFails \/ Clean
        \/ CleanFails

AppNext == Start \/ Stop \/ Reset \/ Step \/ Wait \/ WaitErr

AppSpec == AppInit /\ [][AppNext]_appVars

\* The goroutines that hold the lock and that wait keep running.
FairAppSpec == AppSpec /\ WF_appVars(Step) /\ WF_appVars(WaitErr)
------------------------------------------------------------------------------
(***************************************************************************)
(* Properties.                                                             *)
(***************************************************************************)

AppTypeOK ==
    /\ up \subseteq Parts
    /\ running \in BOOLEAN
    /\ op \in [kind : {"none", "start", "stop", "reset", "clean"}, at : 0 .. WatcherPart + Resetters]
    /\ result \in {"none", "start", "stop", "reset"} \X {"ok", "error"}
    /\ waiting \in {"idle", "unlocked", "receiving", "returned"}
    /\ clean \subseteq 1..Resetters
    /\ faults \in [Kinds -> 0..MaxFaults]

\* Nothing runs above a part that is down: no handler without its services,
\* no task without its router, whatever start or stop failed half way
\* (doStart and doStop, app.go:153, 266).
Layered == \A i \in up : \A j \in 1..i : j \in up

\* What running claims between operations is true as long as no part fails to
\* stop: Start has brought up everything that Stop is going to take down.
RunningIsUp == faults["stop"] = 0 /\ running /\ op = Idle => up = Parts

\* A Wait that was woken by a Stop or a Reset finds the application down, if
\* no part failed to start or to stop so far (app.go:103).
WokenWhenDown ==
    [][waiting = "receiving" /\ waiting' = "returned"
         /\ faults["start"] = 0 /\ faults'["stop"] = 0 => up' = {}]_appVars

\* A Wait that has reached its receive while a Stop or a Reset is under way
\* returns, whatever part fails in it (passErr, app.go:324).
WaiterWoken ==
    waiting = "receiving" /\ op.kind \in {"stop", "reset", "clean"} ~> waiting = "returned"
=============================================================================
