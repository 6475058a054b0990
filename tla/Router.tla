-------------------------------- MODULE Router --------------------------------
(***************************************************************************)
(* The message router (router/router.go) and the default message handler   *)
(* with its locker (router/handler.go): a buffered channel fed by the MQTT *)
(* transport, a fixed number of workers that take a message each and offer *)
(* it to every routing in turn, and Start and Stop.                        *)
(*                                                                         *)
(* A routing whose handler starts a factory reset (root/routing.go) asks   *)
(* for a Stop from a goroutine of its own.                                 *)
(***************************************************************************)
EXTENDS Integers, Sequences

CONSTANTS
    Workers,     \* the goroutines of routeMessages (cfg.concurrency)
    Buffer,      \* capacity of the message channel (cfg.buffer)
    Messages,    \* the messages that arrive, each once
    RouteCount,  \* number of routings
    Accepts,     \* the messages the voters of a routing accept
    Locker,      \* the locker of its handler, None without WithLock
    Silent,      \* the routings with WithSilentErrors
    Confirm,     \* the routings with WithSuccessConfirmation
    Resets,      \* the routings that start a factory reset
    Unreachable, \* messages whose response topic cannot be parsed
    Lockers,
    None

Routes == 1..RouteCount

ASSUME RouterAssumption ==
    /\ Buffer \in Nat \ {0}
    /\ RouteCount \in Nat \ {0}
    /\ Accepts \in [Routes -> SUBSET Messages]
    /\ Locker \in [Routes -> Lockers \cup {None}]
    /\ Silent \subseteq Routes /\ Confirm \subseteq Routes
    /\ Resets \subseteq Routes
    /\ None \notin Lockers
    /\ None \notin Messages

VARIABLES
    control,  \* the router: "stopped", "running", or "stopping" while Stop waits
    queue,    \* the message channel
    arrived,  \* the messages that have arrived
    worker,   \* what each worker is doing
    locked,   \* messageProcessorLocker.isLocked of each locker
    stops,    \* goroutines of factory resets that have yet to call Stop
    replies   \* the responses published: message, routing and kind

vars == <<control, queue, arrived, worker, locked, stops, replies>>

Exited == [stage |-> "exited", msg |-> None, route |-> 0, response |-> "none"]
Selecting == [stage |-> "select", msg |-> None, route |-> 0, response |-> "none"]

Outcomes == {"reply", "nothing", "error", "panic"}

\* The response a handler makes of what its processor did.
Response(r, outcome) ==
    CASE outcome = "reply" -> "reply"
      [] outcome = "nothing" /\ r \in Confirm -> "success"
      [] outcome = "error" /\ r \notin Silent -> "error"
      [] OTHER -> "none"

\* A worker that is done with a routing: the next one, or the next message.
Advance(w) ==
    IF worker[w].route < RouteCount
    THEN [worker[w] EXCEPT !.stage = "vote", !.route = @ + 1, !.response = "none"]
    ELSE Selecting

\* A worker whose handler returned this response.
Respond(w, response) ==
    IF response = "none" THEN Advance(w)
    ELSE [worker[w] EXCEPT !.stage = "respond", !.response = response]
------------------------------------------------------------------------------
(***************************************************************************)
(* Start, Stop and the transport.                                          *)
(***************************************************************************)

\* A Start that does not wait for a Stop under way.
StartUnlocked ==
    /\ control \in {"stopped", "stopping"}
    /\ control' = "running"
    /\ queue' = <<>>
    /\ worker' = [w \in Workers |-> IF worker[w] = Exited THEN Selecting ELSE worker[w]]
    /\ UNCHANGED <<arrived, locked, stops, replies>>

Start ==
    /\ control = "stopped"
    /\ control' = "running"
    /\ queue' = <<>>
    /\ worker' = [w \in Workers |-> Selecting]
    /\ UNCHANGED <<arrived, locked, stops, replies>>

\* Stop under the lock, up to the wait: the channel is unregistered and the
\* stop channel closed.  Called by the application, or for a factory reset.
Stop ==
    /\ control = "running"
    /\ control' = "stopping"
    /\ stops' \in {stops} \cup (IF stops > 0 THEN {stops - 1} ELSE {})
    /\ UNCHANGED <<queue, arrived, worker, locked, replies>>

\* The reset finds the router stopped already.
StopRefused ==
    /\ control = "stopped"
    /\ stops > 0
    /\ stops' = stops - 1
    /\ UNCHANGED <<control, queue, arrived, worker, locked, replies>>

\* A Stop that does not wait for the workers.
StopWithoutWait ==
    /\ control = "stopping"
    /\ control' = "stopped"
    /\ queue' = <<>>
    /\ UNCHANGED <<arrived, worker, locked, stops, replies>>

\* wg.Wait returns; the channel is garbage with whatever it holds.
Stopped ==
    /\ control = "stopping"
    /\ \A w \in Workers : worker[w].stage = "exited"
    /\ control' = "stopped"
    /\ queue' = <<>>
    /\ UNCHANGED <<arrived, worker, locked, stops, replies>>

\* The transport hands a message to the registered channel.  A message that
\* arrives when there is none, or when the channel stays full, is dropped.
Deliver(m) ==
    /\ m \notin arrived
    /\ arrived' = arrived \cup {m}
    /\ queue' = IF control = "running" /\ Len(queue) < Buffer
                THEN Append(queue, m) ELSE queue
    /\ UNCHANGED <<control, worker, locked, stops, replies>>
------------------------------------------------------------------------------
(***************************************************************************)
(* routeMessages and processMessage.                                       *)
(***************************************************************************)

\* Both cases of the select may be ready: either is taken.
Receive(w) ==
    /\ worker[w].stage = "select"
    /\ queue # <<>>
    /\ queue' = Tail(queue)
    /\ worker' = [worker EXCEPT ![w] = [stage |-> "vote", msg |-> Head(queue),
                                        route |-> 1, response |-> "none"]]
    /\ UNCHANGED <<control, arrived, locked, stops, replies>>

Exit(w) ==
    /\ worker[w].stage = "select"
    /\ control = "stopping"
    /\ worker' = [worker EXCEPT ![w] = Exited]
    /\ UNCHANGED <<control, queue, arrived, locked, stops, replies>>

Accepted(w) == worker[w].msg \in Accepts[worker[w].route]

Skip(w) ==
    /\ worker[w].stage = "vote"
    /\ ~Accepted(w)
    /\ worker' = [worker EXCEPT ![w] = Advance(w)]
    /\ UNCHANGED <<control, queue, arrived, locked, stops, replies>>

\* A handler that looks at the locker without taking it in the same step.
EnterUnlocked(w) ==
    /\ worker[w].stage = "vote"
    /\ Accepted(w)
    /\ Locker[worker[w].route] # None => ~locked[Locker[worker[w].route]]
    /\ worker' = [worker EXCEPT ![w].stage = "process"]
    /\ UNCHANGED <<control, queue, arrived, locked, stops, replies>>

\* Handle takes the locker, if it has one.
Enter(w) ==
    /\ worker[w].stage = "vote"
    /\ Accepted(w)
    /\ worker' = [worker EXCEPT ![w].stage = "process"]
    /\ LET l == Locker[worker[w].route] IN
       \/ l = None /\ UNCHANGED locked
       \/ l # None /\ ~locked[l] /\ locked' = [locked EXCEPT ![l] = TRUE]
    /\ UNCHANGED <<control, queue, arrived, stops, replies>>

\* "another operation is already running, skipping message"
Busy(w) ==
    /\ worker[w].stage = "vote"
    /\ Accepted(w)
    /\ LET l == Locker[worker[w].route] IN l # None /\ locked[l]
    /\ worker' = [worker EXCEPT ![w] =
                    Respond(w, Response(worker[w].route, "error"))]
    /\ UNCHANGED <<control, queue, arrived, locked, stops, replies>>

Released(w) ==
    LET l == Locker[worker[w].route] IN
    IF l = None THEN locked ELSE [locked EXCEPT ![l] = FALSE]

\* A handler that unlocks only when its processor returns.
ProcessWithoutDefer(w, outcome) ==
    LET r == worker[w].route IN
    /\ worker[w].stage = "process"
    /\ worker' = [worker EXCEPT ![w] = Respond(w, Response(r, outcome))]
    /\ locked' = IF outcome = "panic" THEN locked ELSE Released(w)
    /\ stops' = IF r \in Resets THEN stops + 1 ELSE stops
    /\ UNCHANGED <<control, queue, arrived, replies>>

\* A router that lets a panic end the worker.
ProcessUnrecovered(w, outcome) ==
    LET r == worker[w].route IN
    /\ worker[w].stage = "process"
    /\ worker' = [worker EXCEPT ![w] =
                    IF outcome = "panic" THEN Exited
                    ELSE Respond(w, Response(r, outcome))]
    /\ locked' = Released(w)
    /\ stops' = IF r \in Resets THEN stops + 1 ELSE stops
    /\ UNCHANGED <<control, queue, arrived, replies>>

\* The processor replies, returns nothing or an error, or panics; the deferred
\* Unlock runs in every case, before the response is published.
Process(w, outcome) ==
    LET r == worker[w].route IN
    /\ worker[w].stage = "process"
    /\ worker' = [worker EXCEPT ![w] = Respond(w, Response(r, outcome))]
    /\ locked' = Released(w)
    /\ stops' = IF r \in Resets THEN stops + 1 ELSE stops
    /\ UNCHANGED <<control, queue, arrived, replies>>

\* The response is published, unless its address cannot be parsed or the
\* transport fails, which is only logged.
Publish(w) ==
    LET reply == <<worker[w].msg, worker[w].route, worker[w].response>> IN
    /\ worker[w].stage = "respond"
    /\ worker' = [worker EXCEPT ![w] = Advance(w)]
    /\ replies' \in {replies} \cup
                    (IF worker[w].msg \in Unreachable THEN {}
                     ELSE {replies \cup {reply}})
    /\ UNCHANGED <<control, queue, arrived, locked, stops>>
------------------------------------------------------------------------------
Init ==
    /\ control = "stopped"
    /\ queue = <<>>
    /\ arrived = {}
    /\ worker = [w \in Workers |-> Exited]
    /\ locked = [l \in Lockers |-> FALSE]
    /\ stops = 0
    /\ replies = {}

Work(w) ==
    \/ Receive(w) \/ Exit(w) \/ Skip(w) \/ Enter(w) \/ Busy(w) \/ Publish(w)
    \/ \E outcome \in Outcomes : Process(w, outcome)

Next ==
    \/ Start \/ Stop \/ StopRefused \/ Stopped
    \/ \E m \in Messages : Deliver(m)
    \/ \E w \in Workers : Work(w)

Spec == Init /\ [][Next]_vars

\* Goroutines are scheduled and handlers return; a reset that has to stop the
\* router gets to, and so does a Stop whose workers are gone.
FairSpec ==
    /\ Spec
    /\ \A w \in Workers : WF_vars(Work(w))
    /\ WF_vars(Stopped)
    /\ WF_vars(Stop /\ stops' < stops)
    /\ WF_vars(StopRefused)
------------------------------------------------------------------------------
(***************************************************************************)
(* Properties.                                                             *)
(***************************************************************************)

TypeOK ==
    /\ control \in {"stopped", "running", "stopping"}
    /\ queue \in Seq(Messages)
    /\ arrived \subseteq Messages
    /\ worker \in [Workers ->
                     [stage : {"exited", "select", "vote", "process", "respond"},
                      msg : Messages \cup {None}, route : 0..RouteCount,
                      response : {"none", "reply", "success", "error"}]]
    /\ locked \in [Lockers -> BOOLEAN]
    /\ stops \in Nat
    /\ replies \subseteq (Messages \X Routes \X {"reply", "success", "error"})

\* Worker w is inside a handler that uses locker l.
Holds(w, l) == worker[w].stage = "process" /\ Locker[worker[w].route] = l

\* "WithLock makes sure handler will process only one message at a time"
\* (handler.go:235), also when routings share the locker (WithExternalLock).
OneAtATime ==
    \A l \in Lockers, v, w \in Workers : Holds(v, l) /\ Holds(w, l) => v = w

\* A locker is locked only while somebody is inside: no way out of a handler,
\* a panic included, leaves the route refusing every later message.
NoStuckLocker == \A l \in Lockers : locked[l] => \E w \in Workers : Holds(w, l)

\* Once Stop has returned no handler runs and nothing is published, and no
\* locker is left behind for the next Start (router.go:93).
QuietWhenStopped ==
    control = "stopped" =>
        /\ \A w \in Workers : worker[w] = Exited
        /\ \A l \in Lockers : ~locked[l]

\* A Stop returns once the handlers under way have, also the Stop of a factory
\* reset that one of them asked for (root/routing.go:32).
StopReturns == control = "stopping" ~> control = "stopped"

\* A message in the channel is taken by a worker, whatever happened to the
\* messages before it, unless the router is stopped (router.go:125 recovers
\* from a panic of a handler).
Taken == \A m \in Messages :
    (\E i \in DOMAIN queue : queue[i] = m) ~>
        (\/ \E w \in Workers : worker[w].msg = m
         \/ control = "stopped")
=============================================================================
