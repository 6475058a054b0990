------------------------------ MODULE EventBus ------------------------------
(***************************************************************************)
(* The events inside the process: the manager (event/manager.go), whose    *)
(* subscriptions are bounded channels that drop what they cannot hold, and *)
(* the listener (event/listener.go), which runs one goroutine for each     *)
(* handler.  The operations are given as conditions on the variables of    *)
(* the bus; the module that extends this one adds what a processor does.   *)
(*                                                                         *)
(* A handler filters on the type of its events, so that an event is        *)
(* published for one handler.  WaitFor has no caller in the code and is    *)
(* left out.                                                               *)
(***************************************************************************)
EXTENDS Integers, Sequences

CONSTANTS
    Handlers,    \* of the listener, each with a subscription of its own
    Buffer,      \* capacity of a subscription
    None         \* no channel

ASSUME EventBusAssumption == Buffer \in Nat \ {0}

VARIABLES
    channel,     \* per handler: the events in its subscription; None if there is
                 \* no subscription
    running,     \* per handler: its goroutine runs
    closeCh      \* of the listener: "nil", "open" or "closed"

bus == <<channel, running, closeCh>>

\* Events[h] is what is published for handler h.
BusTypeOK(Events) ==
    /\ channel = [h \in Handlers |-> channel[h]]
    /\ \A h \in Handlers :
         channel[h] # None => channel[h] \in Seq(Events[h]) /\ Len(channel[h]) <= Buffer
    /\ running \in [Handlers -> BOOLEAN]
    /\ closeCh \in {"nil", "open", "closed"}

BusInit ==
    /\ channel = [h \in Handlers |-> None]
    /\ running = [h \in Handlers |-> FALSE]
    /\ closeCh = "nil"

\* Publish: the channels after event e for handler h.  A full subscription,
\* like none, loses it.
Published(h, e) ==
    IF channel[h] # None /\ Len(channel[h]) < Buffer
    THEN [channel EXCEPT ![h] = Append(@, e)]
    ELSE channel

\* Subscribe: the channel that exists, or a new one.
Subscribed(h) == IF channel[h] = None THEN <<>> ELSE channel[h]

Start ==
    /\ closeCh = "nil"
    /\ closeCh' = "open"
    /\ channel' = [h \in Handlers |-> Subscribed(h)]
    /\ running' = [h \in Handlers |-> TRUE]

\* startHandler and doProcess: a goroutine takes the next event and processes it,
\* a panic is recovered, or it sees that the listener is closed; if both are
\* possible, either may happen.  An event that is being processed is like one in
\* a buffer with one more place, since a processor takes effect in one step.
Process(h) ==
    /\ running[h]
    /\ channel[h] \notin {None, <<>>}
    /\ channel' = [channel EXCEPT ![h] = Tail(@)]
    /\ UNCHANGED <<running, closeCh>>

Leave(h) ==
    /\ running[h] /\ closeCh = "closed"
    /\ running' = [running EXCEPT ![h] = FALSE]
    /\ UNCHANGED <<channel, closeCh>>

\* Stop closes the channel of the listener and waits ...
Stop ==
    /\ closeCh = "open"
    /\ closeCh' = "closed"
    /\ UNCHANGED <<channel, running>>

\* As if Stop did not forget the closed channel.
StoppedStillClosed ==
    /\ closeCh = "closed"
    /\ \A h \in Handlers : ~running[h]
    /\ channel' = [h \in Handlers |-> None]
    /\ UNCHANGED <<running, closeCh>>

\* ... for the goroutines, and then unsubscribes them.
Stopped ==
    /\ closeCh = "closed"
    /\ \A h \in Handlers : ~running[h]
    /\ closeCh' = "nil"
    /\ channel' = [h \in Handlers |-> None]
    /\ UNCHANGED running

\* The process ends, and with it all of the above.
Exit ==
    /\ channel' = [h \in Handlers |-> None]
    /\ running' = [h \in Handlers |-> FALSE]
    /\ closeCh' = "nil"
=============================================================================
