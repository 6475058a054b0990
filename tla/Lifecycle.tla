------------------------------ MODULE Lifecycle ------------------------------
(***************************************************************************)
(* The application lifecycle (lifecycle/lifecycle.go): the states of the   *)
(* application and the bus that tells subscribers of their changes, with   *)
(* the two kinds of subscriber the library has: the callers of WaitFor and *)
(* the watcher that reports a lost authentication (root/app.go).           *)
(*                                                                         *)
(* A setter holds the state lock from the assignment to the end of the     *)
(* emission, and the bus lock for the emission only: a subscription can    *)
(* come between the two, a read of the state cannot.  A channel is named   *)
(* after the user whose Subscribe made it.                                 *)
(***************************************************************************)
EXTENDS Integers, Sequences

CONSTANTS
    Types,       \* the kinds of state; "auth" is one of them
    States,      \* their values; "lost" is one of them
    Initial,     \* the states at the start
    Setters,     \* goroutines that call a SetXState
    Waiters,     \* goroutines that call WaitFor, once each
    Want,        \* the type and the state a waiter waits for
    Watcher,     \* the goroutine of startAuthLossWatcher
    SubID,       \* the subscription ID of each user
    Buffer,      \* capacity of a channel
    MaxChanges,  \* bound on the number of changes
    None

Users == Waiters \cup {Watcher}
SubIDs == {SubID[u] : u \in Users}
Lost == <<"auth", "lost">>

ASSUME LifecycleAssumption ==
    /\ "auth" \in Types /\ "lost" \in States
    /\ Initial \in [Types -> States]
    /\ Want \in [Waiters -> Types \X States]
    /\ Watcher \notin Waiters
    /\ None \notin Users \cup (Types \X States)
    /\ DOMAIN SubID = Users
    /\ Buffer \in Nat /\ MaxChanges \in Nat

VARIABLES
    state,     \* the current states
    pending,   \* the event a setter has yet to emit
    channel,   \* the channels: status, buffered events, the states its
               \* receivers have seen, and whether an event was dropped
    bus,       \* the channel of each subscription ID
    waiter,    \* the callers of WaitFor, and the channel each ranges over
    watcher,   \* the watcher: its stage, and whether it is asked to stop
    told,      \* history: a loss was reported since the last one occurred
    reached,   \* history: the wanted state held at some time since the call
    changes    \* number of changes so far

vars == <<state, pending, channel, bus, waiter, watcher, told, reached, changes>>

NoChannel == [status |-> "none", queue |-> <<>>, seen |-> Initial, dropped |-> FALSE]

\* The state lock is free.
LockFree == \A g \in Setters : pending[g] = None
------------------------------------------------------------------------------
(***************************************************************************)
(* SetConfigState, SetAuthState, SetConnState and SetAppHealth.            *)
(***************************************************************************)

\* The new state is in place.
Changed(t, s) ==
    /\ s # state[t]
    /\ changes < MaxChanges
    /\ state' = [state EXCEPT ![t] = s]
    /\ told' = (told /\ <<t, s>> # Lost)
    /\ reached' = [w \in Waiters |-> reached[w] \/ (waiter[w].stage # "idle"
                                                   /\ Want[w] = <<t, s>>)]
    /\ changes' = changes + 1

\* A setter that has released the lock when it emits its event.
SetUnlocked(g, t, s) ==
    /\ pending[g] = None
    /\ Changed(t, s)
    /\ pending' = [pending EXCEPT ![g] = <<t, s>>]
    /\ UNCHANGED <<channel, bus, waiter, watcher>>

Set(g, t, s) ==
    /\ LockFree
    /\ Changed(t, s)
    /\ pending' = [pending EXCEPT ![g] = <<t, s>>]
    /\ UNCHANGED <<channel, bus, waiter, watcher>>

\* What the emission of an event makes of a channel: a full one drops it.
Sent(c, event) ==
    IF Len(c.queue) < Buffer THEN [c EXCEPT !.queue = Append(@, event)]
                             ELSE [c EXCEPT !.dropped = TRUE]

Emit(g) ==
    /\ pending[g] # None
    /\ channel' = [u \in Users |->
                     IF \E id \in SubIDs : bus[id] = u
                     THEN Sent(channel[u], pending[g]) ELSE channel[u]]
    /\ pending' = [pending EXCEPT ![g] = None]
    /\ UNCHANGED <<state, bus, waiter, watcher, told, reached, changes>>
------------------------------------------------------------------------------
(***************************************************************************)
(* The bus.                                                                *)
(***************************************************************************)

\* Subscribe: an ID that is known keeps its channel, whoever asks.
Subscribe(u) ==
    IF bus[SubID[u]] # None THEN UNCHANGED <<bus, channel>>
    ELSE /\ bus' = [bus EXCEPT ![SubID[u]] = u]
         /\ channel' = [channel EXCEPT ![u] =
                          [status |-> "open", queue |-> <<>>, seen |-> state,
                           dropped |-> FALSE]]

Subscribed(u) == IF bus[SubID[u]] # None THEN bus[SubID[u]] ELSE u

\* An Unsubscribe that closes the channel and leaves it on the bus.
UnsubscribeLeaving(u) ==
    LET c == bus[SubID[u]] IN
    /\ channel' = IF c = None THEN channel
                  ELSE [channel EXCEPT ![c].status = "closed"]
    /\ UNCHANGED bus

Unsubscribe(u) ==
    LET c == bus[SubID[u]] IN
    /\ channel' = IF c = None THEN channel
                  ELSE [channel EXCEPT ![c].status = "closed"]
    /\ bus' = [bus EXCEPT ![SubID[u]] = None]

\* A receive from channel c.
Receive(c) ==
    LET event == Head(channel[c].queue) IN
    channel' = [channel EXCEPT ![c].queue = Tail(@), ![c].seen[event[1]] = event[2]]
------------------------------------------------------------------------------
(***************************************************************************)
(* WaitFor.                                                                *)
(***************************************************************************)

At(w, stage) == waiter[w].stage = stage

Holds(want) == state[want[1]] = want[2]

\* The state is read before the subscription.
WaitCheck(w) ==
    /\ At(w, "idle")
    /\ LockFree
    /\ waiter' = [waiter EXCEPT ![w].stage = IF Holds(Want[w]) THEN "returned"
                                                              ELSE "subscribe"]
    /\ reached' = [reached EXCEPT ![w] = Holds(Want[w])]
    /\ UNCHANGED <<state, pending, channel, bus, watcher, told, changes>>

WaitSubscribe(w) ==
    /\ At(w, "subscribe")
    /\ Subscribe(w)
    /\ waiter' = [waiter EXCEPT ![w] = [stage |-> "receive", on |-> Subscribed(w)]]
    /\ UNCHANGED <<state, pending, watcher, told, reached, changes>>

\* A waiter that is content with any event of the type it waits for.
WaitReceiveAny(w) ==
    LET c == waiter[w].on IN
    /\ At(w, "receive")
    /\ channel[c].queue # <<>>
    /\ Receive(c)
    /\ waiter' = [waiter EXCEPT ![w].stage =
                    IF Head(channel[c].queue)[1] = Want[w][1] THEN "leave" ELSE @]
    /\ UNCHANGED <<state, pending, bus, watcher, told, reached, changes>>

WaitReceive(w) ==
    LET c == waiter[w].on IN
    /\ At(w, "receive")
    /\ channel[c].queue # <<>>
    /\ Receive(c)
    /\ waiter' = [waiter EXCEPT ![w].stage =
                    IF Head(channel[c].queue) = Want[w] THEN "leave" ELSE @]
    /\ UNCHANGED <<state, pending, bus, watcher, told, reached, changes>>

WaitLeave(w) ==
    /\ At(w, "leave")
    /\ Unsubscribe(w)
    /\ waiter' = [waiter EXCEPT ![w].stage = "returned"]
    /\ UNCHANGED <<state, pending, watcher, told, reached, changes>>

\* The range loop ends when somebody else has closed the channel.
WaitClosed(w) ==
    LET c == waiter[w].on IN
    /\ At(w, "receive")
    /\ channel[c].queue = <<>>
    /\ channel[c].status = "closed"
    /\ waiter' = [waiter EXCEPT ![w].stage = "returned"]
    /\ UNCHANGED <<state, pending, channel, bus, watcher, told, reached, changes>>
------------------------------------------------------------------------------
(***************************************************************************)
(* startAuthLossWatcher and stopAuthLossWatcher.                           *)
(***************************************************************************)

\* The watcher subscribes before it looks at the state.
WatchStart ==
    /\ watcher.stage = "off"
    /\ Subscribe(Watcher)
    /\ watcher' = [stage |-> "check", stop |-> FALSE]
    /\ UNCHANGED <<state, pending, waiter, told, reached, changes>>

\* A watcher that waits for transitions only.
WatchUnchecked ==
    /\ watcher.stage = "check"
    /\ watcher' = [watcher EXCEPT !.stage = "listen"]
    /\ UNCHANGED <<state, pending, channel, bus, waiter, told, reached, changes>>

WatchCheck ==
    /\ watcher.stage = "check"
    /\ LockFree
    /\ told' = (told \/ Holds(Lost))
    /\ watcher' = [watcher EXCEPT !.stage = "listen"]
    /\ UNCHANGED <<state, pending, channel, bus, waiter, reached, changes>>

WatchReceive ==
    /\ watcher.stage = "listen"
    /\ channel[Watcher].queue # <<>>
    /\ told' = (told \/ Head(channel[Watcher].queue) = Lost)
    /\ Receive(Watcher)
    /\ UNCHANGED <<state, pending, bus, waiter, watcher, reached, changes>>

\* doStop closes the stop channel and waits for the goroutine.
WatchStop ==
    /\ watcher.stage # "off"
    /\ ~watcher.stop
    /\ watcher' = [watcher EXCEPT !.stop = TRUE]
    /\ UNCHANGED <<state, pending, channel, bus, waiter, told, reached, changes>>

WatchExit ==
    /\ watcher.stage = "listen"
    /\ watcher.stop
    /\ Unsubscribe(Watcher)
    /\ watcher' = [stage |-> "off", stop |-> FALSE]
    /\ UNCHANGED <<state, pending, waiter, told, reached, changes>>
------------------------------------------------------------------------------
Init ==
    /\ state = Initial
    /\ pending = [g \in Setters |-> None]
    /\ channel = [u \in Users |-> NoChannel]
    /\ bus = [id \in SubIDs |-> None]
    /\ waiter = [w \in Waiters |-> [stage |-> "idle", on |-> w]]
    /\ watcher = [stage |-> "off", stop |-> FALSE]
    /\ told = FALSE
    /\ reached = [w \in Waiters |-> FALSE]
    /\ changes = 0

Waiting(w) == WaitSubscribe(w) \/ WaitReceive(w) \/ WaitLeave(w) \/ WaitClosed(w)

Watching == WatchCheck \/ WatchReceive \/ WatchExit

Next ==
    \/ \E g \in Setters, t \in Types, s \in States : Set(g, t, s)
    \/ \E g \in Setters : Emit(g)
    \/ \E w \in Waiters : WaitCheck(w) \/ Waiting(w)
    \/ WatchStart \/ WatchStop \/ Watching

Spec == Init /\ [][Next]_vars

\* A setter that holds the lock, a waiter and the watcher keep running.
FairSpec ==
    /\ Spec
    /\ \A g \in Setters : WF_vars(Emit(g))
    /\ \A w \in Waiters : WF_vars(Waiting(w))
    /\ WF_vars(Watching)
------------------------------------------------------------------------------
(***************************************************************************)
(* Properties.                                                             *)
(***************************************************************************)

TypeOK ==
    /\ state \in [Types -> States]
    /\ pending \in [Setters -> (Types \X States) \cup {None}]
    /\ channel \in [Users -> [status : {"none", "open", "closed"},
                              queue : Seq(Types \X States),
                              seen : [Types -> States], dropped : BOOLEAN]]
    /\ bus \in [SubIDs -> Users \cup {None}]
    /\ waiter \in [Waiters -> [stage : {"idle", "subscribe", "receive", "leave",
                                        "returned"}, on : Users]]
    /\ watcher \in [stage : {"off", "check", "listen"}, stop : BOOLEAN]
    /\ told \in BOOLEAN
    /\ reached \in [Waiters -> BOOLEAN]
    /\ changes \in 0..MaxChanges

\* A channel on the bus is open: no emission ever sends on a closed channel,
\* which would panic (Unsubscribe, lifecycle.go:239).
NoSendOnClosed ==
    \A id \in SubIDs : bus[id] # None => channel[bus[id]].status = "open"

\* The last state of type t in a channel is s: that of its last event of the type
\* or, if it holds none, the one its receivers saw.
Latest(queue, seen, t, s) ==
    /\ \A i \in 1..Len(queue) :
         queue[i][1] = t /\ (\A j \in i+1..Len(queue) : queue[j][1] # t)
             => queue[i][2] = s
    /\ (\A i \in 1..Len(queue) : queue[i][1] # t) => seen[t] = s

\* Events reach a subscriber in the order of the changes: what is last in the
\* channel of a subscriber that lost no event is the current state, however
\* setters and subscriptions interleave (emitStateChangeEvent runs under the
\* lock of the setter, lifecycle.go:160).
EventsFollowState ==
    LockFree => \A id \in SubIDs, t \in Types :
        LET c == bus[id] IN
        c # None /\ ~channel[c].dropped
            => Latest(channel[c].queue, channel[c].seen, t, state[t])

\* WaitFor never returns before its state was reached, whatever others do on
\* the bus, as long as nobody else has its subscription ID: one who has closes
\* the channel both read (lifecycle.go:258).
WaitNotEarly ==
    \A w \in Waiters :
        waiter[w].stage = "returned" /\ (\A u \in Users \ {w} : SubID[u] # SubID[w])
            => reached[w]

\* A lost authentication that is not regained is reported while the watcher
\* runs, whether it was lost before the watcher started, while it started or
\* later, as long as the channel of the watcher does not overflow
\* (startAuthLossWatcher, root/app.go:204).
LossReported ==
    Holds(Lost) /\ watcher.stage # "off" /\ ~watcher.stop
        ~> \/ told \/ ~Holds(Lost) \/ channel[Watcher].dropped
           \/ watcher.stage = "off" \/ watcher.stop
=============================================================================
