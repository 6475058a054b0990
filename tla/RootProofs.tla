----------------------------- MODULE RootProofs -----------------------------
(***************************************************************************)
(* Proofs about the root application and about the lifecycle that it       *)
(* watches.  About Lifecycle: for any states, any number of setters and of *)
(* callers of WaitFor, any subscription IDs, shared or not, and any size   *)
(* of the channels.  About RootApp, which comes second: for any number of  *)
(* services and resetters, any kinds of failures and any number of them.   *)
(* The two share no variable, and no theorem needs both.                   *)
(***************************************************************************)
EXTENDS Lifecycle, RootApp, TLAPS

Events == Types \X States

\* A channel on the bus is there under the ID of the user that made it, and is
\* open.
OnBus ==
    \A id \in SubIDs : bus[id] # None =>
        SubID[bus[id]] = id /\ channel[bus[id]].status = "open"

\* The event that is to be emitted is the only one, and it tells the state.
Pending ==
    \A g \in Setters : pending[g] # None =>
        /\ state[pending[g][1]] = pending[g][2]
        /\ \A h \in Setters : pending[h] # None => h = g

\* A channel that lost no event ends in the state of every type, but for the
\* one whose event is to be emitted.
Follows ==
    \A id \in SubIDs, t \in Types :
        /\ bus[id] # None
        /\ ~channel[bus[id]].dropped
        /\ \A g \in Setters : pending[g] # None => pending[g][1] # t
        => Latest(channel[bus[id]].queue, channel[bus[id]].seen, t, state[t])

\* Nobody else has the subscription ID of w.
Alone(w) == \A u \in Users \ {w} : SubID[u] # SubID[w]

\* What a caller of WaitFor with an ID of its own has on the bus at each stage,
\* and that its state was reached before an event can tell it.
WaitOK(w) ==
    /\ waiter[w].stage \in {"idle", "subscribe"} => bus[SubID[w]] = None
    /\ waiter[w].stage \in {"receive", "leave"} =>
         waiter[w].on = w /\ bus[SubID[w]] = w
    /\ waiter[w].stage # "idle" =>
         \A g \in Setters : pending[g] = Want[w] => reached[w]
    /\ waiter[w].stage = "receive" =>
         \A i \in 1..Len(channel[w].queue) : channel[w].queue[i] = Want[w] => reached[w]
    /\ waiter[w].stage \in {"leave", "returned"} => reached[w]

Waits == \A w \in Waiters : Alone(w) => WaitOK(w)

IInv == TypeOK /\ OnBus /\ Pending /\ Follows /\ Waits
------------------------------------------------------------------------------
(***************************************************************************)
(* What the operations of a channel make of its last states.               *)
(***************************************************************************)

\* An event is the last of its type when it is sent.
LEMMA LatestOfSent ==
    ASSUME NEW q \in Seq(Events), NEW seen, NEW e \in Events
    PROVE  Latest(Append(q, e), seen, e[1], e[2])
  BY DEF Latest, Events

\* It leaves the others as they were.
LEMMA LatestOfOther ==
    ASSUME NEW q \in Seq(Events), NEW seen, NEW e \in Events, NEW t, NEW s,
           e[1] # t, Latest(q, seen, t, s)
    PROVE  Latest(Append(q, e), seen, t, s)
  <1> DEFINE r == Append(q, e)
  <1>1. /\ Len(r) = Len(q) + 1 /\ Len(q) \in Nat
        /\ r[Len(q) + 1] = e
        /\ \A i \in 1..Len(q) : r[i] = q[i]
    OBVIOUS
  <1>2. ASSUME NEW i \in 1..Len(r), r[i][1] = t, \A j \in i+1..Len(r) : r[j][1] # t
        PROVE  r[i][2] = s
    <2>1. i \in 1..Len(q) /\ r[i] = q[i]
      BY <1>1, <1>2
    <2>2. \A j \in i+1..Len(q) : q[j][1] # t
      BY <1>1, <1>2, <2>1
    <2> QED
      BY <1>2, <2>1, <2>2 DEF Latest
  <1>3. (\A i \in 1..Len(r) : r[i][1] # t) => seen[t] = s
    BY <1>1 DEF Latest
  <1> QED
    BY <1>2, <1>3 DEF Latest

\* A receive moves the first event to what was seen.
LEMMA LatestOfReceived ==
    ASSUME NEW q \in Seq(Events), q # <<>>, NEW seen \in [Types -> States],
           NEW t \in Types, NEW s, Latest(q, seen, t, s)
    PROVE  Latest(Tail(q), [seen EXCEPT ![Head(q)[1]] = Head(q)[2]], t, s)
  <1> DEFINE r == Tail(q)
             n == [seen EXCEPT ![Head(q)[1]] = Head(q)[2]]
  <1>1. /\ Len(q) \in Nat /\ Len(q) > 0 /\ Len(r) = Len(q) - 1
        /\ Head(q) = q[1] /\ q[1] \in Events
        /\ \A i \in 1..Len(r) : r[i] = q[i + 1]
    OBVIOUS
  <1>2. ASSUME NEW i \in 1..Len(r), r[i][1] = t, \A j \in i+1..Len(r) : r[j][1] # t
        PROVE  r[i][2] = s
    <2>1. i + 1 \in 1..Len(q) /\ r[i] = q[i + 1]
      BY <1>1
    <2>2. ASSUME NEW j \in (i + 1)+1..Len(q) PROVE q[j][1] # t
      <3>1. j - 1 \in i+1..Len(r) /\ j - 1 \in 1..Len(r) /\ (j - 1) + 1 = j
        BY <1>1
      <3> QED
        BY <1>1, <1>2, <3>1
    <2> QED
      BY <1>2, <2>1, <2>2 DEF Latest
  <1>3. ASSUME \A i \in 1..Len(r) : r[i][1] # t
        PROVE  n[t] = s
    <2>1. ASSUME NEW j \in 2..Len(q) PROVE q[j][1] # t
      <3>1. j - 1 \in 1..Len(r) /\ (j - 1) + 1 = j
        BY <1>1
      <3> QED
        BY <1>1, <1>3, <3>1
    <2>2. CASE q[1][1] = t
      <3>1. q[1][2] = s
        BY <1>1, <2>1, <2>2 DEF Latest
      <3> QED
        BY <1>1, <2>2, <3>1
    <2>3. CASE q[1][1] # t
      <3>1. seen[t] = s
        BY <1>1, <2>1, <2>3 DEF Latest
      <3> QED
        BY <1>1, <2>3, <3>1 DEF Events
    <2> QED
      BY <2>2, <2>3
  <1> QED
    BY <1>2, <1>3 DEF Latest
------------------------------------------------------------------------------
(***************************************************************************)
(* What the operations of the bus preserve, whoever calls them.            *)
(***************************************************************************)

Channels == [status : {"none", "open", "closed"}, queue : Seq(Events),
             seen : [Types -> States], dropped : BOOLEAN]

\* What the assumptions say of users and their IDs.
LEMMA Names ==
    /\ Watcher \in Users /\ Waiters \subseteq Users /\ Watcher \notin Waiters
    /\ \A u \in Users : SubID[u] \in SubIDs /\ u # None
    /\ None \notin Events
    /\ Lost \in Events
    /\ \A w \in Waiters : Want[w] \in Events
    /\ Buffer \in Nat /\ MaxChanges \in Nat
  BY LifecycleAssumption DEF Users, SubIDs, Events, Lost

\* The part of the type invariant that the bus has.
LEMMA BusTypes ==
    TypeOK => /\ channel \in [Users -> Channels] /\ bus \in [SubIDs -> Users \cup {None}]
              /\ state \in [Types -> States]
              /\ pending \in [Setters -> Events \cup {None}]
  BY DEF TypeOK, Channels, Events

\* A new channel has seen the states; a known ID keeps the one it has.
LEMMA SubscribeStep ==
    ASSUME IInv, NEW u \in Users, Subscribe(u), UNCHANGED <<state, pending>>
    PROVE  /\ channel' \in [Users -> Channels] /\ bus' \in [SubIDs -> Users \cup {None}]
           /\ OnBus' /\ Follows'
           /\ \A id \in SubIDs \ {SubID[u]} : bus'[id] = bus[id]
           /\ \A v \in Users \ {u} : channel'[v] = channel[v]
           /\ bus[SubID[u]] = None => bus'[SubID[u]] = u /\ channel'[u].queue = <<>>
  <1>1. /\ channel \in [Users -> Channels] /\ bus \in [SubIDs -> Users \cup {None}]
        /\ state \in [Types -> States] /\ SubID[u] \in SubIDs /\ u # None
    BY Names, BusTypes DEF IInv
  <1>2. CASE bus[SubID[u]] # None
    BY <1>1, <1>2 DEF Subscribe, IInv, OnBus, Follows
  <1>3. CASE bus[SubID[u]] = None
    <2> DEFINE c == [status |-> "open", queue |-> <<>>, seen |-> state, dropped |-> FALSE]
    <2>1. bus' = [bus EXCEPT ![SubID[u]] = u] /\ channel' = [channel EXCEPT ![u] = c]
      BY <1>3 DEF Subscribe
    <2>2. c \in Channels
      BY <1>1 DEF Channels
    <2>3. /\ channel' \in [Users -> Channels] /\ bus' \in [SubIDs -> Users \cup {None}]
          /\ \A id \in SubIDs \ {SubID[u]} : bus'[id] = bus[id]
          /\ \A v \in Users \ {u} : channel'[v] = channel[v]
          /\ bus'[SubID[u]] = u /\ channel'[u] = c
      BY <1>1, <2>1, <2>2
    <2>4. \A id \in SubIDs \ {SubID[u]} : bus[id] # u
      BY <1>1 DEF IInv, OnBus
    <2>5. OnBus'
      BY <1>1, <2>3, <2>4 DEF IInv, OnBus
    <2>6. \A t \in Types : Latest(<<>>, state, t, state[t])
      BY DEF Latest
    <2>7. Follows'
      BY <1>1, <2>3, <2>4, <2>6 DEF IInv, Follows
    <2> QED
      BY <2>3, <2>5, <2>7
  <1> QED
    BY <1>2, <1>3

\* A channel that is closed is on the bus no more.
LEMMA UnsubscribeStep ==
    ASSUME IInv, NEW u \in Users, Unsubscribe(u), UNCHANGED <<state, pending>>
    PROVE  /\ channel' \in [Users -> Channels] /\ bus' \in [SubIDs -> Users \cup {None}]
           /\ OnBus' /\ Follows'
           /\ \A id \in SubIDs \ {SubID[u]} : bus'[id] = bus[id]
           /\ \A v \in Users : channel'[v].queue = channel[v].queue
  <1>1. /\ channel \in [Users -> Channels] /\ bus \in [SubIDs -> Users \cup {None}]
        /\ SubID[u] \in SubIDs /\ u # None
    BY Names, BusTypes DEF IInv
  <1> DEFINE c == bus[SubID[u]]
  <1>2. /\ bus' \in [SubIDs -> Users \cup {None}] /\ bus'[SubID[u]] = None
        /\ \A id \in SubIDs \ {SubID[u]} : bus'[id] = bus[id]
    BY <1>1 DEF Unsubscribe
  <1>3. /\ channel' \in [Users -> Channels]
        /\ \A v \in Users : channel'[v].queue = channel[v].queue
        /\ \A v \in Users \ {c} : channel'[v] = channel[v]
    <2>1. CASE c = None
      BY <1>1, <2>1 DEF Unsubscribe
    <2>2. CASE c # None
      <3>1. c \in Users /\ channel' = [channel EXCEPT ![c].status = "closed"]
        BY <1>1, <2>2 DEF Unsubscribe
      <3> HIDE DEF c
      <3> QED
        BY <1>1, <3>1 DEF Channels
    <2> QED
      BY <2>1, <2>2
  <1>4. \A id \in SubIDs \ {SubID[u]} : bus[id] # None => bus[id] # c
    BY <1>1 DEF IInv, OnBus
  <1>5. \A id \in SubIDs : bus'[id] # None => bus'[id] = bus[id]
                              /\ bus[id] \in Users /\ channel'[bus[id]] = channel[bus[id]]
    BY <1>1, <1>2, <1>3, <1>4
  <1>6. OnBus' /\ Follows'
    BY <1>5 DEF IInv, OnBus, Follows
  <1> QED
    BY <1>2, <1>3, <1>6

\* A receive takes the first event of a channel.
LEMMA ReceiveStep ==
    ASSUME IInv, NEW c \in Users, channel[c].queue # <<>>, Receive(c),
           UNCHANGED <<state, pending, bus>>
    PROVE  /\ channel' \in [Users -> Channels]
           /\ OnBus' /\ Follows'
           /\ channel'[c].queue = Tail(channel[c].queue)
           /\ \A v \in Users \ {c} : channel'[v] = channel[v]
  <1>1. /\ channel \in [Users -> Channels] /\ bus \in [SubIDs -> Users \cup {None}]
    BY Names, BusTypes DEF IInv
  <1> DEFINE q == channel[c].queue
             e == Head(q)
             n == [channel[c].seen EXCEPT ![e[1]] = e[2]]
  <1>2. /\ q \in Seq(Events) /\ q # <<>> /\ Tail(q) \in Seq(Events)
        /\ e \in Events /\ e[1] \in Types /\ e[2] \in States
        /\ channel[c].seen \in [Types -> States]
        /\ channel[c] \in Channels
    BY <1>1 DEF Channels, Events
  <1>3. n \in [Types -> States]
    BY <1>2
  <1>4. /\ channel'[c] = [channel[c] EXCEPT !.queue = Tail(q), !.seen = n]
        /\ \A v \in Users \ {c} : channel'[v] = channel[v]
        /\ channel' = [v \in Users |-> channel'[v]]
    <2>1. channel' = [channel EXCEPT ![c].queue = Tail(@), ![c].seen[e[1]] = e[2]]
      BY DEF Receive
    <2> HIDE DEF e
    <2>2. channel' = [channel EXCEPT ![c] =
                        [channel[c] EXCEPT !.queue = Tail(q), !.seen = n]]
      BY <1>1, <1>2, <2>1 DEF Channels
    <2> HIDE DEF q, n
    <2> QED
      BY <1>1, <2>2
  <1>5. /\ channel'[c] \in Channels
        /\ channel'[c].queue = Tail(q) /\ channel'[c].seen = n
        /\ channel'[c].status = channel[c].status
        /\ channel'[c].dropped = channel[c].dropped
    BY <1>2, <1>3, <1>4 DEF Channels
  <1>6. channel' \in [Users -> Channels]
    BY <1>1, <1>4, <1>5
  <1>7. OnBus'
    <2>1. \A v \in Users : channel'[v].status = channel[v].status
      BY <1>4, <1>5
    <2>2. \A id \in SubIDs : bus'[id] = bus[id] /\ bus[id] \in Users \cup {None}
      BY <1>1
    <2> QED
      BY <2>1, <2>2 DEF IInv, OnBus
  <1>8. Follows'
    <2> SUFFICES ASSUME NEW id \in SubIDs, NEW t \in Types,
                        bus[id] # None, ~channel'[bus[id]].dropped,
                        \A g \in Setters : pending[g] # None => pending[g][1] # t
                 PROVE  Latest(channel'[bus[id]].queue, channel'[bus[id]].seen, t, state[t])
      BY DEF Follows
    <2>1. CASE bus[id] = c
      <3>1. Latest(q, channel[c].seen, t, state[t])
        BY <1>5, <2>1 DEF IInv, Follows
      <3>2. Latest(Tail(q), n, t, state[t])
        BY <1>2, <3>1, LatestOfReceived
      <3> QED
        BY <1>5, <2>1, <3>2
    <2>2. CASE bus[id] # c
      BY <1>1, <1>4, <2>2 DEF IInv, Follows
    <2> QED
      BY <2>1, <2>2
  <1> QED
    BY <1>4, <1>5, <1>6, <1>7, <1>8

\* A caller of WaitFor that takes no step keeps what it has, when its ID and the
\* events in its channel are left alone.
LEMMA WaitKept ==
    ASSUME NEW w \in Waiters, WaitOK(w), UNCHANGED pending,
           waiter'[w] = waiter[w], reached'[w] = reached[w],
           bus'[SubID[w]] = bus[SubID[w]],
           channel'[w].queue = channel[w].queue
    PROVE  WaitOK(w)'
  BY DEF WaitOK

\* The same when an event was taken from its channel.
LEMMA WaitKeptTail ==
    ASSUME NEW w \in Waiters, WaitOK(w), UNCHANGED <<pending, bus>>,
           waiter'[w] = waiter[w], reached'[w] = reached[w],
           channel[w].queue \in Seq(Events), channel[w].queue # <<>>,
           channel'[w].queue = Tail(channel[w].queue)
    PROVE  WaitOK(w)'
  <1>1. ASSUME NEW i \in 1..Len(channel'[w].queue)
        PROVE  /\ i + 1 \in 1..Len(channel[w].queue)
               /\ channel'[w].queue[i] = channel[w].queue[i + 1]
    OBVIOUS
  <1> QED
    BY <1>1 DEF WaitOK
------------------------------------------------------------------------------
(***************************************************************************)
(* The steps.                                                              *)
(***************************************************************************)

\* The initial state satisfies the invariant.
LEMMA InitIInv == Init => IInv
  <1> SUFFICES ASSUME Init PROVE IInv
    OBVIOUS
  <1> USE LifecycleAssumption, Names DEF Init
  <1>1. TypeOK
    <2>1. channel \in [Users -> Channels]
      BY DEF NoChannel, Channels
    <2>2. waiter \in [Waiters -> [stage : {"idle", "subscribe", "receive", "leave",
                                        "returned"}, on : Users]]
      OBVIOUS
    <2>3. /\ state \in [Types -> States] /\ bus \in [SubIDs -> Users \cup {None}]
          /\ pending \in [Setters -> Events \cup {None}]
          /\ reached \in [Waiters -> BOOLEAN] /\ changes \in 0..MaxChanges
      OBVIOUS
    <2>4. watcher \in [stage : {"off", "check", "listen"}, stop : BOOLEAN]
          /\ told \in BOOLEAN
      OBVIOUS
    <2> QED
      BY <2>1, <2>2, <2>3, <2>4 DEF TypeOK, Channels, Events
  <1>2. OnBus /\ Pending /\ Follows
    BY DEF OnBus, Pending, Follows
  <1>3. Waits
    BY DEF Waits, WaitOK
  <1> QED
    BY <1>1, <1>2, <1>3 DEF IInv

\* A setter holds the lock: the event that is to be emitted tells the new state,
\* which is the wanted one for those that wait for it.
LEMMA SetStep ==
    ASSUME IInv, NEW g \in Setters, NEW t \in Types, NEW s \in States, Set(g, t, s)
    PROVE  IInv'
  <1>1. /\ state \in [Types -> States] /\ pending \in [Setters -> Events \cup {None}]
        /\ bus \in [SubIDs -> Users \cup {None}] /\ channel \in [Users -> Channels]
        /\ reached \in [Waiters -> BOOLEAN]
        /\ <<t, s>> \in Events
    BY BusTypes DEF IInv, TypeOK, Events
  <1>2. /\ state' = [state EXCEPT ![t] = s]
        /\ pending' = [pending EXCEPT ![g] = <<t, s>>]
        /\ \A h \in Setters : pending[h] = None
        /\ UNCHANGED <<channel, bus, waiter, watcher>>
        /\ reached' = [w \in Waiters |-> reached[w] \/ (waiter[w].stage # "idle"
                                                       /\ Want[w] = <<t, s>>)]
    BY DEF Set, Changed, LockFree
  <1>3. /\ pending'[g] = <<t, s>> /\ \A h \in Setters \ {g} : pending'[h] = None
        /\ <<t, s>> # None
    BY <1>1, <1>2, Names
  <1>4. TypeOK'
    <2>1. state' \in [Types -> States] /\ pending' \in [Setters -> Events \cup {None}]
      BY <1>1, <1>2
    <2>2. told' \in BOOLEAN /\ changes' \in 0..MaxChanges
      BY Names DEF Set, Changed, IInv, TypeOK
    <2>3. reached' \in [Waiters -> BOOLEAN]
      BY <1>2
    <2> QED
      BY <1>2, <2>1, <2>2, <2>3 DEF IInv, TypeOK, Events
  <1>5. OnBus'
    BY <1>2 DEF IInv, OnBus
  <1>6. Pending'
    <2>1. state'[t] = s
      BY <1>1, <1>2
    <2> QED
      BY <1>3, <2>1 DEF Pending
  <1>7. Follows'
    <2> SUFFICES ASSUME NEW id \in SubIDs, NEW y \in Types,
                        bus[id] # None, ~channel[bus[id]].dropped,
                        \A h \in Setters : pending'[h] # None => pending'[h][1] # y
                 PROVE  Latest(channel[bus[id]].queue, channel[bus[id]].seen, y, state'[y])
      BY <1>2 DEF Follows
    <2>1. y # t
      BY <1>3
    <2>2. state'[y] = state[y]
      BY <1>1, <1>2, <2>1
    <2> QED
      BY <1>2, <2>2 DEF IInv, Follows
  <1>8. Waits'
    <2> SUFFICES ASSUME NEW w \in Waiters, Alone(w) PROVE WaitOK(w)'
      BY DEF Waits, Alone
    <2>1. WaitOK(w) /\ waiter'[w] = waiter[w]
      BY <1>2 DEF IInv, Waits
    <2>2. /\ reached[w] => reached'[w]
          /\ waiter[w].stage # "idle" /\ Want[w] = <<t, s>> => reached'[w]
      BY <1>2
    <2>3. \A h \in Setters : pending'[h] = Want[w] => Want[w] = <<t, s>>
      BY <1>3, Names
    <2> QED
      BY <1>2, <2>1, <2>2, <2>3 DEF WaitOK
  <1> QED
    BY <1>4, <1>5, <1>6, <1>7, <1>8 DEF IInv

\* The emission: the channels on the bus have the new state as the last, or have
\* lost an event.
LEMMA EmitStep ==
    ASSUME IInv, NEW g \in Setters, Emit(g)
    PROVE  IInv'
  <1> DEFINE e == pending[g]
             there(u) == \E id \in SubIDs : bus[id] = u
  <1>1. /\ state \in [Types -> States] /\ pending \in [Setters -> Events \cup {None}]
        /\ bus \in [SubIDs -> Users \cup {None}] /\ channel \in [Users -> Channels]
    BY BusTypes DEF IInv
  <1>2. /\ e \in Events /\ e[1] \in Types /\ e[2] \in States
        /\ state[e[1]] = e[2]
        /\ \A h \in Setters : pending[h] # None => h = g
        /\ \A h \in Setters : pending'[h] = None
        /\ pending' \in [Setters -> Events \cup {None}]
        /\ UNCHANGED <<state, bus, waiter, watcher, told, reached, changes>>
    BY <1>1 DEF Emit, IInv, Pending, Events
  <1>3. \A u \in Users : channel'[u] = IF there(u) THEN Sent(channel[u], e) ELSE channel[u]
    BY DEF Emit
  <1>4. ASSUME NEW u \in Users
        PROVE  /\ Sent(channel[u], e) \in Channels
               /\ Sent(channel[u], e).status = channel[u].status
               /\ Sent(channel[u], e).seen = channel[u].seen
               /\ \/ Sent(channel[u], e).dropped
                  \/ /\ Sent(channel[u], e).queue = Append(channel[u].queue, e)
                     /\ Sent(channel[u], e).dropped = channel[u].dropped
               /\ Sent(channel[u], e).queue \in {channel[u].queue, Append(channel[u].queue, e)}
    <2>1. channel[u] \in Channels /\ Append(channel[u].queue, e) \in Seq(Events)
      BY <1>1, <1>2 DEF Channels
    <2> HIDE DEF e
    <2> QED
      BY <2>1 DEF Sent, Channels
  <1> HIDE DEF e
  <1>5. channel' \in [Users -> Channels]
    BY <1>1, <1>3, <1>4 DEF Emit
  <1>6. TypeOK'
    BY <1>2, <1>5 DEF IInv, TypeOK, Channels, Events
  <1>7. OnBus' /\ Pending'
    BY <1>1, <1>2, <1>3, <1>4 DEF IInv, OnBus, Pending
  <1>8. Follows'
    <2> SUFFICES ASSUME NEW id \in SubIDs, NEW t \in Types,
                        bus[id] # None, ~channel'[bus[id]].dropped
                 PROVE  Latest(channel'[bus[id]].queue, channel'[bus[id]].seen, t, state[t])
      BY <1>2 DEF Follows
    <2> DEFINE c == bus[id]
    <2>1. c \in Users /\ channel'[c] = Sent(channel[c], e)
      BY <1>1, <1>3
    <2>2. /\ channel'[c].queue = Append(channel[c].queue, e)
          /\ channel'[c].seen = channel[c].seen /\ ~channel[c].dropped
      BY <1>4, <2>1
    <2>3. channel[c].queue \in Seq(Events)
      BY <1>1, <2>1 DEF Channels
    <2>4. CASE e[1] = t
      BY <1>2, <2>2, <2>3, <2>4, LatestOfSent
    <2>5. CASE e[1] # t
      <3>1. \A h \in Setters : pending[h] # None => pending[h][1] # t
        BY <1>2, <2>5 DEF e
      <3>2. Latest(channel[c].queue, channel[c].seen, t, state[t])
        BY <2>2, <3>1 DEF IInv, Follows
      <3> QED
        BY <1>2, <2>2, <2>3, <2>5, <3>2, LatestOfOther
    <2> QED
      BY <2>4, <2>5
  <1>9. Waits'
    <2> SUFFICES ASSUME NEW w \in Waiters, Alone(w) PROVE WaitOK(w)'
      BY DEF Waits, Alone
    <2>1. WaitOK(w) /\ w \in Users
      BY Names DEF IInv, Waits
    <2>2. \A h \in Setters : pending'[h] # Want[w]
      BY <1>2, Names
    <2>3. ASSUME waiter[w].stage = "receive",
                 NEW i \in 1..Len(channel'[w].queue), channel'[w].queue[i] = Want[w]
          PROVE  reached[w]
      <3>1. channel'[w].queue \in {channel[w].queue, Append(channel[w].queue, e)}
        BY <1>3, <1>4, <2>1
      <3>2. channel[w].queue \in Seq(Events)
        BY <1>1, <2>1 DEF Channels
      <3>3. CASE i \in 1..Len(channel[w].queue)
        <4>1. channel'[w].queue[i] = channel[w].queue[i]
          BY <3>1, <3>2, <3>3
        <4> QED
          BY <2>1, <2>3, <3>3, <4>1 DEF WaitOK
      <3>4. CASE i \notin 1..Len(channel[w].queue)
        <4>1. channel'[w].queue[i] = e
          BY <1>2, <2>3, <3>1, <3>2, <3>4
        <4> QED
          BY <2>1, <2>3, <4>1 DEF WaitOK, e
      <3> QED
        BY <3>3, <3>4
    <2> QED
      BY <1>2, <2>1, <2>2, <2>3 DEF WaitOK
  <1> QED
    BY <1>6, <1>7, <1>8, <1>9 DEF IInv

\* WaitFor reads the state when no event is to be emitted.
LEMMA WaitCheckStep ==
    ASSUME IInv, NEW w \in Waiters, WaitCheck(w)
    PROVE  IInv'
  <1>1. /\ waiter \in [Waiters -> [stage : {"idle", "subscribe", "receive", "leave",
                                           "returned"}, on : Users]]
        /\ reached \in [Waiters -> BOOLEAN]
    BY DEF IInv, TypeOK
  <1>2. /\ UNCHANGED <<state, pending, channel, bus, watcher, told, changes>>
        /\ waiter[w].stage = "idle"
        /\ \A g \in Setters : pending[g] = None
        /\ waiter' = [waiter EXCEPT ![w].stage = IF Holds(Want[w]) THEN "returned"
                                                              ELSE "subscribe"]
        /\ reached' = [reached EXCEPT ![w] = Holds(Want[w])]
    BY DEF WaitCheck, At, LockFree
  <1>3. Holds(Want[w]) \in BOOLEAN
    BY DEF Holds
  <1>4. /\ reached' \in [Waiters -> BOOLEAN] /\ reached'[w] = Holds(Want[w])
        /\ \A v \in Waiters \ {w} : reached'[v] = reached[v] /\ waiter'[v] = waiter[v]
    BY <1>1, <1>2, <1>3
  <1>5. /\ waiter' \in [Waiters -> [stage : {"idle", "subscribe", "receive", "leave",
                                            "returned"}, on : Users]]
        /\ waiter'[w].stage = IF Holds(Want[w]) THEN "returned" ELSE "subscribe"
    BY <1>1, <1>2
  <1>6. TypeOK'
    BY <1>2, <1>4, <1>5 DEF IInv, TypeOK
  <1>7. OnBus' /\ Pending' /\ Follows'
    BY <1>2 DEF IInv, OnBus, Pending, Follows
  <1>8. Waits'
    <2> SUFFICES ASSUME NEW v \in Waiters, Alone(v) PROVE WaitOK(v)'
      BY DEF Waits, Alone
    <2>1. WaitOK(v)
      BY DEF IInv, Waits
    <2>2. CASE v = w
      <3>1. \A g \in Setters : pending'[g] # Want[w]
        BY <1>2, Names
      <3> QED
        BY <1>2, <1>4, <1>5, <2>1, <2>2, <3>1 DEF WaitOK
    <2>3. CASE v # w
      BY <1>2, <1>4, <2>1, <2>3, WaitKept
    <2> QED
      BY <2>2, <2>3
  <1> QED
    BY <1>6, <1>7, <1>8 DEF IInv

\* WaitFor subscribes: one with an ID of its own gets a new channel.
LEMMA WaitSubscribeStep ==
    ASSUME IInv, NEW w \in Waiters, WaitSubscribe(w)
    PROVE  IInv'
  <1>1. /\ waiter \in [Waiters -> [stage : {"idle", "subscribe", "receive", "leave",
                                           "returned"}, on : Users]]
        /\ bus \in [SubIDs -> Users \cup {None}] /\ w \in Users /\ SubID[w] \in SubIDs
    BY Names DEF IInv, TypeOK
  <1>2. /\ UNCHANGED <<state, pending, watcher, told, reached, changes>>
        /\ waiter[w].stage = "subscribe"
        /\ Subscribe(w)
        /\ waiter' = [waiter EXCEPT ![w] = [stage |-> "receive", on |-> Subscribed(w)]]
    BY DEF WaitSubscribe, At
  <1>3. Subscribed(w) \in Users /\ (bus[SubID[w]] = None => Subscribed(w) = w)
    BY <1>1 DEF Subscribed
  <1>4. /\ channel' \in [Users -> Channels] /\ bus' \in [SubIDs -> Users \cup {None}]
        /\ OnBus' /\ Follows'
        /\ \A id \in SubIDs \ {SubID[w]} : bus'[id] = bus[id]
        /\ \A v \in Users \ {w} : channel'[v] = channel[v]
        /\ bus[SubID[w]] = None => bus'[SubID[w]] = w /\ channel'[w].queue = <<>>
    BY <1>1, <1>2, SubscribeStep
  <1>5. /\ waiter' \in [Waiters -> [stage : {"idle", "subscribe", "receive", "leave",
                                            "returned"}, on : Users]]
        /\ waiter'[w].stage = "receive" /\ waiter'[w].on = Subscribed(w)
        /\ \A v \in Waiters \ {w} : waiter'[v] = waiter[v]
    BY <1>1, <1>2, <1>3
  <1>6. TypeOK'
    BY <1>2, <1>4, <1>5 DEF IInv, TypeOK, Channels, Events
  <1>7. Pending'
    BY <1>2 DEF IInv, Pending
  <1>8. Waits'
    <2> SUFFICES ASSUME NEW v \in Waiters, Alone(v) PROVE WaitOK(v)'
      BY DEF Waits, Alone
    <2>1. WaitOK(v)
      BY DEF IInv, Waits
    <2>2. CASE v = w
      BY <1>2, <1>3, <1>4, <1>5, <2>1, <2>2 DEF WaitOK
    <2>3. CASE v # w
      <3>1. bus'[SubID[v]] = bus[SubID[v]] /\ channel'[v] = channel[v]
        BY <1>1, <1>4, <2>3, Names DEF Alone
      <3> QED
        BY <1>2, <1>5, <2>1, <2>3, <3>1, WaitKept
    <2> QED
      BY <2>2, <2>3
  <1> QED
    BY <1>4, <1>6, <1>7, <1>8 DEF IInv

\* An event in the channel of one that waits was emitted after the call.
LEMMA WaitReceiveStep ==
    ASSUME IInv, NEW w \in Waiters, WaitReceive(w)
    PROVE  IInv'
  <1> DEFINE c == waiter[w].on
             q == channel[c].queue
  <1>1. /\ waiter \in [Waiters -> [stage : {"idle", "subscribe", "receive", "leave",
                                           "returned"}, on : Users]]
        /\ c \in Users /\ channel \in [Users -> Channels]
        /\ \A u \in Users : channel[u].queue \in Seq(Events)
    BY BusTypes DEF IInv, TypeOK, Channels
  <1>2. /\ UNCHANGED <<state, pending, bus, watcher, told, reached, changes>>
        /\ waiter[w].stage = "receive" /\ q # <<>> /\ Receive(c)
        /\ waiter' = [waiter EXCEPT ![w].stage = IF Head(q) = Want[w] THEN "leave" ELSE @]
    BY DEF WaitReceive, At
  <1>3. /\ channel' \in [Users -> Channels]
        /\ OnBus' /\ Follows'
        /\ channel'[c].queue = Tail(q)
        /\ \A v \in Users \ {c} : channel'[v] = channel[v]
    BY <1>1, <1>2, ReceiveStep
  <1>4. /\ waiter' \in [Waiters -> [stage : {"idle", "subscribe", "receive", "leave",
                                            "returned"}, on : Users]]
        /\ waiter'[w].stage = (IF Head(q) = Want[w] THEN "leave" ELSE "receive")
        /\ waiter'[w].on = c
        /\ \A v \in Waiters \ {w} : waiter'[v] = waiter[v]
    BY <1>1, <1>2
  <1>5. TypeOK'
    BY <1>2, <1>3, <1>4 DEF IInv, TypeOK, Channels, Events
  <1>6. Pending'
    BY <1>2 DEF IInv, Pending
  <1>7. Waits'
    <2> SUFFICES ASSUME NEW v \in Waiters, Alone(v) PROVE WaitOK(v)'
      BY DEF Waits, Alone
    <2>1. WaitOK(v) /\ v \in Users
      BY Names DEF IInv, Waits
    <2>2. CASE v = w
      <3>1. c = w
        BY <1>2, <2>1, <2>2 DEF WaitOK
      <3>2. /\ q \in Seq(Events) /\ Len(q) > 0 /\ Head(q) = q[1]
            /\ \A i \in 1..Len(Tail(q)) : i + 1 \in 1..Len(q) /\ Tail(q)[i] = q[i + 1]
        BY <1>1, <1>2
      <3>3. \A i \in 1..Len(q) : q[i] = Want[w] => reached[w]
        BY <1>2, <2>1, <2>2, <3>1 DEF WaitOK
      <3>4. Head(q) = Want[w] => reached[w]
        BY <3>2, <3>3
      <3>5. \A i \in 1..Len(Tail(q)) : Tail(q)[i] = Want[w] => reached[w]
        BY <3>2, <3>3
      <3>6. /\ waiter'[w].stage \in {"receive", "leave"} /\ waiter'[w].on = w
            /\ waiter'[w].stage = "leave" => reached'[w]
            /\ bus'[SubID[w]] = w
            /\ channel'[w].queue = Tail(q)
            /\ \A g \in Setters : pending'[g] = Want[w] => reached'[w]
        BY <1>2, <1>3, <1>4, <2>1, <2>2, <3>1, <3>4 DEF WaitOK
      <3> HIDE DEF c, q
      <3> QED
        BY <1>2, <2>2, <3>5, <3>6 DEF WaitOK
    <2>3. CASE v # w /\ v = c
      BY <1>1, <1>2, <1>3, <1>4, <2>1, <2>3, WaitKeptTail
    <2>4. CASE v # w /\ v # c
      BY <1>2, <1>3, <1>4, <2>1, <2>4, WaitKept
    <2> QED
      BY <2>2, <2>3, <2>4
  <1> QED
    BY <1>3, <1>5, <1>6, <1>7 DEF IInv

\* WaitFor unsubscribes when its state was reached.
LEMMA WaitLeaveStep ==
    ASSUME IInv, NEW w \in Waiters, WaitLeave(w)
    PROVE  IInv'
  <1>1. /\ waiter \in [Waiters -> [stage : {"idle", "subscribe", "receive", "leave",
                                           "returned"}, on : Users]]
        /\ w \in Users
    BY Names DEF IInv, TypeOK
  <1>2. /\ UNCHANGED <<state, pending, watcher, told, reached, changes>>
        /\ waiter[w].stage = "leave" /\ Unsubscribe(w)
        /\ waiter' = [waiter EXCEPT ![w].stage = "returned"]
    BY DEF WaitLeave, At
  <1>3. /\ channel' \in [Users -> Channels] /\ bus' \in [SubIDs -> Users \cup {None}]
        /\ OnBus' /\ Follows'
        /\ \A id \in SubIDs \ {SubID[w]} : bus'[id] = bus[id]
        /\ \A v \in Users : channel'[v].queue = channel[v].queue
    BY <1>1, <1>2, UnsubscribeStep
  <1>4. /\ waiter' \in [Waiters -> [stage : {"idle", "subscribe", "receive", "leave",
                                            "returned"}, on : Users]]
        /\ waiter'[w].stage = "returned"
        /\ \A v \in Waiters \ {w} : waiter'[v] = waiter[v]
    BY <1>1, <1>2
  <1>5. TypeOK'
    BY <1>2, <1>3, <1>4 DEF IInv, TypeOK, Channels, Events
  <1>6. Pending'
    BY <1>2 DEF IInv, Pending
  <1>7. Waits'
    <2> SUFFICES ASSUME NEW v \in Waiters, Alone(v) PROVE WaitOK(v)'
      BY DEF Waits, Alone
    <2>1. WaitOK(v) /\ v \in Users /\ SubID[v] \in SubIDs
      BY Names DEF IInv, Waits
    <2>2. CASE v = w
      BY <1>2, <1>4, <2>1, <2>2 DEF WaitOK
    <2>3. CASE v # w
      <3>1. bus'[SubID[v]] = bus[SubID[v]]
        BY <1>1, <1>3, <2>1, <2>3 DEF Alone
      <3> QED
        BY <1>2, <1>3, <1>4, <2>1, <2>3, <3>1, WaitKept
    <2> QED
      BY <2>2, <2>3
  <1> QED
    BY <1>3, <1>5, <1>6, <1>7 DEF IInv

\* Only one who shares the ID can close the channel of another.
LEMMA WaitClosedStep ==
    ASSUME IInv, NEW w \in Waiters, WaitClosed(w)
    PROVE  IInv'
  <1>1. /\ waiter \in [Waiters -> [stage : {"idle", "subscribe", "receive", "leave",
                                           "returned"}, on : Users]]
        /\ w \in Users /\ SubID[w] \in SubIDs /\ w # None
    BY Names DEF IInv, TypeOK
  <1>2. /\ UNCHANGED <<state, pending, channel, bus, watcher, told, reached, changes>>
        /\ waiter[w].stage = "receive" /\ channel[waiter[w].on].status = "closed"
        /\ waiter' = [waiter EXCEPT ![w].stage = "returned"]
    BY DEF WaitClosed, At
  <1>3. /\ waiter' \in [Waiters -> [stage : {"idle", "subscribe", "receive", "leave",
                                            "returned"}, on : Users]]
        /\ \A v \in Waiters \ {w} : waiter'[v] = waiter[v]
    BY <1>1, <1>2
  <1>4. TypeOK'
    BY <1>2, <1>3 DEF IInv, TypeOK
  <1>5. OnBus' /\ Pending' /\ Follows'
    BY <1>2 DEF IInv, OnBus, Pending, Follows
  <1>6. ~Alone(w)
    BY <1>1, <1>2 DEF IInv, Waits, WaitOK, OnBus
  <1>7. Waits'
    <2> SUFFICES ASSUME NEW v \in Waiters, Alone(v) PROVE WaitOK(v)'
      BY DEF Waits, Alone
    <2>1. WaitOK(v) /\ v # w
      BY <1>6 DEF IInv, Waits
    <2> QED
      BY <1>2, <1>3, <2>1, WaitKept
  <1> QED
    BY <1>4, <1>5, <1>7 DEF IInv

\* The watcher is no caller of WaitFor, but it may share the ID of one.
LEMMA WatchBusStep ==
    ASSUME IInv, WatchStart \/ WatchReceive \/ WatchExit
    PROVE  IInv'
  <1>1. UNCHANGED <<state, pending, waiter, reached, changes>>
    BY DEF WatchStart, WatchReceive, WatchExit
  <1>2. watcher' \in [stage : {"off", "check", "listen"}, stop : BOOLEAN]
    <2>1. CASE WatchStart
      <3>1. watcher' = [stage |-> "check", stop |-> FALSE]
        BY <2>1 DEF WatchStart
      <3> QED
        BY <3>1
    <2>2. CASE WatchReceive
      BY <2>2 DEF WatchReceive, IInv, TypeOK
    <2>3. CASE WatchExit
      <3>1. watcher' = [stage |-> "off", stop |-> FALSE]
        BY <2>3 DEF WatchExit
      <3> QED
        BY <3>1
    <2> QED
      BY <2>1, <2>2, <2>3
  <1>3. told' \in BOOLEAN
    <2>1. told \in BOOLEAN
      BY DEF IInv, TypeOK
    <2>2. \/ told' = told
          \/ told' = (told \/ Head(channel[Watcher].queue) = Lost)
      BY DEF WatchStart, WatchReceive, WatchExit
    <2> QED
      BY <2>1, <2>2
  <1>4. /\ channel' \in [Users -> Channels] /\ bus' \in [SubIDs -> Users \cup {None}]
        /\ OnBus' /\ Follows'
        /\ \A id \in SubIDs \ {SubID[Watcher]} : bus'[id] = bus[id]
        /\ \A w \in Waiters : channel'[w].queue = channel[w].queue
    <2>1. CASE WatchStart
      BY <1>1, <2>1, Names, SubscribeStep DEF WatchStart
    <2>2. CASE WatchReceive
      BY <1>1, <2>2, Names, BusTypes, ReceiveStep DEF WatchReceive, IInv
    <2>3. CASE WatchExit
      BY <1>1, <2>3, Names, UnsubscribeStep DEF WatchExit
    <2> QED
      BY <2>1, <2>2, <2>3
  <1>5. TypeOK'
    BY <1>1, <1>2, <1>3, <1>4 DEF IInv, TypeOK, Channels, Events
  <1>6. Pending'
    BY <1>1 DEF IInv, Pending
  <1>7. Waits'
    <2> SUFFICES ASSUME NEW w \in Waiters, Alone(w) PROVE WaitOK(w)'
      BY DEF Waits, Alone
    <2>1. WaitOK(w) /\ bus'[SubID[w]] = bus[SubID[w]]
      BY <1>4, Names DEF IInv, Waits, Alone
    <2> QED
      BY <1>1, <1>4, <2>1, WaitKept
  <1> QED
    BY <1>4, <1>5, <1>6, <1>7 DEF IInv

\* The other steps of the watcher leave the bus alone.
LEMMA WatchOtherStep ==
    ASSUME IInv, WatchStop \/ WatchCheck \/ UNCHANGED vars
    PROVE  IInv'
  <1>1. UNCHANGED <<state, pending, channel, bus, waiter, reached, changes>>
    BY DEF WatchStop, WatchCheck, vars
  <1>2. /\ watcher' \in [stage : {"off", "check", "listen"}, stop : BOOLEAN]
        /\ told' \in BOOLEAN
    BY DEF WatchStop, WatchCheck, vars, IInv, TypeOK, Holds
  <1>3. TypeOK'
    BY <1>1, <1>2 DEF IInv, TypeOK
  <1>4. OnBus' /\ Pending' /\ Follows'
    BY <1>1 DEF IInv, OnBus, Pending, Follows
  <1>5. Waits'
    BY <1>1 DEF IInv, Waits, WaitOK, Alone
  <1> QED
    BY <1>3, <1>4, <1>5 DEF IInv

\* Every step preserves the invariant.
LEMMA NextIInv == IInv /\ [Next]_vars => IInv'
  <1> SUFFICES ASSUME IInv, [Next]_vars PROVE IInv'
    OBVIOUS
  <1>1. CASE \E g \in Setters, t \in Types, s \in States : Set(g, t, s)
    BY <1>1, SetStep
  <1>2. CASE \E g \in Setters : Emit(g)
    BY <1>2, EmitStep
  <1>3. CASE \E w \in Waiters : WaitCheck(w) \/ Waiting(w)
    BY <1>3, WaitCheckStep, WaitSubscribeStep, WaitReceiveStep, WaitLeaveStep,
       WaitClosedStep DEF Waiting
  <1>4. CASE WatchStart \/ WatchReceive \/ WatchExit
    BY <1>4, WatchBusStep
  <1>5. CASE WatchStop \/ WatchCheck \/ UNCHANGED vars
    BY <1>5, WatchOtherStep
  <1> QED
    BY <1>1, <1>2, <1>3, <1>4, <1>5 DEF Next, Watching
------------------------------------------------------------------------------
(***************************************************************************)
(* The theorems.                                                           *)
(***************************************************************************)

\* The invariant holds in every reachable state.
THEOREM LifecycleInvariant == Spec => []IInv
  <1> QED
    BY InitIInv, NextIInv, PTL DEF Spec

\* No emission sends on a closed channel, which would panic, though IDs are
\* shared and anyone who knows one may unsubscribe it (lifecycle.go:239).
THEOREM LifecycleNoSendOnClosed == Spec => [](TypeOK /\ NoSendOnClosed)
  <1>1. IInv => TypeOK /\ NoSendOnClosed
    BY DEF IInv, OnBus, NoSendOnClosed
  <1> QED
    BY <1>1, LifecycleInvariant, PTL

\* What is last in the channel of a subscriber that lost no event is the current
\* state, for any number of setters (emitStateChangeEvent, lifecycle.go:160).
THEOREM LifecycleEventsFollowState == Spec => []EventsFollowState
  <1>1. IInv => EventsFollowState
    BY DEF IInv, Follows, EventsFollowState, LockFree
  <1> QED
    BY <1>1, LifecycleInvariant, PTL

\* WaitFor does not return before its state was reached, when nobody else has
\* its subscription ID (lifecycle.go:258).
THEOREM LifecycleWaitNotEarly == Spec => []WaitNotEarly
  <1>1. IInv => WaitNotEarly
    BY DEF IInv, Waits, WaitOK, Alone, WaitNotEarly
  <1> QED
    BY <1>1, LifecycleInvariant, PTL
------------------------------------------------------------------------------
(***************************************************************************)
(* The root application.                                                   *)
(***************************************************************************)

\* A start is at a part below which everything runs, a stop at one above
\* which nothing runs.
Progress ==
    /\ op.kind = "start" => op.at \in Parts /\ 1..(op.at - 1) \subseteq up /\ ~running
    /\ Stopping => op.at \in Parts /\ up \subseteq 1..op.at /\ running
    /\ op.kind = "clean" => op.at \in 1..Resetters + 1
    /\ op.kind = "none" => op = Idle

\* As long as no part failed to stop, running is what it says: everything runs,
\* or everything that a shutdown has not come to yet.
RunningMeans ==
    faults["stop"] = 0 /\ running =>
        /\ op = Idle => up = Parts
        /\ Stopping => 1..op.at \subseteq up
        /\ op.kind # "clean"

\* As long as no part failed to start either, an application that is not running
\* is down, or as far up as its start has come.
DownMeans ==
    faults["start"] = 0 /\ faults["stop"] = 0 /\ ~running =>
        up = IF op.kind = "start" THEN 1..(op.at - 1) ELSE {}

AppIInv == AppTypeOK /\ Layered /\ Progress /\ RunningMeans /\ DownMeans

\* The bounds of the parts, as the arithmetic of the steps needs them.
LEMMA PartBounds ==
    /\ Services \in Nat /\ WatcherPart = Services + 5 /\ Mqtt = 1
    /\ Parts = 1..(Services + 5)
    /\ Strict = {Services + 2, Services + 4}
    /\ Resetters \in Nat /\ MaxFaults \in Nat
  BY RootAssumption DEF RootAssumption, WatcherPart, Mqtt, Parts, Strict, Router, Tasks

\* A failure counts one more of its kind.
LEMMA FaultCounts ==
    ASSUME NEW k \in Kinds, Fault(k),
           faults \in [Kinds -> 0..MaxFaults]
    PROVE  /\ faults' \in [Kinds -> 0..MaxFaults]
           /\ faults'[k] # 0
           /\ \A j \in Kinds \ {k} : faults'[j] = faults[j]
  BY PartBounds DEF Fault

\* The initial state satisfies the invariant.
LEMMA AppInitIInv ==
    ASSUME AppInit
    PROVE  AppIInv
  <1> USE PartBounds DEF AppInit, Idle, Kinds
  <1>1. AppTypeOK
    <2>1. /\ up \subseteq Parts /\ running \in BOOLEAN /\ clean \subseteq 1..Resetters
          /\ waiting \in {"idle", "unlocked", "receiving", "returned"}
      OBVIOUS
    <2>2. /\ op \in [kind : {"none", "start", "stop", "reset", "clean"},
                    at : 0 .. WatcherPart + Resetters]
          /\ result \in {"none", "start", "stop", "reset"} \X {"ok", "error"}
      OBVIOUS
    <2>3. faults \in [Kinds -> 0..MaxFaults]
      OBVIOUS
    <2> QED
      BY <2>1, <2>2, <2>3 DEF AppTypeOK
  <1>2. Layered /\ Progress
    BY DEF Layered, Progress, Stopping
  <1>3. RunningMeans /\ DownMeans
    BY DEF RunningMeans, DownMeans, Stopping
  <1> QED
    BY <1>1, <1>2, <1>3 DEF AppIInv

\* Start, at its first part or at once.
LEMMA StartStep ==
    ASSUME AppIInv, Start
    PROVE  AppIInv'
  <1> USE PartBounds DEF AppIInv, Start, Return, Idle, Stopping
  <1>1. AppTypeOK'
    BY DEF AppTypeOK
  <1>2. Layered' /\ Progress'
    BY DEF Layered, Progress
  <1>3. RunningMeans'
    BY DEF RunningMeans
  <1>4. DownMeans'
    <2>1. CASE running
      BY <2>1 DEF DownMeans
    <2>2. CASE ~running
      <3>1. 1..(op'.at - 1) = {} /\ op'.kind = "start" /\ op.kind = "none"
        BY <2>2
      <3> QED
        BY <2>2, <3>1 DEF DownMeans
    <2> QED
      BY <2>1, <2>2
  <1> QED
    BY <1>1, <1>2, <1>3, <1>4

\* The next part comes up.
LEMMA StartPartStep ==
    ASSUME AppIInv, StartPart
    PROVE  AppIInv'
  <1> USE PartBounds DEF AppIInv, StartPart, Return, Idle, Stopping
  <1>1. /\ op.at \in Parts /\ 1..(op.at - 1) \subseteq up /\ ~running
        /\ up \subseteq Parts /\ op.kind = "start"
    BY DEF Progress, AppTypeOK
  <1>2. AppTypeOK'
    <2>1. CASE op.at = WatcherPart
      BY <1>1, <2>1 DEF AppTypeOK
    <2>2. CASE op.at # WatcherPart
      BY <1>1, <2>2 DEF AppTypeOK
    <2> QED
      BY <2>1, <2>2
  <1>3. Layered'
    BY <1>1 DEF Layered
  <1>4. Progress'
    <2>1. CASE op.at = WatcherPart
      <3>1. op' = Idle
        BY <2>1
      <3> QED
        BY <3>1 DEF Progress
    <2>2. CASE op.at # WatcherPart
      <3>1. op'.kind = "start" /\ op'.at = op.at + 1 /\ ~running'
        BY <1>1, <2>2 DEF AppTypeOK
      <3>2. op'.at \in Parts /\ 1..(op'.at - 1) \subseteq up'
        BY <1>1, <2>2, <3>1
      <3> QED
        BY <3>1, <3>2 DEF Progress
    <2> QED
      BY <2>1, <2>2
  <1>5. RunningMeans'
    <2>1. CASE op.at = WatcherPart
      <3>1. up' = Parts /\ op' = Idle
        BY <1>1, <2>1
      <3> QED
        BY <3>1 DEF RunningMeans
    <2>2. CASE op.at # WatcherPart
      BY <1>1, <2>2 DEF RunningMeans
    <2> QED
      BY <2>1, <2>2
  <1>6. DownMeans'
    <2>1. CASE op.at = WatcherPart
      BY <2>1 DEF DownMeans
    <2>2. CASE op.at # WatcherPart
      <3>1. op'.kind = "start" /\ op'.at = op.at + 1
        BY <1>1, <2>2 DEF AppTypeOK
      <3>2. 1..(op.at - 1) \cup {op.at} = 1..((op.at + 1) - 1)
        BY <1>1
      <3> QED
        BY <1>1, <2>2, <3>1, <3>2 DEF DownMeans
    <2> QED
      BY <2>1, <2>2
  <1> QED
    BY <1>2, <1>3, <1>4, <1>5, <1>6

\* A part does not come up: either a fault is counted, or it already ran, which
\* is possible only after an earlier failure.
LEMMA StartPartFailsStep ==
    ASSUME AppIInv, StartPartFails
    PROVE  AppIInv'
  <1> USE PartBounds DEF AppIInv, StartPartFails, Return, Idle, Stopping
  <1>1. /\ op.at \in Parts /\ 1..(op.at - 1) \subseteq up /\ ~running
        /\ up \subseteq Parts /\ op.kind = "start"
        /\ faults \in [Kinds -> 0..MaxFaults]
    BY DEF Progress, AppTypeOK
  <1>2. /\ faults' \in [Kinds -> 0..MaxFaults] /\ faults'["stop"] = faults["stop"]
        /\ \/ faults'["start"] # 0
           \/ op.at \in up /\ UNCHANGED faults
    BY <1>1, FaultCounts DEF Kinds
  <1>3. AppTypeOK'
    BY <1>2 DEF AppTypeOK
  <1>4. Layered' /\ Progress' /\ RunningMeans'
    BY <1>1, <1>2 DEF Layered, Progress, RunningMeans
  <1>5. DownMeans'
    BY <1>1, <1>2 DEF DownMeans
  <1> QED
    BY <1>3, <1>4, <1>5

\* Stop and Reset, at the last part, at the resetters or at once.
LEMMA BeginStep ==
    ASSUME AppIInv, NEW kind \in {"stop", "reset"}, Begin(kind)
    PROVE  AppIInv'
  <1> USE PartBounds DEF AppIInv, Begin, Return, PassErr, Idle, Stopping
  <1>1. AppTypeOK'
    BY DEF AppTypeOK
  <1>2. Layered' /\ Progress'
    BY DEF Layered, Progress, AppTypeOK
  <1>3. RunningMeans'
    BY DEF RunningMeans
  <1>4. DownMeans'
    BY DEF DownMeans
  <1> QED
    BY <1>1, <1>2, <1>3, <1>4

\* The next part goes down.
LEMMA StopPartStep ==
    ASSUME AppIInv, StopPart
    PROVE  AppIInv'
  <1> USE PartBounds DEF AppIInv, StopPart, StopReturns, Return, PassErr, Idle
  <1>1. /\ op.at \in Parts /\ up \subseteq 1..op.at /\ running
        /\ Stopping /\ op.kind \in {"stop", "reset"}
    BY DEF Progress, Stopping
  <1>2. AppTypeOK'
    <2>1. CASE op.at = Mqtt
      <3>1. /\ op' \in {Idle, [kind |-> "clean", at |-> 1]}
            /\ result' \in {result, <<"stop", "ok">>}
            /\ waiting' \in {waiting, "returned"}
        BY <1>1, <2>1
      <3>2. op' \in [kind : {"none", "start", "stop", "reset", "clean"},
                     at : 0 .. WatcherPart + Resetters]
        BY <3>1
      <3>3. result' \in {"none", "start", "stop", "reset"} \X {"ok", "error"}
        BY <3>1 DEF AppTypeOK
      <3> QED
        BY <1>1, <2>1, <3>1, <3>2, <3>3 DEF AppTypeOK
    <2>2. CASE op.at # Mqtt
      BY <1>1, <2>2 DEF AppTypeOK
    <2> QED
      BY <2>1, <2>2
  <1>3. Layered'
    BY <1>1 DEF Layered
  <1>4. CASE op.at = Mqtt
    <2>1. up' = {} /\ ~running'
      BY <1>1, <1>4
    <2>2. op'.kind \in {"none", "clean"} /\ (op'.kind = "none" => op' = Idle)
          /\ (op'.kind = "clean" => op'.at = 1)
      BY <1>1, <1>4
    <2>3. Progress'
      BY <2>2 DEF Progress, Stopping
    <2>4. RunningMeans' /\ DownMeans'
      BY <2>1, <2>2 DEF RunningMeans, DownMeans
    <2> QED
      BY <1>2, <1>3, <2>3, <2>4
  <1>5. CASE op.at # Mqtt
    <2>1. op'.kind = op.kind /\ op'.at = op.at - 1 /\ running' = running
          /\ faults' = faults /\ op'.at \in Parts /\ op' # Idle
      BY <1>1, <1>5 DEF AppTypeOK
    <2>2. up' \subseteq 1..op'.at
      BY <1>1, <2>1
    <2>3. Progress'
      BY <1>1, <2>1, <2>2 DEF Progress, Stopping
    <2>4. RunningMeans'
      BY <1>1, <2>1 DEF RunningMeans, Stopping
    <2>5. DownMeans'
      BY <1>1, <2>1 DEF DownMeans
    <2> QED
      BY <1>2, <1>3, <2>3, <2>4, <2>5
  <1> QED
    BY <1>4, <1>5

\* A part does not go down: a fault is counted, because one that is to be stopped
\* runs as long as no stop has failed.
LEMMA StopPartFailsCounts ==
    ASSUME AppIInv, StopPartFails
    PROVE  /\ faults' \in [Kinds -> 0..MaxFaults]
           /\ faults'["start"] = faults["start"]
           /\ faults'["stop"] # 0
  <1> USE PartBounds DEF AppIInv, StopPartFails
  <1>1. /\ op.at \in Parts /\ running
        /\ faults \in [Kinds -> 0..MaxFaults]
        /\ "start" \in Kinds /\ "stop" \in Kinds
    BY DEF Progress, AppTypeOK, Kinds
  <1>2. CASE op.at \in Strict \ up /\ UNCHANGED faults
    <2>1. faults["stop"] # 0
      BY <1>1, <1>2 DEF RunningMeans
    <2> QED
      BY <1>1, <1>2, <2>1
  <1>3. CASE Fault("stop")
    BY <1>1, <1>3, FaultCounts
  <1> QED
    BY <1>2, <1>3

\* A part that fails to stop.
LEMMA StopPartFailsStep ==
    ASSUME AppIInv, StopPartFails
    PROVE  AppIInv'
  <1> USE PartBounds, StopPartFailsCounts
      DEF AppIInv, StopPartFails, StopReturns, Return, PassErr, Idle, Stopping
  <1>1. AppTypeOK'
    BY DEF AppTypeOK
  <1>2. Layered' /\ Progress'
    BY DEF Layered, Progress
  <1>3. RunningMeans' /\ DownMeans'
    BY DEF RunningMeans, DownMeans
  <1> QED
    BY <1>1, <1>2, <1>3

\* A resetter runs, or the last one has.
LEMMA CleanStep ==
    ASSUME AppIInv, Clean
    PROVE  AppIInv'
  <1> USE PartBounds DEF AppIInv, Clean, Return, PassErr, Idle, Stopping
  <1>1. op.at \in 1..Resetters + 1
    BY DEF Progress
  <1>2. AppTypeOK'
    BY <1>1 DEF AppTypeOK
  <1>3. Layered' /\ Progress'
    BY <1>1 DEF Layered, Progress, AppTypeOK
  <1>4. RunningMeans'
    BY DEF RunningMeans
  <1>5. DownMeans'
    BY DEF DownMeans, AppTypeOK
  <1> QED
    BY <1>2, <1>3, <1>4, <1>5

\* A resetter fails.
LEMMA CleanFailsStep ==
    ASSUME AppIInv, CleanFails
    PROVE  AppIInv'
  <1> USE PartBounds DEF AppIInv, CleanFails, Return, PassErr, Idle, Stopping
  <1>1. /\ faults' \in [Kinds -> 0..MaxFaults]
        /\ faults'["stop"] = faults["stop"] /\ faults'["start"] = faults["start"]
    BY FaultCounts DEF AppTypeOK, Kinds
  <1>2. AppTypeOK'
    BY <1>1 DEF AppTypeOK
  <1>3. Layered' /\ Progress'
    BY <1>1 DEF Layered, Progress
  <1>4. RunningMeans' /\ DownMeans'
    BY <1>1 DEF RunningMeans, DownMeans
  <1> QED
    BY <1>2, <1>3, <1>4

\* Wait changes nothing but its caller.
LEMMA WaitStep ==
    ASSUME AppIInv, Wait \/ WaitErr \/ UNCHANGED appVars
    PROVE  AppIInv'
  <1>1. UNCHANGED <<up, running, op, result, clean, faults>>
    BY DEF Wait, WaitErr, appVars
  <1>2. waiting' \in {"idle", "unlocked", "receiving", "returned"}
    BY DEF Wait, WaitErr, appVars, AppIInv, AppTypeOK
  <1>3. AppTypeOK'
    BY <1>1, <1>2 DEF AppIInv, AppTypeOK
  <1>4. Layered' /\ Progress' /\ RunningMeans' /\ DownMeans'
    BY <1>1 DEF AppIInv, Layered, Progress, RunningMeans, DownMeans, Stopping
  <1> QED
    BY <1>3, <1>4 DEF AppIInv

\* Every step preserves the invariant.
LEMMA AppNextIInv ==
    ASSUME AppIInv, [AppNext]_appVars
    PROVE  AppIInv'
  <1>1. CASE Start \/ Stop \/ Reset
    BY <1>1, StartStep, BeginStep DEF Stop, Reset
  <1>2. CASE Step
    BY <1>2, StartPartStep, StartPartFailsStep, StopPartStep, StopPartFailsStep,
       CleanStep, CleanFailsStep DEF Step
  <1>3. CASE Wait \/ WaitErr \/ UNCHANGED appVars
    BY <1>3, WaitStep
  <1> QED
    BY <1>1, <1>2, <1>3 DEF AppNext

\* The invariant holds in every reachable state.
THEOREM RootAppInvariant == AppSpec => []AppIInv
  <1>1. AppInit => AppIInv
    BY AppInitIInv
  <1>2. AppIInv /\ [AppNext]_appVars => AppIInv'
    BY AppNextIInv
  <1> QED
    BY <1>1, <1>2, PTL DEF AppSpec

\* Nothing runs above a part that is down (doStart and doStop, app.go:153, 266),
\* whatever part failed to start or to stop and however often.
THEOREM RootAppLayered == AppSpec => [](AppTypeOK /\ Layered)
  <1>1. AppIInv => AppTypeOK /\ Layered
    BY DEF AppIInv
  <1> QED
    BY <1>1, RootAppInvariant, PTL

\* What running claims between operations is true as long as no part failed to
\* stop (app.go:153, 266).
THEOREM RootAppRunningIsUp == AppSpec => []RunningIsUp
  <1>1. AppIInv => RunningIsUp
    BY DEF AppIInv, RunningMeans, RunningIsUp
  <1> QED
    BY <1>1, RootAppInvariant, PTL

\* A Wait that a Stop or a Reset wakes finds the application down, if no part
\* failed to start or to stop (passErr, app.go:103, 324).
THEOREM RootAppWokenWhenDown == AppSpec => WokenWhenDown
  <1> DEFINE Woken == waiting = "receiving" /\ waiting' = "returned"
                        /\ faults["start"] = 0 /\ faults'["stop"] = 0
  <1>1. ASSUME AppIInv, AppNext, Woken
        PROVE  up' = {}
    <2>1. CASE Stop \/ Reset
      BY <1>1, <2>1 DEF Stop, Reset, Begin, AppIInv, DownMeans, Idle, AppTypeOK
    <2>2. CASE StopPart
      BY <1>1, <2>2, PartBounds DEF StopPart, StopReturns, AppIInv, Progress, Stopping
    <2>3. CASE StopPartFails
      BY <1>1, <2>3, StopPartFailsCounts
    <2>4. CASE Clean
      BY <1>1, <2>4 DEF Clean, AppIInv, RunningMeans, DownMeans
    <2>5. CASE CleanFails
      <3>1. faults'["stop"] = faults["stop"]
        BY <1>1, <2>5, FaultCounts DEF CleanFails, AppIInv, AppTypeOK, Kinds
      <3> QED
        BY <1>1, <2>5, <3>1 DEF CleanFails, AppIInv, RunningMeans, DownMeans
    <2>6. CASE Start \/ StartPart \/ StartPartFails \/ Wait \/ WaitErr
      BY <1>1, <2>6 DEF Start, StartPart, StartPartFails, Wait, WaitErr
    <2> QED
      BY <1>1, <2>1, <2>2, <2>3, <2>4, <2>5, <2>6 DEF AppNext, Step
  <1>2. AppIInv /\ [AppNext]_appVars => [Woken => up' = {}]_appVars
    BY <1>1
  <1>3. []AppIInv /\ [][AppNext]_appVars => [][Woken => up' = {}]_appVars
    BY <1>2, PTL
  <1> QED
    BY <1>3, RootAppInvariant, PTL DEF AppSpec, WokenWhenDown
=============================================================================
