----------------------------- MODULE RouterProofs -----------------------------
(***************************************************************************)
(* Proofs about Router, for any number of workers, routings, lockers and   *)
(* messages.                                                               *)
(***************************************************************************)
EXTENDS Router, TLAPS

WorkerStates == [stage : {"exited", "select", "vote", "process", "respond"},
                 msg : Messages \cup {None}, route : 0..RouteCount,
                 response : {"none", "reply", "success", "error"}]

\* The part of the type invariant the lock argument needs.
LockTypes ==
    /\ worker \in [Workers -> WorkerStates]
    /\ locked \in [Lockers -> BOOLEAN]
    /\ queue \in Seq(Messages)
    /\ \A w \in Workers :
           worker[w].stage \in {"vote", "process", "respond"}
               => worker[w].route \in Routes

\* Whoever is inside a handler with a locker has locked it.
HoldersLock == \A l \in Lockers, w \in Workers : Holds(w, l) => locked[l]

\* A worker is gone only as Exited, and all are when the router is stopped.
AllGone ==
    /\ \A w \in Workers : worker[w].stage = "exited" => worker[w] = Exited
    /\ control = "stopped" => \A w \in Workers : worker[w].stage = "exited"

IInv == LockTypes /\ HoldersLock /\ OneAtATime /\ NoStuckLocker /\ AllGone

\* What a worker does after a routing is the state of a worker, outside of
\* any handler.
LEMMA AdvanceType ==
    ASSUME LockTypes, NEW w \in Workers,
           worker[w].stage \in {"vote", "process", "respond"}
    PROVE  /\ Advance(w) \in WorkerStates
           /\ Advance(w).stage \in {"vote", "select"}
           /\ Advance(w).stage = "vote" => Advance(w).route \in Routes
  <1>1. worker[w] \in WorkerStates /\ worker[w].route \in Routes
    BY DEF LockTypes
  <1>2. RouteCount \in Nat
    BY RouterAssumption
  <1>3. CASE worker[w].route < RouteCount
    <2>1. worker[w].route + 1 \in Routes
      BY <1>1, <1>2, <1>3 DEF Routes
    <2>2. Advance(w) = [worker[w] EXCEPT !.stage = "vote",
                                         !.route = worker[w].route + 1,
                                         !.response = "none"]
      BY <1>3 DEF Advance
    <2>3. worker[w].route + 1 \in 0..RouteCount
      BY <2>1 DEF Routes
    <2> QED
      BY <1>1, <2>1, <2>2, <2>3 DEF WorkerStates
  <1>4. CASE ~(worker[w].route < RouteCount)
    BY <1>2, <1>4 DEF Advance, WorkerStates, Selecting
  <1> QED
    BY <1>3, <1>4

\* So is what it does with a response.
LEMMA RespondType ==
    ASSUME LockTypes, NEW w \in Workers,
           worker[w].stage \in {"vote", "process", "respond"},
           NEW resp \in {"none", "reply", "success", "error"}
    PROVE  /\ Respond(w, resp) \in WorkerStates
           /\ Respond(w, resp).stage \in {"vote", "select", "respond"}
           /\ Respond(w, resp).stage # "select" => Respond(w, resp).route \in Routes
  <1>1. worker[w] \in WorkerStates /\ worker[w].route \in Routes
    BY DEF LockTypes
  <1>2. CASE resp = "none"
    BY <1>2, AdvanceType DEF Respond
  <1>3. CASE resp # "none"
    BY <1>1, <1>3 DEF Respond, WorkerStates
  <1> QED
    BY <1>2, <1>3

\* A handler's response is one of the known kinds.
LEMMA ResponseType ==
    \A r, outcome : Response(r, outcome) \in {"none", "reply", "success", "error"}
  BY DEF Response

\* The initial state satisfies the invariant.
LEMMA InitIInv == Init => IInv
  <1> SUFFICES ASSUME Init PROVE IInv
    OBVIOUS
  <1>1. RouteCount \in Nat
    BY RouterAssumption
  <1>2. LockTypes
    BY <1>1 DEF Init, LockTypes, WorkerStates, Exited
  <1>3. \A w \in Workers : worker[w] = Exited
    BY DEF Init
  <1>4. HoldersLock /\ OneAtATime /\ AllGone
    BY <1>3 DEF HoldersLock, OneAtATime, AllGone, Holds, Exited
  <1>5. NoStuckLocker
    BY DEF Init, NoStuckLocker
  <1> QED
    BY <1>2, <1>4, <1>5 DEF IInv

\* A worker that moves between two states outside of any handler, while the
\* lockers stay as they are, preserves the lock invariants.
LEMMA OutsideStep ==
    ASSUME IInv, NEW w \in Workers, NEW s \in WorkerStates,
           worker[w].stage # "process",
           worker' = [worker EXCEPT ![w] = s],
           UNCHANGED locked,
           s.stage # "process"
    PROVE  HoldersLock' /\ OneAtATime' /\ NoStuckLocker'
  <1>1. \A v \in Workers, l \in Lockers : Holds(v, l)' <=> Holds(v, l)
    BY DEF Holds, IInv, LockTypes
  <1> QED
    BY <1>1 DEF IInv, HoldersLock, OneAtATime, NoStuckLocker

\* A worker that leaves a handler and releases its locker preserves them.
LEMMA LeaveStep ==
    ASSUME IInv, NEW w \in Workers, NEW s \in WorkerStates,
           worker[w].stage = "process",
           worker' = [worker EXCEPT ![w] = s],
           locked' = Released(w),
           s.stage # "process"
    PROVE  HoldersLock' /\ OneAtATime' /\ NoStuckLocker'
  <1> DEFINE k == Locker[worker[w].route]
  <1>1. \A v \in Workers, l \in Lockers : Holds(v, l)' <=> v # w /\ Holds(v, l)
    BY DEF Holds, IInv, LockTypes
  <1>2. \A l \in Lockers : l = k => Holds(w, l)
    BY DEF Holds
  <1>3. \A l \in Lockers : locked'[l] = IF l = k THEN FALSE ELSE locked[l]
    BY RouterAssumption DEF Released, IInv, LockTypes
  <1>4. HoldersLock'
    BY <1>1, <1>2, <1>3 DEF IInv, HoldersLock, OneAtATime
  <1>5. OneAtATime'
    BY <1>1 DEF IInv, OneAtATime
  <1>6. NoStuckLocker'
    <2> SUFFICES ASSUME NEW l \in Lockers, locked'[l]
                 PROVE  \E v \in Workers : Holds(v, l)'
      BY DEF NoStuckLocker
    <2>1. l # k /\ locked[l]
      BY <1>3
    <2>2. PICK v \in Workers : Holds(v, l)
      BY <2>1 DEF IInv, NoStuckLocker
    <2>3. v # w
      BY <2>1, <2>2 DEF Holds
    <2> QED
      BY <1>1, <2>2, <2>3
  <1> QED
    BY <1>4, <1>5, <1>6

\* Taking a free locker preserves them.
LEMMA EnterStep ==
    ASSUME IInv, NEW w \in Workers, Enter(w)
    PROVE  HoldersLock' /\ OneAtATime' /\ NoStuckLocker'
  <1> DEFINE k == Locker[worker[w].route]
  <1>1. worker[w].stage = "vote" /\ worker[w] \in WorkerStates
    BY DEF Enter, IInv, LockTypes
  <1>2. worker' = [worker EXCEPT ![w].stage = "process"]
    BY DEF Enter
  <1>3. /\ worker'[w].stage = "process"
        /\ worker'[w].route = worker[w].route
        /\ \A v \in Workers : v # w => worker'[v] = worker[v]
    BY <1>1, <1>2 DEF IInv, LockTypes, WorkerStates
  <1>4. \A v \in Workers, l \in Lockers :
            Holds(v, l)' <=> (v = w /\ l = k) \/ (v # w /\ Holds(v, l))
    BY <1>3 DEF Holds
  <1>4a. \A l \in Lockers : ~Holds(w, l)
    BY <1>1 DEF Holds
  <1>5. CASE k = None
    <2>1. UNCHANGED locked /\ \A l \in Lockers : l # k
      BY <1>5, RouterAssumption DEF Enter
    <2>2. \A v \in Workers, l \in Lockers : Holds(v, l)' <=> Holds(v, l)
      BY <1>4, <1>4a, <2>1
    <2> QED
      BY <2>1, <2>2 DEF IInv, HoldersLock, OneAtATime, NoStuckLocker
  <1>6. CASE k # None
    <2>1. ~locked[k] /\ locked' = [locked EXCEPT ![k] = TRUE]
      BY <1>6 DEF Enter
    <2>2. k \in Lockers
      BY <1>1, <1>6, RouterAssumption DEF IInv, LockTypes
    <2>3. \A l \in Lockers : locked'[l] = IF l = k THEN TRUE ELSE locked[l]
      BY <2>1, <2>2 DEF IInv, LockTypes
    <2>4. \A v \in Workers : ~Holds(v, k)
      BY <2>1, <2>2 DEF IInv, HoldersLock
    <2>5. HoldersLock'
      BY <1>4, <2>3 DEF IInv, HoldersLock
    <2>6. OneAtATime'
      BY <1>4, <2>4 DEF IInv, OneAtATime
    <2>7. NoStuckLocker'
      <3> SUFFICES ASSUME NEW l \in Lockers, locked'[l]
                   PROVE  \E v \in Workers : Holds(v, l)'
        BY DEF NoStuckLocker
      <3>1. CASE l = k
        BY <3>1, <1>4
      <3>2. CASE l # k
        <4>1. PICK v \in Workers : Holds(v, l)
          BY <3>2, <2>3 DEF IInv, NoStuckLocker
        <4> QED
          BY <4>1, <1>4, <1>4a
      <3> QED
        BY <3>1, <3>2
    <2> QED
      BY <2>5, <2>6, <2>7
  <1> QED
    BY <1>5, <1>6

\* A step that leaves workers and lockers alone preserves the invariant.
LEMMA IdleStep ==
    ASSUME IInv, UNCHANGED <<worker, locked>>, queue' \in Seq(Messages),
           control' = "stopped" =>
               \A w \in Workers : worker[w].stage = "exited"
    PROVE  IInv'
  BY DEF IInv, LockTypes, HoldersLock, OneAtATime, NoStuckLocker, AllGone, Holds

\* Every step preserves the invariant.
LEMMA NextIInv == IInv /\ [Next]_vars => IInv'
  <1> SUFFICES ASSUME IInv, [Next]_vars PROVE IInv'
    OBVIOUS
  <1>0. RouteCount \in Nat \ {0}
    BY RouterAssumption
  <1>1. CASE Start
    <2>1. \A w \in Workers : worker'[w] = Selecting
      BY <1>1 DEF Start
    <2>2. \A w \in Workers, l \in Lockers : ~Holds(w, l)
      BY <1>1 DEF Start, IInv, AllGone, Holds
    <2>3. LockTypes'
      BY <1>0, <1>1, <2>1 DEF Start, IInv, LockTypes, WorkerStates, Selecting
    <2>4. \A l \in Lockers : ~locked'[l]
      BY <1>1, <2>2 DEF Start, IInv, NoStuckLocker
    <2>5. \A w \in Workers, l \in Lockers : ~Holds(w, l)'
      BY <2>1 DEF Holds, Selecting
    <2>6. AllGone'
      BY <1>1, <2>1 DEF Start, AllGone, Selecting
    <2> QED
      BY <2>3, <2>4, <2>5, <2>6
      DEF IInv, HoldersLock, OneAtATime, NoStuckLocker
  <1>2. CASE Stop \/ StopRefused
    BY <1>2, IdleStep DEF Stop, StopRefused, IInv, LockTypes, AllGone
  <1>3. CASE Stopped
    BY <1>3, IdleStep DEF Stopped
  <1>4. ASSUME NEW m \in Messages, Deliver(m) PROVE IInv'
    <2>1. queue' \in Seq(Messages)
      BY <1>4 DEF Deliver, IInv, LockTypes
    <2> QED
      BY <1>4, <2>1, IdleStep DEF Deliver, IInv, AllGone
  <1>5. ASSUME NEW w \in Workers, Work(w) PROVE IInv'
    <2>0. worker[w] \in WorkerStates /\ LockTypes
      BY DEF IInv, LockTypes
    <2>s. control' = control /\ (control = "stopped" => worker[w].stage = "exited")
      BY <1>5 DEF Work, Receive, Exit, Skip, Enter, Busy, Process, Publish, IInv,
                  AllGone
    <2>1. CASE Receive(w)
      <3> DEFINE s == [stage |-> "vote", msg |-> Head(queue), route |-> 1,
                       response |-> "none"]
      <3>1. s \in WorkerStates /\ 1 \in Routes /\ queue' \in Seq(Messages)
        BY <2>1, <1>0, <2>0 DEF Receive, LockTypes, WorkerStates, Routes
      <3>2. /\ worker[w].stage = "select" /\ worker' = [worker EXCEPT ![w] = s]
            /\ UNCHANGED locked
        BY <2>1 DEF Receive
      <3>3. HoldersLock' /\ OneAtATime' /\ NoStuckLocker'
        BY <3>1, <3>2, OutsideStep
      <3>4. LockTypes'
        BY <3>1, <3>2, <2>0 DEF LockTypes
      <3>5. AllGone'
        BY <3>2, <2>s, <2>0 DEF AllGone, IInv, LockTypes
      <3> QED
        BY <3>3, <3>4, <3>5 DEF IInv
    <2>2. CASE Exit(w)
      <3>1. Exited \in WorkerStates /\ Exited.stage = "exited"
        BY <1>0 DEF Exited, WorkerStates
      <3>2. /\ worker[w].stage = "select" /\ worker' = [worker EXCEPT ![w] = Exited]
            /\ UNCHANGED <<locked, queue>>
        BY <2>2 DEF Exit
      <3>3. HoldersLock' /\ OneAtATime' /\ NoStuckLocker'
        BY <3>1, <3>2, OutsideStep
      <3>4. LockTypes'
        BY <3>1, <3>2, <2>0 DEF LockTypes
      <3>5. AllGone'
        BY <3>2, <2>s, <2>0 DEF AllGone, IInv, LockTypes
      <3> QED
        BY <3>3, <3>4, <3>5 DEF IInv
    <2>3. CASE Skip(w) \/ Publish(w)
      <3>1. /\ worker[w].stage \in {"vote", "respond"}
            /\ worker' = [worker EXCEPT ![w] = Advance(w)]
            /\ UNCHANGED <<locked, queue>>
        BY <2>3 DEF Skip, Publish
      <3>2. /\ Advance(w) \in WorkerStates
            /\ Advance(w).stage \in {"vote", "select"}
            /\ Advance(w).stage = "vote" => Advance(w).route \in Routes
        BY <3>1, <2>0, AdvanceType
      <3>3. HoldersLock' /\ OneAtATime' /\ NoStuckLocker'
        BY <3>1, <3>2, OutsideStep
      <3>4. LockTypes'
        BY <3>1, <3>2, <2>0 DEF LockTypes
      <3>5. AllGone'
        BY <3>1, <3>2, <2>s, <2>0 DEF AllGone, IInv, LockTypes
      <3> QED
        BY <3>3, <3>4, <3>5 DEF IInv
    <2>4. CASE Enter(w)
      <3>1. /\ worker[w].stage = "vote"
            /\ worker' = [worker EXCEPT ![w].stage = "process"]
            /\ UNCHANGED queue
        BY <2>4 DEF Enter
      <3>2. locked' \in [Lockers -> BOOLEAN]
        BY <2>4, <2>0 DEF Enter, LockTypes
      <3>3. LockTypes'
        BY <3>1, <3>2, <2>0 DEF LockTypes, WorkerStates
      <3>4. AllGone'
        BY <3>1, <2>s, <2>0 DEF AllGone, IInv, LockTypes, WorkerStates
      <3> QED
        BY <2>4, <3>3, <3>4, EnterStep DEF IInv
    <2>5. CASE Busy(w)
      <3> DEFINE resp == Response(worker[w].route, "error")
      <3>1. /\ worker[w].stage = "vote"
            /\ worker' = [worker EXCEPT ![w] = Respond(w, resp)]
            /\ UNCHANGED <<locked, queue>>
        BY <2>5 DEF Busy
      <3>2. /\ Respond(w, resp) \in WorkerStates
            /\ Respond(w, resp).stage \in {"vote", "select", "respond"}
            /\ Respond(w, resp).stage # "select" => Respond(w, resp).route \in Routes
        BY <3>1, <2>0, ResponseType, RespondType
      <3>3. HoldersLock' /\ OneAtATime' /\ NoStuckLocker'
        BY <3>1, <3>2, OutsideStep
      <3>4. LockTypes'
        BY <3>1, <3>2, <2>0 DEF LockTypes
      <3>5. AllGone'
        BY <3>1, <3>2, <2>s, <2>0 DEF AllGone, IInv, LockTypes
      <3> QED
        BY <3>3, <3>4, <3>5 DEF IInv
    <2>6. ASSUME NEW outcome \in Outcomes, Process(w, outcome) PROVE IInv'
      <3> DEFINE resp == Response(worker[w].route, outcome)
      <3>1. /\ worker[w].stage = "process"
            /\ worker' = [worker EXCEPT ![w] = Respond(w, resp)]
            /\ locked' = Released(w)
            /\ UNCHANGED queue
        BY <2>6 DEF Process
      <3>2. /\ Respond(w, resp) \in WorkerStates
            /\ Respond(w, resp).stage \in {"vote", "select", "respond"}
            /\ Respond(w, resp).stage # "select" => Respond(w, resp).route \in Routes
        BY <3>1, <2>0, ResponseType, RespondType
      <3>3. HoldersLock' /\ OneAtATime' /\ NoStuckLocker'
        BY <3>1, <3>2, LeaveStep
      <3>4. locked' \in [Lockers -> BOOLEAN]
        BY <3>1, <2>0 DEF Released, LockTypes
      <3>5. LockTypes'
        BY <3>1, <3>2, <3>4, <2>0 DEF LockTypes
      <3>6. AllGone'
        BY <3>1, <3>2, <2>s, <2>0 DEF AllGone, IInv, LockTypes
      <3> QED
        BY <3>3, <3>5, <3>6 DEF IInv
    <2> QED
      BY <1>5, <2>1, <2>2, <2>3, <2>4, <2>5, <2>6 DEF Work
  <1>6. CASE UNCHANGED vars
    BY <1>6, IdleStep DEF vars, IInv, LockTypes, AllGone
  <1> QED
    BY <1>1, <1>2, <1>3, <1>4, <1>5, <1>6 DEF Next

\* The invariant holds in every reachable state.
LEMMA AlwaysIInv == Spec => []IInv
  BY InitIInv, NextIInv, PTL DEF Spec

\* A locker admits one worker at a time, through whatever routings it is
\* shared.
THEOREM RouterOneAtATime == Spec => []OneAtATime
  <1>1. IInv => OneAtATime
    BY DEF IInv
  <1> QED
    BY AlwaysIInv, <1>1, PTL

\* No locker stays locked without a worker inside.
THEOREM RouterNoStuckLocker == Spec => []NoStuckLocker
  <1>1. IInv => NoStuckLocker
    BY DEF IInv
  <1> QED
    BY AlwaysIInv, <1>1, PTL

\* After Stop returned, all workers are gone and all lockers are free.
THEOREM RouterQuietWhenStopped == Spec => []QuietWhenStopped
  <1>1. IInv => QuietWhenStopped
    BY DEF IInv, AllGone, NoStuckLocker, QuietWhenStopped, Holds
  <1> QED
    BY AlwaysIInv, <1>1, PTL
=============================================================================
