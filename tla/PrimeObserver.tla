--------------------------- MODULE PrimeObserver ----------------------------
(***************************************************************************)
(* The prime observer (prime/observer): a copy of the components of the    *)
(* hub, kept up to date by the notifications of the hub and replaced as a  *)
(* whole by a refresh, which the task and the readers call.                *)
(*                                                                         *)
(* One component is followed; devices, things, rooms and areas are treated *)
(* alike, and their records are values.  Notifications reach the observer  *)
(* through the workers of the router, which has no lock for them, so that  *)
(* two may overtake each other; one may be lost, or fail to parse.         *)
(*                                                                         *)
(* A notification that fails NotifyFromMessage never reaches the observer  *)
(* and is one of those lost.                                               *)
(***************************************************************************)
EXTENDS Integers, Sequences, FiniteSetsExt

CONSTANTS
    IDs,           \* of the component
    Values,        \* what the hub knows of one
    Workers,       \* of the router
    MaxChanges,    \* bounds: of the changes at the hub,
    MaxFaults,     \* of the notifications lost or not parsed and of the requests
                   \* that fail
    None           \* no value, no notification, no answer

Components == [IDs -> Values \cup {None}]
Empty == [id \in IDs |-> None]
Notifications == [number : 1..MaxChanges, cmd : {"add", "edit", "delete"}, id : IDs,
                  param : Values \cup {None}]

ASSUME PrimeObserverAssumption ==
    /\ None \notin Values \cup Components \cup Notifications
    /\ MaxChanges \in Nat /\ MaxFaults \in Nat

VARIABLES
    hub,           \* the components of the hub
    sent,          \* the notifications on their way, in their order
    held,          \* per worker: the notification it has taken
    set,           \* the components of the observer
    refreshed,     \* of the observer: no refresh is due because of an error
    expired,       \* the refresh interval has passed since the last refresh
    refreshing,    \* a refresh holds the lock
    answer,        \* of the hub to its request
    applied,       \* history: the highest number of a notification processed,
    disturbed,     \* and whether one was lost or overtaken since the hub answered a
                   \* refresh with none on its way
    changes, faults

vars == <<hub, sent, held, set, refreshed, expired, refreshing, answer, applied,
          disturbed, changes, faults>>

-----------------------------------------------------------------------------

addDevice(s, n) == IF s[n.id] = None THEN [s EXCEPT ![n.id] = n.param] ELSE s
updateDevice(s, n) == [s EXCEPT ![n.id] = n.param]
deleteDevice(s, n) == [s EXCEPT ![n.id] = None]

\* updateDevice, updateThing, updateRoom and updateArea of the observer.
Updated(s, n) ==
    CASE n.cmd = "add"    -> addDevice(s, n)
      [] n.cmd = "edit"   -> updateDevice(s, n)
      [] n.cmd = "delete" -> deleteDevice(s, n)

\* No notification is on its way.
Quiet == sent = <<>> /\ \A w \in Workers : held[w] = None

\* As if the interval did not count.
RequiredAfterErrors == ~refreshed

isRefreshRequired == ~refreshed \/ expired

\* The history of a notification that was processed.
InOrder(n) ==
    /\ applied' = Max({applied, n.number})
    /\ disturbed' = (disturbed \/ n.number < applied)

Fault == faults < MaxFaults /\ faults' = faults + 1

\* The hub changes and notifies.
HubChanges ==
    /\ changes < MaxChanges /\ changes' = changes + 1
    /\ \E id \in IDs, v \in Values \cup {None} :
         LET cmd == IF hub[id] = None THEN "add" ELSE IF v = None THEN "delete" ELSE "edit"
         IN  /\ v # hub[id]
             /\ hub' = [hub EXCEPT ![id] = v]
             /\ sent' = Append(sent, [number |-> changes', cmd |-> cmd, id |-> id, param |-> v])
    /\ UNCHANGED <<held, set, refreshed, expired, refreshing, answer, applied, disturbed, faults>>

\* A worker of the router takes the next notification.
Take(w) ==
    /\ held[w] = None /\ sent # <<>>
    /\ held' = [held EXCEPT ![w] = Head(sent)] /\ sent' = Tail(sent)
    /\ UNCHANGED <<hub, set, refreshed, expired, refreshing, answer, applied, disturbed, changes,
                   faults>>

Lose ==
    /\ Fault
    /\ sent # <<>> /\ sent' = Tail(sent)
    /\ disturbed' = TRUE
    /\ UNCHANGED <<hub, held, set, refreshed, expired, refreshing, answer, applied, changes>>

\* As if a refresh did not hold the lock while it waits for the answer.
UpdateDuringRefresh(w) ==
    /\ held[w] # None
    /\ held' = [held EXCEPT ![w] = None]
    /\ \/ set' = Updated(set, held[w])
          /\ UNCHANGED <<refreshed, faults>>
       \/ Fault /\ refreshed' = FALSE /\ UNCHANGED set
    /\ InOrder(held[w])
    /\ UNCHANGED <<hub, sent, expired, refreshing, answer, changes>>

\* HandleEvtPD7Notify and Update: the notification is applied, or cannot be
\* parsed and calls for a refresh.
Update(w) ==
    /\ held[w] # None /\ ~refreshing
    /\ held' = [held EXCEPT ![w] = None]
    /\ \/ set' = Updated(set, held[w])
          /\ UNCHANGED <<refreshed, faults>>
       \/ Fault /\ refreshed' = FALSE /\ UNCHANGED set
    /\ InOrder(held[w])
    /\ UNCHANGED <<hub, sent, expired, refreshing, answer, changes>>

\* doRefresh, by the task, by a reader or by the application, which may force it:
\* the lock is held from the request ...
Refresh(force) ==
    /\ ~refreshing /\ (force \/ isRefreshRequired)
    /\ refreshing' = TRUE
    /\ UNCHANGED <<hub, sent, held, set, refreshed, expired, answer, applied, disturbed, changes,
                   faults>>

\* ... over the answer of the hub ...
Answer ==
    /\ refreshing /\ answer = None
    /\ answer' = hub
    /\ disturbed' = (disturbed /\ ~Quiet)
    /\ UNCHANGED <<hub, sent, held, set, refreshed, expired, refreshing, applied, changes, faults>>

\* ... to its end.
Refreshed ==
    /\ answer # None
    /\ set' = answer /\ refreshed' = TRUE /\ expired' = FALSE
    /\ answer' = None /\ refreshing' = FALSE
    /\ UNCHANGED <<hub, sent, held, applied, disturbed, changes, faults>>

\* GetComponents returns an error, of the transport or at the timeout.
RefreshFails ==
    /\ refreshing /\ Fault
    /\ answer' = None /\ refreshing' = FALSE
    /\ disturbed' = (disturbed \/ answer # None)
    /\ UNCHANGED <<hub, sent, held, set, refreshed, expired, applied, changes>>

Expire ==
    /\ refreshed /\ ~expired /\ expired' = TRUE
    /\ UNCHANGED <<hub, sent, held, set, refreshed, refreshing, answer, applied, disturbed, changes,
                   faults>>

Init ==
    /\ hub \in Components
    /\ sent = <<>> /\ held = [w \in Workers |-> None]
    /\ set = Empty /\ refreshed = FALSE /\ expired = FALSE
    /\ refreshing = FALSE /\ answer = None
    /\ applied = 0 /\ disturbed = FALSE
    /\ changes = 0 /\ faults = 0

Next ==
    \/ HubChanges \/ Lose
    \/ \E w \in Workers : Take(w) \/ Update(w)
    \/ \E force \in BOOLEAN : Refresh(force)
    \/ Answer \/ Refreshed \/ RefreshFails \/ Expire

Spec == Init /\ [][Next]_vars

\* The workers and the task go on, time passes, and a request ends.
Fairness ==
    /\ \A w \in Workers : WF_vars(Take(w)) /\ SF_vars(Update(w))
    /\ SF_vars(Refresh(FALSE)) /\ WF_vars(Answer) /\ WF_vars(Refreshed) /\ WF_vars(Expire)

FairSpec == Spec /\ Fairness

-----------------------------------------------------------------------------

TypeOK ==
    /\ hub \in Components /\ set \in Components
    /\ sent \in Seq(Notifications) /\ Len(sent) <= changes
    /\ held \in [Workers -> Notifications \cup {None}]
    /\ refreshed \in BOOLEAN /\ expired \in BOOLEAN /\ refreshing \in BOOLEAN
    /\ answer \in Components \cup {None} /\ (answer # None => refreshing)
    /\ applied \in 0..MaxChanges /\ disturbed \in BOOLEAN
    /\ changes \in 0..MaxChanges /\ faults \in 0..MaxFaults

\* What the observer serves without a refresh is what the hub has, once the
\* notifications are in, however old or new they were when the last refresh
\* replaced the copy, and unless one was lost or overtaken since (Update and
\* doRefresh take the same lock; an error in Update calls for a refresh).
CopyFaithful == refreshed /\ Quiet /\ ~disturbed /\ ~refreshing => set = hub

\* Whatever was lost, overtaken or failed, the copy is in the end that of the hub
\* (isRefreshRequired, by the interval if by nothing else).
CopyRecovers == <>[](set = hub)
=============================================================================
