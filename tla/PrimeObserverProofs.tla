------------------------- MODULE PrimeObserverProofs -------------------------
(***************************************************************************)
(* Proofs about PrimeObserver, for any number of components, values and    *)
(* workers of the router, and any number of changes and faults.            *)
(***************************************************************************)
EXTENDS PrimeObserver, TLAPS

\* The notifications on their way: in the queue q or in the hands h of a worker.
InFlight(q, h) ==
    {n \in Notifications : (\E i \in 1..Len(q) : q[i] = n) \/ (\E w \in Workers : h[w] = n)}

\* No two of them have the same number, and the queue is in the order of the
\* numbers.
Numbered(q, h, top) ==
    /\ \A i \in 1..Len(q) : q[i].number <= top
    /\ \A i, j \in 1..Len(q) : i < j => q[i].number < q[j].number
    /\ \A w \in Workers : h[w] # None => h[w].number <= top
    /\ \A w, v \in Workers : h[w] # None /\ h[v] # None /\ w # v => h[w].number # h[v].number
    /\ \A w \in Workers, i \in 1..Len(q) : h[w] # None => h[w].number # q[i].number

Numbers == Numbered(sent, held, changes) /\ applied <= changes

\* One of the set F is older than one that was processed.
Overtaken(F, top) == \E n \in F : n.number < top

\* The newest notification about a component says what the hub has.
NewestIsHub(F, H) ==
    \A n \in F : (\A m \in F : m.id = n.id => m.number <= n.number) => n.param = H[n.id]

\* A component is added only when it was deleted before.
AddedOnce(F) ==
    \A n, m \in F :
        /\ n.cmd = "add" /\ m.id = n.id /\ m.number < n.number
        /\ \A k \in F : k.id = n.id => k.number <= m.number \/ n.number <= k.number
        => m.cmd = "delete"

\* A component of the copy C that no notification is about is the hub's; one that
\* a single notification adds is not there, or already what is added.
CopyIsNear(F, H, C) ==
    /\ \A id \in IDs : (\A n \in F : n.id # id) => C[id] = H[id]
    /\ \A n \in F :
         n.cmd = "add" /\ (\A m \in F : m.id = n.id => m = n) => C[n.id] \in {None, n.param}

\* What the parameters of a notification are.
Params(F) == \A n \in F : n.cmd = "delete" <=> n.param = None

\* The copy that the observer has, or has been sent.
Copy == IF answer # None THEN answer ELSE set

Consistent ==
    ~disturbed /\ ~Overtaken(InFlight(sent, held), applied) =>
        /\ NewestIsHub(InFlight(sent, held), hub)
        /\ AddedOnce(InFlight(sent, held))
        /\ refreshed \/ answer # None => CopyIsNear(InFlight(sent, held), hub, Copy)

IInv == TypeOK /\ Numbers /\ Params(InFlight(sent, held)) /\ Consistent

-----------------------------------------------------------------------------

\* The greater of two numbers.
LEMMA MaxOfTwo ==
    ASSUME NEW a \in Nat, NEW b \in Nat
    PROVE  Max({a, b}) \in {a, b} /\ a <= Max({a, b}) /\ b <= Max({a, b})
  <1>1. \E x \in {a, b} : \A y \in {a, b} : x >= y
    <2>1. CASE a >= b
      <3>1. \A y \in {a, b} : a >= y
        BY <2>1
      <3> QED
        BY <3>1
    <2>2. CASE b >= a
      <3>1. \A y \in {a, b} : b >= y
        BY <2>2
      <3> QED
        BY <3>1
    <2> QED
      BY <2>1, <2>2
  <1>2. Max({a, b}) \in {a, b} /\ \A y \in {a, b} : Max({a, b}) >= y
    BY <1>1, Zenon DEF Max
  <1> QED
    BY <1>2

\* The fields of a notification.
LEMMA Fields ==
    ASSUME NEW n \in Notifications
    PROVE  /\ n.number \in 1..MaxChanges /\ n.number \in Nat
           /\ n.cmd \in {"add", "edit", "delete"}
           /\ n.id \in IDs /\ n.param \in Values \cup {None}
           /\ n # None
  BY PrimeObserverAssumption DEF Notifications

\* What a notification makes of a copy.
LEMMA UpdatedCopy ==
    ASSUME NEW n \in Notifications, NEW C \in Components
    PROVE  /\ Updated(C, n) \in Components
           /\ \A id \in IDs \ {n.id} : Updated(C, n)[id] = C[id]
           /\ n.cmd = "delete" => Updated(C, n)[n.id] = None
           /\ n.cmd = "edit" => Updated(C, n)[n.id] = n.param
           /\ n.cmd = "add" => Updated(C, n)[n.id] = IF C[n.id] = None THEN n.param ELSE C[n.id]
  <1> USE Fields DEF Components
  <1>1. CASE n.cmd = "add"
    BY <1>1 DEF Updated, addDevice
  <1>2. CASE n.cmd = "edit"
    BY <1>2 DEF Updated, updateDevice
  <1>3. CASE n.cmd = "delete"
    BY <1>3 DEF Updated, deleteDevice
  <1> QED
    BY <1>1, <1>2, <1>3

-----------------------------------------------------------------------------

\* A new notification, with the highest number, about a component that the hub
\* has as the notification says, keeps the notifications consistent.
LEMMA NewNotification ==
    ASSUME NEW F \in SUBSET Notifications, NEW H \in Components, NEW C \in Components,
           NEW n \in Notifications,
           \A m \in F : m.number < n.number,
           n.cmd = "add" <=> H[n.id] = None,
           n.cmd = "delete" <=> n.param = None,
           Params(F), NewestIsHub(F, H), AddedOnce(F)
    PROVE  LET G == F \cup {n}
               I == [H EXCEPT ![n.id] = n.param]
           IN  /\ NewestIsHub(G, I) /\ AddedOnce(G)
               /\ CopyIsNear(F, H, C) => CopyIsNear(G, I, C)
  <1> DEFINE G == F \cup {n}
             I == [H EXCEPT ![n.id] = n.param]
  <1>0. /\ G \in SUBSET Notifications
        /\ I[n.id] = n.param /\ \A id \in IDs \ {n.id} : I[id] = H[id]
    BY Fields DEF Components
  <1>1. \A m \in G : m.number \in Nat /\ m.id \in IDs
    BY <1>0, Fields
  <1> HIDE DEF I
  <1>2. NewestIsHub(G, I)
    <2> SUFFICES ASSUME NEW m \in G, \A k \in G : k.id = m.id => k.number <= m.number
                 PROVE  m.param = I[m.id]
      BY DEF NewestIsHub
    <2>1. CASE m = n
      BY <2>1, <1>0
    <2>2. CASE m # n
      <3>1. m \in F /\ m.number < n.number
        BY <2>2
      <3>2. m.id # n.id
        BY <3>1, <1>1
      <3>3. m.param = H[m.id]
        BY <3>1 DEF NewestIsHub
      <3> QED
        BY <3>2, <3>3, <1>0, <1>1
    <2> QED
      BY <2>1, <2>2
  <1>3. AddedOnce(G)
    <2> SUFFICES ASSUME NEW a \in G, NEW m \in G,
                        a.cmd = "add", m.id = a.id, m.number < a.number,
                        \A k \in G : k.id = a.id => k.number <= m.number \/ a.number <= k.number
                 PROVE  m.cmd = "delete"
      BY DEF AddedOnce
    <2>1. CASE a = n
      <3>1. m \in F
        BY <2>1, <1>1
      <3>2. \A k \in F : k.id = m.id => k.number <= m.number
        BY <2>1, <1>1
      <3>3. m.param = H[n.id] /\ H[n.id] = None
        BY <3>1, <3>2, <2>1 DEF NewestIsHub
      <3> QED
        BY <3>1, <3>3 DEF Params
    <2>2. CASE a # n
      <3>1. a \in F /\ m \in F
        BY <2>2, <1>1
      <3> QED
        BY <3>1 DEF AddedOnce
    <2> QED
      BY <2>1, <2>2
  <1>4. ASSUME CopyIsNear(F, H, C) PROVE CopyIsNear(G, I, C)
    <2>1. ASSUME NEW id \in IDs, \A m \in G : m.id # id PROVE C[id] = I[id]
      BY <2>1, <1>4, <1>0 DEF CopyIsNear
    <2>2. ASSUME NEW a \in G, a.cmd = "add", \A m \in G : m.id = a.id => m = a
          PROVE  C[a.id] \in {None, a.param}
      <3>1. CASE a = n
        <4>1. \A m \in F : m.id # n.id
          BY <3>1, <2>2, <1>1
        <4>2. C[n.id] = H[n.id] /\ H[n.id] = None
          BY <4>1, <3>1, <2>2, <1>4, Fields DEF CopyIsNear
        <4> QED
          BY <4>2, <3>1
      <3>2. CASE a # n
        BY <3>2, <2>2, <1>4 DEF CopyIsNear
      <3> QED
        BY <3>1, <3>2
    <2> QED
      BY <2>1, <2>2 DEF CopyIsNear
  <1> QED
    BY <1>2, <1>3, <1>4 DEF I

\* The oldest notification can be taken away, and be applied to the copy.
LEMMA OldestNotification ==
    ASSUME NEW F \in SUBSET Notifications, NEW H \in Components, NEW C \in Components,
           NEW n \in F,
           \A m \in F \ {n} : n.number < m.number,
           Params(F), NewestIsHub(F, H), AddedOnce(F)
    PROVE  LET G == F \ {n}
           IN  /\ NewestIsHub(G, H) /\ AddedOnce(G)
               /\ CopyIsNear(F, H, C) => CopyIsNear(G, H, Updated(C, n))
  <1> DEFINE G == F \ {n}
             D == Updated(C, n)
  <1>1. \A m \in F : m \in Notifications /\ m.number \in Nat /\ m.id \in IDs
    BY Fields
  <1>2. NewestIsHub(G, H)
    <2> SUFFICES ASSUME NEW m \in G, \A k \in G : k.id = m.id => k.number <= m.number
                 PROVE  m.param = H[m.id]
      BY DEF NewestIsHub
    <2>1. \A k \in F : k.id = m.id => k.number <= m.number
      BY <1>1
    <2> QED
      BY <2>1 DEF NewestIsHub
  <1>3. AddedOnce(G)
    <2> SUFFICES ASSUME NEW a \in G, NEW m \in G,
                        a.cmd = "add", m.id = a.id, m.number < a.number,
                        \A k \in G : k.id = a.id => k.number <= m.number \/ a.number <= k.number
                 PROVE  m.cmd = "delete"
      BY DEF AddedOnce
    <2>1. n.number <= m.number
      BY <1>1
    <2> QED
      BY <2>1, <1>1 DEF AddedOnce
  <1>4. ASSUME CopyIsNear(F, H, C) PROVE CopyIsNear(G, H, D)
    <2>0. /\ \A id \in IDs \ {n.id} : D[id] = C[id]
          /\ n.cmd = "delete" => D[n.id] = None
          /\ n.cmd = "edit" => D[n.id] = n.param
          /\ n.cmd = "add" => D[n.id] = IF C[n.id] = None THEN n.param ELSE C[n.id]
          /\ n.cmd \in {"add", "edit", "delete"}
      BY <1>1, UpdatedCopy, Fields
    <2> HIDE DEF D
    <2>1. ASSUME NEW id \in IDs, \A m \in G : m.id # id PROVE D[id] = H[id]
      <3>1. CASE id # n.id
        BY <3>1, <2>0, <2>1, <1>4 DEF CopyIsNear
      <3>2. CASE id = n.id
        <4>1. \A m \in F : m.id = n.id => m = n
          BY <3>2, <2>1
        <4>2. n.param = H[id]
          BY <4>1, <3>2, <1>1 DEF NewestIsHub
        <4>3. n.cmd = "add" => C[id] \in {None, n.param}
          BY <4>1, <3>2, <1>4 DEF CopyIsNear
        <4>4. n.cmd = "delete" => n.param = None
          BY DEF Params
        <4> QED
          BY <4>2, <4>3, <4>4, <3>2, <2>0
      <3> QED
        BY <3>1, <3>2
    <2>2. ASSUME NEW a \in G, a.cmd = "add", \A m \in G : m.id = a.id => m = a
          PROVE  D[a.id] \in {None, a.param}
      <3>1. CASE a.id # n.id
        <4>1. \A m \in F : m.id = a.id => m = a
          BY <3>1, <2>2
        <4> QED
          BY <4>1, <3>1, <2>0, <2>2, <1>1, <1>4 DEF CopyIsNear
      <3>2. CASE a.id = n.id
        <4>1. n.number < a.number
          BY <2>2
        <4>2. \A k \in F : k.id = a.id => k = n \/ k = a
          BY <2>2
        <4>3. \A k \in F : k.id = a.id => k.number <= n.number \/ a.number <= k.number
          BY <4>2, <1>1
        <4>4. n.cmd = "delete"
          BY <4>1, <4>3, <3>2, <2>2 DEF AddedOnce
        <4> QED
          BY <4>4, <3>2, <2>0
      <3> QED
        BY <3>1, <3>2
    <2> QED
      BY <2>1, <2>2 DEF CopyIsNear
  <1> QED
    BY <1>2, <1>3, <1>4

-----------------------------------------------------------------------------

\* The hub sends one more, ...
LEMMA InFlightSent ==
    ASSUME NEW q \in Seq(Notifications), NEW h, NEW n \in Notifications
    PROVE  InFlight(Append(q, n), h) = InFlight(q, h) \cup {n}
  <1> DEFINE r == Append(q, n)
  <1>1. Len(r) = Len(q) + 1 /\ r[Len(q) + 1] = n /\ \A i \in 1..Len(q) : r[i] = q[i]
    OBVIOUS
  <1>2. Len(q) \in Nat
    OBVIOUS
  <1> HIDE DEF r
  <1>3. \A m : (\E i \in 1..Len(r) : r[i] = m) <=> (m = n \/ \E i \in 1..Len(q) : q[i] = m)
    BY <1>1, <1>2
  <1>4. InFlight(r, h) = InFlight(q, h) \cup {n}
    BY <1>3 DEF InFlight
  <1> QED
    BY <1>4 DEF r

\* ... a worker takes one, which is still on its way, ...
LEMMA InFlightTaken ==
    ASSUME NEW q \in Seq(Notifications), NEW h \in [Workers -> Notifications \cup {None}],
           NEW w \in Workers, h[w] = None, q # <<>>
    PROVE  InFlight(Tail(q), [h EXCEPT ![w] = Head(q)]) = InFlight(q, h)
  <1> DEFINE r == Tail(q)
             g == [h EXCEPT ![w] = Head(q)]
  <1>1. /\ Len(q) \in Nat /\ Len(q) # 0
        /\ Len(r) = Len(q) - 1 /\ \A i \in 1..Len(r) : r[i] = q[i + 1]
        /\ g[w] = q[1] /\ \A v \in Workers \ {w} : g[v] = h[v]
    OBVIOUS
  <1>2. h[w] \notin Notifications
    BY PrimeObserverAssumption
  <1> HIDE DEF r, g
  <1>3. ASSUME NEW m \in InFlight(r, g) PROVE m \in InFlight(q, h)
    <2>1. CASE \E i \in 1..Len(r) : r[i] = m
      <3>1. PICK i \in 1..Len(r) : r[i] = m
        BY <2>1
      <3>2. i + 1 \in 1..Len(q) /\ q[i + 1] = m
        BY <3>1, <1>1
      <3> QED
        BY <3>2, <1>3 DEF InFlight
    <2>2. CASE \E v \in Workers : g[v] = m
      <3>1. PICK v \in Workers : g[v] = m
        BY <2>2
      <3>2. 1 \in 1..Len(q)
        BY <1>1
      <3> QED
        BY <3>1, <3>2, <1>1, <1>3 DEF InFlight
    <2> QED
      BY <2>1, <2>2, <1>3 DEF InFlight
  <1>4. ASSUME NEW m \in InFlight(q, h) PROVE m \in InFlight(r, g)
    <2>1. CASE \E i \in 1..Len(q) : q[i] = m
      <3>1. PICK i \in 1..Len(q) : q[i] = m
        BY <2>1
      <3>2. CASE i = 1
        BY <3>1, <3>2, <1>1, <1>4 DEF InFlight
      <3>3. CASE i # 1
        <4>1. i - 1 \in 1..Len(r) /\ r[i - 1] = q[(i - 1) + 1] /\ (i - 1) + 1 = i
          BY <3>3, <1>1
        <4>2. r[i - 1] = m
          BY <4>1, <3>1
        <4> QED
          BY <4>1, <4>2, <1>4 DEF InFlight
      <3> QED
        BY <3>2, <3>3
    <2>2. CASE \E v \in Workers : h[v] = m
      <3>1. PICK v \in Workers : h[v] = m
        BY <2>2
      <3>2. v # w
        BY <3>1, <1>2, <1>4 DEF InFlight
      <3> QED
        BY <3>1, <3>2, <1>1, <1>4 DEF InFlight
    <2> QED
      BY <2>1, <2>2, <1>4 DEF InFlight
  <1>5. InFlight(r, g) = InFlight(q, h)
    BY <1>3, <1>4
  <1> QED
    BY <1>5 DEF r, g

\* ... and hands it over.
LEMMA InFlightDone ==
    ASSUME NEW q \in Seq(Notifications), NEW h \in [Workers -> Notifications \cup {None}],
           NEW top, Numbered(q, h, top),
           NEW w \in Workers, h[w] # None
    PROVE  /\ h[w] \in InFlight(q, h)
           /\ InFlight(q, [h EXCEPT ![w] = None]) = InFlight(q, h) \ {h[w]}
           /\ \A m \in InFlight(q, h) \ {h[w]} : m.number # h[w].number
  <1> DEFINE g == [h EXCEPT ![w] = None]
  <1>1. /\ h[w] \in Notifications
        /\ g[w] = None /\ \A v \in Workers \ {w} : g[v] = h[v]
    OBVIOUS
  <1>2. None \notin Notifications
    BY PrimeObserverAssumption
  <1> HIDE DEF g
  <1>3. h[w] \in InFlight(q, h)
    BY <1>1 DEF InFlight
  <1>4. ASSUME NEW m \in InFlight(q, h), m # h[w] PROVE m.number # h[w].number /\ m \in InFlight(q, g)
    <2>1. CASE \E i \in 1..Len(q) : q[i] = m
      BY <2>1, <1>4 DEF InFlight, Numbered
    <2>2. CASE \E v \in Workers : h[v] = m
      <3>1. PICK v \in Workers : h[v] = m
        BY <2>2
      <3>2. v # w /\ h[v] # None
        BY <3>1, <1>2, <1>4 DEF InFlight
      <3> QED
        BY <3>1, <3>2, <1>1, <1>4 DEF InFlight, Numbered
    <2> QED
      BY <2>1, <2>2, <1>4 DEF InFlight
  <1>5. ASSUME NEW m \in InFlight(q, g) PROVE m \in InFlight(q, h) /\ m # h[w]
    <2>1. CASE \E i \in 1..Len(q) : q[i] = m
      BY <2>1, <1>5 DEF InFlight, Numbered
    <2>2. CASE \E v \in Workers : g[v] = m
      <3>1. PICK v \in Workers : g[v] = m
        BY <2>2
      <3>2. v # w /\ h[v] # None /\ h[v] = m
        BY <3>1, <1>1, <1>2, <1>5 DEF InFlight
      <3> QED
        BY <3>1, <3>2, <1>5 DEF InFlight, Numbered
    <2> QED
      BY <2>1, <2>2, <1>5 DEF InFlight
  <1>6. InFlight(q, g) = InFlight(q, h) \ {h[w]}
    BY <1>4, <1>5
  <1> QED
    BY <1>3, <1>4, <1>6 DEF g

-----------------------------------------------------------------------------

\* The type invariant, action by action.
LEMMA TypesNext == TypeOK /\ [Next]_vars => TypeOK'
  <1> SUFFICES ASSUME TypeOK, [Next]_vars PROVE TypeOK'
    OBVIOUS
  <1> USE PrimeObserverAssumption DEF TypeOK
  <1>0. changes \in Nat /\ faults \in Nat /\ applied \in Nat
    OBVIOUS
  <1>1. CASE HubChanges
    <2>1. PICK id \in IDs, v \in Values \cup {None} :
            /\ hub' = [hub EXCEPT ![id] = v]
            /\ sent' = Append(sent, [number |-> changes', cmd |-> IF hub[id] = None THEN "add"
                                        ELSE IF v = None THEN "delete" ELSE "edit",
                                     id |-> id, param |-> v])
      BY <1>1 DEF HubChanges
    <2>2. hub' \in Components
      BY <2>1 DEF Components
    <2>3. changes' = changes + 1 /\ changes' \in 1..MaxChanges
      BY <1>0, <1>1 DEF HubChanges
    <2>4. [number |-> changes', cmd |-> IF hub[id] = None THEN "add"
                                        ELSE IF v = None THEN "delete" ELSE "edit",
           id |-> id, param |-> v] \in Notifications
      BY <2>3 DEF Notifications
    <2>5. sent' \in Seq(Notifications) /\ Len(sent') <= changes'
      BY <2>1, <2>3, <2>4, <1>0
    <2> QED
      BY <2>2, <2>3, <2>5, <1>0, <1>1 DEF HubChanges
  <1>2. CASE Lose
    <2>1. sent' \in Seq(Notifications) /\ Len(sent') <= changes
      BY <1>0, <1>2 DEF Lose
    <2>2. faults' \in 0..MaxFaults /\ disturbed' = TRUE
      BY <1>0, <1>2 DEF Lose, Fault
    <2> QED
      BY <2>1, <2>2, <1>2 DEF Lose
  <1>3. ASSUME NEW w \in Workers, Take(w) PROVE TypeOK'
    <2>1. sent' \in Seq(Notifications) /\ Len(sent') <= changes /\ Head(sent) \in Notifications
      BY <1>0, <1>3 DEF Take
    <2>2. held' \in [Workers -> Notifications \cup {None}]
      BY <2>1, <1>3 DEF Take
    <2> QED
      BY <2>1, <2>2, <1>3 DEF Take
  <1>4. ASSUME NEW w \in Workers, Update(w) PROVE TypeOK'
    <2>1. held[w] \in Notifications /\ held' \in [Workers -> Notifications \cup {None}]
      BY <1>4 DEF Update
    <2>2. held[w].number \in 1..MaxChanges
      BY <2>1, Fields
    <2>3. Max({applied, held[w].number}) \in {applied, held[w].number}
      BY <2>2, <1>0, MaxOfTwo
    <2>4. applied' \in 0..MaxChanges /\ disturbed' \in BOOLEAN
      BY <2>2, <2>3, <1>4 DEF Update, InOrder
    <2>5. set' \in Components /\ refreshed' \in BOOLEAN /\ faults' \in 0..MaxFaults
      <3>1. CASE set' = Updated(set, held[w]) /\ UNCHANGED <<refreshed, faults>>
        BY <3>1, <2>1, UpdatedCopy
      <3>2. CASE Fault /\ refreshed' = FALSE /\ UNCHANGED set
        <4>1. faults' \in 0..MaxFaults
          BY <3>2, <1>0 DEF Fault
        <4> QED
          BY <4>1, <3>2
      <3> QED
        BY <3>1, <3>2, <1>4 DEF Update
    <2> QED
      BY <2>1, <2>4, <2>5, <1>4 DEF Update
  <1>5. ASSUME NEW force \in BOOLEAN, Refresh(force) PROVE TypeOK'
    BY <1>5 DEF Refresh
  <1>6. CASE Answer
    <2>1. disturbed' \in BOOLEAN
      BY <1>6 DEF Answer
    <2> QED
      BY <2>1, <1>6 DEF Answer
  <1>7. CASE Refreshed
    BY <1>7 DEF Refreshed
  <1>8. CASE RefreshFails
    <2>1. disturbed' \in BOOLEAN /\ faults' \in 0..MaxFaults
      BY <1>0, <1>8 DEF RefreshFails, Fault
    <2> QED
      BY <2>1, <1>8 DEF RefreshFails
  <1>9. CASE Expire
    BY <1>9 DEF Expire
  <1>10. CASE UNCHANGED vars
    BY <1>10 DEF vars
  <1> QED
    BY <1>1, <1>2, <1>3, <1>4, <1>5, <1>6, <1>7, <1>8, <1>9, <1>10 DEF Next

\* The numbers stay in order and distinct.
LEMMA NumbersNext == TypeOK /\ Numbers /\ [Next]_vars => Numbers'
  <1> SUFFICES ASSUME TypeOK, Numbers, [Next]_vars PROVE Numbers'
    OBVIOUS
  <1>0. /\ changes \in Nat /\ applied \in Nat /\ Len(sent) \in Nat
        /\ \A i \in 1..Len(sent) : sent[i] \in Notifications /\ sent[i].number \in Nat
        /\ \A w \in Workers : held[w] # None => held[w] \in Notifications /\ held[w].number \in Nat
    BY Fields, PrimeObserverAssumption DEF TypeOK
  <1>1. CASE HubChanges
    <2>1. PICK n : sent' = Append(sent, n) /\ n.number = changes'
      BY <1>1 DEF HubChanges
    <2>2. /\ Len(sent') = Len(sent) + 1 /\ sent'[Len(sent) + 1] = n
          /\ \A i \in 1..Len(sent) : sent'[i] = sent[i]
      BY <2>1 DEF TypeOK
    <2>3. changes' = changes + 1 /\ UNCHANGED <<held, applied>>
      BY <1>1 DEF HubChanges
    <2>4. Numbered(sent', held', changes')
      BY <2>1, <2>2, <2>3, <1>0 DEF Numbers, Numbered
    <2> QED
      BY <2>3, <2>4, <1>0 DEF Numbers
  <1>2. ASSUME sent # <<>>, sent' = Tail(sent), UNCHANGED <<changes, applied>>,
               held' = held \/ \E w \in Workers : held[w] = None /\ held' = [held EXCEPT ![w] = Head(sent)]
        PROVE  Numbers'
    <2>1. /\ Len(sent) # 0 /\ Len(sent') = Len(sent) - 1 /\ Head(sent) = sent[1]
          /\ \A i \in 1..Len(sent') : sent'[i] = sent[i + 1] /\ i + 1 \in 1..Len(sent)
      BY <1>0, <1>2 DEF TypeOK
    <2>2. \A i \in 1..Len(sent') : sent[1].number < sent'[i].number
      BY <2>1, <1>0 DEF Numbers, Numbered
    <2>3. 1 \in 1..Len(sent)
      BY <2>1, <1>0
    <2>4. /\ \A i \in 1..Len(sent') : sent'[i].number <= changes
          /\ \A i, j \in 1..Len(sent') : i < j => sent'[i].number < sent'[j].number
          /\ \A w \in Workers, i \in 1..Len(sent') : held[w] # None => held[w].number # sent'[i].number
      <3>1. \A i, j \in 1..Len(sent') : i < j => i + 1 < j + 1
        BY <2>1, <1>0
      <3>2. \A i, j \in 1..Len(sent') : i < j => sent'[i].number < sent'[j].number
        BY <3>1, <2>1 DEF Numbers, Numbered
      <3> QED
        BY <3>2, <2>1 DEF Numbers, Numbered
    <2>5. CASE held' = held
      BY <2>4, <2>5, <1>2 DEF Numbers, Numbered
    <2>6. ASSUME NEW w \in Workers, held[w] = None, held' = [held EXCEPT ![w] = Head(sent)]
          PROVE  Numbers'
      <3>1. held'[w] = sent[1] /\ \A v \in Workers \ {w} : held'[v] = held[v]
        BY <2>1, <2>6 DEF TypeOK
      <3>2. \A v \in Workers : held'[v] # None => held'[v].number <= changes
        BY <3>1, <2>3 DEF Numbers, Numbered
      <3>3. \A u, v \in Workers : held'[u] # None /\ held'[v] # None /\ u # v
                                    => held'[u].number # held'[v].number
        BY <3>1, <2>3 DEF Numbers, Numbered
      <3>4. \A v \in Workers, i \in 1..Len(sent') : held'[v] # None => held'[v].number # sent'[i].number
        BY <3>1, <2>1, <2>2, <2>3, <2>4, <1>0
      <3>5. Numbered(sent', held', changes')
        BY <3>2, <3>3, <3>4, <2>4, <1>2 DEF Numbered
      <3> QED
        BY <3>5, <1>2 DEF Numbers
    <2> QED
      BY <2>5, <2>6, <1>2
  <1>3. CASE Lose
    BY <1>2, <1>3 DEF Lose
  <1>4. ASSUME NEW w \in Workers, Take(w) PROVE Numbers'
    BY <1>2, <1>4 DEF Take
  <1>5. ASSUME NEW w \in Workers, Update(w) PROVE Numbers'
    <2>1. held'[w] = None /\ \A v \in Workers \ {w} : held'[v] = held[v]
      BY <1>5 DEF Update, TypeOK
    <2>2. UNCHANGED <<sent, changes>> /\ held[w] # None /\ applied' = Max({applied, held[w].number})
      BY <1>5 DEF Update, InOrder
    <2>3. held[w].number <= changes
      BY <2>2 DEF Numbers, Numbered
    <2>4. applied' <= changes
      BY <2>2, <2>3, <1>0, MaxOfTwo DEF Numbers
    <2>5. Numbered(sent, held', changes)
      BY <2>1 DEF Numbers, Numbered
    <2> QED
      BY <2>2, <2>4, <2>5 DEF Numbers
  <1>6. CASE UNCHANGED <<sent, held, changes, applied>>
    BY <1>6 DEF Numbers
  <1> QED
    BY <1>1, <1>3, <1>4, <1>5, <1>6
    DEF Next, Refresh, Answer, Refreshed, RefreshFails, Expire, vars

-----------------------------------------------------------------------------

\* The initial state satisfies the invariant.
LEMMA InitIInv == Init => IInv
  <1> SUFFICES ASSUME Init PROVE IInv
    OBVIOUS
  <1> USE PrimeObserverAssumption DEF Init
  <1>1. TypeOK
    <2>1. hub \in Components /\ set \in Components
      BY DEF Components, Empty
    <2>2. sent \in Seq(Notifications) /\ Len(sent) <= changes
      OBVIOUS
    <2>3. held \in [Workers -> Notifications \cup {None}]
      OBVIOUS
    <2>4. applied \in 0..MaxChanges /\ changes \in 0..MaxChanges /\ faults \in 0..MaxFaults
      OBVIOUS
    <2> QED
      BY <2>1, <2>2, <2>3, <2>4 DEF TypeOK
  <1>2. Len(sent) = 0
    OBVIOUS
  <1>3. Numbers
    BY <1>2 DEF Numbers, Numbered
  <1>4. InFlight(sent, held) = {}
    BY <1>2 DEF InFlight
  <1>5. Params(InFlight(sent, held)) /\ Consistent
    BY <1>4 DEF Params, Consistent, NewestIsHub, AddedOnce
  <1> QED
    BY <1>1, <1>3, <1>5 DEF IInv

\* A change at the hub keeps the notifications and the copy consistent.
LEMMA ConsistentChange ==
    ASSUME IInv, HubChanges
    PROVE  Params(InFlight(sent', held')) /\ Consistent'
  <1> DEFINE F == InFlight(sent, held)
  <1>0. /\ changes \in Nat /\ applied \in Nat /\ hub \in Components /\ set \in Components
        /\ answer \in Components \cup {None} /\ sent \in Seq(Notifications)
        /\ Copy \in Components /\ F \in SUBSET Notifications
    BY PrimeObserverAssumption DEF IInv, TypeOK, Copy, InFlight
  <1>1. PICK id \in IDs, v \in Values \cup {None} :
          /\ v # hub[id] /\ hub' = [hub EXCEPT ![id] = v]
          /\ sent' = Append(sent,
               [number |-> changes',
                cmd |-> IF hub[id] = None THEN "add" ELSE IF v = None THEN "delete" ELSE "edit",
                id |-> id, param |-> v])
    BY DEF HubChanges
  <1> DEFINE n == [number |-> changes',
                   cmd |-> IF hub[id] = None THEN "add"
                           ELSE IF v = None THEN "delete" ELSE "edit",
                   id |-> id, param |-> v]
  <1>2. changes' = changes + 1 /\ changes' \in 1..MaxChanges
    BY <1>0, PrimeObserverAssumption DEF HubChanges
  <1>3. /\ n \in Notifications /\ n.number = changes' /\ n.id = id /\ n.param = v
        /\ n.cmd = "add" <=> hub[id] = None
        /\ n.cmd = "delete" <=> v = None
        /\ sent' = Append(sent, n)
    BY <1>1, <1>2 DEF Notifications
  <1> HIDE DEF n
  <1>4. UNCHANGED <<held, set, refreshed, answer, applied, disturbed>>
    BY DEF HubChanges
  <1>5. InFlight(sent', held') = F \cup {n}
    BY <1>0, <1>1, <1>3, <1>4, InFlightSent
  <1>6. \A m \in F : m.number < n.number
    BY <1>0, <1>2, <1>3, Fields DEF IInv, Numbers, Numbered, InFlight
  <1>7. Params(F \cup {n})
    BY <1>3 DEF IInv, Params
  <1>8. Copy' = Copy
    BY <1>4 DEF Copy
  <1>9. ~Overtaken(F \cup {n}, applied) => ~Overtaken(F, applied)
    BY DEF Overtaken
  <1> HIDE DEF F
  <1>10. ASSUME ~disturbed, ~Overtaken(F \cup {n}, applied)
         PROVE  /\ NewestIsHub(F \cup {n}, hub') /\ AddedOnce(F \cup {n})
                /\ refreshed \/ answer # None => CopyIsNear(F \cup {n}, hub', Copy)
    <2>1. /\ NewestIsHub(F, hub) /\ AddedOnce(F)
          /\ refreshed \/ answer # None => CopyIsNear(F, hub, Copy)
      BY <1>9, <1>10 DEF IInv, Consistent, F
    <2>2. Params(F)
      BY DEF IInv, F
    <2> QED
      BY <2>1, <2>2, <1>0, <1>1, <1>3, <1>6, NewNotification
  <1>11. Consistent'
    BY <1>4, <1>5, <1>8, <1>10 DEF Consistent
  <1> QED
    BY <1>5, <1>7, <1>11

\* A notification that is applied keeps them consistent, unless it overtook one:
\* then the one it overtook is either on its way or counted.
LEMMA ConsistentUpdate ==
    ASSUME IInv, NEW w \in Workers, Update(w)
    PROVE  Params(InFlight(sent', held')) /\ Consistent'
  <1> DEFINE F == InFlight(sent, held)
             n == held[w]
  <1>0. /\ applied \in Nat /\ hub \in Components /\ set \in Components /\ sent \in Seq(Notifications)
        /\ held \in [Workers -> Notifications \cup {None}]
        /\ F \in SUBSET Notifications /\ n \in Notifications /\ n # None
    BY DEF IInv, TypeOK, InFlight, Update
  <1>1. n.number \in Nat /\ \A m \in F : m.number \in Nat
    BY <1>0, Fields
  <1>2. n \in F /\ InFlight(sent, [held EXCEPT ![w] = None]) = F \ {n}
        /\ \A m \in F \ {n} : m.number # n.number
    BY <1>0, InFlightDone DEF IInv, Numbers
  <1>3. InFlight(sent', held') = F \ {n}
    BY <1>2 DEF Update
  <1>4. /\ answer = None /\ answer' = None /\ UNCHANGED hub
        /\ applied' = Max({applied, n.number})
        /\ disturbed' = (disturbed \/ n.number < applied)
        /\ \/ set' = Updated(set, n) /\ UNCHANGED refreshed
           \/ refreshed' = FALSE
    BY DEF Update, InOrder, IInv, TypeOK
  <1>5. applied' \in Nat /\ applied <= applied' /\ n.number <= applied'
    BY <1>0, <1>1, <1>4, MaxOfTwo
  <1>6. Params(F)
    BY DEF IInv
  <1>7. Params(F \ {n})
    BY <1>6 DEF Params
  <1>8. ~disturbed /\ ~Overtaken(F, applied) =>
          /\ NewestIsHub(F, hub) /\ AddedOnce(F)
          /\ refreshed => CopyIsNear(F, hub, set)
    BY <1>4 DEF IInv, Consistent, Copy
  <1> HIDE DEF F, n
  <1>9. ASSUME ~disturbed', ~Overtaken(F \ {n}, applied')
        PROVE  /\ NewestIsHub(F \ {n}, hub) /\ AddedOnce(F \ {n})
               /\ refreshed' => CopyIsNear(F \ {n}, hub, set')
    <2>0. ~disturbed /\ ~(n.number < applied)
      BY <1>4, <1>9
    <2>1. ~disturbed /\ applied <= n.number
      BY <2>0, <1>0, <1>1
    <2>2. \A m \in F \ {n} : applied' <= m.number
      BY <1>1, <1>5, <1>9 DEF Overtaken
    <2>3. ~Overtaken(F, applied)
      BY <2>1, <2>2, <1>0, <1>1, <1>5 DEF Overtaken
    <2>4. \A m \in F \ {n} : n.number < m.number
      BY <2>2, <1>1, <1>2, <1>5
    <2>5. /\ NewestIsHub(F \ {n}, hub) /\ AddedOnce(F \ {n})
          /\ CopyIsNear(F, hub, set) => CopyIsNear(F \ {n}, hub, Updated(set, n))
      BY <2>1, <2>3, <2>4, <1>0, <1>2, <1>6, <1>8, OldestNotification
    <2> QED
      BY <2>1, <2>3, <2>5, <1>4, <1>8
  <1>10. Consistent'
    BY <1>3, <1>4, <1>9 DEF Consistent, Copy
  <1> QED
    BY <1>3, <1>7, <1>10

\* The answer of the hub is the hub, whatever is on its way.
LEMMA ConsistentAnswer ==
    ASSUME IInv, Answer
    PROVE  Consistent'
  <1> DEFINE F == InFlight(sent, held)
  <1>0. /\ hub \in Components /\ hub # None /\ None \notin Notifications
        /\ F \in SUBSET Notifications
    BY PrimeObserverAssumption DEF IInv, TypeOK, InFlight
  <1>1. /\ UNCHANGED <<hub, sent, held, applied, refreshed>> /\ answer' = hub
        /\ disturbed' = (disturbed /\ ~Quiet)
    BY DEF Answer
  <1>2. Quiet => F = {}
    BY <1>0 DEF Quiet, InFlight
  <1>3. ~disturbed /\ ~Overtaken(F, applied) => NewestIsHub(F, hub) /\ AddedOnce(F)
    BY DEF IInv, Consistent
  <1>4. Copy' = hub
    BY <1>0, <1>1 DEF Copy
  <1> HIDE DEF F
  <1>5. NewestIsHub({}, hub) /\ AddedOnce({})
    BY DEF NewestIsHub, AddedOnce
  <1>6. \A m \in F : m.number \in Nat
    BY <1>0, Fields
  <1>7. NewestIsHub(F, hub) => CopyIsNear(F, hub, hub)
    BY <1>6 DEF NewestIsHub, CopyIsNear
  <1>8. ~disturbed' /\ ~Overtaken(F, applied) =>
          NewestIsHub(F, hub) /\ AddedOnce(F) /\ CopyIsNear(F, hub, hub)
    <2>1. CASE Quiet
      BY <2>1, <1>2, <1>5, <1>7
    <2>2. CASE ~Quiet
      BY <2>2, <1>1, <1>3, <1>7 DEF IInv, TypeOK
    <2> QED
      BY <2>1, <2>2
  <1> QED
    BY <1>1, <1>4, <1>8 DEF Consistent, F

\* Every step preserves the invariant.
LEMMA NextIInv == IInv /\ [Next]_vars => IInv'
  <1> SUFFICES ASSUME IInv, [Next]_vars PROVE IInv'
    OBVIOUS
  <1>0. TypeOK' /\ Numbers'
    BY TypesNext, NumbersNext DEF IInv
  <1> DEFINE Rest == Params(InFlight(sent', held')) /\ Consistent'
  <1> SUFFICES Rest
    BY <1>0 DEF IInv
  <1>1. CASE HubChanges
    BY <1>1, ConsistentChange
  <1>2. CASE Lose
    <2>1. \A i \in 1..Len(sent') : i + 1 \in 1..Len(sent) /\ sent'[i] = sent[i + 1]
      <3>1. sent \in Seq(Notifications) /\ sent # <<>> /\ sent' = Tail(sent)
        BY <1>2 DEF Lose, IInv, TypeOK
      <3> QED
        BY <3>1
    <2>2. InFlight(sent', held') \subseteq InFlight(sent, held)
      BY <2>1, <1>2 DEF Lose, InFlight
    <2>3. disturbed'
      BY <1>2 DEF Lose
    <2> QED
      BY <2>2, <2>3 DEF IInv, Params, Consistent
  <1>3. ASSUME NEW w \in Workers, Take(w) PROVE Rest
    <2>1. InFlight(sent', held') = InFlight(sent, held)
      BY <1>3, InFlightTaken DEF Take, IInv, TypeOK
    <2>2. Copy' = Copy
      BY <1>3 DEF Take, Copy
    <2> QED
      BY <2>1, <2>2, <1>3 DEF Take, IInv, Consistent
  <1>4. ASSUME NEW w \in Workers, Update(w) PROVE Rest
    BY <1>4, ConsistentUpdate
  <1>5. CASE Answer
    <2>1. Params(InFlight(sent', held'))
      BY <1>5 DEF Answer, IInv
    <2> QED
      BY <2>1, <1>5, ConsistentAnswer
  <1>6. CASE Refreshed
    <2>1. Copy' = Copy
      BY <1>6 DEF Refreshed, Copy
    <2> QED
      BY <2>1, <1>6 DEF Refreshed, IInv, Consistent
  <1>7. CASE RefreshFails
    <2>1. UNCHANGED <<hub, sent, held, applied, refreshed, set>> /\ answer' = None
          /\ disturbed' = (disturbed \/ answer # None)
      BY <1>7 DEF RefreshFails
    <2>2. answer = None => Copy' = Copy
      BY <2>1 DEF Copy
    <2> QED
      BY <2>1, <2>2 DEF IInv, Consistent
  <1>8. CASE UNCHANGED <<hub, sent, held, set, refreshed, answer, applied, disturbed>>
    <2>1. Copy' = Copy
      BY <1>8 DEF Copy
    <2> QED
      BY <2>1, <1>8 DEF IInv, Consistent
  <1> QED
    BY <1>1, <1>2, <1>3, <1>4, <1>5, <1>6, <1>7, <1>8 DEF Next, Refresh, Expire, vars

\* The inductive invariant of the observer: the types, the numbers of the
\* notifications, and what the notifications on their way say of the hub and of
\* the copy (Update and doRefresh of the observer).
THEOREM PrimeObserverInvariant == Spec => []IInv
  BY InitIInv, NextIInv, PTL DEF Spec

\* In every reachable state, a copy that is served without a refresh, with no
\* notification on its way and none lost or overtaken, is what the hub has (Update
\* and doRefresh of the observer, which take the same lock).
THEOREM PrimeObserverCopyFaithful == Spec => [](TypeOK /\ CopyFaithful)
  <1>1. ASSUME IInv, refreshed, Quiet, ~disturbed, ~refreshing PROVE set = hub
    <2>1. InFlight(sent, held) = {}
      BY <1>1, PrimeObserverAssumption DEF Quiet, InFlight
    <2>2. ~Overtaken(InFlight(sent, held), applied)
      BY <2>1 DEF Overtaken
    <2>3. answer = None
      BY <1>1 DEF IInv, TypeOK
    <2>4. CopyIsNear({}, hub, set)
      BY <2>1, <2>2, <2>3, <1>1 DEF IInv, Consistent, Copy
    <2>5. \A id \in IDs : set[id] = hub[id]
      BY <2>4 DEF CopyIsNear
    <2> QED
      BY <2>5, <1>1 DEF IInv, TypeOK, Components
  <1>2. IInv => TypeOK /\ CopyFaithful
    BY <1>1 DEF CopyFaithful, IInv
  <1> QED
    BY <1>2, PrimeObserverInvariant, PTL

=============================================================================
