---------------------------- MODULE AdapterProofs ----------------------------
(***************************************************************************)
(* Proofs about Adapter, for any things, any addresses that applications   *)
(* choose, any reports and any number of failures and crashes.             *)
(***************************************************************************)
EXTENDS Adapter, FiniteSetTheorems, TLAPS

\* Thing i has address a in state s.
Has(s, i, a) == i \in Known(s) /\ s.thing[i].addr = a

\* The lock holder: what it has in hand at each stage.
OpOK ==
    /\ op.kind = "none" => op = Returned(op.stage) /\ op.stage \in {"none", "ok", "error"}
    /\ op.kind # "none" => op.stage \in {"next", "exclude", "add", "include", "checksum"}
    /\ op.kind # "init" => op.staged = {}
    /\ op.kind = "init" => /\ op.remove = {} /\ op.create \subseteq Known(mem)
                           /\ op.stage \in {"next", "checksum"}
    /\ op.kind \in {"create", "ensure"} => IndexLeft(op.create)
    /\ op.stage = "exclude" => op.addr \in Addresses /\ \A i \in IDs : ~Has(mem, i, op.addr)
    /\ op.stage = "add" => /\ op.kind \in {"create", "ensure"} /\ op.remove = {}
                           /\ op.id \in IDs /\ op.addr \in Addresses
    /\ op.stage \in {"include", "checksum"} => Has(mem, op.id, op.addr) /\ op.remove = {}
    /\ op.stage = "checksum" => op.rep \in Sums
    /\ \A t \in op.staged : Has(mem, t.id, t.addr)

\* A proxy that is attached points to the record of its thing, at the address of
\* the thing.
AttachedOK ==
    /\ \A a \in Addresses :
         things[a] # None /\ things[a].attached => Has(mem, things[a].id, a)
    /\ worker.stage # "idle" =>
         /\ worker.thing # None /\ worker.addr \in Addresses
         /\ worker.thing.attached => Has(mem, worker.thing.id, worker.addr)

\* The address of a is, was or is about to be that of thing i: by a record, by the
\* operation under way, by an instance or by what the hub was told.
Claim(i, a) ==
    \/ mem.thing[i] # None /\ mem.thing[i].addr = a
    \/ disk.thing[i] # None /\ disk.thing[i].addr = a
    \/ op.stage = "add" /\ op.id = i /\ op.addr = a
    \/ things[a] # None /\ things[a].id = i
    \/ worker.stage # "idle" /\ worker.thing.id = i /\ worker.addr = a
    \/ owner[a] = i

\* Two things never claim one address, because an address that the adapter has
\* handed out is below the index that was saved.
OwnOK ==
    /\ \A a \in Addresses, i, j \in IDs : Claim(i, a) /\ Claim(j, a) => i = j
    /\ \A a \in Addresses, i \in IDs :
         Claim(i, a) => a <= disk.index \/ a = CustomAddress[i]
    /\ disk.index <= mem.index

\* As long as no save fails, the state on disk is the one in memory, and what is
\* registered, or has a checksum, the hub knows.
HubOK ==
    "save" \notin Faults =>
        /\ disk = mem
        /\ \A i \in Known(mem) : mem.thing[i].sum # 0 => hub[mem.thing[i].addr] # 0
        /\ \A a \in Addresses : things[a] # None => hub[a] # 0
        /\ op.stage = "checksum" => hub[op.addr] # 0
        /\ \A t \in op.staged : hub[t.addr] # 0
        /\ worker.stage = "checksum" /\ worker.thing.attached => hub[worker.addr] # 0

\* EnsureThings: a thing of the state has a seed or is to be removed, and a seed
\* has a thing or is to be created.
EnsureOK ==
    op.kind = "ensure" =>
        /\ \A i \in Known(mem) : i \in op.seeds \/ mem.thing[i].addr \in op.remove
        /\ \A i \in Known(mem) \cap op.seeds : mem.thing[i].addr \notin op.remove
        /\ \A i \in op.seeds : \/ i \in Known(mem) \cup op.create
                               \/ op.stage = "add" /\ i = op.id
        /\ op.create \subseteq op.seeds
        /\ op.stage = "add" => op.id \in op.seeds

\* InitializeThings: a thing of the state is to be built, is being built or is
\* built.
InitOK ==
    op.kind = "init" =>
        \A i \in Known(mem) : \/ i \in op.create
                              \/ op.stage = "checksum" /\ i = op.id
                              \/ \E t \in op.staged : t.id = i

IInv == TypeOK /\ OpOK /\ AttachedOK /\ OwnOK /\ HubOK /\ EnsureOK /\ InitOK
------------------------------------------------------------------------------
(***************************************************************************)
(* The constants and the updates of the state.                             *)
(***************************************************************************)

\* Addresses that are handed out and addresses that are chosen are apart.
LEMMA Constants ==
    /\ Addresses \subseteq Nat \ {0} /\ 1..MaxIndex \subseteq Addresses
    /\ MaxIndex \in Nat /\ MaxFaults \in Nat /\ Sums \subseteq Nat \ {0}
    /\ None \notin IDs /\ None \notin Records /\ None \notin Instances
    /\ \A i \in IDs : /\ CustomAddress[i] \in Nat
                      /\ CustomAddress[i] # 0 =>
                           CustomAddress[i] \in Addresses /\ CustomAddress[i] > MaxIndex
    /\ \A i, j \in IDs :
         CustomAddress[i] = CustomAddress[j] /\ CustomAddress[i] # 0 => i = j
  BY AdapterAssumption DEF Addresses

\* One thing less to be given an address.
LEMMA IndexLeftRemoved ==
    ASSUME NEW S \in SUBSET IDs, NEW i \in S, mem.index \in Nat, IndexLeft(S)
    PROVE  /\ CustomAddress[i] = 0 =>
                /\ mem.index + 1 <= MaxIndex
                /\ mem.index + 1 + Cardinality({j \in S \ {i} : CustomAddress[j] = 0})
                     <= MaxIndex
           /\ CustomAddress[i] # 0 => IndexLeft(S \ {i})
  <1> DEFINE T == {j \in S : CustomAddress[j] = 0}
             U == {j \in S \ {i} : CustomAddress[j] = 0}
  <1>1. IsFiniteSet(T) /\ Cardinality(T) \in Nat
    BY AdapterAssumption, FS_Subset, FS_CardinalityType
  <1>2. CASE CustomAddress[i] = 0
    <2>1. U = T \ {i} /\ i \in T
      BY <1>2
    <2> HIDE DEF T, U
    <2>2. IsFiniteSet(U) /\ Cardinality(U) = Cardinality(T) - 1
      BY <1>1, <2>1, FS_RemoveElement
    <2>3. Cardinality(U) \in Nat
      BY <2>2, FS_CardinalityType
    <2>4. mem.index + Cardinality(T) <= MaxIndex
      BY DEF IndexLeft, T
    <2>5. /\ mem.index + 1 <= MaxIndex
          /\ mem.index + 1 + Cardinality(U) <= MaxIndex
      BY <1>1, <2>2, <2>3, <2>4, Constants
    <2> QED
      BY <1>2, <2>5 DEF U
  <1>3. CASE CustomAddress[i] # 0
    <2>1. U = T
      BY <1>3
    <2> QED
      BY <1>3, <2>1 DEF IndexLeft
  <1> QED
    BY <1>2, <1>3

\* state.remove
LEMMA WithoutFacts ==
    ASSUME mem \in States, NEW a
    PROVE  /\ Without(a) \in States /\ Without(a).index = mem.index
           /\ \A i \in IDs : Without(a).thing[i] =
                IF mem.thing[i] # None /\ mem.thing[i].addr = a THEN None ELSE mem.thing[i]
  BY DEF Without, States

\* state.acquireAddress
LEMMA IndexedFacts ==
    ASSUME mem \in States, mem.index + 1 <= MaxIndex
    PROVE  Indexed \in States /\ Indexed.index = mem.index + 1 /\ Indexed.thing = mem.thing
  BY Constants DEF Indexed, States

\* state.add
LEMMA AddedFacts ==
    ASSUME mem \in States, op.id \in IDs, op.addr \in Addresses
    PROVE  /\ Added \in States /\ Added.index = mem.index
           /\ Added.thing[op.id] # None
           /\ Added.thing[op.id].addr = op.addr /\ Added.thing[op.id].sum = 0
           /\ \A i \in IDs \ {op.id} : Added.thing[i] = mem.thing[i]
  <1>1. [addr |-> op.addr, sum |-> 0] \in Records
    BY DEF Records
  <1>2. Added = [mem EXCEPT !.thing = [mem.thing EXCEPT ![op.id] =
                                         [addr |-> op.addr, sum |-> 0]]]
    BY DEF Added, States
  <1>3. Added.index = mem.index
        /\ Added.thing = [mem.thing EXCEPT ![op.id] = [addr |-> op.addr, sum |-> 0]]
    BY <1>2 DEF States
  <1>4. Added \in States
    BY <1>1, <1>2 DEF States
  <1> QED
    BY <1>1, <1>3, <1>4, Constants DEF States

\* SetInclusionChecksum
LEMMA SummedFacts ==
    ASSUME mem \in States, NEW i \in Known(mem), NEW rep \in Sums
    PROVE  /\ Summed(i, rep) \in States /\ Summed(i, rep).index = mem.index
           /\ Summed(i, rep).thing[i] # None
           /\ Summed(i, rep).thing[i].addr = mem.thing[i].addr
           /\ Summed(i, rep).thing[i].sum = rep
           /\ \A j \in IDs \ {i} : Summed(i, rep).thing[j] = mem.thing[j]
  <1> DEFINE r == [mem.thing[i] EXCEPT !.sum = rep]
  <1>1. i \in IDs /\ mem.thing[i] \in Records /\ mem.thing \in [IDs -> Records \cup {None}]
    BY DEF Known, States
  <1>2. r \in Records /\ r.addr = mem.thing[i].addr /\ r.sum = rep
    BY <1>1 DEF Records
  <1>3. Summed(i, rep) = [mem EXCEPT !.thing = [mem.thing EXCEPT ![i] = r]]
    BY <1>1 DEF Summed, States
  <1> HIDE DEF r
  <1>4. Summed(i, rep).index = mem.index /\ Summed(i, rep).thing = [mem.thing EXCEPT ![i] = r]
    BY <1>3 DEF States
  <1>5. Summed(i, rep) \in States
    BY <1>1, <1>2, <1>3 DEF States
  <1> QED
    BY <1>1, <1>2, <1>4, <1>5, Constants

\* A thing whose record is gone keeps all but its proxy.
LEMMA CutFacts ==
    ASSUME NEW t \in Instances \cup {None}, NEW ids
    PROVE  /\ Cut(t, ids) \in Instances \cup {None}
           /\ Cut(t, ids) = None <=> t = None
           /\ t # None => /\ Cut(t, ids).id = t.id
                          /\ Cut(t, ids).attached => t.attached /\ t.id \notin ids
  <1>1. CASE t # None /\ t.id \in ids
    <2>1. t \in Instances /\ Cut(t, ids) = [t EXCEPT !.attached = FALSE]
      BY <1>1 DEF Cut
    <2>2. Cut(t, ids) \in Instances /\ Cut(t, ids).id = t.id /\ ~Cut(t, ids).attached
      BY <2>1 DEF Instances
    <2> QED
      BY <2>1, <2>2, Constants
  <1>2. CASE ~(t # None /\ t.id \in ids)
    BY <1>2 DEF Cut
  <1> QED
    BY <1>1, <1>2
------------------------------------------------------------------------------
(***************************************************************************)
(* What the parts of the invariant depend on.                              *)
(***************************************************************************)

OpType == [kind : {"none", "create", "ensure", "destroy", "destroyAll", "init"},
           stage : {"none", "ok", "error", "next", "exclude", "add", "include", "checksum"},
           id : IDs \cup {None}, addr : Addresses \cup {0},
           rep : Sums \cup {0}, remove : SUBSET Addresses,
           create : SUBSET IDs, seeds : SUBSET IDs,
           staged : SUBSET [id : IDs, addr : Addresses, rep : Sums]]

WorkerType == [stage : {"idle", "include", "checksum"},
               addr : Addresses \cup {0}, thing : Instances \cup {None}]

\* A step that leaves the index, the things of the state and their addresses
\* alone.
SameThings ==
    /\ mem'.index = mem.index
    /\ \A i \in IDs : /\ mem'.thing[i] = None <=> mem.thing[i] = None
                      /\ mem.thing[i] # None => mem'.thing[i].addr = mem.thing[i].addr

\* A save that succeeds and one that fails.
LEMMA SaveFacts ==
    ASSUME NEW m, Persist(m) \/ PersistFails(m), faults \in 0..MaxFaults
    PROVE  /\ mem' = m /\ disk' \in {disk, m} /\ faults' \in 0..MaxFaults
           /\ "save" \notin Faults => disk' = m
  BY Constants DEF Persist, PersistFails, Fault

\* Nobody holds the lock.
LEMMA OpReturned ==
    ASSUME NEW x \in {"none", "ok", "error"}, op' = Returned(x)
    PROVE  /\ op' \in OpType /\ op'.stage = x /\ op'.staged = {} /\ op'.kind = "none"
           /\ OpOK' /\ EnsureOK' /\ InitOK'
  <1>1. op' \in OpType /\ op'.stage = x /\ op'.staged = {} /\ op'.kind = "none"
    BY DEF Returned, OpType
  <1> QED
    BY <1>1 DEF OpOK, EnsureOK, InitOK

\* The lock holder takes no step.
LEMMA OpKept ==
    ASSUME OpOK, EnsureOK, InitOK, op \in OpType, op' = op, SameThings
    PROVE  OpOK' /\ EnsureOK' /\ InitOK'
  <1>1. \A i \in IDs : i \in Known(mem') <=> i \in Known(mem)
    BY DEF Known, SameThings
  <1>2. \A i \in IDs : \A a : Has(mem', i, a) <=> Has(mem, i, a)
    BY <1>1 DEF Has, SameThings, Known
  <1>3. op'.kind \in {"create", "ensure"} => IndexLeft(op.create)'
    BY DEF IndexLeft, SameThings, OpOK
  <1>4. /\ op.stage \in {"include", "checksum"} => op.id \in IDs
        /\ \A t \in op.staged : t.id \in IDs
    BY DEF OpOK, OpType, Has, Known
  <1>5. OpOK'
    <2>1. op'.kind = "init" => /\ op'.remove = {} /\ op'.create \subseteq Known(mem')
                               /\ op'.stage \in {"next", "checksum"}
      BY <1>1 DEF OpOK, OpType
    <2>2. op'.stage = "exclude" => op'.addr \in Addresses /\ \A i \in IDs : ~Has(mem', i, op'.addr)
      BY <1>2 DEF OpOK
    <2>3. /\ op'.stage \in {"include", "checksum"} => Has(mem', op'.id, op'.addr) /\ op'.remove = {}
          /\ \A t \in op'.staged : Has(mem', t.id, t.addr)
      BY <1>2, <1>4 DEF OpOK
    <2> QED
      BY <1>3, <2>1, <2>2, <2>3 DEF OpOK
  <1>6. EnsureOK'
    BY <1>1 DEF EnsureOK, SameThings, Known, OpType
  <1>7. InitOK'
    BY <1>1 DEF InitOK, Known
  <1> QED
    BY <1>5, <1>6, <1>7

\* Nothing new is claimed and no index is taken back.
LEMMA OwnKept ==
    ASSUME TypeOK, TypeOK', OwnOK,
           \A i \in IDs, a \in Addresses : Claim(i, a)' => Claim(i, a),
           disk.index <= disk'.index, disk'.index <= mem'.index
    PROVE  OwnOK'
  <1>1. disk.index \in Nat /\ disk'.index \in Nat /\ Addresses \subseteq Nat
    BY Constants DEF TypeOK, States
  <1>2. ASSUME NEW a \in Addresses, NEW i \in IDs, Claim(i, a)'
        PROVE  a <= disk'.index \/ a = CustomAddress[i]
    BY <1>1, <1>2 DEF OwnOK
  <1> QED
    BY <1>2 DEF OwnOK

\* The instances and the request under way are left alone, and so are the records.
LEMMA AttachedKept ==
    ASSUME AttachedOK, things \in [Addresses -> Instances \cup {None}],
           worker \in WorkerType, SameThings, UNCHANGED <<things, worker>>
    PROVE  AttachedOK'
  BY DEF AttachedOK, Has, Known, SameThings, Instances, WorkerType

\* Records of ids leave the state, or change their address, and proxies of others
\* stay attached.
LEMMA DetachFacts ==
    ASSUME AttachedOK, things \in [Addresses -> Instances \cup {None}],
           worker \in WorkerType, NEW ids, Detach(ids),
           \A i \in IDs \ ids : mem'.thing[i] = mem.thing[i]
    PROVE  /\ things' \in [Addresses -> Instances \cup {None}]
           /\ worker' \in WorkerType
           /\ \A a \in Addresses : /\ things'[a] = None <=> things[a] = None
                                   /\ things[a] # None => things'[a].id = things[a].id
           /\ worker'.stage = worker.stage /\ worker'.addr = worker.addr
           /\ worker.stage # "idle" =>
                /\ worker'.thing.id = worker.thing.id
                /\ worker'.thing.attached => worker.thing.attached
           /\ AttachedOK'
  <1>1. \A a \in Addresses : things[a] \in Instances \cup {None}
    OBVIOUS
  <1>2. \A a \in Addresses : things'[a] = Cut(things[a], ids)
    BY DEF Detach
  <1>3. /\ worker.thing \in Instances \cup {None}
        /\ worker' = [worker EXCEPT !.thing = Cut(worker.thing, ids)]
    BY DEF Detach, WorkerType
  <1>4. /\ things' \in [Addresses -> Instances \cup {None}]
        /\ \A a \in Addresses :
             /\ things'[a] = None <=> things[a] = None
             /\ things[a] # None => /\ things'[a].id = things[a].id
                                    /\ things'[a].attached => things[a].attached
                                                              /\ things[a].id \notin ids
    <2>1. things' = [a \in Addresses |-> Cut(things[a], ids)]
      BY DEF Detach
    <2>2. ASSUME NEW a \in Addresses
          PROVE  /\ Cut(things[a], ids) \in Instances \cup {None}
                 /\ Cut(things[a], ids) = None <=> things[a] = None
                 /\ things[a] # None =>
                      /\ Cut(things[a], ids).id = things[a].id
                      /\ Cut(things[a], ids).attached => things[a].attached
                                                         /\ things[a].id \notin ids
      BY <1>1, CutFacts
    <2> QED
      BY <1>2, <2>1, <2>2
  <1>5. /\ Cut(worker.thing, ids) \in Instances \cup {None}
        /\ Cut(worker.thing, ids) = None <=> worker.thing = None
        /\ worker.thing # None =>
             /\ Cut(worker.thing, ids).id = worker.thing.id
             /\ Cut(worker.thing, ids).attached =>
                  worker.thing.attached /\ worker.thing.id \notin ids
    BY <1>3, CutFacts
  <1>6. /\ worker' \in WorkerType /\ worker'.stage = worker.stage
        /\ worker'.addr = worker.addr /\ worker'.thing = Cut(worker.thing, ids)
    BY <1>3, <1>5 DEF WorkerType
  <1>7. \A i \in IDs \ ids : \A a : Has(mem, i, a) => Has(mem', i, a)
    BY DEF Has, Known
  <1>8. \A i, a : Has(mem, i, a) => i \in IDs
    BY DEF Has, Known
  <1>9. ASSUME NEW a \in Addresses, things'[a] # None, things'[a].attached
        PROVE  Has(mem', things'[a].id, a)
    BY <1>4, <1>7, <1>8, <1>9 DEF AttachedOK
  <1>10. ASSUME worker'.stage # "idle"
         PROVE  /\ worker'.thing # None /\ worker'.addr \in Addresses
                /\ worker'.thing.attached => Has(mem', worker'.thing.id, worker'.addr)
    BY <1>5, <1>6, <1>7, <1>8, <1>10 DEF AttachedOK
  <1>11. AttachedOK'
    BY <1>9, <1>10 DEF AttachedOK
  <1> QED
    BY <1>4, <1>5, <1>6, <1>11 DEF AttachedOK
------------------------------------------------------------------------------
(***************************************************************************)
(* The steps.                                                              *)
(***************************************************************************)

\* The type invariant, in the words of these proofs.
LEMMA Types ==
    TypeOK <=> /\ mem \in States /\ disk \in States
               /\ things \in [Addresses -> Instances \cup {None}]
               /\ initialized \in BOOLEAN /\ wedged \in BOOLEAN
               /\ hub \in [Addresses -> Sums \cup {0}]
               /\ owner \in [Addresses -> IDs \cup {None}]
               /\ faults \in 0..MaxFaults
               /\ worker \in WorkerType /\ op \in OpType
  BY DEF TypeOK, WorkerType, OpType

\* Every step keeps the types.
LEMMA TypesNext ==
    ASSUME mem' \in States, disk' \in States,
           things' \in [Addresses -> Instances \cup {None}],
           initialized' \in BOOLEAN, wedged' \in BOOLEAN,
           hub' \in [Addresses -> Sums \cup {0}],
           owner' \in [Addresses -> IDs \cup {None}],
           faults' \in 0..MaxFaults, worker' \in WorkerType, op' \in OpType
    PROVE  TypeOK'
  BY DEF TypeOK, WorkerType, OpType

\* The initial state satisfies the invariant.
LEMMA InitIInv == Init => IInv
  <1> SUFFICES ASSUME Init PROVE IInv
    OBVIOUS
  <1>1. /\ op \in OpType /\ op.stage = "none" /\ op.staged = {} /\ op.kind = "none"
        /\ op = Returned(op.stage)
    BY DEF Init, Returned, OpType
  <1>2. /\ Fresh \in States /\ Fresh.index = 0 /\ \A i \in IDs : Fresh.thing[i] = None
    BY Constants DEF Fresh, States
  <1>3. worker \in WorkerType /\ worker.stage = "idle"
    BY DEF Init, NoRequest, WorkerType
  <1>4. TypeOK
    <2>1. mem \in States /\ disk \in States /\ faults \in 0..MaxFaults
      BY <1>2, Constants DEF Init
    <2>2. initialized \in BOOLEAN /\ wedged \in BOOLEAN
      BY DEF Init
    <2>3. /\ things \in [Addresses -> Instances \cup {None}]
          /\ hub \in [Addresses -> Sums \cup {0}]
          /\ owner \in [Addresses -> IDs \cup {None}]
      BY DEF Init
    <2> QED
      BY <1>1, <1>3, <2>1, <2>2, <2>3, Types
  <1>5. OpOK /\ EnsureOK /\ InitOK
    BY <1>1 DEF OpOK, EnsureOK, InitOK
  <1>6. AttachedOK
    BY <1>3 DEF AttachedOK, Init
  <1>7. OwnOK
    <2>1. \A a \in Addresses, i \in IDs : ~Claim(i, a)
      BY <1>1, <1>2, <1>3, Constants DEF Claim, Init
    <2> QED
      BY <1>2, <2>1 DEF OwnOK, Init
  <1>8. HubOK
    BY <1>1, <1>2, <1>3 DEF HubOK, Init, Known
  <1> QED
    BY <1>4, <1>5, <1>6, <1>7, <1>8 DEF IInv

\* A request takes the lock: what it is to remove and to create fits the state.
LEMMA BeginStep ==
    ASSUME IInv, NEW kind \in {"create", "ensure", "destroy", "destroyAll", "init"},
           NEW remove \in SUBSET Addresses, NEW create \in SUBSET IDs,
           NEW seeds \in SUBSET IDs,
           Begin(kind, remove, create, seeds), UNCHANGED world,
           kind \in {"create", "ensure"} => IndexLeft(create),
           kind = "init" => remove = {} /\ create = Known(mem),
           kind = "ensure" => /\ create = seeds \ Known(mem)
                              /\ remove = AddressesOf(mem, Known(mem) \ seeds)
    PROVE  IInv'
  <1>1. /\ op' \in OpType /\ op'.kind = kind /\ op'.stage = "next"
        /\ op'.remove = remove /\ op'.create = create /\ op'.seeds = seeds
        /\ op'.staged = {}
    BY DEF Begin, OpType
  <1>2. UNCHANGED <<mem, disk, things, initialized, worker, wedged, hub, owner, faults>>
    BY DEF world
  <1>3. TypeOK /\ TypeOK'
    <2>1. TypeOK
      BY DEF IInv
    <2> QED
      BY <1>1, <1>2, <2>1, Types, TypesNext
  <1>4. OpOK'
    <2>1. kind \in {"create", "ensure"} => IndexLeft(op.create)'
      BY <1>1, <1>2 DEF IndexLeft
    <2>2. op'.kind = "init" => op'.create \subseteq Known(mem')
      BY <1>1, <1>2
    <2> QED
      BY <1>1, <2>1, <2>2 DEF OpOK
  <1>5. AttachedOK'
    BY <1>2 DEF IInv, AttachedOK
  <1>6. OwnOK'
    <2>1. \A i \in IDs, a \in Addresses : Claim(i, a)' => Claim(i, a)
      BY <1>1, <1>2 DEF Claim
    <2>2. disk.index \in Nat
      BY <1>3, Types DEF States
    <2> QED
      BY <1>2, <1>3, <2>1, <2>2, OwnKept DEF IInv, OwnOK
  <1>7. HubOK'
    BY <1>1, <1>2 DEF IInv, HubOK
  <1>8. EnsureOK'
    <2> SUFFICES ASSUME kind = "ensure" PROVE EnsureOK'
      BY <1>1 DEF EnsureOK
    <2>1. ASSUME NEW i \in Known(mem), i \notin seeds
          PROVE  mem.thing[i].addr \in remove
      BY <2>1 DEF AddressesOf
    <2>2. ASSUME NEW i \in Known(mem) \cap seeds
          PROVE  mem.thing[i].addr \notin remove
      <3> SUFFICES ASSUME NEW j \in Known(mem) \ seeds,
                          mem.thing[i].addr = mem.thing[j].addr
                   PROVE  FALSE
        BY DEF AddressesOf
      <3>1. /\ i \in IDs /\ j \in IDs /\ mem.thing[i] # None /\ mem.thing[j] # None
            /\ mem.thing[i].addr \in Addresses
        BY <1>3, Types DEF Known, States, Records
      <3>2. Claim(i, mem.thing[i].addr) /\ Claim(j, mem.thing[i].addr)
        BY <3>1 DEF Claim
      <3> QED
        BY <3>1, <3>2 DEF IInv, OwnOK
    <2> QED
      BY <1>1, <1>2, <2>1, <2>2 DEF EnsureOK
  <1>9. InitOK'
    BY <1>1, <1>2 DEF InitOK
  <1> QED
    BY <1>3, <1>4, <1>5, <1>6, <1>7, <1>8, <1>9 DEF IInv

\* The requests and the initialization.
LEMMA RequestStep == IInv /\ (Request \/ InitializeThings) => IInv'
  <1> SUFFICES ASSUME IInv, Request \/ InitializeThings PROVE IInv'
    OBVIOUS
  <1>1. \A ids \in SUBSET Known(mem) : AddressesOf(mem, ids) \in SUBSET Addresses
    BY Types DEF IInv, AddressesOf, Known, States, Records
  <1>2. Known(mem) \in SUBSET IDs
    BY DEF Known
  <1>3. CASE \E i \in IDs : CreateThing(i)
    BY <1>3, BeginStep DEF CreateThing
  <1>4. CASE \E i \in IDs : DestroyThingByID(i)
    BY <1>1, <1>4, BeginStep DEF DestroyThingByID
  <1>5. CASE \E seeds \in SUBSET IDs : EnsureThings(seeds)
    <2>1. PICK seeds \in SUBSET IDs : EnsureThings(seeds)
      BY <1>5
    <2>2. /\ AddressesOf(mem, Known(mem) \ seeds) \in SUBSET Addresses
          /\ seeds \ Known(mem) \in SUBSET IDs
      BY <1>1
    <2> QED
      BY <2>1, <2>2, BeginStep DEF EnsureThings
  <1>6. CASE \E a \in Addresses : DestroyThingByAddress(a)
    BY <1>6, BeginStep DEF DestroyThingByAddress
  <1>7. CASE DestroyAllThings
    BY <1>1, <1>7, BeginStep DEF DestroyAllThings
  <1>8. CASE InitializeThings
    BY <1>2, <1>8, BeginStep DEF InitializeThings
  <1> QED
    BY <1>3, <1>4, <1>5, <1>6, <1>7, <1>8 DEF Request

\* The record of an address goes, in memory and, if the save succeeds, on disk.
LEMMA RemoveStep ==
    ASSUME IInv, NEW a \in Addresses, RemoveState(a) \/ RemoveStateFails(a)
    PROVE  IInv'
  <1>1. /\ mem \in States /\ disk \in States /\ op \in OpType /\ worker \in WorkerType
        /\ things \in [Addresses -> Instances \cup {None}] /\ faults \in 0..MaxFaults
        /\ disk.index \in Nat /\ mem.index \in Nat
        /\ op.kind # "none" /\ op.stage = "next" /\ a \in op.remove
        /\ UNCHANGED <<initialized, wedged, hub, owner>>
    BY Types DEF IInv, RemoveState, RemoveStateFails, At, States
  <1>2. /\ mem' \in States /\ mem'.index = mem.index
        /\ \A i \in IDs : mem'.thing[i] =
             IF mem.thing[i] # None /\ mem.thing[i].addr = a THEN None ELSE mem.thing[i]
        /\ disk' \in {disk, mem'} /\ faults' \in 0..MaxFaults
        /\ "save" \notin Faults /\ disk = mem => disk' = mem'
    <2>1. CASE Holders(a) # {}
      <3>1. Persist(Without(a)) \/ PersistFails(Without(a))
        BY <2>1 DEF RemoveState, RemoveStateFails
      <3> QED
        BY <1>1, <3>1, SaveFacts, WithoutFacts
    <2>2. CASE Holders(a) = {}
      <3>1. UNCHANGED <<mem, disk, faults>>
        BY <2>2 DEF RemoveState, RemoveStateFails
      <3>2. \A i \in IDs : ~(mem.thing[i] # None /\ mem.thing[i].addr = a)
        BY <2>2 DEF Holders, Known
      <3> QED
        BY <1>1, <3>1, <3>2
    <2> QED
      BY <2>1, <2>2
  <1>3. /\ things' \in [Addresses -> Instances \cup {None}]
        /\ worker' \in WorkerType
        /\ \A b \in Addresses : /\ things'[b] = None <=> things[b] = None
                                /\ things[b] # None => things'[b].id = things[b].id
        /\ worker'.stage = worker.stage /\ worker'.addr = worker.addr
        /\ worker.stage # "idle" =>
             /\ worker'.thing.id = worker.thing.id
             /\ worker'.thing.attached => worker.thing.attached
        /\ AttachedOK'
    <2>1. CASE Holders(a) # {}
      <3>1. Detach(Holders(a))
        BY <2>1 DEF RemoveState, RemoveStateFails
      <3>2. \A i \in IDs \ Holders(a) : mem'.thing[i] = mem.thing[i]
        BY <1>2 DEF Holders, Known
      <3> QED
        BY <1>1, <3>1, <3>2, DetachFacts DEF IInv
    <2>2. CASE Holders(a) = {}
      <3>1. UNCHANGED <<mem, things, worker>>
        BY <2>2 DEF RemoveState, RemoveStateFails
      <3> QED
        BY <1>1, <3>1 DEF IInv, AttachedOK
    <2> QED
      BY <2>1, <2>2
  <1>4. /\ op' \in OpType
        /\ op'.stage \in {"exclude", "error"} /\ op'.staged = {}
        /\ OpOK' /\ EnsureOK' /\ InitOK'
    <2>1. CASE RemoveState(a)
      <3>1. /\ op' \in OpType /\ op'.kind = op.kind /\ op'.stage = "exclude"
            /\ op'.addr = a /\ op'.remove = op.remove \ {a} /\ op'.create = op.create
            /\ op'.seeds = op.seeds /\ op'.staged = op.staged
        BY <1>1, <2>1 DEF RemoveState, OpType
      <3>2. op.kind # "init" /\ op.staged = {}
        BY <1>1 DEF IInv, OpOK
      <3>3. \A i \in IDs : ~Has(mem', i, a)
        BY <1>2 DEF Has, Known
      <3>4. OpOK'
        BY <1>1, <1>2, <3>1, <3>2, <3>3 DEF IInv, OpOK, IndexLeft
      <3>5. EnsureOK'
        BY <1>1, <1>2, <3>1 DEF IInv, EnsureOK, Known, OpType
      <3>6. InitOK'
        BY <3>1, <3>2 DEF InitOK
      <3> QED
        BY <3>1, <3>2, <3>4, <3>5, <3>6
    <2>2. CASE RemoveStateFails(a)
      BY <2>2, OpReturned DEF RemoveStateFails, Fails
    <2> QED
      BY <2>1, <2>2
  <1>5. TypeOK'
    <2>1. disk' \in States
      BY <1>1, <1>2
    <2> QED
      BY <1>1, <1>2, <1>3, <1>4, <2>1, Types, TypesNext DEF IInv
  <1>6. OwnOK'
    <2>1. \A i \in IDs, b \in Addresses : Claim(i, b)' => Claim(i, b)
      BY <1>1, <1>2, <1>3, <1>4 DEF Claim
    <2>2. disk.index <= disk'.index /\ disk'.index <= mem'.index
      BY <1>1, <1>2 DEF IInv, OwnOK
    <2> QED
      BY <1>5, <2>1, <2>2, OwnKept DEF IInv
  <1>7. HubOK'
    <2> SUFFICES ASSUME "save" \notin Faults PROVE HubOK'
      BY DEF HubOK
    <2>1. disk' = mem' /\ op'.stage # "checksum" /\ op'.staged = {}
      BY <1>2, <1>4 DEF IInv, HubOK
    <2>2. \A i \in Known(mem') : i \in Known(mem) /\ mem'.thing[i] = mem.thing[i]
      BY <1>2 DEF Known
    <2>3. \A i \in Known(mem') : mem'.thing[i].sum # 0 => hub'[mem'.thing[i].addr] # 0
      BY <1>1, <2>2 DEF IInv, HubOK
    <2>4. \A b \in Addresses : things'[b] # None => hub'[b] # 0
      BY <1>1, <1>3 DEF IInv, HubOK
    <2>5. worker'.stage = "checksum" /\ worker'.thing.attached => hub'[worker'.addr] # 0
      BY <1>1, <1>3 DEF IInv, HubOK
    <2> QED
      BY <2>1, <2>3, <2>4, <2>5 DEF HubOK
  <1> QED
    BY <1>3, <1>4, <1>5, <1>6, <1>7 DEF IInv

\* The thing of an address goes, which no record has.
LEMMA ExcludeStep ==
    ASSUME IInv, Exclude \/ ExcludeFails
    PROVE  IInv'
  <1>1. /\ op \in OpType /\ worker \in WorkerType /\ faults \in 0..MaxFaults
        /\ things \in [Addresses -> Instances \cup {None}]
        /\ hub \in [Addresses -> Sums \cup {0}]
        /\ disk.index \in Nat /\ mem.index \in Nat
        /\ \A i \in Known(mem) : mem.thing[i].addr \in Addresses
        /\ op.kind # "none" /\ op.stage = "exclude"
        /\ UNCHANGED <<mem, disk, initialized, worker, wedged, owner>>
    BY Types DEF IInv, Exclude, ExcludeFails, At, States, Known, Records
  <1>2. /\ op.addr \in Addresses /\ \A i \in IDs : ~Has(mem, i, op.addr)
        /\ op.staged = {} /\ op.kind # "init"
    BY <1>1 DEF IInv, OpOK
  <1>3. /\ things' \in [Addresses -> Instances \cup {None}]
        /\ things'[op.addr] = None
        /\ \A a \in Addresses : things'[a] \in {things[a], None}
    BY <1>1, <1>2 DEF Exclude, ExcludeFails
  <1>4. /\ hub' \in [Addresses -> Sums \cup {0}]
        /\ \A a \in Addresses \ {op.addr} : hub'[a] = hub[a]
        /\ faults' \in 0..MaxFaults
    BY <1>1, <1>2, Constants DEF Exclude, ExcludeFails, Fault
  <1>5. /\ op' \in OpType /\ op'.stage \in {"next", "error"} /\ op'.staged = {}
        /\ OpOK' /\ EnsureOK' /\ InitOK'
    <2>1. CASE Exclude
      <3>1. /\ op' \in OpType /\ op'.kind = op.kind /\ op'.stage = "next"
            /\ op'.remove = op.remove /\ op'.create = op.create
            /\ op'.seeds = op.seeds /\ op'.staged = op.staged
        BY <1>1, <2>1 DEF Exclude, OpType
      <3>2. OpOK'
        BY <1>1, <1>2, <3>1 DEF IInv, OpOK, IndexLeft
      <3>3. EnsureOK' /\ InitOK'
        BY <1>1, <1>2, <3>1 DEF IInv, EnsureOK, InitOK
      <3> QED
        BY <1>2, <3>1, <3>2, <3>3
    <2>2. CASE ExcludeFails
      BY <2>2, OpReturned DEF ExcludeFails, Fails
    <2> QED
      BY <2>1, <2>2
  <1>6. TypeOK'
    BY <1>1, <1>3, <1>4, <1>5, Types, TypesNext DEF IInv
  <1>7. AttachedOK'
    BY <1>1, <1>3 DEF IInv, AttachedOK
  <1>8. OwnOK'
    <2>1. \A i \in IDs, b \in Addresses : Claim(i, b)' => Claim(i, b)
      BY <1>1, <1>3, <1>5 DEF Claim
    <2> QED
      BY <1>1, <1>6, <2>1, OwnKept DEF IInv, OwnOK
  <1>9. HubOK'
    <2> SUFFICES ASSUME "save" \notin Faults PROVE HubOK'
      BY DEF HubOK
    <2>1. \A i \in Known(mem) : mem.thing[i].addr # op.addr
      BY <1>2 DEF Has, Known
    <2>2. \A i \in Known(mem') : mem'.thing[i].sum # 0 => hub'[mem'.thing[i].addr] # 0
      BY <1>1, <1>4, <2>1 DEF IInv, HubOK
    <2>3. \A a \in Addresses : things'[a] # None => hub'[a] # 0
      BY <1>3, <1>4 DEF IInv, HubOK
    <2>4. ASSUME worker.stage = "checksum", worker.thing.attached
          PROVE  hub'[worker.addr] # 0
      <3>1. worker.addr \in Addresses /\ worker.addr # op.addr /\ hub[worker.addr] # 0
        BY <1>2, <2>4 DEF IInv, AttachedOK, HubOK, Has, Known
      <3> QED
        BY <1>4, <3>1
    <2> QED
      BY <1>1, <1>5, <2>2, <2>3, <2>4 DEF IInv, HubOK
  <1> QED
    BY <1>5, <1>6, <1>7, <1>8, <1>9 DEF IInv

\* A thing is given its own address or the next one, which nobody claims because
\* it is above the index that was saved.
LEMMA AcquireStep ==
    ASSUME IInv, NEW i \in IDs, AcquireAddress(i)
    PROVE  IInv'
  <1>1. /\ op \in OpType /\ mem \in States /\ disk \in States /\ faults \in 0..MaxFaults
        /\ disk.index \in Nat /\ mem.index \in Nat /\ disk.index <= mem.index
        /\ mem.index <= MaxIndex
        /\ op.kind \in {"create", "ensure"} /\ op.stage = "next" /\ op.remove = {}
        /\ i \in op.create /\ op.create \in SUBSET IDs
        /\ op.staged = {} /\ IndexLeft(op.create)
        /\ UNCHANGED <<things, initialized, worker, wedged, hub, owner>>
    BY Types, Constants DEF IInv, AcquireAddress, Creating, At, States, OpOK, OwnOK, OpType
  <1> DEFINE b == IF CustomAddress[i] # 0 THEN CustomAddress[i] ELSE mem.index + 1
  <1>2. /\ mem' \in States /\ disk' \in States /\ faults' \in 0..MaxFaults
        /\ mem'.thing = mem.thing
        /\ CustomAddress[i] = 0 => mem.index + 1 <= MaxIndex /\ mem'.index = mem.index + 1
                                   /\ disk' = mem'
        /\ CustomAddress[i] # 0 => mem' = mem /\ disk' = disk
    <2>1. CASE CustomAddress[i] # 0
      BY <1>1, <2>1 DEF AcquireAddress
    <2>2. CASE CustomAddress[i] = 0
      <3>1. Persist(Indexed) /\ mem.index + 1 <= MaxIndex
        BY <1>1, <2>2, IndexLeftRemoved DEF AcquireAddress
      <3> QED
        BY <1>1, <2>2, <3>1, IndexedFacts DEF Persist
    <2> QED
      BY <2>1, <2>2
  <1>3. b \in Addresses
    BY <1>1, <1>2, Constants
  <1>4. op' = [op EXCEPT !.stage = "add", !.id = i, !.create = @ \ {i}, !.addr = b]
    <2>1. CASE CustomAddress[i] # 0
      BY <2>1 DEF AcquireAddress
    <2>2. CASE CustomAddress[i] = 0
      <3>1. Indexed.index = mem.index + 1
        BY <1>1, <1>2, <2>2, IndexedFacts
      <3> QED
        BY <2>2, <3>1 DEF AcquireAddress
    <2> QED
      BY <2>1, <2>2
  <1> HIDE DEF b
  <1>5. /\ op' \in OpType /\ op'.kind = op.kind /\ op'.stage = "add"
        /\ op'.id = i /\ op'.addr = b
        /\ op'.remove = op.remove /\ op'.create = op.create \ {i}
        /\ op'.seeds = op.seeds /\ op'.staged = op.staged
    BY <1>1, <1>3, <1>4 DEF OpType
  <1>6. TypeOK'
    BY <1>1, <1>2, <1>5, Types, TypesNext DEF IInv
  <1>7. Known(mem') = Known(mem)
    BY <1>2 DEF Known
  <1>8. IndexLeft(op.create)'
    <2>1. CASE CustomAddress[i] # 0
      BY <1>1, <1>2, <1>5, <2>1, IndexLeftRemoved DEF IndexLeft
    <2>2. CASE CustomAddress[i] = 0
      BY <1>1, <1>2, <1>5, <2>2, IndexLeftRemoved DEF IndexLeft
    <2> QED
      BY <2>1, <2>2
  <1>9. OpOK'
    BY <1>1, <1>3, <1>5, <1>8 DEF OpOK
  <1>10. EnsureOK' /\ InitOK'
    BY <1>1, <1>2, <1>5, <1>7 DEF IInv, EnsureOK, InitOK
  <1>11. AttachedOK'
    BY <1>1, <1>2, <1>7 DEF IInv, AttachedOK, Has
  <1>12. HubOK'
    BY <1>1, <1>2, <1>5, <1>7 DEF IInv, HubOK
  <1>13. ASSUME NEW j \in IDs, NEW a \in Addresses, Claim(j, a)'
         PROVE  Claim(j, a) \/ (j = i /\ a = b)
    BY <1>1, <1>2, <1>5, <1>13 DEF Claim
  <1>14. ASSUME NEW j \in IDs, Claim(j, b) PROVE j = i
    <2>1. b <= disk.index \/ b = CustomAddress[j]
      BY <1>3, <1>14 DEF IInv, OwnOK
    <2> QED
      BY <1>1, <1>2, <2>1, Constants DEF b
  <1>15. /\ disk.index <= disk'.index /\ disk'.index <= mem'.index
         /\ b <= disk'.index \/ b = CustomAddress[i]
    BY <1>1, <1>2 DEF b
  <1>16. OwnOK'
    <2>1. ASSUME NEW a \in Addresses, NEW j \in IDs, NEW k \in IDs, Claim(j, a)', Claim(k, a)'
          PROVE  j = k
      BY <1>13, <1>14, <2>1 DEF IInv, OwnOK
    <2>2. ASSUME NEW a \in Addresses, NEW j \in IDs, Claim(j, a)'
          PROVE  a <= disk'.index \/ a = CustomAddress[j]
      <3>1. Claim(j, a) => a <= disk.index \/ a = CustomAddress[j]
        BY DEF IInv, OwnOK
      <3>2. disk'.index \in Nat /\ a \in Nat
        BY <1>2, Constants DEF States
      <3> QED
        BY <1>1, <1>13, <1>15, <2>2, <3>1, <3>2
    <2> QED
      BY <1>15, <2>1, <2>2 DEF OwnOK
  <1> QED
    BY <1>6, <1>9, <1>10, <1>11, <1>12, <1>16 DEF IInv

\* An index that could not be saved is not used.
LEMMA AcquireFailsStep ==
    ASSUME IInv, NEW i \in IDs, AcquireAddressFails(i)
    PROVE  IInv'
  <1>1. /\ op \in OpType /\ mem \in States /\ disk \in States /\ faults \in 0..MaxFaults
        /\ disk.index \in Nat /\ mem.index \in Nat /\ disk.index <= mem.index
        /\ op.kind \in {"create", "ensure"} /\ IndexLeft(op.create)
        /\ i \in op.create /\ op.create \in SUBSET IDs
        /\ CustomAddress[i] = 0 /\ PersistFails(Indexed) /\ op' = Returned("error")
        /\ UNCHANGED <<things, initialized, worker, wedged, hub, owner>>
    BY Types DEF IInv, AcquireAddressFails, Creating, At, States, OpOK, OwnOK, OpType, Fails
  <1>2. mem.index + 1 <= MaxIndex
    BY <1>1, IndexLeftRemoved
  <1>3. /\ mem' \in States /\ mem'.index = mem.index + 1 /\ mem'.thing = mem.thing
        /\ disk' \in {disk, mem'} /\ faults' \in 0..MaxFaults /\ "save" \in Faults
    BY <1>1, <1>2, IndexedFacts, SaveFacts DEF PersistFails, Fault
  <1>4. /\ op' \in OpType /\ op'.stage = "error" /\ OpOK' /\ EnsureOK' /\ InitOK'
    BY <1>1, OpReturned
  <1>5. TypeOK'
    <2>1. disk' \in States
      BY <1>1, <1>3
    <2> QED
      BY <1>1, <1>3, <1>4, <2>1, Types, TypesNext DEF IInv
  <1>6. Known(mem') = Known(mem)
    BY <1>3 DEF Known
  <1>7. AttachedOK'
    BY <1>1, <1>3, <1>6 DEF IInv, AttachedOK, Has
  <1>8. OwnOK'
    <2>1. \A j \in IDs, a \in Addresses : Claim(j, a)' => Claim(j, a)
      BY <1>1, <1>3, <1>4 DEF Claim
    <2>2. disk.index <= disk'.index /\ disk'.index <= mem'.index
      BY <1>1, <1>3
    <2> QED
      BY <1>5, <2>1, <2>2, OwnKept DEF IInv
  <1>9. HubOK'
    BY <1>3 DEF HubOK
  <1> QED
    BY <1>4, <1>5, <1>7, <1>8, <1>9 DEF IInv

\* A thing gets its record, with no checksum.
LEMMA AddStep ==
    ASSUME IInv, AddState \/ AddStateFails
    PROVE  IInv'
  <1>1. /\ mem \in States /\ disk \in States /\ op \in OpType /\ worker \in WorkerType
        /\ things \in [Addresses -> Instances \cup {None}] /\ faults \in 0..MaxFaults
        /\ disk.index \in Nat /\ mem.index \in Nat /\ disk.index <= mem.index
        /\ op.stage = "add" /\ op.kind \in {"create", "ensure"} /\ op.remove = {}
        /\ op.id \in IDs /\ op.addr \in Addresses /\ op.staged = {}
        /\ Persist(Added) \/ PersistFails(Added)
        /\ Detach({op.id})
        /\ UNCHANGED <<initialized, wedged, hub, owner>>
    BY Types DEF IInv, AddState, AddStateFails, At, States, OpOK, OwnOK
  <1>2. /\ mem' \in States /\ mem'.index = mem.index
        /\ mem'.thing[op.id] # None
        /\ mem'.thing[op.id].addr = op.addr /\ mem'.thing[op.id].sum = 0
        /\ \A i \in IDs \ {op.id} : mem'.thing[i] = mem.thing[i]
        /\ disk' \in {disk, mem'} /\ faults' \in 0..MaxFaults
        /\ "save" \notin Faults => disk' = mem'
    BY <1>1, SaveFacts, AddedFacts
  <1>3. /\ things' \in [Addresses -> Instances \cup {None}]
        /\ worker' \in WorkerType
        /\ \A b \in Addresses : /\ things'[b] = None <=> things[b] = None
                                /\ things[b] # None => things'[b].id = things[b].id
        /\ worker'.stage = worker.stage /\ worker'.addr = worker.addr
        /\ worker.stage # "idle" =>
             /\ worker'.thing.id = worker.thing.id
             /\ worker'.thing.attached => worker.thing.attached
        /\ AttachedOK'
    BY <1>1, <1>2, DetachFacts DEF IInv
  <1>4. /\ op' \in OpType
        /\ op'.stage \in {"include", "error"} /\ op'.staged = {}
        /\ OpOK' /\ EnsureOK' /\ InitOK'
    <2>1. CASE AddState
      <3>1. /\ op' \in OpType /\ op'.kind = op.kind /\ op'.stage = "include"
            /\ op'.addr = op.addr /\ op'.id = op.id /\ op'.remove = op.remove
            /\ op'.create = op.create /\ op'.seeds = op.seeds /\ op'.staged = op.staged
        BY <1>1, <2>1 DEF AddState, OpType
      <3>2. Has(mem', op.id, op.addr)
        BY <1>1, <1>2 DEF Has, Known
      <3>3. IndexLeft(op.create)'
        BY <1>1, <1>2, <3>1 DEF IInv, OpOK, IndexLeft
      <3>4. OpOK'
        BY <1>1, <3>1, <3>2, <3>3 DEF OpOK
      <3>5. Known(mem') = Known(mem) \cup {op.id}
        BY <1>1, <1>2 DEF Known
      <3>6. EnsureOK'
        BY <1>1, <1>2, <3>1, <3>5 DEF IInv, EnsureOK
      <3>7. InitOK'
        BY <1>1, <3>1 DEF InitOK
      <3> QED
        BY <1>1, <3>1, <3>4, <3>6, <3>7
    <2>2. CASE AddStateFails
      BY <2>2, OpReturned DEF AddStateFails, Fails
    <2> QED
      BY <1>1, <2>1, <2>2
  <1>5. TypeOK'
    <2>1. disk' \in States
      BY <1>1, <1>2
    <2> QED
      BY <1>1, <1>2, <1>3, <1>4, <2>1, Types, TypesNext DEF IInv
  <1>6. OwnOK'
    <2>1. ASSUME NEW i \in IDs, NEW b \in Addresses, Claim(i, b)' PROVE Claim(i, b)
      <3>1. CASE i = op.id
        BY <1>1, <1>2, <1>3, <1>4, <2>1, <3>1 DEF Claim
      <3>2. CASE i # op.id
        BY <1>1, <1>2, <1>3, <1>4, <2>1, <3>2 DEF Claim
      <3> QED
        BY <3>1, <3>2
    <2>2. disk.index <= disk'.index /\ disk'.index <= mem'.index
      BY <1>1, <1>2
    <2> QED
      BY <1>5, <2>1, <2>2, OwnKept DEF IInv
  <1>7. HubOK'
    <2> SUFFICES ASSUME "save" \notin Faults PROVE HubOK'
      BY DEF HubOK
    <2>1. \A i \in Known(mem') : i # op.id => i \in Known(mem) /\ mem'.thing[i] = mem.thing[i]
      BY <1>2 DEF Known
    <2>2. \A i \in Known(mem') : mem'.thing[i].sum # 0 => hub'[mem'.thing[i].addr] # 0
      BY <1>1, <1>2, <2>1 DEF IInv, HubOK
    <2>3. \A b \in Addresses : things'[b] # None => hub'[b] # 0
      BY <1>1, <1>3 DEF IInv, HubOK
    <2>4. worker'.stage = "checksum" /\ worker'.thing.attached => hub'[worker'.addr] # 0
      BY <1>1, <1>3 DEF IInv, HubOK
    <2> QED
      BY <1>2, <1>4, <2>2, <2>3, <2>4 DEF HubOK
  <1> QED
    BY <1>3, <1>4, <1>5, <1>6, <1>7 DEF IInv

\* The hub is told of a thing at an address that the thing claims.
LEMMA HubFacts ==
    ASSUME TypeOK, NEW i \in IDs, NEW a \in Addresses, NEW rep \in Sums,
           HubIncludes(i, a, rep), Claim(i, a)
    PROVE  /\ hub' \in [Addresses -> Sums \cup {0}] /\ owner' \in [Addresses -> IDs \cup {None}]
           /\ hub'[a] # 0 /\ \A b \in Addresses : hub[b] # 0 => hub'[b] # 0
           /\ \A b \in Addresses : owner'[b] \in IDs => Claim(owner'[b], b)
  <1>1. /\ hub \in [Addresses -> Sums \cup {0}] /\ owner \in [Addresses -> IDs \cup {None}]
        /\ rep # 0
    BY Types, Constants
  <1> QED
    BY <1>1 DEF HubIncludes, Claim

\* The report of a thing is sent, by createThing or by InitializeThings.
LEMMA IncludeStep ==
    ASSUME IInv, NEW rep \in Sums, NEW i \in IDs, Include(rep) \/ Reinclude(i, rep)
    PROVE  IInv'
  <1>1. /\ mem \in States /\ op \in OpType /\ disk.index \in Nat /\ TypeOK
        /\ op.kind # "none" /\ op.remove = {}
        /\ UNCHANGED <<mem, disk, things, initialized, worker, wedged, faults>>
    BY Types DEF IInv, Include, Reinclude, Initializing, At, States, OpOK
  <1>2. PICK k \in IDs, a \in Addresses :
          /\ Has(mem, k, a) /\ HubIncludes(k, a, rep)
          /\ op' \in OpType /\ op'.kind = op.kind /\ op'.stage = "checksum"
          /\ op'.id = k /\ op'.addr = a /\ op'.rep = rep /\ op'.remove = op.remove
          /\ op'.seeds = op.seeds /\ op'.staged = op.staged
          /\ op.stage # "add"
          /\ op.kind # "init" => op'.create = op.create
          /\ op.kind = "init" => op'.create = op.create \ {k} /\ op.stage = "next"
    <2>1. CASE Include(rep)
      <3>1. /\ Has(mem, op.id, op.addr) /\ op.stage = "include" /\ op.kind # "init"
            /\ HubIncludes(op.id, op.addr, rep)
            /\ op' = [op EXCEPT !.stage = "checksum", !.rep = rep]
        BY <2>1 DEF IInv, OpOK, Include, At
      <3>2. op.id \in IDs /\ op.addr \in Addresses
        BY <1>1, <3>1 DEF Has, Known, States, Records
      <3>3. /\ op' \in OpType /\ op'.kind = op.kind /\ op'.stage = "checksum"
            /\ op'.id = op.id /\ op'.addr = op.addr /\ op'.rep = rep
            /\ op'.remove = op.remove /\ op'.create = op.create
            /\ op'.seeds = op.seeds /\ op'.staged = op.staged
        BY <1>1, <3>1 DEF OpType
      <3> QED
        BY <3>1, <3>2, <3>3
    <2>2. CASE Reinclude(i, rep)
      <3> DEFINE b == mem.thing[i].addr
      <3>1. /\ op.kind = "init" /\ op.stage = "next" /\ i \in op.create
            /\ HubIncludes(i, b, rep)
            /\ op' = [op EXCEPT !.stage = "checksum", !.id = i, !.rep = rep,
                                !.addr = b, !.create = @ \ {i}]
        BY <2>2 DEF Reinclude, Initializing, At
      <3>2. Has(mem, i, b) /\ b \in Addresses
        BY <1>1, <3>1 DEF IInv, OpOK, Has, Known, States, Records
      <3> HIDE DEF b
      <3>3. /\ op' \in OpType /\ op'.kind = op.kind /\ op'.stage = "checksum"
            /\ op'.id = i /\ op'.addr = b /\ op'.rep = rep
            /\ op'.remove = op.remove /\ op'.create = op.create \ {i}
            /\ op'.seeds = op.seeds /\ op'.staged = op.staged
        BY <1>1, <3>1, <3>2 DEF OpType
      <3> QED
        BY <3>1, <3>2, <3>3
    <2> QED
      BY <2>1, <2>2
  <1>3. Claim(k, a)
    BY <1>2 DEF Claim, Has, Known
  <1>4. /\ hub' \in [Addresses -> Sums \cup {0}] /\ owner' \in [Addresses -> IDs \cup {None}]
        /\ hub'[a] # 0 /\ \A b \in Addresses : hub[b] # 0 => hub'[b] # 0
        /\ \A b \in Addresses : owner'[b] \in IDs => Claim(owner'[b], b)
    BY <1>1, <1>2, <1>3, HubFacts
  <1>5. TypeOK'
    BY <1>1, <1>2, <1>4, Types, TypesNext
  <1>6. OpOK'
    <2>1. op'.kind \in {"create", "ensure"} => IndexLeft(op.create)'
      BY <1>1, <1>2 DEF IInv, OpOK, IndexLeft
    <2>2. op'.kind = "init" => op'.create \subseteq Known(mem')
      BY <1>1, <1>2 DEF IInv, OpOK
    <2>3. /\ op'.kind # "init" => op'.staged = {}
          /\ \A t \in op'.staged : Has(mem', t.id, t.addr)
      BY <1>1, <1>2 DEF IInv, OpOK
    <2> QED
      BY <1>1, <1>2, <2>1, <2>2, <2>3 DEF OpOK
  <1>7. EnsureOK'
    BY <1>1, <1>2 DEF IInv, EnsureOK
  <1>8. InitOK'
    BY <1>1, <1>2 DEF IInv, InitOK
  <1>9. AttachedOK'
    BY <1>1 DEF IInv, AttachedOK
  <1>10. OwnOK'
    <2>1. ASSUME NEW j \in IDs, NEW b \in Addresses, Claim(j, b)' PROVE Claim(j, b)
      <3>1. CASE owner'[b] = j
        BY <1>4, <3>1
      <3>2. CASE owner'[b] # j
        BY <1>1, <1>2, <2>1, <3>2 DEF Claim
      <3> QED
        BY <3>1, <3>2
    <2> QED
      BY <1>1, <1>5, <2>1, OwnKept DEF IInv, OwnOK
  <1>11. HubOK'
    <2> SUFFICES ASSUME "save" \notin Faults PROVE HubOK'
      BY DEF HubOK
    <2>1. \A j \in Known(mem) : mem.thing[j].addr \in Addresses
      BY <1>1 DEF Known, States, Records
    <2>2. \A t \in op.staged : t.addr \in Addresses
      BY <1>1 DEF OpType
    <2>3. worker.stage # "idle" => worker.addr \in Addresses
      BY DEF IInv, AttachedOK
    <2> QED
      BY <1>1, <1>2, <1>4, <2>1, <2>2, <2>3 DEF IInv, HubOK
  <1> QED
    BY <1>5, <1>6, <1>7, <1>8, <1>9, <1>10, <1>11 DEF IInv

\* The factory or the transport fails.
LEMMA FailsStep ==
    ASSUME IInv, IncludeFails \/ \E i \in IDs : InitializeFails(i)
    PROVE  IInv'
  <1>1. /\ UNCHANGED <<mem, disk, things, initialized, worker, wedged, hub, owner>>
        /\ op' = Returned("error") /\ faults' \in 0..MaxFaults
        /\ disk.index \in Nat /\ TypeOK
    BY Types, Constants DEF IInv, IncludeFails, InitializeFails, Fails, Fault, States
  <1>2. /\ op' \in OpType /\ op'.stage = "error" /\ op'.staged = {}
        /\ OpOK' /\ EnsureOK' /\ InitOK'
    BY <1>1, OpReturned
  <1>3. TypeOK'
    BY <1>1, <1>2, Types, TypesNext
  <1>4. AttachedOK' /\ HubOK'
    BY <1>1, <1>2 DEF IInv, AttachedOK, HubOK
  <1>5. OwnOK'
    <2>1. \A i \in IDs, b \in Addresses : Claim(i, b)' => Claim(i, b)
      BY <1>1, <1>2 DEF Claim
    <2> QED
      BY <1>1, <1>3, <2>1, OwnKept DEF IInv, OwnOK
  <1> QED
    BY <1>2, <1>3, <1>4, <1>5 DEF IInv

\* The instance of an address is the one of a staged thing or the one before.
LEMMA RegisterFacts ==
    ASSUME things \in [Addresses -> Instances \cup {None}],
           NEW staged \in SUBSET [id : IDs, addr : Addresses, rep : Sums], Register(staged)
    PROVE  /\ things' \in [Addresses -> Instances \cup {None}]
           /\ \A a \in Addresses :
                \/ \E t \in staged : t.addr = a /\ things'[a] # None /\ things'[a].id = t.id
                \/ (\A t \in staged : t.addr # a) /\ things'[a] = things[a]
  <1>1. ASSUME NEW a \in Addresses, \E t \in staged : t.addr = a
        PROVE  /\ things'[a] \in Instances
               /\ \E t \in staged : t.addr = a /\ things'[a].id = t.id
    <2> DEFINE t == CHOOSE u \in staged : u.addr = a
    <2>1. t \in staged /\ t.addr = a
      BY <1>1
    <2>2. things'[a] = [id |-> t.id, rep |-> t.rep, attached |-> TRUE]
      BY <1>1 DEF Register
    <2> HIDE DEF t
    <2>3. things'[a] \in Instances /\ things'[a].id = t.id
      BY <2>1, <2>2 DEF Instances
    <2> QED
      BY <2>1, <2>3
  <1>2. ASSUME NEW a \in Addresses, \A t \in staged : t.addr # a
        PROVE  things'[a] = things[a]
    BY <1>2 DEF Register
  <1>3. things' = [a \in Addresses |-> things'[a]]
    BY DEF Register
  <1>4. \A a \in Addresses : things'[a] \in Instances \cup {None}
    BY <1>1, <1>2
  <1> QED
    BY <1>1, <1>2, <1>3, <1>4, Constants

\* Registered things have their records, and the hub knows them.
LEMMA RegisterKeeps ==
    ASSUME IInv, NEW staged \in SUBSET [id : IDs, addr : Addresses, rep : Sums],
           Register(staged), SameThings, UNCHANGED <<worker, hub>>,
           \A t \in staged : Has(mem, t.id, t.addr),
           "save" \notin Faults => \A t \in staged : hub[t.addr] # 0
    PROVE  /\ things' \in [Addresses -> Instances \cup {None}]
           /\ AttachedOK'
           /\ \A a \in Addresses : things'[a] # None => Claim(things'[a].id, a)
           /\ "save" \notin Faults => \A a \in Addresses : things'[a] # None => hub[a] # 0
  <1>1. /\ things \in [Addresses -> Instances \cup {None}] /\ worker \in WorkerType
        /\ \A a \in Addresses : things[a] # None => things[a].id \in IDs
    BY Types DEF IInv, Instances
  <1>2. /\ things' \in [Addresses -> Instances \cup {None}]
        /\ \A a \in Addresses :
             \/ \E t \in staged : t.addr = a /\ things'[a] # None /\ things'[a].id = t.id
             \/ things'[a] = things[a]
    BY <1>1, RegisterFacts
  <1>3. \A i \in IDs : \A a : Has(mem, i, a) => Has(mem', i, a)
    BY DEF Has, Known, SameThings
  <1>4. \A i, a : Has(mem, i, a) => i \in IDs /\ Claim(i, a)
    BY DEF Has, Known, Claim
  <1>5. ASSUME NEW a \in Addresses, things'[a] # None, things'[a].attached
        PROVE  Has(mem', things'[a].id, a)
    BY <1>1, <1>2, <1>3, <1>4, <1>5 DEF IInv, AttachedOK
  <1>6. AttachedOK'
    BY <1>3, <1>4, <1>5 DEF IInv, AttachedOK
  <1>7. \A a \in Addresses : things[a] # None => Claim(things[a].id, a)
    BY DEF Claim
  <1>8. \A a \in Addresses : things'[a] # None => Claim(things'[a].id, a)
    BY <1>2, <1>4, <1>7
  <1>9. "save" \notin Faults => \A a \in Addresses : things'[a] # None => hub[a] # 0
    BY <1>2 DEF IInv, HubOK
  <1> QED
    BY <1>2, <1>6, <1>8, <1>9

\* The checksum is saved, and the thing is registered or kept for the end.
LEMMA ChecksumStep ==
    ASSUME IInv, SetChecksum
    PROVE  IInv'
  <1>1. /\ TypeOK /\ mem \in States /\ disk \in States /\ op \in OpType
        /\ things \in [Addresses -> Instances \cup {None}] /\ faults \in 0..MaxFaults
        /\ worker \in WorkerType
        /\ disk.index \in Nat /\ mem.index \in Nat
        /\ op.kind # "none" /\ op.stage = "checksum" /\ op.rep \in Sums
        /\ Has(mem, op.id, op.addr) /\ op.remove = {}
        /\ UNCHANGED <<initialized, worker, wedged, hub, owner, faults>>
    BY Types DEF IInv, SetChecksum, At, States, OpOK, Persist
  <1>2. /\ op.id \in Known(mem) /\ op.id \in IDs /\ op.addr \in Addresses
        /\ mem.thing[op.id].addr = op.addr
    BY <1>1 DEF Has, Known, States, Records
  <1>3. /\ mem' \in States /\ disk' = mem' /\ SameThings
        /\ mem'.index = mem.index
        /\ mem'.thing[op.id].addr = op.addr /\ mem'.thing[op.id].sum = op.rep
        /\ \A j \in IDs \ {op.id} : mem'.thing[j] = mem.thing[j]
    <2>1. mem' = Summed(op.id, op.rep) /\ disk' = mem'
      BY DEF SetChecksum, Persist
    <2> QED
      BY <1>1, <1>2, <2>1, SummedFacts DEF SameThings, Known
  <1>4. /\ Known(mem') = Known(mem)
        /\ \A j \in IDs : \A a : Has(mem', j, a) <=> Has(mem, j, a)
    BY <1>3 DEF Known, SameThings, Has
  <1> DEFINE built == [id |-> op.id, addr |-> op.addr, rep |-> op.rep]
  <1>5. built \in [id : IDs, addr : Addresses, rep : Sums]
        /\ built.id = op.id /\ built.addr = op.addr
    BY <1>1, <1>2
  <1>6. /\ op' \in OpType /\ op'.kind = op.kind /\ op'.stage = "next"
        /\ op'.remove = {} /\ op'.create = op.create /\ op'.seeds = op.seeds
        /\ op'.staged = IF op.kind = "init" THEN op.staged \cup {built} ELSE op.staged
    <2> HIDE DEF built
    <2>1. op' = IF op.kind = "init"
                THEN [op EXCEPT !.stage = "next", !.staged = @ \cup {built}]
                ELSE [op EXCEPT !.stage = "next"]
      BY DEF SetChecksum, built
    <2>2. op.staged \cup {built} \in SUBSET [id : IDs, addr : Addresses, rep : Sums]
      BY <1>1, <1>5 DEF OpType
    <2> QED
      BY <1>1, <2>1, <2>2 DEF OpType
  <1>7. /\ op.kind = "init" => UNCHANGED things
        /\ op.kind # "init" => Register({built})
    BY DEF SetChecksum
  <1> HIDE DEF built
  <1>8. "save" \notin Faults => hub[built.addr] # 0
    BY <1>1, <1>5 DEF IInv, HubOK
  <1>9. /\ things' \in [Addresses -> Instances \cup {None}]
        /\ AttachedOK'
        /\ \A a \in Addresses : things'[a] # None => Claim(things'[a].id, a)
        /\ "save" \notin Faults => \A a \in Addresses : things'[a] # None => hub[a] # 0
    <2>1. CASE op.kind = "init"
      <3>1. AttachedOK'
        BY <1>1, <1>3, <1>7, <2>1, AttachedKept DEF IInv
      <3> QED
        BY <1>1, <1>7, <2>1, <3>1 DEF IInv, HubOK, Claim
    <2>2. CASE op.kind # "init"
      <3>1. /\ {built} \in SUBSET [id : IDs, addr : Addresses, rep : Sums]
            /\ \A t \in {built} : Has(mem, t.id, t.addr)
            /\ "save" \notin Faults => \A t \in {built} : hub[t.addr] # 0
        BY <1>1, <1>5, <1>8
      <3> QED
        BY <1>1, <1>3, <1>7, <2>2, <3>1, RegisterKeeps
    <2> QED
      BY <2>1, <2>2
  <1>10. TypeOK'
    BY <1>1, <1>3, <1>6, <1>9, Types, TypesNext
  <1>11. OpOK'
    <2>1. op'.kind \in {"create", "ensure"} => IndexLeft(op.create)'
      BY <1>3, <1>6 DEF IInv, OpOK, IndexLeft
    <2>2. op'.kind = "init" => op'.create \subseteq Known(mem')
      BY <1>4, <1>6 DEF IInv, OpOK
    <2>3. op'.kind # "init" => op'.staged = {}
      BY <1>6 DEF IInv, OpOK
    <2>4. \A t \in op'.staged : Has(mem', t.id, t.addr)
      BY <1>1, <1>2, <1>4, <1>5, <1>6 DEF IInv, OpOK, OpType
    <2> QED
      BY <1>1, <1>6, <2>1, <2>2, <2>3, <2>4 DEF OpOK
  <1>12. EnsureOK'
    BY <1>1, <1>3, <1>4, <1>6 DEF IInv, EnsureOK, SameThings, Known
  <1>13. InitOK'
    BY <1>1, <1>4, <1>5, <1>6 DEF IInv, InitOK
  <1>14. OwnOK'
    <2>1. ASSUME NEW j \in IDs, NEW b \in Addresses, Claim(j, b)' PROVE Claim(j, b)
      <3>1. CASE things'[b] # None /\ things'[b].id = j
        BY <1>9, <3>1
      <3>2. CASE ~(things'[b] # None /\ things'[b].id = j)
        BY <1>1, <1>3, <1>6, <2>1, <3>2 DEF Claim, SameThings
      <3> QED
        BY <3>1, <3>2
    <2>2. disk.index <= disk'.index /\ disk'.index <= mem'.index
      BY <1>1, <1>3 DEF IInv, OwnOK
    <2> QED
      BY <1>1, <1>10, <2>1, <2>2, OwnKept DEF IInv
  <1>15. HubOK'
    <2> SUFFICES ASSUME "save" \notin Faults PROVE HubOK'
      BY DEF HubOK
    <2>1. \A j \in Known(mem') : mem'.thing[j].sum # 0 => hub[mem'.thing[j].addr] # 0
      <3>1. hub[op.addr] # 0
        BY <1>5, <1>8
      <3>2. \A j \in Known(mem') : j # op.id => j \in Known(mem) /\ mem'.thing[j] = mem.thing[j]
        BY <1>3, <1>4 DEF Known
      <3> QED
        BY <1>3, <3>1, <3>2 DEF IInv, HubOK
    <2>2. \A t \in op'.staged : hub[t.addr] # 0
      BY <1>6, <1>8 DEF IInv, HubOK
    <2> QED
      BY <1>1, <1>3, <1>6, <1>9, <2>1, <2>2 DEF IInv, HubOK
  <1> QED
    BY <1>9, <1>10, <1>11, <1>12, <1>13, <1>14, <1>15 DEF IInv

\* A thing whose report is the one last sent is kept for the end.
LEMMA RebuildStep ==
    ASSUME IInv, NEW i \in IDs, NEW rep \in Sums, Rebuild(i, rep)
    PROVE  IInv'
  <1> DEFINE built == [id |-> i, rep |-> rep, addr |-> mem.thing[i].addr]
  <1>1. /\ TypeOK /\ mem \in States /\ op \in OpType /\ disk.index \in Nat
        /\ op.kind = "init" /\ op.stage = "next" /\ i \in op.create /\ op.remove = {}
        /\ mem.thing[i].sum = rep
        /\ i \in Known(mem) /\ Has(mem, i, mem.thing[i].addr)
        /\ op' = [op EXCEPT !.create = @ \ {i}, !.staged = @ \cup {built}]
        /\ UNCHANGED <<mem, disk, things, initialized, worker, wedged, hub, owner, faults>>
    BY Types DEF IInv, Rebuild, Initializing, Unchanged, At, States, OpOK, Has
  <1>2. /\ built \in [id : IDs, addr : Addresses, rep : Sums]
        /\ built.id = i /\ built.addr = mem.thing[i].addr
    BY <1>1 DEF Known, States, Records
  <1> HIDE DEF built
  <1>3. /\ op' \in OpType /\ op'.kind = "init" /\ op'.stage = "next" /\ op'.remove = {}
        /\ op'.create = op.create \ {i} /\ op'.staged = op.staged \cup {built}
    <2>1. op.staged \cup {built} \in SUBSET [id : IDs, addr : Addresses, rep : Sums]
      BY <1>1, <1>2 DEF OpType
    <2> QED
      BY <1>1, <2>1 DEF OpType
  <1>4. TypeOK'
    BY <1>1, <1>3, Types, TypesNext
  <1>5. OpOK'
    <2>1. \A t \in op'.staged : Has(mem', t.id, t.addr)
      BY <1>1, <1>2, <1>3 DEF IInv, OpOK
    <2>2. op'.create \subseteq Known(mem')
      BY <1>1, <1>3 DEF IInv, OpOK
    <2> QED
      BY <1>3, <2>1, <2>2 DEF OpOK
  <1>6. EnsureOK' /\ InitOK'
    BY <1>1, <1>2, <1>3 DEF IInv, EnsureOK, InitOK
  <1>7. AttachedOK'
    BY <1>1 DEF IInv, AttachedOK
  <1>8. OwnOK'
    <2>1. \A j \in IDs, b \in Addresses : Claim(j, b)' => Claim(j, b)
      BY <1>1, <1>3 DEF Claim
    <2> QED
      BY <1>1, <1>4, <2>1, OwnKept DEF IInv, OwnOK
  <1>9. HubOK'
    BY <1>1, <1>2, <1>3, Constants DEF IInv, HubOK
  <1> QED
    BY <1>4, <1>5, <1>6, <1>7, <1>8, <1>9 DEF IInv

\* The operation returns nil.
LEMMA FinishStep ==
    ASSUME IInv, Finish
    PROVE  IInv'
  <1>1. /\ TypeOK /\ op \in OpType /\ disk.index \in Nat
        /\ things \in [Addresses -> Instances \cup {None}]
        /\ op' = Returned("ok")
        /\ UNCHANGED <<mem, disk, worker, wedged, hub, owner, faults>>
    BY Types DEF IInv, Finish, States
  <1>2. /\ op' \in OpType /\ op'.stage = "ok" /\ op'.staged = {}
        /\ OpOK' /\ EnsureOK' /\ InitOK'
    BY <1>1, OpReturned
  <1>3. initialized' \in BOOLEAN
    <2>1. initialized' = TRUE \/ initialized' = initialized
      BY DEF Finish
    <2> QED
      BY <1>1, <2>1, Types
  <1>4. /\ things' \in [Addresses -> Instances \cup {None}]
        /\ AttachedOK'
        /\ \A a \in Addresses : things'[a] # None => Claim(things'[a].id, a)
        /\ "save" \notin Faults => \A a \in Addresses : things'[a] # None => hub[a] # 0
    <2>1. CASE op.kind = "init"
      <3>1. Register(op.staged)
        BY <2>1 DEF Finish
      <3>2. /\ op.staged \in SUBSET [id : IDs, addr : Addresses, rep : Sums]
            /\ \A t \in op.staged : Has(mem, t.id, t.addr)
            /\ "save" \notin Faults => \A t \in op.staged : hub[t.addr] # 0
        BY <1>1 DEF IInv, OpOK, HubOK, OpType
      <3>3. SameThings
        BY <1>1 DEF SameThings
      <3> QED
        BY <1>1, <3>1, <3>2, <3>3, RegisterKeeps
    <2>2. CASE op.kind = "destroyAll"
      <3>1. things' = [a \in Addresses |-> None]
        BY <2>2 DEF Finish
      <3> QED
        BY <1>1, <3>1 DEF IInv, AttachedOK
    <2>3. CASE op.kind \notin {"init", "destroyAll"}
      <3>1. UNCHANGED things
        BY <2>3 DEF Finish
      <3> QED
        BY <1>1, <3>1 DEF IInv, AttachedOK, HubOK, Claim
    <2> QED
      BY <2>1, <2>2, <2>3
  <1>5. TypeOK'
    BY <1>1, <1>2, <1>3, <1>4, Types, TypesNext
  <1>6. OwnOK'
    <2>1. ASSUME NEW j \in IDs, NEW b \in Addresses, Claim(j, b)' PROVE Claim(j, b)
      <3>1. CASE things'[b] # None /\ things'[b].id = j
        BY <1>4, <3>1
      <3>2. CASE ~(things'[b] # None /\ things'[b].id = j)
        BY <1>1, <1>2, <2>1, <3>2 DEF Claim
      <3> QED
        BY <3>1, <3>2
    <2> QED
      BY <1>1, <1>5, <2>1, OwnKept DEF IInv, OwnOK
  <1>7. HubOK'
    BY <1>1, <1>2, <1>4 DEF IInv, HubOK
  <1> QED
    BY <1>2, <1>4, <1>5, <1>6, <1>7 DEF IInv

\* A checksum changes in the state, and the request of the worker may end.
LEMMA SumStep ==
    ASSUME IInv, op' = op, mem' \in States, SameThings, disk' \in {disk, mem'},
           faults' \in 0..MaxFaults, wedged' \in BOOLEAN, worker' \in {worker, NoRequest},
           UNCHANGED <<things, initialized, hub, owner>>, HubOK'
    PROVE  IInv'
  <1>1. /\ TypeOK /\ mem \in States /\ disk \in States /\ op \in OpType
        /\ worker \in WorkerType /\ disk.index \in Nat /\ mem.index \in Nat
        /\ disk.index <= mem.index
        /\ things \in [Addresses -> Instances \cup {None}]
    BY Types DEF IInv, States, OwnOK
  <1>2. worker' \in WorkerType /\ (worker' = worker \/ worker'.stage = "idle")
    BY <1>1 DEF NoRequest, WorkerType
  <1>3. TypeOK'
    <2>1. disk' \in States
      BY <1>1
    <2> QED
      BY <1>1, <1>2, <2>1, Types, TypesNext
  <1>4. OpOK' /\ EnsureOK' /\ InitOK'
    BY <1>1, OpKept DEF IInv
  <1>5. AttachedOK'
    <2>1. \A i, a : Has(mem, i, a) => Has(mem', i, a)
      BY DEF Has, Known, SameThings
    <2> QED
      BY <1>2, <2>1 DEF IInv, AttachedOK
  <1>6. OwnOK'
    <2>1. \A i \in IDs, b \in Addresses : Claim(i, b)' => Claim(i, b)
      BY <1>2 DEF Claim, SameThings
    <2>2. disk.index <= disk'.index /\ disk'.index <= mem'.index
      BY <1>1 DEF SameThings
    <2> QED
      BY <1>1, <1>3, <2>1, <2>2, OwnKept DEF IInv
  <1> QED
    BY <1>3, <1>4, <1>5, <1>6 DEF IInv

\* A checksum that could not be saved.
LEMMA ChecksumFailsStep ==
    ASSUME IInv, SetChecksumFails
    PROVE  IInv'
  <1>1. /\ mem \in States /\ faults \in 0..MaxFaults
        /\ op.id \in Known(mem) /\ op.rep \in Sums
        /\ PersistFails(Summed(op.id, op.rep))
        /\ UNCHANGED <<op, things, initialized, worker, hub, owner>> /\ wedged' = TRUE
    BY Types DEF IInv, SetChecksumFails, At, OpOK, Has
  <1>2. /\ mem' \in States /\ SameThings /\ disk' \in {disk, mem'}
        /\ faults' \in 0..MaxFaults /\ "save" \in Faults
    BY <1>1, SummedFacts, SaveFacts DEF PersistFails, Fault, SameThings, Known
  <1>3. HubOK'
    BY <1>2 DEF HubOK
  <1>4. wedged' \in BOOLEAN
    BY <1>1
  <1> QED
    BY <1>1, <1>2, <1>3, <1>4, SumStep

\* The worker that was asked for a report.
LEMMA ReportStep == IInv /\ Report => IInv'
  <1> SUFFICES ASSUME IInv, Report PROVE IInv'
    OBVIOUS
  <1>1. /\ TypeOK /\ mem \in States /\ disk \in States /\ op \in OpType
        /\ worker \in WorkerType /\ disk.index \in Nat /\ faults \in 0..MaxFaults
        /\ things \in [Addresses -> Instances \cup {None}] /\ wedged \in BOOLEAN
    BY Types DEF IInv, States
  <1>2. CASE \E a \in Addresses : ReportLookup(a)
    <2>1. PICK a \in Addresses : ReportLookup(a)
      BY <1>2
    <2>2. /\ worker' \in WorkerType /\ worker'.stage = "include" /\ worker'.addr = a
          /\ worker'.thing = things[a] /\ things[a] # None
          /\ UNCHANGED <<mem, disk, things, initialized, op, wedged, hub, owner, faults>>
      BY <1>1, <2>1 DEF ReportLookup, WorkerType
    <2>3. TypeOK'
      BY <1>1, <2>2, Types, TypesNext
    <2>4. OpOK' /\ EnsureOK' /\ InitOK'
      BY <1>1, <2>2, OpKept DEF IInv, SameThings
    <2>5. AttachedOK'
      BY <2>2 DEF IInv, AttachedOK
    <2>6. OwnOK'
      <3>1. \A i \in IDs, b \in Addresses : Claim(i, b)' => Claim(i, b)
        BY <2>2 DEF Claim
      <3> QED
        BY <1>1, <2>2, <2>3, <3>1, OwnKept DEF IInv, OwnOK
    <2>7. HubOK'
      BY <2>2 DEF IInv, HubOK
    <2> QED
      BY <2>3, <2>4, <2>5, <2>6, <2>7 DEF IInv
  <1>3. CASE ReportPublish
    <2>1. /\ worker.stage = "include" /\ worker.thing \in Instances /\ worker.addr \in Addresses
          /\ worker.thing.id \in IDs /\ worker.thing.rep \in Sums
          /\ HubIncludes(worker.thing.id, worker.addr, worker.thing.rep)
          /\ UNCHANGED <<mem, disk, things, initialized, op, wedged, faults>>
      BY <1>1, <1>3 DEF ReportPublish, IInv, AttachedOK, WorkerType, Instances
    <2>2. /\ worker' \in WorkerType /\ worker'.stage = "checksum"
          /\ worker'.addr = worker.addr /\ worker'.thing = worker.thing
      BY <1>1, <1>3 DEF ReportPublish, WorkerType
    <2>3. Claim(worker.thing.id, worker.addr)
      BY <2>1 DEF Claim
    <2>4. /\ hub' \in [Addresses -> Sums \cup {0}] /\ owner' \in [Addresses -> IDs \cup {None}]
          /\ hub'[worker.addr] # 0 /\ \A b \in Addresses : hub[b] # 0 => hub'[b] # 0
          /\ \A b \in Addresses : owner'[b] \in IDs => Claim(owner'[b], b)
      BY <1>1, <2>1, <2>3, HubFacts
    <2>5. TypeOK'
      BY <1>1, <2>1, <2>2, <2>4, Types, TypesNext
    <2>6. OpOK' /\ EnsureOK' /\ InitOK'
      BY <1>1, <2>1, OpKept DEF IInv, SameThings
    <2>7. AttachedOK'
      BY <2>1, <2>2 DEF IInv, AttachedOK
    <2>8. OwnOK'
      <3>1. ASSUME NEW j \in IDs, NEW b \in Addresses, Claim(j, b)' PROVE Claim(j, b)
        <4>1. CASE owner'[b] = j
          BY <2>4, <4>1
        <4>2. CASE owner'[b] # j
          BY <2>1, <2>2, <3>1, <4>2 DEF Claim
        <4> QED
          BY <4>1, <4>2
      <3> QED
        BY <1>1, <2>1, <2>5, <3>1, OwnKept DEF IInv, OwnOK
    <2>9. HubOK'
      <3> SUFFICES ASSUME "save" \notin Faults PROVE HubOK'
        BY DEF HubOK
      <3>1. \A j \in Known(mem) : mem.thing[j].addr \in Addresses
        BY <1>1 DEF Known, States, Records
      <3>2. \A t \in op.staged : t.addr \in Addresses
        BY <1>1 DEF OpType
      <3>3. op.stage = "checksum" => op.addr \in Addresses
        BY <3>1 DEF IInv, OpOK, Has
      <3> QED
        BY <2>1, <2>2, <2>4, <3>1, <3>2, <3>3 DEF IInv, HubOK
    <2> QED
      BY <2>5, <2>6, <2>7, <2>8, <2>9 DEF IInv
  <1>4. CASE ReportPublishFails
    <2>1. /\ UNCHANGED <<mem, disk, things, initialized, op, wedged, hub, owner>>
          /\ worker' = NoRequest /\ faults' \in 0..MaxFaults
      BY <1>1, <1>4, Constants DEF ReportPublishFails, Fault
    <2>2. SameThings
      BY <2>1 DEF SameThings
    <2>3. HubOK'
      BY <2>1 DEF IInv, HubOK, NoRequest
    <2> QED
      BY <1>1, <2>1, <2>2, <2>3, SumStep
  <1>5. ASSUME worker.stage = "checksum"
        PROVE  /\ ReportSummed \in States /\ ReportSummed.index = mem.index
               /\ \A i \in IDs : /\ ReportSummed.thing[i] = None <=> mem.thing[i] = None
                                 /\ mem.thing[i] # None =>
                                      /\ ReportSummed.thing[i].addr = mem.thing[i].addr
                                      /\ \/ ReportSummed.thing[i].sum = mem.thing[i].sum
                                         \/ "save" \notin Faults => hub[mem.thing[i].addr] # 0
    <2>1. CASE worker.thing.attached
      <3>1. /\ worker.thing.id \in Known(mem) /\ worker.thing.rep \in Sums
            /\ mem.thing[worker.thing.id].addr = worker.addr
            /\ "save" \notin Faults => hub[worker.addr] # 0
        BY <1>1, <1>5, <2>1 DEF IInv, AttachedOK, HubOK, Has, WorkerType, Instances
      <3>2. ReportSummed = Summed(worker.thing.id, worker.thing.rep)
        BY <2>1 DEF ReportSummed
      <3> QED
        BY <1>1, <3>1, <3>2, SummedFacts DEF Known
    <2>2. CASE ~worker.thing.attached
      BY <1>1, <2>2 DEF ReportSummed
    <2> QED
      BY <2>1, <2>2
  <1>6. CASE ReportChecksum
    <2>1. /\ worker.stage = "checksum" /\ mem' = ReportSummed /\ disk' = mem'
          /\ UNCHANGED <<things, initialized, op, wedged, hub, owner, faults>>
          /\ worker' = NoRequest
      BY <1>6 DEF ReportChecksum, Persist
    <2>2. mem' \in States /\ SameThings
      BY <1>5, <2>1 DEF SameThings
    <2>3. HubOK'
      <3> SUFFICES ASSUME "save" \notin Faults PROVE HubOK'
        BY DEF HubOK
      <3>1. \A i \in Known(mem') : mem'.thing[i].sum # 0 => hub[mem'.thing[i].addr] # 0
        BY <1>5, <2>1 DEF IInv, HubOK, Known
      <3> QED
        BY <2>1, <3>1 DEF IInv, HubOK, NoRequest
    <2> QED
      BY <1>1, <2>1, <2>2, <2>3, SumStep
  <1>7. CASE ReportChecksumFails
    <2>1. /\ worker.stage = "checksum" /\ mem' = ReportSummed /\ disk' \in {disk, mem'}
          /\ UNCHANGED <<things, initialized, op, worker, hub, owner>>
          /\ wedged' = TRUE /\ faults' \in 0..MaxFaults /\ "save" \in Faults
      BY <1>1, <1>7, SaveFacts DEF ReportChecksumFails, PersistFails, Fault
    <2>2. mem' \in States /\ SameThings
      BY <1>5, <2>1 DEF SameThings
    <2>3. HubOK'
      BY <2>1 DEF HubOK
    <2>4. wedged' \in BOOLEAN
      BY <2>1
    <2> QED
      BY <1>1, <2>1, <2>2, <2>3, <2>4, SumStep
  <1> QED
    BY <1>2, <1>3, <1>4, <1>6, <1>7 DEF Report

\* A crash leaves what is on disk and what the hub was told.
LEMMA RestartStep ==
    ASSUME IInv, Restart
    PROVE  IInv'
  <1>1. /\ TypeOK /\ disk \in States /\ disk.index \in Nat
        /\ mem' = disk /\ UNCHANGED <<disk, hub, owner>>
        /\ things' = [a \in Addresses |-> None]
        /\ op' = Returned("none") /\ worker' = NoRequest
        /\ faults' \in 0..MaxFaults
    BY Types, Constants DEF IInv, Restart, Fault, States
  <1>2. initialized' \in BOOLEAN /\ wedged' \in BOOLEAN
    BY DEF Restart
  <1>3. /\ op' \in OpType /\ op'.stage = "none" /\ op'.staged = {}
        /\ OpOK' /\ EnsureOK' /\ InitOK'
    BY <1>1, OpReturned
  <1>4. worker' \in WorkerType /\ worker'.stage = "idle"
    BY <1>1 DEF NoRequest, WorkerType
  <1>5. things' \in [Addresses -> Instances \cup {None}]
    BY <1>1
  <1>6. TypeOK'
    BY <1>1, <1>2, <1>3, <1>4, <1>5, Types, TypesNext
  <1>7. AttachedOK'
    BY <1>1, <1>4 DEF AttachedOK
  <1>8. OwnOK'
    <2>1. \A i \in IDs, b \in Addresses : Claim(i, b)' => Claim(i, b)
      BY <1>1, <1>3, <1>4 DEF Claim
    <2> QED
      BY <1>1, <1>6, <2>1, OwnKept DEF IInv
  <1>9. HubOK'
    BY <1>1, <1>3, <1>4 DEF IInv, HubOK
  <1> QED
    BY <1>3, <1>6, <1>7, <1>8, <1>9 DEF IInv

\* Every step preserves the invariant.
LEMMA NextIInv == IInv /\ [Next]_vars => IInv'
  <1> SUFFICES ASSUME IInv, [Next]_vars PROVE IInv'
    OBVIOUS
  <1>1. CASE Request \/ InitializeThings
    BY <1>1, RequestStep
  <1>2. CASE Step
    <2>1. CASE \E a \in Addresses : RemoveState(a) \/ RemoveStateFails(a)
      BY <2>1, RemoveStep
    <2>2. CASE Exclude \/ ExcludeFails
      BY <2>2, ExcludeStep
    <2>3. CASE \E i \in IDs : AcquireAddress(i) \/ AcquireAddressFails(i)
      BY <2>3, AcquireStep, AcquireFailsStep
    <2>4. CASE AddState \/ AddStateFails
      BY <2>4, AddStep
    <2>5. CASE \E rep \in Sums : Include(rep)
      <3>1. PICK rep \in Sums : Include(rep)
        BY <2>5
      <3>2. op.id \in IDs
        BY <3>1 DEF IInv, OpOK, Include, At, Has, Known
      <3> QED
        BY <3>1, <3>2, IncludeStep
    <2>6. CASE IncludeFails \/ \E i \in IDs : InitializeFails(i)
      BY <2>6, FailsStep
    <2>7. CASE SetChecksum \/ SetChecksumFails
      BY <2>7, ChecksumStep, ChecksumFailsStep
    <2>8. CASE \E i \in IDs, rep \in Sums : Reinclude(i, rep) \/ Rebuild(i, rep)
      BY <2>8, IncludeStep, RebuildStep
    <2>9. CASE Finish
      BY <2>9, FinishStep
    <2> QED
      BY <1>2, <2>1, <2>2, <2>3, <2>4, <2>5, <2>6, <2>7, <2>8, <2>9 DEF Step
  <1>3. CASE Report
    BY <1>3, ReportStep
  <1>4. CASE Restart
    BY <1>4, RestartStep
  <1>5. CASE UNCHANGED vars
    BY <1>5 DEF vars, IInv, TypeOK, OpOK, IndexLeft, AttachedOK, OwnOK, Claim, HubOK,
                EnsureOK, InitOK
  <1> QED
    BY <1>1, <1>2, <1>3, <1>4, <1>5 DEF Next
------------------------------------------------------------------------------
(***************************************************************************)
(* The theorems.                                                           *)
(***************************************************************************)

\* The invariant holds in every reachable state.
THEOREM AdapterInvariant == Spec => []IInv
  <1> QED
    BY InitIInv, NextIInv, PTL DEF Spec

\* No two records of the state, in memory or on disk, share an address, whatever
\* saves fail and whenever the process dies (byAddress, state.go:128).
THEOREM AdapterUniqueAddresses == Spec => [](TypeOK /\ UniqueAddresses)
  <1>1. ASSUME IInv PROVE UniqueAddresses
    <2>1. mem \in States /\ disk \in States
      BY <1>1, Types DEF IInv
    <2>2. ASSUME NEW s \in {mem, disk}, NEW i \in Known(s)
          PROVE  i \in IDs /\ s.thing[i].addr \in Addresses /\ Claim(i, s.thing[i].addr)
      BY <2>1 DEF Known, States, Records, Claim
    <2> QED
      BY <1>1, <2>2 DEF UniqueAddresses, IInv, OwnOK, Known
  <1>2. IInv => TypeOK /\ UniqueAddresses
    BY <1>1 DEF IInv
  <1> QED
    BY <1>2, AdapterInvariant, PTL

\* An address is never reported for a second thing (acquireAddress, state.go:60,
\* saves the index before the address is used).
THEOREM AdapterAddressOwnership == Spec => AddressOwnership
  <1> DEFINE Kept == \A a \in Addresses : owner[a] # None => owner'[a] = owner[a]
  <1>1. ASSUME IInv, IInv', Next PROVE Kept
    <2> SUFFICES ASSUME NEW a \in Addresses, owner[a] # None PROVE owner'[a] = owner[a]
      OBVIOUS
    <2>1. owner[a] \in IDs /\ Claim(owner[a], a)
      BY <1>1, Types DEF IInv, Claim
    <2>2. ASSUME NEW i, NEW b, NEW rep, HubIncludes(i, b, rep), i \in IDs, Claim(i, b)
          PROVE  owner'[a] = owner[a]
      <3>1. owner'[a] = IF a = b THEN i ELSE owner[a]
        BY <1>1, <2>2, Types DEF HubIncludes, IInv
      <3> QED
        BY <1>1, <2>1, <2>2, <3>1 DEF IInv, OwnOK
    <2>3. CASE \E rep \in Sums : Include(rep)
      <3>1. Has(mem, op.id, op.addr)
        BY <1>1, <2>3 DEF Include, At, IInv, OpOK
      <3>2. op.id \in IDs /\ Claim(op.id, op.addr)
        BY <3>1 DEF Has, Known, Claim
      <3> QED
        BY <2>2, <2>3, <3>2 DEF Include
    <2>4. CASE \E i \in IDs, rep \in Sums : Reinclude(i, rep)
      <3>1. PICK i \in IDs, rep \in Sums : Reinclude(i, rep)
        BY <2>4
      <3>2. i \in Known(mem)
        BY <1>1, <3>1 DEF Reinclude, Initializing, At, IInv, OpOK
      <3>3. Claim(i, mem.thing[i].addr)
        BY <3>2 DEF Known, Claim
      <3> QED
        BY <2>2, <3>1, <3>3 DEF Reinclude
    <2>5. CASE ReportPublish
      <3>1. worker.thing.id \in IDs /\ Claim(worker.thing.id, worker.addr)
        BY <1>1, <2>5, Types DEF ReportPublish, IInv, AttachedOK, Claim, WorkerType, Instances
      <3> QED
        BY <2>2, <2>5, <3>1 DEF ReportPublish
    <2>6. CASE UNCHANGED owner
      BY <2>6
    <2> QED
      BY <1>1, <2>3, <2>4, <2>5, <2>6
      DEF Next, Request, Step, Report, InitializeThings, CreateThing, DestroyThingByID,
          EnsureThings, DestroyThingByAddress, DestroyAllThings, RemoveState,
          RemoveStateFails, Exclude, ExcludeFails, AcquireAddress, AcquireAddressFails,
          AddState, AddStateFails, IncludeFails, SetChecksum, SetChecksumFails, Rebuild,
          InitializeFails, Finish, ReportLookup, ReportPublishFails, ReportChecksum,
          ReportChecksumFails, Restart, world
  <1>2. IInv /\ IInv' /\ [Next]_vars => [Kept]_vars
    BY <1>1
  <1> HIDE DEF Kept
  <1>3. []IInv /\ [][Next]_vars => [][Kept]_vars
    BY <1>2, PTL
  <1>4. Spec => [][Kept]_vars
    BY <1>3, AdapterInvariant, PTL DEF Spec
  <1> QED
    BY <1>4 DEF AddressOwnership, Kept

\* EnsureThings that returns nil has left exactly the things of its seeds in the
\* state (adapter.go:241).
THEOREM AdapterEnsureSettles == Spec => EnsureSettles
  <1> DEFINE Settled == op.kind = "ensure" /\ op' = Returned("ok") => Known(mem') = op.seeds
  <1>1. ASSUME IInv, Next PROVE Settled
    <2> SUFFICES ASSUME op.kind = "ensure", op' = Returned("ok") PROVE Known(mem') = op.seeds
      OBVIOUS
    <2>1. op'.kind = "none" /\ op'.stage = "ok"
      BY DEF Returned
    <2>2. op \in OpType
      BY <1>1, Types DEF IInv
    <2>3. CASE Finish
      <3>1. mem' = mem /\ op.remove = {} /\ op.create = {} /\ op.stage = "next"
        BY <2>3 DEF Finish, At
      <3>2. op.seeds \in SUBSET IDs
        BY <2>2 DEF OpType
      <3> QED
        BY <1>1, <3>1, <3>2 DEF IInv, EnsureOK, Known
    <2>4. CASE Request \/ InitializeThings
      BY <2>4 DEF Request, InitializeThings, CreateThing, DestroyThingByID, EnsureThings,
                  DestroyThingByAddress, DestroyAllThings, Begin
    <2>5. CASE Report
      BY <2>1, <2>5 DEF Report, ReportLookup, ReportPublish, ReportPublishFails,
                        ReportChecksum, ReportChecksumFails
    <2>6. CASE Restart
      BY <2>1, <2>6 DEF Restart, Returned
    <2>7. CASE Step /\ op' = Returned("error")
      BY <2>1, <2>7 DEF Returned
    <2>8. CASE Step /\ op'.kind = op.kind
      BY <2>1, <2>8
    <2>9. Step => Finish \/ op' = Returned("error") \/ op'.kind = op.kind
      BY <2>2 DEF Step, RemoveState, RemoveStateFails, Exclude, ExcludeFails, AcquireAddress,
                  AcquireAddressFails, AddState, AddStateFails, Include, IncludeFails,
                  SetChecksum, SetChecksumFails, Reinclude, Rebuild, InitializeFails, Fails,
                  OpType
    <2> QED
      BY <1>1, <2>3, <2>4, <2>5, <2>6, <2>7, <2>8, <2>9 DEF Next
  <1>2. IInv /\ [Next]_vars => [Settled]_vars
    BY <1>1
  <1> HIDE DEF Settled
  <1>3. []IInv /\ [][Next]_vars => [][Settled]_vars
    BY <1>2, PTL
  <1>4. Spec => [][Settled]_vars
    BY <1>3, AdapterInvariant, PTL DEF Spec
  <1> QED
    BY <1>4 DEF EnsureSettles, Settled

\* As long as no save fails, a registered thing is known to the hub: whatever is
\* skipped because its checksum did not change was really received
\* (SendInclusionReport, thing.go:173).
THEOREM AdapterRegisteredIncluded ==
    ASSUME "save" \notin Faults
    PROVE  Spec => []RegisteredIncluded
  <1>1. IInv => RegisteredIncluded
    BY DEF IInv, HubOK, RegisteredIncluded
  <1> QED
    BY <1>1, AdapterInvariant, PTL

\* As long as no save fails, InitializeThings that returns nil has registered
\* every thing of the state, and the hub knows each (adapter.go:207).
THEOREM AdapterInitializeRegistersAll ==
    ASSUME "save" \notin Faults
    PROVE  Spec => InitializeRegistersAll
  <1> DEFINE All == ~initialized /\ initialized' =>
                      \A i \in Known(mem') : LET a == mem'.thing[i].addr IN
                          things'[a] # None /\ things'[a].id = i /\ hub'[a] # 0
  <1>1. ASSUME IInv, Next PROVE All
    <2> SUFFICES ASSUME ~initialized, initialized', NEW i \in Known(mem')
                 PROVE  LET a == mem'.thing[i].addr IN
                        things'[a] # None /\ things'[a].id = i /\ hub'[a] # 0
      OBVIOUS
    <2>1. Finish /\ op.kind = "init"
      BY <1>1
      DEF Next, Request, Step, Report, InitializeThings, CreateThing, DestroyThingByID,
          EnsureThings, DestroyThingByAddress, DestroyAllThings, RemoveState,
          RemoveStateFails, Exclude, ExcludeFails, AcquireAddress, AcquireAddressFails,
          AddState, AddStateFails, Include, IncludeFails, SetChecksum, SetChecksumFails,
          Reinclude, Rebuild, InitializeFails, Finish, ReportLookup, ReportPublish,
          ReportPublishFails, ReportChecksum, ReportChecksumFails, Restart, world
    <2>2. /\ mem' = mem /\ hub' = hub /\ op.create = {} /\ op.stage = "next"
          /\ Register(op.staged)
      BY <2>1 DEF Finish, At
    <2>3. /\ op.staged \in SUBSET [id : IDs, addr : Addresses, rep : Sums]
          /\ things \in [Addresses -> Instances \cup {None}]
          /\ i \in IDs /\ mem.thing[i] # None
      BY <1>1, <2>2, Types DEF IInv, OpType, Known
    <2>4. PICK t \in op.staged : t.id = i
      BY <1>1, <2>1, <2>2 DEF IInv, InitOK
    <2>5. t.addr = mem.thing[i].addr /\ t.addr \in Addresses /\ hub[t.addr] # 0
      BY <1>1, <2>3, <2>4 DEF IInv, OpOK, HubOK, Has
    <2>6. PICK u \in op.staged : /\ u.addr = t.addr /\ things'[t.addr] # None
                                 /\ things'[t.addr].id = u.id
      BY <2>2, <2>3, <2>5, RegisterFacts
    <2>7. u.id \in IDs /\ Claim(u.id, t.addr) /\ Claim(i, t.addr)
      BY <1>1, <2>3, <2>5, <2>6 DEF IInv, OpOK, Has, Known, Claim
    <2>8. u.id = i
      BY <1>1, <2>3, <2>5, <2>7 DEF IInv, OwnOK
    <2> QED
      BY <2>2, <2>5, <2>6, <2>8
  <1>2. IInv /\ [Next]_vars => [All]_vars
    BY <1>1
  <1> HIDE DEF All
  <1>3. []IInv /\ [][Next]_vars => [][All]_vars
    BY <1>2, PTL
  <1>4. Spec => [][All]_vars
    BY <1>3, AdapterInvariant, PTL DEF Spec
  <1> QED
    BY <1>4 DEF InitializeRegistersAll, All
=============================================================================
