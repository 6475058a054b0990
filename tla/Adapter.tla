------------------------------- MODULE Adapter -------------------------------
(***************************************************************************)
(* The stateful device adapter: adapter/adapter.go, its persistent state   *)
(* (adapter/state.go) and the inclusion report of a thing                  *)
(* (adapter/thing.go).                                                     *)
(*                                                                         *)
(* Every operation of the adapter holds the adapter lock from its first to *)
(* its last step, so at most one is under way; its steps are separated     *)
(* where a call can fail or a crash can strike: each Save of the state,    *)
(* each call of the thing factory and each message published.  Beside it   *)
(* runs a router worker that answers cmd.thing.get_inclusion_report: it    *)
(* takes the adapter lock only to look the thing up.                       *)
(*                                                                         *)
(* The state is saved as DurableStore promises: the whole model, at once,  *)
(* and a crash loses nothing of it.  The hub that receives the reports,    *)
(* the thing factory and the transport are external.                       *)
(***************************************************************************)
EXTENDS Integers, FiniteSets

CONSTANTS
    IDs,            \* identifiers of things, chosen by the application
    CustomAddress,  \* the address the seed of a thing asks for, 0 for none
    Sums,           \* checksums of inclusion reports; 0 is "never sent"
    MaxIndex,       \* bound on the address index
    Faults,         \* the kinds of fault that occur
    MaxFaults,      \* bound on their number
    None

Addresses == (1..MaxIndex) \cup ({CustomAddress[i] : i \in IDs} \ {0})

\* What the state keeps of a thing.
Records == [addr : Addresses, sum : Sums \cup {0}]

\* A thing: its ID, the report the factory built, and whether its state proxy
\* still points into the adapter state.
Instances == [id : IDs, rep : Sums, attached : BOOLEAN]

ASSUME AdapterAssumption ==
    /\ MaxIndex \in Nat
    /\ MaxFaults \in Nat
    /\ Faults \subseteq {"save", "factory", "publish", "crash"}
    /\ Sums \subseteq Nat \ {0}
    /\ IsFiniteSet(IDs) /\ None \notin IDs \cup Records \cup Instances
    /\ CustomAddress \in [IDs -> Nat]
    \* Applications keep the addresses they choose apart from each other
    \* and from the ones the adapter hands out.
    /\ \A i \in IDs : CustomAddress[i] # 0 => CustomAddress[i] > MaxIndex
    /\ \A i, j \in IDs :
           CustomAddress[i] = CustomAddress[j] /\ CustomAddress[i] # 0 => i = j

VARIABLES
    mem,          \* adapterStateModel in memory: the address index, and the
                  \* address and checksum of each thing
    disk,         \* adapterStateModel as last saved
    things,       \* the registered thing instance of each address
    initialized,  \* adapter.initialized
    op,           \* the operation that holds the adapter lock
    worker,       \* the router worker that serves get_inclusion_report
    wedged,       \* a failed SetInclusionChecksum holds the state lock
    hub,          \* the last report the hub has for an address, 0 for none
    owner,        \* history: the thing the hub was first told of at an address
    faults        \* number of faults so far

vars == <<mem, disk, things, initialized, op, worker, wedged, hub, owner, faults>>

States == [index : 0..MaxIndex, thing : [IDs -> Records \cup {None}]]

Known(s) == {i \in IDs : s.thing[i] # None}

\* The records of these things leave the state: their proxies stay behind.
Cut(t, ids) ==
    IF t # None /\ t.id \in ids THEN [t EXCEPT !.attached = FALSE] ELSE t

Detach(ids) ==
    /\ things' = [a \in Addresses |-> Cut(things[a], ids)]
    /\ worker' = [worker EXCEPT !.thing = Cut(worker.thing, ids)]

AddressesOf(s, ids) == {s.thing[i].addr : i \in ids}

------------------------------------------------------------------------------
(***************************************************************************)
(* Faults and persistence.                                                 *)
(***************************************************************************)

Fault(k) == k \in Faults /\ faults < MaxFaults /\ faults' = faults + 1

\* The model is changed in memory first; Save writes all of it, or it fails
\* before or after the new contents are in place.
Persist(m) == mem' = m /\ disk' = m /\ UNCHANGED faults
PersistFails(m) == mem' = m /\ Fault("save") /\ disk' \in {disk, m}

\* The lock holder's bookkeeping: its kind, the step it is at, the thing, the
\* address and the report it works on, what is left to remove and to create,
\* the instances InitializeThings has built, and the seeds of EnsureThings.
Begin(kind, remove, create, seeds) ==
    /\ op.kind = "none"
    /\ ~wedged
    /\ op' = [kind |-> kind, stage |-> "next", id |-> None, addr |-> 0,
              rep |-> 0, remove |-> remove, create |-> create,
              staged |-> {}, seeds |-> seeds]

Returned(outcome) ==
    [kind |-> "none", stage |-> outcome, id |-> None, addr |-> 0, rep |-> 0,
     remove |-> {}, create |-> {}, staged |-> {}, seeds |-> {}]

At(stage) == op.kind # "none" /\ op.stage = stage

Fails == op' = Returned("error")
------------------------------------------------------------------------------
(***************************************************************************)
(* The operations: what each of them sets out to do.                       *)
(***************************************************************************)

world == <<mem, disk, things, initialized, worker, wedged, hub, owner, faults>>

\* The bound on the index: these things can all be given an address.
IndexLeft(ids) ==
    mem.index + Cardinality({i \in ids : CustomAddress[i] = 0}) <= MaxIndex

CreateThing(i) ==
    /\ IndexLeft({i})
    /\ Begin("create", {}, {i}, {})
    /\ UNCHANGED world

\* An EnsureThings that leaves the things without a seed alone.
EnsureOnlyCreates(seeds) ==
    /\ IndexLeft(seeds \ Known(mem))
    /\ Begin("ensure", {}, seeds \ Known(mem), seeds)
    /\ UNCHANGED world

EnsureThings(seeds) ==
    /\ IndexLeft(seeds \ Known(mem))
    /\ Begin("ensure", AddressesOf(mem, Known(mem) \ seeds),
             seeds \ Known(mem), seeds)
    /\ UNCHANGED world

DestroyThingByID(i) ==
    /\ i \in Known(mem)
    /\ Begin("destroy", AddressesOf(mem, {i}), {}, {})
    /\ UNCHANGED world

\* cmd.thing.delete: any address, known or not.
DestroyThingByAddress(a) == Begin("destroy", {a}, {}, {}) /\ UNCHANGED world

\* cmd.network.reset
DestroyAllThings ==
    /\ Begin("destroyAll", AddressesOf(mem, Known(mem)), {}, {})
    /\ UNCHANGED world

\* The initialization task, which runs until the adapter is initialized.
InitializeThings ==
    /\ ~initialized
    /\ Begin("init", {}, Known(mem), {})
    /\ UNCHANGED world
------------------------------------------------------------------------------
(***************************************************************************)
(* destroyThing.                                                           *)
(***************************************************************************)

\* A removal that gives the address back when it was the last.
WithoutReleasing(a) ==
    [index |-> IF a = mem.index THEN a - 1 ELSE mem.index,
     thing |-> [i \in IDs |-> IF mem.thing[i] # None /\ mem.thing[i].addr = a
                              THEN None ELSE mem.thing[i]]]

\* state.byAddress and state.remove.
Without(a) ==
    [mem EXCEPT !.thing =
        [i \in IDs |-> IF mem.thing[i] # None /\ mem.thing[i].addr = a
                       THEN None ELSE mem.thing[i]]]

Holders(a) == {i \in Known(mem) : mem.thing[i].addr = a}

RemoveState(a) ==
    /\ At("next")
    /\ ~wedged
    /\ a \in op.remove
    /\ op' = [op EXCEPT !.stage = "exclude", !.addr = a, !.remove = @ \ {a}]
    /\ IF Holders(a) # {}
       THEN Persist(Without(a)) /\ Detach(Holders(a))
       ELSE UNCHANGED <<mem, disk, things, worker, faults>>
    /\ UNCHANGED <<initialized, wedged, hub, owner>>

RemoveStateFails(a) ==
    /\ At("next")
    /\ ~wedged
    /\ a \in op.remove
    /\ Holders(a) # {}
    /\ PersistFails(Without(a))
    /\ Detach(Holders(a))
    /\ Fails
    /\ UNCHANGED <<initialized, wedged, hub, owner>>

\* A loop that does not get past the address it has removed.
ExcludeAgain ==
    /\ At("exclude")
    /\ things' = [things EXCEPT ![op.addr] = None]
    /\ hub' = [hub EXCEPT ![op.addr] = 0]
    /\ op' = [op EXCEPT !.stage = "next", !.remove = @ \cup {op.addr}]
    /\ UNCHANGED <<mem, disk, initialized, worker, wedged, owner, faults>>

\* unregisterThing, then the exclusion report.
Exclude ==
    /\ At("exclude")
    /\ things' = [things EXCEPT ![op.addr] = None]
    /\ hub' = [hub EXCEPT ![op.addr] = 0]
    /\ op' = [op EXCEPT !.stage = "next"]
    /\ UNCHANGED <<mem, disk, initialized, worker, wedged, owner, faults>>

ExcludeFails ==
    /\ At("exclude")
    /\ Fault("publish")
    /\ things' = [things EXCEPT ![op.addr] = None]
    /\ Fails
    /\ UNCHANGED <<mem, disk, initialized, worker, wedged, hub, owner>>
------------------------------------------------------------------------------
(***************************************************************************)
(* createThing.                                                            *)
(***************************************************************************)

\* What is left to create is reached when everything is removed.
Creating(i) ==
    /\ At("next")
    /\ ~wedged
    /\ op.kind \in {"create", "ensure"}
    /\ op.remove = {}
    /\ i \in op.create

\* An address taken from the number of things rather than from an index.
AcquireByCount(i) ==
    /\ Creating(i)
    /\ Persist(mem)
    /\ op' = [op EXCEPT !.stage = "add", !.id = i, !.create = @ \ {i},
                        !.addr = IF CustomAddress[i] = 0
                                 THEN Cardinality(Known(mem)) + 1
                                 ELSE CustomAddress[i]]
    /\ UNCHANGED <<things, initialized, worker, wedged, hub, owner>>

Indexed == [mem EXCEPT !.index = @ + 1]

\* The address of the seed, or else state.acquireAddress.
AcquireAddress(i) ==
    /\ Creating(i)
    /\ IF CustomAddress[i] # 0
       THEN /\ op' = [op EXCEPT !.stage = "add", !.id = i, !.create = @ \ {i},
                                !.addr = CustomAddress[i]]
            /\ UNCHANGED <<mem, disk, faults>>
       ELSE /\ Persist(Indexed)
            /\ op' = [op EXCEPT !.stage = "add", !.id = i, !.create = @ \ {i},
                                !.addr = Indexed.index]
    /\ UNCHANGED <<things, initialized, worker, wedged, hub, owner>>

AcquireAddressFails(i) ==
    /\ Creating(i)
    /\ CustomAddress[i] = 0
    /\ PersistFails(Indexed)
    /\ Fails
    /\ UNCHANGED <<things, initialized, worker, wedged, hub, owner>>

\* state.add replaces the record of a thing that is already known.
Added == [mem EXCEPT !.thing[op.id] = [addr |-> op.addr, sum |-> 0]]

AddState ==
    /\ At("add")
    /\ ~wedged
    /\ Persist(Added)
    /\ Detach({op.id})
    /\ op' = [op EXCEPT !.stage = "include"]
    /\ UNCHANGED <<initialized, wedged, hub, owner>>

AddStateFails ==
    /\ At("add")
    /\ ~wedged
    /\ PersistFails(Added)
    /\ Detach({op.id})
    /\ Fails
    /\ UNCHANGED <<initialized, wedged, hub, owner>>

\* The hub receives the inclusion report of thing i at address a.
HubIncludes(i, a, rep) ==
    /\ hub' = [hub EXCEPT ![a] = rep]
    /\ owner' = [owner EXCEPT ![a] = i]

\* The factory builds the thing and SendInclusionReport(true) publishes its
\* report.
Include(rep) ==
    /\ At("include")
    /\ HubIncludes(op.id, op.addr, rep)
    /\ op' = [op EXCEPT !.stage = "checksum", !.rep = rep]
    /\ UNCHANGED <<mem, disk, things, initialized, worker, wedged, faults>>

\* The factory or the transport returns an error: the state record stays.
IncludeFails ==
    /\ At("include")
    /\ Fault("factory") \/ Fault("publish")
    /\ Fails
    /\ UNCHANGED <<mem, disk, things, initialized, worker, wedged, hub, owner>>

Summed(i, rep) == [mem EXCEPT !.thing[i].sum = rep]

\* registerThing of an instance for every staged thing.
Register(staged) ==
    things' = [a \in Addresses |->
                 IF \E t \in staged : t.addr = a
                 THEN LET t == CHOOSE u \in staged : u.addr = a
                      IN  [id |-> t.id, rep |-> t.rep, attached |-> TRUE]
                 ELSE things[a]]

\* SetInclusionChecksum persists the checksum.  createThing registers the
\* thing; InitializeThings keeps it until all are built.
SetChecksum ==
    LET built == {[id |-> op.id, addr |-> op.addr, rep |-> op.rep]} IN
    /\ At("checksum")
    /\ ~wedged
    /\ Persist(Summed(op.id, op.rep))
    /\ IF op.kind = "init"
       THEN /\ op' = [op EXCEPT !.stage = "next", !.staged = @ \cup built]
            /\ UNCHANGED things
       ELSE /\ op' = [op EXCEPT !.stage = "next"]
            /\ Register(built)
    /\ UNCHANGED <<initialized, worker, wedged, hub, owner>>

\* Save fails: the error message asks for the ID of the thing, which locks
\* the state a second time, and the operation never returns.
SetChecksumFails ==
    /\ At("checksum")
    /\ ~wedged
    /\ PersistFails(Summed(op.id, op.rep))
    /\ wedged' = TRUE
    /\ UNCHANGED <<op, things, initialized, worker, hub, owner>>
------------------------------------------------------------------------------
(***************************************************************************)
(* InitializeThings: SendInclusionReport(false) for every known thing.     *)
(***************************************************************************)

Initializing(i) == At("next") /\ ~wedged /\ op.kind = "init" /\ i \in op.create

\* A comparison that takes "never sent" for "sent already".
UnchangedOrUnsent(i, rep) == mem.thing[i].sum \in {0, rep}

Unchanged(i, rep) == mem.thing[i].sum = rep

\* The report differs from the one last sent, and is published.
Reinclude(i, rep) ==
    /\ Initializing(i)
    /\ ~Unchanged(i, rep)
    /\ HubIncludes(i, mem.thing[i].addr, rep)
    /\ op' = [op EXCEPT !.stage = "checksum", !.id = i, !.rep = rep,
                        !.addr = mem.thing[i].addr, !.create = @ \ {i}]
    /\ UNCHANGED <<mem, disk, things, initialized, worker, wedged, faults>>

\* It does not differ, and is not sent.
Rebuild(i, rep) ==
    /\ Initializing(i)
    /\ Unchanged(i, rep)
    /\ op' = [op EXCEPT !.create = @ \ {i},
                        !.staged = @ \cup {[id |-> i, rep |-> rep,
                                            addr |-> mem.thing[i].addr]}]
    /\ UNCHANGED <<mem, disk, things, initialized, worker, wedged, hub, owner,
                   faults>>

InitializeFails(i) ==
    /\ Initializing(i)
    /\ Fault("factory") \/ Fault("publish")
    /\ Fails
    /\ UNCHANGED <<mem, disk, things, initialized, worker, wedged, hub, owner>>

\* An initialization that gives up on the first error and reports success.
FinishInitEarly ==
    /\ At("next")
    /\ op.remove = {}
    /\ op.kind = "init" \/ op.create = {}
    /\ op' = Returned("ok")
    /\ CASE op.kind = "init" -> Register(op.staged) /\ initialized' = TRUE
         [] op.kind = "destroyAll" -> things' = [a \in Addresses |-> None]
                                      /\ UNCHANGED initialized
         [] OTHER -> UNCHANGED <<things, initialized>>
    /\ UNCHANGED <<mem, disk, worker, wedged, hub, owner, faults>>

\* An initialization that does not note that it is done.
FinishForgetting ==
    /\ At("next")
    /\ op.remove = {}
    /\ op.create = {}
    /\ op' = Returned("ok")
    /\ CASE op.kind = "init" -> Register(op.staged)
         [] op.kind = "destroyAll" -> things' = [a \in Addresses |-> None]
         [] OTHER -> UNCHANGED things
    /\ UNCHANGED <<mem, disk, initialized, worker, wedged, hub, owner, faults>>

\* The operation has nothing left to do and returns nil.
Finish ==
    /\ At("next")
    /\ op.remove = {}
    /\ op.create = {}
    /\ op' = Returned("ok")
    /\ CASE op.kind = "init" -> Register(op.staged) /\ initialized' = TRUE
         [] op.kind = "destroyAll" -> things' = [a \in Addresses |-> None]
                                      /\ UNCHANGED initialized
         [] OTHER -> UNCHANGED <<things, initialized>>
    /\ UNCHANGED <<mem, disk, worker, wedged, hub, owner, faults>>
------------------------------------------------------------------------------
(***************************************************************************)
(* cmd.thing.get_inclusion_report, served by a router worker.              *)
(***************************************************************************)

NoRequest == [stage |-> "idle", addr |-> 0, thing |-> None]

ReportLookup(a) ==
    /\ worker.stage = "idle"
    /\ op.kind = "none"
    /\ things[a] # None
    /\ worker' = [stage |-> "include", addr |-> a, thing |-> things[a]]
    /\ UNCHANGED <<mem, disk, things, initialized, op, wedged, hub, owner, faults>>

ReportPublish ==
    /\ worker.stage = "include"
    /\ HubIncludes(worker.thing.id, worker.addr, worker.thing.rep)
    /\ worker' = [worker EXCEPT !.stage = "checksum"]
    /\ UNCHANGED <<mem, disk, things, initialized, op, wedged, faults>>

ReportPublishFails ==
    /\ worker.stage = "include"
    /\ Fault("publish")
    /\ worker' = NoRequest
    /\ UNCHANGED <<mem, disk, things, initialized, op, wedged, hub, owner>>

\* A proxy that is no longer attached writes to a record nobody reads; the
\* Save that follows writes the state as it is.
ReportSummed ==
    IF worker.thing.attached THEN Summed(worker.thing.id, worker.thing.rep)
                             ELSE mem

ReportChecksum ==
    /\ worker.stage = "checksum"
    /\ ~wedged
    /\ Persist(ReportSummed)
    /\ worker' = NoRequest
    /\ UNCHANGED <<things, initialized, op, wedged, hub, owner>>

ReportChecksumFails ==
    /\ worker.stage = "checksum"
    /\ ~wedged
    /\ PersistFails(ReportSummed)
    /\ wedged' = TRUE
    /\ UNCHANGED <<things, initialized, op, worker, hub, owner>>
------------------------------------------------------------------------------
\* The process dies and is started again: NewState loads what was saved.
Restart ==
    /\ Fault("crash")
    /\ mem' = disk
    /\ things' = [a \in Addresses |-> None]
    /\ initialized' = FALSE
    /\ op' = Returned("none")
    /\ worker' = NoRequest
    /\ wedged' = FALSE
    /\ UNCHANGED <<disk, hub, owner>>

Fresh == [index |-> 0, thing |-> [i \in IDs |-> None]]

Init ==
    /\ mem = Fresh
    /\ disk = Fresh
    /\ things = [a \in Addresses |-> None]
    /\ initialized = FALSE
    /\ op = Returned("none")
    /\ worker = NoRequest
    /\ wedged = FALSE
    /\ hub = [a \in Addresses |-> 0]
    /\ owner = [a \in Addresses |-> None]
    /\ faults = 0

Request ==
    \/ \E i \in IDs : CreateThing(i) \/ DestroyThingByID(i)
    \/ \E seeds \in SUBSET IDs : EnsureThings(seeds)
    \/ \E a \in Addresses : DestroyThingByAddress(a)
    \/ DestroyAllThings

Step ==
    \/ \E a \in Addresses : RemoveState(a) \/ RemoveStateFails(a)
    \/ Exclude \/ ExcludeFails
    \/ \E i \in IDs : AcquireAddress(i) \/ AcquireAddressFails(i)
    \/ AddState \/ AddStateFails
    \/ \E rep \in Sums : Include(rep)
    \/ IncludeFails
    \/ SetChecksum \/ SetChecksumFails
    \/ \E i \in IDs, rep \in Sums : Reinclude(i, rep) \/ Rebuild(i, rep)
    \/ \E i \in IDs : InitializeFails(i)
    \/ Finish

Report ==
    \/ \E a \in Addresses : ReportLookup(a)
    \/ ReportPublish \/ ReportPublishFails
    \/ ReportChecksum \/ ReportChecksumFails

Next == Request \/ InitializeThings \/ Step \/ Report \/ Restart

Spec == Init /\ [][Next]_vars

\* The lock holder and the worker keep running.  The initialization task runs
\* again and again while the adapter is not initialized (tasks.go:25), and the
\* lock it waits for is fair to those who wait (sync.RWMutex).
FairSpec ==
    /\ Spec
    /\ WF_vars(Step)
    /\ WF_vars(Report)
    /\ SF_vars(InitializeThings)
------------------------------------------------------------------------------
(***************************************************************************)
(* Properties.                                                             *)
(***************************************************************************)

TypeOK ==
    /\ mem \in States
    /\ disk \in States
    /\ things \in [Addresses -> Instances \cup {None}]
    /\ initialized \in BOOLEAN
    /\ wedged \in BOOLEAN
    /\ hub \in [Addresses -> Sums \cup {0}]
    /\ owner \in [Addresses -> IDs \cup {None}]
    /\ faults \in 0..MaxFaults
    /\ worker \in [stage : {"idle", "include", "checksum"},
                   addr : Addresses \cup {0}, thing : Instances \cup {None}]
    /\ op \in [kind : {"none", "create", "ensure", "destroy", "destroyAll", "init"},
               stage : {"none", "ok", "error", "next", "exclude", "add",
                        "include", "checksum"},
               id : IDs \cup {None}, addr : Addresses \cup {0},
               rep : Sums \cup {0}, remove : SUBSET Addresses,
               create : SUBSET IDs, seeds : SUBSET IDs,
               staged : SUBSET [id : IDs, addr : Addresses, rep : Sums]]

\* An address is never given to a second thing: once the hub was told of a
\* thing at an address, no other thing is ever reported there, whatever saves
\* fail and whenever the process dies (acquireAddress, state.go:60, saves the
\* index before the address is used).
AddressOwnership == [][\A a \in Addresses : owner[a] # None => owner'[a] = owner[a]]_vars

\* No two records of the state, in memory or on disk, share an address
\* (byAddress, state.go:128, returns the first it meets).
UniqueAddresses ==
    \A s \in {mem, disk} : \A i, j \in Known(s) :
        s.thing[i].addr = s.thing[j].addr => i = j

\* A registered thing is known to the hub: whatever is skipped because its
\* checksum did not change was really received before (SendInclusionReport,
\* thing.go:173).
RegisteredIncluded == \A a \in Addresses : things[a] # None => hub[a] # 0

\* An EnsureThings that returned nil left exactly the things of its seeds in
\* the state (adapter.go:241).
EnsureSettles ==
    [][op.kind = "ensure" /\ op' = Returned("ok") => Known(mem') = op.seeds]_vars

\* An InitializeThings that returned nil has registered every thing of the
\* state, and the hub knows each (adapter.go:207).
InitializeRegistersAll ==
    [][~initialized /\ initialized' =>
         \A i \in Known(mem') : LET a == mem'.thing[i].addr IN
             things'[a] # None /\ things'[a].id = i /\ hub'[a] # 0]_vars

\* An adapter that is not initialized, after its start or a crash, becomes so
\* once the factory and the transport stop failing, whatever else is asked of
\* it in the meantime (tasks.go:25).
EventuallyInitialized == ~initialized ~> initialized

\* Every operation returns, if only with an error: a failed Save is reported
\* as "failed to persist inclusion checksum" (state.go:252).
OperationsReturn == op.kind # "none" ~> op.kind = "none"
=============================================================================
