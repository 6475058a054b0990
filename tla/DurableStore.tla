---------------------------- MODULE DurableStore ----------------------------
(***************************************************************************)
(* What a Storage service promises to its clients (storage/storage.go),    *)
(* without files: a value in memory and the value a restart would load.    *)
(* Saving makes the value in memory durable in one step, a reset makes the *)
(* base value durable in one step, and a crash loses nothing that is       *)
(* durable.  Storage is shown to implement this specification as long as   *)
(* faults hit only covered saves; Adapter uses its persisted state in      *)
(* exactly this way.                                                       *)
(***************************************************************************)
CONSTANTS Bodies,   \* the values a model can have
          Zero,     \* the value of a freshly constructed model
          Base      \* what a boot loads when nothing was ever saved

VARIABLES model,    \* the value in memory
          durable,  \* the value a boot would load
          running   \* TRUE while the process runs and its model is loaded

vars == <<model, durable, running>>

Init == /\ model = Zero
        /\ durable = Base
        /\ running = FALSE

\* A boot loads the durable value.
Boot == /\ ~running
        /\ running' = TRUE
        /\ model' = durable
        /\ UNCHANGED durable

\* A client changes its model in memory, or a reset reloads it.
Change == /\ running
          /\ model' \in Bodies
          /\ UNCHANGED <<durable, running>>

\* A save makes the value in memory durable.
Persist == /\ running
           /\ durable' = model
           /\ UNCHANGED <<model, running>>

\* A reset makes the base value durable; the memory follows on its own.
Erase == /\ running
         /\ durable' = Base
         /\ UNCHANGED <<model, running>>

\* A crash forgets the memory and nothing else.
Crash == /\ running
         /\ running' = FALSE
         /\ model' = Zero
         /\ UNCHANGED durable

Next == Boot \/ Change \/ Persist \/ Erase \/ Crash

Spec == Init /\ [][Next]_vars
=============================================================================
