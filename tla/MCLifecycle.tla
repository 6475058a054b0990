----------------------------- MODULE MCLifecycle -----------------------------
(***************************************************************************)
(* Instances of Lifecycle for TLC: two kinds of state, and callers of      *)
(* WaitFor of which all but the first share a subscription ID.             *)
(***************************************************************************)
EXTENDS Lifecycle

MCInitial == [t \in {"auth", "health"} |-> "na"]
MCWant == [w \in Waiters |-> IF w = 3 THEN Lost ELSE <<"health", "ok">>]
SharedID == [u \in Waiters \cup {Watcher} |-> IF u \in {2, 3} THEN 2 ELSE u]
=============================================================================
