------------------------------ MODULE MCStorage ------------------------------
(***************************************************************************)
(* Small instance of Storage: two fields, of which the defaults file sets  *)
(* one, with two values each.  Three different bodies are needed for a     *)
(* stale backup to differ from both the old and the new value.             *)
(***************************************************************************)
EXTENDS Storage

MCFields == {"fromDefaults", "other"}
MCDefaultFields == {"fromDefaults"}
MCVals == {0, 1}
MCZero == [f \in MCFields |-> 0]
MCDefaults == [f \in MCDefaultFields |-> 1]
=============================================================================
