------------------------------- MODULE MCRouter -------------------------------
(***************************************************************************)
(* Small instance of Router: three routings, of which two share a locker   *)
(* and one starts a factory reset.                                         *)
(***************************************************************************)
EXTENDS Router

MCMessages == {"cmd", "other", "reset"}
MCAccepts == <<{"cmd", "other"}, {"other"}, {"reset"}>>
MCLocker == <<"app", "app", None>>
=============================================================================
