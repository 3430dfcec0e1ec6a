---------------------------- MODULE MCLifecycle -----------------------------
(***************************************************************************)
(* Instance of Lifecycle for TLC: two workers, a tcp and a unix listener.  *)
(***************************************************************************)
EXTENDS Lifecycle, TLC

MCKinds == <<"unix", "tcp">>
=============================================================================
