----------------------------- MODULE MCHttpConn -----------------------------
(***************************************************************************)
(* Instances of HttpConn for TLC: a handful of slots, so that the pool     *)
(* runs dry and drains happen.                                             *)
(***************************************************************************)
EXTENDS HttpConn
=============================================================================
