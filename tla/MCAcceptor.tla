----------------------------- MODULE MCAcceptor -----------------------------
(***************************************************************************)
(* Instances of Acceptor for TLC. The workers and the listeners are model  *)
(* values; w1 ... wn are interchangeable, the listeners are when all or    *)
(* none of them are reuseport.                                             *)
(***************************************************************************)
EXTENDS Acceptor, TLC

WorkerSymmetry == Permutations(Workers)
=============================================================================
