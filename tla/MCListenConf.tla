---------------------------- MODULE MCListenConf ----------------------------
(***************************************************************************)
(* Instances of ListenConf for TLC. The addresses of the machine are       *)
(* interchangeable; ports are not, one of them is the default.             *)
(***************************************************************************)
EXTENDS ListenConf

Symmetry == Permutations(Ips)
=============================================================================
