------------------------------- MODULE MCSlab -------------------------------
(***************************************************************************)
(* Instances of Slab for TLC: a page of chunks has two to give, behind the *)
(* one that holds its bitmap.                                              *)
(***************************************************************************)
EXTENDS Slab

ChunksOf == <<3>>
ReservedOf == <<1>>
=============================================================================
