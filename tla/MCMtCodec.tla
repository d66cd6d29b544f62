------------------------------- MODULE MCMtCodec -------------------------------
(***************************************************************************)
(* Module MtCodec for TLC: lists of none, one and two elements, and, typed *)
(* by hand, also the longest one and one that is too long.                 *)
(***************************************************************************)
EXTENDS MtCodec

MCFewCounts == 0 .. 2
================================================================================
