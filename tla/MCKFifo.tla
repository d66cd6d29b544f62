-------------------------------- MODULE MCKFifo --------------------------------
(***************************************************************************)
(* KFifo on small buffers.  The bytes are interchangeable.                 *)
(***************************************************************************)
EXTENDS KFifo, TLC

CONSTANTS b0, b1

MCByte == {b0, b1}
================================================================================
