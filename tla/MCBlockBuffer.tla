--------------------------- MODULE MCBlockBuffer ---------------------------
(***************************************************************************)
(* An instance of BlockBuffer for TLC.                                     *)
(***************************************************************************)
EXTENDS BlockBuffer

CONSTANT MaxPut \* bound: bytes of one put()

InputsUpToMaxPut == UNION {[1 .. n -> Bytes] : n \in 0 .. MaxPut}
=============================================================================
