--------------------------- MODULE MCMultiblockIO ---------------------------
(* Small instances of MultiblockIO for TLC.                                *)
EXTENDS MultiblockIO

CONSTANTS m1, m2

(* Two parts, the second not full; three full parts, up to the last offset *)
(* that fits.                                                              *)
Sizes == [m \in Messages |-> IF m = m1 THEN 3 ELSE 6]
=============================================================================
