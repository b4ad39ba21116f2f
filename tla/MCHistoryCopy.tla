--------------------------- MODULE MCHistoryCopy ---------------------------
(* Instances of HistoryCopy for TLC. *)
EXTENDS HistoryCopy

CONSTANTS c1, c2, i1, i2

(* History alone, or with the log of an earlier session. *)
MCDisks == {<<i1, None, None>>, <<i1, i2, None>>}
=============================================================================
