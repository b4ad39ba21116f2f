----------------------------- MODULE MCManager -----------------------------
(* The instance of Manager for TLC. *)
EXTENDS Manager

CONSTANTS s1, s2, p1, l1

(* Two screenshots contend for the only capture slot and, with a session,
   for the only tab of each generation. *)
MCShots == {s1, s2}
MCPages == {}
MCLeases == {l1}
=============================================================================
