----------------------------- MODULE MCTabPool -----------------------------
(* The instance of TabPool for TLC. *)
EXTENDS TabPool

CONSTANTS u1, u2, u3

(* One user holds the only tab, two wait for the capacity it gives back. *)
Contenders == {u1, u2, u3}
=============================================================================
