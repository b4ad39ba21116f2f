---------------------------- MODULE MCScheduler ----------------------------
(* Instances of Scheduler for TLC. *)
EXTENDS Scheduler, TLC

CONSTANTS r1, r2, r3, h1, h2, k1, k2, k3

(* Two pages of one host: two requests for one, one for the other. *)
SameHost == (k1 :> h1) @@ (k2 :> h1)
OneHost == {(r1 :> k1) @@ (r2 :> k1) @@ (r3 :> k2)}

(* A host the map knows already, and two pages of a host that is new. *)
WarmHost == (k1 :> h1) @@ (k2 :> h2) @@ (k3 :> h2)
WarmThenTwo == {(r1 :> k1) @@ (r2 :> k2) @@ (r3 :> k3)}
=============================================================================
