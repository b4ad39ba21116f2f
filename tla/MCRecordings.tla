---------------------------- MODULE MCRecordings ----------------------------
(* Instances of Recordings for TLC. *)
EXTENDS Recordings, TLC

CONSTANTS m1, m2, r1, r2, s1

(* Beside a recording of m1 in the given session, one of m1 in a session of its
   own or one of m2 in the same session. *)
Beside(q) == (r1 :> [id |-> m1, given |-> s1]) @@ (r2 :> q)
Shared == {Beside([id |-> m2, given |-> s1])}
TwoStarts == Shared \cup {Beside([id |-> m1, given |-> None])}
Symmetry == Permutations(Stops)
=============================================================================
