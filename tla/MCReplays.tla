------------------------------ MODULE MCReplays ------------------------------
(* Instances of Replays for TLC. *)
EXTENDS Replays, TLC

CONSTANTS m1, r1, r2, s1

(* A pause last or first, with an assertion and without, and a draft. *)
SomeLists == {<<"act", "pause">>, <<"guarded", "act">>, <<"bare">>}

(* Two replays of one macro: one in a session of its own, one in a client's. *)
OneMacro == {(r1 :> [id |-> m1, given |-> None]) @@ (r2 :> [id |-> m1, given |-> s1])}
Symmetry == Permutations(Resumes)
=============================================================================
