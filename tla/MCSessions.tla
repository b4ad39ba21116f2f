----------------------------- MODULE MCSessions -----------------------------
(* Instances of Sessions for TLC. *)
EXTENDS Sessions, TLC

CONSTANTS a1, a2

(* A password after an assertion, exact or not, and a click amid a capture. *)
Pairs ==
  {(a1 :> x) @@ (a2 :> "password") : x \in {"exact", "landmark"}}
    \cup {(a1 :> "click") @@ (a2 :> "screenshot")}

Clicks == {[a \in Acts |-> "click"]}
=============================================================================
